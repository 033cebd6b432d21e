--------------------------- MODULE RangeRequestProofs ---------------------------
(* Proofs about RangeRequest for files and ranges of every size.               *)
EXTENDS RangeRequest, TLAPS

\* A range request is served with exactly the bytes of the file that it asks for,
\* the announced length is theirs, and it is refused only if there are none or if
\* its last byte does not fit in a u64, where others would be served to the end.
THEOREM RangeServed ==
    ASSUME NEW size \in 0..(U64 - 1), NEW first \in Nat, NEW last \in Nat \cup {Open}
    PROVE  ServesWanted(first, last, size)
<1> DEFINE end == IF last = Open \/ last >= size THEN size - 1 ELSE last
           r == ParseRange(first, last, size)
<1>0. /\ U64 \in Nat /\ size \in Nat /\ size < U64
  BY RangeAssumption
<1>1. end \in Int /\ end <= size - 1 /\ (last = Open \/ end <= last)
      /\ (last # Open => last \in Nat)
  BY <1>0 DEF Open
<1>2. \A b \in 0..(size - 1) : (last = Open \/ b <= last) <=> b <= end
  BY <1>0 DEF Open
<1>3. Wanted(first, last, size) = first..end
  BY <1>1, <1>2 DEF Wanted
<1>4. CASE last < U64 /\ (first >= size \/ end < first)
  <2>1. r = Refused
    BY <1>4 DEF ParseRange
  <2>2. first..end = {}
    BY <1>0, <1>1, <1>4
  <2> QED
    BY <1>3, <2>1, <2>2 DEF ServesWanted, Refused
<1>5. CASE last < U64 /\ ~(first >= size \/ end < first)
  <2>0. first < U64
    BY <1>0, <1>5
  <2>1. r = [ok |-> TRUE, start |-> first, end |-> end]
    BY <1>0, <1>1, <1>5, <2>0 DEF ParseRange
  <2>2. first <= end /\ first \in first..end
    BY <1>0, <1>1, <1>5
  <2>3. Length(first, end) = end - first + 1
    BY <1>1, <2>2 DEF Length, Monus
  <2>4. Length(first, end) \in 1..size /\ first + Length(first, end) = end + 1
    BY <1>1, <2>2, <2>3
  <2> HIDE DEF end
  <2> QED
    BY <1>3, <1>5, <2>1, <2>2, <2>4 DEF ServesWanted
<1>6. CASE ~(last < U64)
  <2>1. r = Refused
    BY <1>0, <1>6 DEF ParseRange, Open
  <2> QED
    BY <1>6, <2>1 DEF ServesWanted, Refused
<1> QED
  BY <1>4, <1>5, <1>6

\* A request without a range gets the whole file, which is not empty.
THEOREM WholeServed ==
    ASSUME NEW size \in Nat \ {0}
    PROVE  ServesWhole(size)
BY DEF ServesWhole, WholeRange, Length, Monus
===============================================================================
