------------------------------ MODULE RangeRequest ------------------------------
(* parse_range and the lengths of stream_recording_handler (src/web.rs): which  *)
(* bytes of a recording a Range header gets.  A header is the first byte it     *)
(* asks for and the last one, or Open when that is left out ("bytes=7-").       *)
(* A header that is not of this form, as one without a first byte ("bytes=-7"), *)
(* is refused before any number is looked at, and of several ranges the first   *)
(* one is served.  Sizes are those of the index, which takes no empty file.     *)
EXTENDS Integers

CONSTANT U64  \* 2^64: sizes are less, and a bound that is not is refused

ASSUME RangeAssumption == U64 \in Nat

Open == -1

Refused == [ok |-> FALSE, start |-> 0, end |-> 0]

ParseRange(first, last, size) ==
    LET end == IF last = Open \/ last >= size THEN size - 1 ELSE last IN
        IF first >= U64 \/ last >= U64 \/ first >= size \/ end < first THEN Refused
        ELSE [ok |-> TRUE, start |-> first, end |-> end]

\* saturating_sub, and the length that the response announces and reads.
Monus(a, b) == IF a >= b THEN a - b ELSE 0
Length(start, end) == Monus(end, start) + 1

\* Without a header the whole file.
WholeRange(size) == [ok |-> TRUE, start |-> 0, end |-> Monus(size, 1)]

-------------------------------------------------------------------------------
(* What a client may expect: the bytes it asked for that the file has, or a    *)
(* refusal when there are none, or when its last byte is not a u64.             *)
Wanted(first, last, size) ==
    {b \in 0..(size - 1) : first <= b /\ (last = Open \/ b <= last)}

ServesWanted(first, last, size) ==
    LET r == ParseRange(first, last, size) IN
        /\ r.ok <=> Wanted(first, last, size) # {} /\ last < U64
        /\ r.ok => /\ r.start..r.end = Wanted(first, last, size)
                   /\ Length(r.start, r.end) \in 1..size
                   /\ r.start + Length(r.start, r.end) = r.end + 1

ServesWhole(size) ==
    LET r == WholeRange(size) IN
        r.start..r.end = 0..(size - 1) /\ Length(r.start, r.end) = size
===============================================================================
