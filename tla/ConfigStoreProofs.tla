--------------------------- MODULE ConfigStoreProofs ---------------------------
(* Proofs about ConfigStore, for every set of cameras, ports and requests at a   *)
(* time, and every number of restarts.                                           *)
EXTENDS ConfigStore, FiniteSetTheorems, TLAPS

-------------------------------------------------------------------------------
(* Types *)

CallRecord ==
    [pc : {"idle", "upsert", "load", "truncate", "write", "check", "keep", "drop"},
     op : {"none", "create", "edit", "delete", "keep", "drop"},
     cam : Cameras \cup ProviderIds \cup {None}, edit : Edits \cup {None},
     got : Record \cup Content \cup {None}, mixed : BOOLEAN, late : SUBSET Cameras]

\* What a request in flight has read so far.
Works(k) ==
    /\ k \in CallRecord
    /\ k.pc \in {"upsert", "load"} =>
         k.op = "edit" /\ k.cam \in Cameras /\ k.edit \in Edits /\ k.got \in Record
    /\ k.pc \in {"truncate", "write"} =>
         /\ k.op \in {"create", "edit", "delete"}
         /\ k.cam \in Cameras /\ k.edit \in Edits /\ k.got \in Content

PortsDiffer(rows) ==
    \A c, d \in Cameras : rows[c] # None /\ rows[d] # None /\ c # d
                          => rows[c].port # rows[d].port

StoreTypes ==
    /\ database \in BOOLEAN /\ marker \in BOOLEAN /\ up \in BOOLEAN
    /\ table \in Content /\ PortsDiffer(table)
    /\ file \in Content \cup {Torn}
    /\ providers \subseteq ProviderIds
    /\ call \in [Calls -> CallRecord] /\ \A s \in Calls : Works(call[s])
    /\ requests \in 0..MaxRequests /\ restarts \in 0..MaxRestarts
    /\ drawn \subseteq Cameras \cup ProviderIds
    /\ promised \in [Cameras -> Record \cup {None, Unknown}]

-------------------------------------------------------------------------------
(* The requests in flight *)

\* Request j is where it was as k; only its overlaps have become known.
SameWork(k, j) ==
    /\ k.pc = j.pc /\ k.op = j.op /\ k.cam = j.cam /\ k.edit = j.edit /\ k.got = j.got
    /\ j.mixed => k.mixed
    /\ j.late \subseteq k.late

\* An answered request holds nothing.
LEMMA IdleWorks == Works(Idle)
BY DEF Works, Idle, CallRecord

\* A camera that is changed is one.
LEMMA PatchTyped ==
    ASSUME NEW r \in Record, NEW e \in Edits
    PROVE  Patch(r, e) \in Record
<1>1. CASE e.field = "port"
  <2>1. e.value \in Ports
    BY <1>1 DEF Edits
  <2> QED
    BY <1>1, <2>1 DEF Patch, Record
<1>2. CASE e.field # "port"
  <2>1. e.value \in {Provider, Other}
    BY <1>2 DEF Edits
  <2> QED
    BY <1>2, <2>1 DEF Patch, Record
<1> QED
  BY <1>1, <1>2

\* What a load of the file gives.
LEMMA LoadTyped ==
    ASSUME StoreTypes
    PROVE  Load \in Content /\ \A c \in Cameras : Load[c] # None => Load[c] \in Record
BY DEF StoreTypes, Load, Empty, Content

\* An overlap adds a request and tells those it meets, and no more.
LEMMA Overlaps ==
    ASSUME StoreTypes, NEW s \in Calls, NEW k, Works(k), NEW others \in SUBSET Calls
    PROVE  LET new == Overlapping(s, k, others)
           IN /\ new \in [Calls -> CallRecord]
              /\ Works(new[s]) /\ SameWork(new[s], k)
              /\ new[s].mixed <=> k.mixed \/ others # {}
              /\ \A x \in Calls \ {s} :
                   /\ Works(new[x]) /\ SameWork(new[x], call[x])
                   /\ x \in others => new[x].mixed
<1> DEFINE new == Overlapping(s, k, others)
<1>1. k \in CallRecord
  BY DEF Works
<1>2. new[s] = [k EXCEPT !.mixed = k.mixed \/ others # {}]
  BY DEF Overlapping
<1>3. Works(new[s]) /\ SameWork(new[s], k) /\ (new[s].mixed <=> k.mixed \/ others # {})
  BY <1>1, <1>2 DEF Works, SameWork, CallRecord
<1>4. ASSUME NEW x \in Calls \ {s}
      PROVE  /\ Works(new[x]) /\ SameWork(new[x], call[x])
             /\ x \in others => new[x].mixed
  <2>1. new[x] = IF x \in others THEN [call[x] EXCEPT !.mixed = TRUE] ELSE call[x]
    BY DEF Overlapping
  <2>2. call[x] \in CallRecord /\ Works(call[x])
    BY DEF StoreTypes
  <2> HIDE DEF new
  <2>3. CASE x \notin others
    BY <2>1, <2>2, <2>3 DEF SameWork
  <2>4. CASE x \in others
    <3>1. new[x] = [call[x] EXCEPT !.mixed = TRUE]
      BY <2>1, <2>4
    <3>2. /\ new[x] \in CallRecord /\ new[x].mixed /\ new[x].late = call[x].late
          /\ new[x].pc = call[x].pc /\ new[x].op = call[x].op /\ new[x].cam = call[x].cam
          /\ new[x].edit = call[x].edit /\ new[x].got = call[x].got
      BY <2>2, <3>1 DEF CallRecord
    <3> QED
      BY <2>2, <3>2 DEF Works, SameWork
  <2> QED
    BY <2>3, <2>4
<1>5. new \in [Calls -> CallRecord]
  <2>1. \A x \in Calls : new[x] \in CallRecord
    BY <1>3, <1>4 DEF Works
  <2>2. new = [x \in Calls |-> new[x]]
    BY DEF Overlapping
  <2> HIDE DEF new
  <2> QED
    BY <2>1, <2>2
<1> QED
  BY <1>3, <1>4, <1>5

\* A camera that is written is known to every deletion of a provider under way.
LEMMA Writes ==
    ASSUME NEW calls \in [Calls -> CallRecord], \A x \in Calls : Works(calls[x]),
           NEW c \in Cameras
    PROVE  LET new == Written(c, calls)
           IN /\ new \in [Calls -> CallRecord]
              /\ \A x \in Calls : /\ Works(new[x]) /\ SameWork(new[x], calls[x])
                                  /\ new[x].pc = "drop" => c \in new[x].late
<1> DEFINE new == Written(c, calls)
<1>1. ASSUME NEW x \in Calls
      PROVE  /\ Works(new[x]) /\ SameWork(new[x], calls[x])
             /\ new[x].pc = "drop" => c \in new[x].late
  <2>1. new[x] = IF calls[x].pc = "drop" THEN [calls[x] EXCEPT !.late = calls[x].late \cup {c}]
                                         ELSE calls[x]
    BY DEF Written
  <2>2. calls[x] \in CallRecord
    OBVIOUS
  <2> QED
    BY <2>1, <2>2 DEF Works, SameWork, CallRecord
<1>2. new \in [Calls -> CallRecord]
  <2>1. \A x \in Calls : new[x] \in CallRecord
    BY <1>1 DEF Works
  <2>2. new = [x \in Calls |-> new[x]]
    BY DEF Written
  <2> HIDE DEF new
  <2> QED
    BY <2>1, <2>2
<1> QED
  BY <1>1, <1>2

\* A request that is answered, in the words of these lemmas.
LEMMA Answers ==
    ASSUME StoreTypes, NEW s \in Calls
    PROVE  LET new == [call EXCEPT ![s] = Idle]
           IN /\ new \in [Calls -> CallRecord]
              /\ new[s] = Idle
              /\ \A x \in Calls : Works(new[x])
              /\ \A x \in Calls \ {s} : new[x] = call[x]
<1>1. Idle \in CallRecord /\ Works(Idle)
  BY IdleWorks DEF Works
<1> QED
  BY <1>1 DEF StoreTypes

\* A call is as it was.
LEMMA SameItself == \A k : SameWork(k, k)
BY DEF SameWork

-------------------------------------------------------------------------------
(* The import *)

\* SetToSeqs names each camera of the file once.
LEMMA OrderOnto ==
    ASSUME StoreTypes, file # Torn, NEW order \in SetToSeqs(Listed)
    PROVE  \E n \in Nat : /\ order \in [1..n -> Listed] /\ Len(order) = n
                          /\ \A c \in Listed : \E k \in 1..n : order[k] = c
<1> DEFINE n == Cardinality(Listed)
<1>1. IsFiniteSet(Listed)
  BY StoreAssumption, FS_Subset DEF Listed
<1>2. n \in Nat
  BY <1>1, FS_CardinalityType
<1>3. order \in [1..n -> Listed] /\ \A i, j \in 1..n : i # j => order[i] # order[j]
  BY DEF SetToSeqs
<1>4. order \in Injection(1..n, Listed)
  BY <1>3 DEF Injection, IsInjective
<1>5. Cardinality(1..n) = n
  <2>1. 1 \in Int /\ n \in Int /\ (1 > n => n = 0) /\ n - 1 + 1 = n
    BY <1>2
  <2> HIDE DEF n
  <2> QED
    BY <2>1, FS_Interval
<1>6. order \in Surjection(1..n, Listed)
  BY <1>1, <1>4, <1>5, FS_Injection
<1>7. \A c \in Listed : \E k \in 1..n : order[k] = c
  BY <1>6 DEF Surjection
<1>8. Len(order) = n
  BY <1>2, <1>3
<1> QED
  BY <1>2, <1>3, <1>7, <1>8

\* The rows of an import that no row of the table or of the file stops have
\* different ports: the later of two was compared with the earlier.
LEMMA ImportIs ==
    ASSUME StoreTypes, file # Torn, NEW order \in SetToSeqs(Listed),
           \A i \in DOMAIN order : ~Clashes(Imported(order, i - 1), order[i], file[order[i]])
    PROVE  LET rows == Imported(order, Len(order))
           IN /\ rows \in Content /\ PortsDiffer(rows)
              /\ \A c \in Cameras : rows[c] = IF file[c] = None THEN table[c] ELSE file[c]
<1>1. PICK n \in Nat : /\ order \in [1..n -> Listed] /\ Len(order) = n
                       /\ \A c \in Listed : \E k \in 1..n : order[k] = c
  BY OrderOnto
<1>2. file \in Content /\ table \in Content /\ PortsDiffer(table)
  BY DEF StoreTypes
<1>3. DOMAIN order = 1..n /\ \A i \in 1..n : order[i] \in Cameras /\ file[order[i]] # None
  BY <1>1 DEF Listed
<1> DEFINE rows == Imported(order, n)
<1>4. \A i \in 1..n : ~Clashes(Imported(order, i - 1), order[i], file[order[i]])
  BY <1>3
<1>5. \A c \in Cameras :
        rows[c] = IF \E k \in 1..n : order[k] = c THEN file[c] ELSE table[c]
  BY DEF Imported
<1>6. \A c \in Cameras : (\E k \in 1..n : order[k] = c) <=> file[c] # None
  BY <1>1, <1>3 DEF Listed
<1>7. \A c \in Cameras : rows[c] = IF file[c] = None THEN table[c] ELSE file[c]
  BY <1>5, <1>6
<1>8. rows \in Content
  BY <1>2, <1>7 DEF Content, Imported
<1>9. ASSUME NEW c \in Cameras, NEW d \in Cameras, c # d,
             rows[c] # None, rows[d] # None, rows[c].port = rows[d].port
      PROVE  FALSE
  <2>1. ASSUME NEW a \in Cameras, NEW b \in Cameras, NEW i \in 1..n, a # b,
               order[i] = a, rows[a].port = rows[b].port,
               Imported(order, i - 1)[b] = rows[b], rows[b] # None
        PROVE  FALSE
    <3>1. ~Clashes(Imported(order, i - 1), a, file[a])
      BY <1>3, <1>4, <2>1
    <3>2. rows[a] = file[a]
      BY <1>3, <1>7, <2>1
    <3> HIDE DEF rows
    <3> QED
      BY <2>1, <3>1, <3>2 DEF Clashes
  <2>2. \A i \in 1..n, b \in Cameras :
          file[b] = None => Imported(order, i - 1)[b] = table[b]
    BY <1>6 DEF Imported
  <2>3. \A i, j \in 1..n : j < i => Imported(order, i - 1)[order[j]] = file[order[j]]
    <3>1. \A i, j \in 1..n : j < i => j \in 1..(i - 1)
      BY <1>1
    <3> QED
      BY <1>3, <3>1 DEF Imported
  <2>4. CASE file[c] = None /\ file[d] = None
    BY <1>2, <1>7, <1>9, <2>4 DEF PortsDiffer
  <2>5. CASE file[c] # None /\ file[d] = None
    <3>1. PICK i \in 1..n : order[i] = c
      BY <1>6, <2>5
    <3>2. Imported(order, i - 1)[d] = rows[d]
      BY <1>7, <2>2, <2>5
    <3> HIDE DEF rows
    <3> QED
      BY <1>9, <2>1, <3>1, <3>2
  <2>6. CASE file[c] = None /\ file[d] # None
    <3>1. PICK i \in 1..n : order[i] = d
      BY <1>6, <2>6
    <3>2. Imported(order, i - 1)[c] = rows[c]
      BY <1>7, <2>2, <2>6
    <3> HIDE DEF rows
    <3> QED
      BY <1>9, <2>1, <3>1, <3>2
  <2>7. CASE file[c] # None /\ file[d] # None
    <3>1. PICK i \in 1..n : order[i] = c
      BY <1>6, <2>7
    <3>2. PICK j \in 1..n : order[j] = d
      BY <1>6, <2>7
    <3>3. i < j \/ j < i
      BY <1>1, <1>9, <3>1, <3>2
    <3>4. i < j => Imported(order, j - 1)[c] = rows[c]
      BY <1>7, <2>3, <2>7, <3>1
    <3>5. j < i => Imported(order, i - 1)[d] = rows[d]
      BY <1>7, <2>3, <2>7, <3>2
    <3> HIDE DEF rows
    <3> QED
      BY <1>9, <2>1, <3>1, <3>2, <3>3, <3>4, <3>5
  <2> QED
    BY <2>4, <2>5, <2>6, <2>7
<1>10. PortsDiffer(rows)
  BY <1>9 DEF PortsDiffer
<1>11. Imported(order, Len(order)) = rows
  BY <1>1
<1> HIDE DEF rows
<1> QED
  BY <1>7, <1>8, <1>10, <1>11
-------------------------------------------------------------------------------
(* The invariant *)

\* A process that is down has no requests.
Quiet == ~up => \A s \in Calls : call[s] = Idle

\* Every id in the table, in the file and in a request has been drawn.
DrawnOnce ==
    /\ \A c \in Cameras : table[c] # None => c \in drawn
    /\ file # Torn => \A c \in Cameras : file[c] # None => c \in drawn
    /\ \A s \in Calls :
         /\ call[s].pc = "upsert" => call[s].cam \in drawn
         /\ call[s].pc \in {"truncate", "write"} =>
              \A c \in Cameras : call[s].got[c] # None => c \in drawn

\* A deletion that has passed its check knows of every camera under the provider.
LateKnown ==
    \A s \in Calls : call[s].pc = "drop" =>
        \A c \in Cameras : table[c] # None /\ table[c].brand = Provider => c \in call[s].late

\* Request k holds the camera as rows have it, with its own change.
EditOn(k, rows) == rows[k.cam] # None /\ k.got = Patch(rows[k.cam], k.edit)

\* The table holds what was answered, and an edit nobody overlaps what it holds.
RowsKept ==
    /\ database => \A c \in Cameras : promised[c] \in {Unknown, table[c]}
    /\ \A s \in Calls : call[s].pc = "upsert" =>
         /\ database
         /\ call[s].mixed \/ EditOn(call[s], table)
         /\ \A x \in Calls \ {s} : OnRow(x, call[s].cam) => call[s].mixed

StoreInv ==
    /\ StoreTypes /\ Quiet /\ DrawnOnce /\ LateKnown /\ RowsKept

-------------------------------------------------------------------------------
(* Steps that leave a part of it alone *)

\* No id is used that was not.
LEMMA DrawnStays ==
    ASSUME DrawnOnce, drawn \subseteq drawn', table' = table, file' = file,
           \A x \in Calls : \/ SameWork(call'[x], call[x])
                            \/ call'[x].pc \notin {"upsert", "truncate", "write"}
    PROVE  DrawnOnce'
BY DEF DrawnOnce, SameWork

\* The cameras are as the deletions know them.
LEMMA LateStays ==
    ASSUME LateKnown, table' = table,
           \A x \in Calls : SameWork(call'[x], call[x]) \/ call'[x].pc # "drop"
    PROVE  LateKnown'
BY DEF LateKnown, SameWork

\* The rows are as they were, and no request comes to one.
LEMMA RowsStay ==
    ASSUME RowsKept, database' = database, table' = table, database => promised' = promised,
           \A x \in Calls : SameWork(call'[x], call[x]) \/ call'[x].pc # "upsert"
    PROVE  RowsKept'
<1>1. ASSUME NEW s \in Calls, call'[s].pc = "upsert"
      PROVE  /\ database'
             /\ call'[s].mixed \/ EditOn(call'[s], table')
             /\ \A x \in Calls \ {s} : OnRow(x, call[s].cam)' => call'[s].mixed
  <2>1. SameWork(call'[s], call[s]) /\ call[s].pc = "upsert"
    BY <1>1 DEF SameWork
  <2>2. \A x \in Calls : OnRow(x, call[s].cam)' => OnRow(x, call[s].cam)
    BY <2>1 DEF OnRow, SameWork
  <2>3. call[s].mixed => call'[s].mixed
    BY <2>1 DEF SameWork
  <2>4. EditOn(call[s], table) => EditOn(call'[s], table')
    BY <2>1 DEF EditOn, SameWork
  <2> QED
    BY <2>1, <2>2, <2>3, <2>4 DEF RowsKept
<1> QED
  BY <1>1 DEF RowsKept

\* A step of a request is one of a process that runs.
LEMMA UpStays ==
    ASSUME Quiet, NEW s \in Calls, CameraStep(s) \/ ProviderStep(s)
    PROVE  up /\ up' = up /\ Quiet'
<1>1. Ask(s) \/ call[s].pc \in {"upsert", "load", "truncate", "write", "check", "keep", "drop"}
  <2>1. CameraStep(s) => Ask(s) \/ call[s].pc \in {"upsert", "load", "truncate", "write"}
    BY DEF CameraStep, CreateRow, DeleteRow, FindCamera, UpsertRow, LoadFile, LoadAgain,
           Truncate, Write
  <2>2. ProviderStep(s) => Ask(s) \/ call[s].pc \in {"check", "keep", "drop"}
    BY DEF ProviderStep, CreateProvider, FindProvider, Check, DropProvider
  <2> QED
    BY <2>1, <2>2
<1>2. up
  <2>1. Idle.pc = "idle"
    BY DEF Idle
  <2> QED
    BY <1>1, <2>1 DEF Quiet, Ask
<1>3. up' = up
  BY DEF CameraStep, ProviderStep, CreateRow, DeleteRow, FindCamera, UpsertRow,
         LoadFile, LoadAgain, Truncate, Write, CreateProvider, FindProvider, Check,
         DropProvider
<1> QED
  BY <1>2, <1>3 DEF Quiet

\* It is one request more at most.
LEMMA AskCounts ==
    ASSUME StoreTypes, NEW s \in Calls, Ask(s)
    PROVE  requests' \in 0..MaxRequests /\ call[s] = Idle
BY StoreAssumption DEF Ask, StoreTypes

-------------------------------------------------------------------------------
(* SQLite: the cameras *)

\* A camera is created under an id and a port nobody has.
LEMMA CreateRowInv ==
    ASSUME StoreInv, NEW s \in Calls, CreateRow(s)
    PROVE  StoreInv'
<1>1. PICK c \in Cameras, r \in Record :
        /\ database /\ Ask(s) /\ c \notin drawn /\ ~Clashes(table, c, r)
        /\ table' = [table EXCEPT ![c] = r]
        /\ promised' = [promised EXCEPT ![c] = r]
        /\ drawn' = drawn \cup {c}
        /\ call' = Written(c, call)
        /\ UNCHANGED <<database, marker, up, file, providers, restarts>>
  BY DEF CreateRow
<1>2. StoreTypes
  BY DEF StoreInv
<1>3. /\ call' \in [Calls -> CallRecord]
      /\ \A x \in Calls : /\ Works(call'[x]) /\ SameWork(call'[x], call[x])
                          /\ call'[x].pc = "drop" => c \in call'[x].late
  BY <1>1, <1>2, Writes DEF StoreTypes
<1>4. StoreTypes'
  <2>1. table' \in Content /\ promised' \in [Cameras -> Record \cup {None, Unknown}]
    BY <1>1, <1>2 DEF StoreTypes, Content
  <2>2. PortsDiffer(table')
    BY <1>1, <1>2 DEF PortsDiffer, Clashes, StoreTypes, Content
  <2>3. requests' \in 0..MaxRequests
    BY <1>1, <1>2, AskCounts
  <2> QED
    BY <1>1, <1>2, <1>3, <2>1, <2>2, <2>3 DEF StoreTypes
<1>5. DrawnOnce'
  BY <1>1, <1>2, <1>3 DEF StoreInv, DrawnOnce, SameWork, StoreTypes, Content
<1>6. LateKnown'
  <2>1. \A d \in Cameras \ {c} : table'[d] = table[d]
    BY <1>1, <1>2 DEF StoreTypes, Content
  <2> QED
    BY <1>3, <2>1 DEF StoreInv, LateKnown, SameWork
<1>7. RowsKept'
  <2>1. \A d \in Cameras : promised'[d] \in {Unknown, table'[d]}
    BY <1>1, <1>2 DEF StoreInv, RowsKept, StoreTypes, Content
  <2>2. ASSUME NEW x \in Calls, call'[x].pc = "upsert"
        PROVE  /\ call'[x].mixed \/ EditOn(call'[x], table')
               /\ \A y \in Calls \ {x} : OnRow(y, call[x].cam)' => call'[x].mixed
    <3>1. SameWork(call'[x], call[x]) /\ call[x].pc = "upsert"
      BY <1>3, <2>2 DEF SameWork
    <3>2. call[x].cam # c /\ call[x].cam \in Cameras
      BY <1>1, <1>2, <3>1 DEF StoreInv, DrawnOnce, StoreTypes, Works
    <3>3. table'[call[x].cam] = table[call[x].cam]
      BY <1>1, <1>2, <3>2 DEF StoreTypes, Content
    <3>4. EditOn(call[x], table) => EditOn(call'[x], table')
      BY <3>1, <3>3 DEF EditOn, SameWork
    <3>5. \A y \in Calls : OnRow(y, call[x].cam)' => OnRow(y, call[x].cam)
      BY <1>3, <3>1 DEF OnRow, SameWork
    <3>6. call[x].mixed => call'[x].mixed
      BY <3>1 DEF SameWork
    <3> QED
      BY <3>1, <3>4, <3>5, <3>6 DEF StoreInv, RowsKept
  <2> QED
    BY <1>1, <2>1, <2>2 DEF RowsKept
<1>8. Quiet'
  BY UpStays DEF StoreInv, CameraStep
<1> QED
  BY <1>4, <1>5, <1>6, <1>7, <1>8 DEF StoreInv

\* A camera is deleted; an edit of it that is under way will put it back.
LEMMA DeleteRowInv ==
    ASSUME StoreInv, NEW s \in Calls, DeleteRow(s)
    PROVE  StoreInv'
<1>1. PICK c \in Cameras :
        /\ database /\ Ask(s) /\ table[c] # None
        /\ table' = [table EXCEPT ![c] = None]
        /\ promised' = [promised EXCEPT ![c] = None]
        /\ call' = [x \in Calls |-> IF OnRow(x, c) THEN [call[x] EXCEPT !.mixed = TRUE]
                                                   ELSE call[x]]
        /\ UNCHANGED <<database, marker, up, file, providers, restarts, drawn>>
  BY DEF DeleteRow
<1>2. StoreTypes
  BY DEF StoreInv
<1>3. ASSUME NEW x \in Calls
      PROVE  /\ Works(call'[x]) /\ SameWork(call'[x], call[x])
             /\ OnRow(x, c) => call'[x].mixed
  <2>1. call[x] \in CallRecord /\ Works(call[x])
    BY <1>2 DEF StoreTypes
  <2>2. CASE ~OnRow(x, c)
    <3>1. call'[x] = call[x]
      BY <1>1, <2>2
    <3> QED
      BY <2>1, <2>2, <3>1, SameItself
  <2>3. CASE OnRow(x, c)
    <3>1. call'[x] = [call[x] EXCEPT !.mixed = TRUE]
      BY <1>1, <2>3
    <3>2. /\ call'[x] \in CallRecord /\ call'[x].mixed /\ call'[x].late = call[x].late
          /\ call'[x].pc = call[x].pc /\ call'[x].op = call[x].op
          /\ call'[x].cam = call[x].cam
          /\ call'[x].edit = call[x].edit /\ call'[x].got = call[x].got
      BY <2>1, <3>1 DEF CallRecord
    <3> QED
      BY <2>1, <3>2 DEF Works, SameWork
  <2> QED
    BY <2>2, <2>3
<1>4. StoreTypes'
  <2>1. table' \in Content /\ promised' \in [Cameras -> Record \cup {None, Unknown}]
    BY <1>1, <1>2 DEF StoreTypes, Content
  <2>2. PortsDiffer(table')
    BY <1>1, <1>2 DEF PortsDiffer, StoreTypes, Content
  <2>3. requests' \in 0..MaxRequests
    BY <1>1, <1>2, AskCounts
  <2>4. call' \in [Calls -> CallRecord]
    <3>1. \A x \in Calls : call'[x] \in CallRecord
      BY <1>3 DEF Works
    <3>2. call' = [x \in Calls |-> call'[x]]
      BY <1>1
    <3> QED
      BY <3>1, <3>2
  <2> QED
    BY <1>1, <1>2, <1>3, <2>1, <2>2, <2>3, <2>4 DEF StoreTypes
<1>5. \A d \in Cameras : table'[d] = IF d = c THEN None ELSE table[d]
  BY <1>1, <1>2 DEF StoreTypes, Content
<1>6. DrawnOnce' /\ LateKnown'
  BY <1>1, <1>3, <1>5 DEF StoreInv, DrawnOnce, LateKnown, SameWork
<1>7. RowsKept'
  <2>1. \A d \in Cameras : promised'[d] \in {Unknown, table'[d]}
    BY <1>1, <1>2, <1>5 DEF StoreInv, RowsKept, StoreTypes
  <2>2. ASSUME NEW x \in Calls, call'[x].pc = "upsert"
        PROVE  /\ call'[x].mixed \/ EditOn(call'[x], table')
               /\ \A y \in Calls \ {x} : OnRow(y, call[x].cam)' => call'[x].mixed
    <3>1. SameWork(call'[x], call[x]) /\ call[x].pc = "upsert"
      BY <1>3, <2>2 DEF SameWork
    <3>2. CASE call[x].cam = c
      BY <1>3, <3>1, <3>2 DEF OnRow
    <3>3. CASE call[x].cam # c
      <4>1. call[x].cam \in Cameras
        BY <1>2, <3>1 DEF StoreTypes, Works
      <4>2. EditOn(call[x], table) => EditOn(call'[x], table')
        BY <1>5, <3>1, <3>3, <4>1 DEF EditOn, SameWork
      <4>3. \A y \in Calls : OnRow(y, call[x].cam)' => OnRow(y, call[x].cam)
        BY <1>3, <3>1 DEF OnRow, SameWork
      <4>4. call[x].mixed => call'[x].mixed
        BY <3>1 DEF SameWork
      <4> QED
        BY <3>1, <4>2, <4>3, <4>4 DEF StoreInv, RowsKept
    <3> QED
      BY <3>2, <3>3
  <2> QED
    BY <1>1, <2>1, <2>2 DEF RowsKept
<1>8. Quiet'
  BY UpStays DEF StoreInv, CameraStep
<1> QED
  BY <1>4, <1>6, <1>7, <1>8 DEF StoreInv

\* The row is written as it was read, with the change; nobody else has worked on it.
LEMMA UpsertRowInv ==
    ASSUME StoreInv, NEW s \in Calls, UpsertRow(s)
    PROVE  StoreInv'
<1> DEFINE c == call[s].cam
<1>1. /\ call[s].pc = "upsert" /\ StoreTypes
      /\ UNCHANGED <<database, marker, up, file, providers, requests, restarts, drawn>>
  BY DEF UpsertRow, StoreInv
<1>2. /\ c \in Cameras /\ call[s].got \in Record /\ call[s].edit \in Edits
      /\ c \in drawn /\ database /\ (call[s].mixed \/ EditOn(call[s], table))
  BY <1>1 DEF StoreInv, StoreTypes, Works, DrawnOnce, RowsKept
<1> DEFINE answered == [call EXCEPT ![s] = Idle]
<1>3. /\ answered \in [Calls -> CallRecord] /\ answered[s] = Idle
      /\ \A x \in Calls : Works(answered[x])
      /\ \A x \in Calls \ {s} : answered[x] = call[x]
  BY <1>1, Answers
<1>4. Idle.pc = "idle"
  BY DEF Idle
<1>5. Quiet'
  BY UpStays DEF StoreInv, CameraStep
<1>6. CASE Answer(s) /\ UNCHANGED <<table, promised>>
  <2>1. /\ call' = answered
        /\ \A x \in Calls : SameWork(call'[x], call[x]) \/ (x = s /\ call'[x].pc = "idle")
    BY <1>3, <1>4, <1>6, SameItself DEF Answer
  <2>2. StoreTypes'
    BY <1>1, <1>3, <1>6, <2>1 DEF StoreTypes
  <2> HIDE DEF answered
  <2> QED
    BY <1>1, <1>5, <1>6, <2>1, <2>2, DrawnStays, LateStays, RowsStay
    DEF StoreInv
<1>7. CASE /\ ~Clashes(table, c, call[s].got)
           /\ table' = [table EXCEPT ![c] = call[s].got]
           /\ promised' = [promised EXCEPT ![c] = IF call[s].mixed THEN Unknown
                                                  ELSE Edited(c, call[s].edit)]
           /\ call' = Written(c, answered)
  <2> HIDE DEF answered, c
  <2>1. /\ call' \in [Calls -> CallRecord]
        /\ \A x \in Calls : /\ Works(call'[x]) /\ SameWork(call'[x], answered[x])
                            /\ call'[x].pc = "drop" => c \in call'[x].late
    BY <1>2, <1>3, <1>7, Writes
  <2>2. /\ call'[s].pc = "idle"
        /\ \A x \in Calls \ {s} : SameWork(call'[x], call[x])
    BY <1>3, <1>4, <2>1 DEF SameWork
  <2>3. \A d \in Cameras : /\ table'[d] = IF d = c THEN call[s].got ELSE table[d]
                           /\ d # c => promised'[d] = promised[d]
    BY <1>1, <1>7 DEF StoreTypes, Content
  <2>4. promised'[c] = IF call[s].mixed THEN Unknown ELSE Edited(c, call[s].edit)
    BY <1>1, <1>2, <1>7 DEF StoreTypes
  <2>5. promised'[c] \in Record \cup {None, Unknown}
    <3>1. promised[c] \notin {None, Unknown} => promised[c] \in Record
      BY <1>1, <1>2 DEF StoreTypes
    <3>2. promised[c] \notin {None, Unknown} => Patch(promised[c], call[s].edit) \in Record
      BY <1>2, <3>1, PatchTyped
    <3> QED
      BY <2>4, <3>2 DEF Edited
  <2>6. StoreTypes'
    <3>1. table' \in Content
      BY <1>1, <1>2, <1>7 DEF StoreTypes, Content
    <3>2. PortsDiffer(table')
      BY <1>1, <1>2, <1>7, <2>3 DEF PortsDiffer, Clashes, StoreTypes
    <3>3. promised' \in [Cameras -> Record \cup {None, Unknown}]
      BY <1>1, <1>7, <2>3, <2>5 DEF StoreTypes
    <3> QED
      BY <1>1, <2>1, <3>1, <3>2, <3>3 DEF StoreTypes
  <2>7. DrawnOnce'
    BY <1>1, <1>2, <2>2, <2>3 DEF StoreInv, DrawnOnce, SameWork
  <2>8. LateKnown'
    BY <2>1, <2>2, <2>3 DEF StoreInv, LateKnown, SameWork
  <2>9. RowsKept'
    <3>1. ASSUME NEW d \in Cameras PROVE promised'[d] \in {Unknown, table'[d]}
      <4>1. promised[d] \in {Unknown, table[d]}
        BY <1>2 DEF StoreInv, RowsKept
      <4>2. CASE d # c
        BY <2>3, <4>1, <4>2
      <4>3. CASE d = c /\ ~call[s].mixed /\ promised[c] \notin {None, Unknown}
        <5>1. call[s].got = Patch(table[c], call[s].edit)
          BY <1>2, <4>3 DEF EditOn, c
        <5>2. promised'[c] = Patch(table[c], call[s].edit)
          BY <2>4, <4>1, <4>3 DEF Edited
        <5> QED
          BY <2>3, <4>3, <5>1, <5>2
      <4>4. CASE d = c /\ (call[s].mixed \/ promised[c] \in {None, Unknown})
        BY <2>4, <4>4 DEF Edited
      <4> QED
        BY <4>2, <4>3, <4>4
    <3>2. ASSUME NEW x \in Calls, call'[x].pc = "upsert"
          PROVE  /\ call'[x].mixed \/ EditOn(call'[x], table')
                 /\ \A y \in Calls \ {x} : OnRow(y, call[x].cam)' => call'[x].mixed
      <4>1. x # s /\ SameWork(call'[x], call[x]) /\ call[x].pc = "upsert"
        BY <2>2, <3>2 DEF SameWork
      <4>2. call[x].mixed => call'[x].mixed
        BY <4>1 DEF SameWork
      <4>3. CASE call[x].cam = c
        <5>1. call[x].mixed
          BY <1>1, <4>1, <4>3 DEF StoreInv, RowsKept, OnRow, c
        <5> QED
          BY <4>2, <5>1
      <4>4. CASE call[x].cam # c
        <5>1. table'[call[x].cam] = table[call[x].cam]
          BY <1>1, <2>3, <4>1, <4>4 DEF StoreTypes, Works
        <5>2. EditOn(call[x], table) => EditOn(call'[x], table')
          BY <4>1, <5>1 DEF EditOn, SameWork
        <5>3. \A y \in Calls : OnRow(y, call[x].cam)' => OnRow(y, call[x].cam)
          BY <2>2, <4>1 DEF OnRow, SameWork
        <5> QED
          BY <4>1, <4>2, <5>2, <5>3 DEF StoreInv, RowsKept
      <4> QED
        BY <4>3, <4>4
    <3> QED
      BY <1>1, <1>2, <3>1, <3>2 DEF RowsKept
  <2> QED
    BY <1>5, <2>6, <2>7, <2>8, <2>9 DEF StoreInv
<1> QED
  BY <1>6, <1>7 DEF UpsertRow

-------------------------------------------------------------------------------
(* cameras.json *)

\* An edit starts from what the system of record has.
LEMMA FindCameraInv ==
    ASSUME StoreInv, NEW s \in Calls, FindCamera(s)
    PROVE  StoreInv'
<1>1. PICK c \in Cameras, e \in Edits :
        /\ Ask(s) /\ Store[c] # None
        /\ call' = Overlapping(s,
              [Idle EXCEPT !.pc = IF database THEN "upsert" ELSE "load",
                           !.op = "edit", !.cam = c, !.edit = e,
                           !.got = Patch(Store[c], e)],
              {x \in Calls : OnRow(x, c)})
        /\ UNCHANGED <<database, marker, up, table, file, providers, restarts, drawn, promised>>
  BY DEF FindCamera
<1>2. StoreTypes /\ requests' \in 0..MaxRequests /\ call[s] = Idle
  BY <1>1, AskCounts DEF StoreInv
<1> DEFINE k == [Idle EXCEPT !.pc = IF database THEN "upsert" ELSE "load",
                             !.op = "edit", !.cam = c, !.edit = e,
                             !.got = Patch(Store[c], e)]
           others == {x \in Calls : OnRow(x, c)}
<1>3. Store[c] \in Record
  BY <1>1, <1>2, LoadTyped DEF Store, StoreTypes, Content
<1>4. /\ k.pc = (IF database THEN "upsert" ELSE "load") /\ k.op = "edit" /\ k.cam = c
      /\ k.edit = e /\ k.got = Patch(Store[c], e) /\ k.mixed = FALSE /\ k.late = {}
  BY DEF Idle
<1>5. Patch(Store[c], e) \in Record
  BY <1>3, PatchTyped
<1>6. Works(k)
  <2>1. Idle \in CallRecord /\ k.pc \in {"upsert", "load"}
    BY <1>4, IdleWorks DEF Works
  <2>2. k \in CallRecord
    BY <1>5, <2>1 DEF CallRecord
  <2> HIDE DEF k
  <2> QED
    BY <1>4, <1>5, <2>2 DEF Works
<1>7. EditOn(k, Store)
  BY <1>1, <1>4 DEF EditOn
<1> HIDE DEF k
<1>8. call' = Overlapping(s, k, others) /\ others \in SUBSET Calls
  BY <1>1 DEF k
<1>9. /\ call' \in [Calls -> CallRecord]
      /\ Works(call'[s]) /\ SameWork(call'[s], k) /\ (call'[s].mixed <=> others # {})
      /\ \A x \in Calls \ {s} : /\ Works(call'[x]) /\ SameWork(call'[x], call[x])
                                /\ x \in others => call'[x].mixed
  <2>1. ~k.mixed
    BY <1>4
  <2> HIDE DEF others
  <2> QED
    BY <1>2, <1>6, <1>8, <2>1, Overlaps
<1>10. /\ call'[s].pc = (IF database THEN "upsert" ELSE "load")
       /\ call'[s].cam = c /\ EditOn(call'[s], Store)
  BY <1>4, <1>7, <1>9 DEF SameWork, EditOn
<1>11. StoreTypes'
  BY <1>1, <1>2, <1>9 DEF StoreTypes
<1>12. c \in drawn
  BY <1>1 DEF Store, Load, Empty, StoreInv, DrawnOnce
<1>13. DrawnOnce'
  <2>1. \A x \in Calls : call'[x].pc \in {"truncate", "write"} => SameWork(call'[x], call[x])
    BY <1>9, <1>10
  <2>2. \A x \in Calls : call'[x].pc = "upsert" =>
                          SameWork(call'[x], call[x]) \/ call'[x].cam = c
    BY <1>9, <1>10
  <2>3. \A x \in Calls : call'[x].pc = "upsert" => call'[x].cam \in drawn
    BY <1>12, <2>2 DEF StoreInv, DrawnOnce, SameWork
  <2>4. \A x \in Calls : call'[x].pc \in {"truncate", "write"} =>
           \A d \in Cameras : call'[x].got[d] # None => d \in drawn
    BY <2>1 DEF StoreInv, DrawnOnce, SameWork
  <2>5. table' = table /\ file' = file /\ drawn' = drawn
    BY <1>1
  <2> QED
    BY <2>3, <2>4, <2>5 DEF StoreInv, DrawnOnce
<1>14. LateKnown'
  BY <1>1, <1>9, <1>10, LateStays DEF StoreInv
<1>15. Quiet'
  BY UpStays DEF StoreInv, CameraStep
<1>16. CASE database
  <2>1. Store = table
    BY <1>16 DEF Store
  <2>2. ASSUME NEW x \in Calls, call'[x].pc = "upsert"
        PROVE  call'[x].mixed \/ EditOn(call'[x], table)
    <3>1. CASE x = s
      BY <1>10, <2>1, <3>1
    <3>2. CASE x # s
      <4>1. SameWork(call'[x], call[x])
        BY <1>9, <3>2
      <4> QED
        BY <2>2, <4>1 DEF StoreInv, RowsKept, SameWork, EditOn
    <3> QED
      BY <3>1, <3>2
  <2>3. ASSUME NEW x \in Calls, NEW y \in Calls \ {x}, call'[x].pc = "upsert",
               call'[y].pc = "upsert", call'[y].cam = call'[x].cam
        PROVE  call'[x].mixed
    <3>1. CASE x = s
      <4>1. y \in others
        BY <1>9, <1>10, <1>16, <2>3, <3>1 DEF OnRow, SameWork
      <4> QED
        BY <1>9, <3>1, <4>1
    <3>2. CASE y = s
      <4>1. x \in others
        BY <1>9, <1>10, <1>16, <2>3, <3>2 DEF OnRow, SameWork
      <4> QED
        BY <1>9, <2>3, <3>2, <4>1
    <3>3. CASE x # s /\ y # s
      <4>1. call[x].pc = "upsert" /\ OnRow(y, call[x].cam) /\ (call[x].mixed => call'[x].mixed)
        BY <1>9, <2>3, <3>3 DEF OnRow, SameWork
      <4> QED
        BY <2>3, <4>1 DEF StoreInv, RowsKept
    <3> QED
      BY <3>1, <3>2, <3>3
  <2>4. RowsKept'
    BY <1>1, <1>16, <2>2, <2>3 DEF StoreInv, RowsKept, OnRow
  <2> QED
    BY <1>11, <1>13, <1>14, <1>15, <2>4 DEF StoreInv
<1>17. CASE ~database
  <2>1. RowsKept'
    BY <1>1, <1>9, <1>10, <1>17, RowsStay DEF StoreInv
  <2> QED
    BY <1>11, <1>13, <1>14, <1>15, <2>1 DEF StoreInv
<1> QED
  BY <1>16, <1>17

\* What a request makes of what it loaded.
LEMMA LoadFileInv ==
    ASSUME StoreInv, NEW s \in Calls, LoadFile(s)
    PROVE  StoreInv'
<1>1. PICK c \in Cameras, op \in {"create", "edit", "delete"}, r \in Record, e \in Edits :
        /\ Ask(s)
        /\ IF op = "create" THEN c \notin drawn ELSE Load[c] # None
        /\ op # "create" => r = [port |-> Min(Ports), brand |-> Other]
        /\ op # "edit" => e = [field |-> "port", value |-> Min(Ports)]
        /\ drawn' = drawn \cup {c}
        /\ call' = [call EXCEPT ![s] =
              [Idle EXCEPT !.pc = "truncate", !.op = op, !.cam = c, !.edit = e,
                 !.got = [Load EXCEPT ![c] = CASE op = "create" -> r
                                               [] op = "edit"   -> Patch(Load[c], e)
                                               [] op = "delete" -> None]]]
        /\ UNCHANGED <<database, marker, up, table, file, providers, restarts, promised>>
  BY DEF LoadFile
<1>2. StoreTypes /\ requests' \in 0..MaxRequests /\ call[s] = Idle
  BY <1>1, AskCounts DEF StoreInv
<1> DEFINE new == CASE op = "create" -> r
                    [] op = "edit"   -> Patch(Load[c], e)
                    [] op = "delete" -> None
           k == [Idle EXCEPT !.pc = "truncate", !.op = op, !.cam = c, !.edit = e,
                             !.got = [Load EXCEPT ![c] = new]]
<1>3. Load \in Content /\ \A d \in Cameras : Load[d] # None => Load[d] \in Record
  BY <1>2, LoadTyped
<1>4. /\ op = "edit" => new = Patch(Load[c], e)
      /\ op = "delete" => new = None
      /\ new \in Record \cup {None}
  <2>1. op = "edit" => Patch(Load[c], e) \in Record
    BY <1>1, <1>3, PatchTyped
  <2>2. op \in {"create", "edit", "delete"}
    OBVIOUS
  <2>3. CASE op = "create"
    BY <2>3
  <2>4. CASE op = "edit"
    BY <2>1, <2>4
  <2>5. CASE op = "delete"
    BY <2>5
  <2> QED
    BY <2>2, <2>3, <2>4, <2>5
<1> HIDE DEF new
<1>5. /\ k.pc = "truncate" /\ k.op = op /\ k.cam = c /\ k.edit = e
      /\ k.got = [Load EXCEPT ![c] = new] /\ ~k.mixed
  BY DEF Idle
<1>6. /\ k.got \in Content /\ k.got[c] = new
      /\ \A d \in Cameras \ {c} : k.got[d] = Load[d]
  BY <1>3, <1>4, <1>5 DEF Content
<1>7. Works(k)
  <2>1. Idle \in CallRecord
    BY IdleWorks DEF Works
  <2>2. k \in CallRecord
    BY <1>5, <1>6, <2>1 DEF CallRecord
  <2> HIDE DEF k
  <2> QED
    BY <1>5, <1>6, <2>2 DEF Works
<1> HIDE DEF k
<1>8. call' = [call EXCEPT ![s] = k] /\ k \in CallRecord
  BY <1>1, <1>7 DEF k, new, Works
<1>9. /\ call' \in [Calls -> CallRecord] /\ call'[s] = k
      /\ \A x \in Calls \ {s} : call'[x] = call[x] /\ SameWork(call'[x], call[x])
  BY <1>2, <1>8, SameItself DEF StoreTypes
<1>10. StoreTypes'
  BY <1>1, <1>2, <1>7, <1>9 DEF StoreTypes
<1>11. call'[s].pc = "truncate" /\ call'[s].got = k.got
  BY <1>5, <1>9
<1>12. DrawnOnce'
  <2>1. \A d \in Cameras : Load[d] # None => d \in drawn
    BY DEF StoreInv, DrawnOnce, Load, Empty
  <2>2. \A d \in Cameras : call'[s].got[d] # None => d \in drawn'
    BY <1>1, <1>6, <1>11, <2>1
  <2>3. table' = table /\ file' = file /\ drawn \subseteq drawn'
    BY <1>1
  <2>4. \A x \in Calls : call'[x].pc = "upsert" => call'[x].cam \in drawn
    BY <1>9, <1>11 DEF StoreInv, DrawnOnce, SameWork
  <2>5. \A x \in Calls : call'[x].pc \in {"truncate", "write"} =>
           \A d \in Cameras : call'[x].got[d] # None => d \in drawn'
    BY <1>9, <2>2, <2>3 DEF StoreInv, DrawnOnce, SameWork
  <2> QED
    BY <2>3, <2>4, <2>5 DEF StoreInv, DrawnOnce
<1>13. LateKnown' /\ RowsKept'
  BY <1>1, <1>9, <1>11, LateStays, RowsStay DEF StoreInv
<1>14. Quiet'
  BY UpStays DEF StoreInv, CameraStep
<1> QED
  BY <1>10, <1>12, <1>13, <1>14 DEF StoreInv

\* The second load of an edit: what it found is put in the place of what is there.
LEMMA LoadAgainInv ==
    ASSUME StoreInv, NEW s \in Calls, LoadAgain(s)
    PROVE  StoreInv'
<1> DEFINE c == call[s].cam
<1>1. /\ call[s].pc = "load" /\ StoreTypes /\ Works(call[s]) /\ call[s] \in CallRecord
      /\ UNCHANGED <<database, marker, up, table, file, providers, requests, restarts, drawn, promised>>
  BY DEF LoadAgain, StoreInv, StoreTypes
<1>2. /\ c \in Cameras /\ call[s].op = "edit"
      /\ call[s].edit \in Edits /\ call[s].got \in Record
  BY <1>1 DEF Works
<1>3. Quiet'
  BY UpStays DEF StoreInv, CameraStep
<1>4. CASE Answer(s)
  <2>1. /\ call' \in [Calls -> CallRecord] /\ \A x \in Calls : Works(call'[x])
        /\ \A x \in Calls : SameWork(call'[x], call[x]) \/ (x = s /\ call'[x].pc = "idle")
    BY <1>1, <1>4, Answers, SameItself DEF Answer, Idle
  <2>2. StoreTypes'
    BY <1>1, <2>1 DEF StoreTypes
  <2> QED
    BY <1>1, <1>3, <2>1, <2>2, DrawnStays, LateStays, RowsStay
    DEF StoreInv
<1>5. CASE /\ Load[c] # None
           /\ call' = [call EXCEPT ![s].pc = "truncate",
                                   ![s].got = [Load EXCEPT ![c] = call[s].got]]
  <2> DEFINE content == [Load EXCEPT ![c] = call[s].got]
             k == [call[s] EXCEPT !.pc = "truncate", !.got = content]
  <2>1. Load \in Content /\ Load = file /\ file # Torn
    BY <1>1, <1>2, <1>5, LoadTyped DEF Load, Empty
  <2>2. /\ content \in Content /\ content[c] = call[s].got
        /\ \A d \in Cameras \ {c} : content[d] = Load[d]
    BY <1>2, <2>1 DEF Content
  <2> HIDE DEF content, c
  <2>3. /\ k.pc = "truncate" /\ k.op = "edit" /\ k.cam = c /\ k.edit = call[s].edit
        /\ k.got = content /\ k.mixed = call[s].mixed /\ k \in CallRecord
    BY <1>1, <1>2, <2>2 DEF CallRecord, c
  <2>4. call' = [call EXCEPT ![s] = k]
    BY <1>1, <1>5 DEF content, StoreTypes, c
  <2> HIDE DEF k
  <2>5. call'[s] = k /\ \A x \in Calls \ {s} : call'[x] = call[x]
    BY <1>1, <2>4 DEF StoreTypes
  <2>6. StoreTypes'
    <3>1. Works(k)
      BY <1>2, <2>2, <2>3 DEF Works
    <3>2. call' \in [Calls -> CallRecord]
      BY <1>1, <2>3, <2>4 DEF StoreTypes
    <3> QED
      BY <1>1, <2>5, <3>1, <3>2 DEF StoreTypes
  <2>7. DrawnOnce'
    <3>1. \A d \in Cameras : Load[d] # None => d \in drawn
      BY <2>1 DEF StoreInv, DrawnOnce
    <3>2. \A d \in Cameras : k.got[d] # None => d \in drawn
      BY <1>5, <2>2, <2>3, <3>1 DEF c
    <3>3. table' = table /\ file' = file /\ drawn' = drawn
      BY <1>1
    <3> QED
      BY <2>3, <2>5, <3>2, <3>3 DEF StoreInv, DrawnOnce
  <2>8. \A x \in Calls \ {s} : SameWork(call'[x], call[x])
    BY <2>5, SameItself
  <2>9. LateKnown' /\ RowsKept'
    BY <1>1, <2>3, <2>5, <2>8, LateStays, RowsStay DEF StoreInv
  <2> QED
    BY <1>3, <2>6, <2>7, <2>9 DEF StoreInv
<1> QED
  BY <1>4, <1>5 DEF LoadAgain

\* The file is empty, or could not be opened.
LEMMA TruncateInv ==
    ASSUME StoreInv, NEW s \in Calls, Truncate(s)
    PROVE  StoreInv'
<1>1. /\ call[s].pc = "truncate" /\ StoreTypes /\ Works(call[s]) /\ call[s] \in CallRecord
      /\ UNCHANGED <<database, marker, up, table, providers, requests, restarts, drawn, promised>>
  BY DEF Truncate, StoreInv, StoreTypes
<1>2. Quiet'
  BY UpStays DEF StoreInv, CameraStep
<1>3. CASE file' = Torn /\ call' = [call EXCEPT ![s].pc = "write"]
  <2> DEFINE k == [call[s] EXCEPT !.pc = "write"]
  <2>1. /\ k.pc = "write" /\ k.op = call[s].op /\ k.cam = call[s].cam
        /\ k.edit = call[s].edit /\ k.got = call[s].got /\ k \in CallRecord
    BY <1>1 DEF CallRecord
  <2>2. /\ call' \in [Calls -> CallRecord] /\ call'[s] = k
        /\ \A x \in Calls \ {s} : call'[x] = call[x] /\ SameWork(call'[x], call[x])
    BY <1>1, <1>3, <2>1, SameItself DEF StoreTypes
  <2> HIDE DEF k
  <2>3. Works(k)
    BY <1>1, <2>1 DEF Works
  <2>4. StoreTypes'
    BY <1>1, <1>3, <2>2, <2>3 DEF StoreTypes
  <2>5. DrawnOnce'
    BY <1>1, <1>3, <2>1, <2>2 DEF StoreInv, DrawnOnce
  <2>6. LateKnown' /\ RowsKept'
    BY <1>1, <2>1, <2>2, LateStays, RowsStay DEF StoreInv
  <2> QED
    BY <1>2, <2>4, <2>5, <2>6 DEF StoreInv
<1>4. CASE Answer(s) /\ UNCHANGED file
  <2>1. /\ call' \in [Calls -> CallRecord] /\ \A x \in Calls : Works(call'[x])
        /\ \A x \in Calls : SameWork(call'[x], call[x]) \/ (x = s /\ call'[x].pc = "idle")
    BY <1>1, <1>4, Answers, SameItself DEF Answer, Idle
  <2>2. StoreTypes'
    BY <1>1, <1>4, <2>1 DEF StoreTypes
  <2> QED
    BY <1>1, <1>2, <1>4, <2>1, <2>2, DrawnStays, LateStays, RowsStay DEF StoreInv
<1> QED
  BY <1>3, <1>4 DEF Truncate

\* The content, or what is left of it.
LEMMA WriteInv ==
    ASSUME StoreInv, NEW s \in Calls, Write(s)
    PROVE  StoreInv'
<1>1. /\ call[s].pc = "write" /\ StoreTypes /\ Works(call[s])
      /\ file' \in {call[s].got, Torn} /\ Answer(s)
      /\ UNCHANGED <<database, marker, up, table, providers, requests, restarts, drawn, promised>>
  BY DEF Write, StoreInv, StoreTypes
<1>2. /\ call' \in [Calls -> CallRecord] /\ \A x \in Calls : Works(call'[x])
      /\ call'[s] = Idle /\ \A x \in Calls \ {s} : call'[x] = call[x]
  BY <1>1, Answers DEF Answer
<1>3. \A x \in Calls : \/ call'[x] = call[x] /\ SameWork(call'[x], call[x])
                       \/ call'[x].pc = "idle"
  BY <1>2, SameItself DEF Idle
<1>4. StoreTypes'
  BY <1>1, <1>2 DEF StoreTypes, Works
<1>5. DrawnOnce'
  BY <1>1, <1>3 DEF StoreInv, DrawnOnce
<1>6. LateKnown' /\ RowsKept'
  BY <1>1, <1>3, LateStays, RowsStay DEF StoreInv
<1>7. Quiet'
  BY UpStays DEF StoreInv, CameraStep
<1> QED
  BY <1>4, <1>5, <1>6, <1>7 DEF StoreInv

-------------------------------------------------------------------------------
(* SQLite: the providers *)

\* The row of the provider takes the new id.
LEMMA CreateProviderInv ==
    ASSUME StoreInv, NEW s \in Calls, CreateProvider(s)
    PROVE  StoreInv'
<1>1. PICK i \in ProviderIds :
        /\ database /\ Ask(s) /\ i \notin drawn
        /\ providers' = {i} /\ drawn' = drawn \cup {i}
        /\ UNCHANGED <<database, marker, up, table, file, call, restarts, promised>>
  BY DEF CreateProvider
<1>2. StoreTypes /\ requests' \in 0..MaxRequests
  BY <1>1, AskCounts DEF StoreInv
<1>3. StoreTypes'
  BY <1>1, <1>2 DEF StoreTypes
<1>4. \A x \in Calls : SameWork(call'[x], call[x])
  BY <1>1, SameItself
<1>5. Quiet'
  BY UpStays DEF StoreInv, ProviderStep
<1> QED
  BY <1>1, <1>3, <1>4, <1>5, DrawnStays, LateStays, RowsStay
  DEF StoreInv

\* A provider is found for an edit or a deletion.
LEMMA FindProviderInv ==
    ASSUME StoreInv, NEW s \in Calls, FindProvider(s)
    PROVE  StoreInv'
<1>1. PICK i \in providers, op \in {"keep", "drop"} :
        /\ database /\ Ask(s)
        /\ call' = [call EXCEPT ![s] = [Idle EXCEPT !.op = op, !.cam = i,
                      !.pc = IF op = "drop" THEN "check" ELSE "keep"]]
        /\ UNCHANGED <<database, marker, up, table, file, providers, restarts, drawn, promised>>
  BY DEF FindProvider
<1>2. StoreTypes /\ requests' \in 0..MaxRequests /\ call[s] = Idle /\ i \in ProviderIds
  BY <1>1, AskCounts DEF StoreInv, StoreTypes
<1> DEFINE k == [Idle EXCEPT !.op = op, !.cam = i,
                   !.pc = IF op = "drop" THEN "check" ELSE "keep"]
<1>3. k.pc \in {"check", "keep"} /\ call[s].pc = "idle"
  BY <1>2 DEF Idle
<1>4. k \in CallRecord
  BY <1>2, <1>3, IdleWorks DEF Works, CallRecord
<1> HIDE DEF k
<1>5. Works(k)
  BY <1>3, <1>4 DEF Works
<1>6. /\ call' \in [Calls -> CallRecord] /\ call'[s] = k
      /\ \A x \in Calls \ {s} : call'[x] = call[x]
  BY <1>1, <1>2, <1>4 DEF StoreTypes, k
<1>7. StoreTypes'
  BY <1>1, <1>2, <1>5, <1>6 DEF StoreTypes
<1>8. \A x \in Calls : \/ SameWork(call'[x], call[x])
                       \/ x = s /\ call'[x].pc \in {"check", "keep"}
  BY <1>3, <1>6, SameItself
<1>9. Quiet'
  BY UpStays DEF StoreInv, ProviderStep
<1> QED
  BY <1>1, <1>3, <1>7, <1>8, <1>9, DrawnStays, LateStays, RowsStay
  DEF StoreInv

\* What the check found is what the deletion knows.
LEMMA CheckInv ==
    ASSUME StoreInv, NEW s \in Calls, Check(s)
    PROVE  StoreInv'
<1>1. /\ call[s].pc = "check" /\ StoreTypes /\ Works(call[s]) /\ call[s] \in CallRecord
      /\ UNCHANGED <<database, marker, up, table, file, providers, requests, restarts, drawn, promised>>
  BY DEF Check, StoreInv, StoreTypes
<1>2. Quiet'
  BY UpStays DEF StoreInv, ProviderStep
<1>3. PICK k : /\ call' = [call EXCEPT ![s] = k]
               /\ \/ k = Idle
                  \/ ~InUse /\ k = [call[s] EXCEPT !.pc = "drop"]
                  \/ k = [call[s] EXCEPT !.pc = "drop", !.late = Cameras]
  BY <1>1 DEF Check, Answer, StoreTypes
<1>4. /\ k \in CallRecord /\ k.pc \in {"idle", "drop"}
      /\ k.pc = "drop" => ~InUse \/ k.late = Cameras
  BY <1>1, <1>3, IdleWorks DEF Works, CallRecord, Idle
<1>5. Works(k)
  BY <1>4 DEF Works
<1>6. /\ call' \in [Calls -> CallRecord] /\ call'[s] = k
      /\ \A x \in Calls \ {s} : call'[x] = call[x]
  BY <1>1, <1>3, <1>4 DEF StoreTypes
<1>7. StoreTypes'
  BY <1>1, <1>5, <1>6 DEF StoreTypes
<1>8. \A x \in Calls : \/ SameWork(call'[x], call[x])
                       \/ x = s /\ call'[x].pc \in {"idle", "drop"}
  BY <1>4, <1>6, SameItself
<1>9. LateKnown'
  BY <1>1, <1>4, <1>6 DEF StoreInv, LateKnown, InUse
<1> QED
  BY <1>1, <1>2, <1>7, <1>8, <1>9, DrawnStays, RowsStay
  DEF StoreInv

\* The provider is deleted.
LEMMA DropProviderInv ==
    ASSUME StoreInv, NEW s \in Calls, DropProvider(s)
    PROVE  StoreInv'
<1>1. /\ call[s].pc \in {"drop", "keep"} /\ StoreTypes /\ Answer(s)
      /\ providers' \in {providers \ {call[s].cam}, providers}
      /\ UNCHANGED <<database, marker, up, table, file, requests, restarts, drawn, promised>>
  BY DEF DropProvider, StoreInv
<1>2. Quiet'
  BY UpStays DEF StoreInv, ProviderStep
<1>3. /\ call' \in [Calls -> CallRecord] /\ \A x \in Calls : Works(call'[x])
      /\ \A x \in Calls : SameWork(call'[x], call[x]) \/ (x = s /\ call'[x].pc = "idle")
  BY <1>1, Answers, SameItself DEF Answer, Idle
<1>4. StoreTypes'
  BY <1>1, <1>3 DEF StoreTypes
<1> QED
  BY <1>1, <1>2, <1>3, <1>4, DrawnStays, LateStays, RowsStay
  DEF StoreInv

-------------------------------------------------------------------------------
(* Restarts *)

\* What a start makes of the table.
LEMMA StartIs ==
    ASSUME StoreTypes, Start
    PROVE  /\ ~up /\ up' /\ marker' \in BOOLEAN
           /\ table' \in Content /\ PortsDiffer(table')
           /\ UNCHANGED <<database, file, providers, call, requests, restarts, drawn>>
           /\ \/ table' = table /\ promised' = promised
              \/ /\ database /\ file # Torn
                 /\ \A c \in Cameras :
                      table'[c] = IF file[c] = None THEN table[c] ELSE file[c]
                 /\ promised' = [c \in Cameras |-> IF c \in Listed THEN file[c]
                                                   ELSE promised[c]]
<1>1. /\ ~up /\ up' = TRUE
      /\ UNCHANGED <<database, file, providers, call, requests, restarts, drawn>>
  BY DEF Start
<1>2. CASE UNCHANGED <<marker, table, promised>>
  BY <1>1, <1>2 DEF StoreTypes
<1>3. CASE Import
  <2>1. PICK order \in SetToSeqs(Listed) :
           /\ \A i \in DOMAIN order :
                ~Clashes(Imported(order, i - 1), order[i], file[order[i]])
           /\ table' = Imported(order, Len(order))
    BY <1>3 DEF Import
  <2>2. /\ database /\ file # Torn /\ marker' = TRUE
        /\ promised' = [c \in Cameras |-> IF c \in Listed THEN file[c] ELSE promised[c]]
    BY <1>3 DEF Import
  <2>3. /\ table' \in Content /\ PortsDiffer(table')
        /\ \A c \in Cameras : table'[c] = IF file[c] = None THEN table[c] ELSE file[c]
    BY <2>1, <2>2, ImportIs DEF PortsDiffer
  <2> QED
    BY <1>1, <2>2, <2>3
<1> QED
  BY <1>2, <1>3 DEF Start

\* Nothing is in flight when the file is imported.
LEMMA StartInv ==
    ASSUME StoreInv, Start
    PROVE  StoreInv'
<1>1. StoreTypes
  BY DEF StoreInv
<1>2. /\ ~up /\ up' /\ marker' \in BOOLEAN /\ table' \in Content /\ PortsDiffer(table')
      /\ UNCHANGED <<database, file, providers, call, requests, restarts, drawn>>
  BY <1>1, StartIs
<1>3. /\ \A s \in Calls : call[s].pc = "idle" /\ call'[s] = call[s] /\ call'[s].pc = "idle"
      /\ \A s \in Calls : SameWork(call'[s], call[s])
  BY <1>2, SameItself DEF StoreInv, Quiet, Idle
<1>4. Quiet'
  BY <1>2 DEF Quiet
<1>5. LateKnown'
  BY <1>2, <1>3 DEF LateKnown
<1>6. CASE table' = table /\ promised' = promised
  <2>1. StoreTypes'
    BY <1>1, <1>2, <1>6 DEF StoreTypes
  <2> QED
    BY <1>2, <1>3, <1>4, <1>5, <1>6, <2>1, DrawnStays, RowsStay DEF StoreInv
<1>7. CASE /\ database /\ file # Torn
           /\ \A c \in Cameras : table'[c] = IF file[c] = None THEN table[c] ELSE file[c]
           /\ promised' = [c \in Cameras |-> IF c \in Listed THEN file[c] ELSE promised[c]]
  <2>1. promised' \in [Cameras -> Record \cup {None, Unknown}]
    BY <1>1, <1>7 DEF StoreTypes, Content
  <2>2. StoreTypes'
    BY <1>1, <1>2, <2>1 DEF StoreTypes
  <2>3. DrawnOnce'
    BY <1>2, <1>3, <1>7 DEF StoreInv, DrawnOnce
  <2>4. RowsKept'
    BY <1>2, <1>3, <1>7 DEF StoreInv, RowsKept, Listed
  <2> QED
    BY <1>4, <1>5, <2>2, <2>3, <2>4 DEF StoreInv
<1> QED
  BY <1>1, <1>6, <1>7, StartIs

\* The requests are gone, and no row with them.
LEMMA CrashInv ==
    ASSUME StoreInv, Crash
    PROVE  StoreInv'
<1>1. /\ StoreTypes
      /\ up /\ restarts < MaxRestarts /\ up' = FALSE /\ restarts' = restarts + 1
      /\ call' = [s \in Calls |-> Idle]
      /\ UNCHANGED <<database, marker, table, file, providers, requests, drawn, promised>>
  BY DEF Crash, StoreInv
<1>2. \A s \in Calls : call'[s] = Idle /\ call'[s].pc = "idle"
  BY <1>1 DEF Idle
<1>3. StoreTypes'
  <2>1. restarts' \in 0..MaxRestarts
    BY <1>1, StoreAssumption DEF StoreTypes
  <2>2. Works(Idle) /\ Idle \in CallRecord
    BY IdleWorks DEF Works
  <2>3. call' \in [Calls -> CallRecord] /\ \A s \in Calls : Works(call'[s])
    BY <1>1, <2>2
  <2> QED
    BY <1>1, <2>1, <2>3 DEF StoreTypes
<1>4. Quiet' /\ LateKnown' /\ DrawnOnce'
  BY <1>1, <1>2 DEF StoreInv, Quiet, LateKnown, DrawnOnce
<1>5. RowsKept'
  BY <1>1, <1>2 DEF StoreInv, RowsKept
<1> QED
  BY <1>3, <1>4, <1>5 DEF StoreInv

-------------------------------------------------------------------------------
(* The theorems *)

\* The invariant holds at first.
LEMMA StoreInvInit == Init => StoreInv
<1> SUFFICES ASSUME Init PROVE StoreInv
  OBVIOUS
<1>1. /\ database \in BOOLEAN /\ marker = FALSE /\ up = FALSE
      /\ table = Empty /\ file \in Content /\ providers = {}
      /\ call = [s \in Calls |-> Idle] /\ requests = 0 /\ restarts = 0
      /\ drawn = {c \in Cameras : file[c] # None}
      /\ promised = Empty
  BY DEF Init
<1>2. \A s \in Calls : call[s] = Idle /\ call[s].pc = "idle"
  BY <1>1 DEF Idle
<1>3. Works(Idle) /\ Idle \in CallRecord
  BY IdleWorks DEF Works
<1>4. StoreTypes
  <2>1. call \in [Calls -> CallRecord] /\ \A s \in Calls : Works(call[s])
    BY <1>1, <1>3
  <2>2. promised \in [Cameras -> Record \cup {None, Unknown}]
    BY <1>1 DEF Content, Empty
  <2>3. 0 \in 0..MaxRequests /\ 0 \in 0..MaxRestarts
    BY StoreAssumption
  <2> QED
    BY <1>1, <2>1, <2>2, <2>3 DEF StoreTypes, PortsDiffer, Content, Empty
<1>5. file # Torn
  BY <1>1, StoreAssumption
<1> QED
  BY <1>1, <1>2, <1>4, <1>5
  DEF StoreInv, Quiet, DrawnOnce, LateKnown, RowsKept, Empty

\* Every step keeps the invariant.
LEMMA StoreInvNext ==
    ASSUME StoreInv, [Next]_vars
    PROVE  StoreInv'
<1>1. ASSUME NEW s \in Calls, CameraStep(s) PROVE StoreInv'
  BY <1>1, CreateRowInv, DeleteRowInv, FindCameraInv, UpsertRowInv, LoadFileInv, LoadAgainInv,
     TruncateInv, WriteInv DEF CameraStep
<1>2. ASSUME NEW s \in Calls, ProviderStep(s) PROVE StoreInv'
  BY <1>2, CreateProviderInv, FindProviderInv, CheckInv, DropProviderInv DEF ProviderStep
<1>3. CASE UNCHANGED vars
  BY <1>3 DEF vars, StoreInv, StoreTypes, Quiet, DrawnOnce, LateKnown, RowsKept, OnRow,
              EditOn
<1> QED
  BY <1>1, <1>2, <1>3, StartInv, CrashInv DEF Next

\* It always holds.
LEMMA StoreInvAlways == Spec => []StoreInv
BY StoreInvInit, StoreInvNext, PTL DEF Spec

\* The type invariant, which includes the UNIQUE constraint on local_port: no step,
\* the import among them, puts two cameras on one port.
THEOREM StoreTypesHold == Spec => []StoreTypeOK
<1>1. StoreInv => StoreTypeOK
  <2> SUFFICES ASSUME StoreInv PROVE StoreTypeOK
    OBVIOUS
  <2>1. StoreTypes
    BY DEF StoreInv
  <2>2. \A s \in Calls : call[s] \in CallRecord /\ Works(call[s])
    BY <2>1 DEF StoreTypes
  <2>3. \A s \in Calls :
          /\ call[s].pc \in {"idle", "upsert", "load", "truncate", "write", "check",
                             "keep", "drop"}
          /\ call[s].mixed \in BOOLEAN /\ call[s].late \subseteq Cameras
    BY <2>2 DEF CallRecord
  <2>4. \A s \in Calls :
          /\ call[s].pc = "upsert" => call[s].got \in Record
          /\ call[s].pc \in {"truncate", "write"} => call[s].got \in Content
    BY <2>2 DEF Works
  <2> QED
    BY <2>1, <2>3, <2>4 DEF StoreTypes, PortsDiffer, StoreTypeOK
<1> QED
  BY <1>1, StoreInvAlways, PTL

\* The row of a camera is what the answered creates, edits and deletions, and the
\* imports, make of it, whatever interleaves, fails or is cut off by a crash, unless
\* edits or deletions of that camera overlapped: it is the handlers of the v1 API
\* over the tables (database) that keep it.
THEOREM AnsweredChangesAreKept == Spec => []ChangesAreKept
<1>1. StoreInv => ChangesAreKept
  BY DEF StoreInv, RowsKept, ChangesAreKept
<1> QED
  BY <1>1, StoreInvAlways, PTL

\* A provider that delete_v1_provider has deleted stays deleted, whatever edits of
\* it, and creates and deletions of others under its name, are under way.
THEOREM DeletedProvidersStay == Spec => ProviderStaysDeleted
<1>1. ASSUME [Next]_vars, NEW i \in ProviderIds, i \in drawn, i \notin providers
      PROVE  i \notin providers'
  <2>1. ASSUME NEW s \in Calls, CameraStep(s) PROVE i \notin providers'
    <3>1. ASSUME CreateRow(s) \/ DeleteRow(s) \/ FindCamera(s) \/ UpsertRow(s)
          PROVE  i \notin providers'
      BY <1>1, <3>1 DEF CreateRow, DeleteRow, FindCamera, UpsertRow
    <3>2. ASSUME LoadFile(s) \/ LoadAgain(s) \/ Truncate(s) \/ Write(s)
          PROVE  i \notin providers'
      BY <1>1, <3>2 DEF LoadFile, LoadAgain, Truncate, Write
    <3> QED
      BY <2>1, <3>1, <3>2 DEF CameraStep
  <2>2. ASSUME NEW s \in Calls, ProviderStep(s) PROVE i \notin providers'
    <3>1. ASSUME CreateProvider(s) PROVE i \notin providers'
      BY <1>1, <3>1 DEF CreateProvider
    <3>2. ASSUME FindProvider(s) \/ Check(s) \/ DropProvider(s) PROVE i \notin providers'
      BY <1>1, <3>2 DEF FindProvider, Check, DropProvider
    <3> QED
      BY <2>2, <3>1, <3>2 DEF ProviderStep
  <2>3. Start \/ Crash => i \notin providers'
    BY <1>1 DEF Start, Crash
  <2>4. UNCHANGED vars => i \notin providers'
    BY <1>1 DEF vars
  <2> QED
    BY <1>1, <2>1, <2>2, <2>3, <2>4 DEF Next
<1>2. [Next]_vars =>
        [ \A i \in ProviderIds : i \in drawn /\ i \notin providers => i \notin providers' ]_vars
  BY <1>1
<1> QED
  BY <1>2, PTL DEF Spec, ProviderStaysDeleted

\* A provider is deleted under a camera that names it only by a deletion whose check
\* could not read the cameras, or came before that camera was written: the two cases
\* in which the code breaks docs/api-v1.md:130, "A provider in use by a camera cannot
\* be deleted".
InUseDeletedOnlySo ==
    [][ providers # {} /\ providers' = {} =>
          \E s \in Calls :
            /\ call[s].pc = "drop" /\ call[s].cam \in providers
            /\ \A c \in Cameras : table[c] # None /\ table[c].brand = Provider
                                  => c \in call[s].late ]_vars

\* The check of delete_v1_provider is about the provider that it deletes, and there
\* is no third way to lose a provider in use.
THEOREM InUseIsChecked == Spec => InUseDeletedOnlySo
<1>1. ASSUME StoreInv, [Next]_vars, providers # {}, providers' = {}
      PROVE  \E s \in Calls :
               /\ call[s].pc = "drop" /\ call[s].cam \in providers
               /\ \A c \in Cameras : table[c] # None /\ table[c].brand = Provider
                                     => c \in call[s].late
  <2>1. providers' # providers
    BY <1>1
  <2>2. ~Start /\ ~Crash
    BY <2>1 DEF Start, Crash
  <2>2a. ASSUME NEW s \in Calls, CameraStep(s) PROVE FALSE
    <3>1. ~CreateRow(s) /\ ~DeleteRow(s) /\ ~FindCamera(s) /\ ~UpsertRow(s)
      BY <2>1 DEF CreateRow, DeleteRow, FindCamera, UpsertRow
    <3>2. ~LoadFile(s) /\ ~LoadAgain(s) /\ ~Truncate(s) /\ ~Write(s)
      BY <2>1 DEF LoadFile, LoadAgain, Truncate, Write
    <3> QED
      BY <2>2a, <3>1, <3>2 DEF CameraStep
  <2>3. PICK s \in Calls : ProviderStep(s)
    BY <1>1, <2>1, <2>2, <2>2a DEF Next, vars
  <2>4. DropProvider(s)
    BY <1>1, <2>1, <2>3 DEF ProviderStep, CreateProvider, FindProvider, Check
  <2>5. call[s].pc = "drop" /\ call[s].cam \in providers
    BY <1>1, <2>1, <2>4 DEF DropProvider
  <2> QED
    BY <1>1, <2>5 DEF StoreInv, LateKnown
<1>2. StoreInv /\ [Next]_vars =>
        [ providers # {} /\ providers' = {} =>
            \E s \in Calls :
              /\ call[s].pc = "drop" /\ call[s].cam \in providers
              /\ \A c \in Cameras : table[c] # None /\ table[c].brand = Provider
                                    => c \in call[s].late ]_vars
  BY <1>1
<1> QED
  BY <1>2, StoreInvAlways, PTL DEF Spec, InUseDeletedOnlySo
===============================================================================
