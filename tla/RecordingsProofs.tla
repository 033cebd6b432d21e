--------------------------- MODULE RecordingsProofs ----------------------------
(* Proofs about Recordings for every set of segments and of calls and every     *)
(* number of restarts.                                                          *)
EXTENDS Recordings, TLAPS

USE RecordingsAssumption

TaskType   == {Idle} \cup UploadTask \cup CleanupTask
SavingType == [who : Workers \cup {"loop"}, cloned : BOOLEAN, index : Index]

\* A segment's own worker is an upload of that segment, and an upload that the
\* loop has yet to spawn waits.
OwnTask(f) == {Idle} \cup {t \in UploadTask : t.seg = f}

Queue ==
    /\ \A f \in Segments : task[f] \in OwnTask(f)
    /\ loop.pc = "spawn" => \A f \in loop.todo : task[f].pc = "queued"

\* What a task does is read off its place.
LEMMA TaskForms ==
    ASSUME TypeOK, NEW x \in Workers
    PROVE  /\ task[x].pc \in UploadPc => task[x] \in UploadTask
           /\ task[x].pc \in {"remove", "tombstone"} => task[x] \in CleanupTask
           /\ x \in Segments /\ Queue /\ task[x].pc \in UploadPc => task[x].seg = x
BY DEF TypeOK, UploadPc, UploadTask, CleanupTask, Idle, Queue, OwnTask, Workers

\* A task that is not waiting for the loop may take any step of its own kind.
LEMMA TaskStep ==
    ASSUME TypeOK, Queue, NEW x \in Workers, NEW t \in TaskType,
           task[x].pc # "queued", loop' = loop, task' = [task EXCEPT ![x] = t],
           x \in Segments => t \in OwnTask(x)
    PROVE  task' \in [Workers -> TaskType] /\ Queue'
<1> USE DEF TypeOK, TaskType, Workers
<1>1. task' \in [Workers -> TaskType]
  OBVIOUS
<1>2. \A f \in Segments : task'[f] \in OwnTask(f)
  BY DEF Queue
<1>3. loop'.pc = "spawn" => \A f \in loop'.todo : task'[f].pc = "queued"
  BY DEF Queue
<1> QED
  BY <1>1, <1>2, <1>3 DEF Queue, OwnTask

\* An upload stays one while it moves on and learns a checksum.
LEMMA UploadStep ==
    ASSUME TypeOK, Queue, NEW x \in Workers, NEW p \in UploadPc, NEW s \in Sum,
           task[x].pc \in UploadPc \ {"queued"}, loop' = loop,
           \/ task' = [task EXCEPT ![x].pc = p]
           \/ task' = [task EXCEPT ![x].pc = p, ![x].sum = s]
    PROVE  task' \in [Workers -> TaskType] /\ Queue'
<1>1. task[x] \in UploadTask /\ (x \in Segments => task[x].seg = x)
  BY TaskForms
<1> DEFINE t1 == [task[x] EXCEPT !.pc = p]
           t2 == [task[x] EXCEPT !.pc = p, !.sum = s]
<1>2. t1 \in UploadTask /\ t2 \in UploadTask /\ t1.seg = task[x].seg /\ t2.seg = task[x].seg
  BY <1>1 DEF UploadTask
<1>3. task' = [task EXCEPT ![x] = t1] \/ task' = [task EXCEPT ![x] = t2]
  BY <1>1 DEF TypeOK
<1> HIDE DEF t1, t2
<1> QED
  BY <1>1, <1>2, <1>3, TaskStep DEF TaskType, OwnTask, UploadPc

\* A task may end at any of its places.
LEMMA EndStep ==
    ASSUME TypeOK, Queue, NEW x \in Workers, task[x].pc # "queued", loop' = loop,
           End(x)
    PROVE  task' \in [Workers -> TaskType] /\ Queue'
BY TaskStep DEF End, TaskType, OwnTask

\* An index that is well typed may be committed by anyone.
LEMMA CommitType ==
    ASSUME TypeOK, NEW a \in Workers \cup {"loop"}, NEW index \in Index,
           Commit(a, index) \/ CommitIfChanged(a, index)
    PROVE  records' \in Index /\ saving' \subseteq SavingType
<1>1. NoIndex \in Index
  BY DEF NoIndex, Index, NoRecord, Status, Sum, None
<1>2. [who |-> a, cloned |-> FALSE, index |-> NoIndex] \in SavingType
  BY <1>1 DEF SavingType
<1>3. saving \subseteq SavingType /\ records \in Index
  BY DEF TypeOK, SavingType
<1> QED
  BY <1>2, <1>3 DEF Commit, CommitIfChanged

-------------------------------------------------------------------------------
Typed == TypeOK /\ Queue

LoopType == [pc : {"index", "collect", "backfill", "schedule", "spawn"},
             todo : SUBSET Segments, changed : BOOLEAN]

\* The steps of a task that only touch its own state and the index keep the types.
LEMMA TaskAction ==
    ASSUME TypeOK, task' \in [Workers -> TaskType] /\ Queue',
           records' \in Index, saving' \subseteq SavingType,
           file' \in [Segments -> {"absent", "growing", "closed", "deleted"}],
           remote' \in [Segments -> Sum], cut' \in BOOLEAN,
           UNCHANGED <<config, early, disk, loop, crashes>>
    PROVE  Typed'
BY DEF TypeOK, Typed, TaskType, SavingType

\* So do the steps of the loop that only touch it, the index and the tasks.
LEMMA LoopAction ==
    ASSUME TypeOK, task' \in [Workers -> TaskType] /\ Queue',
           records' \in Index, saving' \subseteq SavingType, loop' \in LoopType,
           UNCHANGED <<config, early, file, remote, disk, crashes, cut>>
    PROVE  Typed'
BY DEF TypeOK, Typed, TaskType, SavingType, LoopType

\* The writes of the index to disk keep them.
LEMMA PersistTyped == ASSUME Typed, Persist PROVE Typed'
<1> USE DEF Typed
<1>1. CASE Clone
  <2>1. saving' \subseteq SavingType
    <3> PICK s \in saving : saving' = (saving \ {s}) \cup {[s EXCEPT !.cloned = TRUE, !.index = records]}
      BY <1>1 DEF Clone
    <3>1. s \in SavingType /\ records \in Index /\ saving \subseteq SavingType
      BY DEF TypeOK, SavingType
    <3>2. [s EXCEPT !.cloned = TRUE, !.index = records] \in SavingType
      BY <3>1 DEF SavingType
    <3> QED
      BY <3>1, <3>2
  <2> QED
    BY <1>1, <2>1 DEF Clone, TypeOK, Queue, OwnTask, SavingType
<1>2. CASE Write
  BY <1>2 DEF Write, TypeOK, Queue, OwnTask
<1>3. CASE WritesMix
  <2>1. NoIndex \in Index
    BY DEF NoIndex, Index, NoRecord, Status, Sum, None
  <2> QED
    BY <1>3, <2>1 DEF WritesMix, TypeOK, Queue, OwnTask
<1> QED
  BY <1>1, <1>2, <1>3 DEF Persist

\* ffmpeg keeps them.
LEMMA FilesTyped ==
    ASSUME Typed, NEW f \in Segments, OpenFile(f) \/ CloseFile(f) PROVE Typed'
BY DEF Typed, TypeOK, Queue, OwnTask, OpenFile, CloseFile

\* Every step of the reconcile loop keeps them.
LEMMA ReconcileTyped == ASSUME Typed, Reconcile PROVE Typed'
<1> USE DEF Typed
<1>1. CASE IndexClosedFiles
  <2> PICK stalled \in SUBSET {f \in Segments : MayStall /\ file[f] = "growing"} :
        CommitIfChanged("loop", [f \in Segments |->
            IF f \in stalled \cup {g \in Segments : file[g] = "closed"} /\ records[f] = NoRecord
            THEN Fresh ELSE records[f]])
    BY <1>1 DEF IndexClosedFiles
  <2>1. Fresh \in [status : Status, sum : Sum, verified : BOOLEAN]
    BY DEF Fresh, Status, Sum
  <2>2. records' \in Index /\ saving' \subseteq SavingType
    BY <2>1, CommitType DEF TypeOK, Index
  <2>3. loop' = [loop EXCEPT !.pc = "collect"]
    BY <1>1 DEF IndexClosedFiles
  <2> QED
    BY <1>1, <2>2, <2>3 DEF IndexClosedFiles, TypeOK, SavingType, Queue, OwnTask
<1>2. CASE CollectUnhashed
  <2>1. loop' \in LoopType /\ loop'.pc # "spawn"
    BY <1>2 DEF CollectUnhashed, AfterBackfill, TopOfLoop, LoopType
  <2>2. UNCHANGED <<config, early, file, remote, records, disk, saving, task, crashes, cut>>
    BY <1>2 DEF CollectUnhashed
  <2> QED
    BY <2>1, <2>2, LoopAction DEF TypeOK, Queue, OwnTask, TaskType, SavingType
<1>3. ASSUME NEW f \in Segments, BackfillChecksum(f) \/ SkipBackfill(f) PROVE Typed'
  <2>1. records' \in Index
    <3>1. Content(f) \in Sum
      BY DEF Content, Sum
    <3>2. records' = records \/ records' = [records EXCEPT ![f].sum = Content(f)]
      BY <1>3 DEF BackfillChecksum, SkipBackfill
    <3> QED
      BY <3>1, <3>2 DEF TypeOK, Index
  <2>2. loop'.pc = "backfill" /\ loop' \in LoopType
    <3>1. loop.pc = "backfill" /\ loop \in LoopType
      BY <1>3 DEF BackfillChecksum, SkipBackfill, TypeOK, LoopType
    <3>2. \/ loop' = [loop EXCEPT !.todo = @ \ {f}, !.changed = TRUE]
          \/ loop' = [loop EXCEPT !.todo = @ \ {f}]
      BY <1>3 DEF BackfillChecksum, SkipBackfill
    <3> QED
      BY <3>1, <3>2 DEF LoopType
  <2>3. UNCHANGED <<config, early, file, remote, disk, saving, task, crashes, cut>>
    BY <1>3 DEF BackfillChecksum, SkipBackfill
  <2>4. Queue' /\ task' \in [Workers -> TaskType] /\ saving' \subseteq SavingType
    BY <2>2, <2>3 DEF Queue, OwnTask, TypeOK, TaskType, SavingType
  <2> QED
    BY <2>1, <2>2, <2>3, <2>4, LoopAction
<1>4. CASE EndBackfill
  <2>1. records' \in Index /\ saving' \subseteq SavingType
    BY <1>4, CommitType DEF EndBackfill, TypeOK, SavingType
  <2>2. loop' \in [pc : {"index", "schedule"}, todo : {{}}, changed : {FALSE}]
    BY <1>4 DEF EndBackfill, AfterBackfill, TopOfLoop
  <2> QED
    BY <1>4, <2>1, <2>2 DEF EndBackfill, TypeOK, SavingType, Queue, OwnTask
<1>5. CASE ScheduleUploads
  <2> DEFINE due == {f \in Segments : records[f].status = "local" /\ IsFile(f)}
             marked == [f \in Segments |-> IF f \in due THEN [records[f] EXCEPT !.status = "uploading"]
                                           ELSE records[f]]
             tasks == [x \in Workers |-> IF x \in due
                         THEN [pc |-> "queued", seg |-> x, sum |-> records[x].sum] ELSE task[x]]
  <2>1. marked \in Index
    BY DEF TypeOK, Index, Status
  <2>2. records' \in Index /\ saving' \subseteq SavingType
    <3>1. UNCHANGED <<records, saving>> \/ Commit("loop", marked)
      BY <1>5 DEF ScheduleUploads
    <3> QED
      BY <2>1, <3>1, CommitType DEF TypeOK, SavingType
  <2>3. /\ task' = tasks
        /\ loop'.pc \in {"index", "spawn"} /\ loop'.todo = due /\ loop'.changed = FALSE
        /\ due # {} => loop'.pc = "spawn"
    BY <1>5 DEF ScheduleUploads, TopOfLoop
  <2>4. \A f \in due : [pc |-> "queued", seg |-> f, sum |-> records[f].sum] \in UploadTask
    BY DEF UploadTask, UploadPc, TypeOK, Index
  <2>5. task' \in [Workers -> TaskType]
    BY <2>3, <2>4 DEF TypeOK, TaskType
  <2>6. Queue'
    <3>1. \A f \in Segments : task'[f] \in OwnTask(f)
      BY <2>3, <2>4 DEF Queue, OwnTask, Workers
    <3>2. \A f \in due : task'[f].pc = "queued"
      BY <2>3 DEF Workers
    <3> QED
      BY <2>3, <3>1, <3>2 DEF Queue, OwnTask
  <2> QED
    <3>1. loop' \in LoopType
      BY <1>5 DEF ScheduleUploads, TopOfLoop, LoopType
    <3> QED
      BY <1>5, <2>2, <2>5, <2>6, <3>1, LoopAction DEF ScheduleUploads
<1>6. CASE SpawnUploads
  <2>1. \A f \in loop.todo : task[f] \in UploadTask /\ task[f].seg = f
    BY <1>6 DEF SpawnUploads, Queue, TypeOK, OwnTask, Idle
  <2>2. \A f \in loop.todo : /\ [task[f] EXCEPT !.pc = "upload"] \in UploadTask
                             /\ [task[f] EXCEPT !.pc = "upload"].seg = f
    BY <2>1 DEF UploadTask, UploadPc
  <2>3. task' = [x \in Workers |-> IF x \in loop.todo THEN [task[x] EXCEPT !.pc = "upload"]
                                  ELSE task[x]]
    BY <1>6 DEF SpawnUploads
  <2>4. task' \in [Workers -> TaskType]
    BY <2>2, <2>3 DEF TypeOK, TaskType
  <2>5. \A f \in Segments : task'[f] \in OwnTask(f)
    BY <2>2, <2>3 DEF Queue, OwnTask, Workers
  <2> QED
    BY <1>6, <2>4, <2>5 DEF SpawnUploads, TopOfLoop, TypeOK, TaskType, Queue, OwnTask
<1> QED
  BY <1>1, <1>2, <1>3, <1>4, <1>5, <1>6 DEF Reconcile

\* SetStatus is a commit of a well-typed index.
LEMMA StatusType ==
    ASSUME TypeOK, NEW x \in Workers, NEW f, NEW st \in Status, SetStatus(x, f, st)
    PROVE  records' \in Index /\ saving' \subseteq SavingType
<1>1. records \in Index
  BY DEF TypeOK
<1>2. [records EXCEPT ![f].status = st] \in Index
  BY <1>1 DEF Index
<1> QED
  BY <1>2, CommitType DEF SetStatus

\* An index stays one with a new checksum, or verified or not.
LEMMA FieldTypes ==
    ASSUME records \in Index, NEW f \in Segments
    PROVE  /\ \A v \in BOOLEAN : [records EXCEPT ![f].verified = v] \in Index
           /\ \A c \in Sum : [records EXCEPT ![f].sum = c] \in Index
<1>1. ASSUME NEW v \in BOOLEAN PROVE [records EXCEPT ![f].verified = v] \in Index
  BY DEF Index
<1>2. ASSUME NEW c \in Sum PROVE [records EXCEPT ![f].sum = c] \in Index
  BY DEF Index
<1> QED
  BY <1>1, <1>2

\* Every step of an upload keeps them.
LEMMA UploadTyped == ASSUME Typed, NEW x \in Workers, Upload(x) PROVE Typed'
<1> USE DEF Typed
<1> DEFINE f == task[x].seg
<1>1. task[x].pc \in UploadPc \ {"queued"} /\ UNCHANGED <<config, early, file, disk, loop, crashes, cut>>
  BY DEF Upload, StartUpload, MissingFile, Hash, HashFails, Copy, CopyFails, Verify,
         VerifyFails, Refuse, Finish, Fail, At, UploadPc
<1>2. task[x] \in UploadTask /\ f \in Segments /\ Content(f) \in Sum
  BY <1>1, TaskForms DEF UploadTask, Content, Sum
<1>3. UNCHANGED <<records, saving>> => records' \in Index /\ saving' \subseteq SavingType
  BY DEF TypeOK, SavingType
<1>4. /\ file' \in [Segments -> {"absent", "growing", "closed", "deleted"}]
      /\ cut' \in BOOLEAN
      /\ UNCHANGED remote => remote' \in [Segments -> Sum]
  BY <1>1 DEF TypeOK
<1> USE DEF UploadPc
<1>5. CASE StartUpload(x)
  BY <1>1, <1>3, <1>4, <1>5, UploadStep, TaskAction DEF StartUpload, Go, Sum
<1>6. ASSUME Fail(x) PROVE Typed'
  BY <1>1, <1>2, <1>4, <1>6, StatusType, EndStep, TaskAction DEF Fail, Status
<1>7. CASE Hash(x)
  <2>1. records' \in Index /\ saving' \subseteq SavingType
    <3>1. [records EXCEPT ![f].sum = Content(f)] \in Index
      BY <1>2 DEF TypeOK, Index
    <3> QED
      BY <1>7, <3>1, CommitType DEF Hash
  <2> QED
    BY <1>1, <1>2, <1>4, <1>7, <2>1, UploadStep, TaskAction DEF Hash
<1>8. CASE Copy(x)
  <2>1. records' \in Index /\ saving' \subseteq SavingType
    <3>1. [records EXCEPT ![f].verified = FALSE] \in Index
      BY <1>2, FieldTypes DEF TypeOK
    <3> QED
      BY <1>3, <1>8, <3>1, CommitType DEF Copy
  <2>2. remote' \in [Segments -> Sum]
    BY <1>2, <1>8 DEF Copy, TypeOK
  <2> QED
    BY <1>1, <1>4, <1>8, <2>1, <2>2, UploadStep, TaskAction DEF Copy, Go, Sum
<1>9. CASE Verify(x) \/ VerifyFails(x)
  <2>1. records' \in Index /\ saving' \subseteq SavingType
    <3>1. \A v \in BOOLEAN : [records EXCEPT ![f].verified = v] \in Index
      BY <1>2, FieldTypes DEF TypeOK
    <3> QED
      BY <1>9, <3>1, CommitType DEF Verify, VerifyFails
  <2> QED
    BY <1>1, <1>4, <1>9, <2>1, UploadStep, EndStep, TaskAction DEF Verify, VerifyFails, Go, Sum
<1>10. CASE Finish(x)
  BY <1>1, <1>2, <1>4, <1>10, StatusType, EndStep, TaskAction DEF Finish, Status
<1> QED
  BY <1>5, <1>6, <1>7, <1>8, <1>9, <1>10 DEF Upload, MissingFile, HashFails, CopyFails, Refuse

\* Every step of an archive or cleanup call keeps them.
LEMMA CallTyped ==
    ASSUME Typed, NEW c \in Calls,
           \/ \E f \in Segments : CallArchive(c, f)
           \/ ArchiveSteps(c) \/ CallCleanup(c) \/ CleanupSteps(c) \/ DropCall(c)
    PROVE  Typed'
<1> USE DEF Typed
<1>1. c \in Workers /\ c \notin Segments
  BY DEF Workers
<1>2. UNCHANGED <<records, saving>> => records' \in Index /\ saving' \subseteq SavingType
  BY DEF TypeOK, SavingType
<1>3. ASSUME UNCHANGED <<config, early, disk, loop, crashes>>, UNCHANGED <<file, remote, cut>>,
             records' \in Index, saving' \subseteq SavingType,
             task' \in [Workers -> TaskType] /\ Queue'
      PROVE  Typed'
  BY <1>3, TaskAction DEF TypeOK
<1>4. ASSUME NEW t \in TaskType, task[c].pc # "queued", UNCHANGED loop,
             task' = [task EXCEPT ![c] = t]
      PROVE  task' \in [Workers -> TaskType] /\ Queue'
  BY <1>1, <1>4, TaskStep
<1>5. ASSUME NEW f \in Segments, CallArchive(c, f) PROVE Typed'
  <2>1. PICK t \in UploadTask : task' = [task EXCEPT ![c] = t]
    <3>1. records[f].sum \in Sum
      BY DEF TypeOK, Index
    <3>2. \A p \in UploadPc : [pc |-> p, seg |-> f, sum |-> records[f].sum] \in UploadTask
      BY <3>1 DEF UploadTask
    <3>3. \E p \in UploadPc :
            task' = [task EXCEPT ![c] = [pc |-> p, seg |-> f, sum |-> records[f].sum]]
      <4>1. {"recheck", "hashFirst", "mark"} \subseteq UploadPc
        BY DEF UploadPc
      <4> QED
        BY <1>5, <4>1 DEF CallArchive
    <3> QED
      BY <3>2, <3>3
  <2>2. task[c].pc # "queued" /\ UNCHANGED <<config, early, file, remote, records, disk, saving,
                                            loop, crashes, cut>>
    BY <1>5 DEF CallArchive, Idle
  <2>3. t \in TaskType
    BY DEF TaskType
  <2>4. task' \in [Workers -> TaskType] /\ Queue'
    BY <1>4, <2>1, <2>2, <2>3
  <2> QED
    BY <1>2, <1>3, <2>2, <2>4
<1>6. CASE HashFirst(c)
  <2> DEFINE f == task[c].seg
  <2>1. f \in Segments /\ Content(f) \in Sum
    BY <1>1, <1>6, TaskForms DEF HashFirst, At, UploadPc, UploadTask, Content, Sum
  <2>2. CASE CommitIfChanged(c, [records EXCEPT ![f].sum = Content(f)])
             /\ task' = [task EXCEPT ![c].pc = "mark", ![c].sum = Content(f)]
    <3>1. [records EXCEPT ![f].sum = Content(f)] \in Index
      BY <2>1, FieldTypes DEF TypeOK
    <3>2. records' \in Index /\ saving' \subseteq SavingType
      BY <1>1, <2>2, <3>1, CommitType
    <3> QED
      BY <1>1, <1>3, <1>6, <2>1, <2>2, <3>2, UploadStep DEF HashFirst, At, UploadPc
  <2>3. CASE End(c) /\ UNCHANGED <<records, saving>>
    BY <1>1, <1>2, <1>3, <1>6, <2>3, EndStep DEF HashFirst, At
  <2> QED
    BY <1>6, <2>2, <2>3 DEF HashFirst
<1>7. CASE MarkUploading(c)
  BY <1>1, <1>3, <1>7, StatusType, UploadStep DEF MarkUploading, At, Go, Status, UploadPc, Sum
<1>8. CASE CallCleanup(c)
  <2>1. PICK t \in CleanupTask : task' = [task EXCEPT ![c] = t]
    <3> PICK ids \in SUBSET {f \in Segments : Eligible(f)} :
           task' = [task EXCEPT ![c] = [pc |-> "remove", seg |-> c, changed |-> FALSE,
                                        todo |-> ids]]
      BY <1>8 DEF CallCleanup
    <3>1. [pc |-> "remove", seg |-> c, changed |-> FALSE, todo |-> ids] \in CleanupTask
      BY <1>1 DEF CleanupTask
    <3> QED
      BY <3>1
  <2>2. task[c].pc # "queued" /\ UNCHANGED <<config, early, file, remote, records, disk, saving,
                                            loop, crashes, cut>>
    BY <1>8 DEF CallCleanup, Idle
  <2>3. task' \in [Workers -> TaskType] /\ Queue'
    BY <1>4, <2>1, <2>2 DEF TaskType
  <2> QED
    BY <1>2, <1>3, <2>2, <2>3
<1>9. ASSUME NEW f \in Segments, RemoveFile(c, f) PROVE Typed'
  <2>1. task[c] \in CleanupTask /\ task[c].pc = "remove"
    BY <1>1, <1>9, TaskForms DEF RemoveFile, At
  <2>2. file' \in [Segments -> {"absent", "growing", "closed", "deleted"}]
    BY <1>9 DEF RemoveFile, TypeOK
  <2>3. PICK t \in CleanupTask : task' = [task EXCEPT ![c] = t]
    <3> DEFINE t1 == [task[c] EXCEPT !.pc = "tombstone", !.seg = f, !.todo = @ \ {f}]
               t2 == [task[c] EXCEPT !.todo = @ \ {f}]
    <3>1. t1 \in CleanupTask /\ t2 \in CleanupTask
      BY <2>1 DEF CleanupTask, Workers
    <3>2. task' = [task EXCEPT ![c] = t1] \/ task' = [task EXCEPT ![c] = t2]
      BY <1>1, <1>9, <2>1 DEF RemoveFile, TypeOK
    <3> QED
      BY <3>1, <3>2
  <2>4. task' \in [Workers -> TaskType] /\ Queue'
    BY <1>4, <1>9, <2>1, <2>3 DEF RemoveFile, TaskType
  <2> QED
    BY <1>2, <1>9, <2>2, <2>4, TaskAction DEF RemoveFile, TypeOK
<1>10. CASE Tombstone(c)
  <2>1. task[c] \in CleanupTask /\ task[c].pc = "tombstone"
    BY <1>1, <1>10, TaskForms DEF Tombstone, At
  <2>2. PICK st \in Status : records' = [records EXCEPT ![task[c].seg].status = st]
    BY <1>10 DEF Tombstone, Status
  <2>3. records' \in Index /\ saving' \subseteq SavingType
    <3>1. records \in Index /\ saving' \subseteq SavingType
      BY <1>10 DEF Tombstone, TypeOK, SavingType
    <3> QED
      BY <2>2, <3>1 DEF Index
  <2>4. PICK t \in CleanupTask : task' = [task EXCEPT ![c] = t]
    <3> DEFINE t == [task[c] EXCEPT !.pc = "remove", !.changed = TRUE]
    <3>1. t \in CleanupTask
      BY <2>1 DEF CleanupTask
    <3>2. task' = [task EXCEPT ![c] = t]
      BY <1>1, <1>10, <2>1 DEF Tombstone, TypeOK
    <3> QED
      BY <3>1, <3>2
  <2> QED
    BY <1>3, <1>4, <1>10, <2>1, <2>3, <2>4 DEF Tombstone, TaskType
<1>11. CASE EndCleanup(c)
  <2>1. records' \in Index /\ saving' \subseteq SavingType
    BY <1>1, <1>2, <1>11, CommitType DEF EndCleanup, TypeOK
  <2> QED
    BY <1>1, <1>3, <1>11, <2>1, EndStep DEF EndCleanup, At
<1>12. CASE DropCall(c)
  <2>1. task[c].pc # "queued"
    BY <1>12 DEF DropCall, At
  <2>2. remote' \in [Segments -> Sum]
    BY <1>12 DEF DropCall, TypeOK, Content, Sum
  <2> QED
    BY <1>1, <1>2, <1>12, <2>1, <2>2, EndStep, TaskAction DEF DropCall, TypeOK
<1> QED
  BY <1>5, <1>6, <1>7, <1>8, <1>9, <1>10, <1>11, <1>12 DEF ArchiveSteps, CleanupSteps

\* A restart keeps them.
LEMMA CrashTyped == ASSUME Typed, Crash PROVE Typed'
<1> USE DEF Typed
<1>1. NoIndex \in Index
  BY DEF NoIndex, Index, NoRecord, Status, Sum, None
<1>2. records' \in Index /\ disk' \in Index
  BY <1>1 DEF Crash, TypeOK
<1>3. task' \in [Workers -> {Idle}] /\ \A f \in Segments : task'[f] = Idle
  BY DEF Crash, Workers
<1>4. loop' = TopOfLoop /\ crashes' \in 0..MaxCrashes
  BY DEF Crash, TypeOK
<1> QED
  BY <1>2, <1>3, <1>4 DEF Crash, TypeOK, TopOfLoop, Queue, OwnTask

\* The types and the queue hold in every reachable state.
LEMMA TypedInvariant == Spec => []Typed
<1>1. Init => Typed
  <2> SUFFICES ASSUME Init PROVE Typed
    OBVIOUS
  <2>1. NoIndex \in Index
    BY DEF NoIndex, Index, NoRecord, Status, Sum, None
  <2>2. task \in [Workers -> {Idle}] /\ loop = TopOfLoop
    BY DEF Init
  <2>3. Queue
    BY <2>2 DEF Queue, OwnTask, TopOfLoop, Workers
  <2>4. file \in [Segments -> {"absent", "growing", "closed", "deleted"}]
        /\ remote \in [Segments -> Sum]
    BY DEF Init, Sum, None
  <2>5. loop \in LoopType
    BY <2>2 DEF LoopType, TopOfLoop
  <2>6. crashes \in 0..MaxCrashes /\ cut \in BOOLEAN
    <3>1. crashes = 0 /\ MaxCrashes \in Nat
      BY RecordingsAssumption DEF Init
    <3>2. cut \in BOOLEAN
      BY DEF Init
    <3>3. crashes \in 0..MaxCrashes
      BY <3>1
    <3> QED
      BY <3>2, <3>3
  <2>7. /\ config \in [archive : BOOLEAN, verify : BOOLEAN]
        /\ records \in Index /\ disk \in Index /\ saving = {} /\ early = {}
    BY <2>1 DEF Init
  <2>8. task \in [Workers -> TaskType] /\ saving \subseteq SavingType
    BY <2>2, <2>7 DEF TaskType
  <2>9. TypeOK
    BY <2>4, <2>5, <2>6, <2>7, <2>8 DEF TypeOK, LoopType, TaskType, SavingType
  <2> QED
    BY <2>3, <2>9 DEF Typed
<1>2. Typed /\ [Next]_vars => Typed'
  <2> SUFFICES ASSUME Typed, [Next]_vars PROVE Typed'
    OBVIOUS
  <2>1. CASE UNCHANGED vars
    BY <2>1 DEF vars, Typed, TypeOK, Queue, OwnTask
  <2> QED
    BY <2>1, FilesTyped, ReconcileTyped, PersistTyped, UploadTyped, CallTyped, CrashTyped
    DEF Next
<1> QED
  BY <1>1, <1>2, PTL DEF Spec

\* The state of the index, of its snapshots and of every task is well formed,
\* whatever is recorded and called.
THEOREM TypeCorrect == Spec => []TypeOK
<1>1. Typed => TypeOK
  BY DEF Typed
<1> QED
  BY <1>1, TypedInvariant, PTL

-------------------------------------------------------------------------------
(* Every "uploading" has its upload. *)

\* A step of one task keeps the owners, if it leaves no status "uploading" that
\* the task owned, and makes none that it does not own.
LEMMA OwnersKept ==
    ASSUME UploadHasOwner, UNCHANGED cut, NEW x \in Workers,
           \A y \in Workers \ {x} : task'[y] = task[y],
           \A f \in Segments : records'[f].status = "uploading" =>
               \/ Uploading(x, f)'
               \/ records[f].status = "uploading" /\ ~Uploading(x, f)
    PROVE  UploadHasOwner'
BY DEF UploadHasOwner, Uploading

\* A step of the loop keeps them too: it replaces the tasks of segments whose
\* recordings it marks, and starts those that it queued.
LEMMA ReconcileOwners ==
    ASSUME Typed, UploadHasOwner, Reconcile PROVE UploadHasOwner'
<1> USE DEF Typed
<1>1. CASE IndexClosedFiles
  <2> PICK index : /\ CommitIfChanged("loop", index)
                   /\ \A f \in Segments : index[f] \in {Fresh, records[f]}
    BY <1>1 DEF IndexClosedFiles
  <2>1. \A f \in Segments : records'[f] \in {Fresh, records[f]}
    BY DEF CommitIfChanged, Commit
  <2>2. UNCHANGED <<task, cut>>
    BY <1>1 DEF IndexClosedFiles
  <2> QED
    BY <2>1, <2>2 DEF Fresh, UploadHasOwner, Uploading
<1>2. CASE CollectUnhashed \/ EndBackfill
  <2>1. UNCHANGED <<records, task, cut>>
    BY <1>2 DEF CollectUnhashed, EndBackfill, Commit
  <2> QED
    BY <2>1 DEF UploadHasOwner, Uploading
<1>3. ASSUME NEW g \in Segments, BackfillChecksum(g) \/ SkipBackfill(g) PROVE UploadHasOwner'
  <2>1. UNCHANGED <<task, cut>>
    BY <1>3 DEF BackfillChecksum, SkipBackfill
  <2>2. records' = records \/ records' = [records EXCEPT ![g].sum = Content(g)]
    BY <1>3 DEF BackfillChecksum, SkipBackfill
  <2>3. \A f \in Segments : records'[f].status = records[f].status
    BY <2>2 DEF TypeOK, Index
  <2> QED
    BY <2>1, <2>3 DEF UploadHasOwner, Uploading
<1>4. CASE ScheduleUploads
  <2> DEFINE due == {f \in Segments : records[f].status = "local" /\ IsFile(f)}
  <2>1. /\ cut' = cut
        /\ \A f \in Segments \ due : records'[f] = records[f]
        /\ \A x \in Workers \ due : task'[x] = task[x]
        /\ \A f \in due : task'[f] = [pc |-> "queued", seg |-> f, sum |-> records[f].sum]
    BY <1>4 DEF ScheduleUploads, Commit, Workers
  <2>2. ASSUME NEW f \in due PROVE Uploading(f, f)'
    <3>1. task'[f] = [pc |-> "queued", seg |-> f, sum |-> records[f].sum]
      BY <2>1
    <3> QED
      BY <3>1 DEF Uploading
  <2>3. ASSUME NEW f \in Segments \ due, NEW x \in Workers, Uploading(x, f)
        PROVE  Uploading(x, f)'
    <3>1. x \notin due
      <4>1. task[x].pc \in UploadPc /\ task[x].seg = f
        BY <2>3 DEF Uploading, UploadPc
      <4> QED
        BY <4>1, TaskForms
    <3> QED
      BY <2>1, <2>3, <3>1 DEF Uploading
  <2> QED
    BY <2>1, <2>2, <2>3 DEF UploadHasOwner, Workers
<1>5. CASE SpawnUploads
  <2>1. /\ UNCHANGED <<records, cut>>
        /\ \A x \in Workers : task'[x] = IF x \in loop.todo
                                         THEN [task[x] EXCEPT !.pc = "upload"] ELSE task[x]
    BY <1>5 DEF SpawnUploads
  <2>2. ASSUME NEW f \in Segments, NEW x \in Workers, Uploading(x, f)
        PROVE  Uploading(x, f)'
    <3>1. task[x] \in UploadTask
      BY <2>2, TaskForms DEF Uploading, UploadPc
    <3> QED
      BY <2>1, <2>2, <3>1 DEF Uploading, UploadTask
  <2> QED
    BY <2>1, <2>2 DEF UploadHasOwner
<1> QED
  BY <1>1, <1>2, <1>3, <1>4, <1>5 DEF Reconcile

\* A step of an upload keeps them: it goes on, or overwrites the status as it ends.
LEMMA UploadOwners ==
    ASSUME Typed, UploadHasOwner, NEW x \in Workers, Upload(x) PROVE UploadHasOwner'
<1> USE DEF Typed
<1>1. task[x].pc \in UploadPc \ {"queued"} /\ UNCHANGED cut
  BY DEF Upload, StartUpload, MissingFile, Hash, HashFails, Copy, CopyFails, Verify,
         VerifyFails, Refuse, Finish, Fail, At, UploadPc
<1>2. task[x] \in UploadTask
  BY <1>1, TaskForms
<1> PICK f \in Segments : task[x].seg = f
  BY <1>2 DEF UploadTask
<1>3. \A y \in Workers \ {x} : task'[y] = task[y]
  <2>1. \/ \E t : task' = [task EXCEPT ![x] = t]
        \/ \E p : task' = [task EXCEPT ![x].pc = p]
        \/ \E p, s : task' = [task EXCEPT ![x].pc = p, ![x].sum = s]
    BY DEF Upload, StartUpload, MissingFile, Hash, HashFails, Copy, CopyFails, Verify,
           VerifyFails, Refuse, Finish, Fail, At, Go, End
  <2> QED
    BY <2>1 DEF TypeOK
<1>4. \A g \in Segments : Uploading(x, g) => g = f
  BY DEF Uploading
<1>5. ASSUME NEW st \in {"failed", "archived"}, SetStatus(x, f, st) PROVE UploadHasOwner'
  <2>1. records' = [records EXCEPT ![f].status = st]
    BY <1>5 DEF SetStatus, Commit
  <2>2. \A g \in Segments : records'[g].status = IF g = f THEN st ELSE records[g].status
    BY <2>1 DEF TypeOK, Index
  <2> QED
    BY <1>1, <1>3, <1>4, <2>2, OwnersKept
<1>6. ASSUME \A g \in Segments : records'[g].status = records[g].status,
             Uploading(x, f) => Uploading(x, f)'
      PROVE  UploadHasOwner'
  BY <1>1, <1>3, <1>4, <1>6, OwnersKept
<1>7. CASE StartUpload(x) \/ Hash(x) \/ Copy(x) \/ Verify(x) \/ VerifyFails(x)
  <2>1. \/ records' = records
        \/ records' = [records EXCEPT ![f].sum = Content(f)]
        \/ records' = [records EXCEPT ![f].verified = TRUE]
        \/ records' = [records EXCEPT ![f].verified = FALSE]
    BY <1>7 DEF StartUpload, Hash, Copy, Verify, VerifyFails, CommitIfChanged, Commit
  <2>2. ASSUME NEW g \in Segments PROVE records'[g].status = records[g].status
    <3>1. records[g] \in [status : Status, sum : Sum, verified : BOOLEAN] /\ f \in DOMAIN records
      BY DEF TypeOK, Index
    <3>2. CASE g = f
      BY <2>1, <3>1, <3>2
    <3>3. CASE g # f
      BY <2>1, <3>3 DEF TypeOK, Index
    <3> QED
      BY <3>2, <3>3
  <2>3. Uploading(x, f) => Uploading(x, f)'
    <3>1. \/ \E p \in {"hash", "copy", "verify", "finish", "refuse"} :
                task' = [task EXCEPT ![x].pc = p]
          \/ task' = [task EXCEPT ![x].pc = "copy", ![x].sum = Content(f)]
          \/ ~Uploading(x, f)
      BY <1>7 DEF StartUpload, Hash, Copy, Verify, VerifyFails, Go, At, Uploading
    <3> QED
      BY <1>2, <3>1 DEF Uploading, UploadTask, TypeOK
  <2> QED
    BY <1>6, <2>2, <2>3
<1> QED
  BY <1>5, <1>7 DEF Upload, MissingFile, HashFails, CopyFails, Refuse, Fail, Finish

\* A step of an archive or cleanup call keeps them, unless the call is dropped.
LEMMA CallOwners ==
    ASSUME Typed, UploadHasOwner, NEW c \in Calls,
           \/ \E f \in Segments : CallArchive(c, f)
           \/ ArchiveSteps(c) \/ CallCleanup(c) \/ CleanupSteps(c) \/ DropCall(c)
    PROVE  UploadHasOwner'
<1> USE DEF Typed
<1>1. c \in Workers
  BY DEF Workers
<1>2. CASE DropCall(c)
  BY <1>2 DEF DropCall, UploadHasOwner
<1>3. CASE MarkUploading(c)
  <2> DEFINE f == task[c].seg
  <2>1. task[c] \in UploadTask /\ f \in Segments /\ task[c].pc = "mark"
    BY <1>1, <1>3, TaskForms DEF MarkUploading, At, UploadPc, UploadTask
  <2>2. /\ cut' = cut
        /\ records' = [records EXCEPT ![f].status = "uploading"]
        /\ task' = [task EXCEPT ![c].pc = "upload"]
    BY <1>3 DEF MarkUploading, SetStatus, Commit, Go
  <2>3. Uploading(c, f)'
    BY <1>1, <2>1, <2>2 DEF Uploading, UploadTask, TypeOK
  <2>4. \A g \in Segments : g # f => records'[g] = records[g] /\ ~Uploading(c, g)
    BY <2>2 DEF TypeOK, Index, Uploading
  <2> QED
    BY <1>1, <2>2, <2>3, <2>4, OwnersKept
<1>4. CASE \/ \E f \in Segments : CallArchive(c, f) \/ RemoveFile(c, f)
           \/ HashFirst(c) \/ CallCleanup(c) \/ Tombstone(c) \/ EndCleanup(c)
  <2>1. \A f \in Segments : ~Uploading(c, f)
    <3>1. task[c].pc \in {"idle", "hashFirst", "remove", "tombstone"}
      <4>1. task[c] = Idle => task[c].pc = "idle"
        BY DEF Idle
      <4> QED
        BY <1>4, <4>1 DEF CallArchive, HashFirst, CallCleanup, RemoveFile, Tombstone, EndCleanup, At
    <3> QED
      BY <3>1 DEF Uploading
  <2>2. \/ UNCHANGED records
        \/ records' = [records EXCEPT ![task[c].seg].sum = Content(task[c].seg)]
        \/ \E st \in {"archived", "deleted"} :
              records' = [records EXCEPT ![task[c].seg].status = st]
    BY <1>4 DEF CallArchive, HashFirst, CallCleanup, RemoveFile, Tombstone, EndCleanup,
           CommitIfChanged, Commit
  <2>3. ASSUME NEW f \in Segments, records'[f].status = "uploading"
        PROVE  records[f].status = "uploading"
    <3>1. records[f] \in [status : Status, sum : Sum, verified : BOOLEAN] /\ f \in DOMAIN records
      BY DEF TypeOK, Index
    <3>2. CASE f = task[c].seg
      BY <2>2, <2>3, <3>1, <3>2
    <3>3. CASE f # task[c].seg
      BY <2>2, <2>3, <3>1, <3>3
    <3> QED
      BY <3>2, <3>3
  <2>4. cut' = cut /\ \A y \in Workers \ {c} : task'[y] = task[y]
    <3>1. \/ \E t : task' = [task EXCEPT ![c] = t]
          \/ task' = [task EXCEPT ![c].pc = "mark", ![c].sum = Content(task[c].seg)]
          \/ task' = [task EXCEPT ![c].pc = "remove", ![c].changed = TRUE]
          \/ \E f \in Segments :
               \/ task' = [task EXCEPT ![c].todo = @ \ {f}]
               \/ task' = [task EXCEPT ![c].pc = "tombstone", ![c].seg = f, ![c].todo = @ \ {f}]
      BY <1>4 DEF CallArchive, HashFirst, CallCleanup, RemoveFile, Tombstone, EndCleanup, End
    <3>2. cut' = cut
      BY <1>4 DEF CallArchive, HashFirst, CallCleanup, RemoveFile, Tombstone, EndCleanup
    <3> QED
      BY <3>1, <3>2 DEF TypeOK
  <2> QED
    BY <1>1, <2>1, <2>3, <2>4, OwnersKept
<1> QED
  BY <1>2, <1>3, <1>4 DEF ArchiveSteps, CleanupSteps

\* A recording is never stuck in the status "uploading": however archive calls,
\* scheduled uploads and cleanups overlap, there is an upload that will overwrite
\* it, unless the process restarted or an API call was dropped.
THEOREM UploadsOwned == Spec => []UploadHasOwner
<1>1. Init => UploadHasOwner
  BY DEF Init, UploadHasOwner, NoIndex, NoRecord
<1>2. Typed /\ UploadHasOwner /\ [Next]_vars => UploadHasOwner'
  <2> SUFFICES ASSUME Typed, UploadHasOwner, [Next]_vars PROVE UploadHasOwner'
    OBVIOUS
  <2>1. ASSUME UNCHANGED <<records, task, cut>> PROVE UploadHasOwner'
    BY <2>1 DEF UploadHasOwner, Uploading
  <2>2. CASE UNCHANGED vars
    BY <2>1, <2>2 DEF vars
  <2>3. CASE Persist \/ \E f \in Segments : OpenFile(f) \/ CloseFile(f)
    BY <2>1, <2>3 DEF Persist, Clone, Write, WritesMix, OpenFile, CloseFile
  <2>4. CASE Crash
    BY <2>4 DEF Crash, UploadHasOwner
  <2> QED
    BY <2>2, <2>3, <2>4, ReconcileOwners, UploadOwners, CallOwners DEF Next
<1> QED
  BY <1>1, <1>2, TypedInvariant, PTL DEF Spec

-------------------------------------------------------------------------------
(* What Recordings promises of a segment that was not indexed early: the index   *)
(* tells the truth about its remote object, and retention never removes its only *)
(* whole copy.  Nothing reads such a segment before it is closed.                *)

Kept == {"closed", "deleted"}

\* A record of a file in state fl whose remote object is o.
Sound(r, fl, o) ==
    /\ r # NoRecord => fl \in Kept
    /\ r.sum # Partial
    /\ r.status = "archived" => o = Whole
    /\ r.verified => o = Whole /\ r.sum = Whole

\* The index in memory, on disk and in every snapshot on its way to the disk.
SoundIndexes ==
    \A f \in Segments \ early :
        /\ remote[f] # Partial
        /\ Sound(records[f], file[f], remote[f])
        /\ Sound(disk[f], file[f], remote[f])
        /\ \A s \in saving : Sound(s.index[f], file[f], remote[f])

SoundUpload(t) ==
    t.pc \in UploadPc /\ t.seg \notin early =>
        /\ file[t.seg] \in Kept
        /\ t.sum # None => records[t.seg].sum = Whole
        /\ t.pc \in {"copy", "verify", "recheck", "mark"} => t.sum # None
        /\ t.pc \in {"verify", "finish"} => remote[t.seg] = Whole

\* A scan may be old by now, but what it took for archived still is.
SoundCleanup(t) ==
    t.pc \in {"remove", "tombstone"} =>
        /\ \A f \in t.todo \ early : config.archive => remote[f] = Whole
        /\ t.pc = "tombstone" => t.seg \in Segments /\ file[t.seg] \in Kept

SoundTask(t) == SoundUpload(t) /\ SoundCleanup(t)

SoundWork ==
    /\ loop.pc = "backfill" => \A f \in loop.todo \ early : file[f] \in Kept
    /\ \A x \in Workers : SoundTask(task[x])

WholeCopies ==
    \A f \in Segments \ early : config.archive /\ file[f] = "deleted" => remote[f] = Whole

Safe == SoundIndexes /\ SoundWork /\ WholeCopies

-------------------------------------------------------------------------------
(* What was learned of a segment stays true. *)

Grows ==
    /\ config' = config /\ early \subseteq early'
    /\ \A f \in Segments : file[f] \in Kept => file'[f] \in Kept
    /\ \A f \in Segments \ early' :
         /\ remote[f] = Whole => remote'[f] = Whole
         /\ remote'[f] # Partial
         /\ records[f].sum = Whole => records'[f].sum = Whole

\* A record that is sound stays so while files are kept and objects are whole.
LEMMA SoundStays ==
    ASSUME NEW r, NEW fl, NEW o, NEW fl2, NEW o2, Sound(r, fl, o),
           fl \in Kept => fl2 \in Kept, o = Whole => o2 = Whole
    PROVE  Sound(r, fl2, o2)
BY DEF Sound

\* The empty index is sound.
LEMMA NoIndexSound ==
    ASSUME NEW f \in Segments, NEW fl, NEW o PROVE Sound(NoIndex[f], fl, o)
BY DEF NoIndex, NoRecord, Sound, None, Partial

\* The indexes stay sound if the new records are.
LEMMA IndexFrame ==
    ASSUME SoundIndexes, Grows, UNCHANGED disk,
           \A f \in Segments \ early' : Sound(records'[f], file'[f], remote'[f]),
           \A s \in saving' : s \in saving \/ s.index = NoIndex \/ s.index = records'
    PROVE  SoundIndexes'
<1>1. ASSUME NEW f \in Segments \ early'
      PROVE  /\ Sound(disk'[f], file'[f], remote'[f])
             /\ \A s \in saving' : Sound(s.index[f], file'[f], remote'[f])
  <2>1. Sound(disk[f], file[f], remote[f]) /\ \A s \in saving : Sound(s.index[f], file[f], remote[f])
    BY DEF SoundIndexes, Grows
  <2>2. (file[f] \in Kept => file'[f] \in Kept) /\ (remote[f] = Whole => remote'[f] = Whole)
    BY DEF Grows
  <2>3. Sound(disk'[f], file'[f], remote'[f])
    BY <2>1, <2>2, SoundStays
  <2>4. ASSUME NEW s \in saving' PROVE Sound(s.index[f], file'[f], remote'[f])
    BY <2>1, <2>2, SoundStays, NoIndexSound
  <2> QED
    BY <2>3, <2>4
<1> QED
  BY <1>1 DEF SoundIndexes, Grows

\* What one task knows survives the steps of the others.
LEMMA TaskStays ==
    ASSUME TypeOK, Grows, NEW t \in TaskType, SoundTask(t)
    PROVE  /\ t.pc \in UploadPc /\ t.seg \notin early' =>
                /\ file'[t.seg] \in Kept
                /\ t.sum # None => records'[t.seg].sum = Whole
                /\ t.pc \in {"copy", "verify", "recheck", "mark"} => t.sum # None
                /\ t.pc \in {"verify", "finish"} => remote'[t.seg] = Whole
           /\ t.pc \in {"remove", "tombstone"} =>
                /\ \A f \in t.todo \ early' : config'.archive => remote'[f] = Whole
                /\ t.pc = "tombstone" => t.seg \in Segments /\ file'[t.seg] \in Kept
<1>1. CASE t \in UploadTask
  <2>1. t.seg \in Segments /\ t.pc \in UploadPc
    BY <1>1 DEF UploadTask
  <2> QED
    BY <2>1 DEF SoundTask, SoundUpload, Grows, UploadPc
<1>2. CASE t \in CleanupTask
  <2>1. t.todo \subseteq Segments /\ t.pc \in {"remove", "tombstone"}
    BY <1>2 DEF CleanupTask
  <2> QED
    BY <2>1 DEF SoundTask, SoundCleanup, Grows, UploadPc
<1>3. CASE t \in {Idle}
  BY <1>3 DEF Idle, UploadPc
<1> QED
  BY <1>1, <1>2, <1>3 DEF TaskType

\* Only the task that takes the step has to be looked at.
LEMMA WorkFrame ==
    ASSUME TypeOK, SoundWork, Grows, UNCHANGED loop, NEW x \in Workers,
           \A y \in Workers \ {x} : task'[y] = task[y], SoundTask(task[x])'
    PROVE  SoundWork'
<1>1. ASSUME NEW y \in Workers PROVE SoundTask(task[y])'
  <2>1. CASE y = x
    BY <2>1
  <2>2. CASE y # x
    <3>1. task[y] \in TaskType /\ SoundTask(task[y]) /\ task'[y] = task[y]
      BY <2>2 DEF TypeOK, TaskType, SoundWork
    <3> QED
      BY <3>1, TaskStays DEF SoundTask, SoundUpload, SoundCleanup
  <2> QED
    BY <2>1, <2>2
<1>2. loop'.pc = "backfill" => \A f \in loop'.todo \ early' : file'[f] \in Kept
  BY DEF SoundWork, Grows, TypeOK
<1> QED
  BY <1>1, <1>2 DEF SoundWork

\* A step that deletes no file keeps the last copies.
LEMMA CopiesFrame ==
    ASSUME WholeCopies, Grows,
           \A f \in Segments : file'[f] = "deleted" => file[f] = "deleted"
    PROVE  WholeCopies'
BY DEF WholeCopies, Grows

-------------------------------------------------------------------------------
(* The steps of an upload write the record of their segment. *)

\* A task may go on as t after it made the record r and the object o of segment f.
Fits(f, r, o, t) ==
    \/ t = Idle
    \/ /\ t.pc \in UploadPc /\ t.seg = f /\ file[f] \in Kept
       /\ t.sum # None => r.sum = Whole
       /\ t.pc \in {"copy", "verify", "recheck", "mark"} => t.sum # None
       /\ t.pc \in {"verify", "finish"} => o = Whole

\* A step of task x that sets the record of f to r, its object to o and x to t.
Outcome(x, f, r, o, t) ==
    /\ UNCHANGED <<config, early, file, disk, loop>>
    /\ records' = [records EXCEPT ![f] = r] /\ remote' = [remote EXCEPT ![f] = o]
    /\ task' = [task EXCEPT ![x] = t]
    /\ \A s \in saving' : s \in saving \/ s.index = NoIndex

SoundOutcome(f, r, o) ==
    /\ Sound(r, file[f], o) /\ o \in {remote[f], Whole}
    /\ records[f].sum = Whole => r.sum = Whole

\* Such a step keeps everything sound if its three values fit together.
LEMMA UploadFrame ==
    ASSUME Typed, Safe, NEW x \in Workers, NEW f \in Segments, NEW r, NEW o, NEW t,
           Outcome(x, f, r, o, t),
           IF f \in early THEN t = Idle \/ (t.pc \in UploadPc /\ t.seg = f)
           ELSE Fits(f, r, o, t) /\ SoundOutcome(f, r, o)
    PROVE  Safe'
<1> USE DEF Typed, Outcome, Fits, SoundOutcome
<1>1. /\ \A g \in Segments : records'[g] = IF g = f THEN r ELSE records[g]
      /\ \A g \in Segments : remote'[g] = IF g = f THEN o ELSE remote[g]
      /\ \A y \in Workers : task'[y] = IF y = x THEN t ELSE task[y]
  BY DEF TypeOK, Index
<1>2. Grows
  BY <1>1 DEF Grows, Safe, SoundIndexes, Whole, Partial
<1>3. SoundIndexes'
  <2>1. \A g \in Segments \ early : Sound(records'[g], file'[g], remote'[g])
    BY <1>1 DEF Safe, SoundIndexes
  <2> QED
    BY <1>2, <2>1, IndexFrame DEF Safe
<1>4. SoundTask(task[x])'
  <2>1. CASE t = Idle
    BY <1>1, <2>1 DEF SoundTask, SoundUpload, SoundCleanup, Idle, UploadPc
  <2>2. CASE t # Idle
    BY <1>1, <2>2 DEF SoundTask, SoundUpload, SoundCleanup, UploadPc
  <2> QED
    BY <2>1, <2>2
<1>5. SoundWork'
  BY <1>1, <1>2, <1>4, WorkFrame DEF Safe
<1>6. WholeCopies'
  BY <1>2, CopiesFrame DEF Safe
<1> QED
  BY <1>3, <1>5, <1>6 DEF Safe

\* So does one that leaves the record and the object alone.
LEMMA QuietUpload ==
    ASSUME Typed, Safe, NEW x \in Workers, NEW f \in Segments \ early, NEW t,
           UNCHANGED <<config, early, file, disk, loop, records, remote, saving>>,
           task' = [task EXCEPT ![x] = t], Fits(f, records[f], remote[f], t)
    PROVE  Safe'
<1>1. /\ records' = [records EXCEPT ![f] = records[f]]
      /\ remote' = [remote EXCEPT ![f] = remote[f]]
  BY DEF Typed, TypeOK, Index
<1>2. Sound(records[f], file[f], remote[f])
  BY DEF Safe, SoundIndexes
<1>3. Outcome(x, f, records[f], remote[f], t) /\ SoundOutcome(f, records[f], remote[f])
  BY <1>1, <1>2 DEF Outcome, SoundOutcome
<1> QED
  BY <1>3, UploadFrame

\* Nothing has to be shown of a step of a task on a segment that was indexed early.
LEMMA EarlyUpload ==
    ASSUME Typed, Safe, NEW x \in Workers, NEW f \in early, NEW r, NEW o, NEW t,
           Outcome(x, f, r, o, t), t = Idle \/ (t.pc \in UploadPc /\ t.seg = f)
    PROVE  Safe'
<1>1. f \in Segments
  BY DEF Typed, TypeOK
<1> QED
  BY <1>1, UploadFrame

\* A task that uploads another segment knows this of it.
LEMMA UploadFacts ==
    ASSUME Typed, Safe, NEW x \in Workers, task[x].pc \in UploadPc, task[x].seg \notin early
    PROVE  /\ task[x] \in UploadTask /\ task[x].seg \in Segments
           /\ SoundUpload(task[x])
           /\ LET f == task[x].seg IN
                /\ Sound(records[f], file[f], remote[f])
                /\ records[f] \in [status : Status, sum : Sum, verified : BOOLEAN]
                /\ remote[f] \in {None, Whole}
                /\ IsFile(f) => Content(f) = Whole
<1>1. task[x] \in UploadTask /\ task[x].seg \in Segments
  BY TaskForms DEF Typed, UploadTask
<1>2. SoundUpload(task[x])
  BY DEF Safe, SoundWork, SoundTask
<1>3. \A f \in Segments \ early :
        /\ Sound(records[f], file[f], remote[f])
        /\ records[f] \in [status : Status, sum : Sum, verified : BOOLEAN]
        /\ remote[f] \in {None, Whole}
  BY DEF Safe, SoundIndexes, Typed, TypeOK, Index, Sum
<1>4. IsFile(task[x].seg) => Content(task[x].seg) = Whole
  BY <1>2 DEF SoundUpload, Kept, IsFile, Content
<1>5. /\ Sound(records[task[x].seg], file[task[x].seg], remote[task[x].seg])
      /\ records[task[x].seg] \in [status : Status, sum : Sum, verified : BOOLEAN]
      /\ remote[task[x].seg] \in {None, Whole}
  BY <1>1, <1>3
<1> QED
  BY <1>1, <1>2, <1>4, <1>5

\* The new records of an upload step, written by Commit or CommitIfChanged.
LEMMA CommitSaves ==
    ASSUME NEW x, NEW index, Commit(x, index) \/ CommitIfChanged(x, index)
    PROVE  /\ records' = index
           /\ \A s \in saving' : s \in saving \/ s.index = NoIndex
BY DEF Commit, CommitIfChanged

\* An upload that moves on to p, knowing the checksum c.
Moved(x, p, c) == [pc |-> p, seg |-> task[x].seg, sum |-> c]

\* Its step to another place has this form.
LEMMA GoMoves ==
    ASSUME TypeOK, NEW x \in Workers, task[x] \in UploadTask, NEW p, Go(x, p)
    PROVE  task' = [task EXCEPT ![x] = Moved(x, p, task[x].sum)]
<1>1. [task[x] EXCEPT !.pc = p] = Moved(x, p, task[x].sum)
  BY DEF UploadTask, Moved
<1>2. task' = [task EXCEPT ![x] = [task[x] EXCEPT !.pc = p]]
  BY DEF TypeOK, Go
<1> QED
  BY <1>1, <1>2

\* A step that learns the checksum of a closed file and goes on at p.
LEMMA HashSafe ==
    ASSUME Typed, Safe, NEW x \in Workers, NEW p \in {"copy", "mark"},
           task[x].pc \in UploadPc, IsFile(task[x].seg), task[x].seg \notin early,
           CommitIfChanged(x, [records EXCEPT ![task[x].seg].sum = Content(task[x].seg)]),
           task' = [task EXCEPT ![x].pc = p, ![x].sum = Content(task[x].seg)],
           UNCHANGED <<config, early, file, remote, disk, loop>>
    PROVE  Safe'
<1>1. PICK f \in Segments \ early : task[x].seg = f
  BY UploadFacts
<1> DEFINE r == [records[f] EXCEPT !.sum = Whole]
           t == Moved(x, p, Whole)
<1>2. /\ Content(f) = Whole /\ Sound(records[f], file[f], remote[f]) /\ file[f] \in Kept
      /\ records[f] \in [status : Status, sum : Sum, verified : BOOLEAN]
  BY <1>1, UploadFacts DEF SoundUpload
<1>3. /\ records' = [records EXCEPT ![f].sum = Whole]
      /\ \A s \in saving' : s \in saving \/ s.index = NoIndex
  BY <1>1, <1>2, CommitSaves
<1>4. records' = [records EXCEPT ![f] = r] /\ remote' = [remote EXCEPT ![f] = remote[f]]
  BY <1>3 DEF Typed, TypeOK, Index
<1>5. task' = [task EXCEPT ![x] = t]
  <2>1. task[x] \in UploadTask /\ TypeOK
    BY UploadFacts DEF Typed
  <2> DEFINE u == [task[x] EXCEPT !.pc = p]
  <2>2. u = [pc |-> p, seg |-> task[x].seg, sum |-> task[x].sum]
    BY <2>1 DEF UploadTask
  <2>3. task' = [task EXCEPT ![x] = [u EXCEPT !.sum = Whole]]
    BY <1>1, <1>2, <2>1 DEF TypeOK
  <2> HIDE DEF u
  <2>4. [u EXCEPT !.sum = Whole] = t
    BY <2>2 DEF Moved
  <2> QED
    BY <2>3, <2>4
<1>6. Sound(r, file[f], remote[f]) /\ r.sum = Whole
  BY <1>2 DEF Sound, Whole, Partial
<1>7. Outcome(x, f, r, remote[f], t) /\ SoundOutcome(f, r, remote[f])
  BY <1>3, <1>4, <1>5, <1>6 DEF Outcome, SoundOutcome
<1>8. Fits(f, r, remote[f], t)
  BY <1>1, <1>2, <1>6 DEF Fits, Moved, UploadPc, Whole, None
<1> QED
  BY <1>7, <1>8, UploadFrame

\* A step that sets the status and ends, or goes on at "upload".
LEMMA StatusSafe ==
    ASSUME Typed, Safe, NEW x \in Workers, task[x].pc \in UploadPc, task[x].seg \notin early,
           NEW st \in {"failed", "archived", "uploading"}, SetStatus(x, task[x].seg, st),
           st = "archived" => task[x].pc = "finish", End(x) \/ Go(x, "upload"),
           UNCHANGED <<config, early, file, remote, disk, loop>>
    PROVE  Safe'
<1>1. PICK f \in Segments \ early : task[x].seg = f
  BY UploadFacts
<1> DEFINE r == [records[f] EXCEPT !.status = st]
           t == IF End(x) THEN Idle ELSE Moved(x, "upload", task[x].sum)
<1>2. /\ Sound(records[f], file[f], remote[f]) /\ SoundUpload(task[x])
      /\ records[f] \in [status : Status, sum : Sum, verified : BOOLEAN]
  BY <1>1, UploadFacts
<1>3. /\ records' = [records EXCEPT ![f].status = st]
      /\ \A s \in saving' : s \in saving \/ s.index = NoIndex
  BY <1>1, CommitSaves DEF SetStatus
<1>4. records' = [records EXCEPT ![f] = r] /\ remote' = [remote EXCEPT ![f] = remote[f]]
  BY <1>3 DEF Typed, TypeOK, Index
<1>5. task' = [task EXCEPT ![x] = t]
  <2>1. task[x] \in UploadTask /\ TypeOK
    BY UploadFacts DEF Typed
  <2>2. CASE End(x)
    BY <2>2 DEF End
  <2>3. CASE ~End(x)
    BY <2>1, <2>3, GoMoves
  <2> QED
    BY <2>2, <2>3
<1>6. Sound(r, file[f], remote[f]) /\ r.sum = records[f].sum
  BY <1>1, <1>2 DEF Sound, SoundUpload
<1>7. Outcome(x, f, r, remote[f], t) /\ SoundOutcome(f, r, remote[f])
  BY <1>3, <1>4, <1>5, <1>6 DEF Outcome, SoundOutcome
<1>8. Fits(f, r, remote[f], t)
  BY <1>1, <1>2, <1>6 DEF Fits, Moved, UploadPc, SoundUpload
<1> QED
  BY <1>7, <1>8, UploadFrame

\* A step that writes whether the remote object was verified.
LEMMA VerifySafe ==
    ASSUME Typed, Safe, NEW x \in Workers, NEW f \in Segments \ early, NEW v \in BOOLEAN,
           NEW o \in {remote[f], Whole}, NEW t,
           v => o = Whole /\ records[f].sum = Whole, file[f] \in Kept,
           CommitIfChanged(x, [records EXCEPT ![f].verified = v]),
           remote' = [remote EXCEPT ![f] = o], task' = [task EXCEPT ![x] = t],
           UNCHANGED <<config, early, file, disk, loop>>, Fits(f, records[f], o, t)
    PROVE  Safe'
<1> DEFINE r == [records[f] EXCEPT !.verified = v]
<1>1. /\ Sound(records[f], file[f], remote[f])
      /\ records[f] \in [status : Status, sum : Sum, verified : BOOLEAN]
  BY DEF Safe, SoundIndexes, Typed, TypeOK, Index
<1>2. /\ records' = [records EXCEPT ![f].verified = v]
      /\ \A s \in saving' : s \in saving \/ s.index = NoIndex
  BY CommitSaves
<1>3. records' = [records EXCEPT ![f] = r]
  BY <1>2 DEF Typed, TypeOK, Index
<1>4. /\ r.status = records[f].status /\ r.sum = records[f].sum /\ r.verified = v
  BY <1>1
<1>5. Sound(r, file[f], o)
  <2> HIDE DEF r
  <2> QED
    BY <1>1, <1>4 DEF Sound
<1>6. Outcome(x, f, r, o, t) /\ SoundOutcome(f, r, o)
  BY <1>2, <1>3, <1>4, <1>5 DEF Outcome, SoundOutcome
<1>7. Fits(f, r, o, t)
  BY <1>4 DEF Fits
<1> QED
  BY <1>6, <1>7, UploadFrame

\* Every step of an upload keeps everything sound.
LEMMA UploadSafe ==
    ASSUME Typed, Safe, NEW x \in Workers, Upload(x), task[x].seg \notin early
    PROVE  Safe'
<1>1. task[x].pc \in UploadPc \ {"queued"}
  BY DEF Upload, StartUpload, MissingFile, Hash, HashFails, Copy, CopyFails, Verify,
         VerifyFails, Refuse, Finish, Fail, At, UploadPc
<1>2. PICK f \in Segments \ early : task[x].seg = f
  BY <1>1, UploadFacts
<1>3. /\ TypeOK /\ task[x] \in UploadTask /\ SoundUpload(task[x])
      /\ remote[f] \in {None, Whole} /\ (IsFile(f) => Content(f) = Whole)
      /\ file[f] \in Kept
  BY <1>1, <1>2, UploadFacts DEF Typed, SoundUpload
<1>4. remote = [remote EXCEPT ![f] = remote[f]]
  BY <1>3 DEF TypeOK
<1>5. CASE StartUpload(x)
  <2> DEFINE p == IF task[x].sum = None THEN "hash" ELSE "copy"
             t == Moved(x, p, task[x].sum)
  <2>1. Go(x, p)
    BY <1>5 DEF StartUpload
  <2>2. task' = [task EXCEPT ![x] = t]
    BY <1>3, <2>1, GoMoves
  <2>3. Fits(f, records[f], remote[f], t)
    BY <1>1, <1>2, <1>3 DEF Fits, Moved, SoundUpload, UploadPc
  <2> QED
    BY <1>5, <2>2, <2>3, QuietUpload DEF StartUpload
<1>6. ASSUME Fail(x) PROVE Safe'
  BY <1>1, <1>6, StatusSafe DEF Fail
<1>7. CASE Hash(x)
  BY <1>1, <1>7, HashSafe DEF Hash
<1>8. CASE Copy(x)
  <2> DEFINE p == IF config.verify THEN "verify" ELSE "finish"
             t == Moved(x, p, task[x].sum)
  <2>1. /\ remote' = [remote EXCEPT ![f] = Whole] /\ task[x].pc = "copy"
        /\ UNCHANGED <<config, early, file, disk, loop>>
    BY <1>2, <1>3, <1>8 DEF Copy, At
  <2>2. task' = [task EXCEPT ![x] = t]
    <3>1. Go(x, p)
      BY <1>8 DEF Copy
    <3> QED
      BY <1>3, <3>1, GoMoves
  <2>3. Fits(f, records[f], Whole, t)
    BY <1>1, <1>2, <1>3, <2>1 DEF Fits, Moved, SoundUpload, UploadPc
  <2>4. CASE config.verify
    <3>1. Sound(records[f], file[f], Whole)
      BY SoundStays DEF Safe, SoundIndexes
    <3>2. UNCHANGED <<records, saving>>
      BY <1>8, <2>4 DEF Copy
    <3>3. records' = [records EXCEPT ![f] = records[f]]
      BY <3>2 DEF Typed, TypeOK, Index
    <3>4. Outcome(x, f, records[f], Whole, t) /\ SoundOutcome(f, records[f], Whole)
      BY <2>1, <2>2, <3>1, <3>2, <3>3 DEF Outcome, SoundOutcome
    <3> QED
      BY <2>3, <3>4, UploadFrame
  <2>5. CASE ~config.verify
    <3>1. CommitIfChanged(x, [records EXCEPT ![f].verified = FALSE])
      BY <1>2, <1>8, <2>5 DEF Copy
    <3> QED
      BY <1>3, <2>1, <2>2, <2>3, <3>1, VerifySafe
  <2> QED
    BY <2>4, <2>5
<1>9. CASE Verify(x)
  <2> DEFINE t == IF task[x].pc = "verify" THEN Moved(x, "finish", task[x].sum) ELSE Idle
  <2>1. /\ task[x].pc \in {"verify", "recheck"} /\ remote[f] = task[x].sum
        /\ CommitIfChanged(x, [records EXCEPT ![f].verified = TRUE])
        /\ UNCHANGED <<config, early, file, remote, disk, loop>>
    BY <1>2, <1>9 DEF Verify, At
  <2>2. remote[f] = Whole /\ records[f].sum = Whole
    BY <1>1, <1>2, <1>3, <2>1 DEF SoundUpload
  <2>3. task' = [task EXCEPT ![x] = t]
    <3>1. CASE task[x].pc = "verify"
      BY <1>3, <1>9, <3>1, GoMoves DEF Verify
    <3>2. CASE task[x].pc # "verify"
      BY <1>9, <3>2 DEF Verify, End
    <3> QED
      BY <3>1, <3>2
  <2>4. Fits(f, records[f], remote[f], t)
    BY <1>1, <1>2, <1>3, <2>2 DEF Fits, Moved, SoundUpload, UploadPc
  <2> QED
    BY <1>3, <1>4, <2>1, <2>2, <2>3, <2>4, VerifySafe
<1>10. CASE VerifyFails(x)
  <2> DEFINE t == Moved(x, "refuse", task[x].sum)
  <2>1. /\ CommitIfChanged(x, [records EXCEPT ![f].verified = FALSE])
        /\ UNCHANGED <<config, early, file, remote, disk, loop>> /\ Go(x, "refuse")
    BY <1>2, <1>10 DEF VerifyFails
  <2>2. task' = [task EXCEPT ![x] = t]
    BY <1>3, <2>1, GoMoves
  <2>3. Fits(f, records[f], remote[f], t)
    BY <1>1, <1>2, <1>3 DEF Fits, Moved, SoundUpload, UploadPc
  <2> QED
    BY <1>3, <1>4, <2>1, <2>2, <2>3, VerifySafe
<1>11. CASE Finish(x)
  BY <1>1, <1>11, StatusSafe DEF Finish, At
<1> QED
  BY <1>5, <1>6, <1>7, <1>8, <1>9, <1>10, <1>11
  DEF Upload, MissingFile, HashFails, CopyFails, Refuse

\* So does every step of an upload or an archive call on a segment indexed early: it
\* writes that segment's record and object only.
LEMMA EarlySafe ==
    ASSUME Typed, Safe, NEW x \in Workers, Upload(x) \/ HashFirst(x) \/ MarkUploading(x),
           task[x].seg \in early
    PROVE  Safe'
<1>1. /\ TypeOK /\ task[x] \in UploadTask
      /\ UNCHANGED <<config, early, file, disk, loop>>
      /\ \A s \in saving' : s \in saving \/ s.index = NoIndex
  <2>1. task[x].pc \in UploadPc
    BY DEF Upload, StartUpload, MissingFile, Hash, HashFails, Copy, CopyFails, Verify,
           VerifyFails, Refuse, Finish, Fail, HashFirst, MarkUploading, At, UploadPc
  <2>2. UNCHANGED <<config, early, file, disk, loop>>
    BY DEF Upload, StartUpload, MissingFile, Hash, HashFails, Copy, CopyFails, Verify,
           VerifyFails, Refuse, Finish, Fail, HashFirst, MarkUploading
  <2>3. \A s \in saving' : s \in saving \/ s.index = NoIndex
    BY DEF Upload, StartUpload, MissingFile, Hash, HashFails, Copy, CopyFails, Verify,
           VerifyFails, Refuse, Finish, Fail, HashFirst, MarkUploading, SetStatus, Commit,
           CommitIfChanged
  <2> QED
    BY <2>1, <2>2, <2>3, TaskForms DEF Typed
<1>2. PICK f \in early : task[x].seg = f
  OBVIOUS
<1>3. PICK r : records' = [records EXCEPT ![f] = r]
  <2>1. \/ records' = records
        \/ \E v : \/ records' = [records EXCEPT ![f].status = v]
                 \/ records' = [records EXCEPT ![f].sum = v]
                 \/ records' = [records EXCEPT ![f].verified = v]
    BY <1>2 DEF Upload, StartUpload, MissingFile, Hash, HashFails, Copy, CopyFails, Verify,
           VerifyFails, Refuse, Finish, Fail, HashFirst, MarkUploading, SetStatus, Commit,
           CommitIfChanged
  <2>2. records = [records EXCEPT ![f] = records[f]]
    BY <1>1 DEF TypeOK, Index
  <2> QED
    BY <2>1, <2>2
<1>4. PICK o : remote' = [remote EXCEPT ![f] = o]
  <2>1. remote' = remote \/ remote' = [remote EXCEPT ![f] = Content(f)]
    BY <1>2 DEF Upload, StartUpload, MissingFile, Hash, HashFails, Copy, CopyFails, Verify,
           VerifyFails, Refuse, Finish, Fail, HashFirst, MarkUploading
  <2>2. remote = [remote EXCEPT ![f] = remote[f]]
    BY <1>1 DEF TypeOK
  <2> QED
    BY <2>1, <2>2
<1>5. PICK t : task' = [task EXCEPT ![x] = t] /\ (t = Idle \/ (t.pc \in UploadPc /\ t.seg = f))
  <2>1. \/ End(x)
        \/ \E p \in UploadPc : Go(x, p)
        \/ \E p \in UploadPc : task' = [task EXCEPT ![x].pc = p, ![x].sum = Content(f)]
    BY <1>2 DEF Upload, StartUpload, MissingFile, Hash, HashFails, Copy, CopyFails, Verify,
           VerifyFails, Refuse, Finish, Fail, HashFirst, MarkUploading, UploadPc
  <2>2. ASSUME NEW p \in UploadPc, Go(x, p)
        PROVE  task' = [task EXCEPT ![x] = Moved(x, p, task[x].sum)]
    BY <1>1, <2>2, GoMoves
  <2>3. ASSUME NEW p \in UploadPc, task' = [task EXCEPT ![x].pc = p, ![x].sum = Content(f)]
        PROVE  task' = [task EXCEPT ![x] = Moved(x, p, Content(f))]
    <3> HIDE DEF Content
    <3> DEFINE u == [task[x] EXCEPT !.pc = p]
    <3>1. u = [pc |-> p, seg |-> task[x].seg, sum |-> task[x].sum]
      BY <1>1 DEF UploadTask
    <3>2. task' = [task EXCEPT ![x] = [u EXCEPT !.sum = Content(f)]]
      BY <1>1, <2>3 DEF TypeOK
    <3> HIDE DEF u
    <3>3. [u EXCEPT !.sum = Content(f)] = Moved(x, p, Content(f))
      BY <3>1 DEF Moved
    <3> QED
      BY <3>2, <3>3
  <2>4. \A p, c : Moved(x, p, c).pc = p /\ Moved(x, p, c).seg = f
    BY <1>2 DEF Moved
  <2> HIDE DEF Content
  <2>5. CASE End(x)
    BY <2>5 DEF End
  <2>6. CASE \E p \in UploadPc : Go(x, p)
    BY <2>2, <2>4, <2>6
  <2>7. CASE \E p \in UploadPc : task' = [task EXCEPT ![x].pc = p, ![x].sum = Content(f)]
    <3> PICK p \in UploadPc : task' = [task EXCEPT ![x].pc = p, ![x].sum = Content(f)]
      BY <2>7
    <3> DEFINE m == Moved(x, p, Content(f))
    <3>1. task' = [task EXCEPT ![x] = m]
      BY <2>3
    <3>2. m.pc = p /\ m.seg = f
      BY <2>4
    <3> HIDE DEF m
    <3> QED
      BY <3>1, <3>2
  <2> QED
    BY <2>1, <2>5, <2>6, <2>7
<1> QED
  BY <1>1, <1>3, <1>4, <1>5, EarlyUpload DEF Outcome

-------------------------------------------------------------------------------
(* The other steps. *)

\* ffmpeg opens and closes files; it does not touch those that are kept.
LEMMA FilesSafe ==
    ASSUME Typed, Safe, NEW g \in Segments, OpenFile(g) \/ CloseFile(g) PROVE Safe'
<1> USE DEF Typed
<1>1. /\ UNCHANGED <<config, early, remote, records, disk, saving, loop, task>>
      /\ \A f \in Segments : /\ file[f] \in Kept => file'[f] \in Kept
                             /\ file'[f] = "deleted" => file[f] = "deleted"
  BY DEF OpenFile, CloseFile, TypeOK, Kept
<1>2. Grows
  BY <1>1 DEF Grows, Safe, SoundIndexes
<1>3. SoundIndexes'
  <2>1. \A f \in Segments \ early : Sound(records'[f], file'[f], remote'[f])
    BY <1>1, SoundStays DEF Safe, SoundIndexes
  <2> QED
    BY <1>1, <1>2, <2>1, IndexFrame DEF Safe
<1>4. SoundWork'
  <2>1. ASSUME NEW x \in Workers PROVE SoundTask(task[x])'
    <3>1. task[x] \in TaskType /\ SoundTask(task[x]) /\ task'[x] = task[x]
      BY <1>1 DEF TypeOK, TaskType, Safe, SoundWork
    <3> QED
      BY <1>2, <3>1, TaskStays DEF SoundTask, SoundUpload, SoundCleanup
  <2>2. loop'.pc = "backfill" => \A f \in loop'.todo \ early : file'[f] \in Kept
    BY <1>1 DEF Safe, SoundWork, TypeOK
  <2> QED
    BY <1>1, <2>1, <2>2 DEF SoundWork
<1> QED
  BY <1>1, <1>2, <1>3, <1>4, CopiesFrame DEF Safe

\* Snapshots of a sound index are sound, in whatever order they reach the disk.
LEMMA PersistSafe == ASSUME Typed, Safe, Persist PROVE Safe'
<1>1. UNCHANGED <<config, early, file, remote, records, loop, task>>
  BY DEF Persist, Clone, Write, WritesMix
<1>2. SoundIndexes'
  <2>1. disk' = disk \/ disk' = NoIndex \/ \E s \in saving : disk' = s.index
    BY DEF Persist, Clone, Write, WritesMix
  <2>2. \A t \in saving' : t \in saving \/ t.index = records
    <3>1. CASE Clone
      <4> PICK s \in saving :
            saving' = (saving \ {s}) \cup {[s EXCEPT !.cloned = TRUE, !.index = records]}
        BY <3>1 DEF Clone
      <4>1. s \in SavingType
        BY DEF Typed, TypeOK, SavingType
      <4>2. [s EXCEPT !.cloned = TRUE, !.index = records].index = records
        BY <4>1 DEF SavingType
      <4> QED
        BY <4>2
    <3>2. CASE Write \/ WritesMix
      BY <3>2 DEF Write, WritesMix
    <3> QED
      BY <3>1, <3>2 DEF Persist
  <2>3. ASSUME NEW f \in Segments \ early
        PROVE  /\ Sound(disk'[f], file[f], remote[f])
               /\ \A t \in saving' : Sound(t.index[f], file[f], remote[f])
    BY <2>1, <2>2, NoIndexSound DEF Safe, SoundIndexes
  <2> QED
    BY <1>1, <2>3 DEF Safe, SoundIndexes
<1>3. SoundWork' /\ WholeCopies'
  BY <1>1 DEF Safe, SoundWork, SoundTask, SoundUpload, SoundCleanup, WholeCopies
<1> QED
  BY <1>2, <1>3 DEF Safe

\* A restart reads back what was once the index; no task survives.
LEMMA CrashSafe == ASSUME Typed, Safe, Crash PROVE Safe'
<1>1. UNCHANGED <<config, early, file, remote>> /\ saving' = {} /\ loop' = TopOfLoop
  BY DEF Crash
<1>2. \A x \in Workers : task'[x] \in {Idle}
  BY DEF Crash
<1>3. disk' = records' /\ records' \in {disk, NoIndex}
  BY DEF Crash
<1>4. SoundIndexes'
  BY <1>1, <1>3, NoIndexSound DEF Safe, SoundIndexes
<1>5. SoundWork'
  BY <1>1, <1>2 DEF SoundWork, SoundTask, SoundUpload, SoundCleanup, TopOfLoop, Idle,
                    UploadPc
<1>6. WholeCopies'
  BY <1>1 DEF Safe, WholeCopies
<1> QED
  BY <1>4, <1>5, <1>6 DEF Safe

\* A step of the loop keeps the records and the tasks sound if it keeps the sums,
\* and if the files that it goes on to hash are closed.
LEMMA LoopFrame ==
    ASSUME Typed, Safe, UNCHANGED <<config, file, remote, disk>>, early \subseteq early',
           \A f \in Segments \ early' :
               /\ Sound(records'[f], file[f], remote[f])
               /\ records[f].sum = Whole => records'[f].sum = Whole,
           \A s \in saving' : s \in saving \/ s.index = NoIndex,
           loop'.pc = "backfill" => \A f \in loop'.todo \ early' : file[f] \in Kept,
           \A x \in Workers : task'[x] = task[x] \/ SoundTask(task[x])'
    PROVE  Safe'
<1> USE DEF Typed
<1>1. Grows
  BY DEF Grows, Safe, SoundIndexes
<1>2. SoundIndexes'
  BY <1>1, IndexFrame DEF Safe
<1>3. SoundWork'
  <2>1. ASSUME NEW x \in Workers PROVE SoundTask(task[x])'
    <3>1. task[x] \in TaskType /\ SoundTask(task[x])
      BY DEF TypeOK, TaskType, Safe, SoundWork
    <3>2. CASE task'[x] = task[x]
      BY <1>1, <3>1, <3>2, TaskStays DEF SoundTask, SoundUpload, SoundCleanup
    <3> QED
      BY <3>2
  <2> QED
    BY <2>1 DEF SoundWork
<1> QED
  BY <1>1, <1>2, <1>3, CopiesFrame DEF Safe

\* Every step of the reconcile loop keeps everything sound: it indexes and hashes
\* closed files only, or the segment was indexed early.
LEMMA ReconcileSafe == ASSUME Typed, Safe, Reconcile PROVE Safe'
<1> USE DEF Typed
<1>1. \A f \in Segments : /\ f \notin early => Sound(records[f], file[f], remote[f])
                          /\ records[f] \in [status : Status, sum : Sum, verified : BOOLEAN]
  BY DEF Safe, SoundIndexes, TypeOK, Index
<1>2. UNCHANGED saving => \A s \in saving' : s \in saving \/ s.index = NoIndex
  OBVIOUS
<1>3. CASE IndexClosedFiles
  <2> PICK index : /\ CommitIfChanged("loop", index)
                   /\ early \subseteq early'
                   /\ \A f \in Segments \ early' :
                        \/ index[f] = records[f]
                        \/ index[f] = Fresh /\ records[f] = NoRecord /\ file[f] = "closed"
    BY <1>3 DEF IndexClosedFiles
  <2>1. records' = index /\ \A s \in saving' : s \in saving \/ s.index = NoIndex
    BY CommitSaves
  <2>2. ASSUME NEW f \in Segments \ early'
        PROVE  /\ Sound(records'[f], file[f], remote[f])
               /\ records[f].sum = Whole => records'[f].sum = Whole
    <3>1. CASE index[f] = records[f]
      BY <1>1, <2>1, <3>1
    <3>2. CASE index[f] = Fresh /\ records[f] = NoRecord /\ file[f] = "closed"
      BY <2>1, <3>2 DEF Fresh, NoRecord, Sound, Kept, None, Partial, Whole
    <3> QED
      BY <3>1, <3>2
  <2>3. loop'.pc = "collect" /\ UNCHANGED <<config, file, remote, disk, task>>
    BY <1>3 DEF IndexClosedFiles, TypeOK
  <2> QED
    BY <2>1, <2>2, <2>3, LoopFrame
<1>4. CASE CollectUnhashed
  <2>1. \A f \in loop'.todo : f \in Segments /\ records[f] # NoRecord
    BY <1>4 DEF CollectUnhashed, AfterBackfill, TopOfLoop
  <2>2. \A f \in loop'.todo \ early : file[f] \in Kept
    BY <1>1, <2>1 DEF Sound
  <2>3. UNCHANGED <<config, early, file, remote, disk, task, records, saving>>
    BY <1>4 DEF CollectUnhashed
  <2> QED
    BY <1>1, <1>2, <2>2, <2>3, LoopFrame
<1>5. ASSUME NEW g \in Segments, BackfillChecksum(g) \/ SkipBackfill(g) PROVE Safe'
  <2>1. /\ UNCHANGED <<config, early, file, remote, disk, task, saving>>
        /\ g \in loop.todo /\ loop.pc = "backfill" /\ loop'.todo = loop.todo \ {g}
    BY <1>5 DEF BackfillChecksum, SkipBackfill, TypeOK
  <2>2. \A f \in loop'.todo \ early : file[f] \in Kept
    BY <2>1 DEF Safe, SoundWork
  <2>3. ASSUME NEW f \in Segments \ early
        PROVE  /\ Sound(records'[f], file[f], remote[f])
               /\ records[f].sum = Whole => records'[f].sum = Whole
    <3>1. CASE records'[f] = records[f]
      BY <1>1, <3>1
    <3>2. CASE BackfillChecksum(g) /\ f = g
      <4>1. Content(g) = Whole /\ file[g] \in Kept
        BY <2>1, <3>2 DEF BackfillChecksum, Safe, SoundWork, Kept, IsFile, Content
      <4>2. records'[f] = [records[f] EXCEPT !.sum = Whole]
        BY <3>2, <4>1 DEF BackfillChecksum, TypeOK, Index
      <4> QED
        BY <1>1, <3>2, <4>1, <4>2 DEF Sound, Partial, Whole
    <3> QED
      BY <1>5, <3>1, <3>2 DEF BackfillChecksum, SkipBackfill, TypeOK, Index
  <2> QED
    BY <1>2, <2>1, <2>2, <2>3, LoopFrame
<1>6. CASE EndBackfill
  <2>1. /\ UNCHANGED <<config, early, file, remote, disk, task, records>>
        /\ \A s \in saving' : s \in saving \/ s.index = NoIndex
    BY <1>6 DEF EndBackfill, Commit
  <2>2. loop'.pc # "backfill"
    BY <1>6 DEF EndBackfill, AfterBackfill, TopOfLoop
  <2> QED
    BY <1>1, <2>1, <2>2, LoopFrame
<1>7. CASE ScheduleUploads
  <2> DEFINE due == {f \in Segments : records[f].status = "local" /\ IsFile(f)}
  <2>1. /\ UNCHANGED <<config, early, file, remote, disk>> /\ loop'.pc # "backfill"
        /\ \A s \in saving' : s \in saving \/ s.index = NoIndex
        /\ \A f \in Segments : records'[f] = IF f \in due THEN [records[f] EXCEPT !.status = "uploading"]
                                             ELSE records[f]
        /\ \A x \in Workers : task'[x] = IF x \in due
                                         THEN [pc |-> "queued", seg |-> x, sum |-> records[x].sum]
                                         ELSE task[x]
    BY <1>7 DEF ScheduleUploads, Commit, TopOfLoop
  <2>2. \A f \in due \ early : file[f] \in Kept
    BY <1>1 DEF Sound, NoRecord
  <2>3. ASSUME NEW f \in Segments \ early
        PROVE  /\ Sound(records'[f], file[f], remote[f])
               /\ records'[f].sum = records[f].sum
    BY <1>1, <2>1, <2>2 DEF Sound
  <2>4. ASSUME NEW x \in due PROVE SoundTask(task[x])'
    <3>1. /\ task'[x].pc = "queued" /\ task'[x].seg = x /\ task'[x].sum = records[x].sum
      <4>1. x \in Workers
        BY DEF Workers
      <4>2. task'[x] = [pc |-> "queued", seg |-> x, sum |-> records[x].sum]
        BY <2>1, <2>4, <4>1
      <4> QED
        BY <4>2
    <3>2. x \notin early /\ task'[x].sum # None => records'[x].sum = Whole
      BY <1>1, <2>3, <2>4, <3>1 DEF Sum, Sound
    <3> QED
      BY <2>1, <2>2, <2>4, <3>1, <3>2 DEF SoundTask, SoundUpload, SoundCleanup
  <2> QED
    BY <2>1, <2>3, <2>4, LoopFrame
<1>8. CASE SpawnUploads
  <2>1. /\ UNCHANGED <<config, early, file, remote, disk, records, saving>> /\ loop'.pc = "index"
        /\ \A x \in Workers : task'[x] = IF x \in loop.todo
                                         THEN [task[x] EXCEPT !.pc = "upload"] ELSE task[x]
    BY <1>8 DEF SpawnUploads, TopOfLoop
  <2>2. ASSUME NEW x \in loop.todo PROVE SoundTask(task[x])'
    <3>1. x \in Segments /\ task[x].pc = "queued"
      BY <1>8, <2>2 DEF SpawnUploads, Queue, TypeOK
    <3>2. task[x] \in UploadTask /\ SoundUpload(task[x])
      BY <3>1, TaskForms DEF UploadPc, Workers, Safe, SoundWork, SoundTask
    <3>3. task'[x].pc = "upload" /\ task'[x].seg = task[x].seg /\ task'[x].sum = task[x].sum
      BY <2>1, <2>2, <3>1, <3>2 DEF UploadTask, Workers
    <3> QED
      BY <2>1, <3>1, <3>2, <3>3 DEF SoundTask, SoundUpload, SoundCleanup, UploadPc
  <2> QED
    BY <1>1, <1>2, <2>1, <2>2, LoopFrame
<1> QED
  BY <1>3, <1>4, <1>5, <1>6, <1>7, <1>8 DEF Reconcile

\* A step of an API call that leaves the records alone, or is dropped.
LEMMA CallFrame ==
    ASSUME Typed, Safe, NEW c \in Workers, UNCHANGED <<config, early, file, disk, loop>>,
           \A f \in Segments \ early :
               /\ remote'[f] = remote[f] \/ remote'[f] = Whole
               /\ Sound(records'[f], file[f], remote[f])
               /\ records'[f].sum = records[f].sum,
           \A s \in saving' : s \in saving \/ s.index = NoIndex,
           NEW t, task' = [task EXCEPT ![c] = t], SoundTask(task[c])'
    PROVE  Safe'
<1> USE DEF Typed
<1>1. Grows
  BY DEF Grows, Safe, SoundIndexes, Whole, Partial
<1>2. SoundIndexes'
  <2>1. \A f \in Segments \ early : Sound(records'[f], file'[f], remote'[f])
    BY SoundStays
  <2> QED
    BY <1>1, <2>1, IndexFrame DEF Safe
<1>3. \A y \in Workers \ {c} : task'[y] = task[y]
  BY DEF TypeOK
<1>4. SoundWork'
  BY <1>1, <1>3, WorkFrame DEF Safe
<1> QED
  BY <1>1, <1>2, <1>4, CopiesFrame DEF Safe

\* Every step of an archive call keeps everything sound.
LEMMA ArchiveSafe ==
    ASSUME Typed, Safe, NEW c \in Calls,
           ArchiveSteps(c) \/ \E f \in Segments : CallArchive(c, f)
    PROVE  Safe'
<1>1. c \in Workers
  BY DEF Workers
<1>2. ASSUME NEW f \in Segments, CallArchive(c, f) PROVE Safe'
  <2>1. PICK t : /\ task' = [task EXCEPT ![c] = t]
                 /\ \/ t = Idle
                    \/ /\ t.pc \in {"recheck", "hashFirst", "mark"} /\ t.seg = f
                       /\ t.sum = records[f].sum
                       /\ t.pc # "hashFirst" => t.sum # None
    <3> DEFINE r == records[f]
               p == IF r.status = "archived" THEN "recheck"
                    ELSE IF r.sum = None THEN "hashFirst" ELSE "mark"
               u == [pc |-> p, seg |-> f, sum |-> r.sum]
    <3>1. \/ task' = [task EXCEPT ![c] = Idle]
          \/ task' = [task EXCEPT ![c] = u] /\ (r.status = "archived" => r.sum # None)
      BY <1>2 DEF CallArchive
    <3>2. /\ u.pc = p /\ u.seg = f /\ u.sum = r.sum
          /\ p \in {"recheck", "hashFirst", "mark"}
      OBVIOUS
    <3>3. (r.status = "archived" => r.sum # None) => (p # "hashFirst" => r.sum # None)
      OBVIOUS
    <3> HIDE DEF u, p
    <3> QED
      BY <3>1, <3>2, <3>3
  <2>2. /\ records[f] # NoRecord
        /\ UNCHANGED <<config, early, file, remote, records, disk, saving, loop>>
    BY <1>2 DEF CallArchive
  <2>3. CASE f \notin early
    <3>1. file[f] \in Kept /\ records[f].sum \in {None, Whole}
      BY <2>2, <2>3 DEF Safe, SoundIndexes, Sound, Typed, TypeOK, Index, Sum
    <3>2. Fits(f, records[f], remote[f], t)
      BY <2>1, <3>1 DEF Fits, UploadPc
    <3> QED
      BY <1>1, <2>1, <2>2, <2>3, <3>2, QuietUpload
  <2>4. CASE f \in early
    <3>1. /\ records' = [records EXCEPT ![f] = records[f]]
          /\ remote' = [remote EXCEPT ![f] = remote[f]]
      BY <2>2 DEF Typed, TypeOK, Index
    <3>2. Outcome(c, f, records[f], remote[f], t)
      BY <2>1, <2>2, <3>1 DEF Outcome
    <3> QED
      BY <1>1, <2>1, <2>4, <3>2, EarlyUpload DEF UploadPc
  <2> QED
    BY <2>3, <2>4
<1>3. CASE MarkUploading(c)
  BY <1>1, <1>3, StatusSafe, EarlySafe DEF MarkUploading, At, UploadPc
<1>4. CASE HashFirst(c) /\ task[c].seg \in early
  BY <1>1, <1>4, EarlySafe
<1>5. CASE HashFirst(c) /\ task[c].seg \notin early
  <2>1. task[c].pc \in UploadPc /\ UNCHANGED <<config, early, file, remote, disk, loop>>
    BY <1>5 DEF HashFirst, At, UploadPc
  <2>2. CASE End(c) /\ UNCHANGED <<records, saving>>
    <3>1. task' = [task EXCEPT ![c] = Idle]
      BY <2>2 DEF End
    <3>2. Fits(task[c].seg, records[task[c].seg], remote[task[c].seg], Idle)
      BY DEF Fits
    <3>3. task[c].seg \in Segments \ early
      BY <1>1, <1>5, <2>1, UploadFacts
    <3> QED
      BY <1>1, <2>1, <2>2, <3>1, <3>2, <3>3, QuietUpload
  <2>3. CASE ~(End(c) /\ UNCHANGED <<records, saving>>)
    BY <1>1, <1>5, <2>1, <2>3, HashSafe DEF HashFirst
  <2> QED
    BY <2>2, <2>3
<1> QED
  BY <1>2, <1>3, <1>4, <1>5 DEF ArchiveSteps

\* Every step of a cleanup keeps everything sound: what its scan took for archived
\* has a whole object at the remote, then and when the file is removed.
LEMMA CleanupSafe ==
    ASSUME Typed, Safe, NEW c \in Calls, CallCleanup(c) \/ CleanupSteps(c)
    PROVE  Safe'
<1> USE DEF Typed
<1>1. c \in Workers
  BY DEF Workers
<1>2. \A f \in Segments : /\ f \notin early => Sound(records[f], file[f], remote[f])
                          /\ records[f] \in [status : Status, sum : Sum, verified : BOOLEAN]
  BY DEF Safe, SoundIndexes, TypeOK, Index
<1>3. SoundCleanup(task[c])
  BY <1>1 DEF Safe, SoundWork, SoundTask
<1>4. CASE CallCleanup(c)
  <2>1. PICK ids \in SUBSET {f \in Segments : Eligible(f)} :
          task' = [task EXCEPT ![c] = [pc |-> "remove", seg |-> c, changed |-> FALSE,
                                       todo |-> ids]]
    BY <1>4 DEF CallCleanup
  <2>2. UNCHANGED <<config, early, file, remote, records, disk, saving, loop>>
    BY <1>4 DEF CallCleanup
  <2>3. \A f \in Segments \ early : Eligible(f) /\ config.archive => remote[f] = Whole
    BY <1>2 DEF Eligible, Sound
  <2>4. SoundTask(task[c])'
    <3>1. /\ task'[c].pc = "remove" /\ \A f \in task'[c].todo : f \in Segments /\ Eligible(f)
      BY <1>1, <2>1 DEF TypeOK
    <3> QED
      BY <2>2, <2>3, <3>1 DEF SoundTask, SoundUpload, SoundCleanup, UploadPc
  <2> QED
    BY <1>1, <1>2, <2>1, <2>2, <2>4, CallFrame
<1>5. CASE Tombstone(c)
  <2>1. /\ task[c] \in CleanupTask /\ task[c].pc = "tombstone"
        /\ task[c].seg \in Segments /\ file[task[c].seg] \in Kept
    BY <1>1, <1>3, <1>5, TaskForms DEF Tombstone, At, SoundCleanup
  <2>2. PICK f \in Segments : task[c].seg = f
    BY <2>1
  <2> DEFINE st == IF records[f].status = "archived" THEN "archived" ELSE "deleted"
             t == [task[c] EXCEPT !.pc = "remove", !.changed = TRUE]
  <2>3. /\ UNCHANGED <<config, early, file, remote, disk, saving, loop>>
        /\ records' = [records EXCEPT ![f].status = st]
    BY <1>5, <2>2 DEF Tombstone
  <2>4. ASSUME NEW g \in Segments \ early
        PROVE  Sound(records'[g], file[g], remote[g]) /\ records'[g].sum = records[g].sum
    <3>1. CASE g = f
      <4>1. records'[g] = [records[g] EXCEPT !.status = st]
        BY <2>3, <3>1 DEF TypeOK, Index
      <4> QED
        BY <1>2, <2>1, <2>2, <3>1, <4>1 DEF Sound
    <3>2. CASE g # f
      BY <1>2, <2>3, <3>2 DEF TypeOK, Index
    <3> QED
      BY <3>1, <3>2
  <2>5. task' = [task EXCEPT ![c] = t]
    BY <1>1, <1>5, <2>1 DEF Tombstone, TypeOK
  <2>6. SoundTask(task[c])'
    <3>1. task'[c].pc = "remove" /\ task'[c].todo = task[c].todo
      BY <1>1, <2>1, <2>5 DEF TypeOK, CleanupTask
    <3> QED
      BY <1>3, <2>1, <2>3, <3>1 DEF SoundTask, SoundUpload, SoundCleanup, UploadPc
  <2> QED
    BY <1>1, <2>3, <2>4, <2>5, <2>6, CallFrame
<1>6. CASE EndCleanup(c)
  <2>1. /\ UNCHANGED <<config, early, file, remote, disk, loop, records>>
        /\ \A s \in saving' : s \in saving \/ s.index = NoIndex
    BY <1>6 DEF EndCleanup, Commit
  <2>2. task' = [task EXCEPT ![c] = Idle]
    BY <1>6 DEF EndCleanup, End
  <2>3. SoundTask(task[c])'
    BY <1>1, <2>2 DEF TypeOK, SoundTask, SoundUpload, SoundCleanup, UploadPc, Idle
  <2> QED
    BY <1>1, <1>2, <2>1, <2>2, <2>3, CallFrame
<1>7. ASSUME NEW g \in Segments, RemoveFile(c, g) PROVE Safe'
  <2>1. /\ task[c] \in CleanupTask /\ task[c].pc = "remove" /\ g \in task[c].todo
        /\ UNCHANGED <<config, early, remote, records, disk, saving, loop>>
    BY <1>1, <1>7, TaskForms DEF RemoveFile, At
  <2>2. config.archive /\ g \notin early => remote[g] = Whole
    BY <1>3, <2>1 DEF SoundCleanup
  <2>3. \A f \in Segments : /\ file[f] \in Kept => file'[f] \in Kept
                            /\ file'[f] = "deleted" => file[f] = "deleted" \/ f = g
    BY <1>7 DEF RemoveFile, TypeOK, Kept
  <2>4. Grows
    BY <2>1, <2>3 DEF Grows, Safe, SoundIndexes
  <2>5. SoundIndexes'
    <3>1. \A f \in Segments \ early : Sound(records'[f], file'[f], remote'[f])
      BY <1>2, <2>1, <2>3, SoundStays
    <3> QED
      BY <2>1, <2>4, <3>1, IndexFrame DEF Safe
  <2>6. WholeCopies'
    BY <2>1, <2>2, <2>3 DEF Safe, WholeCopies
  <2> DEFINE t1 == [task[c] EXCEPT !.pc = "tombstone", !.seg = g, !.todo = @ \ {g}]
             t2 == [task[c] EXCEPT !.todo = @ \ {g}]
  <2>7. \/ task' = [task EXCEPT ![c] = t1] /\ file'[g] = "deleted"
        \/ task' = [task EXCEPT ![c] = t2]
    BY <1>1, <1>7, <2>1 DEF RemoveFile, TypeOK
  <2>8. \/ /\ task'[c].pc = "tombstone" /\ task'[c].seg = g /\ file'[g] = "deleted"
           /\ task'[c].todo \subseteq task[c].todo
        \/ task'[c].pc = "remove" /\ task'[c].todo \subseteq task[c].todo
    <3>1. /\ t1.pc = "tombstone" /\ t1.seg = g /\ t1.todo = task[c].todo \ {g}
          /\ t2.pc = "remove" /\ t2.todo = task[c].todo \ {g}
      BY <2>1 DEF CleanupTask
    <3> HIDE DEF t1, t2
    <3> QED
      BY <1>1, <2>7, <3>1 DEF TypeOK
  <2>9. SoundTask(task[c])'
    BY <1>3, <2>1, <2>8 DEF SoundTask, SoundUpload, SoundCleanup, UploadPc, Kept
  <2>10. \A y \in Workers \ {c} : task'[y] = task[y]
    <3> HIDE DEF t1, t2
    <3> QED
      BY <2>7 DEF TypeOK
  <2>11. SoundWork'
    BY <1>1, <2>1, <2>4, <2>9, <2>10, WorkFrame DEF Safe
  <2> QED
    BY <2>5, <2>6, <2>11 DEF Safe
<1> QED
  BY <1>4, <1>5, <1>6, <1>7 DEF CleanupSteps

\* A dropped call leaves its work half-way; rclone may finish a copy of a closed file.
LEMMA DropSafe == ASSUME Typed, Safe, NEW c \in Calls, DropCall(c) PROVE Safe'
<1> USE DEF Typed
<1>1. c \in Workers
  BY DEF Workers
<1>2. /\ UNCHANGED <<config, early, file, records, disk, saving, loop>>
      /\ task' = [task EXCEPT ![c] = Idle]
  BY DEF DropCall, End
<1>3. SoundTask(task[c])'
  BY <1>1, <1>2 DEF TypeOK, SoundTask, SoundUpload, SoundCleanup, UploadPc, Idle
<1>4. ASSUME NEW f \in Segments \ early PROVE remote'[f] = remote[f] \/ remote'[f] = Whole
  <2>1. CASE UNCHANGED remote
    BY <2>1
  <2>2. CASE /\ task[c].pc = "copy" /\ IsFile(task[c].seg)
             /\ remote' = [remote EXCEPT ![task[c].seg] = Content(task[c].seg)]
    <3>1. task[c].seg \in early \/ Content(task[c].seg) = Whole
      BY <1>1, <2>2, UploadFacts DEF UploadPc
    <3> QED
      BY <2>2, <3>1 DEF TypeOK
  <2> QED
    BY <2>1, <2>2 DEF DropCall
<1>5. \A f \in Segments \ early : Sound(records'[f], file[f], remote[f])
  BY <1>2 DEF Safe, SoundIndexes
<1> QED
  BY <1>1, <1>2, <1>3, <1>4, <1>5, CallFrame

-------------------------------------------------------------------------------
\* Everything is sound at the start and stays so.
LEMMA SafeInvariant == Spec => []Safe
<1>1. Init => Safe
  <2> SUFFICES ASSUME Init PROVE Safe
    OBVIOUS
  <2>1. SoundIndexes
    BY NoIndexSound DEF Init, SoundIndexes, None, Partial
  <2>2. SoundWork
    BY DEF Init, SoundWork, SoundTask, SoundUpload, SoundCleanup, TopOfLoop, Idle, UploadPc
  <2>3. WholeCopies
    BY DEF Init, WholeCopies
  <2> QED
    BY <2>1, <2>2, <2>3 DEF Safe
<1>2. Typed /\ Safe /\ [Next]_vars => Safe'
  <2> SUFFICES ASSUME Typed, Safe, [Next]_vars PROVE Safe'
    OBVIOUS
  <2>1. CASE UNCHANGED vars
    BY <2>1 DEF vars, Safe, SoundIndexes, SoundWork, SoundTask, SoundUpload, SoundCleanup,
                WholeCopies
  <2> QED
    BY <2>1, FilesSafe, ReconcileSafe, PersistSafe, UploadSafe, EarlySafe, ArchiveSafe, CleanupSafe,
       DropSafe, CrashSafe DEF Next
<1> QED
  BY <1>1, <1>2, TypedInvariant, PTL DEF Spec

-------------------------------------------------------------------------------
(* What remains of it for a segment that was indexed early: the remote object    *)
(* may be Partial, but there is one.  No step removes an object, so every old    *)
(* index and every old scan stays right.                                         *)

Stored(f) == remote[f] # None

ClaimsStored(index) == \A f \in Segments : index[f].status = "archived" => Stored(f)

\* An upload past its copy, and a cleanup with what is left of its scan.
KnowsStored(t) ==
    /\ t.pc \in {"verify", "finish"} => Stored(t.seg)
    /\ t.pc \in {"remove", "tombstone"} /\ config.archive => \A f \in t.todo : Stored(f)

ObjectBehind ==
    \A f \in Segments :
        /\ \A r \in {records[f], disk[f]} : r.status = "archived" => Stored(f)
        /\ config.archive /\ file[f] = "deleted" => Stored(f)

Held ==
    /\ \A s \in saving : ClaimsStored(s.index)
    /\ \A x \in Workers : KnowsStored(task[x])
    /\ ObjectBehind

\* A task may go on as t, with segments stored or not as the next state says.
LEMMA HeldFrame ==
    ASSUME Typed, Held, config' = config,
           \A f \in Segments : Stored(f) => Stored(f)',
           \A f \in Segments : records'[f].status = "archived"
                                 => records[f].status = "archived" \/ Stored(f)',
           disk' = disk \/ disk' = NoIndex \/ \E s \in saving : disk' = s.index,
           \A s \in saving' : s \in saving \/ s.index \in {NoIndex, records},
           \A f \in Segments : config.archive /\ file'[f] = "deleted"
                                 => file[f] = "deleted" \/ Stored(f),
           \A x \in Workers : task'[x] = task[x] \/ KnowsStored(task[x])'
    PROVE  Held'
<1> USE DEF Typed
<1>1. \A f \in Segments : NoIndex[f].status # "archived"
  BY DEF NoIndex, NoRecord
<1>2. ASSUME NEW s \in saving' PROVE ClaimsStored(s.index)'
  BY <1>1 DEF Held, ObjectBehind, ClaimsStored
<1>3. ASSUME NEW x \in Workers PROVE KnowsStored(task[x])'
  <2>1. CASE task'[x] = task[x]
    <3>1. KnowsStored(task[x])
      BY DEF Held
    <3>2. task[x].pc \in {"verify", "finish"} => task[x].seg \in Segments
      BY TaskForms DEF UploadTask, UploadPc
    <3>3. task[x].pc \in {"remove", "tombstone"} => task[x].todo \subseteq Segments
      BY TaskForms DEF CleanupTask
    <3> QED
      BY <2>1, <3>1, <3>2, <3>3 DEF KnowsStored
  <2> QED
    BY <2>1
<1>4. ObjectBehind'
  <2>1. ASSUME NEW f \in Segments
        PROVE  /\ records'[f].status = "archived" => Stored(f)'
               /\ disk'[f].status = "archived" => Stored(f)'
               /\ config'.archive /\ file'[f] = "deleted" => Stored(f)'
    BY <1>1 DEF Held, ObjectBehind, ClaimsStored
  <2> QED
    BY <2>1 DEF ObjectBehind
<1> QED
  BY <1>2, <1>3, <1>4 DEF Held

\* The steps that write no status and move no task past a copy.
LEMMA HeldFiles ==
    ASSUME Typed, Held, NEW f \in Segments, OpenFile(f) \/ CloseFile(f) PROVE Held'
<1>1. /\ UNCHANGED <<config, early, remote, records, disk, saving, loop, task>>
      /\ \A g \in Segments : file'[g] = "deleted" => file[g] = "deleted"
  BY DEF OpenFile, CloseFile, Typed, TypeOK
<1> QED
  BY <1>1, HeldFrame DEF Stored

\* Snapshots of a true index are true, in whatever order they reach the disk.
LEMMA HeldPersist == ASSUME Typed, Held, Persist PROVE Held'
<1>1. UNCHANGED <<config, early, file, remote, records, loop, task>>
  BY DEF Persist, Clone, Write, WritesMix
<1>2. disk' = disk \/ disk' = NoIndex \/ \E s \in saving : disk' = s.index
  BY DEF Persist, Clone, Write, WritesMix
<1>3. \A t \in saving' : t \in saving \/ t.index = records
  <2>1. CASE Clone
    <3> PICK s \in saving :
          saving' = (saving \ {s}) \cup {[s EXCEPT !.cloned = TRUE, !.index = records]}
      BY <2>1 DEF Clone
    <3>1. s \in SavingType
      BY DEF Typed, TypeOK, SavingType
    <3>2. [s EXCEPT !.cloned = TRUE, !.index = records].index = records
      BY <3>1 DEF SavingType
    <3> QED
      BY <3>2
  <2>2. CASE Write \/ WritesMix
    BY <2>2 DEF Write, WritesMix
  <2> QED
    BY <2>1, <2>2 DEF Persist
<1> QED
  BY <1>1, <1>2, <1>3, HeldFrame DEF Stored

\* The loop archives nothing and copies nothing.
LEMMA HeldReconcile == ASSUME Typed, Held, Reconcile PROVE Held'
<1> USE DEF Typed
<1>1. /\ UNCHANGED <<config, file, remote, disk>>
      /\ \A s \in saving' : s \in saving \/ s.index = NoIndex
  BY CommitSaves DEF Reconcile, IndexClosedFiles, CollectUnhashed, EndBackfill, ScheduleUploads,
     SpawnUploads, BackfillChecksum, SkipBackfill, Commit
<1>2. ASSUME NEW f \in Segments, records'[f].status = "archived"
      PROVE  records[f].status = "archived"
  <2>1. CASE IndexClosedFiles
    <3> PICK index : /\ CommitIfChanged("loop", index)
                     /\ \A g \in Segments : index[g] = records[g] \/ index[g] = Fresh
      BY <2>1 DEF IndexClosedFiles
    <3>1. records' = index
      BY CommitSaves
    <3> QED
      BY <1>2, <3>1 DEF Fresh
  <2>2. ASSUME NEW g \in Segments, BackfillChecksum(g) PROVE records'[f].status = records[f].status
    BY <2>2 DEF BackfillChecksum, TypeOK, Index
  <2>3. CASE ScheduleUploads
    <3>1. \/ records'[f] = records[f]
          \/ records'[f] = [records[f] EXCEPT !.status = "uploading"]
      BY <2>3 DEF ScheduleUploads, Commit
    <3> QED
      BY <1>2, <3>1 DEF TypeOK, Index
  <2>4. CASE \/ CollectUnhashed \/ EndBackfill \/ SpawnUploads
             \/ \E g \in Segments : SkipBackfill(g)
    BY <1>2, <2>4 DEF CollectUnhashed, EndBackfill, SpawnUploads, SkipBackfill, Commit
  <2> QED
    BY <1>2, <2>1, <2>2, <2>3, <2>4 DEF Reconcile
<1>3. ASSUME NEW x \in Workers PROVE task'[x] = task[x] \/ task'[x].pc \in {"queued", "upload"}
  <2>1. CASE ScheduleUploads
    BY <2>1 DEF ScheduleUploads
  <2>2. CASE SpawnUploads
    <3>1. CASE x \in loop.todo
      <4>1. x \in Segments /\ task[x].pc = "queued"
        BY <2>2, <3>1 DEF SpawnUploads, Queue, TypeOK
      <4>2. task[x] \in UploadTask
        BY <4>1, TaskForms DEF UploadPc
      <4>3. task'[x] = [task[x] EXCEPT !.pc = "upload"]
        BY <2>2, <3>1 DEF SpawnUploads
      <4> QED
        BY <4>2, <4>3 DEF UploadTask
    <3>2. CASE x \notin loop.todo
      BY <2>2, <3>2 DEF SpawnUploads
    <3> QED
      BY <3>1, <3>2
  <2>3. CASE ~ScheduleUploads /\ ~SpawnUploads
    BY <2>3 DEF Reconcile, IndexClosedFiles, CollectUnhashed, EndBackfill, BackfillChecksum,
                SkipBackfill
  <2> QED
    BY <2>1, <2>2, <2>3
<1>4. \A x \in Workers : task'[x] = task[x] \/ KnowsStored(task[x])'
  BY <1>3 DEF KnowsStored
<1> QED
  BY <1>1, <1>2, <1>4, HeldFrame DEF Stored

\* An index with the status of one record changed.
LEMMA StatusWritten ==
    ASSUME TypeOK, NEW g \in Segments, NEW st,
           records' = [records EXCEPT ![g].status = st]
    PROVE  \A f \in Segments : records'[f].status = IF f = g THEN st ELSE records[f].status
BY DEF TypeOK, Index

\* An index with another field of one record changed.
LEMMA FieldWritten ==
    ASSUME TypeOK, NEW g \in Segments, NEW v,
           \/ records' = [records EXCEPT ![g].sum = v]
           \/ records' = [records EXCEPT ![g].verified = v]
    PROVE  \A f \in Segments : records'[f].status = records[f].status
<1>1. records \in Index
  BY DEF TypeOK
<1>2. CASE records' = [records EXCEPT ![g].sum = v]
  BY <1>1, <1>2 DEF Index
<1>3. CASE records' = [records EXCEPT ![g].verified = v]
  BY <1>1, <1>3 DEF Index
<1> QED
  BY <1>2, <1>3

\* Only the copy stores an object, only an upload past it archives a record.
LEMMA HeldUpload == ASSUME Typed, Held, NEW x \in Workers, Upload(x) PROVE Held'
<1> USE DEF Typed
<1>1. task[x].pc \in UploadPc \ {"queued"} /\ UNCHANGED <<config, early, file, disk, loop>>
  BY DEF Upload, StartUpload, MissingFile, Hash, HashFails, Copy, CopyFails, Verify,
         VerifyFails, Refuse, Finish, Fail, At, UploadPc
<1>2. task[x] \in UploadTask /\ task[x].seg \in Segments /\ KnowsStored(task[x])
  BY <1>1, TaskForms DEF UploadTask, Held
<1>3. PICK g \in Segments : task[x].seg = g
  BY <1>2
<1>4. \A s \in saving' : s \in saving \/ s.index = NoIndex
  BY DEF Upload, StartUpload, MissingFile, Hash, HashFails, Copy, CopyFails, Verify,
         VerifyFails, Refuse, Finish, Fail, SetStatus, Commit, CommitIfChanged
<1>5. /\ \A y \in Workers \ {x} : task'[y] = task[y]
      /\ \A f \in Segments : f # g => remote'[f] = remote[f]
      /\ remote'[g] = remote[g] \/ (Copy(x) /\ remote'[g] = Content(g))
  <2>1. \A y \in Workers \ {x} : task'[y] = task[y]
    BY DEF Upload, StartUpload, MissingFile, Hash, HashFails, Copy, CopyFails, Verify,
           VerifyFails, Refuse, Finish, Fail, Go, End, TypeOK
  <2>2. Copy(x) => remote' = [remote EXCEPT ![g] = Content(g)]
    BY <1>3 DEF Copy
  <2>3. ~Copy(x) => remote' = remote
    BY DEF Upload, StartUpload, MissingFile, Hash, HashFails, CopyFails, Verify,
           VerifyFails, Refuse, Finish, Fail
  <2>4. ASSUME Copy(x)
        PROVE  remote'[g] = Content(g) /\ \A f \in Segments : f # g => remote'[f] = remote[f]
    <3> HIDE DEF Content
    <3> QED
      BY <2>2, <2>4 DEF TypeOK
  <2> QED
    BY <2>1, <2>3, <2>4
<1>6. Content(g) # None
  BY DEF Content, None, Partial, Whole
<1>7. \A f \in Segments : Stored(f) => Stored(f)'
  BY <1>5, <1>6 DEF Stored
<1>8. ASSUME NEW f \in Segments, records'[f].status = "archived"
      PROVE  records[f].status = "archived" \/ Stored(f)'
  <2>1. CASE Finish(x)
    <3>1. Stored(g)'
      BY <1>2, <1>3, <1>7, <2>1 DEF Finish, At, KnowsStored
    <3>2. records' = [records EXCEPT ![g].status = "archived"]
      BY <1>3, <2>1 DEF Finish, SetStatus, Commit
    <3> QED
      BY <1>8, <3>1, <3>2, StatusWritten
  <2>2. CASE Fail(x)
    <3>1. records' = [records EXCEPT ![g].status = "failed"]
      BY <1>3, <2>2 DEF Fail, SetStatus, Commit
    <3> QED
      BY <1>8, <3>1, StatusWritten
  <2>3. CASE StartUpload(x) \/ Hash(x) \/ Copy(x) \/ Verify(x) \/ VerifyFails(x)
    <3>1. \/ records' = records
          \/ records' = [records EXCEPT ![g].sum = Content(g)]
          \/ \E v \in BOOLEAN : records' = [records EXCEPT ![g].verified = v]
      BY <1>3, <2>3 DEF StartUpload, Hash, Copy, Verify, VerifyFails, CommitIfChanged, Commit
    <3> QED
      BY <1>8, <3>1, FieldWritten
  <2> QED
    BY <2>1, <2>2, <2>3 DEF Upload, MissingFile, HashFails, CopyFails, Refuse
<1>9. KnowsStored(task[x])'
  <2>1. /\ task'[x] # Idle => task'[x].seg = g /\ task'[x].pc \in UploadPc
        /\ task'[x] # Idle /\ task'[x].pc \in {"verify", "finish"}
             => Copy(x) \/ task[x].pc = "verify"
    <3>1. ASSUME NEW p, Go(x, p) PROVE task'[x].seg = g /\ task'[x].pc = p
      BY <1>2, <1>3, <3>1, GoMoves DEF Moved, TypeOK
    <3>2. CASE \/ StartUpload(x) \/ Copy(x) \/ VerifyFails(x)
               \/ (Verify(x) /\ task[x].pc = "verify")
      BY <3>1, <3>2 DEF StartUpload, Copy, VerifyFails, Verify, UploadPc
    <3>3. CASE Hash(x)
      <4> DEFINE u == [task[x] EXCEPT !.pc = "copy", !.sum = Content(g)]
      <4>1. task'[x] = u
        BY <1>2, <1>3, <3>3 DEF Hash, TypeOK
      <4>2. u.seg = g /\ u.pc = "copy"
        BY <1>2, <1>3 DEF UploadTask
      <4> QED
        BY <4>1, <4>2 DEF UploadPc
    <3>4. CASE End(x)
      BY <3>4 DEF End, TypeOK
    <3> QED
      BY <3>2, <3>3, <3>4 DEF Upload, MissingFile, HashFails, CopyFails, Verify, Refuse, Finish, Fail
  <2>2. Copy(x) => Stored(g)'
    BY <1>3, <1>6 DEF Copy, Stored, TypeOK
  <2>3. task[x].pc = "verify" => Stored(g)'
    BY <1>2, <1>3, <1>7 DEF KnowsStored
  <2>4. task'[x] = Idle => task'[x].pc = "idle"
    BY DEF Idle
  <2> QED
    BY <2>1, <2>2, <2>3, <2>4 DEF KnowsStored, UploadPc
<1> QED
  BY <1>1, <1>4, <1>5, <1>7, <1>8, <1>9, HeldFrame

\* An archive call marks and hashes; the upload inside it does the rest.
LEMMA HeldArchive ==
    ASSUME Typed, Held, NEW c \in Calls,
           ArchiveSteps(c) \/ \E f \in Segments : CallArchive(c, f)
    PROVE  Held'
<1> USE DEF Typed
<1>1. /\ c \in Workers /\ UNCHANGED <<config, early, file, remote, disk>>
      /\ \A s \in saving' : s \in saving \/ s.index = NoIndex
      /\ \A y \in Workers \ {c} : task'[y] = task[y]
  BY DEF ArchiveSteps, CallArchive, HashFirst, MarkUploading, SetStatus, Commit, CommitIfChanged,
         End, Go, TypeOK, Workers
<1>2. ASSUME NEW f \in Segments, records'[f].status = "archived"
      PROVE  records[f].status = "archived"
  <2>1. CASE MarkUploading(c)
    <3>1. task[c].seg \in Segments
      BY <1>1, <2>1, TaskForms DEF MarkUploading, At, UploadPc, UploadTask
    <3>2. records' = [records EXCEPT ![task[c].seg].status = "uploading"]
      BY <2>1 DEF MarkUploading, SetStatus, Commit
    <3> QED
      BY <1>2, <3>1, <3>2, StatusWritten
  <2>2. CASE HashFirst(c)
    <3>1. task[c].seg \in Segments
      BY <1>1, <2>2, TaskForms DEF HashFirst, At, UploadPc, UploadTask
    <3>2. \/ records' = records
          \/ records' = [records EXCEPT ![task[c].seg].sum = Content(task[c].seg)]
      BY <2>2 DEF HashFirst, CommitIfChanged, Commit
    <3> QED
      BY <1>2, <3>1, <3>2, FieldWritten
  <2>3. CASE \E g \in Segments : CallArchive(c, g)
    BY <1>2, <2>3 DEF CallArchive
  <2> QED
    BY <2>1, <2>2, <2>3 DEF ArchiveSteps
<1>3. task'[c].pc \in {"idle", "recheck", "hashFirst", "mark", "upload"}
  <2>1. CASE MarkUploading(c)
    <3>1. task[c] \in UploadTask
      BY <1>1, <2>1, TaskForms DEF MarkUploading, At, UploadPc
    <3> QED
      BY <1>1, <2>1, <3>1, GoMoves DEF MarkUploading, Moved, TypeOK
  <2>2. CASE HashFirst(c)
    <3>1. task[c] \in UploadTask
      BY <1>1, <2>2, TaskForms DEF HashFirst, At, UploadPc
    <3> DEFINE u == [task[c] EXCEPT !.pc = "mark", !.sum = Content(task[c].seg)]
    <3>2. task'[c] = Idle \/ task'[c] = u
      BY <1>1, <2>2 DEF HashFirst, End, TypeOK
    <3>3. u.pc = "mark" /\ Idle.pc = "idle"
      BY <3>1 DEF UploadTask, Idle
    <3> HIDE DEF u
    <3> QED
      BY <3>2, <3>3
  <2>3. CASE \E g \in Segments : CallArchive(c, g)
    BY <1>1, <2>3 DEF CallArchive, TypeOK, Idle
  <2> QED
    BY <2>1, <2>2, <2>3 DEF ArchiveSteps
<1>4. KnowsStored(task[c])'
  BY <1>3 DEF KnowsStored
<1> QED
  BY <1>1, <1>2, <1>4, HeldFrame DEF Stored

\* A cleanup deletes what its scan took for archived, and archives nothing.
LEMMA HeldCleanup ==
    ASSUME Typed, Held, NEW c \in Calls, CallCleanup(c) \/ CleanupSteps(c)
    PROVE  Held'
<1> USE DEF Typed
<1>1. /\ c \in Workers /\ UNCHANGED <<config, early, remote, disk>>
      /\ \A s \in saving' : s \in saving \/ s.index = NoIndex
      /\ \A y \in Workers \ {c} : task'[y] = task[y]
  <2>1. c \in Workers
    BY DEF Workers
  <2>2. \A y \in Workers \ {c} : task'[y] = task[y]
    BY DEF CleanupSteps, CallCleanup, RemoveFile, Tombstone, EndCleanup, End, TypeOK
  <2>3. CASE EndCleanup(c)
    <3>1. UNCHANGED <<config, early, remote, disk>>
      BY <2>3 DEF EndCleanup
    <3>2. \A s \in saving' : s \in saving \/ s.index = NoIndex
      BY <2>3, CommitSaves DEF EndCleanup
    <3> QED
      BY <2>1, <2>2, <3>1, <3>2
  <2>4. CASE ~EndCleanup(c)
    <3>1. UNCHANGED <<config, early, remote, disk, saving>>
      BY <2>4 DEF CleanupSteps, CallCleanup, RemoveFile, Tombstone
    <3> QED
      BY <2>1, <2>2, <3>1
  <2> QED
    BY <2>3, <2>4
<1>2. KnowsStored(task[c])
  BY <1>1 DEF Held
<1>3. ASSUME NEW f \in Segments, records'[f].status = "archived"
      PROVE  records[f].status = "archived"
  <2>1. CASE Tombstone(c)
    BY <1>3, <2>1 DEF Tombstone, TypeOK, Index
  <2>2. CASE ~Tombstone(c)
    BY <1>3, <2>2 DEF CleanupSteps, CallCleanup, RemoveFile, EndCleanup, Commit
  <2> QED
    BY <2>1, <2>2
<1>4. \/ task'[c].pc = "idle"
      \/ /\ task'[c].pc \in {"remove", "tombstone"}
         /\ \A f \in task'[c].todo : config.archive => Stored(f)
  <2>1. CASE CallCleanup(c)
    <3>1. PICK ids \in SUBSET {f \in Segments : Eligible(f)} :
            task'[c] = [pc |-> "remove", seg |-> c, changed |-> FALSE, todo |-> ids]
      BY <1>1, <2>1 DEF CallCleanup, TypeOK
    <3>2. \A f \in Segments : Eligible(f) /\ config.archive => Stored(f)
      BY DEF Eligible, Held, ObjectBehind
    <3> QED
      BY <3>1, <3>2
  <2>2. CASE EndCleanup(c)
    BY <1>1, <2>2 DEF EndCleanup, End, Idle, TypeOK
  <2>3. CASE Tombstone(c) \/ \E g \in Segments : RemoveFile(c, g)
    <3>1. task[c] \in CleanupTask
      BY <1>1, <2>3, TaskForms DEF Tombstone, RemoveFile, At
    <3>2. \/ task'[c] = [task[c] EXCEPT !.pc = "remove", !.changed = TRUE]
          \/ \E g \in Segments :
               \/ task'[c] = [task[c] EXCEPT !.pc = "tombstone", !.seg = g, !.todo = @ \ {g}]
               \/ task'[c] = [task[c] EXCEPT !.todo = @ \ {g}]
      BY <1>1, <2>3, <3>1 DEF Tombstone, RemoveFile, TypeOK
    <3>3. task'[c].pc \in {"remove", "tombstone"} /\ task'[c].todo \subseteq task[c].todo
      BY <3>1, <3>2 DEF CleanupTask
    <3> QED
      BY <1>2, <3>1, <3>3 DEF KnowsStored, CleanupTask
  <2> QED
    BY <2>1, <2>2, <2>3 DEF CleanupSteps
<1>5. ASSUME NEW f \in Segments, file'[f] = "deleted"
      PROVE  file[f] = "deleted" \/ (config.archive => Stored(f))
  <2>1. ASSUME NEW g \in Segments, RemoveFile(c, g), f = g PROVE config.archive => Stored(f)
    BY <1>1, <1>2, <2>1 DEF RemoveFile, At, KnowsStored
  <2> QED
    BY <1>5, <2>1 DEF CleanupSteps, CallCleanup, RemoveFile, Tombstone, EndCleanup, TypeOK
<1>6. KnowsStored(task[c])'
  BY <1>1, <1>4 DEF KnowsStored, Stored
<1> QED
  BY <1>1, <1>3, <1>5, <1>6, HeldFrame DEF Stored

\* A dropped call may leave an object behind, and takes none away.
LEMMA HeldDrop == ASSUME Typed, Held, NEW c \in Calls, DropCall(c) PROVE Held'
<1> USE DEF Typed
<1>1. /\ c \in Workers /\ UNCHANGED <<config, early, file, records, disk, saving, loop>>
      /\ \A y \in Workers \ {c} : task'[y] = task[y]
      /\ task'[c] = Idle
  BY DEF DropCall, End, Workers, TypeOK
<1>2. KnowsStored(task[c])'
  BY <1>1 DEF KnowsStored, Idle
<1>3. \A f \in Segments : Stored(f) => Stored(f)'
  BY DEF DropCall, Stored, TypeOK, Content, None, Partial, Whole
<1> QED
  BY <1>1, <1>2, <1>3, HeldFrame

\* A restart reads back an index that was true when it was taken.
LEMMA HeldCrash == ASSUME Typed, Held, Crash PROVE Held'
<1>1. UNCHANGED <<config, early, file, remote>> /\ saving' = {} /\ disk' = records'
  BY DEF Crash
<1>2. records' = disk \/ records' = NoIndex
  BY DEF Crash
<1>3. \A x \in Workers : task'[x].pc \in {"idle", "idle"}
  BY DEF Crash, Idle
<1>4. \A x \in Workers : KnowsStored(task[x])'
  BY <1>3 DEF KnowsStored
<1>5. ObjectBehind'
  BY <1>1, <1>2 DEF Held, ObjectBehind, NoIndex, NoRecord, Stored
<1> QED
  BY <1>1, <1>4, <1>5 DEF Held

\* Whatever files stall, uploads overlap and restarts come between: what any index
\* calls archived has a remote object, and while archiving is enabled retention
\* deletes no segment that was never copied.
LEMMA ObjectKept == Spec => []ObjectBehind
<1>1. Init => Held
  BY DEF Init, Held, ObjectBehind, KnowsStored, ClaimsStored, NoIndex, NoRecord, Idle
<1>2. Typed /\ Held /\ [Next]_vars => Held'
  <2> SUFFICES ASSUME Typed, Held, [Next]_vars PROVE Held'
    OBVIOUS
  <2>1. CASE UNCHANGED vars
    BY <2>1 DEF vars, Held, ObjectBehind, KnowsStored, ClaimsStored, Stored
  <2> QED
    BY <2>1, HeldFiles, HeldReconcile, HeldPersist, HeldUpload, HeldArchive, HeldCleanup,
       HeldDrop, HeldCrash DEF Next
<1>3. Held => ObjectBehind
  BY DEF Held
<1> QED
  BY <1>1, <1>2, <1>3, TypedInvariant, PTL DEF Spec

\* The index tells the truth about the archive, in memory and on disk, whatever
\* uploads, calls, late snapshots, stalled files and restarts overlap.
THEOREM ArchiveTrue == Spec => []ArchiveClaims
<1>1. Safe /\ ObjectBehind => ArchiveClaims
  BY DEF Safe, SoundIndexes, Sound, ObjectBehind, Stored, ArchiveClaims, Whole, None
<1> QED
  BY <1>1, SafeInvariant, ObjectKept, PTL

\* While archiving is enabled, retention never removes a segment without a remote
\* object, and none but an early one without a whole object.
THEOREM LastCopyKept == Spec => []NeverLastCopy
<1>1. Safe /\ ObjectBehind => NeverLastCopy
  BY DEF Safe, WholeCopies, ObjectBehind, Stored, NeverLastCopy
<1> QED
  BY <1>1, SafeInvariant, ObjectKept, PTL
===============================================================================
