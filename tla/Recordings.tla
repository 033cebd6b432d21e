------------------------------ MODULE Recordings -------------------------------
(* RecordingManager of src/recordings.rs: the index of recorded segments in    *)
(* memory and on disk, the reconcile loop that indexes, hashes and uploads     *)
(* them, the archive and retention-cleanup calls of the API, and restarts.     *)
(*                                                                             *)
(* A record is named by its segment: local_path is unique in the index.  A     *)
(* file's content is Partial while ffmpeg writes it and Whole once closed; the *)
(* same values stand for a SHA-256 and for the object at the remote.  ffmpeg,  *)
(* rclone and the file system are external: an rclone copy replaces the remote *)
(* object or leaves it alone.  Only closed files are old enough for retention. *)
(* Left out: thumbnails, names, times, byte counts, error texts, an archive    *)
(* remote that is not configured, and the recorder processes.                  *)
EXTENDS Naturals, FiniteSets

CONSTANTS
    Segments,       \* files of the recordings directory
    Calls,          \* bound: API requests at one time, archive or cleanup_retention
    MaxCrashes,     \* bound: restarts of the process
    MayStall        \* a file may go unwritten for 8 seconds before it is closed

ASSUME RecordingsAssumption ==
    Segments \cap Calls = {} /\ MaxCrashes \in Nat /\ MayStall \in BOOLEAN

VARIABLES
    config,     \* archive_enabled and archive_verify; fixed at start
    file,       \* state of each local file
    remote,     \* content of the remote object
    records,    \* the index in memory
    disk,       \* recordings_index as a start would read it
    saving,     \* index snapshots that tasks are writing to disk
    loop,       \* the reconcile loop
    task,       \* upload tasks, named by their segment, and API calls
    crashes,    \* restarts so far
    cut,        \* history: a crash happened or an API call was dropped
    early       \* history: segments indexed while ffmpeg was still writing them

vars == <<config, file, remote, records, disk, saving, loop, task, crashes, cut, early>>

None == 0   Partial == 1   Whole == 2
Content(f) == IF file[f] = "growing" THEN Partial ELSE Whole
IsFile(f)  == file[f] \in {"growing", "closed"}

NoRecord == [status |-> "none", sum |-> None, verified |-> FALSE]
Fresh    == [status |-> "local", sum |-> None, verified |-> FALSE]
NoIndex  == [f \in Segments |-> NoRecord]
Workers  == Segments \cup Calls
Idle     == [pc |-> "idle"]
TopOfLoop == [pc |-> "index", todo |-> {}, changed |-> FALSE]

Init ==
    /\ config \in [archive : BOOLEAN, verify : BOOLEAN]
    /\ file = [f \in Segments |-> "absent"]
    /\ remote = [f \in Segments |-> None]
    /\ records = NoIndex /\ disk = NoIndex /\ saving = {}
    /\ loop = TopOfLoop
    /\ task = [x \in Workers |-> Idle]
    /\ crashes = 0 /\ cut = FALSE /\ early = {}

-------------------------------------------------------------------------------
(* A change to the index is made under its lock.  persist then takes the lock   *)
(* again to clone the index and writes the clone outside it: the snapshots of   *)
(* two tasks may reach the disk in either order.  A task waits for its own.     *)

Ready(a) == ~ \E s \in saving : s.who = a

Commit(a, index) ==
    /\ records' = index
    /\ saving' = saving \cup {[who |-> a, cloned |-> FALSE, index |-> NoIndex]}

CommitIfChanged(a, index) ==
    IF index = records THEN UNCHANGED <<records, saving>> ELSE Commit(a, index)

SetStatus(a, f, s) == Commit(a, [records EXCEPT ![f].status = s])

Clone ==
    \E s \in saving :
        /\ ~s.cloned
        /\ saving' = (saving \ {s}) \cup {[s EXCEPT !.cloned = TRUE, !.index = records]}
        /\ UNCHANGED <<config, early, file, remote, records, disk, loop, task, crashes, cut>>

Write ==
    \E s \in saving :
        /\ s.cloned
        /\ disk' = s.index
        /\ saving' = saving \ {s}
        /\ UNCHANGED <<config, early, file, remote, records, loop, task, crashes, cut>>

\* Two writes at once may mix into a file that does not parse.
WritesMix ==
    \E s, t \in saving :
        /\ s # t /\ s.cloned /\ t.cloned
        /\ disk' = NoIndex
        /\ saving' = saving \ {s, t}
        /\ UNCHANGED <<config, early, file, remote, records, loop, task, crashes, cut>>

-------------------------------------------------------------------------------
(* ffmpeg *)

OpenFile(f) ==
    /\ file[f] = "absent"
    /\ file' = [file EXCEPT ![f] = "growing"]
    /\ UNCHANGED <<config, early, remote, records, disk, saving, loop, task, crashes, cut>>

CloseFile(f) ==
    /\ file[f] = "growing"
    /\ file' = [file EXCEPT ![f] = "closed"]
    /\ UNCHANGED <<config, early, remote, records, disk, saving, loop, task, crashes, cut>>

-------------------------------------------------------------------------------
(* reconcile *)

\* A file is taken for closed when it was not written for 8 seconds.  The files
\* to hash are collected once the new index is written.
IndexClosedFiles ==
    /\ loop.pc = "index" /\ Ready("loop")
    /\ \E stalled \in SUBSET {f \in Segments : MayStall /\ file[f] = "growing"} :
         LET quiet == stalled \cup {f \in Segments : file[f] = "closed"}
             index == [f \in Segments |->
                         IF f \in quiet /\ records[f] = NoRecord
                         THEN Fresh ELSE records[f]]
         IN  /\ CommitIfChanged("loop", index)
             /\ early' = early \cup {f \in stalled : records[f] = NoRecord}
    /\ loop' = [loop EXCEPT !.pc = "collect"]
    /\ UNCHANGED <<config, file, remote, disk, task, crashes, cut>>

\* Nothing is uploaded while archiving is disabled.
AfterBackfill == [TopOfLoop EXCEPT !.pc = IF config.archive THEN "schedule" ELSE "index"]

CollectUnhashed ==
    /\ loop.pc = "collect" /\ Ready("loop")
    /\ LET todo == {f \in Segments : /\ records[f] # NoRecord
                                     /\ records[f].sum = None /\ IsFile(f)} IN
         loop' = IF todo = {} THEN AfterBackfill
                 ELSE [pc |-> "backfill", changed |-> FALSE, todo |-> todo]
    /\ UNCHANGED <<config, early, file, remote, records, disk, saving, task, crashes, cut>>

\* One file is hashed outside the lock; its checksum is kept if there is still none.
BackfillChecksum(f) ==
    /\ loop.pc = "backfill" /\ f \in loop.todo
    /\ IsFile(f) /\ records[f].sum = None
    /\ records' = [records EXCEPT ![f].sum = Content(f)]
    /\ loop' = [loop EXCEPT !.todo = @ \ {f}, !.changed = TRUE]
    /\ UNCHANGED <<config, early, file, remote, disk, saving, task, crashes, cut>>

\* Somebody else has set the checksum, or the file is gone or cannot be read.
SkipBackfill(f) ==
    /\ loop.pc = "backfill" /\ f \in loop.todo
    /\ loop' = [loop EXCEPT !.todo = @ \ {f}]
    /\ UNCHANGED <<config, early, file, remote, records, disk, saving, task, crashes, cut>>

EndBackfill ==
    /\ loop.pc = "backfill" /\ loop.todo = {}
    /\ IF loop.changed THEN Commit("loop", records) ELSE UNCHANGED <<records, saving>>
    /\ loop' = AfterBackfill
    /\ UNCHANGED <<config, early, file, remote, disk, task, crashes, cut>>

\* The upload tasks get the records as they are here, and start once the index
\* is written; with nothing due the pass ends here.
ScheduleUploads ==
    /\ loop.pc = "schedule" /\ Ready("loop")
    /\ LET due == {f \in Segments : records[f].status = "local" /\ IsFile(f)} IN
         /\ IF due = {} THEN UNCHANGED <<records, saving>>
            ELSE Commit("loop", [f \in Segments |->
                   IF f \in due THEN [records[f] EXCEPT !.status = "uploading"]
                   ELSE records[f]])
         /\ loop' = IF due = {} THEN TopOfLoop
                    ELSE [TopOfLoop EXCEPT !.pc = "spawn", !.todo = due]
         /\ task' = [x \in Workers |->
                       IF x \in due THEN [pc |-> "queued", seg |-> x, sum |-> records[x].sum]
                       ELSE task[x]]
    /\ UNCHANGED <<config, early, file, remote, disk, crashes, cut>>

SpawnUploads ==
    /\ loop.pc = "spawn" /\ Ready("loop")
    /\ task' = [x \in Workers |->
                  IF x \in loop.todo THEN [task[x] EXCEPT !.pc = "upload"] ELSE task[x]]
    /\ loop' = TopOfLoop
    /\ UNCHANGED <<config, early, file, remote, records, disk, saving, crashes, cut>>

-------------------------------------------------------------------------------
(* archive *)

At(x, where) == task[x].pc = where /\ Ready(x)
Go(x, where) == task' = [task EXCEPT ![x].pc = where]
End(x)       == task' = [task EXCEPT ![x] = Idle]

\* A call for a recording that needs nothing returns at once: it was archived and
\* does not have to be verified (again), or there is no checksum to verify.
CallArchive(c, f) ==
    LET r == records[f]
        archived == r.status = "archived"
    IN
    /\ task[c] = Idle /\ r # NoRecord
    /\ ~archived \/ (config.verify /\ ~r.verified /\ r.sum # None)
    /\ task' = [task EXCEPT ![c] =
         [pc |-> IF archived THEN "recheck"
                 ELSE IF r.sum = None THEN "hashFirst" ELSE "mark",
          seg |-> f, sum |-> r.sum]]
    /\ UNCHANGED <<config, early, file, remote, records, disk, saving, loop, crashes, cut>>

\* A file that cannot be hashed ends the call and leaves the record alone.
HashFirst(c) ==
    /\ At(c, "hashFirst")
    /\ LET f == task[c].seg IN
       \/ /\ IsFile(f)
          /\ CommitIfChanged(c, [records EXCEPT ![f].sum = Content(f)])
          /\ task' = [task EXCEPT ![c].pc = "mark", ![c].sum = Content(f)]
       \/ End(c) /\ UNCHANGED <<records, saving>>
    /\ UNCHANGED <<config, early, file, remote, disk, loop, crashes, cut>>

\* Mutant: a status that the rest of the program does not know.
MarkArchiving(c) ==
    /\ At(c, "mark")
    /\ SetStatus(c, task[c].seg, "archiving")
    /\ Go(c, "upload")
    /\ UNCHANGED <<config, early, file, remote, disk, loop, crashes, cut>>

\* Whatever the status has become since the record was read.
MarkUploading(c) ==
    /\ At(c, "mark")
    /\ SetStatus(c, task[c].seg, "uploading")
    /\ Go(c, "upload")
    /\ UNCHANGED <<config, early, file, remote, disk, loop, crashes, cut>>

-------------------------------------------------------------------------------
(* upload, by a scheduled task or inside an archive call *)

Fail(x) ==
    /\ SetStatus(x, task[x].seg, "failed") /\ End(x)
    /\ UNCHANGED <<config, early, file, remote, disk, loop, crashes, cut>>

StartUpload(x) ==
    /\ At(x, "upload") /\ IsFile(task[x].seg)
    /\ Go(x, IF task[x].sum = None THEN "hash" ELSE "copy")
    /\ UNCHANGED <<config, early, file, remote, records, disk, saving, loop, crashes, cut>>

MissingFile(x) == At(x, "upload") /\ ~IsFile(task[x].seg) /\ Fail(x)

Hash(x) ==
    /\ At(x, "hash") /\ IsFile(task[x].seg)
    /\ LET f == task[x].seg IN
         /\ CommitIfChanged(x, [records EXCEPT ![f].sum = Content(f)])
         /\ task' = [task EXCEPT ![x].pc = "copy", ![x].sum = Content(f)]
    /\ UNCHANGED <<config, early, file, remote, disk, loop, crashes, cut>>

HashFails(x) == At(x, "hash") /\ Fail(x)

Copy(x) ==
    /\ At(x, "copy") /\ IsFile(task[x].seg)
    /\ LET f == task[x].seg IN
         /\ remote' = [remote EXCEPT ![f] = Content(f)]
         /\ IF config.verify
            THEN Go(x, "verify") /\ UNCHANGED <<records, saving>>
            ELSE /\ CommitIfChanged(x, [records EXCEPT ![f].verified = FALSE])
                 /\ Go(x, "finish")
    /\ UNCHANGED <<config, early, file, disk, loop, crashes, cut>>

\* Mutant: the exit status of rclone is not looked at.
CopyUnchecked(x) ==
    /\ At(x, "copy")
    /\ Go(x, IF config.verify THEN "verify" ELSE "finish")
    /\ UNCHANGED <<config, early, file, remote, records, disk, saving, loop, crashes, cut>>

\* Mutant: the error is returned without a status.
CopyFailsSilently(x) ==
    /\ At(x, "copy") /\ End(x)
    /\ UNCHANGED <<config, early, file, remote, records, disk, saving, loop, crashes, cut>>

CopyFails(x) == At(x, "copy") /\ Fail(x)

Verify(x) ==
    /\ At(x, "verify") \/ At(x, "recheck")
    /\ remote[task[x].seg] = task[x].sum
    /\ CommitIfChanged(x, [records EXCEPT ![task[x].seg].verified = TRUE])
    /\ IF task[x].pc = "verify" THEN Go(x, "finish") ELSE End(x)
    /\ UNCHANGED <<config, early, file, remote, disk, loop, crashes, cut>>

\* The hashes differ, or rclone cannot read the remote object.
VerifyFails(x) ==
    /\ At(x, "verify") \/ At(x, "recheck")
    /\ CommitIfChanged(x, [records EXCEPT ![task[x].seg].verified = FALSE])
    /\ Go(x, "refuse")
    /\ UNCHANGED <<config, early, file, remote, disk, loop, crashes, cut>>

Refuse(x) == At(x, "refuse") /\ Fail(x)

Finish(x) ==
    /\ At(x, "finish")
    /\ SetStatus(x, task[x].seg, "archived") /\ End(x)
    /\ UNCHANGED <<config, early, file, remote, disk, loop, crashes, cut>>

-------------------------------------------------------------------------------
(* cleanup_retention *)

\* Mutant: archiving or not, a local recording may go.
EligibleUnarchived(f) ==
    file[f] = "closed" /\ records[f].status \in {"local", "archived"}

Eligible(f) ==
    /\ file[f] = "closed"
    /\ records[f].status \in (IF config.archive THEN {"archived"} ELSE {"local", "archived"})

\* One fresh scan decides for all the requested recordings.  A call that finds none
\* of them eligible changes nothing.
CallCleanup(c) ==
    /\ task[c] = Idle
    /\ \E ids \in (SUBSET {f \in Segments : Eligible(f)}) \ {{}} :
         task' = [task EXCEPT ![c] = [pc |-> "remove", seg |-> c, changed |-> FALSE,
                                      todo |-> ids]]
    /\ UNCHANGED <<config, early, file, remote, records, disk, saving, loop, crashes, cut>>

RemoveFile(c, f) ==
    /\ At(c, "remove") /\ f \in task[c].todo
    /\ IF IsFile(f)
       THEN /\ file' = [file EXCEPT ![f] = "deleted"]
            /\ task' = [task EXCEPT ![c].pc = "tombstone", ![c].seg = f,
                                    ![c].todo = @ \ {f}]
       ELSE /\ task' = [task EXCEPT ![c].todo = @ \ {f}]
            /\ UNCHANGED file
    /\ UNCHANGED <<config, early, remote, records, disk, saving, loop, crashes, cut>>

\* The status is read again: the scan is old by now.
Tombstone(c) ==
    /\ At(c, "tombstone")
    /\ records' = [records EXCEPT ![task[c].seg].status =
                     IF @ = "archived" THEN "archived" ELSE "deleted"]
    /\ task' = [task EXCEPT ![c].pc = "remove", ![c].changed = TRUE]
    /\ UNCHANGED <<config, early, file, remote, disk, saving, loop, crashes, cut>>

EndCleanup(c) ==
    /\ At(c, "remove") /\ task[c].todo = {}
    /\ IF task[c].changed THEN Commit(c, records) ELSE UNCHANGED <<records, saving>>
    /\ End(c)
    /\ UNCHANGED <<config, early, file, remote, disk, loop, crashes, cut>>

-------------------------------------------------------------------------------
(* Interruptions *)

\* The client of an API call goes away and the handler is dropped at an await.
\* The rclone process it started may still finish its copy.
DropCall(c) ==
    /\ At(c, "hashFirst") \/ At(c, "copy") \/ At(c, "verify") \/ At(c, "recheck")
         \/ At(c, "tombstone") \/ (At(c, "remove") /\ task[c].todo # {})
    /\ End(c) /\ cut' = TRUE
    /\ \/ UNCHANGED remote
       \/ /\ task[c].pc = "copy" /\ IsFile(task[c].seg)
          /\ remote' = [remote EXCEPT ![task[c].seg] = Content(task[c].seg)]
    /\ UNCHANGED <<config, early, file, records, disk, saving, loop, crashes>>

\* A restart reads the index back.  A write that was cut short leaves a file that
\* does not parse, and the index starts empty.
Crash ==
    /\ crashes < MaxCrashes
    /\ crashes' = crashes + 1 /\ cut' = TRUE
    /\ \E index \in {disk} \cup (IF \E s \in saving : s.cloned THEN {NoIndex} ELSE {}) :
         records' = index /\ disk' = index
    /\ saving' = {} /\ loop' = TopOfLoop
    /\ task' = [x \in Workers |-> Idle]
    /\ UNCHANGED <<config, early, file, remote>>

-------------------------------------------------------------------------------
Persist == Clone \/ Write \/ WritesMix

Reconcile ==
    \/ IndexClosedFiles \/ CollectUnhashed \/ EndBackfill
    \/ ScheduleUploads \/ SpawnUploads
    \/ \E f \in Segments : BackfillChecksum(f) \/ SkipBackfill(f)

Upload(x) ==
    \/ StartUpload(x) \/ MissingFile(x) \/ Hash(x) \/ HashFails(x)
    \/ Copy(x) \/ CopyFails(x) \/ Verify(x) \/ VerifyFails(x) \/ Refuse(x)
    \/ Finish(x)

ArchiveSteps(c) == HashFirst(c) \/ MarkUploading(c)

CleanupSteps(c) ==
    \/ \E f \in Segments : RemoveFile(c, f)
    \/ Tombstone(c) \/ EndCleanup(c)

Next ==
    \/ \E f \in Segments : OpenFile(f) \/ CloseFile(f)
    \/ Reconcile \/ Persist
    \/ \E x \in Workers : Upload(x)
    \/ \E c \in Calls :
         \/ \E f \in Segments : CallArchive(c, f)
         \/ ArchiveSteps(c)
         \/ CallCleanup(c) \/ CleanupSteps(c)
         \/ DropCall(c)
    \/ Crash

Spec == Init /\ [][Next]_vars

\* The loop's timer ticks, spawned tasks run, rclone ends and writes complete.
\* An API call that was accepted runs on, unless it is dropped.
Fairness ==
    /\ WF_vars(Reconcile) /\ WF_vars(Persist)
    /\ \A f \in Segments : WF_vars(Upload(f))
    /\ \A c \in Calls : WF_vars(Upload(c) \/ ArchiveSteps(c) \/ CleanupSteps(c))

FairSpec == Spec /\ Fairness

\* The part of it that an upload needs to end once it is due.
UploadFairness ==
    /\ WF_vars(Persist) /\ WF_vars(SpawnUploads)
    /\ \A x \in Workers : WF_vars(Upload(x))

UploadFairSpec == Spec /\ UploadFairness

-------------------------------------------------------------------------------
Status  == {"none", "local", "uploading", "archived", "failed", "deleted"}
Sum     == {None, Partial, Whole}
Index   == [Segments -> [status : Status, sum : Sum, verified : BOOLEAN]]
UploadPc == {"queued", "upload", "hash", "copy", "verify", "recheck", "refuse",
             "finish", "hashFirst", "mark"}
UploadTask  == [pc : UploadPc, seg : Segments, sum : Sum]
CleanupTask == [pc : {"remove", "tombstone"}, seg : Workers, changed : BOOLEAN,
                todo : SUBSET Segments]

TypeOK ==
    /\ config \in [archive : BOOLEAN, verify : BOOLEAN]
    /\ file \in [Segments -> {"absent", "growing", "closed", "deleted"}]
    /\ remote \in [Segments -> Sum]
    /\ records \in Index /\ disk \in Index
    /\ saving \subseteq [who : Workers \cup {"loop"}, cloned : BOOLEAN, index : Index]
    /\ loop \in [pc : {"index", "collect", "backfill", "schedule", "spawn"},
                 todo : SUBSET Segments, changed : BOOLEAN]
    /\ task \in [Workers -> {Idle} \cup UploadTask \cup CleanupTask]
    /\ crashes \in 0..MaxCrashes /\ cut \in BOOLEAN /\ early \subseteq Segments

\* What the index says of the archive is true, in memory and on disk, under
\* concurrent uploads of one recording, retries, late snapshots and restarts:
\* an archived recording has a remote object, and a verified one the object its
\* checksum describes.  Of a segment that was indexed while ffmpeg was writing it
\* only the first is promised: uploads that read it at different times store and
\* record different contents.
ArchiveClaims ==
    \A f \in Segments : \A r \in {records[f], disk[f]} :
        /\ r.status = "archived" => remote[f] # None
        /\ r.verified /\ f \notin early => remote[f] = r.sum /\ r.sum # None

\* While archiving is enabled, retention never removes a segment without a remote
\* object, whatever uploads and archive calls do between its scan and its
\* deletions; and the object is the whole segment, unless the segment was indexed
\* while ffmpeg was writing it.
NeverLastCopy ==
    \A f \in Segments :
        config.archive /\ file[f] = "deleted" =>
            /\ remote[f] # None
            /\ f \notin early => remote[f] = Whole

\* The status "uploading", which the worker and retention pass over, always has an
\* upload behind it that will overwrite it, short of a restart or a dropped call,
\* although several uploads of one recording overwrite each other's status.
Uploading(x, f) ==
    /\ task[x].pc \in {"queued", "upload", "hash", "copy", "verify", "refuse", "finish"}
    /\ task[x].seg = f

UploadHasOwner ==
    \A f \in Segments :
        records[f].status = "uploading" => cut \/ \E x \in Workers : Uploading(x, f)

\* An upload ends as archived or failed: no error path, concurrent archive call
\* or cleanup leaves the status "uploading" behind, short of a restart or of a
\* call dropped half-way.
UploadEnds ==
    \A f \in Segments :
        records[f].status = "uploading" ~> (records[f].status # "uploading" \/ cut)

\* What the documentation says of indexing: a segment is indexed after it has
\* been closed.
IndexedIsClosed ==
    \A f \in Segments : records[f] # NoRecord => file[f] \in {"closed", "deleted"}

\* What the documentation says of the background worker: with archiving enabled
\* it uploads closed segments by itself, or reports the failure.
SegmentsUploaded ==
    \A f \in Segments :
        config.archive /\ file[f] = "closed"
            ~> (remote[f] = Whole \/ records[f].status = "failed")
===============================================================================
