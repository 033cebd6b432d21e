------------------------------ MODULE ConfigStore -------------------------------
(* Cameras and providers: the handlers of src/web.rs over the tables of         *)
(* camrelay-storage and over the JSON files of src/config.rs, and the import of *)
(* the files at every start (src/main.rs).                                      *)
(*                                                                              *)
(* With database = TRUE the v1 handlers use the tables; the legacy handlers use *)
(* cameras.json whatever the mode.  A statement of SQLite is one step and may   *)
(* fail.  A file is loaded in one step and saved in two, because fs::write      *)
(* empties it first; either half may fail, and no lock is held in between.  The  *)
(* legacy edit and deletion answer as if the save had worked.                    *)
(*                                                                              *)
(* A camera is its local port (UNIQUE in the table) and the provider it names,  *)
(* which are also the two fields an edit may change independently.  Left out:   *)
(* tokens (handled as cameras are, without a port), brands.json (handled as     *)
(* cameras.json is), the secrets in a row, and requests that fail validation.   *)
EXTENDS Naturals, SequencesExt

CONSTANTS
    Cameras,     \* camera ids, drawn by a create or found in the legacy file
    Ports,       \* local ports
    Provider,    \* the name of the provider that is created and deleted
    Other,       \* the name of one that exists all along
    ProviderIds, \* ids drawn by a create of the provider
    Calls,       \* slots for requests in flight
    MaxRequests, \* bound on the requests
    MaxRestarts, \* bound on the restarts
    None, Torn, Unknown

VARIABLES
    database,    \* whether SQLite is in use
    up,          \* the process runs
    marker,      \* migration_meta has the mark of an import
    table,       \* cameras: the row of an id, or None
    file,        \* cameras.json: the same, or Torn, which no parser takes
    providers,   \* ids of the rows of providers that have the name Provider
    call,        \* the requests in flight
    requests, restarts,  \* how many there have been
    drawn,       \* ids of cameras and of providers used up
    promised     \* history: what the answers given so far, and the imports, make
                 \* of the rows; Unknown where edits or deletions overlapped

vars == <<database, marker, up, table, file, providers, call, requests, restarts, drawn,
          promised>>

Record  == [port : Ports, brand : {Provider, Other}]
Content == [Cameras -> Record \cup {None}]
Edits   == [field : {"port"}, value : Ports]
           \cup [field : {"brand"}, value : {Provider, Other}]

ASSUME StoreAssumption ==
    /\ IsFiniteSet(Cameras) /\ None \notin Record /\ Torn \notin Content
    /\ MaxRequests \in Nat /\ MaxRestarts \in Nat

Idle == [pc |-> "idle", op |-> "none", cam |-> None, edit |-> None, got |-> None,
         mixed |-> FALSE, late |-> {}]

Empty   == [c \in Cameras |-> None]
Load    == IF file = Torn THEN Empty ELSE file     \* load_cameras
Store   == IF database THEN table ELSE Load        \* the system of record

Patch(r, e) == IF e.field = "port" THEN [r EXCEPT !.port = e.value]
                                   ELSE [r EXCEPT !.brand = e.value]

\* Mutant: no UNIQUE constraint on local_port.
ClashesNever(rows, c, r) == FALSE

\* The UNIQUE constraint on local_port, and ON CONFLICT(id) DO UPDATE.
Clashes(rows, c, r) == \E d \in Cameras \ {c} : rows[d] # None /\ rows[d].port = r.port

Init ==
    /\ database \in BOOLEAN /\ marker = FALSE /\ up = FALSE
    /\ table = Empty /\ file \in Content
    /\ providers = {}
    /\ call = [s \in Calls |-> Idle]
    /\ requests = 0 /\ restarts = 0
    /\ drawn = {c \in Cameras : file[c] # None}
    /\ promised = Empty

-------------------------------------------------------------------------------
(* Requests *)

OnRow(x, c) == call[x].pc = "upsert" /\ call[x].cam = c

\* The calls after s has become k: one on the same row overlaps.
Overlapping(s, k, others) ==
    [x \in Calls |->
        IF x = s THEN [k EXCEPT !.mixed = @ \/ others # {}]
        ELSE IF x \in others THEN [call[x] EXCEPT !.mixed = TRUE] ELSE call[x]]

Ask(s) ==
    /\ up /\ call[s] = Idle /\ requests < MaxRequests
    /\ requests' = requests + 1

Answer(s) == call' = [call EXCEPT ![s] = Idle]

\* Cameras written while a provider is being deleted.
Written(c, calls) ==
    [x \in Calls |-> IF calls[x].pc = "drop"
                     THEN [calls[x] EXCEPT !.late = @ \cup {c}] ELSE calls[x]]

-------------------------------------------------------------------------------
(* SQLite: create_v1_camera, delete_v1_camera, update_v1_camera *)

CreateRow(s) ==
    \E c \in Cameras, r \in Record :
        /\ database /\ Ask(s) /\ c \notin drawn
        /\ ~Clashes(table, c, r)            \* else a 500, and nothing changes
        /\ table' = [table EXCEPT ![c] = r]
        /\ promised' = [promised EXCEPT ![c] = r]
        /\ drawn' = drawn \cup {c}
        /\ call' = Written(c, call)
        /\ UNCHANGED <<database, marker, up, file, providers, restarts>>

DeleteRow(s) ==
    \E c \in Cameras :
        /\ database /\ Ask(s) /\ table[c] # None
        /\ table' = [table EXCEPT ![c] = None]
        /\ promised' = [promised EXCEPT ![c] = None]
        /\ call' = [x \in Calls |-> IF OnRow(x, c) THEN [call[x] EXCEPT !.mixed = TRUE]
                                                   ELSE call[x]]
        /\ UNCHANGED <<database, marker, up, file, providers, restarts, drawn>>

\* The first half of an edit: the camera as it is, with the change made to it.
\* Without SQLite it comes from a first load of the file.
FindCamera(s) ==
    \E c \in Cameras, e \in Edits :
        /\ Ask(s) /\ Store[c] # None
        /\ call' = Overlapping(s,
              [Idle EXCEPT !.pc = IF database THEN "upsert" ELSE "load",
                           !.op = "edit", !.cam = c, !.edit = e,
                           !.got = Patch(Store[c], e)],
              {x \in Calls : OnRow(x, c)})
        /\ UNCHANGED <<database, marker, up, table, file, providers, restarts, drawn, promised>>

\* What an edit makes of a promise.
Edited(c, e) == IF promised[c] \in {None, Unknown} THEN Unknown ELSE Patch(promised[c], e)

\* Mutant: INSERT OR REPLACE, which deletes the row that has the port.
UpsertReplacing(s) ==
    /\ call[s].pc = "upsert"
    /\ LET c == call[s].cam IN
         /\ table' = [d \in Cameras |->
                        IF d = c THEN call[s].got
                        ELSE IF table[d] # None /\ table[d].port = call[s].got.port
                             THEN None ELSE table[d]]
         /\ promised' = [promised EXCEPT ![c] = IF call[s].mixed THEN Unknown
                                                ELSE Edited(c, call[s].edit)]
         /\ call' = Written(c, [call EXCEPT ![s] = Idle])
    /\ UNCHANGED <<database, marker, up, file, providers, requests, restarts, drawn>>

\* The second half: upsert_camera writes the whole row, also when it was deleted
\* meanwhile; a port of another camera, or any error, is a 500.
UpsertRow(s) ==
    /\ call[s].pc = "upsert"
    /\ LET c == call[s].cam IN
         \/ /\ ~Clashes(table, c, call[s].got)
            /\ table' = [table EXCEPT ![c] = call[s].got]
            /\ promised' = [promised EXCEPT ![c] = IF call[s].mixed THEN Unknown
                                                   ELSE Edited(c, call[s].edit)]
            /\ call' = Written(c, [call EXCEPT ![s] = Idle])
         \/ Answer(s) /\ UNCHANGED <<table, promised>>
    /\ UNCHANGED <<database, marker, up, file, providers, requests, restarts, drawn>>

-------------------------------------------------------------------------------
(* cameras.json: the legacy handlers, and the v1 handlers without SQLite *)

\* The load and the change of a create, an edit or a delete.  The legacy edit has
\* all fields in its body; it is an edit of one field here, of the loaded record.
LoadFile(s) ==
    \E c \in Cameras, op \in {"create", "edit", "delete"}, r \in Record, e \in Edits :
        /\ Ask(s)
        /\ IF op = "create" THEN c \notin drawn ELSE Load[c] # None
        /\ op # "create" => r = [port |-> Min(Ports), brand |-> Other]
        /\ op # "edit" => e = [field |-> "port", value |-> Min(Ports)]
        /\ drawn' = drawn \cup {c}
        /\ call' = [call EXCEPT ![s] =
              [Idle EXCEPT !.pc = "truncate", !.op = op, !.cam = c, !.edit = e,
                 !.got = [Load EXCEPT ![c] = CASE op = "create" -> r
                                               [] op = "edit"   -> Patch(Load[c], e)
                                               [] op = "delete" -> None]]]
        /\ UNCHANGED <<database, marker, up, table, file, providers, restarts, promised>>

\* The second load of update_v1_camera: the edited camera replaces what is there.
LoadAgain(s) ==
    /\ call[s].pc = "load"
    /\ \/ /\ Load[call[s].cam] # None
          /\ call' = [call EXCEPT ![s].pc = "truncate",
                                  ![s].got = [Load EXCEPT ![call[s].cam] = call[s].got]]
       \/ Load[call[s].cam] = None /\ Answer(s)
    /\ UNCHANGED <<database, marker, up, table, file, providers, requests, restarts, drawn,
                   promised>>

\* fs::write opens the file, which empties it, or fails to.
Truncate(s) ==
    /\ call[s].pc = "truncate"
    /\ \/ file' = Torn /\ call' = [call EXCEPT ![s].pc = "write"]
       \/ Answer(s) /\ UNCHANGED file
    /\ UNCHANGED <<database, marker, up, table, providers, requests, restarts, drawn,
                   promised>>

\* The content; a write that fails (create and the v1 handlers answer 500, the
\* legacy edit and deletion 200 and 204), or two at once, may leave a torn file.
Write(s) ==
    /\ call[s].pc = "write"
    /\ file' \in {call[s].got, Torn}
    /\ Answer(s)
    /\ UNCHANGED <<database, marker, up, table, providers, requests, restarts, drawn,
                   promised>>

-------------------------------------------------------------------------------
(* SQLite: create_v1_provider, delete_v1_provider, update_v1_provider *)

\* upsert_provider: ON CONFLICT(name) the row takes the new id.
CreateProvider(s) ==
    \E i \in ProviderIds :
        /\ database /\ Ask(s) /\ i \notin drawn
        /\ providers' = {i} /\ drawn' = drawn \cup {i}
        /\ UNCHANGED <<database, marker, up, table, file, call, restarts, promised>>

\* find_provider_config_by_id, for an edit or a deletion.
FindProvider(s) ==
    \E i \in providers, op \in {"keep", "drop"} :
        /\ database /\ Ask(s)
        /\ call' = [call EXCEPT ![s] = [Idle EXCEPT !.op = op, !.cam = i,
                      !.pc = IF op = "drop" THEN "check" ELSE "keep"]]
        /\ UNCHANGED <<database, marker, up, table, file, providers, restarts, drawn, promised>>

InUse == \E c \in Cameras : table[c] # None /\ table[c].brand = Provider

\* A provider in use is not deleted; if the cameras cannot be listed it counts as
\* unused, and then a camera may be left behind that nobody has written (late).
Check(s) ==
    /\ call[s].pc = "check"
    /\ \/ InUse /\ Answer(s)
       \/ ~InUse /\ call' = [call EXCEPT ![s].pc = "drop"]
       \/ call' = [call EXCEPT ![s].pc = "drop", ![s].late = Cameras]
    /\ UNCHANGED <<database, marker, up, table, file, providers, requests, restarts, drawn,
                   promised>>

\* Mutant: the edit inserts the provider when it is not there, as upsert_provider.
DropProviderUpserting(s) ==
    /\ call[s].pc \in {"drop", "keep"}
    /\ providers' = IF call[s].pc = "drop" THEN providers \ {call[s].cam}
                    ELSE {call[s].cam}
    /\ Answer(s)
    /\ UNCHANGED <<database, marker, up, table, file, requests, restarts, drawn, promised>>

\* delete_provider by id; update_provider changes a row that is there, and inserts
\* none (its columns are not modelled).  Either may fail.
DropProvider(s) ==
    /\ call[s].pc \in {"drop", "keep"}
    /\ \/ call[s].pc = "drop" /\ providers' = providers \ {call[s].cam}
       \/ UNCHANGED providers
    /\ Answer(s)
    /\ UNCHANGED <<database, marker, up, table, file, requests, restarts, drawn, promised>>

-------------------------------------------------------------------------------
(* Restarts *)

Listed == {c \in Cameras : file[c] # None}

\* The table after the first i rows.
Imported(order, i) ==
    [c \in Cameras |-> IF \E k \in 1..i : order[k] = c THEN file[c] ELSE table[c]]

\* main: at every start at which config.json is there and the files can be read,
\* import_legacy takes all rows of the file in its order, and the marker, in one
\* transaction; a row that clashes, or any error, undoes it.  It does not look at
\* the marker of an earlier one.
Import ==
    /\ database /\ file # Torn
    /\ \E order \in SetToSeqs(Listed) :
         /\ \A i \in DOMAIN order :
              ~Clashes(Imported(order, i - 1), order[i], file[order[i]])
         /\ table' = Imported(order, Len(order))
    /\ marker' = TRUE
    /\ promised' = [c \in Cameras |-> IF c \in Listed THEN file[c] ELSE promised[c]]

Start ==
    /\ ~up /\ up' = TRUE
    /\ Import \/ UNCHANGED <<marker, table, promised>>
    /\ UNCHANGED <<database, file, providers, call, requests, restarts, drawn>>

\* The requests in flight are gone; a file that was being written stays empty.
Crash ==
    /\ up /\ restarts < MaxRestarts
    /\ up' = FALSE /\ restarts' = restarts + 1
    /\ call' = [s \in Calls |-> Idle]
    /\ UNCHANGED <<database, marker, table, file, providers, requests, drawn, promised>>

-------------------------------------------------------------------------------
CameraStep(s) ==
    \/ CreateRow(s) \/ DeleteRow(s) \/ FindCamera(s) \/ UpsertRow(s)
    \/ LoadFile(s) \/ LoadAgain(s) \/ Truncate(s) \/ Write(s)
ProviderStep(s) == CreateProvider(s) \/ FindProvider(s) \/ Check(s) \/ DropProvider(s)

Next == Start \/ Crash \/ \E s \in Calls : CameraStep(s) \/ ProviderStep(s)

Spec == Init /\ [][Next]_vars
-------------------------------------------------------------------------------
StoreTypeOK ==
    /\ database \in BOOLEAN /\ marker \in BOOLEAN /\ up \in BOOLEAN
    /\ table \in Content /\ file \in Content \cup {Torn}
    /\ \A c, d \in Cameras : table[c] # None /\ table[d] # None /\ c # d
                             => table[c].port # table[d].port
    /\ providers \subseteq ProviderIds
    /\ \A s \in Calls :
         /\ call[s].pc \in {"idle", "upsert", "load", "truncate", "write", "check",
                            "keep", "drop"}
         /\ call[s].mixed \in BOOLEAN /\ call[s].late \subseteq Cameras
         /\ call[s].pc = "upsert" => call[s].got \in Record
         /\ call[s].pc \in {"truncate", "write"} => call[s].got \in Content
    /\ requests \in 0..MaxRequests /\ restarts \in 0..MaxRestarts
    /\ drawn \subseteq Cameras \cup ProviderIds
    /\ promised \in [Cameras -> Record \cup {None, Unknown}]

\* With SQLite, the row of a camera is exactly what the answers of create, edit and
\* delete make of it, unless edits or deletions of that camera overlapped: no
\* answered change is lost, undone or done to another camera by requests that
\* interleave, fail or are cut off.  It holds across restarts for the cameras that
\* the legacy file does not list; of those it does list, an import makes what the
\* file says, and what that undoes is the subject of RestartKeepsCameras.
ChangesAreKept ==
    database => \A c \in Cameras : promised[c] \in {Unknown, table[c]}

\* docs/migration-plan.md:29, "A migration marker prevents duplicate imports": a
\* start after the first import leaves the cameras as they are.
RestartKeepsCameras == [][ marker /\ ~up /\ up' => table' = table ]_vars

\* A provider that was deleted does not come back: an edit of it that was under way
\* meanwhile does not write it again (as the edit of a camera does).  It is one that
\* brands.json does not list; those it lists come back with an import, as cameras do.
ProviderStaysDeleted ==
    [][ \A i \in ProviderIds : i \in drawn /\ i \notin providers => i \notin providers' ]_vars
===============================================================================
