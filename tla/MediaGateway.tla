------------------------------ MODULE MediaGateway -----------------------------
(* The processes that consume a camera: the recorder that the reconcile loop   *)
(* keeps (recordings.rs), the live gateway that a viewer starts (live.rs), and *)
(* the credential proxy both read from (rtsp_proxy.rs).                        *)
(*                                                                             *)
(* A task is one HTTP handler (issue_live_ticket, stop_tunnel) or the loop.    *)
(* start and start_recorder both go through RtspProxyManager::ensure, which    *)
(* looks an entry up, binds, and looks again: three steps, other tasks between.*)
(* Dropping a Child does not end its process, and aborting a listener does not *)
(* end the connections it accepted.                                            *)
(*                                                                             *)
(* Left out: the command lines and the files of ffmpeg; the parts of reconcile *)
(* that index and upload (module Recordings); the bytes of a proxied           *)
(* connection; how a tunnel comes up and goes down (module TunnelManager); the *)
(* switches of config.json, which are taken as on.  A bind gets a port     *)
(* that nobody listens on and no entry names; whether it belonged to another   *)
(* camera before is not tracked.                                               *)
EXTENDS Naturals, FiniteSets

CONSTANTS
    Cameras,        \* configured cameras
    Requests,       \* HTTP handlers that may run at the same time
    Loop,           \* the reconcile task
    Ports,          \* loopback ports the kernel hands out; bounds the proxies
    LivePids,       \* live ffmpeg processes; bounds those alive at once
    RecorderPids,   \* recorder ffmpeg processes, likewise
    MaxFailures,    \* bounds the failures of a run
    None            \* no port, no process, no camera

ASSUME GatewayAssumption ==
    /\ Loop \notin Requests
    /\ LivePids \cap RecorderPids = {}
    /\ None \notin Cameras \cup Ports \cup LivePids \cup RecorderPids
    /\ MaxFailures \in Nat

VARIABLES
    tunnel,     \* is the camera's tunnel Running?
    entries,    \* RtspProxyManager.entries: the port of the camera's proxy
    listening,  \* ports whose accept loop runs
    live,       \* LiveManager.processes
    recorders,  \* RecordingManager.processes
    child,      \* the ffmpeg processes that run
    task,       \* where each handler and the loop are, with their locals
    todo,       \* cameras the loop has yet to visit in this phase
    failures    \* failures so far

vars == <<tunnel, entries, listening, live, recorders, child, task, todo, failures>>

Pids  == LivePids \cup RecorderPids
Tasks == Requests \cup {Loop}

Idle == [pc |-> "idle", camera |-> None, port |-> None, pid |-> None]

Init ==
    /\ tunnel = [c \in Cameras |-> FALSE]
    /\ entries = [c \in Cameras |-> None]
    /\ listening = {}
    /\ live = [c \in Cameras |-> None]
    /\ recorders = [c \in Cameras |-> None]
    /\ child = [p \in Pids |-> None]
    /\ task = [x \in Tasks |-> Idle]
    /\ todo = {}
    /\ failures = 0

-------------------------------------------------------------------------------
Runs(p) == p # None /\ child[p] # None

\* A process id is free again once it has ended and no Child refers to it.
FreePids(S) ==
    {p \in S : /\ child[p] = None
               /\ \A c \in Cameras : p \notin {live[c], recorders[c]}
               /\ \A x \in Tasks : task[x].pid # p}

\* What a bind to port 0 may return.
FreePorts == Ports \ (listening \cup {entries[c] : c \in Cameras})

Move(x, t) == task' = [task EXCEPT ![x] = t]
Goto(x, label) == Move(x, [task[x] EXCEPT !.pc = label])

\* The loop goes on with its next camera, a handler answers.
Finished(x) == IF x = Loop THEN [Idle EXCEPT !.pc = "record"] ELSE Idle
Leave(x) == Move(x, Finished(x))

Fail ==
    /\ failures < MaxFailures
    /\ failures' = failures + 1

\* start_kill is sent and the process is gone.
Kill(S) == child' = [p \in Pids |-> IF p \in S THEN None ELSE child[p]]

\* RtspProxyManager::stop
StopProxy(c) ==
    /\ listening' = listening \ {entries[c]}
    /\ entries' = [entries EXCEPT ![c] = None]

-------------------------------------------------------------------------------
(* RtspProxyManager::ensure, called by a viewer's handler or by the loop *)

\* Mutant: an entry that is missing is used.
LookUpBlind(x) ==
    /\ task[x].pc = "ensure"
    /\ Move(x, [task[x] EXCEPT !.pc = "spawn", !.port = entries[task[x].camera]])
    /\ UNCHANGED <<tunnel, entries, listening, live, recorders, child, todo, failures>>

LookUp(x) ==
    LET c == task[x].camera IN
    /\ task[x].pc = "ensure"
    /\ Move(x, IF entries[c] # None
               THEN [task[x] EXCEPT !.pc = "spawn", !.port = entries[c]]
               ELSE [task[x] EXCEPT !.pc = "bind"])
    /\ UNCHANGED <<tunnel, entries, listening, live, recorders, child, todo, failures>>

\* The accept loop runs from here on, before the registry knows of it.
BindPort(x) ==
    /\ task[x].pc = "bind"
    /\ \E p \in FreePorts :
           /\ listening' = listening \cup {p}
           /\ Move(x, [task[x] EXCEPT !.pc = "insert", !.port = p])
    /\ UNCHANGED <<tunnel, entries, live, recorders, child, todo, failures>>

BindFails(x) ==
    /\ task[x].pc = "bind"
    /\ Fail
    /\ Leave(x)
    /\ UNCHANGED <<tunnel, entries, listening, live, recorders, child, todo>>

\* Mutant: the registry is not looked at again after the bind.
InsertBlind(x) ==
    /\ task[x].pc = "insert"
    /\ entries' = [entries EXCEPT ![task[x].camera] = task[x].port]
    /\ Goto(x, "spawn")
    /\ UNCHANGED <<tunnel, listening, live, recorders, child, todo, failures>>

\* Another task may have registered a proxy meanwhile: use that one.
Insert(x) ==
    LET c == task[x].camera IN
    /\ task[x].pc = "insert"
    /\ \/ /\ entries[c] # None
          /\ listening' = listening \ {task[x].port}
          /\ Move(x, [task[x] EXCEPT !.pc = "spawn", !.port = entries[c]])
          /\ UNCHANGED entries
       \/ /\ entries[c] = None
          /\ entries' = [entries EXCEPT ![c] = task[x].port]
          /\ Goto(x, "spawn")
          /\ UNCHANGED listening
    /\ UNCHANGED <<tunnel, live, recorders, child, todo, failures>>

-------------------------------------------------------------------------------
(* issue_live_ticket and LiveManager::start *)

Watch(x, c) ==
    /\ task[x].pc = "idle"
    /\ tunnel[c]
    /\ Move(x, [Idle EXCEPT !.pc = "check", !.camera = c])
    /\ UNCHANGED <<tunnel, entries, listening, live, recorders, child, todo, failures>>

\* is_running also forgets a process that has ended.
CheckRunning(x) ==
    LET c == task[x].camera IN
    /\ task[x].pc = "check"
    /\ \/ /\ Runs(live[c])
          /\ Leave(x)
          /\ UNCHANGED live
       \/ /\ ~Runs(live[c])
          /\ live' = [live EXCEPT ![c] = None]
          /\ Goto(x, "ensure")
    /\ UNCHANGED <<tunnel, entries, listening, recorders, child, todo, failures>>

Spawn(p, c, port) ==
    child' = [child EXCEPT ![p] = [camera |-> c, port |-> port, connected |-> FALSE]]

SpawnLive(x) ==
    /\ task[x].pc = "spawn" /\ x # Loop
    /\ \E p \in FreePids(LivePids) :
           /\ Spawn(p, task[x].camera, task[x].port)
           /\ Move(x, [task[x] EXCEPT !.pc = "keep", !.port = None, !.pid = p])
    /\ UNCHANGED <<tunnel, entries, listening, live, recorders, todo, failures>>

\* The live directory cannot be made or ffmpeg does not start.
SpawnLiveFails(x) ==
    /\ task[x].pc = "spawn" /\ x # Loop
    /\ Fail
    /\ StopProxy(task[x].camera)
    /\ Leave(x)
    /\ UNCHANGED <<tunnel, live, recorders, child, todo>>

\* insert drops the Child that was there; its process goes on.
Keep(x) ==
    /\ task[x].pc = "keep"
    /\ live' = [live EXCEPT ![task[x].camera] = task[x].pid]
    /\ Leave(x)
    /\ UNCHANGED <<tunnel, entries, listening, recorders, child, todo, failures>>

-------------------------------------------------------------------------------
(* stop_tunnel and delete_v1_camera: TunnelManager::stop, LiveManager::stop *)

StopTunnel(x, c) ==
    /\ task[x].pc = "idle"
    /\ tunnel' = [tunnel EXCEPT ![c] = FALSE]
    /\ Move(x, [Idle EXCEPT !.pc = "stop_live", !.camera = c])
    /\ UNCHANGED <<entries, listening, live, recorders, child, todo, failures>>

StopLive(x) ==
    LET c == task[x].camera IN
    /\ task[x].pc = "stop_live"
    /\ Kill({live[c]})
    /\ live' = [live EXCEPT ![c] = None]
    /\ Goto(x, "stop_proxy")
    /\ UNCHANGED <<tunnel, entries, listening, recorders, todo, failures>>

\* The proxy is also the recorder's.
StopLiveProxy(x) ==
    /\ task[x].pc = "stop_proxy"
    /\ StopProxy(task[x].camera)
    /\ Leave(x)
    /\ UNCHANGED <<tunnel, live, recorders, child, todo, failures>>

-------------------------------------------------------------------------------
(* RecordingManager::reconcile, once per tick of the loop *)

AtLoop(label) == task[Loop].pc = label

\* Mutant: nothing is reaped.
ReapNothing ==
    /\ AtLoop("idle")
    /\ Goto(Loop, "collect")
    /\ UNCHANGED <<tunnel, entries, listening, live, recorders, child, todo, failures>>

ReapFinished ==
    /\ AtLoop("idle")
    /\ recorders' = [c \in Cameras |-> IF Runs(recorders[c]) THEN recorders[c] ELSE None]
    /\ Goto(Loop, "collect")
    /\ UNCHANGED <<tunnel, entries, listening, live, child, todo, failures>>

\* stop_inactive decides on the statuses it has read ...
CollectInactive ==
    /\ AtLoop("collect")
    /\ todo' = {c \in Cameras : recorders[c] # None /\ ~tunnel[c]}
    /\ Goto(Loop, "stop")
    /\ UNCHANGED <<tunnel, entries, listening, live, recorders, child, failures>>

\* ... and stops what it found, whatever the tunnel does meanwhile.
StopInactive(c) ==
    /\ AtLoop("stop") /\ c \in todo
    /\ Kill({recorders[c]})
    /\ recorders' = [recorders EXCEPT ![c] = None]
    /\ StopProxy(c)
    /\ todo' = todo \ {c}
    /\ UNCHANGED <<tunnel, live, task, failures>>

StartRound ==
    /\ AtLoop("stop") /\ todo = {}
    /\ todo' = Cameras
    /\ Goto(Loop, "record")
    /\ UNCHANGED <<tunnel, entries, listening, live, recorders, child, failures>>

\* Mutant: the map of recorders is not looked at.
NextCameraTwice(c) ==
    /\ AtLoop("record") /\ c \in todo
    /\ todo' = todo \ {c}
    /\ IF tunnel[c]
       THEN Move(Loop, [Idle EXCEPT !.pc = "ensure", !.camera = c])
       ELSE UNCHANGED task
    /\ UNCHANGED <<tunnel, entries, listening, live, recorders, child, failures>>

\* Mutant: the status of the tunnel is not looked at.
NextCameraAnyway(c) ==
    /\ AtLoop("record") /\ c \in todo
    /\ todo' = todo \ {c}
    /\ IF recorders[c] = None
       THEN Move(Loop, [Idle EXCEPT !.pc = "ensure", !.camera = c])
       ELSE UNCHANGED task
    /\ UNCHANGED <<tunnel, entries, listening, live, recorders, child, failures>>

\* The status is read when the camera's turn comes, before the awaits of ensure.
NextCamera(c) ==
    /\ AtLoop("record") /\ c \in todo
    /\ todo' = todo \ {c}
    /\ IF tunnel[c] /\ recorders[c] = None
       THEN Move(Loop, [Idle EXCEPT !.pc = "ensure", !.camera = c])
       ELSE UNCHANGED task
    /\ UNCHANGED <<tunnel, entries, listening, live, recorders, child, failures>>

SpawnRecorder ==
    LET t == task[Loop] IN
    /\ AtLoop("spawn")
    /\ \E p \in FreePids(RecorderPids) :
           /\ Spawn(p, t.camera, t.port)
           /\ recorders' = [recorders EXCEPT ![t.camera] = p]
    /\ Leave(Loop)
    /\ UNCHANGED <<tunnel, entries, listening, live, todo, failures>>

SpawnRecorderFails ==
    /\ AtLoop("spawn")
    /\ Fail
    /\ StopProxy(task[Loop].camera)
    /\ Leave(Loop)
    /\ UNCHANGED <<tunnel, live, recorders, child, todo>>

EndRound ==
    /\ AtLoop("record") /\ todo = {}
    /\ Move(Loop, Idle)
    /\ UNCHANGED <<tunnel, entries, listening, live, recorders, child, todo, failures>>

-------------------------------------------------------------------------------
(* The tunnel, the kernel and ffmpeg *)

TunnelUp(c) ==
    /\ ~tunnel[c]
    /\ tunnel' = [tunnel EXCEPT ![c] = TRUE]
    /\ UNCHANGED <<entries, listening, live, recorders, child, task, todo, failures>>

\* The tunnel is lost (module TunnelManager: LoseTunnel, Report), or the legacy
\* delete_camera stops it and leaves the live gateway alone.
TunnelDown(c) ==
    /\ tunnel[c]
    /\ Fail
    /\ tunnel' = [tunnel EXCEPT ![c] = FALSE]
    /\ UNCHANGED <<entries, listening, live, recorders, child, task, todo>>

Connect(p) ==
    /\ Runs(p) /\ ~child[p].connected
    /\ child[p].port \in listening
    /\ child' = [child EXCEPT ![p].connected = TRUE]
    /\ UNCHANGED <<tunnel, entries, listening, live, recorders, task, todo, failures>>

\* ffmpeg gives up at once when nobody listens.
Refused(p) ==
    /\ Runs(p) /\ ~child[p].connected
    /\ child[p].port \notin listening
    /\ Kill({p})
    /\ UNCHANGED <<tunnel, entries, listening, live, recorders, task, todo, failures>>

\* The stream ends with the tunnel; before that, an end is a failure.
Exit(p) ==
    /\ Runs(p)
    /\ IF tunnel[child[p].camera] THEN Fail ELSE UNCHANGED failures
    /\ Kill({p})
    /\ UNCHANGED <<tunnel, entries, listening, live, recorders, task, todo>>

\* accept fails: the accept loop ends, its entry stays.
AcceptFails(port) ==
    /\ port \in listening
    /\ Fail
    /\ listening' = listening \ {port}
    /\ UNCHANGED <<tunnel, entries, live, recorders, child, task, todo>>

-------------------------------------------------------------------------------
Ensure(x) == LookUp(x) \/ BindPort(x) \/ BindFails(x) \/ Insert(x)

Handler(x) ==
    \/ Ensure(x)
    \/ CheckRunning(x) \/ SpawnLive(x) \/ SpawnLiveFails(x) \/ Keep(x)
    \/ StopLive(x) \/ StopLiveProxy(x)
    \/ \E c \in Cameras : Watch(x, c) \/ StopTunnel(x, c)

Reconcile ==
    \/ Ensure(Loop)
    \/ ReapFinished \/ CollectInactive \/ StartRound \/ EndRound
    \/ SpawnRecorder \/ SpawnRecorderFails
    \/ \E c \in Cameras : StopInactive(c) \/ NextCamera(c)

Attach(p) == Connect(p) \/ Refused(p)

Environment ==
    \/ \E c \in Cameras : TunnelUp(c) \/ TunnelDown(c)
    \/ \E p \in Pids : Attach(p) \/ Exit(p)
    \/ \E port \in Ports : AcceptFails(port)

Next == Reconcile \/ Environment \/ \E x \in Requests : Handler(x)

Spec == Init /\ [][Next]_vars

\* The ticks of the loop come and ffmpeg gets an answer to its connect.  A
\* viewer, a tunnel and a failure owe nothing.
Fairness == WF_vars(Reconcile) /\ \A p \in Pids : WF_vars(Attach(p))

FairSpec == Spec /\ Fairness

-------------------------------------------------------------------------------
Labels == {"idle", "ensure", "bind", "insert", "spawn"}
              \cup {"check", "keep", "stop_live", "stop_proxy"}
              \cup {"collect", "stop", "record"}

TaskState == [pc : Labels, camera : Cameras \cup {None},
              port : Ports \cup {None}, pid : LivePids \cup {None}]

Process == [camera : Cameras, port : Ports, connected : BOOLEAN]

\* The values of the variables: both process maps hold processes of their kind.
TypeOK ==
    /\ tunnel \in [Cameras -> BOOLEAN]
    /\ entries \in [Cameras -> Ports \cup {None}]
    /\ listening \subseteq Ports
    /\ live \in [Cameras -> LivePids \cup {None}]
    /\ recorders \in [Cameras -> RecorderPids \cup {None}]
    /\ child \in [Pids -> Process \cup {None}]
    /\ task \in [Tasks -> TaskState]
    /\ todo \subseteq Cameras
    /\ failures \in 0 .. MaxFailures

\* stop_inactive can reach every recorder: a recorder that runs is the one in
\* the map for its camera, through every race with viewers, stops and failures.
RecorderKept ==
    \A p \in RecorderPids : Runs(p) => recorders[child[p].camera] = p

\* RtspProxyManager::ensure leaks no listener: a port that is listened on is the
\* entry of a camera, or the task that bound it is about to register it.
ListenerOwned ==
    \A port \in listening :
        \/ \E c \in Cameras : entries[c] = port
        \/ \E x \in Tasks : task[x].pc = "insert" /\ task[x].port = port

\* A camera whose tunnel stays down is in the end not recorded: the loop finds a
\* recorder that was started after its tunnel went down.
RecorderEnds ==
    \A c \in Cameras :
        <>[]~tunnel[c] => <>[](\A p \in RecorderPids : Runs(p) => child[p].camera # c)

Recording(c) == Runs(recorders[c]) /\ child[recorders[c]].connected

\* The proxy of the camera has lost its accept loop; ensure goes on handing out
\* its port, and only a stop of the camera removes the entry.
ProxyDead(c) == entries[c] # None /\ entries[c] \notin listening

\* A camera whose tunnel stays up is in the end recorded for good, whatever
\* failed and whoever stopped the shared proxy before, unless its proxy is dead.
RecorderComesBack ==
    \A c \in Cameras : <>[]tunnel[c] => <>[](Recording(c) \/ ProxyDead(c))

\* docs/architecture.md, engineering rules: every long-running task accepts
\* cancellation.  So a live ffmpeg that runs must be the one that stop would
\* find, or its handler is about to store it.
LiveKept ==
    \A p \in LivePids : Runs(p) =>
        \/ live[child[p].camera] = p
        \/ \E x \in Requests : task[x].pc = "keep" /\ task[x].pid = p
===============================================================================
