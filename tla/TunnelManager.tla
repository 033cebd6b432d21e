----------------------------- MODULE TunnelManager -----------------------------
(* TunnelManager of src/tunnel.rs: the status and handle maps that the HTTP    *)
(* handlers, the auto-start loop and the tunnel tasks share.                   *)
(*                                                                             *)
(* A request is one call of start_with_brand or stop.  Both take the locks of  *)
(* the two maps one after the other, so a call is several steps.  A start      *)
(* spawns an outer task (it awaits the tunnel and reports its end) which       *)
(* spawns an inner one (run_tunnel); both are named by their request.          *)
(*                                                                             *)
(* Left out: the text of an error (every failure of run_tunnel, a panic        *)
(* included, is the status "Error") and the Ok result of run_tunnel, whose     *)
(* accept loop only ends with an error.  What happens inside the handshake and *)
(* behind the accept loop belongs to other modules.                            *)
EXTENDS Naturals, FiniteSets

CONSTANTS
    Cameras,    \* camera ids
    Ports,      \* local TCP ports
    PortOf,     \* local_port of each camera
    Requests,   \* calls of start_with_brand and stop; bounds the run
    NoTask      \* an empty slot of the handle map, a port nobody listens on

ASSUME TunnelAssumption ==
    /\ PortOf \in [Cameras -> Ports]
    /\ NoTask \notin Requests

VARIABLES
    status,     \* status map; a missing entry reads as "Stopped"
    handles,    \* handle map: the task whose AbortHandle is stored
    request,    \* what each call asks for; chosen once
    pc,         \* how far each call is
    outer,      \* the task that awaits and reports
    inner,      \* the task that runs run_tunnel
    listener    \* which inner task is bound to a port

vars == <<status, handles, request, pc, outer, inner, listener>>

TunnelStatus == {"Stopped", "Starting", "Running", "Error"}
CallState    == {"new", "checked", "marked", "spawned", "stopping", "returned"}
OuterState   == {"none", "spawned", "awaiting", "aborted", "reported", "done"}
InnerState   == {"none", "opening", "handshake", "ready", "serving",
                 "failed", "lost"}

Camera(r) == request[r].camera
Port(r)   == PortOf[Camera(r)]
Task      == Requests \cup {NoTask}

Init ==
    /\ status = [c \in Cameras |-> "Stopped"]
    /\ handles = [c \in Cameras |-> NoTask]
    /\ request \in [Requests -> [op : {"start", "stop"}, camera : Cameras]]
    /\ pc = [r \in Requests |-> "new"]
    /\ outer = [r \in Requests |-> "none"]
    /\ inner = [r \in Requests |-> "none"]
    /\ listener = [p \in Ports |-> NoTask]

-------------------------------------------------------------------------------
(* start_with_brand *)

\* The status is read under one lock acquisition ...
CheckStatus(r) ==
    /\ pc[r] = "new" /\ request[r].op = "start"
    /\ pc' = [pc EXCEPT ![r] =
                IF status[Camera(r)] \in {"Running", "Starting"}
                THEN "returned" ELSE "checked"]
    /\ UNCHANGED <<status, handles, request, outer, inner, listener>>

\* ... and overwritten under another.
MarkStarting(r) ==
    /\ pc[r] = "checked"
    /\ pc' = [pc EXCEPT ![r] = "marked"]
    /\ status' = [status EXCEPT ![Camera(r)] = "Starting"]
    /\ UNCHANGED <<handles, request, outer, inner, listener>>

SpawnOuter(r) ==
    /\ pc[r] = "marked"
    /\ pc' = [pc EXCEPT ![r] = "spawned"]
    /\ outer' = [outer EXCEPT ![r] = "spawned"]
    /\ UNCHANGED <<status, handles, request, inner, listener>>

\* The task may already have ended: its handle is stored all the same.
Register(r) ==
    /\ pc[r] = "spawned"
    /\ pc' = [pc EXCEPT ![r] = "returned"]
    /\ handles' = [handles EXCEPT ![Camera(r)] = r]
    /\ UNCHANGED <<status, request, outer, inner, listener>>

-------------------------------------------------------------------------------
(* stop *)

\* Mutant: an aborted task is put in a state of its own, unknown to the others.
AbortUnknown(t) ==
    outer' = IF t \in Requests /\ outer[t] \in {"spawned", "awaiting"}
             THEN [outer EXCEPT ![t] = "cancelled"] ELSE outer

\* abort() ends a task at its next await point: before its first poll, or while
\* it awaits the inner task.  Dropping the JoinHandle detaches the inner task.
Abort(t) ==
    outer' = IF t \in Requests /\ outer[t] \in {"spawned", "awaiting"}
             THEN [outer EXCEPT ![t] = "aborted"] ELSE outer

\* Mutant: stop returns once it has aborted the task and leaves the status to it.
StopWithoutStatus(r) ==
    /\ pc[r] = "new" /\ request[r].op = "stop"
    /\ pc' = [pc EXCEPT ![r] = "returned"]
    /\ handles' = [handles EXCEPT ![Camera(r)] = NoTask]
    /\ Abort(handles[Camera(r)])
    /\ UNCHANGED <<status, request, inner, listener>>

StopTask(r) ==
    /\ pc[r] = "new" /\ request[r].op = "stop"
    /\ pc' = [pc EXCEPT ![r] = "stopping"]
    /\ handles' = [handles EXCEPT ![Camera(r)] = NoTask]
    /\ Abort(handles[Camera(r)])
    /\ UNCHANGED <<status, request, inner, listener>>

MarkStopped(r) ==
    /\ pc[r] = "stopping"
    /\ pc' = [pc EXCEPT ![r] = "returned"]
    /\ status' = [status EXCEPT ![Camera(r)] = "Stopped"]
    /\ UNCHANGED <<handles, request, outer, inner, listener>>

-------------------------------------------------------------------------------
(* The outer task *)

SpawnInner(r) ==
    /\ outer[r] = "spawned"
    /\ outer' = [outer EXCEPT ![r] = "awaiting"]
    /\ inner' = [inner EXCEPT ![r] = "opening"]
    /\ UNCHANGED <<status, handles, request, pc, listener>>

\* Mutant: the end of a tunnel is reported only when it was announced as Running.
ReportRunningOnly(r) ==
    /\ outer[r] = "awaiting" /\ inner[r] \in {"failed", "lost"}
    /\ outer' = [outer EXCEPT ![r] = "reported"]
    /\ status' = IF status[Camera(r)] = "Running"
                 THEN [status EXCEPT ![Camera(r)] = "Error"] ELSE status
    /\ UNCHANGED <<handles, request, pc, inner, listener>>

\* Mutant: a task whose handle is not in the map believes it was stopped.
ReportRegisteredOnly(r) ==
    /\ outer[r] = "awaiting" /\ inner[r] \in {"failed", "lost"}
    /\ outer' = [outer EXCEPT ![r] = "reported"]
    /\ status' = IF handles[Camera(r)] = r
                 THEN [status EXCEPT ![Camera(r)] = "Error"] ELSE status
    /\ UNCHANGED <<handles, request, pc, inner, listener>>

\* The poll that sees the inner task's end writes the status and then removes
\* the handle of the camera, whoever registered it; no await lies between.
Report(r) ==
    /\ outer[r] = "awaiting" /\ inner[r] \in {"failed", "lost"}
    /\ outer' = [outer EXCEPT ![r] = "reported"]
    /\ status' = [status EXCEPT ![Camera(r)] = "Error"]
    /\ UNCHANGED <<handles, request, pc, inner, listener>>

Deregister(r) ==
    /\ outer[r] = "reported"
    /\ outer' = [outer EXCEPT ![r] = "done"]
    /\ handles' = [handles EXCEPT ![Camera(r)] = NoTask]
    /\ UNCHANGED <<status, request, pc, inner, listener>>

-------------------------------------------------------------------------------
(* The inner task: run_tunnel *)

\* The provider is unknown or the port is busy.
OpenFails(r) ==
    /\ inner[r] = "opening"
    /\ inner' = [inner EXCEPT ![r] = "failed"]
    /\ UNCHANGED <<status, handles, request, pc, outer, listener>>

\* Mutant: the listener is opened on a port that is in use (SO_REUSEPORT).
OpenShared(r) ==
    /\ inner[r] = "opening"
    /\ inner' = [inner EXCEPT ![r] = "handshake"]
    /\ listener' = [listener EXCEPT ![Port(r)] = r]
    /\ UNCHANGED <<status, handles, request, pc, outer>>

OpenListener(r) ==
    /\ inner[r] = "opening" /\ listener[Port(r)] = NoTask
    /\ inner' = [inner EXCEPT ![r] = "handshake"]
    /\ listener' = [listener EXCEPT ![Port(r)] = r]
    /\ UNCHANGED <<status, handles, request, pc, outer>>

HandshakeDone(r) ==
    /\ inner[r] = "handshake"
    /\ inner' = [inner EXCEPT ![r] = "ready"]
    /\ UNCHANGED <<status, handles, request, pc, outer, listener>>

\* No UDP socket, or the handshake failed.  Leaving run_tunnel drops the listener.
HandshakeFails(r) ==
    /\ inner[r] = "handshake"
    /\ inner' = [inner EXCEPT ![r] = "failed"]
    /\ listener' = [listener EXCEPT ![Port(r)] = NoTask]
    /\ UNCHANGED <<status, handles, request, pc, outer>>

\* Written whatever the status has become during the handshake.
MarkRunning(r) ==
    /\ inner[r] = "ready"
    /\ inner' = [inner EXCEPT ![r] = "serving"]
    /\ status' = [status EXCEPT ![Camera(r)] = "Running"]
    /\ UNCHANGED <<handles, request, pc, outer, listener>>

\* accept fails, or a client arrives and the relay's writer is gone.
LoseTunnel(r) ==
    /\ inner[r] = "serving"
    /\ inner' = [inner EXCEPT ![r] = "lost"]
    /\ listener' = [listener EXCEPT ![Port(r)] = NoTask]
    /\ UNCHANGED <<status, handles, request, pc, outer>>

-------------------------------------------------------------------------------
StartSteps(r) == MarkStarting(r) \/ SpawnOuter(r) \/ Register(r)
OuterSteps(r) == SpawnInner(r) \/ Report(r) \/ Deregister(r)
OpenSteps(r)  == OpenFails(r) \/ OpenListener(r)
Handshake(r)  == HandshakeDone(r) \/ HandshakeFails(r)

Next ==
    \E r \in Requests :
        \/ CheckStatus(r) \/ StartSteps(r)
        \/ StopTask(r) \/ MarkStopped(r)
        \/ OuterSteps(r)
        \/ OpenSteps(r) \/ Handshake(r) \/ MarkRunning(r) \/ LoseTunnel(r)

Spec == Init /\ [][Next]_vars

\* A call that was begun runs to its end, the runtime polls every ready task,
\* and every wait of the handshake has a timeout.  Nobody has to call start or
\* stop, and a tunnel may serve for ever.
Fairness ==
    \A r \in Requests :
        /\ WF_vars(StartSteps(r)) /\ WF_vars(MarkStopped(r))
        /\ WF_vars(OuterSteps(r))
        /\ WF_vars(OpenSteps(r)) /\ WF_vars(Handshake(r))
        /\ WF_vars(MarkRunning(r))

FairSpec == Spec /\ Fairness

-------------------------------------------------------------------------------
TypeOK ==
    /\ status \in [Cameras -> TunnelStatus]
    /\ handles \in [Cameras -> Task]
    /\ request \in [Requests -> [op : {"start", "stop"}, camera : Cameras]]
    /\ pc \in [Requests -> CallState]
    /\ outer \in [Requests -> OuterState]
    /\ inner \in [Requests -> InnerState]
    /\ listener \in [Ports -> Task]

Bound(r)     == inner[r] \in {"handshake", "ready", "serving"}
Serving(c)   == \E r \in Requests : Camera(r) = c /\ inner[r] = "serving"

\* A task that announced Running and whose end nobody has reported yet.
BacksRunning(r) ==
    inner[r] \in {"serving", "lost"} /\ outer[r] \in {"awaiting", "aborted"}

\* A start on its way to an outcome, or a stop about to overwrite the status.
BacksStarting(r) ==
    \/ pc[r] \in {"marked", "stopping"}
    \/ outer[r] = "spawned"
    \/ outer[r] = "awaiting" /\ inner[r] \notin {"serving", "lost"}

\* A status that makes start answer "already running" is never left over from a
\* task whose end was reported: in every interleaving of concurrent starts,
\* stops, reports and late handshakes, Running and Starting have a task or a
\* call of that camera behind them.
StatusIsBacked ==
    \A c \in Cameras :
        /\ status[c] = "Running"  => \E r \in Requests : Camera(r) = c /\ BacksRunning(r)
        /\ status[c] = "Starting" => \E r \in Requests : Camera(r) = c /\ BacksStarting(r)

\* However starts race and tunnels outlive their stop, two tunnel tasks never
\* hold the listener of one local port, so a client of the port reaches one
\* camera session.
OneListenerPerPort ==
    \A r, s \in Requests : Bound(r) /\ Bound(s) /\ Port(r) = Port(s) => r = s

\* A camera does not stay in Starting, where it can neither be used nor started
\* again: every start ends as Running, Error or Stopped.
StartingEnds ==
    \A c \in Cameras : status[c] = "Starting" ~> status[c] # "Starting"

NeverStopped(c) ==
    \A r \in Requests : Camera(r) = c => request[r].op = "start"

\* The loss of a tunnel shows: as long as nobody stops the camera, its status
\* does not stay Running when no tunnel task serves it.
LossIsReported ==
    \A c \in Cameras :
        (NeverStopped(c) /\ status[c] = "Running" /\ ~Serving(c))
            ~> (status[c] # "Running" \/ Serving(c))

\* What the documentation says of stop: a tunnel that stop found in the handle map
\* and aborted comes to an end.  The code aborts the task that awaits the tunnel,
\* and the tunnel itself goes on holding its port and its session.
StopEndsTunnel ==
    \A r \in Requests :
        outer[r] = "aborted" ~> inner[r] \in {"none", "failed", "lost"}
===============================================================================
