-------------------------- MODULE TunnelManagerProofs --------------------------
(* Proofs about TunnelManager for every set of cameras, ports and calls: the   *)
(* types, the ownership of the local ports, and that a status which refuses a  *)
(* start always has a task or a call behind it.                                *)
EXTENDS TunnelManager, TLAPS

USE TunnelAssumption

\* The camera of a call and the port of its camera are in range.
LEMMA InRange ==
    ASSUME TypeOK, NEW r \in Requests
    PROVE  Camera(r) \in Cameras /\ Port(r) \in Ports
BY DEF TypeOK, Camera, Port

\* The types hold in every reachable state, whatever calls are made.
THEOREM TypeCorrect == Spec => []TypeOK
<1>1. Init => TypeOK
  BY DEF Init, TypeOK, TunnelStatus, Task, CallState, OuterState, InnerState
<1>2. TypeOK /\ [Next]_vars => TypeOK'
  <2> SUFFICES ASSUME TypeOK, [Next]_vars PROVE TypeOK'
    OBVIOUS
  <2> USE DEF TypeOK, TunnelStatus, Task, CallState, OuterState, InnerState
  <2>1. CASE UNCHANGED vars
    BY <2>1 DEF vars
  <2>2. ASSUME NEW r \in Requests, CheckStatus(r) PROVE TypeOK'
    BY <2>2 DEF CheckStatus
  <2>3. ASSUME NEW r \in Requests, StartSteps(r) PROVE TypeOK'
    <3>1. CASE MarkStarting(r)  BY <3>1, InRange DEF MarkStarting
    <3>2. CASE SpawnOuter(r)    BY <3>2 DEF SpawnOuter
    <3>3. CASE Register(r)      BY <3>3, InRange DEF Register
    <3> QED  BY <2>3, <3>1, <3>2, <3>3 DEF StartSteps
  <2>4. ASSUME NEW r \in Requests, StopTask(r) \/ MarkStopped(r) PROVE TypeOK'
    <3>1. CASE StopTask(r)      BY <3>1, InRange DEF StopTask, Abort
    <3>2. CASE MarkStopped(r)   BY <3>2, InRange DEF MarkStopped
    <3> QED  BY <2>4, <3>1, <3>2
  <2>5. ASSUME NEW r \in Requests, OuterSteps(r) PROVE TypeOK'
    <3>1. CASE SpawnInner(r)    BY <3>1 DEF SpawnInner
    <3>2. CASE Report(r)        BY <3>2, InRange DEF Report
    <3>3. CASE Deregister(r)    BY <3>3, InRange DEF Deregister
    <3> QED  BY <2>5, <3>1, <3>2, <3>3 DEF OuterSteps
  <2>6. ASSUME NEW r \in Requests, OpenSteps(r) \/ Handshake(r) PROVE TypeOK'
    <3>1. CASE OpenFails(r)      BY <3>1 DEF OpenFails
    <3>2. CASE OpenListener(r)   BY <3>2, InRange DEF OpenListener
    <3>3. CASE HandshakeDone(r)  BY <3>3 DEF HandshakeDone
    <3>4. CASE HandshakeFails(r) BY <3>4, InRange DEF HandshakeFails
    <3> QED  BY <2>6, <3>1, <3>2, <3>3, <3>4 DEF OpenSteps, Handshake
  <2>7. ASSUME NEW r \in Requests, MarkRunning(r) PROVE TypeOK'
    BY <2>7, InRange DEF MarkRunning
  <2>8. ASSUME NEW r \in Requests, LoseTunnel(r) PROVE TypeOK'
    BY <2>8, InRange DEF LoseTunnel
  <2> QED
    BY <2>1, <2>2, <2>3, <2>4, <2>5, <2>6, <2>7, <2>8 DEF Next
<1> QED
  BY <1>1, <1>2, PTL DEF Spec

-------------------------------------------------------------------------------
(* The facts StatusIsBacked and OneListenerPerPort rest on. *)

\* A call that has not spawned its task has no task, a task that was not polled
\* has no inner task, and an inner task that still runs has not been reported.
Phases ==
    \A r \in Requests :
        /\ pc[r] \in {"new", "checked", "marked"} => outer[r] = "none"
        /\ outer[r] \in {"none", "spawned"} => inner[r] = "none"
        /\ inner[r] \in {"opening", "handshake", "ready", "serving"}
             => outer[r] \in {"awaiting", "aborted"}

\* The handle stored for a camera belongs to a task of that camera.
HandlesOwnCamera ==
    \A c \in Cameras : handles[c] \in Requests => Camera(handles[c]) = c

\* An inner task past its bind is the one its port's listener belongs to.
ListenerHeld == \A r \in Requests : Bound(r) => listener[Port(r)] = r

Support == TypeOK /\ Phases /\ HandlesOwnCamera /\ ListenerHeld

\* Before any call nothing is spawned, stored or bound.
LEMMA SupportInit == Init => Phases /\ HandlesOwnCamera /\ ListenerHeld
  BY DEF Init, Phases, HandlesOwnCamera, ListenerHeld, Bound

\* No step lets a task run ahead of the call or the task that spawns it, and none
\* reports an inner task that still runs.
LEMMA PhasesStep == TypeOK /\ Phases /\ [Next]_vars => Phases'
<1> SUFFICES ASSUME TypeOK, Phases, [Next]_vars PROVE Phases'
  OBVIOUS
<1> USE DEF TypeOK, Phases, CallState, OuterState, InnerState
<1>1. CASE UNCHANGED vars
  BY <1>1 DEF vars
<1>2. ASSUME NEW r \in Requests, CheckStatus(r) \/ StartSteps(r) PROVE Phases'
  BY <1>2 DEF CheckStatus, StartSteps, MarkStarting, SpawnOuter, Register
<1>3. ASSUME NEW r \in Requests, StopTask(r) \/ MarkStopped(r) PROVE Phases'
  BY <1>3 DEF StopTask, MarkStopped, Abort
<1>4. ASSUME NEW r \in Requests, OuterSteps(r) PROVE Phases'
  BY <1>4 DEF OuterSteps, SpawnInner, Report, Deregister
<1>5. ASSUME NEW r \in Requests,
             OpenSteps(r) \/ Handshake(r) \/ MarkRunning(r) \/ LoseTunnel(r)
      PROVE  Phases'
  BY <1>5 DEF OpenSteps, Handshake, OpenFails, OpenListener, HandshakeDone,
              HandshakeFails, MarkRunning, LoseTunnel
<1> QED
  BY <1>1, <1>2, <1>3, <1>4, <1>5 DEF Next

\* Only Register stores a handle, its own; requests never change.
LEMMA HandlesStep == TypeOK /\ HandlesOwnCamera /\ [Next]_vars => HandlesOwnCamera'
<1> SUFFICES ASSUME TypeOK, HandlesOwnCamera, [Next]_vars PROVE HandlesOwnCamera'
  OBVIOUS
<1> USE DEF TypeOK, HandlesOwnCamera, Camera, Task
<1>1. request' = request
  BY DEF Next, vars, CheckStatus, StartSteps, MarkStarting, SpawnOuter, Register,
         StopTask, MarkStopped, OuterSteps, SpawnInner, Report, Deregister,
         OpenSteps, Handshake, OpenFails, OpenListener, HandshakeDone,
         HandshakeFails, MarkRunning, LoseTunnel
<1>2. CASE handles' = handles
  BY <1>1, <1>2
<1>3. ASSUME NEW r \in Requests, Register(r) PROVE HandlesOwnCamera'
  BY <1>1, <1>3 DEF Register
<1>4. ASSUME NEW r \in Requests, StopTask(r) \/ Deregister(r) PROVE HandlesOwnCamera'
  BY <1>1, <1>4 DEF StopTask, Deregister
<1> QED
  BY <1>2, <1>3, <1>4
  DEF Next, vars, CheckStatus, StartSteps, MarkStarting, SpawnOuter,
      MarkStopped, OuterSteps, SpawnInner, Report,
      OpenSteps, Handshake, OpenFails, OpenListener, HandshakeDone,
      HandshakeFails, MarkRunning, LoseTunnel

\* A port is bound only when free and freed only by the task that bound it.
LEMMA ListenerStep == TypeOK /\ ListenerHeld /\ [Next]_vars => ListenerHeld'
<1> SUFFICES ASSUME TypeOK, ListenerHeld, [Next]_vars PROVE ListenerHeld'
  OBVIOUS
<1> USE DEF TypeOK, ListenerHeld, Bound, Port, Camera, InnerState
<1>1. CASE UNCHANGED vars
  BY <1>1 DEF vars
<1>2. ASSUME NEW r \in Requests,
             CheckStatus(r) \/ StartSteps(r) \/ StopTask(r) \/ MarkStopped(r)
      PROVE  ListenerHeld'
  BY <1>2 DEF CheckStatus, StartSteps, MarkStarting, SpawnOuter, Register,
              StopTask, MarkStopped
<1>3. ASSUME NEW r \in Requests, OuterSteps(r) \/ OpenFails(r) PROVE ListenerHeld'
  BY <1>3 DEF OuterSteps, SpawnInner, Report, Deregister, OpenFails
<1>4. ASSUME NEW r \in Requests, OpenListener(r) PROVE ListenerHeld'
  BY <1>4 DEF OpenListener
<1>5. ASSUME NEW r \in Requests, HandshakeDone(r) \/ MarkRunning(r) PROVE ListenerHeld'
  BY <1>5 DEF HandshakeDone, MarkRunning
<1>6. ASSUME NEW r \in Requests, HandshakeFails(r) \/ LoseTunnel(r) PROVE ListenerHeld'
  BY <1>6 DEF HandshakeFails, LoseTunnel
<1> QED
  BY <1>1, <1>2, <1>3, <1>4, <1>5, <1>6 DEF Next, OpenSteps, Handshake

\* The supporting facts hold in every reachable state.
LEMMA SupportInvariant == Spec => []Support
<1>1. Init => Phases /\ HandlesOwnCamera /\ ListenerHeld
  BY SupportInit
<1>2. /\ Phases /\ HandlesOwnCamera /\ ListenerHeld
      /\ TypeOK /\ [Next]_vars
      => (Phases /\ HandlesOwnCamera /\ ListenerHeld)'
  BY PhasesStep, HandlesStep, ListenerStep
<1> QED
  BY <1>1, <1>2, TypeCorrect, PTL DEF Spec, Support

\* For every configuration: a local port has at most one tunnel behind it.
THEOREM OneListener == Spec => []OneListenerPerPort
<1>1. ListenerHeld => OneListenerPerPort
  BY DEF ListenerHeld, OneListenerPerPort
<1> QED
  BY <1>1, SupportInvariant, PTL DEF Support

-------------------------------------------------------------------------------
\* Every step keeps a task or a call behind a Running or Starting status: the one
\* that was behind it, or the one that writes the new status.
LEMMA BackedStep == Support /\ StatusIsBacked /\ [Next]_vars => StatusIsBacked'
<1> SUFFICES ASSUME Support, StatusIsBacked, [Next]_vars PROVE StatusIsBacked'
  OBVIOUS
<1> USE DEF Support, TypeOK
<1> DEFINE Kept(q) == /\ BacksRunning(q) => BacksRunning(q)'
                      /\ BacksStarting(q) => BacksStarting(q)'
<1>1. ASSUME request' = request, status' = status, \A q \in Requests : Kept(q)
      PROVE  StatusIsBacked'
  BY <1>1 DEF StatusIsBacked, Camera
\* A step of call or task r that writes the status of its camera.
<1>2. ASSUME NEW r \in Requests, NEW s \in TunnelStatus,
             request' = request, status' = [status EXCEPT ![Camera(r)] = s],
             \A q \in Requests : Camera(q) # Camera(r) => Kept(q),
             s = "Running" => BacksRunning(r)',
             s = "Starting" => BacksStarting(r)'
      PROVE  StatusIsBacked'
  <2> SUFFICES ASSUME NEW c \in Cameras
               PROVE  /\ status'[c] = "Running"
                           => \E q \in Requests : Camera(q)' = c /\ BacksRunning(q)'
                      /\ status'[c] = "Starting"
                           => \E q \in Requests : Camera(q)' = c /\ BacksStarting(q)'
    BY DEF StatusIsBacked
  <2>1. CASE c = Camera(r)
    BY <1>2, <2>1 DEF Camera
  <2>2. CASE c # Camera(r)
    BY <1>2, <2>2 DEF Camera, StatusIsBacked
  <2> QED
    BY <2>1, <2>2
<1> USE DEF Phases, BacksRunning, BacksStarting
<1>3. CASE UNCHANGED vars
  BY <1>1, <1>3 DEF vars
<1>4. ASSUME NEW r \in Requests, CheckStatus(r) PROVE StatusIsBacked'
  BY <1>1, <1>4 DEF CheckStatus
<1>5. ASSUME NEW r \in Requests, MarkStarting(r) PROVE StatusIsBacked'
  BY <1>2, <1>5 DEF MarkStarting, TunnelStatus
<1>6. ASSUME NEW r \in Requests, SpawnOuter(r) \/ Register(r) PROVE StatusIsBacked'
  BY <1>1, <1>6 DEF SpawnOuter, Register
\* The aborted task no longer backs Starting, but the stop does: both are of the
\* camera whose handle was taken.
<1>7. ASSUME NEW r \in Requests, StopTask(r) PROVE StatusIsBacked'
  <2>1. /\ request' = request /\ status' = status
        /\ \A q \in Requests : BacksRunning(q) => BacksRunning(q)'
    BY <1>7 DEF StopTask, Abort
  <2>2. \A q \in Requests : Camera(q) # Camera(r) => Kept(q)
    BY <1>7 DEF StopTask, Abort, HandlesOwnCamera, Task, Camera
  <2>3. BacksStarting(r)'
    BY <1>7 DEF StopTask
  <2> QED
    BY <2>1, <2>2, <2>3 DEF StatusIsBacked, Camera
<1>8. ASSUME NEW r \in Requests, MarkStopped(r) PROVE StatusIsBacked'
  BY <1>2, <1>8 DEF MarkStopped, TunnelStatus
<1>9. ASSUME NEW r \in Requests, SpawnInner(r) PROVE StatusIsBacked'
  BY <1>1, <1>9 DEF SpawnInner
<1>10. ASSUME NEW r \in Requests, Report(r) PROVE StatusIsBacked'
  BY <1>2, <1>10 DEF Report, TunnelStatus
<1>11. ASSUME NEW r \in Requests, Deregister(r) PROVE StatusIsBacked'
  BY <1>1, <1>11 DEF Deregister
<1>12. ASSUME NEW r \in Requests, OpenSteps(r) \/ Handshake(r) PROVE StatusIsBacked'
  BY <1>1, <1>12 DEF OpenSteps, Handshake, OpenFails, OpenListener, HandshakeDone,
                     HandshakeFails
<1>13. ASSUME NEW r \in Requests, MarkRunning(r) PROVE StatusIsBacked'
  BY <1>2, <1>13 DEF MarkRunning, TunnelStatus
<1>14. ASSUME NEW r \in Requests, LoseTunnel(r) PROVE StatusIsBacked'
  BY <1>1, <1>14 DEF LoseTunnel
<1> QED
  BY <1>3, <1>4, <1>5, <1>6, <1>7, <1>8, <1>9, <1>10, <1>11, <1>12, <1>13, <1>14
  DEF Next, StartSteps, OuterSteps

\* For every set of cameras, ports and calls: a status that refuses a start has an
\* unreported task, a start on its way or a stop behind it.
THEOREM StatusBacked == Spec => []StatusIsBacked
<1>1. Init => StatusIsBacked
  BY DEF Init, StatusIsBacked
<1> QED
  BY <1>1, BackedStep, SupportInvariant, PTL DEF Spec

-------------------------------------------------------------------------------
\* Only a stop ends the task of a tunnel from outside, and only a task of the camera
\* that it stops: although any task of a camera takes away the handle of another,
\* and a handle is stored after its task may have ended, no entry of the handle map
\* ever leads a stop to another camera's tunnel.
StopsOwnCamera ==
    [][\A t \in Requests : outer[t] # "aborted" /\ outer'[t] = "aborted" =>
         \E r \in Requests : /\ request[r].op = "stop" /\ Camera(r) = Camera(t)
                             /\ pc[r] = "new" /\ pc'[r] = "stopping"]_vars

\* Whatever calls and tasks interleave, a stop aborts a task of its own camera.
THEOREM OwnCameraStopped == Spec => StopsOwnCamera
<1> DEFINE Own == \A t \in Requests : outer[t] # "aborted" /\ outer'[t] = "aborted" =>
                    \E r \in Requests : /\ request[r].op = "stop" /\ Camera(r) = Camera(t)
                                        /\ pc[r] = "new" /\ pc'[r] = "stopping"
<1>1. Support /\ [Next]_vars => [Own]_vars
  <2> SUFFICES ASSUME Support, Next, NEW t \in Requests,
                      outer[t] # "aborted", outer'[t] = "aborted"
               PROVE  \E r \in Requests : /\ request[r].op = "stop" /\ Camera(r) = Camera(t)
                                          /\ pc[r] = "new" /\ pc'[r] = "stopping"
    OBVIOUS
  <2> USE DEF Support, TypeOK
  <2>1. PICK r \in Requests : StopTask(r)
    BY DEF Next, CheckStatus, StartSteps, MarkStarting, SpawnOuter, Register, MarkStopped,
           OuterSteps, SpawnInner, Report, Deregister, OpenSteps, Handshake, OpenFails,
           OpenListener, HandshakeDone, HandshakeFails, MarkRunning, LoseTunnel
  <2>2. handles[Camera(r)] = t
    BY <2>1 DEF StopTask, Abort
  <2>3. Camera(r) = Camera(t)
    BY <2>2, InRange DEF HandlesOwnCamera
  <2>4. request[r].op = "stop" /\ pc[r] = "new" /\ pc'[r] = "stopping"
    BY <2>1 DEF StopTask
  <2> QED
    BY <2>3, <2>4
<1> QED
  BY <1>1, SupportInvariant, PTL DEF Spec, StopsOwnCamera
===============================================================================
