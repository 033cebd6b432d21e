-------------------------- MODULE MediaGatewayProofs ---------------------------
(* Proofs about MediaGateway for every set of cameras, handlers, ports and     *)
(* processes and every number of failures: the types, that the reconcile loop  *)
(* never loses a recorder, and that ensure leaks no listener.                  *)
EXTENDS MediaGateway, TLAPS

USE GatewayAssumption DEF Pids, Tasks

\* What a task has in its locals at each label.
LocalsOf(t) ==
    /\ t.pc \in {"ensure", "bind", "insert", "spawn"}
           \cup {"check", "keep", "stop_live", "stop_proxy"} => t.camera \in Cameras
    /\ t.pc \in {"insert", "spawn"} => t.port \in Ports
    /\ t.pc = "keep" => t.pid \in LivePids

Locals == \A x \in Tasks : LocalsOf(task[x])

Typed == TypeOK /\ Locals

\* Nothing runs at first.
LEMMA TypedInit == Init => Typed
  BY DEF Init, Idle, Typed, TypeOK, Locals, LocalsOf, TaskState, Labels, Process

\* A task that moves to a record with the right locals leaves the others alone.
LEMMA MoveKeeps ==
    ASSUME Typed, NEW x \in Tasks, NEW t \in TaskState, LocalsOf(t), Move(x, t)
    PROVE  task' \in [Tasks -> TaskState] /\ Locals'
<1>1. task' \in [Tasks -> TaskState]
  BY DEF Typed, TypeOK, Move
<1>2. \A y \in Tasks : task'[y] = IF y = x THEN t ELSE task[y]
  BY DEF Typed, TypeOK, Move
<1>3. ASSUME NEW y \in Tasks PROVE LocalsOf(task'[y])
  BY <1>2 DEF Typed, Locals
<1> QED
  BY <1>1, <1>3 DEF Locals, LocalsOf

\* The record a task goes to when only its label changes.
LEMMA LabelChange ==
    ASSUME Typed, NEW x \in Tasks, NEW label \in Labels
    PROVE  LET t == [task[x] EXCEPT !.pc = label]
           IN  /\ t \in TaskState /\ t.pc = label
               /\ t.camera = task[x].camera
               /\ t.port = task[x].port
               /\ t.pid = task[x].pid
<1>1. task[x] \in TaskState
  BY DEF Typed, TypeOK
<1> QED
  BY <1>1 DEF TaskState

\* Where a task ends up has no locals.
LEMMA EndsTyped ==
    ASSUME NEW x \in Tasks
    PROVE  Finished(x) \in TaskState /\ LocalsOf(Finished(x))
  BY DEF Finished, Idle, TaskState, LocalsOf, Labels

\* A task that starts on a camera.
LEMMA BeginsTyped ==
    ASSUME NEW c \in Cameras, NEW label \in {"ensure", "check", "stop_live"}
    PROVE  LET t == [Idle EXCEPT !.pc = label, !.camera = c]
           IN  t \in TaskState /\ LocalsOf(t)
  BY DEF Idle, TaskState, LocalsOf, Labels

\* Failures stay within their bound.
LEMMA FailCounts == TypeOK /\ Fail => failures' \in 0 .. MaxFailures
  BY DEF TypeOK, Fail

\* Stopping a proxy keeps the types of the registry.
LEMMA StopProxyTyped ==
    ASSUME TypeOK, NEW c, StopProxy(c)
    PROVE  entries' \in [Cameras -> Ports \cup {None}] /\ listening' \subseteq Ports
  BY DEF TypeOK, StopProxy

\* ensure gives its caller a port, and only then lets it spawn.
LEMMA TypedEnsure ==
    ASSUME Typed, NEW x \in Tasks, Ensure(x)
    PROVE  Typed'
<1> DEFINE c == task[x].camera
<1> USE DEF Typed, TypeOK
<1>0. task[x] \in TaskState /\ LocalsOf(task[x])
  BY DEF Locals
<1>1. CASE LookUp(x)
  <2> DEFINE t == IF entries[c] # None
                  THEN [task[x] EXCEPT !.pc = "spawn", !.port = entries[c]]
                  ELSE [task[x] EXCEPT !.pc = "bind"]
  <2>1. c \in Cameras
    BY <1>0, <1>1 DEF LookUp, LocalsOf
  <2>2. t \in TaskState /\ LocalsOf(t)
    BY <1>0, <2>1 DEF TaskState, LocalsOf, Labels
  <2>3. Move(x, t)
    BY <1>1 DEF LookUp
  <2>4. task' \in [Tasks -> TaskState] /\ Locals'
    BY <2>2, <2>3, MoveKeeps
  <2> QED
    BY <1>1, <2>4 DEF LookUp
<1>2. CASE BindPort(x)
  <2>1. PICK p \in FreePorts :
            /\ listening' = listening \cup {p}
            /\ Move(x, [task[x] EXCEPT !.pc = "insert", !.port = p])
    BY <1>2 DEF BindPort
  <2>2. /\ [task[x] EXCEPT !.pc = "insert", !.port = p] \in TaskState
        /\ LocalsOf([task[x] EXCEPT !.pc = "insert", !.port = p])
    BY <1>0, <1>2 DEF BindPort, FreePorts, TaskState, LocalsOf, Labels
  <2>3. task' \in [Tasks -> TaskState] /\ Locals'
    BY <2>1, <2>2, MoveKeeps
  <2> QED
    BY <1>2, <2>1, <2>3 DEF BindPort, FreePorts
<1>3. CASE BindFails(x)
  <2>1. task' \in [Tasks -> TaskState] /\ Locals'
    BY <1>3, EndsTyped, MoveKeeps DEF BindFails, Leave
  <2> QED
    BY <1>3, <2>1, FailCounts DEF BindFails
<1>4. CASE Insert(x)
  <2>1. c \in Cameras /\ task[x].port \in Ports
    BY <1>0, <1>4 DEF Insert, LocalsOf
  <2>2. PICK port \in Ports : Move(x, [task[x] EXCEPT !.pc = "spawn", !.port = port])
    BY <1>0, <1>4, <2>1 DEF Insert, Goto, Move, TaskState
  <2>3. /\ [task[x] EXCEPT !.pc = "spawn", !.port = port] \in TaskState
        /\ LocalsOf([task[x] EXCEPT !.pc = "spawn", !.port = port])
    BY <1>0, <2>1 DEF TaskState, LocalsOf, Labels
  <2>4. task' \in [Tasks -> TaskState] /\ Locals'
    BY <2>2, <2>3, MoveKeeps
  <2> QED
    BY <1>4, <2>1, <2>4 DEF Insert
<1> QED
  BY <1>1, <1>2, <1>3, <1>4 DEF Ensure

\* The handlers keep the types.
LEMMA TypedHandler ==
    ASSUME Typed, NEW x \in Requests, Handler(x)
    PROVE  Typed'
<1> DEFINE c == task[x].camera
           Moved == task' \in [Tasks -> TaskState] /\ Locals'
<1> USE DEF Typed, TypeOK
<1>0. task[x] \in TaskState /\ LocalsOf(task[x]) /\ x \in Tasks
  BY DEF Locals
<1>1. CASE Ensure(x)
  BY <1>0, <1>1, TypedEnsure
<1>2. CASE CheckRunning(x)
  <2>1. CASE Leave(x)
    BY <1>0, <1>2, <2>1, EndsTyped, MoveKeeps DEF CheckRunning, Leave
  <2>2. CASE Goto(x, "ensure")
    <3>1. LocalsOf([task[x] EXCEPT !.pc = "ensure"])
      BY <1>0, <1>2, LabelChange DEF CheckRunning, LocalsOf, Labels
    <3>2. Moved
      BY <1>0, <2>2, <3>1, LabelChange, MoveKeeps DEF Goto, Labels
    <3> QED
      BY <1>2, <3>2 DEF CheckRunning
  <2> QED
    BY <1>2, <2>1, <2>2 DEF CheckRunning
<1>3. CASE SpawnLive(x)
  <2>1. PICK p \in FreePids(LivePids) :
            /\ Spawn(p, c, task[x].port)
            /\ Move(x, [task[x] EXCEPT !.pc = "keep", !.port = None, !.pid = p])
    BY <1>3 DEF SpawnLive
  <2>2. p \in LivePids /\ c \in Cameras /\ task[x].port \in Ports
    BY <1>0, <1>3 DEF SpawnLive, FreePids, LocalsOf
  <2>3. /\ [task[x] EXCEPT !.pc = "keep", !.port = None, !.pid = p] \in TaskState
        /\ LocalsOf([task[x] EXCEPT !.pc = "keep", !.port = None, !.pid = p])
    BY <1>0, <2>2 DEF TaskState, LocalsOf, Labels
  <2>4. Moved
    BY <1>0, <2>1, <2>3, MoveKeeps
  <2>5. child' \in [Pids -> Process \cup {None}]
    BY <2>1, <2>2 DEF Spawn, Process
  <2> QED
    BY <1>3, <2>4, <2>5 DEF SpawnLive
<1>4. CASE SpawnLiveFails(x)
  <2>1. Moved
    BY <1>0, <1>4, EndsTyped, MoveKeeps DEF SpawnLiveFails, Leave
  <2> QED
    BY <1>4, <2>1, FailCounts, StopProxyTyped DEF SpawnLiveFails
<1>5. CASE Keep(x)
  <2>1. Moved
    BY <1>0, <1>5, EndsTyped, MoveKeeps DEF Keep, Leave
  <2> QED
    BY <1>0, <1>5, <2>1 DEF Keep, LocalsOf
<1>6. CASE StopLive(x)
  <2>1. LocalsOf([task[x] EXCEPT !.pc = "stop_proxy"])
    BY <1>0, <1>6, LabelChange DEF StopLive, LocalsOf, Labels
  <2>2. Moved
    BY <1>0, <1>6, <2>1, LabelChange, MoveKeeps DEF StopLive, Goto, Labels
  <2> QED
    BY <1>6, <2>2 DEF StopLive, Kill
<1>7. CASE StopLiveProxy(x)
  <2>1. Moved
    BY <1>0, <1>7, EndsTyped, MoveKeeps DEF StopLiveProxy, Leave
  <2> QED
    BY <1>7, <2>1 DEF StopLiveProxy, StopProxy
<1>8. ASSUME NEW d \in Cameras, Watch(x, d) \/ StopTunnel(x, d) PROVE Typed'
  <2>1. Moved
    BY <1>0, <1>8, BeginsTyped, MoveKeeps DEF Watch, StopTunnel
  <2> QED
    BY <1>8, <2>1 DEF Watch, StopTunnel
<1> QED
  BY <1>1, <1>2, <1>3, <1>4, <1>5, <1>6, <1>7, <1>8 DEF Handler

\* The loop keeps the types.
LEMMA TypedReconcile ==
    ASSUME Typed, Reconcile
    PROVE  Typed'
<1> DEFINE Moved == task' \in [Tasks -> TaskState] /\ Locals'
<1> USE DEF Typed, TypeOK, AtLoop
<1>0. Loop \in Tasks /\ task[Loop] \in TaskState /\ LocalsOf(task[Loop])
  BY DEF Locals
<1>1. CASE Ensure(Loop)
  BY <1>0, <1>1, TypedEnsure
<1>2. ASSUME NEW label \in {"collect", "stop", "record"}, Goto(Loop, label) PROVE Moved
  <2>1. LocalsOf([task[Loop] EXCEPT !.pc = label])
    BY <1>0, LabelChange DEF LocalsOf, Labels
  <2> QED
    BY <1>0, <1>2, <2>1, LabelChange, MoveKeeps DEF Goto, Labels
<1>3. CASE ReapFinished
  BY <1>2, <1>3 DEF ReapFinished
<1>4. CASE CollectInactive \/ StartRound
  BY <1>2, <1>4 DEF CollectInactive, StartRound
<1>5. CASE EndRound
  <2>1. Idle \in TaskState /\ LocalsOf(Idle)
    BY DEF Idle, TaskState, LocalsOf, Labels
  <2>2. Moved
    BY <1>0, <1>5, <2>1, MoveKeeps DEF EndRound
  <2> QED
    BY <1>5, <2>2 DEF EndRound
<1>6. CASE SpawnRecorder
  <2>1. PICK p \in FreePids(RecorderPids) :
            /\ Spawn(p, task[Loop].camera, task[Loop].port)
            /\ recorders' = [recorders EXCEPT ![task[Loop].camera] = p]
    BY <1>6 DEF SpawnRecorder
  <2>2. p \in RecorderPids /\ task[Loop].camera \in Cameras /\ task[Loop].port \in Ports
    BY <1>0, <1>6 DEF SpawnRecorder, FreePids, LocalsOf
  <2>3. child' \in [Pids -> Process \cup {None}]
    BY <2>1, <2>2 DEF Spawn, Process
  <2>4. Moved
    BY <1>0, <1>6, EndsTyped, MoveKeeps DEF SpawnRecorder, Leave
  <2> QED
    BY <1>6, <2>1, <2>2, <2>3, <2>4 DEF SpawnRecorder
<1>7. CASE SpawnRecorderFails
  <2>1. Moved
    BY <1>0, <1>7, EndsTyped, MoveKeeps DEF SpawnRecorderFails, Leave
  <2> QED
    BY <1>7, <2>1, FailCounts, StopProxyTyped DEF SpawnRecorderFails
<1>8. ASSUME NEW c \in Cameras, StopInactive(c) PROVE Typed'
  BY <1>8 DEF StopInactive, Kill, StopProxy, Locals, LocalsOf
<1>9. ASSUME NEW c \in Cameras, NextCamera(c) PROVE Typed'
  <2>1. CASE UNCHANGED task
    BY <1>9, <2>1 DEF NextCamera, Locals, LocalsOf
  <2>2. CASE Move(Loop, [Idle EXCEPT !.pc = "ensure", !.camera = c])
    <3>1. Moved
      BY <1>0, <2>2, BeginsTyped, MoveKeeps
    <3> QED
      BY <1>9, <3>1 DEF NextCamera
  <2> QED
    BY <1>9, <2>1, <2>2 DEF NextCamera
<1> QED
  BY <1>1, <1>3, <1>4, <1>5, <1>6, <1>7, <1>8, <1>9 DEF Reconcile

\* So do tunnels, processes and failures.
LEMMA TypedEnvironment ==
    ASSUME Typed, Environment
    PROVE  Typed'
<1> USE DEF Typed, TypeOK, Locals, LocalsOf
<1>1. ASSUME NEW c \in Cameras, TunnelUp(c) \/ TunnelDown(c) PROVE Typed'
  <2>1. failures' \in 0 .. MaxFailures
    BY <1>1, FailCounts DEF TunnelUp, TunnelDown
  <2>2. tunnel' \in [Cameras -> BOOLEAN]
    BY <1>1 DEF TunnelUp, TunnelDown
  <2> QED
    BY <1>1, <2>1, <2>2 DEF TunnelUp, TunnelDown
<1>2. ASSUME NEW p \in Pids, Connect(p) PROVE Typed'
  BY <1>2 DEF Connect, Runs, Process
<1>3. ASSUME NEW p \in Pids, Refused(p) \/ Exit(p) PROVE Typed'
  BY <1>3 DEF Refused, Exit, Kill, Fail
<1>4. ASSUME NEW port \in Ports, AcceptFails(port) PROVE Typed'
  BY <1>4 DEF AcceptFails, Fail
<1> QED
  BY <1>1, <1>2, <1>3, <1>4 DEF Environment, Attach

\* Every step keeps the types.
LEMMA TypedStep == Typed /\ [Next]_vars => Typed'
<1> SUFFICES ASSUME Typed, [Next]_vars PROVE Typed'
  OBVIOUS
<1>1. CASE UNCHANGED vars
  BY <1>1 DEF vars, Typed, TypeOK, Locals, LocalsOf
<1> QED
  BY <1>1, TypedHandler, TypedReconcile, TypedEnvironment DEF Next

\* The types hold in every reachable state.
THEOREM TypeCorrect == Spec => []TypeOK
<1>1. Typed => TypeOK
  BY DEF Typed
<1> QED
  BY <1>1, TypedInit, TypedStep, PTL DEF Spec
-------------------------------------------------------------------------------
(* The recorders *)

\* From the moment the loop decides to start a recorder until it has stored the
\* process, the camera has none: nobody else writes the map.
LoopClear ==
    task[Loop].pc \in {"ensure", "bind", "insert", "spawn"}
        => recorders[task[Loop].camera] = None

RecorderInv == Typed /\ LoopClear /\ RecorderKept

\* A handler touches neither the loop nor the recorders nor their processes.
LEMMA HandlerApart ==
    ASSUME Typed, NEW x \in Requests, Handler(x)
    PROVE  /\ task'[Loop] = task[Loop]
           /\ recorders' = recorders
           /\ \A p \in RecorderPids : child'[p] = child[p]
<1> USE DEF Typed, TypeOK, Move, Goto, Leave
<1>0. x # Loop /\ x \in Tasks
  OBVIOUS
<1>1. CASE Ensure(x)
  BY <1>0, <1>1 DEF Ensure, LookUp, BindPort, BindFails, Insert
<1>2. CASE CheckRunning(x) \/ Keep(x) \/ StopLiveProxy(x) \/ SpawnLiveFails(x)
  BY <1>0, <1>2 DEF CheckRunning, Keep, StopLiveProxy, SpawnLiveFails
<1>3. CASE SpawnLive(x)
  BY <1>0, <1>3 DEF SpawnLive, FreePids, Spawn
<1>4. CASE StopLive(x)
  <2>1. live[task[x].camera] \notin RecorderPids
    BY <1>0, <1>4 DEF StopLive, Locals, LocalsOf
  <2> QED
    BY <1>0, <1>4, <2>1 DEF StopLive, Kill
<1>5. ASSUME NEW c \in Cameras, Watch(x, c) \/ StopTunnel(x, c)
      PROVE  /\ task'[Loop] = task[Loop]
             /\ recorders' = recorders
             /\ child' = child
  BY <1>0, <1>5 DEF Watch, StopTunnel
<1> QED
  BY <1>1, <1>2, <1>3, <1>4, <1>5 DEF Handler

\* Processes that end, connect or are refused keep their camera.
LEMMA KeptWhenFewer ==
    ASSUME RecorderKept, recorders' = recorders,
           \A p \in RecorderPids : child'[p] # None
               => child[p] # None /\ child'[p].camera = child[p].camera
    PROVE  RecorderKept'
  BY DEF RecorderKept, Runs

\* No step of a handler, of the loop or of the environment loses a recorder.
LEMMA RecorderStep == RecorderInv /\ [Next]_vars => RecorderInv'
<1> SUFFICES ASSUME RecorderInv, [Next]_vars PROVE LoopClear' /\ RecorderKept'
  BY TypedStep DEF RecorderInv
<1> USE DEF RecorderInv, AtLoop, Move, Goto
<1>0. /\ Loop \in Tasks /\ LocalsOf(task[Loop])
      /\ task \in [Tasks -> TaskState] /\ task[Loop] \in TaskState
      /\ recorders \in [Cameras -> RecorderPids \cup {None}]
      /\ child \in [Pids -> Process \cup {None}]
  BY DEF Typed, TypeOK, Locals
<1>1. CASE UNCHANGED vars
  BY <1>1 DEF vars, LoopClear, RecorderKept, Runs
<1>2. ASSUME NEW x \in Requests, Handler(x) PROVE LoopClear' /\ RecorderKept'
  <2>1. /\ task'[Loop] = task[Loop] /\ recorders' = recorders
        /\ \A p \in RecorderPids : child'[p] = child[p]
    BY <1>2, HandlerApart
  <2> QED
    BY <2>1, KeptWhenFewer DEF LoopClear
<1>3. CASE Environment
  <2>1. task' = task /\ recorders' = recorders
    BY <1>3 DEF Environment, Attach, TunnelUp, TunnelDown, Connect, Refused, Exit,
                AcceptFails
  <2>2. ASSUME NEW p \in RecorderPids, child'[p] # None
        PROVE  child[p] # None /\ child'[p].camera = child[p].camera
    <3>1. ASSUME NEW q \in Pids, Connect(q)
          PROVE  child[p] # None /\ child'[p].camera = child[p].camera
      BY <1>0, <2>2, <3>1 DEF Connect, Runs, Process
    <3>2. ASSUME NEW q \in Pids, Refused(q) \/ Exit(q)
          PROVE  child[p] # None /\ child'[p].camera = child[p].camera
      BY <1>0, <2>2, <3>2 DEF Refused, Exit, Kill
    <3>3. CASE UNCHANGED child
      BY <2>2, <3>3
    <3> QED
      BY <1>3, <3>1, <3>2, <3>3 DEF Environment, Attach, TunnelUp, TunnelDown,
                                    AcceptFails
  <2> QED
    BY <2>1, <2>2, KeptWhenFewer DEF LoopClear
<1>4. CASE Reconcile
  <2>1. CASE Ensure(Loop)
    <3>1. recorders' = recorders /\ child' = child
      BY <2>1 DEF Ensure, LookUp, BindPort, BindFails, Insert
    <3>2. \/ /\ task[Loop].pc \in {"ensure", "bind", "insert"}
             /\ task'[Loop].camera = task[Loop].camera
          \/ task'[Loop].pc = "record"
      <4>0. /\ \A port : [task[Loop] EXCEPT !.pc = "spawn", !.port = port].camera
                             = task[Loop].camera
            /\ \A label : [task[Loop] EXCEPT !.pc = label].camera = task[Loop].camera
        BY <1>0 DEF TaskState
      <4>1. CASE LookUp(Loop)
        <5> DEFINE t == IF entries[task[Loop].camera] # None
                        THEN [task[Loop] EXCEPT !.pc = "spawn",
                                                !.port = entries[task[Loop].camera]]
                        ELSE [task[Loop] EXCEPT !.pc = "bind"]
        <5>1. task'[Loop] = t /\ task[Loop].pc = "ensure"
          BY <1>0, <4>1 DEF LookUp
        <5>2. t.camera = task[Loop].camera
          BY <4>0
        <5> QED
          BY <5>1, <5>2
      <4>2. CASE BindPort(Loop)
        <5>1. PICK p : task'[Loop] = [task[Loop] EXCEPT !.pc = "insert", !.port = p]
          BY <1>0, <4>2 DEF BindPort
        <5> QED
          BY <1>0, <4>2, <5>1 DEF BindPort, TaskState
      <4>3. CASE BindFails(Loop)
        BY <1>0, <4>3 DEF BindFails, Leave, Finished, Idle
      <4>4. CASE Insert(Loop)
        <5>1. \/ \E port : task'[Loop] = [task[Loop] EXCEPT !.pc = "spawn", !.port = port]
              \/ task'[Loop] = [task[Loop] EXCEPT !.pc = "spawn"]
          BY <1>0, <4>4 DEF Insert
        <5> QED
          BY <1>0, <4>0, <4>4, <5>1 DEF Insert
      <4> QED
        BY <2>1, <4>1, <4>2, <4>3, <4>4 DEF Ensure
    <3> QED
      BY <3>1, <3>2, KeptWhenFewer DEF LoopClear
  <2>2. CASE ReapFinished
    <3>1. \A c \in Cameras :
              recorders'[c] = IF Runs(recorders[c]) THEN recorders[c] ELSE None
      BY <2>2 DEF ReapFinished
    <3>2. task'[Loop].pc = "collect" /\ child' = child
      BY <1>0, <2>2 DEF ReapFinished, TaskState
    <3>3. ASSUME NEW p \in RecorderPids, Runs(p)' PROVE recorders'[child'[p].camera] = p
      <4>1. Runs(p) /\ recorders[child[p].camera] = p /\ child[p].camera \in Cameras
        BY <1>0, <3>2, <3>3 DEF Runs, RecorderKept, Process
      <4> QED
        BY <3>1, <3>2, <4>1
    <3> QED
      BY <3>2, <3>3 DEF LoopClear, RecorderKept
  <2>3. CASE CollectInactive \/ StartRound \/ EndRound
    <3>1. recorders' = recorders /\ child' = child
      BY <2>3 DEF CollectInactive, StartRound, EndRound
    <3>2. task'[Loop].pc \in {"stop", "record", "idle"}
      BY <1>0, <2>3 DEF CollectInactive, StartRound, EndRound, Idle, TaskState
    <3> QED
      BY <3>1, <3>2, KeptWhenFewer DEF LoopClear
  <2>4. CASE SpawnRecorder
    <3> DEFINE c == task[Loop].camera
    <3>1. PICK r \in FreePids(RecorderPids) :
              Spawn(r, c, task[Loop].port) /\ recorders' = [recorders EXCEPT ![c] = r]
      BY <2>4 DEF SpawnRecorder
    <3>2. task'[Loop].pc = "record"
      BY <1>0, <2>4 DEF SpawnRecorder, Leave, Finished, Idle, TaskState
    <3>3. c \in Cameras /\ recorders[c] = None /\ r \in RecorderPids
      BY <1>0, <2>4 DEF SpawnRecorder, LocalsOf, LoopClear, FreePids
    <3>4. recorders'[c] = r /\ child'[r].camera = c
      BY <1>0, <3>1, <3>3 DEF Spawn
    <3>5. ASSUME NEW p \in RecorderPids, p # r, Runs(p)'
          PROVE  recorders'[child'[p].camera] = p
      <4>1. child'[p] = child[p] /\ Runs(p)
        BY <1>0, <3>1, <3>5 DEF Spawn, Runs
      <4>2. recorders[child[p].camera] = p /\ p # None
        BY <4>1 DEF RecorderKept, Runs
      <4> QED
        BY <1>0, <3>1, <3>3, <4>1, <4>2
    <3> QED
      BY <3>2, <3>4, <3>5 DEF LoopClear, RecorderKept
  <2>5. CASE SpawnRecorderFails
    <3>1. recorders' = recorders /\ child' = child
      BY <2>5 DEF SpawnRecorderFails
    <3>2. task'[Loop].pc = "record"
      BY <1>0, <2>5 DEF SpawnRecorderFails, Leave, Finished, Idle, TaskState
    <3> QED
      BY <3>1, <3>2, KeptWhenFewer DEF LoopClear
  <2>6. ASSUME NEW c \in Cameras, StopInactive(c) PROVE LoopClear' /\ RecorderKept'
    <3>1. task' = task /\ task[Loop].pc = "stop"
      BY <2>6 DEF StopInactive
    <3>2. ASSUME NEW p \in RecorderPids, Runs(p)' PROVE recorders'[child'[p].camera] = p
      <4>1. p # recorders[c] /\ child'[p] = child[p] /\ Runs(p)
        BY <2>6, <3>2 DEF StopInactive, Kill, Runs
      <4>2. recorders[child[p].camera] = p
        BY <4>1 DEF RecorderKept
      <4> QED
        BY <1>0, <2>6, <4>1, <4>2 DEF StopInactive
    <3> QED
      BY <3>1, <3>2 DEF LoopClear, RecorderKept
  <2>7. ASSUME NEW c \in Cameras, NextCamera(c) PROVE LoopClear' /\ RecorderKept'
    <3>1. recorders' = recorders /\ child' = child
      BY <2>7 DEF NextCamera
    <3>2. \/ task' = task
          \/ recorders[c] = None /\ task'[Loop].camera = c
      <4>1. CASE UNCHANGED task
        BY <4>1
      <4>2. CASE /\ recorders[c] = None
                 /\ task' = [task EXCEPT ![Loop] =
                               [Idle EXCEPT !.pc = "ensure", !.camera = c]]
        BY <1>0, <4>2 DEF Idle
      <4> QED
        BY <2>7, <4>1, <4>2 DEF NextCamera
    <3> QED
      BY <3>1, <3>2, KeptWhenFewer DEF LoopClear
  <2> QED
    BY <1>4, <2>1, <2>2, <2>3, <2>4, <2>5, <2>6, <2>7 DEF Reconcile
<1> QED
  BY <1>1, <1>2, <1>3, <1>4 DEF Next

\* A recorder that runs is always the one stop_inactive would find.
THEOREM RecordersKept == Spec => []RecorderKept
<1>1. Init => RecorderInv
  BY TypedInit DEF Init, Idle, RecorderInv, LoopClear, RecorderKept, Runs
<1>2. RecorderInv => RecorderKept
  BY DEF RecorderInv
<1> QED
  BY <1>1, <1>2, RecorderStep, PTL DEF Spec
-------------------------------------------------------------------------------
(* The listeners *)

\* The port has an owner: an entry, or the task that is about to register it.
Owned(port) ==
    \/ \E c \in Cameras : entries[c] = port
    \/ \E x \in Tasks : task[x].pc = "insert" /\ task[x].port = port

\* A step that opens no port, removes no entry and moves no task on from its bind
\* keeps every owner.
LEMMA OwnersStay ==
    ASSUME ListenerOwned, listening' \subseteq listening, entries' = entries,
           \A x \in Tasks : task[x].pc = "insert" => task'[x] = task[x]
    PROVE  ListenerOwned'
  BY DEF ListenerOwned

\* A task that is not at its registration moves.
LEMMA OthersWait ==
    ASSUME Typed, NEW x \in Tasks, NEW t, Move(x, t), task[x].pc # "insert"
    PROVE  \A y \in Tasks : task[y].pc = "insert" => task'[y] = task[y]
  BY DEF Typed, TypeOK, Move

\* The proxy goes together with its listener.
LEMMA StopProxyOwned ==
    ASSUME Typed, ListenerOwned, NEW c \in Cameras, StopProxy(c),
           \A x \in Tasks : task[x].pc = "insert" => task'[x] = task[x]
    PROVE  ListenerOwned'
<1> SUFFICES ASSUME NEW port \in listening' PROVE Owned(port)'
  BY DEF ListenerOwned, Owned
<1>1. port \in listening /\ port # entries[c]
  BY DEF StopProxy
<1>2. CASE \E x \in Tasks : task[x].pc = "insert" /\ task[x].port = port
  BY <1>2 DEF Owned
<1>3. CASE \E d \in Cameras : entries[d] = port
  <2>1. PICK d \in Cameras : entries[d] = port
    BY <1>3
  <2>2. d # c /\ entries'[d] = port
    BY <1>1, <2>1 DEF StopProxy, Typed, TypeOK
  <2> QED
    BY <2>2 DEF Owned
<1> QED
  BY <1>1, <1>2, <1>3 DEF ListenerOwned

\* ensure: a port is opened, registered or closed again, never forgotten.
LEMMA EnsureOwned ==
    ASSUME Typed, ListenerOwned, NEW x \in Tasks, Ensure(x)
    PROVE  ListenerOwned'
<1>0. task \in [Tasks -> TaskState] /\ task[x] \in TaskState
      /\ entries \in [Cameras -> Ports \cup {None}]
  BY DEF Typed, TypeOK
<1>1. CASE LookUp(x)
  BY <1>1, OthersWait, OwnersStay DEF LookUp
<1>2. CASE BindFails(x)
  BY <1>2, OthersWait, OwnersStay DEF BindFails, Leave
<1>3. CASE BindPort(x)
  <2>1. PICK p \in Ports :
            /\ listening' = listening \cup {p}
            /\ Move(x, [task[x] EXCEPT !.pc = "insert", !.port = p])
    BY <1>3 DEF BindPort, FreePorts
  <2>2. task'[x].pc = "insert" /\ task'[x].port = p
    BY <1>0, <2>1 DEF Move, TaskState
  <2>3. \A y \in Tasks : task[y].pc = "insert" => task'[y] = task[y]
    BY <1>3, <2>1, OthersWait DEF BindPort
  <2>4. entries' = entries
    BY <1>3 DEF BindPort
  <2> QED
    BY <2>1, <2>2, <2>3, <2>4 DEF ListenerOwned
<1>4. CASE Insert(x)
  <2> DEFINE c == task[x].camera
  <2>0. c \in Cameras
    BY <1>4 DEF Insert, Typed, Locals, LocalsOf
  <2>1. \A y \in Tasks \ {x} : task'[y] = task[y]
    BY <1>0, <1>4 DEF Insert, Move, Goto
  <2>2. CASE /\ listening' = listening \ {task[x].port}
             /\ entries' = entries
    BY <2>1, <2>2 DEF ListenerOwned
  <2>3. CASE /\ entries[c] = None /\ listening' = listening
             /\ entries' = [entries EXCEPT ![c] = task[x].port]
    <3> SUFFICES ASSUME NEW port \in listening PROVE Owned(port)'
      BY <2>3 DEF ListenerOwned, Owned
    <3>1. port # None
      BY DEF Typed, TypeOK
    <3>2. CASE port = task[x].port
      <4>1. entries'[c] = port
        BY <1>0, <2>0, <2>3, <3>2
      <4> QED
        BY <2>0, <4>1 DEF Owned
    <3>3. CASE \E y \in Tasks : task[y].pc = "insert" /\ task[y].port = port /\ y # x
      BY <2>1, <3>3 DEF Owned
    <3>4. CASE \E d \in Cameras : entries[d] = port
      <4>1. PICK d \in Cameras : entries[d] = port
        BY <3>4
      <4>2. entries'[d] = port
        BY <1>0, <2>3, <3>1, <4>1
      <4> QED
        BY <4>2 DEF Owned
    <3> QED
      BY <3>2, <3>3, <3>4 DEF ListenerOwned
  <2> QED
    BY <1>4, <2>2, <2>3 DEF Insert
<1> QED
  BY <1>1, <1>2, <1>3, <1>4 DEF Ensure

\* No step leaves a listener without an owner.
LEMMA ListenerStep == Typed /\ ListenerOwned /\ [Next]_vars => ListenerOwned'
<1> SUFFICES ASSUME Typed, ListenerOwned, [Next]_vars PROVE ListenerOwned'
  OBVIOUS
<1>1. CASE UNCHANGED vars
  BY <1>1, OwnersStay DEF vars
<1>2. ASSUME NEW x \in Requests, Handler(x) PROVE ListenerOwned'
  <2>0. x \in Tasks
    OBVIOUS
  <2>1. CASE Ensure(x)
    BY <2>0, <2>1, EnsureOwned
  <2>2. CASE CheckRunning(x) \/ Keep(x) \/ StopLive(x) \/ SpawnLive(x)
    <3>1. listening' = listening /\ entries' = entries
      BY <2>2 DEF CheckRunning, Keep, StopLive, SpawnLive
    <3>2. task[x].pc # "insert" /\ \E t : Move(x, t)
      BY <2>2 DEF CheckRunning, Keep, StopLive, SpawnLive, Leave, Goto
    <3> QED
      BY <2>0, <3>1, <3>2, OthersWait, OwnersStay
  <2>3. CASE SpawnLiveFails(x) \/ StopLiveProxy(x)
    <3>1. /\ task[x].pc # "insert" /\ StopProxy(task[x].camera)
          /\ \E t : Move(x, t)
      BY <2>3 DEF SpawnLiveFails, StopLiveProxy, Leave
    <3>2. task[x].camera \in Cameras
      BY <2>0, <2>3 DEF SpawnLiveFails, StopLiveProxy, Typed, Locals, LocalsOf
    <3> QED
      BY <2>0, <3>1, <3>2, OthersWait, StopProxyOwned
  <2>4. ASSUME NEW c \in Cameras, Watch(x, c) \/ StopTunnel(x, c) PROVE ListenerOwned'
    <3>1. task[x].pc # "insert" /\ (\E t : Move(x, t))
          /\ listening' = listening /\ entries' = entries
      BY <2>4 DEF Watch, StopTunnel
    <3> QED
      BY <2>0, <3>1, OthersWait, OwnersStay
  <2> QED
    BY <1>2, <2>1, <2>2, <2>3, <2>4 DEF Handler
<1>3. CASE Reconcile
  <2>0. Loop \in Tasks
    OBVIOUS
  <2>1. CASE Ensure(Loop)
    BY <2>0, <2>1, EnsureOwned
  <2>2. CASE ReapFinished \/ CollectInactive \/ StartRound \/ EndRound \/ SpawnRecorder
    <3>1. listening' = listening /\ entries' = entries
      BY <2>2 DEF ReapFinished, CollectInactive, StartRound, EndRound, SpawnRecorder
    <3>2. task[Loop].pc # "insert" /\ \E t : Move(Loop, t)
      BY <2>2 DEF ReapFinished, CollectInactive, StartRound, EndRound, SpawnRecorder,
                  AtLoop, Leave, Goto
    <3> QED
      BY <2>0, <3>1, <3>2, OthersWait, OwnersStay
  <2>3. CASE SpawnRecorderFails
    <3>1. /\ task[Loop].pc = "spawn" /\ StopProxy(task[Loop].camera)
          /\ \E t : Move(Loop, t)
      BY <2>3 DEF SpawnRecorderFails, AtLoop, Leave
    <3>2. task[Loop].camera \in Cameras
      BY <2>0, <3>1 DEF Typed, Locals, LocalsOf
    <3> QED
      BY <2>0, <3>1, <3>2, OthersWait, StopProxyOwned
  <2>4. ASSUME NEW c \in Cameras, StopInactive(c) PROVE ListenerOwned'
    BY <2>4, StopProxyOwned DEF StopInactive
  <2>5. ASSUME NEW c \in Cameras, NextCamera(c) PROVE ListenerOwned'
    <3>1. \A y \in Tasks : task[y].pc = "insert" => task'[y] = task[y]
      BY <2>0, <2>5, OthersWait DEF NextCamera, AtLoop
    <3> QED
      BY <2>5, <3>1, OwnersStay DEF NextCamera
  <2> QED
    BY <1>3, <2>1, <2>2, <2>3, <2>4, <2>5 DEF Reconcile
<1>4. CASE Environment
  <2>1. task' = task /\ entries' = entries /\ listening' \subseteq listening
    BY <1>4 DEF Environment, Attach, TunnelUp, TunnelDown, Connect, Refused, Exit,
                AcceptFails
  <2> QED
    BY <2>1, OwnersStay
<1> QED
  BY <1>1, <1>2, <1>3, <1>4 DEF Next

\* ensure leaks no listener, whichever tasks it races with.
THEOREM ListenersOwned == Spec => []ListenerOwned
<1>1. Init => ListenerOwned
  BY DEF Init, ListenerOwned
<1> QED
  BY <1>1, TypedInit, TypedStep, ListenerStep, PTL DEF Spec
===============================================================================
