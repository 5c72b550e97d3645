--------------------------- MODULE FlbEngineProofs ---------------------------
(***************************************************************************)
(* Machine-checked proofs about FlbEngine: an inductive invariant of the   *)
(* delivery core and the safety properties that follow from it, for every  *)
(* number of chunks, inputs, outputs and task ids, every configuration of  *)
(* the outputs and every subset of the faults.                             *)
(***************************************************************************)
EXTENDS FlbEngine, FiniteSetTheorems, TLAPS

-----------------------------------------------------------------------------
(* The inductive invariant.                                                *)

\* A chunk is busy exactly while it has a task; the task is in its slot of
\* task_map; the content of a task that has not started is mapped.
TaskInv(c) ==
  /\ chunk[c] = "busy" <=> status[c] # "none"
  /\ status[c] # "none" => tid[c] \in TaskIds /\ task_map[tid[c]] = c
  /\ status[c] = "new" => up[c]

\* Only a running task is flushed or retried, and only through its routes;
\* what is being flushed is mapped; a retry is in one place.
RouteInv(c, o) ==
  /\ status[c] # "running" => flush[c][o] = "idle" /\ attempts[c][o] = 0
  /\ flush[c][o] # "idle" => up[c] /\ route[c][o] # "absent"
  /\ attempts[c][o] > 0 => route[c][o] # "absent"
  /\ flush[c][o] = "run" => route[c][o] = "active"
  /\ request[c][o] > 0 => attempts[c][o] > 0 /\ flush[c][o] = "idle"
  /\ attempts[c][o] > 0 => flush[c][o] # "idle" \/ request[c][o] = 1
  /\ request[c][o] <= 1

\* The pending list of an output names tasks that are queued, each once.
QueueInv(o) ==
  \A i \in 1 .. Len(pending[o]) :
    /\ flush[pending[o][i]][o] = "queued"
    /\ \A j \in 1 .. Len(pending[o]) : pending[o][i] = pending[o][j] => i = j

\* What the engine thread knows where it stands.
Starting == pc = "route" \/ (pc = "one" /\ cont = "route")
Handling == pc = "event" \/ (pc = "one" /\ cont = "event")

CreateInv == pc = "create" => \A c \in seen : chunk[c] = "ready"
StartInv ==
  Starting =>
    /\ cur \in Chunks
    /\ status[cur] = "running"
    /\ up[cur]
    /\ \A o \in rts :
         flush[cur][o] = "idle" /\ attempts[cur][o] = 0 /\ route[cur][o] # "absent"
    /\ ~hits => \A o \in Outputs : flush[cur][o] = "idle" /\ attempts[cur][o] = 0
OneInv == pc = "one" => out \in Outputs /\ pending[out] # <<>>
HandleInv ==
  Handling => cur \in Chunks /\ out \in Outputs /\ flush[cur][out] \in Results

DataInv ==
  /\ UsersExact
  /\ \A c \in Chunks : TaskInv(c)
  /\ \A c \in Chunks, o \in Outputs : RouteInv(c, o)
  /\ \A o \in Outputs : QueueInv(o)
ControlInv == CreateInv /\ StartInv /\ OneInv /\ HandleInv
IInv == TypeOK /\ DataInv /\ ControlInv

USE DEF chunkVars, taskVars, retryVars, queueVars, metricVars, loopVars, ctlVars

-----------------------------------------------------------------------------
(* Frames: what a step does not touch it does not disturb.                 *)

\* The user counts stay exact when no count and no flush changes.
LEMMA UsersFrame ==
  ASSUME UsersExact, UNCHANGED <<users, flush>>
  PROVE  UsersExact'
BY DEF UsersExact, Busy

\* What holds of a task holds after a step that leaves its data alone.
LEMMA TaskFrame ==
  ASSUME \A c \in Chunks : TaskInv(c),
         UNCHANGED <<chunk, status, tid, task_map, up>>
  PROVE  (\A c \in Chunks : TaskInv(c))'
BY DEF TaskInv

\* What holds of a route holds after a step that leaves its data alone.
LEMMA RouteFrame ==
  ASSUME \A c \in Chunks, o \in Outputs : RouteInv(c, o),
         UNCHANGED <<status, up, route, attempts, request, flush>>
  PROVE  (\A c \in Chunks, o \in Outputs : RouteInv(c, o))'
BY DEF RouteInv

\* What holds of a singleplex queue holds after a step that leaves it
\* and the flush stages alone.
LEMMA QueueFrame ==
  ASSUME \A o \in Outputs : QueueInv(o), UNCHANGED <<pending, flush>>
  PROVE  (\A o \in Outputs : QueueInv(o))'
BY DEF QueueInv

\* A step of the engine thread that only moves its control keeps the
\* data part of the invariant.
LEMMA DataFrame ==
  ASSUME DataInv, UNCHANGED <<chunkVars, taskVars, retryVars, flush, pending>>
  PROVE  DataInv'
BY UsersFrame, TaskFrame, RouteFrame, QueueFrame DEF DataInv

-----------------------------------------------------------------------------
(* Steps of the engine thread that only move its control.                  *)

\* The flush tick of an input begins.
LEMMA DispatchBeginStep ==
  ASSUME IInv, NEW i \in Inputs, DispatchBegin(i)
  PROVE  IInv'
<1>1. TypeOK'
  BY DEF IInv, TypeOK, DataTypeOK, MetricTypeOK, ControlTypeOK, DispatchBegin
<1>2. DataInv'
  BY DataFrame DEF IInv, DispatchBegin
<1>3. ControlInv'
  BY DEF DispatchBegin, ControlInv, CreateInv, StartInv, Starting, OneInv, HandleInv, Handling
<1>4. QED BY <1>1, <1>2, <1>3 DEF IInv

\* The chunk loop stops because no task id is free.
LEMMA CreateBreakStep ==
  ASSUME IInv, CreateBreak
  PROVE  IInv'
<1>1. TypeOK'
  BY DEF IInv, TypeOK, DataTypeOK, MetricTypeOK, ControlTypeOK, CreateBreak
<1>2. DataInv'
  BY DataFrame DEF IInv, CreateBreak
<1>3. ControlInv'
  BY DEF IInv, CreateBreak, ControlInv, CreateInv, StartInv, Starting, OneInv, HandleInv, Handling
<1>4. QED BY <1>1, <1>2, <1>3 DEF IInv

\* A chunk that cannot be brought up is passed over.
LEMMA CreateSkipStep ==
  ASSUME IInv, NEW c \in Chunks, CreateSkip(c)
  PROVE  IInv'
<1>1. TypeOK'
  BY DEF IInv, TypeOK, DataTypeOK, MetricTypeOK, ControlTypeOK, CreateSkip
<1>2. DataInv'
  BY DataFrame DEF IInv, CreateSkip
<1>3. ControlInv'
  BY DEF IInv, CreateSkip, ControlInv, CreateInv, StartInv, Starting, OneInv, HandleInv, Handling
<1>4. QED BY <1>1, <1>2, <1>3 DEF IInv

\* tasks_start begins.
LEMMA StartBeginStep ==
  ASSUME IInv, StartBegin
  PROVE  IInv'
<1>1. TypeOK'
  BY DEF IInv, TypeOK, DataTypeOK, MetricTypeOK, ControlTypeOK, StartBegin, Running
<1>2. DataInv'
  BY DataFrame DEF IInv, StartBegin
<1>3. ControlInv'
  BY DEF StartBegin, ControlInv, CreateInv, StartInv, Starting, OneInv, HandleInv, Handling
<1>4. QED BY <1>1, <1>2, <1>3 DEF IInv

\* tasks_start passes a task that runs already.
LEMMA VisitRunningStep ==
  ASSUME IInv, NEW c \in Chunks, VisitRunning(c)
  PROVE  IInv'
<1>1. TypeOK'
  BY DEF IInv, TypeOK, DataTypeOK, MetricTypeOK, ControlTypeOK, VisitRunning
<1>2. DataInv'
  BY DataFrame DEF IInv, VisitRunning
<1>3. ControlInv'
  BY DEF VisitRunning, ControlInv, CreateInv, StartInv, Starting, OneInv, HandleInv, Handling
<1>4. QED BY <1>1, <1>2, <1>3 DEF IInv

\* tasks_start passes over a route of a busy NO_MULTIPLEX output.
LEMMA RouteSkippedStep ==
  ASSUME IInv, NEW o \in Outputs, RouteSkipped(o)
  PROVE  IInv'
<1>1. TypeOK'
  BY DEF IInv, TypeOK, DataTypeOK, MetricTypeOK, ControlTypeOK, RouteSkipped
<1>2. DataInv'
  BY DataFrame DEF IInv, RouteSkipped
<1>3. ControlInv'
  BY DEF IInv, RouteSkipped, ControlInv, CreateInv, StartInv, Starting, OneInv, HandleInv, Handling
<1>4. QED BY <1>1, <1>2, <1>3 DEF IInv

\* The flush tick of an input ends.
LEMMA DispatchEndStep ==
  ASSUME IInv, DispatchEnd
  PROVE  IInv'
<1>1. TypeOK'
  BY DEF IInv, TypeOK, DataTypeOK, MetricTypeOK, ControlTypeOK, DispatchEnd
<1>2. DataInv'
  BY DataFrame DEF IInv, DispatchEnd
<1>3. ControlInv'
  BY DEF DispatchEnd, ControlInv, CreateInv, StartInv, Starting, OneInv, HandleInv, Handling
<1>4. QED BY <1>1, <1>2, <1>3 DEF IInv

\* A step that changes nothing; a retry that is postponed is one.
LEMMA StutterStep ==
  ASSUME IInv, UNCHANGED vars
  PROVE  IInv'
<1>1. TypeOK'
  BY DEF vars, IInv, TypeOK, DataTypeOK, MetricTypeOK, ControlTypeOK
<1>2. DataInv'
  BY DataFrame DEF vars, IInv
<1>3. ControlInv'
  BY DEF vars, IInv, ControlInv, CreateInv, StartInv, Starting, OneInv, HandleInv, Handling
<1>4. QED BY <1>1, <1>2, <1>3 DEF IInv

\* The task an event names is the task that was flushed: the slot of
\* task_map still holds it.
LEMMA TakeEventStep ==
  ASSUME IInv, NEW c \in Chunks, NEW o \in Outputs, TakeEvent(c, o)
  PROVE  IInv'
<1>0. task_map[tid[c]] = c
  BY DEF IInv, DataInv, RouteInv, TaskInv, TakeEvent, Results
<1>1. TypeOK'
  <2>1. DataTypeOK' /\ MetricTypeOK'
    <3>1. in_progress \in [Outputs -> Seq(Chunks)]
      BY DEF IInv, TypeOK, DataTypeOK
    <3>2. in_progress[o] # <<>> => Tail(in_progress[o]) \in Seq(Chunks)
      BY <3>1
    <3>3. in_progress' \in [Outputs -> Seq(Chunks)]
      BY <3>1, <3>2 DEF TakeEvent
    <3>4. QED
      BY <3>3 DEF IInv, TypeOK, DataTypeOK, MetricTypeOK, TakeEvent
  <2>2. ControlTypeOK'
    BY <1>0 DEF IInv, TypeOK, ControlTypeOK, TakeEvent
  <2>3. QED BY <2>1, <2>2 DEF TypeOK
<1>2. DataInv'
  BY DataFrame DEF IInv, TakeEvent
<1>3. ControlInv'
  BY <1>0 DEF TakeEvent, ControlInv, CreateInv, StartInv, Starting, OneInv, HandleInv, Handling
<1>4. QED BY <1>1, <1>2, <1>3 DEF IInv

-----------------------------------------------------------------------------
(* Tasks and chunks that are not in flight.                                *)

\* A chunk is ingested under a name that no task uses.
LEMMA IngestStep ==
  ASSUME IInv, NEW c \in Chunks, Ingest(c)
  PROVE  IInv'
<1>0. PICK u \in BOOLEAN : up' = [up EXCEPT ![c] = u]
  BY DEF Ingest
<1>1. TypeOK'
  <2>1. DataTypeOK'
    BY <1>0, MatchAssumption, InAssumption DEF IInv, TypeOK, DataTypeOK, Ingest
  <2>2. MetricTypeOK'
    BY DEF IInv, TypeOK, MetricTypeOK, Ingest, NoneOf
  <2>3. ControlTypeOK'
    BY DEF IInv, TypeOK, ControlTypeOK, Ingest
  <2>4. QED BY <2>1, <2>2, <2>3 DEF TypeOK
<1>2. status[c] = "none"
  BY DEF IInv, DataInv, TaskInv, Ingest
<1>3. DataInv'
  <2>1. UsersExact'
    BY UsersFrame DEF IInv, DataInv, Ingest
  <2>2. (\A d \in Chunks : TaskInv(d))'
    BY <1>0, <1>2 DEF IInv, TypeOK, DataTypeOK, DataInv, TaskInv, Ingest
  <2>3. (\A d \in Chunks, p \in Outputs : RouteInv(d, p))'
    <3>1. \A d \in Chunks : d # c => up'[d] = up[d]
      BY <1>0 DEF IInv, TypeOK, DataTypeOK
    <3>2. \A p \in Outputs : flush[c][p] = "idle"
      BY <1>2 DEF IInv, DataInv, RouteInv
    <3>3. QED
      BY <3>1, <3>2 DEF IInv, DataInv, RouteInv, Ingest
  <2>4. (\A p \in Outputs : QueueInv(p))'
    BY QueueFrame DEF IInv, DataInv, Ingest
  <2>5. QED BY <2>1, <2>2, <2>3, <2>4 DEF DataInv
<1>4. ControlInv'
  BY DEF Ingest, ControlInv, CreateInv, StartInv, Starting, OneInv, HandleInv, Handling
<1>5. QED BY <1>1, <1>3, <1>4 DEF IInv

\* A task that cannot be allocated leaves its chunk not busy.
LEMMA CreateFailStep ==
  ASSUME IInv, NEW c \in Chunks, CreateFail(c)
  PROVE  IInv'
<1>1. TypeOK'
  BY DEF IInv, TypeOK, DataTypeOK, MetricTypeOK, ControlTypeOK, CreateFail
<1>2. status[c] = "none"
  BY DEF IInv, ControlInv, CreateInv, DataInv, TaskInv, CreateFail
<1>3. DataInv'
  <2>1. UsersExact'
    BY UsersFrame DEF IInv, DataInv, CreateFail
  <2>2. (\A d \in Chunks : TaskInv(d))'
    <3>1. \A d \in Chunks :
            status[d] # "none" => tid[d] \in TaskIds /\ task_map'[tid[d]] = task_map[tid[d]]
      BY SetsAssumption
         DEF IInv, TypeOK, DataTypeOK, DataInv, TaskInv, CreateFail, FreeIds
    <3>2. QED BY <1>2, <3>1 DEF IInv, TypeOK, DataTypeOK, DataInv, TaskInv, CreateFail
  <2>3. (\A d \in Chunks, p \in Outputs : RouteInv(d, p))'
    <3>1. \A d \in Chunks : d # c => up'[d] = up[d]
      BY DEF IInv, TypeOK, DataTypeOK, CreateFail
    <3>2. \A p \in Outputs : flush[c][p] = "idle"
      BY <1>2 DEF IInv, DataInv, RouteInv
    <3>3. QED
      BY <3>1, <3>2 DEF IInv, DataInv, RouteInv, CreateFail
  <2>4. (\A p \in Outputs : QueueInv(p))'
    BY QueueFrame DEF IInv, DataInv, CreateFail
  <2>5. QED BY <2>1, <2>2, <2>3, <2>4 DEF DataInv
<1>4. ControlInv'
  BY DEF IInv, CreateFail, ControlInv, CreateInv, StartInv, Starting, OneInv, HandleInv, Handling
<1>5. QED BY <1>1, <1>3, <1>4 DEF IInv

\* A task without anything in flight has no users.
LEMMA NoUsers ==
  ASSUME UsersExact, NEW c \in Chunks, \A o \in Outputs : flush[c][o] = "idle"
  PROVE  users[c] = 0
<1>1. Busy(c) = {} BY DEF Busy
<1>2. QED BY <1>1, FS_EmptySet DEF UsersExact

\* A new task takes the lowest free id, with idle routes and no users.
LEMMA CreateTaskStep ==
  ASSUME IInv, NEW c \in Chunks, CreateTask(c)
  PROVE  IInv'
<1>1. PICK i \in TaskIds : /\ task_map[i] = None
                           /\ task_map' = [task_map EXCEPT ![i] = c]
                           /\ tid' = [tid EXCEPT ![c] = i]
  BY DEF CreateTask, FreeIds
<1>2. PICK st \in [TaskRoutes(c) -> NewRouteStatus(c)] :
        route' = [route EXCEPT ![c] =
                    [o \in Outputs |-> IF o \in TaskRoutes(c) THEN st[o] ELSE "absent"]]
  BY DEF CreateTask
<1>3. status[c] = "none"
  BY DEF IInv, ControlInv, CreateInv, DataInv, TaskInv, CreateTask
<1>4. \A o \in Outputs : flush[c][o] = "idle" /\ attempts[c][o] = 0
  BY <1>3 DEF IInv, DataInv, RouteInv
<1>5. users' = users
  <2>1. users[c] = 0 BY <1>4, NoUsers DEF IInv, DataInv
  <2>2. QED BY <2>1 DEF IInv, TypeOK, DataTypeOK, CreateTask
<1>6. TypeOK'
  <2>1. route' \in [Chunks -> [Outputs -> RouteStates]]
    <3>1. NewRouteStatus(c) \subseteq RouteStates
      BY DEF NewRouteStatus, RouteStates
    <3>2. [o \in Outputs |-> IF o \in TaskRoutes(c) THEN st[o] ELSE "absent"]
            \in [Outputs -> RouteStates]
      BY <3>1 DEF RouteStates
    <3>3. QED BY <1>2, <3>2 DEF IInv, TypeOK, DataTypeOK
  <2>2. DataTypeOK'
    BY <1>1, <1>5, <2>1 DEF IInv, TypeOK, DataTypeOK, CreateTask
  <2>3. MetricTypeOK' /\ ControlTypeOK'
    BY DEF IInv, TypeOK, MetricTypeOK, ControlTypeOK, CreateTask
  <2>4. QED BY <2>2, <2>3 DEF TypeOK
<1>7. DataInv'
  <2>1. UsersExact'
    BY <1>5, UsersFrame DEF IInv, DataInv, CreateTask
  <2>2. (\A d \in Chunks : TaskInv(d))'
    <3>1. TaskInv(c)'
      BY <1>1 DEF IInv, TypeOK, DataTypeOK, TaskInv, CreateTask
    <3>2. ASSUME NEW d \in Chunks, d # c PROVE TaskInv(d)'
      BY <1>1, <3>2, SetsAssumption DEF IInv, TypeOK, DataTypeOK, DataInv, TaskInv, CreateTask
    <3>3. QED BY <3>1, <3>2
  <2>3. (\A d \in Chunks, p \in Outputs : RouteInv(d, p))'
    <3>1. ASSUME NEW p \in Outputs PROVE RouteInv(c, p)'
      BY <1>4 DEF IInv, TypeOK, DataTypeOK, DataInv, RouteInv, CreateTask
    <3>2. ASSUME NEW d \in Chunks, d # c, NEW p \in Outputs PROVE RouteInv(d, p)'
      <4>1. /\ status'[d] = status[d] /\ up'[d] = up[d] /\ route'[d] = route[d]
            /\ UNCHANGED <<flush, attempts, request>>
        BY <1>2, <3>2 DEF IInv, TypeOK, DataTypeOK, CreateTask
      <4>2. QED BY <4>1 DEF IInv, DataInv, RouteInv
    <3>3. QED BY <3>1, <3>2
  <2>4. (\A p \in Outputs : QueueInv(p))'
    BY QueueFrame DEF IInv, DataInv, CreateTask
  <2>5. QED BY <2>1, <2>2, <2>3, <2>4 DEF DataInv
<1>8. ControlInv'
  BY DEF IInv, TypeOK, DataTypeOK, CreateTask, ControlInv, CreateInv, StartInv, Starting,
         OneInv, HandleInv, Handling
<1>9. QED BY <1>6, <1>7, <1>8 DEF IInv

\* A task without routes goes at once, and its chunk with it.
LEMMA CreateUselessStep ==
  ASSUME IInv, NEW c \in Chunks, CreateUseless(c)
  PROVE  IInv'
<1>1. TypeOK'
  BY DEF IInv, TypeOK, DataTypeOK, MetricTypeOK, ControlTypeOK, CreateUseless
<1>2. status[c] = "none"
  BY DEF IInv, ControlInv, CreateInv, DataInv, TaskInv, CreateUseless
<1>3. DataInv'
  <2>1. UsersExact'
    BY UsersFrame DEF IInv, DataInv, CreateUseless
  <2>2. (\A d \in Chunks : TaskInv(d))'
    BY <1>2 DEF IInv, TypeOK, DataTypeOK, DataInv, TaskInv, CreateUseless
  <2>3. (\A d \in Chunks, p \in Outputs : RouteInv(d, p))'
    <3>1. \A d \in Chunks : d # c => up'[d] = up[d]
      BY DEF IInv, TypeOK, DataTypeOK, CreateUseless
    <3>2. \A p \in Outputs : flush[c][p] = "idle"
      BY <1>2 DEF IInv, DataInv, RouteInv
    <3>3. QED
      BY <3>1, <3>2 DEF IInv, DataInv, RouteInv, CreateUseless
  <2>4. (\A p \in Outputs : QueueInv(p))'
    BY QueueFrame DEF IInv, DataInv, CreateUseless
  <2>5. QED BY <2>1, <2>2, <2>3, <2>4 DEF DataInv
<1>4. ControlInv'
  BY DEF IInv, TypeOK, DataTypeOK, CreateUseless, ControlInv, CreateInv, StartInv, Starting,
         OneInv, HandleInv, Handling
<1>5. QED BY <1>1, <1>3, <1>4 DEF IInv

\* tasks_start takes a new task in hand.
LEMMA VisitNewStep ==
  ASSUME IInv, NEW c \in Chunks, VisitNew(c)
  PROVE  IInv'
<1>1. TypeOK'
  <2>1. DataTypeOK' /\ MetricTypeOK'
    BY DEF IInv, TypeOK, DataTypeOK, MetricTypeOK, VisitNew
  <2>2. ControlTypeOK'
    BY DEF IInv, TypeOK, ControlTypeOK, VisitNew, Routes
  <2>3. QED BY <2>1, <2>2 DEF TypeOK
<1>2. DataInv'
  <2>1. UsersExact'
    BY UsersFrame DEF IInv, DataInv, VisitNew
  <2>2. (\A d \in Chunks : TaskInv(d))'
    BY DEF IInv, TypeOK, DataTypeOK, DataInv, TaskInv, VisitNew
  <2>3. (\A d \in Chunks, p \in Outputs : RouteInv(d, p))'
    <3>1. \A d \in Chunks : status'[d] # "running" => status[d] # "running"
      BY DEF IInv, TypeOK, DataTypeOK, VisitNew
    <3>2. QED
      BY <3>1 DEF IInv, DataInv, RouteInv, VisitNew
  <2>4. (\A p \in Outputs : QueueInv(p))'
    BY QueueFrame DEF IInv, DataInv, VisitNew
  <2>5. QED BY <2>1, <2>2, <2>3, <2>4 DEF DataInv
<1>3. ControlInv'
  <2>1. \A o \in Outputs : flush[c][o] = "idle" /\ attempts[c][o] = 0
    BY DEF IInv, DataInv, RouteInv, VisitNew
  <2>2. up[c] /\ status'[c] = "running"
    BY DEF IInv, TypeOK, DataTypeOK, DataInv, TaskInv, VisitNew
  <2>3. QED
    BY <2>1, <2>2 DEF VisitNew, Routes, ControlInv, CreateInv, StartInv, Starting,
                      OneInv, HandleInv, Handling
<1>4. QED BY <1>1, <1>2, <1>3 DEF IInv

\* A task is done: running if a route was started, else new again.
LEMMA TaskStartedStep ==
  ASSUME IInv, TaskStarted
  PROVE  IInv'
<1>1. /\ cur \in Chunks /\ status[cur] = "running" /\ up[cur]
      /\ ~hits => \A o \in Outputs : flush[cur][o] = "idle" /\ attempts[cur][o] = 0
  BY DEF IInv, ControlInv, StartInv, Starting, TaskStarted
<1>2. TypeOK'
  <2>1. DataTypeOK' /\ MetricTypeOK'
    BY DEF IInv, TypeOK, DataTypeOK, MetricTypeOK, TaskStarted
  <2>2. ControlTypeOK'
    BY DEF IInv, TypeOK, ControlTypeOK, TaskStarted
  <2>3. QED BY <2>1, <2>2 DEF TypeOK
<1>3. DataInv'
  <2>1. UsersExact'
    BY UsersFrame DEF IInv, DataInv, TaskStarted
  <2>2. (\A d \in Chunks : TaskInv(d))'
    BY <1>1 DEF IInv, TypeOK, DataTypeOK, DataInv, TaskInv, TaskStarted
  <2>3. (\A d \in Chunks, p \in Outputs : RouteInv(d, p))'
    <3>1. \A d \in Chunks : status'[d] # status[d] => d = cur /\ ~hits
      BY DEF IInv, TypeOK, DataTypeOK, TaskStarted
    <3>2. QED
      BY <1>1, <3>1 DEF IInv, DataInv, RouteInv, TaskStarted
  <2>4. (\A p \in Outputs : QueueInv(p))'
    BY QueueFrame DEF IInv, DataInv, TaskStarted
  <2>5. QED BY <2>1, <2>2, <2>3, <2>4 DEF DataInv
<1>4. ControlInv'
  BY DEF TaskStarted, ControlInv, CreateInv, StartInv, Starting, OneInv, HandleInv, Handling
<1>5. QED BY <1>2, <1>3, <1>4 DEF IInv

-----------------------------------------------------------------------------
(* Updates of one route: what they return, and how they move the count of  *)
(* users.                                                                  *)

\* Setting one entry of a two-level function keeps its type.
LEMMA SetType ==
  ASSUME NEW S, NEW f \in [Chunks -> [Outputs -> S]],
         NEW c \in Chunks, NEW o \in Outputs, NEW v \in S
  PROVE  Set(f, c, o, v) \in [Chunks -> [Outputs -> S]]
BY DEF Set

\* The flush stages after one entry is set.
LEMMA FlushAt ==
  ASSUME TypeOK, NEW c \in Chunks, NEW o \in Outputs, NEW v,
         flush' = Set(flush, c, o, v)
  PROVE  \A d \in Chunks, p \in Outputs :
           flush'[d][p] = IF d = c /\ p = o THEN v ELSE flush[d][p]
<1>1. flush \in [Chunks -> [Outputs -> Stages]] BY DEF TypeOK, DataTypeOK
<1>2. QED BY <1>1 DEF Set

\* A flush that begins takes one user.
LEMMA Enter ==
  ASSUME TypeOK, UsersExact, NEW c \in Chunks, NEW o \in Outputs, NEW v,
         flush[c][o] = "idle", v # "idle",
         flush' = Set(flush, c, o, v),
         users' = [users EXCEPT ![c] = @ + 1]
  PROVE  UsersExact'
<1>1. \A d \in Chunks, p \in Outputs :
        flush'[d][p] = IF d = c /\ p = o THEN v ELSE flush[d][p]
  BY FlushAt
<1>2. ASSUME NEW d \in Chunks, d # c
      PROVE  users'[d] = Cardinality(Busy(d)')
  <2>1. Busy(d)' = Busy(d) BY <1>1, <1>2 DEF Busy
  <2>2. users'[d] = users[d] BY <1>2 DEF TypeOK, DataTypeOK
  <2>3. QED BY <2>1, <2>2 DEF UsersExact
<1>3. users'[c] = Cardinality(Busy(c)')
  <2>1. Busy(c)' = Busy(c) \cup {o} /\ o \notin Busy(c) BY <1>1 DEF Busy
  <2>2. IsFiniteSet(Busy(c)) BY SetsAssumption, FS_Subset DEF Busy
  <2>3. Cardinality(Busy(c)') = Cardinality(Busy(c)) + 1
    BY <2>1, <2>2, FS_AddElement
  <2>4. users'[c] = users[c] + 1 BY DEF TypeOK, DataTypeOK
  <2>5. QED BY <2>3, <2>4 DEF UsersExact
<1>4. QED BY <1>2, <1>3 DEF UsersExact

\* A flush that changes its stage keeps its user.
LEMMA Move ==
  ASSUME TypeOK, UsersExact, NEW c \in Chunks, NEW o \in Outputs, NEW v,
         flush[c][o] # "idle", v # "idle",
         flush' = Set(flush, c, o, v),
         users' = users
  PROVE  UsersExact'
<1>1. \A d \in Chunks, p \in Outputs :
        flush'[d][p] = IF d = c /\ p = o THEN v ELSE flush[d][p]
  BY FlushAt
<1>2. \A d \in Chunks : Busy(d)' = Busy(d)
  BY <1>1 DEF Busy
<1>3. QED BY <1>2 DEF UsersExact

\* A flush that ends gives its user back, and there is one to give.
LEMMA Leave ==
  ASSUME TypeOK, UsersExact, NEW c \in Chunks, NEW o \in Outputs,
         flush[c][o] # "idle",
         flush' = Set(flush, c, o, "idle"),
         users' = [users EXCEPT ![c] = @ - 1]
  PROVE  UsersExact' /\ users' \in [Chunks -> Nat]
<1>1. \A d \in Chunks, p \in Outputs :
        flush'[d][p] = IF d = c /\ p = o THEN "idle" ELSE flush[d][p]
  BY FlushAt
<1>2. ASSUME NEW d \in Chunks, d # c
      PROVE  users'[d] = Cardinality(Busy(d)')
  <2>1. Busy(d)' = Busy(d) BY <1>1, <1>2 DEF Busy
  <2>2. users'[d] = users[d] BY <1>2 DEF TypeOK, DataTypeOK
  <2>3. QED BY <2>1, <2>2 DEF UsersExact
<1>3. IsFiniteSet(Busy(c)) BY SetsAssumption, FS_Subset DEF Busy
<1>4. Busy(c)' = Busy(c) \ {o} /\ o \in Busy(c) BY <1>1 DEF Busy
<1>5. IsFiniteSet(Busy(c)') /\ Cardinality(Busy(c)') = Cardinality(Busy(c)) - 1
  BY <1>3, <1>4, FS_RemoveElement
<1>6. Cardinality(Busy(c)') \in Nat BY <1>5, FS_CardinalityType
<1>7. users'[c] = users[c] - 1 BY DEF TypeOK, DataTypeOK
<1>8. users'[c] = Cardinality(Busy(c)') BY <1>5, <1>7 DEF UsersExact
<1>9. users' \in [Chunks -> Nat] BY <1>6, <1>8 DEF TypeOK, DataTypeOK
<1>10. QED BY <1>2, <1>8, <1>9 DEF UsersExact

-----------------------------------------------------------------------------
(* The flush coroutines.  They move the stage of a flush that is in the    *)
(* hands of the output and the status of its route, and nothing else that  *)
(* the invariant speaks of.                                                *)

\* A flush that moves from one stage under way to another, with the
\* status of its route, keeps the invariant.
LEMMA FlushMoves ==
  ASSUME IInv, NEW c \in Chunks, NEW o \in Outputs,
         NEW v \in {"run", "lost", "ok", "error", "retry"},
         NEW r \in {"inactive", "active", "dropped"},
         flush[c][o] \in {"pipe", "run"}, v = "run" => r = "active",
         flush' = Set(flush, c, o, v), route' = Set(route, c, o, r),
         MetricTypeOK',
         UNCHANGED <<chunkVars, task_map, tid, status, users, retryVars, queueVars, ctlVars>>
  PROVE  IInv'
<1>1. \A d \in Chunks, p \in Outputs :
        flush'[d][p] = IF d = c /\ p = o THEN v ELSE flush[d][p]
  BY FlushAt DEF IInv
<1>2. \A d \in Chunks, p \in Outputs :
        route'[d][p] = IF d = c /\ p = o THEN r ELSE route[d][p]
  <2>1. route \in [Chunks -> [Outputs -> RouteStates]]
    BY DEF IInv, TypeOK, DataTypeOK
  <2>2. QED BY <2>1 DEF Set
<1>3. TypeOK'
  <2>1. flush' \in [Chunks -> [Outputs -> Stages]]
    <3>1. flush \in [Chunks -> [Outputs -> Stages]] /\ v \in Stages
      BY DEF IInv, TypeOK, DataTypeOK, Stages, Results
    <3>2. QED BY <3>1, SetType
  <2>2. route' \in [Chunks -> [Outputs -> RouteStates]]
    <3>1. route \in [Chunks -> [Outputs -> RouteStates]] /\ r \in RouteStates
      BY DEF IInv, TypeOK, DataTypeOK, RouteStates
    <3>2. QED BY <3>1, SetType
  <2>3. DataTypeOK'
    BY <2>1, <2>2 DEF IInv, TypeOK, DataTypeOK
  <2>4. ControlTypeOK'
    BY DEF IInv, TypeOK, ControlTypeOK
  <2>5. QED BY <2>3, <2>4 DEF TypeOK
<1>4. DataInv'
  <2>1. UsersExact'
    BY Move DEF IInv, DataInv
  <2>2. (\A d \in Chunks : TaskInv(d))'
    BY TaskFrame DEF IInv, DataInv
  <2>3. (\A d \in Chunks, p \in Outputs : RouteInv(d, p))'
    BY <1>1, <1>2 DEF IInv, DataInv, RouteInv
  <2>4. (\A p \in Outputs : QueueInv(p))'
    <3>1. SUFFICES ASSUME NEW p \in Outputs, NEW i \in 1 .. Len(pending[p])
                   PROVE  flush'[pending[p][i]][p] = "queued"
      BY DEF IInv, DataInv, QueueInv
    <3>2. pending[p][i] \in Chunks /\ flush[pending[p][i]][p] = "queued"
      BY DEF IInv, TypeOK, DataTypeOK, DataInv, QueueInv
    <3>3. QED BY <1>1, <3>2
  <2>5. QED BY <2>1, <2>2, <2>3, <2>4 DEF DataInv
<1>5. ControlInv'
  <2>1. CreateInv' /\ OneInv'
    BY DEF IInv, ControlInv, CreateInv, OneInv
  <2>2. StartInv'
    BY <1>1, <1>2 DEF IInv, TypeOK, ControlTypeOK, ControlInv, StartInv, Starting
  <2>3. HandleInv'
    BY <1>1 DEF IInv, ControlInv, HandleInv, Handling, Results
  <2>4. QED BY <2>1, <2>2, <2>3 DEF ControlInv
<1>6. QED BY <1>3, <1>4, <1>5 DEF IInv

\* The callback of the plugin is called.
LEMMA FlushStartStep ==
  ASSUME IInv, NEW c \in Chunks, NEW o \in Outputs, FlushStart(c, o)
  PROVE  IInv'
<1>1. MetricTypeOK'
  <2>1. tries \in [Chunks -> [Outputs -> Nat]] BY DEF IInv, TypeOK, MetricTypeOK
  <2>2. CountTo(tries[c][o], AttemptCap + 1) \in Nat BY <2>1 DEF CountTo
  <2>3. tries' \in [Chunks -> [Outputs -> Nat]]
    BY <2>1, <2>2, SetType DEF FlushStart
  <2>4. QED BY <2>3 DEF IInv, TypeOK, MetricTypeOK, FlushStart
<1>2. QED BY <1>1, FlushMoves DEF FlushStart

\* A flush without records returns at once.
LEMMA FlushSkippedStep ==
  ASSUME IInv, NEW c \in Chunks, NEW o \in Outputs, FlushSkipped(c, o)
  PROVE  IInv'
<1>1. MetricTypeOK' BY DEF IInv, TypeOK, MetricTypeOK, FlushSkipped
<1>2. QED BY <1>1, FlushMoves DEF FlushSkipped

\* A flush of a dropped route returns an error at once.
LEMMA FlushDroppedStep ==
  ASSUME IInv, NEW c \in Chunks, NEW o \in Outputs, FlushDropped(c, o)
  PROVE  IInv'
<1>1. MetricTypeOK' BY DEF IInv, TypeOK, MetricTypeOK, FlushDropped
<1>2. QED BY <1>1, FlushMoves DEF FlushDropped

\* The callback of the plugin returns.
LEMMA FlushReturnStep ==
  ASSUME IInv, NEW c \in Chunks, NEW o \in Outputs, NEW ret \in Results,
         FlushReturn(c, o, ret)
  PROVE  IInv'
<1>1. MetricTypeOK' BY DEF IInv, TypeOK, MetricTypeOK, FlushReturn
<1>2. QED BY <1>1, FlushMoves DEF FlushReturn, Results

\* A worker forgets a task whose coroutine it cannot create.
LEMMA FlushLostStep ==
  ASSUME IInv, NEW c \in Chunks, NEW o \in Outputs, FlushLost(c, o)
  PROVE  IInv'
<1>1. MetricTypeOK' BY DEF IInv, TypeOK, MetricTypeOK, FlushLost
<1>2. route \in [Chunks -> [Outputs -> RouteStates]]
  BY DEF IInv, TypeOK, DataTypeOK
<1>3. route' = Set(route, c, o, route[c][o])
  BY <1>2 DEF FlushLost, Set
<1>4. route[c][o] \in {"inactive", "active", "dropped"}
  BY <1>2 DEF IInv, DataInv, RouteInv, RouteStates, FlushLost
<1>5. QED BY <1>1, <1>3, <1>4, FlushMoves DEF FlushLost

-----------------------------------------------------------------------------
(* A flush begins: from a route of a task that is being started, or from a *)
(* retry whose timer fired.                                                *)

\* A flush of an idle route begins, with one more user: the data part of
\* the invariant holds afterwards.
LEMMA FlushBegins ==
  ASSUME IInv, NEW c \in Chunks, NEW o \in Outputs, NEW v \in {"pipe", "queued"},
         flush[c][o] = "idle", status[c] = "running", route[c][o] # "absent",
         up' = [up EXCEPT ![c] = TRUE],
         request' = Set(request, c, o, 0),
         flush' = Set(flush, c, o, v),
         users' = [users EXCEPT ![c] = @ + 1],
         UNCHANGED <<chunk, mask, task_map, tid, status, route, attempts>>
  PROVE  /\ UsersExact'
         /\ (\A d \in Chunks : TaskInv(d))'
         /\ (\A d \in Chunks, p \in Outputs : RouteInv(d, p))'
<1>1. \A d \in Chunks, p \in Outputs :
        flush'[d][p] = IF d = c /\ p = o THEN v ELSE flush[d][p]
  BY FlushAt DEF IInv
<1>2. \A d \in Chunks, p \in Outputs :
        request'[d][p] = IF d = c /\ p = o THEN 0 ELSE request[d][p]
  <2>1. request \in [Chunks -> [Outputs -> Nat]]
    BY DEF IInv, TypeOK, DataTypeOK
  <2>2. QED BY <2>1 DEF Set
<1>3. up'[c] /\ \A d \in Chunks : d # c => up'[d] = up[d]
  BY DEF IInv, TypeOK, DataTypeOK
<1>4. UsersExact'
  BY Enter DEF IInv, DataInv
<1>5. (\A d \in Chunks : TaskInv(d))'
  BY <1>3 DEF IInv, DataInv, TaskInv
<1>6. (\A d \in Chunks, p \in Outputs : RouteInv(d, p))'
  <2>1. SUFFICES ASSUME NEW d \in Chunks, NEW p \in Outputs PROVE RouteInv(d, p)'
    OBVIOUS
  <2>2. RouteInv(d, p) BY DEF IInv, DataInv
  <2>3. CASE d # c
    BY <1>1, <1>2, <1>3, <2>2, <2>3 DEF RouteInv
  <2>4. CASE d = c /\ p # o
    BY <1>1, <1>2, <1>3, <2>2, <2>4 DEF RouteInv
  <2>5. CASE d = c /\ p = o
    BY <1>1, <1>2, <1>3, <2>2, <2>5 DEF RouteInv
  <2>6. QED BY <2>3, <2>4, <2>5
<1>7. QED BY <1>4, <1>5, <1>6

\* The types after a flush has begun.
LEMMA FlushBeginsTypes ==
  ASSUME IInv, NEW c \in Chunks, NEW o \in Outputs, NEW v \in {"pipe", "queued"},
         up' = [up EXCEPT ![c] = TRUE],
         request' = Set(request, c, o, 0),
         flush' = Set(flush, c, o, v),
         users' = [users EXCEPT ![c] = @ + 1],
         pending' \in [Outputs -> Seq(Chunks)],
         UNCHANGED <<chunk, mask, task_map, tid, status, route, attempts, in_progress>>
  PROVE  DataTypeOK'
<1>1. flush' \in [Chunks -> [Outputs -> Stages]]
  <2>1. flush \in [Chunks -> [Outputs -> Stages]] /\ v \in Stages
    BY DEF IInv, TypeOK, DataTypeOK, Stages
  <2>2. QED BY <2>1, SetType
<1>2. request' \in [Chunks -> [Outputs -> Nat]]
  <2>1. request \in [Chunks -> [Outputs -> Nat]] /\ 0 \in Nat
    BY DEF IInv, TypeOK, DataTypeOK
  <2>2. QED BY <2>1, SetType
<1>3. users' \in [Chunks -> Nat]
  BY DEF IInv, TypeOK, DataTypeOK
<1>4. QED BY <1>1, <1>2, <1>3 DEF IInv, TypeOK, DataTypeOK

\* The queues do not see a flush that begins in the pipe.
LEMMA BeginsInPipe ==
  ASSUME IInv, NEW c \in Chunks, NEW o \in Outputs,
         flush[c][o] = "idle", flush' = Set(flush, c, o, "pipe"), pending' = pending
  PROVE  (\A p \in Outputs : QueueInv(p))'
<1>1. \A d \in Chunks, p \in Outputs :
        flush'[d][p] = IF d = c /\ p = o THEN "pipe" ELSE flush[d][p]
  BY FlushAt DEF IInv
<1>2. SUFFICES ASSUME NEW p \in Outputs, NEW i \in 1 .. Len(pending[p])
               PROVE  flush'[pending[p][i]][p] = "queued"
  BY DEF IInv, DataInv, QueueInv
<1>3. pending[p][i] \in Chunks /\ flush[pending[p][i]][p] = "queued"
  BY DEF IInv, TypeOK, DataTypeOK, DataInv, QueueInv
<1>4. QED BY <1>1, <1>3

\* A flush that joins a queue was not in it.
LEMMA BeginsQueued ==
  ASSUME IInv, NEW c \in Chunks, NEW o \in Outputs,
         flush[c][o] = "idle", flush' = Set(flush, c, o, "queued"),
         pending' = [pending EXCEPT ![o] = Append(@, c)]
  PROVE  /\ (\A p \in Outputs : QueueInv(p))'
         /\ pending' \in [Outputs -> Seq(Chunks)]
         /\ pending'[o] # <<>>
         /\ \A p \in Outputs : pending[p] # <<>> => pending'[p] # <<>>
<1>0. pending \in [Outputs -> Seq(Chunks)] BY DEF IInv, TypeOK, DataTypeOK
<1>1. \A d \in Chunks, p \in Outputs :
        flush'[d][p] = IF d = c /\ p = o THEN "queued" ELSE flush[d][p]
  BY FlushAt DEF IInv
<1>2. pending' \in [Outputs -> Seq(Chunks)] BY <1>0
<1>3. /\ pending'[o] = Append(pending[o], c)
      /\ \A p \in Outputs : p # o => pending'[p] = pending[p]
  BY <1>0
<1>4. pending'[o] # <<>> BY <1>0, <1>3
<1>5. ASSUME NEW p \in Outputs PROVE QueueInv(p)'
  <2>1. QueueInv(p) BY DEF IInv, DataInv
  <2>2. CASE p # o
    <3>1. \A i \in 1 .. Len(pending[p]) : pending[p][i] \in Chunks BY <1>0
    <3>2. QED BY <1>1, <1>3, <2>1, <2>2, <3>1 DEF QueueInv
  <2>3. CASE p = o
    <3>1. pending[o] \in Seq(Chunks) BY <1>0
    <3>2. /\ Len(pending'[o]) = Len(pending[o]) + 1
          /\ \A i \in 1 .. Len(pending[o]) : pending'[o][i] = pending[o][i]
          /\ pending'[o][Len(pending[o]) + 1] = c
      BY <1>3, <3>1
    <3>3. \A i \in 1 .. Len(pending[o]) :
            pending[o][i] \in Chunks /\ flush[pending[o][i]][o] = "queued"
      BY <2>1, <2>3, <3>1 DEF QueueInv
    <3>4. \A i \in 1 .. Len(pending[o]) : pending[o][i] # c
      BY <3>3
    <3>5. Len(pending[o]) \in Nat BY <3>1
    <3>6. QED BY <1>1, <2>1, <2>3, <3>2, <3>3, <3>4, <3>5 DEF QueueInv
  <2>4. QED BY <2>2, <2>3
<1>6. QED BY <1>2, <1>3, <1>4, <1>5

\* What is known of the route in hand when a task is started.
LEMMA RouteInHand ==
  ASSUME IInv, pc = "route", NEW o \in rts
  PROVE  /\ o \in Outputs /\ cur \in Chunks
         /\ flush[cur][o] = "idle" /\ status[cur] = "running" /\ route[cur][o] # "absent"
         /\ up = [up EXCEPT ![cur] = TRUE]
         /\ request = Set(request, cur, o, 0)
<1>1. o \in Outputs BY DEF IInv, TypeOK, ControlTypeOK
<1>2. /\ cur \in Chunks /\ flush[cur][o] = "idle" /\ attempts[cur][o] = 0
      /\ status[cur] = "running" /\ route[cur][o] # "absent" /\ up[cur]
  BY DEF IInv, ControlInv, StartInv, Starting
<1>3. up = [up EXCEPT ![cur] = TRUE]
  BY <1>2 DEF IInv, TypeOK, DataTypeOK
<1>4. request \in [Chunks -> [Outputs -> Nat]]
  BY DEF IInv, TypeOK, DataTypeOK
<1>5. request[cur][o] = 0
  BY <1>1, <1>2, <1>4 DEF IInv, DataInv, RouteInv
<1>6. request = Set(request, cur, o, 0)
  BY <1>1, <1>2, <1>4, <1>5 DEF Set
<1>7. QED BY <1>1, <1>2, <1>3, <1>6

\* tasks_start hands a route to an output, or fails to.
LEMMA RouteStartedStep ==
  ASSUME IInv, NEW o \in Outputs, RouteStarted(o)
  PROVE  IInv'
<1>1. /\ cur \in Chunks
      /\ flush[cur][o] = "idle" /\ status[cur] = "running" /\ route[cur][o] # "absent"
      /\ up = [up EXCEPT ![cur] = TRUE]
      /\ request = Set(request, cur, o, 0)
  BY RouteInHand DEF RouteStarted
<1>2. MetricTypeOK' /\ ControlTypeOK'
  BY DEF IInv, TypeOK, MetricTypeOK, ControlTypeOK, RouteStarted
<1>3. CreateInv' /\ OneInv' /\ HandleInv'
  BY DEF RouteStarted, CreateInv, OneInv, HandleInv, Handling
<1>4. CASE TaskFlush(cur, o)
  <2>1. DataTypeOK'
    <3>1. pending' \in [Outputs -> Seq(Chunks)]
      BY DEF IInv, TypeOK, DataTypeOK, RouteStarted
    <3>2. QED BY <1>1, <1>4, <3>1, FlushBeginsTypes DEF RouteStarted, TaskFlush
  <2>2. DataInv'
    <3>1. /\ UsersExact'
          /\ (\A d \in Chunks : TaskInv(d))'
          /\ (\A d \in Chunks, p \in Outputs : RouteInv(d, p))'
      BY <1>1, <1>4, FlushBegins DEF RouteStarted, TaskFlush
    <3>2. (\A p \in Outputs : QueueInv(p))'
      BY <1>1, <1>4, BeginsInPipe DEF RouteStarted, TaskFlush
    <3>3. QED BY <3>1, <3>2 DEF DataInv
  <2>3. StartInv'
    <3>1. \A p \in Outputs : p # o => flush'[cur][p] = flush[cur][p]
      BY <1>1, <1>4, FlushAt DEF IInv, TaskFlush
    <3>2. rts \subseteq Outputs BY DEF IInv, TypeOK, ControlTypeOK
    <3>3. QED
      BY <3>1, <3>2 DEF IInv, ControlInv, StartInv, Starting, RouteStarted
  <2>4. QED BY <1>2, <1>3, <2>1, <2>2, <2>3 DEF IInv, TypeOK, ControlInv
<1>5. CASE UNCHANGED <<users, flush>>
  <2>1. DataTypeOK'
    BY <1>5 DEF IInv, TypeOK, DataTypeOK, RouteStarted
  <2>2. DataInv'
    BY <1>5, DataFrame DEF IInv, RouteStarted
  <2>3. StartInv'
    BY <1>5 DEF IInv, ControlInv, StartInv, Starting, RouteStarted
  <2>4. QED BY <1>2, <1>3, <2>1, <2>2, <2>3 DEF IInv, TypeOK, ControlInv
<1>6. QED BY <1>4, <1>5 DEF RouteStarted

\* tasks_start queues a route of a synchronous output.
LEMMA RouteQueuedStep ==
  ASSUME IInv, NEW o \in Outputs, RouteQueued(o)
  PROVE  IInv'
<1>1. /\ cur \in Chunks
      /\ flush[cur][o] = "idle" /\ status[cur] = "running" /\ route[cur][o] # "absent"
      /\ up = [up EXCEPT ![cur] = TRUE]
      /\ request = Set(request, cur, o, 0)
  BY RouteInHand DEF RouteQueued
<1>2. MetricTypeOK' /\ ControlTypeOK'
  BY DEF IInv, TypeOK, MetricTypeOK, ControlTypeOK, RouteQueued, Enqueue
<1>3. /\ (\A p \in Outputs : QueueInv(p))'
      /\ pending' \in [Outputs -> Seq(Chunks)]
      /\ pending'[o] # <<>>
  BY <1>1, BeginsQueued DEF RouteQueued, Enqueue
<1>4. DataTypeOK'
  BY <1>1, <1>3, FlushBeginsTypes DEF RouteQueued, Enqueue
<1>5. DataInv'
  <2>1. /\ UsersExact'
        /\ (\A d \in Chunks : TaskInv(d))'
        /\ (\A d \in Chunks, p \in Outputs : RouteInv(d, p))'
    BY <1>1, FlushBegins DEF RouteQueued, Enqueue
  <2>2. QED BY <1>3, <2>1 DEF DataInv
<1>6. CreateInv' /\ OneInv' /\ HandleInv'
  BY <1>3 DEF RouteQueued, Enqueue, CreateInv, OneInv, HandleInv, Handling
<1>7. StartInv'
  <2>1. \A p \in Outputs : p # o => flush'[cur][p] = flush[cur][p]
    BY <1>1, FlushAt DEF IInv, RouteQueued, Enqueue
  <2>2. rts \subseteq Outputs BY DEF IInv, TypeOK, ControlTypeOK
  <2>3. QED
    BY <2>1, <2>2 DEF IInv, ControlInv, StartInv, Starting, RouteQueued
<1>8. QED BY <1>2, <1>4, <1>5, <1>6, <1>7 DEF IInv, TypeOK, ControlInv

\* A fired retry is handed to its output, or queued.
LEMMA RetryFlushedStep ==
  ASSUME IInv, NEW c \in Chunks, NEW o \in Outputs, RetryFlushed(c, o)
  PROVE  IInv'
<1>1. request \in [Chunks -> [Outputs -> Nat]] /\ request[c][o] > 0
  BY DEF IInv, TypeOK, DataTypeOK, RetryFlushed, RetryFires
<1>2. /\ flush[c][o] = "idle" /\ status[c] = "running" /\ route[c][o] # "absent"
      /\ request[c][o] = 1
  BY <1>1 DEF IInv, DataInv, RouteInv
<1>3. request' = Set(request, c, o, 0) /\ up' = [up EXCEPT ![c] = TRUE]
  BY <1>2 DEF RetryFlushed, RequestDestroy
<1>4. MetricTypeOK' /\ ControlTypeOK'
  BY DEF IInv, TypeOK, MetricTypeOK, ControlTypeOK, RetryFlushed, RetryFires, Enqueue
<1>5. CASE TaskFlush(c, o) /\ UNCHANGED <<queueVars, pc, cont, out>>
  <2>1. DataTypeOK'
    <3>1. pending' \in [Outputs -> Seq(Chunks)]
      BY <1>5 DEF IInv, TypeOK, DataTypeOK
    <3>2. QED BY <1>3, <1>5, <3>1, FlushBeginsTypes DEF RetryFlushed, TaskFlush
  <2>2. DataInv'
    <3>1. /\ UsersExact'
          /\ (\A d \in Chunks : TaskInv(d))'
          /\ (\A d \in Chunks, p \in Outputs : RouteInv(d, p))'
      BY <1>2, <1>3, <1>5, FlushBegins DEF RetryFlushed, TaskFlush
    <3>2. (\A p \in Outputs : QueueInv(p))'
      BY <1>2, <1>5, BeginsInPipe DEF TaskFlush
    <3>3. QED BY <3>1, <3>2 DEF DataInv
  <2>3. ControlInv'
    BY <1>5 DEF RetryFlushed, RetryFires, ControlInv, CreateInv, StartInv, Starting,
                OneInv, HandleInv, Handling
  <2>4. QED BY <1>4, <2>1, <2>2, <2>3 DEF IInv, TypeOK
<1>6. CASE Enqueue(c, o, "loop")
  <2>1. /\ (\A p \in Outputs : QueueInv(p))'
        /\ pending' \in [Outputs -> Seq(Chunks)]
        /\ pending'[o] # <<>>
    BY <1>2, <1>6, BeginsQueued DEF Enqueue
  <2>2. DataTypeOK'
    BY <1>3, <1>6, <2>1, FlushBeginsTypes DEF RetryFlushed, Enqueue
  <2>3. DataInv'
    <3>1. /\ UsersExact'
          /\ (\A d \in Chunks : TaskInv(d))'
          /\ (\A d \in Chunks, p \in Outputs : RouteInv(d, p))'
      BY <1>2, <1>3, <1>6, FlushBegins DEF RetryFlushed, Enqueue
    <3>2. QED BY <2>1, <3>1 DEF DataInv
  <2>4. ControlInv'
    BY <1>6, <2>1 DEF RetryFlushed, RetryFires, Enqueue, ControlInv, CreateInv, StartInv,
                Starting, OneInv, HandleInv, Handling
  <2>5. QED BY <1>4, <2>2, <2>3, <2>4 DEF IInv, TypeOK
<1>7. QED BY <1>5, <1>6 DEF RetryFlushed

-----------------------------------------------------------------------------
(* The singleplex loop.                                                    *)

\* The head of a queue is queued, and leaves the rest of the queue as it is.
LEMMA QueueTaken ==
  ASSUME IInv, pc = "one", NEW v,
         flush' = Set(flush, Head(pending[out]), out, v),
         pending' = [pending EXCEPT ![out] = Tail(@)]
  PROVE  /\ out \in Outputs /\ Head(pending[out]) \in Chunks
         /\ flush[Head(pending[out])][out] = "queued"
         /\ pending' \in [Outputs -> Seq(Chunks)]
         /\ pending'[out] = Tail(pending[out])
         /\ (\A p \in Outputs : QueueInv(p))'
<1> DEFINE c == Head(pending[out])
<1>1. out \in Outputs /\ pending[out] # <<>>
  BY DEF IInv, ControlInv, OneInv
<1>2. pending \in [Outputs -> Seq(Chunks)]
  BY DEF IInv, TypeOK, DataTypeOK
<1>3. /\ pending[out] \in Seq(Chunks) /\ Len(pending[out]) \in Nat /\ Len(pending[out]) >= 1
      /\ c = pending[out][1] /\ c \in Chunks
  BY <1>1, <1>2
<1>4. \A p \in Outputs : QueueInv(p) BY DEF IInv, DataInv
<1>5. flush[c][out] = "queued" BY <1>1, <1>3, <1>4 DEF QueueInv
<1>6. Tail(pending[out]) \in Seq(Chunks) BY <1>1, <1>3
<1>7. /\ pending' \in [Outputs -> Seq(Chunks)]
      /\ pending'[out] = Tail(pending[out])
      /\ \A p \in Outputs : p # out => pending'[p] = pending[p]
  BY <1>1, <1>2, <1>6
<1>8. \A d \in Chunks, p \in Outputs :
        flush'[d][p] = IF d = c /\ p = out THEN v ELSE flush[d][p]
  BY <1>1, <1>3, FlushAt DEF IInv
<1>9. ASSUME NEW p \in Outputs PROVE QueueInv(p)'
  <2>1. CASE p # out
    <3>1. \A i \in 1 .. Len(pending[p]) : pending[p][i] \in Chunks BY <1>2
    <3>2. QED BY <1>4, <1>7, <1>8, <2>1, <3>1 DEF QueueInv
  <2>2. CASE p = out
    <3>1. /\ Len(pending'[out]) = Len(pending[out]) - 1
          /\ \A i \in 1 .. Len(pending'[out]) :
               /\ i + 1 \in 1 .. Len(pending[out])
               /\ pending'[out][i] = pending[out][i + 1]
      BY <1>1, <1>3, <1>7
    <3>2. \A i \in 1 .. Len(pending[out]) :
            pending[out][i] \in Chunks /\ flush[pending[out][i]][out] = "queued"
      BY <1>1, <1>3, <1>4 DEF QueueInv
    <3>3. \A i, j \in 1 .. Len(pending[out]) : pending[out][i] = pending[out][j] => i = j
      BY <1>1, <1>4 DEF QueueInv
    <3>4. 1 \in 1 .. Len(pending[out]) BY <1>3
    <3>5. ASSUME NEW i \in 1 .. Len(pending'[out])
          PROVE  flush'[pending'[out][i]][out] = "queued"
      <4>1. pending[out][i + 1] # c
        BY <1>3, <3>1, <3>3, <3>4
      <4>2. QED BY <1>1, <1>8, <3>1, <3>2, <4>1
    <3>6. ASSUME NEW i \in 1 .. Len(pending'[out]), NEW j \in 1 .. Len(pending'[out]),
                 pending'[out][i] = pending'[out][j]
          PROVE  i = j
      BY <3>1, <3>3, <3>6
    <3>7. QED BY <2>2, <3>5, <3>6 DEF QueueInv
  <2>3. QED BY <2>1, <2>2
<1>10. QED BY <1>1, <1>3, <1>5, <1>7, <1>9

\* Where the loop returns to, the thread still knows what it knew.
LEMMA QueueDoneControl ==
  ASSUME IInv, pc = "one", NEW c \in Chunks, NEW v,
         flush[c][out] = "queued", flush' = Set(flush, c, out, v),
         \A p \in Outputs : attempts'[cur][p] = attempts[cur][p] \/ attempts'[cur][p] = 0,
         QueueDone, UNCHANGED <<chunkVars, status, route, cur, loopVars>>
  PROVE  ControlInv'
<1>1. out \in Outputs BY DEF IInv, ControlInv, OneInv
<1>2. \A d \in Chunks, p \in Outputs :
        flush'[d][p] = IF d = c /\ p = out THEN v ELSE flush[d][p]
  BY <1>1, FlushAt DEF IInv
<1>3. cont \in {"loop", "route", "event"} /\ rts \subseteq Outputs
  BY DEF IInv, TypeOK, ControlTypeOK
<1>4. CreateInv' /\ OneInv'
  BY <1>3 DEF QueueDone, CreateInv, OneInv
<1>5. StartInv'
  <2>1. SUFFICES ASSUME cont = "route" PROVE StartInv'
    BY <1>3 DEF StartInv, Starting, QueueDone
  <2>2. StartInv /\ Starting BY <2>1 DEF IInv, ControlInv, Starting
  <2>3. QED BY <1>1, <1>2, <1>3, <2>2 DEF StartInv
<1>6. HandleInv'
  <2>1. SUFFICES ASSUME cont = "event" PROVE HandleInv'
    BY <1>3 DEF HandleInv, Handling, QueueDone
  <2>2. HandleInv /\ Handling BY <2>1 DEF IInv, ControlInv, Handling
  <2>3. QED BY <1>1, <1>2, <2>1, <2>2 DEF HandleInv, QueueDone, Results
<1>7. QED BY <1>4, <1>5, <1>6 DEF ControlInv

\* The singleplex loop hands the first waiting task to the output.
LEMMA FlushOneStep ==
  ASSUME IInv, FlushOne
  PROVE  IInv'
<1> DEFINE c == Head(pending[out])
<1>1. /\ pc = "one" /\ flush' = Set(flush, c, out, "pipe")
      /\ pending' = [pending EXCEPT ![out] = Tail(@)]
      /\ in_progress' = [in_progress EXCEPT ![out] = Append(@, c)]
      /\ QueueDone
  BY DEF FlushOne
<1>2. /\ out \in Outputs /\ c \in Chunks /\ flush[c][out] = "queued"
      /\ pending' \in [Outputs -> Seq(Chunks)]
      /\ (\A p \in Outputs : QueueInv(p))'
  BY <1>1, QueueTaken
<1>3. TypeOK'
  <2>1. in_progress' \in [Outputs -> Seq(Chunks)]
    BY <1>1, <1>2 DEF IInv, TypeOK, DataTypeOK
  <2>2. flush' \in [Chunks -> [Outputs -> Stages]]
    <3>1. flush \in [Chunks -> [Outputs -> Stages]] /\ "pipe" \in Stages
      BY DEF IInv, TypeOK, DataTypeOK, Stages
    <3>2. QED BY <1>1, <1>2, <3>1, SetType
  <2>3. DataTypeOK'
    BY <1>2, <2>1, <2>2 DEF IInv, TypeOK, DataTypeOK, FlushOne
  <2>4. MetricTypeOK' /\ ControlTypeOK'
    BY DEF IInv, TypeOK, MetricTypeOK, ControlTypeOK, FlushOne, QueueDone
  <2>5. QED BY <2>3, <2>4 DEF TypeOK
<1>4. \A d \in Chunks, p \in Outputs :
        flush'[d][p] = IF d = c /\ p = out THEN "pipe" ELSE flush[d][p]
  BY <1>1, <1>2, FlushAt DEF IInv
<1>5. DataInv'
  <2>1. UsersExact'
    BY <1>1, <1>2, Move DEF IInv, DataInv, FlushOne
  <2>2. (\A d \in Chunks : TaskInv(d))'
    BY TaskFrame DEF IInv, DataInv, FlushOne
  <2>3. (\A d \in Chunks, p \in Outputs : RouteInv(d, p))'
    BY <1>2, <1>4 DEF IInv, DataInv, RouteInv, FlushOne
  <2>4. QED BY <1>2, <2>1, <2>2, <2>3 DEF DataInv
<1>6. ControlInv'
  BY <1>1, <1>2, QueueDoneControl DEF FlushOne
<1>7. QED BY <1>3, <1>5, <1>6 DEF IInv

-----------------------------------------------------------------------------
(* A retry is destroyed, a flush ends, a task is destroyed.                *)

\* The retries and the requests after one retry is destroyed.
LEMMA RetryDestroyed ==
  ASSUME IInv, NEW c \in Chunks, NEW o \in Outputs, RetryDestroy(c, o)
  PROVE  /\ attempts' \in [Chunks -> [Outputs -> 0 .. AttemptCap]]
         /\ request' \in [Chunks -> [Outputs -> Nat]]
         /\ \A d \in Chunks, p \in Outputs :
              /\ attempts'[d][p] = IF d = c /\ p = o THEN 0 ELSE attempts[d][p]
              /\ request'[d][p] = IF d = c /\ p = o THEN 0 ELSE request[d][p]
<1>1. /\ attempts \in [Chunks -> [Outputs -> 0 .. AttemptCap]]
      /\ request \in [Chunks -> [Outputs -> Nat]]
  BY DEF IInv, TypeOK, DataTypeOK
<1>2. request[c][o] \in Nat /\ request[c][o] <= 1
  BY <1>1 DEF IInv, DataInv, RouteInv
<1>3. request' = Set(request, c, o, 0) /\ attempts' = Set(attempts, c, o, 0)
  BY <1>2 DEF RetryDestroy
<1>4. 0 \in 0 .. AttemptCap BY LimitAssumption
<1>5. attempts' \in [Chunks -> [Outputs -> 0 .. AttemptCap]]
  BY <1>1, <1>3, <1>4, SetType
<1>6. request' \in [Chunks -> [Outputs -> Nat]]
  BY <1>1, <1>3, SetType
<1>7. QED BY <1>1, <1>3, <1>5, <1>6 DEF Set

\* A flush ends, with one user less and without its retry: the data part
\* of the invariant holds afterwards.
LEMMA FlushEnds ==
  ASSUME IInv, NEW c \in Chunks, NEW o \in Outputs, NEW u \in BOOLEAN,
         flush[c][o] # "idle",
         \A p \in Outputs \ {o} : flush[c][p] # "idle" => u,
         flush' = Set(flush, c, o, "idle"),
         users' = [users EXCEPT ![c] = @ - 1],
         up' = [up EXCEPT ![c] = u],
         RetryDestroy(c, o),
         UNCHANGED <<chunk, status, tid, task_map, route>>
  PROVE  /\ UsersExact'
         /\ (\A d \in Chunks : TaskInv(d))'
         /\ (\A d \in Chunks, p \in Outputs : RouteInv(d, p))'
<1>1. \A d \in Chunks, p \in Outputs :
        flush'[d][p] = IF d = c /\ p = o THEN "idle" ELSE flush[d][p]
  BY FlushAt DEF IInv
<1>2. \A d \in Chunks, p \in Outputs :
        /\ attempts'[d][p] = IF d = c /\ p = o THEN 0 ELSE attempts[d][p]
        /\ request'[d][p] = IF d = c /\ p = o THEN 0 ELSE request[d][p]
  BY RetryDestroyed
<1>3. up'[c] = u /\ \A d \in Chunks : d # c => up'[d] = up[d]
  BY DEF IInv, TypeOK, DataTypeOK
<1>4. status[c] = "running"
  BY DEF IInv, DataInv, RouteInv
<1>5. UsersExact'
  BY Leave DEF IInv, DataInv
<1>6. (\A d \in Chunks : TaskInv(d))'
  BY <1>3, <1>4 DEF IInv, DataInv, TaskInv
<1>7. ASSUME NEW d \in Chunks, NEW p \in Outputs PROVE RouteInv(d, p)'
  <2>1. RouteInv(d, p) BY DEF IInv, DataInv
  <2>2. CASE d # c
    BY <1>1, <1>2, <1>3, <2>1, <2>2 DEF RouteInv
  <2>3. CASE d = c /\ p # o
    BY <1>1, <1>2, <1>3, <2>1, <2>3 DEF RouteInv
  <2>4. CASE d = c /\ p = o
    BY <1>1, <1>2, <2>4 DEF RouteInv
  <2>5. QED BY <2>2, <2>3, <2>4
<1>8. QED BY <1>5, <1>6, <1>7

\* The queues do not see the end of a flush that is not queued.
LEMMA EndsOutside ==
  ASSUME IInv, NEW c \in Chunks, NEW o \in Outputs, NEW v,
         flush[c][o] # "queued", flush' = Set(flush, c, o, v), pending' = pending
  PROVE  (\A p \in Outputs : QueueInv(p))'
<1>1. \A d \in Chunks, p \in Outputs :
        flush'[d][p] = IF d = c /\ p = o THEN v ELSE flush[d][p]
  BY FlushAt DEF IInv
<1>2. SUFFICES ASSUME NEW p \in Outputs, NEW i \in 1 .. Len(pending[p])
               PROVE  flush'[pending[p][i]][p] = "queued"
  BY DEF IInv, DataInv, QueueInv
<1>3. pending[p][i] \in Chunks /\ flush[pending[p][i]][p] = "queued"
  BY DEF IInv, TypeOK, DataTypeOK, DataInv, QueueInv
<1>4. QED BY <1>1, <1>3

\* A task without users is destroyed: the data part of the invariant
\* holds afterwards.
LEMMA TaskDestroyed ==
  ASSUME IInv, NEW c \in Chunks, Destroy(c), status[c] # "none",
         \A p \in Outputs : flush'[c][p] = "idle",
         \A d \in Chunks \ {c} : flush'[d] = flush[d],
         tid' = tid
  PROVE  /\ chunk' \in [Chunks -> {"none", "ready", "busy", "gone"}]
         /\ up' \in [Chunks -> BOOLEAN]
         /\ task_map' \in [TaskIds -> Chunks \cup {None, Freed}]
         /\ status' \in [Chunks -> {"none", "new", "running"}]
         /\ route' \in [Chunks -> [Outputs -> RouteStates]]
         /\ attempts' \in [Chunks -> [Outputs -> 0 .. AttemptCap]]
         /\ request' \in [Chunks -> [Outputs -> Nat]]
         /\ (\A d \in Chunks : TaskInv(d))'
         /\ (\A d \in Chunks, p \in Outputs : RouteInv(d, p))'
<1>1. TypeOK BY DEF IInv
<1>2. /\ chunk' \in [Chunks -> {"none", "ready", "busy", "gone"}]
      /\ up' \in [Chunks -> BOOLEAN]
      /\ task_map' \in [TaskIds -> Chunks \cup {None, Freed}]
      /\ status' \in [Chunks -> {"none", "new", "running"}]
  BY <1>1 DEF TypeOK, DataTypeOK, Destroy
<1>3. route' \in [Chunks -> [Outputs -> RouteStates]]
  BY <1>1 DEF TypeOK, DataTypeOK, Destroy, NoneOf, RouteStates
<1>4. attempts' \in [Chunks -> [Outputs -> 0 .. AttemptCap]]
  BY <1>1, LimitAssumption DEF TypeOK, DataTypeOK, Destroy, NoneOf
<1>5. request' \in [Chunks -> [Outputs -> Nat]]
  BY <1>1 DEF TypeOK, DataTypeOK, Destroy, NoneOf
<1>6. /\ chunk'[c] = "gone" /\ status'[c] = "none"
      /\ \A p \in Outputs : attempts'[c][p] = 0 /\ request'[c][p] = 0
  BY <1>1 DEF TypeOK, DataTypeOK, Destroy, NoneOf
<1>7. ASSUME NEW d \in Chunks, d # c
      PROVE  /\ chunk'[d] = chunk[d] /\ up'[d] = up[d] /\ status'[d] = status[d]
             /\ route'[d] = route[d] /\ attempts'[d] = attempts[d] /\ request'[d] = request[d]
             /\ flush'[d] = flush[d]
  BY <1>1, <1>7 DEF TypeOK, DataTypeOK, Destroy, NoneOf
<1>8. ASSUME NEW d \in Chunks PROVE TaskInv(d)'
  <2>1. CASE d = c
    BY <1>6, <2>1 DEF TaskInv
  <2>2. CASE d # c
    <3>1. TaskInv(c) /\ TaskInv(d) BY DEF IInv, DataInv
    <3>2. status[d] # "none" => tid[d] # tid[c]
      BY <2>2, <3>1 DEF TaskInv
    <3>3. status[d] # "none" => task_map'[tid[d]] = task_map[tid[d]]
      BY <1>1, <3>1, <3>2 DEF TypeOK, DataTypeOK, TaskInv, Destroy
    <3>4. QED BY <1>7, <2>2, <3>1, <3>3 DEF TaskInv
  <2>3. QED BY <2>1, <2>2
<1>9. ASSUME NEW d \in Chunks, NEW p \in Outputs PROVE RouteInv(d, p)'
  <2>1. CASE d = c
    BY <1>6, <2>1 DEF RouteInv
  <2>2. CASE d # c
    <3>1. RouteInv(d, p) BY DEF IInv, DataInv
    <3>2. QED BY <1>7, <2>2, <3>1 DEF RouteInv
  <2>3. QED BY <2>1, <2>2
<1>10. QED BY <1>2, <1>3, <1>4, <1>5, <1>8, <1>9

\* The singleplex loop gives up a flush that it cannot create.
LEMMA FlushOneFailsStep ==
  ASSUME IInv, FlushOneFails
  PROVE  IInv'
<1> DEFINE c == Head(pending[out])
<1>1. /\ pc = "one" /\ flush' = Set(flush, c, out, "idle")
      /\ pending' = [pending EXCEPT ![out] = Tail(@)]
      /\ in_progress' = [in_progress EXCEPT ![out] = Tail(Append(@, c))]
      /\ users' = [users EXCEPT ![c] = @ - 1]
      /\ RetryDestroy(c, out)
  BY DEF FlushOneFails, UsersDec
<1>2. /\ out \in Outputs /\ c \in Chunks /\ flush[c][out] = "queued"
      /\ pending' \in [Outputs -> Seq(Chunks)]
      /\ pending'[out] = Tail(pending[out])
      /\ (\A p \in Outputs : QueueInv(p))'
  BY <1>1, QueueTaken
<1>3. /\ attempts' \in [Chunks -> [Outputs -> 0 .. AttemptCap]]
      /\ request' \in [Chunks -> [Outputs -> Nat]]
      /\ \A d \in Chunks, p \in Outputs :
           /\ attempts'[d][p] = IF d = c /\ p = out THEN 0 ELSE attempts[d][p]
           /\ request'[d][p] = IF d = c /\ p = out THEN 0 ELSE request[d][p]
  BY <1>1, <1>2, RetryDestroyed
<1>4. TypeOK'
  <2>1. in_progress' \in [Outputs -> Seq(Chunks)]
    <3>1. in_progress \in [Outputs -> Seq(Chunks)] BY DEF IInv, TypeOK, DataTypeOK
    <3>2. in_progress[out] \in Seq(Chunks) BY <1>2, <3>1
    <3>3. \A s \in Seq(Chunks), e \in Chunks :
            Append(s, e) \in Seq(Chunks) /\ Append(s, e) # <<>>
      <4>1. SUFFICES ASSUME NEW s \in Seq(Chunks), NEW e \in Chunks
                     PROVE  Append(s, e) \in Seq(Chunks) /\ Append(s, e) # <<>>
        OBVIOUS
      <4>2. Len(s) \in Nat /\ Len(Append(s, e)) = Len(s) + 1 OBVIOUS
      <4>3. QED BY <4>2
    <3>4. \A s \in Seq(Chunks) : s # <<>> => Tail(s) \in Seq(Chunks)
      OBVIOUS
    <3>5. Tail(Append(in_progress[out], c)) \in Seq(Chunks)
      BY <1>2, <3>2, <3>3, <3>4
    <3>6. QED BY <1>1, <3>1, <3>5
  <2>2. flush' \in [Chunks -> [Outputs -> Stages]]
    <3>1. flush \in [Chunks -> [Outputs -> Stages]] /\ "idle" \in Stages
      BY DEF IInv, TypeOK, DataTypeOK, Stages
    <3>2. QED BY <1>1, <1>2, <3>1, SetType
  <2>3. users' \in [Chunks -> Nat]
    BY <1>1, <1>2, Leave DEF IInv, DataInv
  <2>4. DataTypeOK'
    BY <1>2, <1>3, <2>1, <2>2, <2>3 DEF IInv, TypeOK, DataTypeOK, FlushOneFails
  <2>5. MetricTypeOK' /\ ControlTypeOK'
    BY DEF IInv, TypeOK, MetricTypeOK, ControlTypeOK, FlushOneFails, QueueDone
  <2>6. QED BY <2>4, <2>5 DEF TypeOK
<1>5. DataInv'
  <2>1. up' = [up EXCEPT ![c] = up[c]] /\ up[c] \in BOOLEAN
    BY <1>2 DEF IInv, TypeOK, DataTypeOK, FlushOneFails
  <2>2. \A p \in Outputs \ {out} : flush[c][p] # "idle" => up[c]
    BY <1>2 DEF IInv, DataInv, RouteInv
  <2>3. QED
    BY <1>1, <1>2, <2>1, <2>2, FlushEnds DEF DataInv, FlushOneFails
<1>6. ControlInv'
  <2>1. CASE QueueDone
    <3>1. \A p \in Outputs : attempts'[cur][p] = attempts[cur][p] \/ attempts'[cur][p] = 0
      <4>1. CASE cur \in Chunks BY <1>3, <4>1
      <4>2. CASE cur \notin Chunks
        <5>1. attempts' = Set(attempts, c, out, 0) BY <1>1 DEF RetryDestroy
        <5>2. cur # c BY <1>2, <4>2
        <5>3. attempts'[cur] = attempts[cur]
          BY <4>2, <5>1, <5>2, <1>2 DEF Set, IInv, TypeOK, DataTypeOK
        <5>4. QED BY <5>3
      <4>3. QED BY <4>1, <4>2
    <3>2. QED BY <1>1, <1>2, <2>1, <3>1, QueueDoneControl DEF FlushOneFails
  <2>2. CASE Tail(pending[out]) # <<>> /\ UNCHANGED <<pc, cont, out>>
    <3>1. \A d \in Chunks, p \in Outputs :
            flush'[d][p] = IF d = c /\ p = out THEN "idle" ELSE flush[d][p]
      BY <1>1, <1>2, FlushAt DEF IInv
    <3>2. CreateInv' /\ OneInv'
      BY <1>1, <1>2, <2>2 DEF CreateInv, OneInv
    <3>3. rts \subseteq Outputs BY DEF IInv, TypeOK, ControlTypeOK
    <3>4. StartInv'
      <4>1. SUFFICES ASSUME Starting PROVE StartInv'
        BY <2>2 DEF StartInv, Starting
      <4>2. StartInv BY DEF IInv, ControlInv
      <4>3. UNCHANGED <<up, status, route, cur, rts, hits>> BY DEF FlushOneFails
      <4>4. QED BY <1>2, <1>3, <3>1, <3>3, <4>1, <4>2, <4>3 DEF StartInv
    <3>5. HandleInv'
      BY <1>2, <2>2, <3>1 DEF IInv, ControlInv, HandleInv, Handling, FlushOneFails, Results
    <3>6. QED BY <3>2, <3>4, <3>5 DEF ControlInv
  <2>3. QED BY <2>1, <2>2 DEF FlushOneFails
<1>7. QED BY <1>4, <1>5, <1>6 DEF IInv

-----------------------------------------------------------------------------
(* handle_output_event.                                                    *)

\* An event that is being handled belongs to a running task.
LEMMA EventInHand ==
  ASSUME IInv, pc = "event"
  PROVE  /\ cur \in Chunks /\ out \in Outputs /\ flush[cur][out] \in Results
         /\ flush[cur][out] # "idle" /\ flush[cur][out] # "queued"
         /\ status[cur] = "running"
<1>1. cur \in Chunks /\ out \in Outputs /\ flush[cur][out] \in Results
  BY DEF IInv, ControlInv, HandleInv, Handling
<1>2. flush[cur][out] # "idle" /\ flush[cur][out] # "queued"
  BY <1>1 DEF Results
<1>3. status[cur] = "running"
  BY <1>1, <1>2 DEF IInv, DataInv, RouteInv
<1>4. QED BY <1>1, <1>2, <1>3

\* The last user of a task is the flush in hand.
LEMMA LastUser ==
  ASSUME IInv, NEW c \in Chunks, NEW o \in Outputs, flush[c][o] # "idle", users[c] <= 1
  PROVE  \A p \in Outputs \ {o} : flush[c][p] = "idle"
<1>1. IsFiniteSet(Busy(c)) BY SetsAssumption, FS_Subset DEF Busy
<1>2. o \in Busy(c) BY DEF Busy
<1>3. users[c] = Cardinality(Busy(c)) BY DEF IInv, DataInv, UsersExact
<1>4. /\ IsFiniteSet(Busy(c) \ {o})
      /\ Cardinality(Busy(c) \ {o}) = Cardinality(Busy(c)) - 1
  BY <1>1, <1>2, FS_RemoveElement
<1>5. Cardinality(Busy(c)) \in Nat /\ Cardinality(Busy(c) \ {o}) \in Nat
  BY <1>1, <1>4, FS_CardinalityType
<1>6. Cardinality(Busy(c) \ {o}) = 0 BY <1>3, <1>4, <1>5
<1>7. Busy(c) \ {o} = {} BY <1>4, <1>6, FS_EmptySet
<1>8. QED BY <1>7 DEF Busy

\* A retry never unmaps the content that another route is using.
LEMMA RetryKeepsMapped ==
  ASSUME IInv, NEW c \in Chunks, NEW o \in Outputs, flush[c][o] # "idle",
         NEW overlimit \in BOOLEAN,
         NEW p \in Outputs \ {o}, flush[c][p] # "idle"
  PROVE  UpAfterRetry(c, overlimit)
<1>1. up[c] BY DEF IInv, DataInv, RouteInv
<1>2. ~(users[c] <= 1) BY LastUser
<1>3. Cardinality(Routes(c)) # 1
  <2>1. o \in Routes(c) /\ p \in Routes(c) /\ o # p
    BY DEF IInv, DataInv, RouteInv, Routes
  <2>2. IsFiniteSet(Routes(c)) BY SetsAssumption, FS_Subset DEF Routes
  <2>3. QED BY <2>1, <2>2, FS_Singleton
<1>4. QED BY <1>1, <1>2, <1>3 DEF UpAfterRetry

\* The end of an event that is not retried.
LEMMA CleanAndReleaseStep ==
  ASSUME IInv, pc = "event", NEW u \in BOOLEAN,
         \A p \in Outputs \ {out} : flush[cur][p] # "idle" => u,
         CleanAndRelease(cur, out, u), EventDone, MetricTypeOK'
  PROVE  IInv'
<1>1. /\ cur \in Chunks /\ out \in Outputs /\ status[cur] = "running"
      /\ flush[cur][out] # "idle" /\ flush[cur][out] # "queued"
  BY EventInHand
<1>2. /\ flush' = Set(flush, cur, out, "idle")
      /\ users' = [users EXCEPT ![cur] = @ - 1]
      /\ tid' = tid /\ mask' = mask /\ pending' = pending /\ in_progress' = in_progress
  BY DEF EventDone, CleanAndRelease, UsersDec
<1>3. UsersExact' /\ users' \in [Chunks -> Nat]
  BY <1>1, <1>2, Leave DEF IInv, DataInv
<1>4. \A d \in Chunks, p \in Outputs :
        flush'[d][p] = IF d = cur /\ p = out THEN "idle" ELSE flush[d][p]
  BY <1>1, <1>2, FlushAt DEF IInv
<1>5. flush' \in [Chunks -> [Outputs -> Stages]]
  <2>1. flush \in [Chunks -> [Outputs -> Stages]] /\ "idle" \in Stages
    BY DEF IInv, TypeOK, DataTypeOK, Stages
  <2>2. QED BY <1>1, <1>2, <2>1, SetType
<1>6. (\A p \in Outputs : QueueInv(p))'
  BY <1>1, <1>2, EndsOutside
<1>7. ControlTypeOK'
  BY DEF IInv, TypeOK, ControlTypeOK, EventDone
<1>8. ControlInv'
  BY DEF EventDone, ControlInv, CreateInv, StartInv, Starting, OneInv, HandleInv, Handling
<1>9. CASE LastUse(cur, out) /\ Destroy(cur)
  <2>1. \A p \in Outputs : flush'[cur][p] = "idle"
    <3>1. users[cur] <= 1 BY <1>9 DEF LastUse
    <3>2. QED BY <1>1, <1>4, <3>1, LastUser
  <2>2. \A d \in Chunks \ {cur} : flush'[d] = flush[d]
    BY <1>1, <1>2 DEF Set, IInv, TypeOK, DataTypeOK
  <2>3. /\ chunk' \in [Chunks -> {"none", "ready", "busy", "gone"}]
        /\ up' \in [Chunks -> BOOLEAN]
        /\ task_map' \in [TaskIds -> Chunks \cup {None, Freed}]
        /\ status' \in [Chunks -> {"none", "new", "running"}]
        /\ route' \in [Chunks -> [Outputs -> RouteStates]]
        /\ attempts' \in [Chunks -> [Outputs -> 0 .. AttemptCap]]
        /\ request' \in [Chunks -> [Outputs -> Nat]]
        /\ (\A d \in Chunks : TaskInv(d))'
        /\ (\A d \in Chunks, p \in Outputs : RouteInv(d, p))'
    BY <1>1, <1>2, <1>9, <2>1, <2>2, TaskDestroyed
  <2>4. DataTypeOK'
    BY <1>2, <1>3, <1>5, <2>3 DEF IInv, TypeOK, DataTypeOK
  <2>5. QED
    BY <1>3, <1>6, <1>7, <1>8, <2>3, <2>4 DEF IInv, TypeOK, DataInv
<1>10. CASE /\ RetryDestroy(cur, out) /\ up' = [up EXCEPT ![cur] = u]
            /\ UNCHANGED <<task_map, status, route, chunk>>
  <2>1. /\ (\A d \in Chunks : TaskInv(d))'
        /\ (\A d \in Chunks, p \in Outputs : RouteInv(d, p))'
    BY <1>1, <1>2, <1>10, FlushEnds
  <2>2. /\ attempts' \in [Chunks -> [Outputs -> 0 .. AttemptCap]]
        /\ request' \in [Chunks -> [Outputs -> Nat]]
    BY <1>1, <1>10, RetryDestroyed
  <2>3. DataTypeOK'
    BY <1>2, <1>3, <1>5, <1>10, <2>2 DEF IInv, TypeOK, DataTypeOK
  <2>4. QED
    BY <1>3, <1>6, <1>7, <1>8, <2>1, <2>3 DEF IInv, TypeOK, DataInv
<1>11. QED BY <1>9, <1>10 DEF CleanAndRelease

\* The engine handles FLB_OK.
LEMMA HandleOkStep ==
  ASSUME IInv, HandleOk
  PROVE  IInv'
<1>1. pc = "event" /\ cur \in Chunks /\ out \in Outputs
  BY EventInHand DEF HandleOk
<1>2. up[cur] \in BOOLEAN /\ \A p \in Outputs \ {out} : flush[cur][p] # "idle" => up[cur]
  BY <1>1 DEF IInv, TypeOK, DataTypeOK, DataInv, RouteInv
<1>3. MetricTypeOK'
  <2>1. proc \in [Chunks -> [Outputs -> Nat]] BY DEF IInv, TypeOK, MetricTypeOK
  <2>2. proc[cur][out] + 1 \in Nat BY <1>1, <2>1
  <2>3. proc' \in [Chunks -> [Outputs -> Nat]] BY <1>1, <2>1, <2>2, SetType DEF HandleOk
  <2>4. QED BY <2>3 DEF IInv, TypeOK, MetricTypeOK, HandleOk, EventDone
<1>4. QED BY <1>1, <1>2, <1>3, CleanAndReleaseStep DEF HandleOk

\* The engine handles FLB_ERROR, or a retry that is refused.
LEMMA HandleDropStep ==
  ASSUME IInv, HandleDrop
  PROVE  IInv'
<1>1. pc = "event" /\ cur \in Chunks /\ out \in Outputs
  BY EventInHand DEF HandleDrop
<1>2. up[cur] \in BOOLEAN /\ \A p \in Outputs \ {out} : flush[cur][p] # "idle" => up[cur]
  BY <1>1 DEF IInv, TypeOK, DataTypeOK, DataInv, RouteInv
<1>3. MetricTypeOK'
  <2>1. dropped \in [Chunks -> [Outputs -> Nat]] BY DEF IInv, TypeOK, MetricTypeOK
  <2>2. dropped[cur][out] + 1 \in Nat BY <1>1, <2>1
  <2>3. dropped' \in [Chunks -> [Outputs -> Nat]] BY <1>1, <2>1, <2>2, SetType DEF HandleDrop
  <2>4. QED BY <2>3 DEF IInv, TypeOK, MetricTypeOK, HandleDrop, EventDone
<1>4. QED BY <1>1, <1>2, <1>3, CleanAndReleaseStep DEF HandleDrop

\* The engine handles a retry that the scheduler cannot take.
LEMMA HandleUnscheduledStep ==
  ASSUME IInv, HandleUnscheduled
  PROVE  IInv'
<1>1. pc = "event" /\ cur \in Chunks /\ out \in Outputs /\ flush[cur][out] # "idle"
  BY EventInHand DEF HandleUnscheduled
<1>2. PICK overlimit \in BOOLEAN : CleanAndRelease(cur, out, UpAfterRetry(cur, overlimit))
  BY DEF HandleUnscheduled
<1>3. UpAfterRetry(cur, overlimit) \in BOOLEAN
  BY DEF UpAfterRetry
<1>4. \A p \in Outputs \ {out} : flush[cur][p] # "idle" => UpAfterRetry(cur, overlimit)
  BY <1>1, RetryKeepsMapped
<1>5. MetricTypeOK' BY DEF IInv, TypeOK, MetricTypeOK, HandleUnscheduled, EventDone
<1>6. EventDone BY DEF HandleUnscheduled
<1>7. QED BY <1>1, <1>2, <1>3, <1>4, <1>5, <1>6, CleanAndReleaseStep

\* The engine handles FLB_RETRY and the scheduler takes the retry.
LEMMA HandleRetryStep ==
  ASSUME IInv, HandleRetry
  PROVE  IInv'
<1>1. /\ pc = "event" /\ cur \in Chunks /\ out \in Outputs /\ status[cur] = "running"
      /\ flush[cur][out] # "idle" /\ flush[cur][out] # "queued"
  BY EventInHand DEF HandleRetry
<1>2. PICK overlimit \in BOOLEAN : up' = [up EXCEPT ![cur] = UpAfterRetry(cur, overlimit)]
  BY DEF HandleRetry
<1>3. /\ attempts \in [Chunks -> [Outputs -> 0 .. AttemptCap]]
      /\ request \in [Chunks -> [Outputs -> Nat]]
      /\ flush \in [Chunks -> [Outputs -> Stages]]
  BY DEF IInv, TypeOK, DataTypeOK
<1>4. attempts' = Set(attempts, cur, out, CountTo(attempts[cur][out], AttemptCap))
  BY DEF HandleRetry
<1>5. /\ CountTo(attempts[cur][out], AttemptCap) \in 0 .. AttemptCap
      /\ CountTo(attempts[cur][out], AttemptCap) > 0
  BY <1>1, <1>3, LimitAssumption DEF CountTo
<1>6. request[cur][out] = 0
  BY <1>1, <1>3 DEF IInv, DataInv, RouteInv
<1>7. request' = Set(request, cur, out, 1)
  BY <1>6 DEF HandleRetry
<1>8. \A d \in Chunks, p \in Outputs :
        /\ attempts'[d][p] = IF d = cur /\ p = out
                             THEN CountTo(attempts[cur][out], AttemptCap) ELSE attempts[d][p]
        /\ request'[d][p] = IF d = cur /\ p = out THEN 1 ELSE request[d][p]
  BY <1>3, <1>4, <1>7 DEF Set
<1>9. /\ flush' = Set(flush, cur, out, "idle")
      /\ users' = [users EXCEPT ![cur] = @ - 1]
      /\ pending' = pending
  BY DEF HandleRetry, EventDone, UsersDec
<1>10. \A d \in Chunks, p \in Outputs :
         flush'[d][p] = IF d = cur /\ p = out THEN "idle" ELSE flush[d][p]
  BY <1>1, <1>9, FlushAt DEF IInv
<1>11. UsersExact' /\ users' \in [Chunks -> Nat]
  BY <1>1, <1>9, Leave DEF IInv, DataInv
<1>12. /\ up' \in [Chunks -> BOOLEAN]
       /\ up'[cur] = UpAfterRetry(cur, overlimit)
       /\ \A d \in Chunks : d # cur => up'[d] = up[d]
  <2>1. UpAfterRetry(cur, overlimit) \in BOOLEAN BY DEF UpAfterRetry
  <2>2. QED BY <1>1, <1>2, <2>1 DEF IInv, TypeOK, DataTypeOK
<1>13. TypeOK'
  <2>1. attempts' \in [Chunks -> [Outputs -> 0 .. AttemptCap]]
    BY <1>1, <1>3, <1>4, <1>5, SetType
  <2>2. request' \in [Chunks -> [Outputs -> Nat]]
    BY <1>1, <1>3, <1>7, SetType
  <2>3. flush' \in [Chunks -> [Outputs -> Stages]]
    <3>1. "idle" \in Stages BY DEF Stages
    <3>2. QED BY <1>1, <1>3, <1>9, <3>1, SetType
  <2>4. DataTypeOK'
    BY <1>11, <1>12, <2>1, <2>2, <2>3 DEF IInv, TypeOK, DataTypeOK, HandleRetry, EventDone
  <2>5. MetricTypeOK' /\ ControlTypeOK'
    BY DEF IInv, TypeOK, MetricTypeOK, ControlTypeOK, HandleRetry, EventDone
  <2>6. QED BY <2>4, <2>5 DEF TypeOK
<1>14. (\A d \in Chunks : TaskInv(d))'
  BY <1>1, <1>12 DEF IInv, DataInv, TaskInv, HandleRetry
<1>15. ASSUME NEW d \in Chunks, NEW p \in Outputs PROVE RouteInv(d, p)'
  <2>1. RouteInv(d, p) BY DEF IInv, DataInv
  <2>2. UNCHANGED <<status, route>> BY DEF HandleRetry
  <2>3. CASE d # cur
    BY <1>8, <1>10, <1>12, <2>1, <2>2, <2>3 DEF RouteInv
  <2>4. CASE d = cur /\ p # out
    <3>1. flush[cur][p] # "idle" => UpAfterRetry(cur, overlimit)
      BY <1>1, <2>4, RetryKeepsMapped
    <3>2. QED BY <1>8, <1>10, <1>12, <2>1, <2>2, <2>4, <3>1 DEF RouteInv
  <2>5. CASE d = cur /\ p = out
    BY <1>1, <1>5, <1>8, <1>10, <2>1, <2>2, <2>5 DEF RouteInv
  <2>6. QED BY <2>3, <2>4, <2>5
<1>16. (\A p \in Outputs : QueueInv(p))'
  BY <1>1, <1>9, EndsOutside
<1>17. ControlInv'
  BY DEF HandleRetry, EventDone, ControlInv, CreateInv, StartInv, Starting, OneInv,
         HandleInv, Handling
<1>18. QED BY <1>11, <1>13, <1>14, <1>15, <1>16, <1>17 DEF IInv, DataInv

-----------------------------------------------------------------------------
(* The timer of a retry that is given up, and the release of space.        *)

\* A task without users has nothing in flight.
LEMMA NothingInFlight ==
  ASSUME IInv, NEW c \in Chunks, users[c] = 0
  PROVE  \A p \in Outputs : flush[c][p] = "idle"
<1>1. IsFiniteSet(Busy(c)) BY SetsAssumption, FS_Subset DEF Busy
<1>2. Cardinality(Busy(c)) = 0 BY DEF IInv, DataInv, UsersExact
<1>3. Busy(c) = {} BY <1>1, <1>2, FS_EmptySet
<1>4. QED BY <1>3 DEF Busy

\* A task without users is destroyed between two handlers.
LEMMA DestroyIdleTask ==
  ASSUME IInv, NEW c \in Chunks, pc = "loop", users[c] = 0, chunk[c] = "busy",
         Destroy(c), mask' \in [Chunks -> SUBSET Outputs], MetricTypeOK',
         UNCHANGED <<tid, users, flush, queueVars, ctlVars>>
  PROVE  IInv'
<1>1. status[c] # "none" BY DEF IInv, DataInv, TaskInv
<1>2. \A p \in Outputs : flush'[c][p] = "idle" BY NothingInFlight
<1>3. /\ chunk' \in [Chunks -> {"none", "ready", "busy", "gone"}]
      /\ up' \in [Chunks -> BOOLEAN]
      /\ task_map' \in [TaskIds -> Chunks \cup {None, Freed}]
      /\ status' \in [Chunks -> {"none", "new", "running"}]
      /\ route' \in [Chunks -> [Outputs -> RouteStates]]
      /\ attempts' \in [Chunks -> [Outputs -> 0 .. AttemptCap]]
      /\ request' \in [Chunks -> [Outputs -> Nat]]
      /\ (\A d \in Chunks : TaskInv(d))'
      /\ (\A d \in Chunks, p \in Outputs : RouteInv(d, p))'
  BY <1>1, <1>2, TaskDestroyed
<1>4. DataTypeOK'
  BY <1>3 DEF IInv, TypeOK, DataTypeOK
<1>5. ControlTypeOK'
  BY DEF IInv, TypeOK, ControlTypeOK
<1>6. UsersExact' /\ (\A p \in Outputs : QueueInv(p))'
  BY UsersFrame, QueueFrame DEF IInv, DataInv
<1>7. ControlInv'
  BY DEF ControlInv, CreateInv, StartInv, Starting, OneInv, HandleInv, Handling
<1>8. QED BY <1>3, <1>4, <1>5, <1>6, <1>7 DEF IInv, TypeOK, DataInv

\* A retry that waits for its timer is destroyed.
LEMMA DestroyWaitingRetry ==
  ASSUME IInv, NEW c \in Chunks, NEW o \in Outputs, RetryFires(c, o),
         RetryDestroy(c, o), NEW u \in BOOLEAN,
         up' = [up EXCEPT ![c] = u], up[c] => u,
         UNCHANGED <<chunk, mask, taskVars, flush, queueVars, metricVars, ctlVars>>
  PROVE  IInv'
<1>1. request[c][o] > 0 /\ pc = "loop" BY DEF RetryFires
<1>2. flush[c][o] = "idle" /\ status[c] = "running"
  <2>1. request \in [Chunks -> [Outputs -> Nat]]
    BY DEF IInv, TypeOK, DataTypeOK
  <2>2. QED BY <1>1, <2>1 DEF IInv, DataInv, RouteInv
<1>3. /\ attempts' \in [Chunks -> [Outputs -> 0 .. AttemptCap]]
      /\ request' \in [Chunks -> [Outputs -> Nat]]
      /\ \A d \in Chunks, p \in Outputs :
           /\ attempts'[d][p] = IF d = c /\ p = o THEN 0 ELSE attempts[d][p]
           /\ request'[d][p] = IF d = c /\ p = o THEN 0 ELSE request[d][p]
  BY RetryDestroyed
<1>4. up' \in [Chunks -> BOOLEAN] /\ up'[c] = u /\ \A d \in Chunks : d # c => up'[d] = up[d]
  BY DEF IInv, TypeOK, DataTypeOK
<1>5. TypeOK'
  BY <1>3, <1>4 DEF IInv, TypeOK, DataTypeOK, MetricTypeOK, ControlTypeOK
<1>6. (\A d \in Chunks : TaskInv(d))'
  BY <1>2, <1>4 DEF IInv, DataInv, TaskInv
<1>7. ASSUME NEW d \in Chunks, NEW p \in Outputs PROVE RouteInv(d, p)'
  <2>1. RouteInv(d, p) BY DEF IInv, DataInv
  <2>2. CASE d # c
    BY <1>3, <1>4, <2>1, <2>2 DEF RouteInv
  <2>3. CASE d = c /\ p # o
    BY <1>3, <1>4, <2>1, <2>3 DEF RouteInv
  <2>4. CASE d = c /\ p = o
    BY <1>2, <1>3, <1>4, <2>1, <2>4 DEF RouteInv
  <2>5. QED BY <2>2, <2>3, <2>4
<1>8. UsersExact' /\ (\A p \in Outputs : QueueInv(p))'
  BY UsersFrame, QueueFrame DEF IInv, DataInv
<1>9. ControlInv'
  BY <1>1 DEF ControlInv, CreateInv, StartInv, Starting, OneInv, HandleInv, Handling
<1>10. QED BY <1>5, <1>6, <1>7, <1>8, <1>9 DEF IInv, DataInv

\* A retry whose chunk stays down cannot be scheduled again.
LEMMA RetryAbandonedStep ==
  ASSUME IInv, NEW c \in Chunks, NEW o \in Outputs, RetryAbandoned(c, o)
  PROVE  IInv'
<1>1. RetryFires(c, o) /\ pc = "loop" /\ request[c][o] > 0
  BY DEF RetryAbandoned, RetryFires
<1>2. CASE users[c] = 0 /\ Destroy(c) /\ UNCHANGED <<mask, tid, users>>
  <2>1. chunk[c] = "busy"
    <3>1. request \in [Chunks -> [Outputs -> Nat]]
      BY DEF IInv, TypeOK, DataTypeOK
    <3>2. QED BY <1>1, <3>1 DEF IInv, DataInv, RouteInv, TaskInv
  <2>2. mask' \in [Chunks -> SUBSET Outputs] /\ MetricTypeOK'
    BY <1>2 DEF IInv, TypeOK, DataTypeOK, MetricTypeOK, RetryAbandoned
  <2>3. QED BY <1>1, <1>2, <2>1, <2>2, DestroyIdleTask DEF RetryAbandoned
<1>3. CASE RetryDestroy(c, o) /\ UNCHANGED <<chunkVars, taskVars>>
  <2>1. up[c] \in BOOLEAN /\ up' = [up EXCEPT ![c] = up[c]]
    BY <1>3 DEF IInv, TypeOK, DataTypeOK
  <2>2. QED BY <1>1, <1>3, <2>1, DestroyWaitingRetry DEF RetryAbandoned
<1>4. QED BY <1>2, <1>3 DEF RetryAbandoned

\* A fired retry fails before its flush begins.
LEMMA RetryFailsStep ==
  ASSUME IInv, NEW c \in Chunks, NEW o \in Outputs, RetryFails(c, o)
  PROVE  IInv'
BY DestroyWaitingRetry DEF RetryFails

\* Space release takes a chunk without a task.
LEMMA ReleaseChunkStep ==
  ASSUME IInv, NEW c \in Chunks, NEW o \in Outputs, NEW scope \in Scopes(c),
         ReleaseChunk(c, o, scope)
  PROVE  IInv'
<1>1. status[c] = "none" /\ pc = "loop"
  BY DEF IInv, DataInv, TaskInv, ReleaseChunk, Releases
<1>2. TypeOK'
  <2>1. MetricTypeOK'
    <3>1. dropped \in [Chunks -> [Outputs -> Nat]] BY DEF IInv, TypeOK, MetricTypeOK
    <3>2. dropped[c][o] + 1 \in Nat BY <3>1
    <3>3. dropped' \in [Chunks -> [Outputs -> Nat]] BY <3>1, <3>2, SetType DEF ReleaseChunk
    <3>4. QED BY <3>3 DEF IInv, TypeOK, MetricTypeOK, ReleaseChunk
  <2>2. mask' \in [Chunks -> SUBSET Outputs]
    BY DEF IInv, TypeOK, DataTypeOK, ReleaseChunk, MaskAfter
  <2>3. chunk' \in [Chunks -> {"none", "ready", "busy", "gone"}] /\ up' \in [Chunks -> BOOLEAN]
    BY DEF IInv, TypeOK, DataTypeOK, ReleaseChunk
  <2>4. DataTypeOK' /\ ControlTypeOK'
    BY <2>2, <2>3 DEF IInv, TypeOK, DataTypeOK, ControlTypeOK, ReleaseChunk
  <2>5. QED BY <2>1, <2>4 DEF TypeOK
<1>3. chunk'[c] # "busy" /\ \A d \in Chunks : d # c => up'[d] = up[d] /\ chunk'[d] = chunk[d]
  BY DEF IInv, TypeOK, DataTypeOK, ReleaseChunk
<1>4. (\A d \in Chunks : TaskInv(d))'
  BY <1>1, <1>3 DEF IInv, DataInv, TaskInv, ReleaseChunk
<1>5. (\A d \in Chunks, p \in Outputs : RouteInv(d, p))'
  <2>1. \A p \in Outputs : flush[c][p] = "idle"
    BY <1>1 DEF IInv, DataInv, RouteInv
  <2>2. QED
    BY <1>3, <2>1 DEF IInv, DataInv, RouteInv, ReleaseChunk
<1>6. UsersExact' /\ (\A p \in Outputs : QueueInv(p))'
  BY UsersFrame, QueueFrame DEF IInv, DataInv, ReleaseChunk
<1>7. ControlInv'
  BY <1>1 DEF ReleaseChunk, ControlInv, CreateInv, StartInv, Starting, OneInv, HandleInv, Handling
<1>8. QED BY <1>2, <1>4, <1>5, <1>6, <1>7 DEF IInv, DataInv

\* Space release drops an inactive route of a task in use.
LEMMA ReleaseRouteStep ==
  ASSUME IInv, NEW c \in Chunks, NEW o \in Outputs, NEW scope \in Scopes(c),
         ReleaseRoute(c, o, scope)
  PROVE  IInv'
<1>1. pc = "loop" BY DEF ReleaseRoute, Releases
<1>2. route \in [Chunks -> [Outputs -> RouteStates]]
  BY DEF IInv, TypeOK, DataTypeOK
<1>3. PICK r \in {"absent", "dropped"} :
        /\ r = "absent" <=> route[c][o] = "absent"
        /\ route' = Set(route, c, o, r)
  BY DEF ReleaseRoute
<1>4. route' \in [Chunks -> [Outputs -> RouteStates]]
  <2>1. r \in RouteStates BY DEF RouteStates
  <2>2. QED BY <1>2, <1>3, <2>1, SetType
<1>5. \A d \in Chunks, p \in Outputs :
        route'[d][p] = IF d = c /\ p = o THEN r ELSE route[d][p]
  BY <1>2, <1>3 DEF Set
<1>6. mask' \in [Chunks -> SUBSET Outputs]
  BY DEF IInv, TypeOK, DataTypeOK, ReleaseRoute, MaskAfter
<1>7. TypeOK'
  BY <1>4, <1>6 DEF IInv, TypeOK, DataTypeOK, MetricTypeOK, ControlTypeOK, ReleaseRoute
<1>8. flush[c][o] # "run"
  BY DEF IInv, DataInv, RouteInv, ReleaseRoute, MayDropRoute
<1>9. (\A d \in Chunks, p \in Outputs : RouteInv(d, p))'
  BY <1>3, <1>5, <1>8 DEF IInv, DataInv, RouteInv, ReleaseRoute
<1>10. UsersExact' /\ (\A p \in Outputs : QueueInv(p))' /\ (\A d \in Chunks : TaskInv(d))'
  BY UsersFrame, QueueFrame, TaskFrame DEF IInv, DataInv, ReleaseRoute
<1>11. ControlInv'
  BY <1>1 DEF ReleaseRoute, ControlInv, CreateInv, StartInv, Starting, OneInv, HandleInv, Handling
<1>12. QED BY <1>7, <1>9, <1>10, <1>11 DEF IInv, DataInv

\* Space release takes a task without users.
LEMMA ReleaseTaskStep ==
  ASSUME IInv, NEW c \in Chunks, NEW o \in Outputs, NEW scope \in Scopes(c),
         ReleaseTask(c, o, scope)
  PROVE  IInv'
<1>1. pc = "loop" BY DEF ReleaseTask, Releases
<1>2. mask' \in [Chunks -> SUBSET Outputs]
  BY DEF IInv, TypeOK, DataTypeOK, ReleaseTask, MaskAfter
<1>3. MetricTypeOK'
  <2>1. dropped \in [Chunks -> [Outputs -> Nat]] BY DEF IInv, TypeOK, MetricTypeOK
  <2>2. dropped[c][o] + 1 \in Nat BY <2>1
  <2>3. dropped' \in [Chunks -> [Outputs -> Nat]] BY <2>1, <2>2, SetType DEF ReleaseTask
  <2>4. QED BY <2>3 DEF IInv, TypeOK, MetricTypeOK, ReleaseTask
<1>4. CASE Destroy(c)
  BY <1>1, <1>2, <1>3, <1>4, DestroyIdleTask DEF ReleaseTask
<1>5. CASE UNCHANGED <<chunk, up, task_map, status, route, retryVars>>
  <2>1. TypeOK'
    BY <1>2, <1>3, <1>5 DEF IInv, TypeOK, DataTypeOK, ControlTypeOK, ReleaseTask
  <2>2. DataInv'
    BY <1>5, UsersFrame, TaskFrame, RouteFrame, QueueFrame DEF IInv, DataInv, ReleaseTask
  <2>3. ControlInv'
    BY <1>1 DEF ReleaseTask, ControlInv, CreateInv, StartInv, Starting, OneInv, HandleInv, Handling
  <2>4. QED BY <2>1, <2>2, <2>3 DEF IInv
<1>6. QED BY <1>4, <1>5 DEF ReleaseTask

\* A ring buffer takes one of its chunks that no output uses.
LEMMA ReleaseRingStep ==
  ASSUME IInv, NEW c \in Chunks, ReleaseRing(c)
  PROVE  IInv'
<1>1. pc = "loop" BY DEF ReleaseRing
<1>2. mask' \in [Chunks -> SUBSET Outputs] /\ MetricTypeOK'
  BY DEF IInv, TypeOK, DataTypeOK, MetricTypeOK, ReleaseRing
<1>3. CASE chunk[c] = "busy" /\ users[c] = 0 /\ Destroy(c)
  BY <1>1, <1>2, <1>3, DestroyIdleTask DEF ReleaseRing
<1>4. CASE /\ chunk[c] = "ready"
           /\ chunk' = [chunk EXCEPT ![c] = "gone"] /\ up' = [up EXCEPT ![c] = FALSE]
           /\ UNCHANGED <<task_map, status, route, retryVars>>
  <2>1. status[c] = "none" BY <1>4 DEF IInv, DataInv, TaskInv
  <2>2. TypeOK'
    BY <1>2, <1>4 DEF IInv, TypeOK, DataTypeOK, ControlTypeOK, ReleaseRing
  <2>3. chunk'[c] # "busy" /\ \A d \in Chunks : d # c => up'[d] = up[d] /\ chunk'[d] = chunk[d]
    BY <1>4 DEF IInv, TypeOK, DataTypeOK
  <2>4. (\A d \in Chunks : TaskInv(d))'
    BY <1>4, <2>1, <2>3 DEF IInv, DataInv, TaskInv, ReleaseRing
  <2>5. (\A d \in Chunks, p \in Outputs : RouteInv(d, p))'
    <3>1. \A p \in Outputs : flush[c][p] = "idle"
      BY <2>1 DEF IInv, DataInv, RouteInv
    <3>2. QED
      BY <1>4, <2>3, <3>1 DEF IInv, DataInv, RouteInv, ReleaseRing
  <2>6. UsersExact' /\ (\A p \in Outputs : QueueInv(p))'
    BY UsersFrame, QueueFrame DEF IInv, DataInv, ReleaseRing
  <2>7. ControlInv'
    BY <1>1 DEF ReleaseRing, ControlInv, CreateInv, StartInv, Starting, OneInv, HandleInv, Handling
  <2>8. QED BY <2>2, <2>4, <2>5, <2>6, <2>7 DEF IInv, DataInv
<1>5. QED BY <1>3, <1>4 DEF ReleaseRing

-----------------------------------------------------------------------------
(* The theorems.                                                           *)

\* The invariant holds when the engine starts.
LEMMA InitIInv == Init => IInv
<1> SUFFICES ASSUME Init PROVE IInv
  OBVIOUS
<1>1. TypeOK
  <2>1. DataTypeOK
    BY LimitAssumption DEF Init, DataTypeOK, RouteStates, Stages
  <2>2. MetricTypeOK /\ ControlTypeOK
    BY DEF Init, MetricTypeOK, ControlTypeOK
  <2>3. QED BY <2>1, <2>2 DEF TypeOK
<1>2. UsersExact
  <2>1. \A c \in Chunks : Busy(c) = {} BY DEF Init, Busy
  <2>2. QED BY <2>1, FS_EmptySet DEF Init, UsersExact
<1>3. (\A c \in Chunks : TaskInv(c)) /\ (\A c \in Chunks, o \in Outputs : RouteInv(c, o))
  BY DEF Init, TaskInv, RouteInv
<1>4. \A o \in Outputs : QueueInv(o)
  BY DEF Init, QueueInv
<1>5. ControlInv
  BY DEF Init, ControlInv, CreateInv, StartInv, Starting, OneInv, HandleInv, Handling
<1>6. QED BY <1>1, <1>2, <1>3, <1>4, <1>5 DEF IInv, DataInv

\* Every step preserves it.
LEMMA NextIInv == IInv /\ [Next]_vars => IInv'
<1> SUFFICES ASSUME IInv, [Next]_vars PROVE IInv'
  OBVIOUS
<1>1. CASE Handler
  <2>1. ASSUME NEW i \in Inputs, DispatchBegin(i) PROVE IInv'
    BY <2>1, DispatchBeginStep
  <2>2. ASSUME NEW c \in Chunks, NEW o \in Outputs,
               \/ TakeEvent(c, o) \/ RetryPostponed(c, o) \/ RetryAbandoned(c, o)
               \/ RetryFails(c, o) \/ RetryFlushed(c, o)
        PROVE  IInv'
    <3>1. CASE TakeEvent(c, o) BY <3>1, TakeEventStep
    <3>2. CASE RetryPostponed(c, o) BY <3>2, StutterStep DEF RetryPostponed
    <3>3. CASE RetryAbandoned(c, o) BY <3>3, RetryAbandonedStep
    <3>4. CASE RetryFails(c, o) BY <3>4, RetryFailsStep
    <3>5. CASE RetryFlushed(c, o) BY <3>5, RetryFlushedStep
    <3>6. QED BY <2>2, <3>1, <3>2, <3>3, <3>4, <3>5
  <2>3. QED BY <1>1, <2>1, <2>2 DEF Handler
<1>2. CASE Continue
  <2>1. CASE CreateBreak BY <2>1, CreateBreakStep
  <2>2. CASE StartBegin BY <2>2, StartBeginStep
  <2>3. CASE TaskStarted BY <2>3, TaskStartedStep
  <2>4. CASE DispatchEnd BY <2>4, DispatchEndStep
  <2>5. CASE FlushOne BY <2>5, FlushOneStep
  <2>6. CASE FlushOneFails BY <2>6, FlushOneFailsStep
  <2>7. CASE HandleOk BY <2>7, HandleOkStep
  <2>8. CASE HandleDrop BY <2>8, HandleDropStep
  <2>9. CASE HandleRetry BY <2>9, HandleRetryStep
  <2>10. CASE HandleUnscheduled BY <2>10, HandleUnscheduledStep
  <2>11. ASSUME NEW c \in Chunks,
                \/ CreateSkip(c) \/ CreateFail(c) \/ CreateTask(c) \/ CreateUseless(c)
                \/ VisitRunning(c) \/ VisitNew(c)
         PROVE  IInv'
    BY <2>11, CreateSkipStep, CreateFailStep, CreateTaskStep, CreateUselessStep,
       VisitRunningStep, VisitNewStep
  <2>12. ASSUME NEW o \in Outputs, RouteSkipped(o) \/ RouteStarted(o) \/ RouteQueued(o)
         PROVE  IInv'
    BY <2>12, RouteSkippedStep, RouteStartedStep, RouteQueuedStep
  <2>13. QED
    BY <1>2, <2>1, <2>2, <2>3, <2>4, <2>5, <2>6, <2>7, <2>8, <2>9, <2>10, <2>11, <2>12
       DEF Continue
<1>3. CASE Output
  <2>1. ASSUME NEW c \in Chunks, NEW o \in Outputs,
               \/ FlushStart(c, o) \/ FlushSkipped(c, o) \/ FlushDropped(c, o)
               \/ FlushLost(c, o)
               \/ \E ret \in Results : FlushReturn(c, o, ret)
        PROVE  IInv'
    BY <2>1, FlushStartStep, FlushSkippedStep, FlushDroppedStep, FlushLostStep, FlushReturnStep
  <2>2. QED BY <1>3, <2>1 DEF Output
<1>4. CASE Input
  <2>1. ASSUME NEW c \in Chunks, Ingest(c) \/ ReleaseRing(c) PROVE IInv'
    BY <2>1, IngestStep, ReleaseRingStep
  <2>2. ASSUME NEW c \in Chunks, NEW o \in Outputs, NEW scope \in Scopes(c),
               \/ ReleaseChunk(c, o, scope) \/ ReleaseRoute(c, o, scope)
               \/ ReleaseTask(c, o, scope)
        PROVE  IInv'
    BY <2>2, ReleaseChunkStep, ReleaseRouteStep, ReleaseTaskStep
  <2>3. QED BY <1>4, <2>1, <2>2 DEF Input
<1>5. CASE UNCHANGED vars BY <1>5, StutterStep
<1>6. QED BY <1>1, <1>2, <1>3, <1>4, <1>5 DEF Next

\* The inductive invariant holds in every state the engine can reach.
THEOREM EngineInvariant == Spec => []IInv
<1>1. Init => IInv BY InitIInv
<1>2. IInv /\ [Next]_vars => IInv' BY NextIInv
<1>3. QED BY <1>1, <1>2, PTL DEF Spec

\* Type correctness: the user count of a task never falls below zero, and an
\* event always leads to a task and an output.
THEOREM EngineTypeOK == Spec => []TypeOK
<1>1. IInv => TypeOK BY DEF IInv
<1>2. QED BY <1>1, EngineInvariant, PTL

\* task->users is the number of flushes in flight, whatever fails
\* (flb_task_users_inc, flb_task_users_dec, the singleplex queue).
THEOREM EngineUsersExact == Spec => []UsersExact
<1>1. IInv => UsersExact BY DEF IInv, DataInv
<1>2. QED BY <1>1, EngineInvariant, PTL

\* The content of a chunk stays mapped while any output uses it
\* (flb_task_retry_create puts it down only for the last user).
THEOREM EngineMappedWhileUsed == Spec => []MappedWhileUsed
<1>1. IInv => MappedWhileUsed
  BY DEF IInv, DataInv, RouteInv, TaskInv, MappedWhileUsed, Busy
<1>2. QED BY <1>1, EngineInvariant, PTL

\* The task id in an event leads to the task that was flushed
\* (config->task_map, handle_output_event).
THEOREM EngineEventFindsItsTask == Spec => []EventFindsItsTask
<1>1. IInv => EventFindsItsTask
  BY DEF IInv, DataInv, RouteInv, TaskInv, EventFindsItsTask, Busy
<1>2. QED BY <1>1, EngineInvariant, PTL

\* A retry has one request or one flush, and no request outlives its retry
\* (flb_sched_request_invalidate, flb_sched_event_handler).
THEOREM EngineRetryExclusive == Spec => []RetryExclusive
<1>1. IInv => RetryExclusive
  BY DEF IInv, DataInv, RouteInv, RetryExclusive
<1>2. QED BY <1>1, EngineInvariant, PTL

\* A route is marked active while its callback runs (output_pre_cb_flush,
\* flb_input_chunk_drop_task_route).
THEOREM EngineFlushingRouteIsActive == Spec => []FlushingRouteIsActive
<1>1. IInv => FlushingRouteIsActive
  BY DEF IInv, DataInv, RouteInv, FlushingRouteIsActive
<1>2. QED BY <1>1, EngineInvariant, PTL
=============================================================================
