-------------------------- MODULE FlbDeliveryProofs --------------------------
(***************************************************************************)
(* FlbEngine implements FlbDelivery: every route of a chunk is counted     *)
(* once, as processed or as dropped, and the chunk is destroyed with the   *)
(* last one.  The proof holds for every number of chunks, inputs and       *)
(* outputs, and rests on an invariant that says which routes of a chunk    *)
(* are still open: their records have not been counted yet.                *)
(***************************************************************************)
EXTENDS FlbEngineTaskProofs

USE DEF chunkVars, taskVars, retryVars, queueVars, metricVars, loopVars, ctlVars

-----------------------------------------------------------------------------
(* The configurations in which the code keeps the promise.  Each condition *)
(* excludes a way in which the code gives up a chunk without counting it,  *)
(* or counts it twice: failures of the hand-over and of the scheduler,     *)
(* routes that tasks_start passes over for good, and the release of space. *)

Lossless ==
  /\ HandOverWorks
  /\ "sched" \notin Faults
  /\ NoMux = {}
  /\ Limited = {}
  /\ \A i \in Inputs : Kind[i] # "memrb"

-----------------------------------------------------------------------------
(* The invariant.                                                          *)

Live(c) == chunk[c] \in {"ready", "busy"}

\* The route of c to o will still be flushed: it waits to be started, or it
\* is in flight, or it waits for its retry.
Open(c, o) ==
  \/ chunk[c] = "ready" \/ status[c] = "new"
  \/ Starting /\ cur = c /\ o \in rts
  \/ flush[c][o] # "idle" \/ attempts[c][o] > 0

\* A chunk keeps the mask it was created with, and its task has the routes
\* the configuration destines it to.
MaskInv(c) == Live(c) => mask[c] = Match[In[c]]
DestinedInv(c, o) == chunk[c] = "busy" => (route[c][o] # "absent" <=> o \in Destined(In[c]))

\* An open route has not been counted, any other one has been, once.
AccountInv(c, o) ==
  Live(c) /\ o \in Destined(In[c]) =>
    \/ Open(c, o) /\ proc[c][o] = 0 /\ dropped[c][o] = 0
    \/ ~Open(c, o) /\ proc[c][o] = 1 /\ dropped[c][o] = 0
    \/ ~Open(c, o) /\ proc[c][o] = 0 /\ dropped[c][o] = 1

\* tasks_start has every route of the task before it until it starts one.
AllToStart == Starting /\ ~hits => Destined(In[cur]) \subseteq rts

LedgerInv ==
  /\ \A c \in Chunks : MaskInv(c)
  /\ \A c \in Chunks, o \in Outputs : DestinedInv(c, o) /\ AccountInv(c, o)
  /\ AllToStart

-----------------------------------------------------------------------------
(* Frames.                                                                 *)

\* The configuration destines a chunk to some of the outputs.
LEMMA DestinedOutputs ==
  ASSUME NEW c \in Chunks PROVE Destined(In[c]) \subseteq Outputs
<1>1. In[c] \in Inputs
  BY InAssumption
<1> QED BY <1>1, MatchAssumption DEF Destined

\* A route that stays open, or stays closed.
LEMMA AccountKept ==
  ASSUME NEW c \in Chunks, NEW o \in Outputs, AccountInv(c, o),
         proc'[c][o] = proc[c][o], dropped'[c][o] = dropped[c][o],
         Live(c)' => Live(c),
         Live(c)' /\ o \in Destined(In[c]) => (Open(c, o)' <=> Open(c, o))
  PROVE  AccountInv(c, o)'
BY DEF AccountInv

\* A step that touches no chunk, no task and no count, and moves flushes
\* only from one stage in flight to another.
LEMMA LedgerFrame ==
  ASSUME IInv, LedgerInv,
         UNCHANGED <<chunk, mask, status, route, attempts, proc, dropped>>,
         \A c \in Chunks, o \in Outputs : flush'[c][o] = "idle" <=> flush[c][o] = "idle",
         \/ ~Starting /\ ~Starting'
         \/ Starting /\ Starting' /\ UNCHANGED <<cur, rts, hits>>
  PROVE  LedgerInv'
<1>1. ASSUME NEW c \in Chunks, NEW o \in Outputs PROVE AccountInv(c, o)'
  <2>1. Open(c, o)' <=> Open(c, o)
    BY DEF Open
  <2> QED BY <2>1, AccountKept DEF LedgerInv, Live
<1>2. \A c \in Chunks : MaskInv(c)'
  BY DEF LedgerInv, MaskInv, Live
<1>3. \A c \in Chunks, o \in Outputs : DestinedInv(c, o)'
  BY DEF LedgerInv, DestinedInv
<1>4. AllToStart'
  BY DEF LedgerInv, AllToStart
<1> QED BY <1>1, <1>2, <1>3, <1>4 DEF LedgerInv

\* A step on one chunk and one output, with the rest of the ledger untouched.
LEMMA LedgerPair ==
  ASSUME IInv, LedgerInv, NEW c \in Chunks, NEW o \in Outputs, NEW st,
         flush' = Set(flush, c, o, st),
         UNCHANGED <<chunk, mask, status, proc, dropped>>,
         \A d \in Chunks, p \in Outputs : route'[d][p] = "absent" <=> route[d][p] = "absent",
         \A d \in Chunks, p \in Outputs : ~(d = c /\ p = o) => attempts'[d][p] = attempts[d][p],
         \/ ~Starting /\ ~Starting'
         \/ Starting /\ Starting' /\ cur' = cur /\ rts \ {o} \subseteq rts' /\ rts' \subseteq rts
            /\ (rts' = rts \/ cur = c),
         AllToStart',
         Open(c, o)' <=> Open(c, o)
  PROVE  LedgerInv'
<1>1. ASSUME NEW d \in Chunks, NEW p \in Outputs PROVE AccountInv(d, p)'
  <2>1. CASE d = c /\ p = o
    BY <2>1, AccountKept DEF LedgerInv, Live
  <2>2. CASE ~(d = c /\ p = o)
    <3>1. flush'[d][p] = flush[d][p] /\ attempts'[d][p] = attempts[d][p]
      BY <2>2 DEF Set, IInv, TypeOK, DataTypeOK
    <3>2. (Starting /\ cur = d /\ p \in rts)' <=> (Starting /\ cur = d /\ p \in rts)
      BY <2>2
    <3>3. Open(d, p)' <=> Open(d, p)
      BY <3>1, <3>2 DEF Open
    <3> QED BY <3>3, AccountKept DEF LedgerInv, Live
  <2> QED BY <2>1, <2>2
<1>2. \A d \in Chunks : MaskInv(d)'
  BY DEF LedgerInv, MaskInv, Live
<1>3. \A d \in Chunks, p \in Outputs : DestinedInv(d, p)'
  BY DEF LedgerInv, DestinedInv
<1> QED BY <1>1, <1>2, <1>3 DEF LedgerInv

-----------------------------------------------------------------------------
(* The invariant is kept.                                                  *)

\* A chunk comes in with every route open and nothing counted.
LEMMA LedgerIngest ==
  ASSUME IInv, LedgerInv, NEW c \in Chunks, Ingest(c)
  PROVE  LedgerInv'
<1>1. /\ chunk' = [chunk EXCEPT ![c] = "ready"]
      /\ mask' = [mask EXCEPT ![c] = Match[In[c]]]
      /\ proc' = [proc EXCEPT ![c] = [o \in Outputs |-> 0]]
      /\ dropped' = [dropped EXCEPT ![c] = [o \in Outputs |-> 0]]
      /\ UNCHANGED <<status, route, attempts, flush>> /\ ~Starting /\ ~Starting'
  BY DEF Ingest, NoneOf, Starting
<1>2. ASSUME NEW d \in Chunks, NEW o \in Outputs PROVE AccountInv(d, o)'
  <2>1. CASE d = c
    BY <1>1, <2>1 DEF AccountInv, Open, IInv, TypeOK, DataTypeOK, MetricTypeOK
  <2>2. CASE d # c
    <3>1. chunk'[d] = chunk[d] /\ proc'[d] = proc[d] /\ dropped'[d] = dropped[d]
      BY <1>1, <2>2 DEF IInv, TypeOK, DataTypeOK, MetricTypeOK
    <3>2. Open(d, o)' <=> Open(d, o)
      BY <1>1, <3>1 DEF Open
    <3> QED BY <3>1, <3>2, AccountKept DEF LedgerInv, Live
  <2> QED BY <2>1, <2>2
<1>3. \A d \in Chunks : MaskInv(d)'
  BY <1>1 DEF LedgerInv, MaskInv, Live, IInv, TypeOK, DataTypeOK
<1>4. \A d \in Chunks, o \in Outputs : DestinedInv(d, o)'
  BY <1>1 DEF LedgerInv, DestinedInv, IInv, TypeOK, DataTypeOK
<1>5. AllToStart'
  BY <1>1 DEF AllToStart
<1> QED BY <1>2, <1>3, <1>4, <1>5 DEF LedgerInv

\* The routes of a task are those the configuration destines the chunk to.
LEMMA TaskRoutesDestined ==
  ASSUME LedgerInv, NEW c \in Chunks, chunk[c] = "ready"
  PROVE  TaskRoutes(c) = Destined(In[c])
BY DEF LedgerInv, MaskInv, Live, TaskRoutes, Destined

\* A task is created: its routes stay open.
LEMMA LedgerCreateTask ==
  ASSUME IInv, LedgerInv, NEW c \in Chunks, CreateTask(c)
  PROVE  LedgerInv'
<1>1. /\ chunk[c] = "ready" /\ chunk' = [chunk EXCEPT ![c] = "busy"]
      /\ status' = [status EXCEPT ![c] = "new"]
      /\ UNCHANGED <<mask, attempts, flush, proc, dropped>> /\ ~Starting /\ ~Starting'
  BY DEF CreateTask, Starting, IInv, ControlInv, CreateInv
<1>2. PICK st \in [TaskRoutes(c) -> NewRouteStatus(c)] :
        route' = [route EXCEPT ![c] =
                    [o \in Outputs |-> IF o \in TaskRoutes(c) THEN st[o] ELSE "absent"]]
  BY DEF CreateTask
<1>3. ASSUME NEW d \in Chunks, NEW o \in Outputs PROVE AccountInv(d, o)'
  <2>1. Open(d, o)' <=> Open(d, o)
    BY <1>1 DEF Open, IInv, TypeOK, DataTypeOK
  <2>2. Live(d)' <=> Live(d)
    BY <1>1 DEF Live, IInv, TypeOK, DataTypeOK
  <2> QED BY <1>1, <2>1, <2>2, AccountKept DEF LedgerInv
<1>4. ASSUME NEW d \in Chunks PROVE MaskInv(d)'
  <2>1. Live(d)' <=> Live(d)
    BY <1>1 DEF Live, IInv, TypeOK, DataTypeOK
  <2> QED BY <1>1, <2>1 DEF LedgerInv, MaskInv
<1>5. ASSUME NEW d \in Chunks, NEW o \in Outputs PROVE DestinedInv(d, o)'
  <2>1. CASE d = c
    <3>1. route'[c][o] = IF o \in TaskRoutes(c) THEN st[o] ELSE "absent"
      BY <1>2 DEF IInv, TypeOK, DataTypeOK
    <3>2. o \in TaskRoutes(c) => st[o] # "absent"
      BY DEF NewRouteStatus
    <3>3. TaskRoutes(c) = Destined(In[c])
      BY <1>1, TaskRoutesDestined
    <3> QED BY <2>1, <3>1, <3>2, <3>3 DEF DestinedInv
  <2>2. CASE d # c
    <3>1. chunk'[d] = chunk[d] /\ route'[d] = route[d]
      BY <1>1, <1>2, <2>2 DEF IInv, TypeOK, DataTypeOK
    <3> QED BY <3>1 DEF LedgerInv, DestinedInv
  <2> QED BY <2>1, <2>2
<1>6. AllToStart'
  BY <1>1 DEF AllToStart
<1> QED BY <1>3, <1>4, <1>5, <1>6 DEF LedgerInv

\* A chunk without a route is destroyed.
LEMMA LedgerCreateUseless ==
  ASSUME IInv, LedgerInv, NEW c \in Chunks, CreateUseless(c)
  PROVE  LedgerInv'
<1>1. /\ chunk' = [chunk EXCEPT ![c] = "gone"]
      /\ UNCHANGED <<mask, status, route, attempts, flush, proc, dropped>>
      /\ ~Starting /\ ~Starting'
  BY DEF CreateUseless, Starting
<1>2. /\ ~Live(c)' /\ chunk'[c] = "gone"
      /\ \A d \in Chunks : d # c => chunk'[d] = chunk[d]
  BY <1>1 DEF Live, IInv, TypeOK, DataTypeOK
<1>3. ASSUME NEW d \in Chunks, NEW o \in Outputs PROVE AccountInv(d, o)' /\ DestinedInv(d, o)'
  <2>1. CASE d = c
    BY <1>2, <2>1 DEF AccountInv, DestinedInv
  <2>2. CASE d # c
    <3>1. Open(d, o)' <=> Open(d, o)
      BY <1>1, <1>2, <2>2 DEF Open
    <3>2. AccountInv(d, o)'
      BY <1>1, <1>2, <2>2, <3>1, AccountKept DEF LedgerInv, Live
    <3> QED BY <1>1, <1>2, <2>2, <3>2 DEF LedgerInv, DestinedInv
  <2> QED BY <2>1, <2>2
<1>4. \A d \in Chunks : MaskInv(d)'
  BY <1>1, <1>2 DEF LedgerInv, MaskInv, Live
<1>5. AllToStart'
  BY <1>1 DEF AllToStart
<1> QED BY <1>3, <1>4, <1>5 DEF LedgerInv

\* tasks_start takes a new task: all its routes are to be started.
LEMMA LedgerVisitNew ==
  ASSUME IInv, LedgerInv, NEW c \in Chunks, VisitNew(c)
  PROVE  LedgerInv'
<1>1. /\ UNCHANGED <<chunk, mask, route, attempts, flush, proc, dropped>>
      /\ status[c] = "new" /\ status' = [status EXCEPT ![c] = "running"]
      /\ ~Starting /\ Starting' /\ cur' = c /\ rts' = Routes(c)
  BY DEF VisitNew, Starting
<1>2. chunk[c] = "busy"
  BY <1>1 DEF IInv, DataInv, TaskInv
<1>3. \A o \in Outputs : o \in rts' <=> o \in Destined(In[c])
  BY <1>1, <1>2 DEF Routes, LedgerInv, DestinedInv
<1>4. ASSUME NEW d \in Chunks, NEW o \in Outputs PROVE AccountInv(d, o)'
  <2>1. CASE d = c
    <3>1. o \in Destined(In[c]) => Open(c, o)' /\ Open(c, o)
      BY <1>1, <1>3 DEF Open
    <3> QED BY <1>1, <2>1, <3>1, AccountKept DEF LedgerInv, Live
  <2>2. CASE d # c
    <3>1. status'[d] = status[d]
      BY <1>1, <2>2 DEF IInv, TypeOK, DataTypeOK
    <3>2. Open(d, o)' <=> Open(d, o)
      BY <1>1, <2>2, <3>1 DEF Open
    <3> QED BY <1>1, <3>2, AccountKept DEF LedgerInv, Live
  <2> QED BY <2>1, <2>2
<1>5. /\ \A d \in Chunks : MaskInv(d)'
      /\ \A d \in Chunks, o \in Outputs : DestinedInv(d, o)'
  BY <1>1 DEF LedgerInv, MaskInv, DestinedInv, Live
<1>6. AllToStart'
  BY <1>1, <1>3, DestinedOutputs DEF AllToStart
<1> QED BY <1>4, <1>5, <1>6 DEF LedgerInv

\* tasks_start has gone through the routes of a task.
LEMMA LedgerTaskStarted ==
  ASSUME IInv, LedgerInv, TaskStarted
  PROVE  LedgerInv'
<1>1. /\ UNCHANGED <<chunk, mask, route, attempts, flush, proc, dropped>>
      /\ status' = [status EXCEPT ![cur] = IF hits THEN @ ELSE "new"]
      /\ Starting /\ ~Starting' /\ rts = {} /\ cur \in Chunks
  BY DEF TaskStarted, Starting, IInv, ControlInv, StartInv
<1>2. ASSUME NEW d \in Chunks, NEW o \in Outputs PROVE AccountInv(d, o)'
  <2>1. CASE d = cur /\ ~hits
    <3>1. o \notin Destined(In[d])
      BY <1>1, <2>1 DEF LedgerInv, AllToStart
    <3> QED BY <3>1 DEF AccountInv
  <2>2. CASE ~(d = cur /\ ~hits)
    <3>1. status'[d] = status[d]
      BY <1>1, <2>2 DEF IInv, TypeOK, DataTypeOK
    <3>2. Open(d, o)' <=> Open(d, o)
      BY <1>1, <3>1 DEF Open
    <3> QED BY <1>1, <3>2, AccountKept DEF LedgerInv, Live
  <2> QED BY <2>1, <2>2
<1>3. /\ \A d \in Chunks : MaskInv(d)'
      /\ \A d \in Chunks, o \in Outputs : DestinedInv(d, o)'
  BY <1>1 DEF LedgerInv, MaskInv, DestinedInv, Live
<1>4. AllToStart'
  BY <1>1 DEF AllToStart
<1> QED BY <1>2, <1>3, <1>4 DEF LedgerInv

\* tasks_start starts a route, at once or through the singleplex queue.
LEMMA LedgerRoute ==
  ASSUME IInv, LedgerInv, HandOverWorks, NEW o \in Outputs, RouteStarted(o) \/ RouteQueued(o)
  PROVE  LedgerInv'
<1>1. /\ Starting /\ Starting' /\ cur \in Chunks /\ o \in rts /\ rts' = rts \ {o}
      /\ cur' = cur /\ hits'
      /\ UNCHANGED <<chunk, mask, status, route, attempts, proc, dropped>>
  BY DEF RouteStarted, RouteQueued, Enqueue, Starting, IInv, ControlInv, StartInv
<1>2. PICK st \in {"pipe", "queued"} : flush' = Set(flush, cur, o, st)
  BY DEF RouteStarted, RouteQueued, TaskFlush, Enqueue, HandOverWorks
<1>3. PICK c \in Chunks : c = cur
  BY <1>1
<1>4. Open(c, o) /\ Open(c, o)'
  <2>1. flush'[c][o] = st
    BY <1>1, <1>2, <1>3 DEF Set, IInv, TypeOK, DataTypeOK
  <2> QED BY <1>1, <1>3, <2>1 DEF Open
<1>5. AllToStart'
  BY <1>1 DEF AllToStart
<1> QED BY <1>1, <1>2, <1>3, <1>4, <1>5, LedgerPair

\* A retry that waits for its timer is flushed.
LEMMA LedgerRetryFlushed ==
  ASSUME IInv, LedgerInv, NEW c \in Chunks, NEW o \in Outputs, RetryFlushed(c, o)
  PROVE  LedgerInv'
<1>1. /\ ~Starting /\ ~Starting' /\ attempts[c][o] > 0
      /\ UNCHANGED <<chunk, mask, status, route, attempts, proc, dropped>>
  BY DEF RetryFlushed, RetryFires, Enqueue, Starting, IInv, DataInv, RouteInv
<1>2. PICK st \in {"pipe", "queued"} : flush' = Set(flush, c, o, st)
  BY DEF RetryFlushed, TaskFlush, Enqueue
<1>3. Open(c, o) /\ Open(c, o)'
  BY <1>1 DEF Open
<1>4. AllToStart'
  BY <1>1 DEF AllToStart
<1> QED BY <1>1, <1>2, <1>3, <1>4, LedgerPair

\* The event of a flush that is retried: the route stays open.
LEMMA LedgerRetried ==
  ASSUME IInv, LedgerInv, HandleRetry
  PROVE  LedgerInv'
<1>1. /\ ~Starting /\ ~Starting' /\ cur \in Chunks /\ out \in Outputs
      /\ flush[cur][out] # "idle" /\ flush' = Set(flush, cur, out, "idle")
      /\ attempts' = Set(attempts, cur, out, CountTo(attempts[cur][out], AttemptCap))
      /\ UNCHANGED <<chunk, mask, status, route, proc, dropped>>
  BY EventInHand DEF HandleRetry, EventDone, Starting
<1>2. PICK c \in Chunks, o \in Outputs : c = cur /\ o = out
  BY <1>1
<1>3. attempts'[c][o] > 0
  <2>1. attempts[c][o] \in Nat /\ AttemptCap \in Nat \ {0}
    BY LimitAssumption DEF IInv, TypeOK, DataTypeOK
  <2> QED BY <1>1, <1>2, <2>1 DEF Set, CountTo, IInv, TypeOK, DataTypeOK
<1>4. \A d \in Chunks, p \in Outputs : ~(d = c /\ p = o) => attempts'[d][p] = attempts[d][p]
  BY <1>1, <1>2 DEF Set, IInv, TypeOK, DataTypeOK
<1>5. Open(c, o) /\ Open(c, o)'
  BY <1>1, <1>2, <1>3 DEF Open
<1>6. AllToStart'
  BY <1>1 DEF AllToStart
<1> QED BY <1>1, <1>2, <1>4, <1>5, <1>6, LedgerPair

\* A flush moves on in the hands of its thread.
LEMMA LedgerOutput ==
  ASSUME IInv, LedgerInv, Output
  PROVE  LedgerInv'
<1>1. PICK c \in Chunks, o \in Outputs :
        \/ FlushStart(c, o) \/ FlushSkipped(c, o) \/ FlushDropped(c, o)
        \/ FlushLost(c, o)
        \/ \E ret \in Results : FlushReturn(c, o, ret)
  BY DEF Output
<1>2. PICK st \in Stages \ {"idle"} : flush' = Set(flush, c, o, st)
  BY <1>1 DEF FlushStart, FlushSkipped, FlushDropped, FlushLost, FlushReturn, Stages, Results
<1>3. /\ flush[c][o] # "idle"
      /\ UNCHANGED <<chunk, mask, status, attempts, proc, dropped, ctlVars>>
  BY <1>1 DEF FlushStart, FlushSkipped, FlushDropped, FlushLost, FlushReturn
<1>4. UNCHANGED route \/ \E r \in {"active", "inactive"} : route' = Set(route, c, o, r)
  BY <1>1 DEF FlushStart, FlushSkipped, FlushDropped, FlushLost, FlushReturn
<1>5. ASSUME NEW d \in Chunks, NEW p \in Outputs
      PROVE  route'[d][p] = "absent" <=> route[d][p] = "absent"
  <2>1. route[c][o] # "absent"
    BY <1>3 DEF IInv, DataInv, RouteInv
  <2>2. ASSUME NEW r \in {"active", "inactive"}, route' = Set(route, c, o, r)
        PROVE  route'[d][p] = "absent" <=> route[d][p] = "absent"
    BY <2>1, <2>2 DEF Set, IInv, TypeOK, DataTypeOK
  <2> QED BY <1>4, <2>2
<1>6. Open(c, o) /\ Open(c, o)'
  <2>1. flush'[c][o] # "idle"
    BY <1>2 DEF Set, IInv, TypeOK, DataTypeOK
  <2> QED BY <1>3, <2>1 DEF Open
<1>7. AllToStart' /\ (Starting' <=> Starting)
  BY <1>3 DEF LedgerInv, AllToStart, Starting
<1> QED BY <1>2, <1>3, <1>5, <1>6, <1>7, LedgerPair

\* One of the two counts of a route goes up by one.
Counted(c, o) ==
  \/ proc' = Set(proc, c, o, proc[c][o] + 1) /\ UNCHANGED dropped
  \/ dropped' = Set(dropped, c, o, dropped[c][o] + 1) /\ UNCHANGED proc

\* The flush whose event is handled is one of a route that was not counted.
LEMMA EventAccount ==
  ASSUME IInv, LedgerInv, pc = "event"
  PROVE  /\ cur \in Chunks /\ out \in Outputs /\ flush[cur][out] # "idle"
         /\ chunk[cur] = "busy" /\ status[cur] = "running" /\ out \in Destined(In[cur])
         /\ proc[cur][out] = 0 /\ dropped[cur][out] = 0
<1>1. /\ cur \in Chunks /\ out \in Outputs /\ flush[cur][out] # "idle"
      /\ status[cur] = "running"
  BY EventInHand
<1>2. chunk[cur] = "busy" /\ route[cur][out] # "absent"
  BY <1>1 DEF IInv, DataInv, TaskInv, RouteInv
<1>3. out \in Destined(In[cur])
  BY <1>1, <1>2 DEF LedgerInv, DestinedInv
<1>4. Open(cur, out) /\ Live(cur)
  BY <1>1, <1>2 DEF Open, Live
<1>5. AccountInv(cur, out)
  BY <1>1 DEF LedgerInv
<1>6. proc[cur][out] = 0 /\ dropped[cur][out] = 0
  BY <1>3, <1>4, <1>5 DEF AccountInv
<1> QED BY <1>1, <1>2, <1>3, <1>6

\* What the counts are after the event.
LEMMA CountedOnce ==
  ASSUME IInv, LedgerInv, pc = "event", Counted(cur, out)
  PROVE  /\ \/ proc'[cur][out] = 1 /\ dropped'[cur][out] = 0
            \/ proc'[cur][out] = 0 /\ dropped'[cur][out] = 1
         /\ \A d \in Chunks, p \in Outputs :
              ~(d = cur /\ p = out) => proc'[d][p] = proc[d][p] /\ dropped'[d][p] = dropped[d][p]
<1>0. /\ cur \in Chunks /\ out \in Outputs /\ proc[cur][out] = 0 /\ dropped[cur][out] = 0
      /\ proc \in [Chunks -> [Outputs -> Nat]] /\ dropped \in [Chunks -> [Outputs -> Nat]]
  BY EventAccount DEF IInv, TypeOK, MetricTypeOK
<1>1. CASE proc' = Set(proc, cur, out, proc[cur][out] + 1) /\ UNCHANGED dropped
  BY <1>0, <1>1 DEF Set
<1>2. CASE dropped' = Set(dropped, cur, out, dropped[cur][out] + 1) /\ UNCHANGED proc
  BY <1>0, <1>2 DEF Set
<1> QED BY <1>1, <1>2 DEF Counted

\* The event of a flush that is not retried: its route is counted and closed.
LEMMA LedgerSettled ==
  ASSUME IInv, LedgerInv, pc = "event", NEW u, CleanAndRelease(cur, out, u), EventDone,
         Counted(cur, out)
  PROVE  LedgerInv'
<1>1. PICK c \in Chunks, o \in Outputs : c = cur /\ o = out
  BY EventAccount
<1>2. /\ chunk[c] = "busy" /\ status[c] = "running"
      /\ ~Starting /\ ~Starting' /\ UNCHANGED mask /\ flush' = Set(flush, c, o, "idle")
  BY <1>1, EventAccount DEF Starting, EventDone, CleanAndRelease
<1>3. AllToStart'
  BY <1>2 DEF AllToStart
<1>4. CASE Destroy(c)
  <2>1. chunk'[c] = "gone"
    BY <1>4 DEF Destroy, IInv, TypeOK, DataTypeOK
  <2>2. ASSUME NEW d \in Chunks, d # c
        PROVE  /\ chunk'[d] = chunk[d] /\ status'[d] = status[d] /\ route'[d] = route[d]
               /\ attempts'[d] = attempts[d] /\ flush'[d] = flush[d]
    BY <1>2, <1>4, <2>2 DEF Destroy, NoneOf, Set, IInv, TypeOK, DataTypeOK
  <2>3. ASSUME NEW d \in Chunks, NEW p \in Outputs PROVE AccountInv(d, p)' /\ DestinedInv(d, p)'
    <3>1. CASE d = c
      BY <2>1, <3>1 DEF AccountInv, DestinedInv, Live
    <3>2. CASE d # c
      <4>1. Open(d, p)' <=> Open(d, p)
        BY <1>2, <2>2, <3>2 DEF Open
      <4>2. proc'[d][p] = proc[d][p] /\ dropped'[d][p] = dropped[d][p]
        BY <1>1, <3>2, CountedOnce
      <4>3. AccountInv(d, p)'
        BY <2>2, <3>2, <4>1, <4>2, AccountKept DEF LedgerInv, Live
      <4> QED BY <2>2, <3>2, <4>3 DEF LedgerInv, DestinedInv
    <3> QED BY <3>1, <3>2
  <2>4. ASSUME NEW d \in Chunks PROVE MaskInv(d)'
    BY <1>2, <2>1, <2>2 DEF LedgerInv, MaskInv, Live
  <2> QED BY <1>3, <2>3, <2>4 DEF LedgerInv
<1>5. CASE RetryDestroy(c, o) /\ UNCHANGED <<task_map, status, route, chunk>>
  <2>1. flush'[c][o] = "idle" /\ attempts'[c][o] = 0
    BY <1>2, <1>5 DEF RetryDestroy, Set, IInv, TypeOK, DataTypeOK
  <2>2. \A d \in Chunks, p \in Outputs : ~(d = c /\ p = o) =>
          flush'[d][p] = flush[d][p] /\ attempts'[d][p] = attempts[d][p]
    BY <1>2, <1>5 DEF RetryDestroy, Set, IInv, TypeOK, DataTypeOK
  <2>3. ASSUME NEW d \in Chunks, NEW p \in Outputs PROVE AccountInv(d, p)'
    <3>1. CASE d = c /\ p = o
      <4>1. ~Open(c, o)'
        BY <1>2, <1>5, <2>1 DEF Open
      <4>2. \/ proc'[c][o] = 1 /\ dropped'[c][o] = 0
            \/ proc'[c][o] = 0 /\ dropped'[c][o] = 1
        BY <1>1, CountedOnce
      <4> QED BY <3>1, <4>1, <4>2 DEF AccountInv
    <3>2. CASE ~(d = c /\ p = o)
      <4>1. Open(d, p)' <=> Open(d, p)
        BY <1>2, <1>5, <2>2, <3>2 DEF Open
      <4>2. proc'[d][p] = proc[d][p] /\ dropped'[d][p] = dropped[d][p]
        BY <1>1, <3>2, CountedOnce
      <4> QED BY <1>5, <4>1, <4>2, AccountKept DEF LedgerInv, Live
    <3> QED BY <3>1, <3>2
  <2>4. /\ \A d \in Chunks : MaskInv(d)'
        /\ \A d \in Chunks, p \in Outputs : DestinedInv(d, p)'
    BY <1>2, <1>5 DEF LedgerInv, MaskInv, DestinedInv, Live
  <2> QED BY <1>3, <2>3, <2>4 DEF LedgerInv
<1> QED BY <1>1, <1>4, <1>5 DEF CleanAndRelease

\* Every step keeps the invariant.
LEMMA LedgerNext ==
  ASSUME IInv, Lossless, LedgerInv, [Next]_vars
  PROVE  LedgerInv'
<1>0. ASSUME UNCHANGED <<chunk, mask, status, route, attempts, proc, dropped, flush>>,
             ~Starting, ~Starting'
      PROVE  LedgerInv'
  BY <1>0, LedgerFrame
<1>1. CASE Handler
  <2>1. ASSUME NEW i \in Inputs, DispatchBegin(i) PROVE LedgerInv'
    BY <1>0, <2>1 DEF DispatchBegin, Starting
  <2>2. ASSUME NEW c \in Chunks, NEW o \in Outputs, TakeEvent(c, o) PROVE LedgerInv'
    BY <1>0, <2>2 DEF TakeEvent, Starting
  <2>3. ASSUME NEW c \in Chunks, NEW o \in Outputs, RetryPostponed(c, o) PROVE LedgerInv'
    BY <1>0, <2>3 DEF RetryPostponed, RetryFires, Starting, vars
  <2>4. ASSUME NEW c \in Chunks, NEW o \in Outputs, RetryAbandoned(c, o) \/ RetryFails(c, o)
        PROVE  LedgerInv'
    BY <2>4 DEF RetryAbandoned, RetryFails, Lossless, HandOverWorks
  <2> QED BY <1>1, <2>1, <2>2, <2>3, <2>4, LedgerRetryFlushed DEF Handler
<1>2. CASE Continue
  <2>1. CASE CreateBreak \/ StartBegin \/ DispatchEnd
    BY <1>0, <2>1 DEF CreateBreak, StartBegin, DispatchEnd, Starting
  <2>2. CASE FlushOne
    <3>1. PICK c \in Chunks : c = Head(pending[out]) /\ flush[c][out] = "queued"
      <4>1. /\ out \in Outputs /\ pending[out] \in Seq(Chunks) /\ pending[out] # <<>>
        BY <2>2 DEF FlushOne, IInv, ControlInv, OneInv, TypeOK, DataTypeOK
      <4>2. /\ Len(pending[out]) \in Nat \ {0} /\ Head(pending[out]) = pending[out][1]
            /\ Head(pending[out]) \in Chunks
        BY <4>1
      <4>3. 1 \in 1 .. Len(pending[out])
        BY <4>2
      <4> QED BY <4>1, <4>2, <4>3 DEF IInv, DataInv, QueueInv
    <3>2. /\ UNCHANGED <<chunk, mask, status, route, attempts, proc, dropped, cur, rts, hits>>
          /\ out \in Outputs /\ flush' = Set(flush, c, out, "pipe")
          /\ Starting <=> Starting'
      BY <2>2, <3>1 DEF FlushOne, QueueDone, Starting, IInv, ControlInv, OneInv,
                       TypeOK, ControlTypeOK
    <3>3. \A d \in Chunks, p \in Outputs : flush'[d][p] = "idle" <=> flush[d][p] = "idle"
      BY <3>1, <3>2 DEF Set, IInv, TypeOK, DataTypeOK
    <3> QED BY <3>2, <3>3, LedgerFrame
  <2>3. CASE FlushOneFails \/ HandleUnscheduled
    BY <2>3 DEF FlushOneFails, HandleUnscheduled, Lossless, HandOverWorks, IInv, ControlInv, OneInv
  <2>4. CASE HandleOk \/ HandleDrop
    BY <2>4, LedgerSettled DEF HandleOk, HandleDrop, Counted
  <2>5. ASSUME NEW c \in Chunks, CreateSkip(c) \/ CreateFail(c) \/ VisitRunning(c)
        PROVE  LedgerInv'
    BY <1>0, <2>5 DEF CreateSkip, CreateFail, VisitRunning, Starting
  <2>6. ASSUME NEW o \in Outputs, RouteSkipped(o) PROVE LedgerInv'
    BY <2>6 DEF RouteSkipped, SkipRoute, Lossless
  <2> QED
    BY <1>2, <2>1, <2>2, <2>3, <2>4, <2>5, <2>6, LedgerTaskStarted, LedgerRetried,
       LedgerCreateTask, LedgerCreateUseless, LedgerVisitNew, LedgerRoute
       DEF Continue, Lossless
<1>3. CASE Output
  BY <1>3, LedgerOutput
<1>4. CASE Input
  <2>1. ASSUME NEW c \in Chunks, ReleaseRing(c) PROVE LedgerInv'
    BY <2>1, InAssumption DEF ReleaseRing, Lossless
  <2>2. ASSUME NEW c \in Chunks, NEW o \in Outputs, Releases(c, o) PROVE LedgerInv'
    BY <2>2 DEF Releases, Lossless
  <2> QED BY <1>4, <2>1, <2>2, LedgerIngest
          DEF Input, ReleaseChunk, ReleaseRoute, ReleaseTask
<1>5. CASE UNCHANGED vars
  <2>1. Starting' <=> Starting
    BY <1>5 DEF vars, Starting
  <2> QED BY <1>5, <2>1, LedgerFrame DEF vars
<1> QED BY <1>1, <1>2, <1>3, <1>4, <1>5 DEF Next

\* The ledger, in every reachable state.
LEMMA EngineLedgerInv == ASSUME Lossless PROVE Spec => []LedgerInv
<1>1. Init => LedgerInv
  BY DEF Init, LedgerInv, MaskInv, DestinedInv, AccountInv, AllToStart, Live, Starting
<1>2. IInv /\ LedgerInv /\ [Next]_vars => LedgerInv'
  BY LedgerNext
<1> QED BY <1>1, <1>2, EngineInvariant, PTL DEF Spec

-----------------------------------------------------------------------------
(* The refinement.  Ingest implements Accept, the end of an event that is  *)
(* not retried implements Settle, a chunk without routes implements        *)
(* Discard, and every other step changes nothing of the ledger.            *)

\* The values of the refinement mapping.
LiveMap == [c \in Chunks |-> chunk[c] \in {"ready", "busy"}]
LedgerMap == [c \in Chunks |-> [o \in Outputs |-> Ledger(c, o)]]

\* Entries of the ledger.
LEMMA LedgerEntry ==
  ASSUME NEW c \in Chunks, NEW o \in Outputs
  PROVE  /\ chunk[c] = "none" \/ o \notin Destined(In[c]) => Ledger(c, o) = "none"
         /\ chunk[c] # "none" /\ o \in Destined(In[c]) =>
              /\ proc[c][o] = 0 /\ dropped[c][o] = 0 <=> Ledger(c, o) = "due"
              /\ proc[c][o] = 1 /\ dropped[c][o] = 0 => Ledger(c, o) = "proc"
              /\ proc[c][o] = 0 /\ dropped[c][o] = 1 => Ledger(c, o) = "drop"
BY DEF Ledger

\* The same in the next state.
LEMMA LedgerEntryNext ==
  ASSUME NEW c \in Chunks, NEW o \in Outputs
  PROVE  /\ chunk'[c] = "none" \/ o \notin Destined(In[c]) => Ledger(c, o)' = "none"
         /\ chunk'[c] # "none" /\ o \in Destined(In[c]) =>
              /\ proc'[c][o] = 0 /\ dropped'[c][o] = 0 <=> Ledger(c, o)' = "due"
              /\ proc'[c][o] = 1 /\ dropped'[c][o] = 0 => Ledger(c, o)' = "proc"
              /\ proc'[c][o] = 0 /\ dropped'[c][o] = 1 => Ledger(c, o)' = "drop"
BY DEF Ledger

\* An entry whose counts do not change keeps its value.
LEMMA LedgerSame ==
  ASSUME NEW c \in Chunks, NEW o \in Outputs,
         chunk'[c] = "none" <=> chunk[c] = "none",
         proc'[c][o] = proc[c][o], dropped'[c][o] = dropped[c][o]
  PROVE  Ledger(c, o)' = Ledger(c, o)
BY DEF Ledger

\* Membership as a value.
LEMMA NotInIsFalse == ASSUME NEW x, NEW S, x \notin S PROVE (x \in S) = FALSE
OBVIOUS

\* A chunk that is destroyed is no longer live.
LEMMA LiveGone ==
  ASSUME NEW c \in Chunks, chunk'[c] = "gone",
         \A d \in Chunks : d # c => chunk'[d] = chunk[d]
  PROVE  LiveMap' = [LiveMap EXCEPT ![c] = FALSE]
<1>1. ~(chunk'[c] \in {"ready", "busy"})
  OBVIOUS
<1>2. (chunk'[c] \in {"ready", "busy"}) = FALSE
  BY <1>1, NotInIsFalse
<1>3. \A d \in Chunks : (chunk'[d] \in {"ready", "busy"})
        = IF d = c THEN FALSE ELSE (chunk[d] \in {"ready", "busy"})
  BY <1>2, Zenon
<1>4. LiveMap' = [d \in Chunks |-> chunk'[d] \in {"ready", "busy"}]
  BY DEF LiveMap
<1>5. [LiveMap EXCEPT ![c] = FALSE]
        = [d \in Chunks |-> IF d = c THEN FALSE ELSE (chunk[d] \in {"ready", "busy"})]
  BY DEF LiveMap
<1> QED BY <1>3, <1>4, <1>5, Zenon

\* A step that counts nothing and destroys no chunk.
LEMMA DeliveryQuiet ==
  ASSUME UNCHANGED <<proc, dropped>>,
         \A c \in Chunks : \/ chunk'[c] = chunk[c]
                           \/ chunk[c] = "ready" /\ chunk'[c] = "busy"
  PROVE  UNCHANGED Delivery!vars
<1>1. \A c \in Chunks, o \in Outputs : Ledger(c, o)' = Ledger(c, o)
  BY LedgerSame
<1>2. LedgerMap' = LedgerMap
  BY <1>1 DEF LedgerMap
<1>3. LiveMap' = LiveMap
  BY DEF LiveMap
<1> QED BY <1>2, <1>3 DEF LedgerMap, LiveMap, Delivery!vars

\* Ingest(c) implements Accept(c).
LEMMA DeliveryAccept ==
  ASSUME IInv, NEW c \in Chunks, Ingest(c)
  PROVE  Delivery!Next
<1>1. /\ chunk[c] \in {"none", "gone"} /\ chunk' = [chunk EXCEPT ![c] = "ready"]
      /\ proc' = [proc EXCEPT ![c] = [o \in Outputs |-> 0]]
      /\ dropped' = [dropped EXCEPT ![c] = [o \in Outputs |-> 0]]
  BY DEF Ingest, NoneOf
<1>2. ~LiveMap[c] /\ LiveMap' = [LiveMap EXCEPT ![c] = TRUE]
  BY <1>1 DEF LiveMap, IInv, TypeOK, DataTypeOK
<1>3. ASSUME NEW o \in Outputs
      PROVE  Ledger(c, o)' = IF o \in Destined(In[c]) THEN "due" ELSE "none"
  <2>1. chunk'[c] = "ready" /\ proc'[c][o] = 0 /\ dropped'[c][o] = 0
    BY <1>1 DEF IInv, TypeOK, DataTypeOK, MetricTypeOK
  <2> QED BY <2>1, LedgerEntryNext
<1>4. ASSUME NEW d \in Chunks, d # c, NEW o \in Outputs PROVE Ledger(d, o)' = Ledger(d, o)
  <2>1. chunk'[d] = chunk[d] /\ proc'[d] = proc[d] /\ dropped'[d] = dropped[d]
    BY <1>1, <1>4 DEF IInv, TypeOK, DataTypeOK, MetricTypeOK
  <2> QED BY <2>1, LedgerSame
<1>5. LedgerMap' = [LedgerMap EXCEPT ![c] =
                      [o \in Outputs |-> IF o \in Destined(In[c]) THEN "due" ELSE "none"]]
  BY <1>3, <1>4 DEF LedgerMap
<1>6. Destined(In[c]) \in SUBSET Outputs
  BY DestinedOutputs
<1>7. Delivery!Accept(c)
  BY <1>2, <1>5, <1>6 DEF Delivery!Accept, LedgerMap, LiveMap
<1> QED BY <1>7 DEF Delivery!Next

\* A chunk that no output takes: CreateUseless(c) implements Discard(c).
LEMMA DeliveryDiscard ==
  ASSUME IInv, LedgerInv, NEW c \in Chunks, CreateUseless(c)
  PROVE  Delivery!Next
<1>1. /\ chunk[c] = "ready" /\ chunk' = [chunk EXCEPT ![c] = "gone"]
      /\ UNCHANGED <<proc, dropped>>
  BY DEF CreateUseless, IInv, ControlInv, CreateInv
<1>2. Destined(In[c]) = {}
  BY <1>1, TaskRoutesDestined DEF CreateUseless
<1>3. LiveMap[c] /\ LiveMap' = [LiveMap EXCEPT ![c] = FALSE]
  <2>1. chunk'[c] = "gone" /\ \A d \in Chunks : d # c => chunk'[d] = chunk[d]
    BY <1>1 DEF IInv, TypeOK, DataTypeOK
  <2>2. LiveMap[c]
    BY <1>1 DEF LiveMap
  <2> QED BY <2>1, <2>2, LiveGone
<1>4. \A d \in Chunks, o \in Outputs : Ledger(d, o)' = Ledger(d, o)
  BY <1>1, LedgerSame DEF IInv, TypeOK, DataTypeOK
<1>5. LedgerMap' = LedgerMap
  BY <1>4 DEF LedgerMap
<1>6. {o \in Outputs : LedgerMap[c][o] = "due"} = {}
  <2>1. \A o \in Outputs : Ledger(c, o) = "none"
    BY <1>2, LedgerEntry
  <2> QED BY <2>1 DEF LedgerMap
<1>7. Delivery!Discard(c)
  BY <1>3, <1>5, <1>6 DEF Delivery!Discard, Delivery!Due, LedgerMap, LiveMap
<1> QED BY <1>7 DEF Delivery!Next

\* The end of an event that is not retried implements Settle(cur, out); the
\* task is destroyed with it only when every other route is settled.
LEMMA DeliverySettle ==
  ASSUME IInv, LedgerInv, pc = "event", NEW u, CleanAndRelease(cur, out, u), EventDone,
         Counted(cur, out)
  PROVE  Delivery!Next
<1>1. PICK c \in Chunks, o \in Outputs : c = cur /\ o = out
  BY EventAccount
<1>2. /\ chunk[c] = "busy" /\ status[c] = "running" /\ o \in Destined(In[c])
      /\ flush[c][o] # "idle" /\ proc[c][o] = 0 /\ dropped[c][o] = 0 /\ ~Starting
  BY <1>1, EventAccount DEF Starting
<1>3. LiveMap[c] /\ LedgerMap[c][o] = "due"
  <2>1. Ledger(c, o) = "due"
    BY <1>2, LedgerEntry
  <2> QED BY <1>2, <2>1 DEF LiveMap, LedgerMap
<1>4. /\ chunk'[c] # "none"
      /\ \A d \in Chunks : d # c => chunk'[d] = chunk[d]
  BY <1>1, <1>2 DEF CleanAndRelease, Destroy, IInv, TypeOK, DataTypeOK
<1>5. PICK how \in {"proc", "drop"} : Ledger(c, o)' = how
  <2>1. \/ proc'[c][o] = 1 /\ dropped'[c][o] = 0
        \/ proc'[c][o] = 0 /\ dropped'[c][o] = 1
    BY <1>1, CountedOnce
  <2> QED BY <1>2, <1>4, <2>1, LedgerEntryNext
<1>6. ASSUME NEW d \in Chunks, NEW p \in Outputs, ~(d = c /\ p = o)
      PROVE  Ledger(d, p)' = Ledger(d, p)
  <2>1. proc'[d][p] = proc[d][p] /\ dropped'[d][p] = dropped[d][p]
    BY <1>1, <1>6, CountedOnce
  <2> QED BY <1>2, <1>4, <2>1, LedgerSame
<1>7. LedgerMap' = [LedgerMap EXCEPT ![c][o] = how]
  BY <1>5, <1>6 DEF LedgerMap
<1>8. \/ UNCHANGED LiveMap
      \/ /\ {p \in Outputs : LedgerMap[c][p] = "due"} = {o}
         /\ LiveMap' = [LiveMap EXCEPT ![c] = FALSE]
  <2>1. CASE UNCHANGED chunk
    BY <2>1 DEF LiveMap
  <2>2. CASE LastUse(c, o) /\ Destroy(c)
    <3>1. LiveMap' = [LiveMap EXCEPT ![c] = FALSE]
      <4>1. chunk'[c] = "gone"
        BY <2>2 DEF Destroy, IInv, TypeOK, DataTypeOK
      <4> QED BY <1>4, <4>1, LiveGone
    <3>2. users[c] <= 1
      BY <2>2 DEF LastUse
    <3>3. ASSUME NEW p \in Outputs \ {o} PROVE Ledger(c, p) # "due"
      <4>1. flush[c][p] = "idle" /\ attempts[c][p] = 0
        BY <1>2, <2>2, <3>2, LastUser DEF LastUse
      <4>2. ~Open(c, p) /\ AccountInv(c, p) /\ Live(c)
        BY <1>2, <4>1 DEF Open, LedgerInv, Live
      <4> QED BY <1>2, <4>2, LedgerEntry DEF AccountInv
    <3>4. {p \in Outputs : LedgerMap[c][p] = "due"} = {o}
      BY <1>3, <3>3 DEF LedgerMap
    <3> QED BY <3>1, <3>4
  <2> QED BY <1>1, <2>1, <2>2 DEF CleanAndRelease
<1>9. Delivery!Settle(c, o)
  BY <1>3, <1>7, <1>8
     DEF Delivery!Settle, Delivery!Settled, Delivery!Due, LedgerMap, LiveMap
<1> QED BY <1>9 DEF Delivery!Next

\* Every step of the engine is a step of the ledger or leaves it alone.
LEMMA DeliveryStep ==
  ASSUME IInv, Lossless, LedgerInv, [Next]_vars
  PROVE  [Delivery!Next]_(Delivery!vars)
<1>0. ASSUME UNCHANGED <<chunk, proc, dropped>> PROVE UNCHANGED Delivery!vars
  BY <1>0, DeliveryQuiet
<1>1. CASE Handler
  <2>1. ASSUME NEW c \in Chunks, NEW o \in Outputs, RetryAbandoned(c, o) \/ RetryFails(c, o)
        PROVE  FALSE
    BY <2>1 DEF RetryAbandoned, RetryFails, Lossless, HandOverWorks
  <2>2. UNCHANGED <<chunk, proc, dropped>>
    BY <1>1, <2>1 DEF Handler, DispatchBegin, TakeEvent, RetryPostponed, RetryFlushed, vars
  <2> QED BY <1>0, <2>2
<1>2. CASE Continue
  <2>1. CASE CreateBreak \/ StartBegin \/ TaskStarted \/ DispatchEnd \/ FlushOne \/ HandleRetry
    BY <1>0, <2>1
       DEF CreateBreak, StartBegin, TaskStarted, DispatchEnd, FlushOne, HandleRetry
  <2>2. CASE FlushOneFails \/ HandleUnscheduled
    BY <2>2 DEF FlushOneFails, HandleUnscheduled, Lossless, HandOverWorks, IInv, ControlInv, OneInv
  <2>3. CASE HandleOk \/ HandleDrop
    BY <2>3, DeliverySettle DEF HandleOk, HandleDrop, Counted
  <2>4. ASSUME NEW c \in Chunks,
               CreateSkip(c) \/ CreateFail(c) \/ VisitRunning(c) \/ VisitNew(c)
        PROVE  UNCHANGED Delivery!vars
    BY <1>0, <2>4 DEF CreateSkip, CreateFail, VisitRunning, VisitNew
  <2>5. ASSUME NEW c \in Chunks, CreateTask(c) PROVE UNCHANGED Delivery!vars
    <3>1. /\ chunk[c] = "ready" /\ chunk' = [chunk EXCEPT ![c] = "busy"]
          /\ UNCHANGED <<proc, dropped>>
      BY <2>5 DEF CreateTask, IInv, ControlInv, CreateInv
    <3>2. chunk'[c] = "busy" /\ \A d \in Chunks : d # c => chunk'[d] = chunk[d]
      BY <3>1 DEF IInv, TypeOK, DataTypeOK
    <3> QED BY <3>1, <3>2, DeliveryQuiet
  <2>6. ASSUME NEW o \in Outputs, RouteSkipped(o) \/ RouteStarted(o) \/ RouteQueued(o)
        PROVE  UNCHANGED Delivery!vars
    BY <1>0, <2>6 DEF RouteSkipped, RouteStarted, RouteQueued
  <2> QED BY <1>2, <2>1, <2>2, <2>3, <2>4, <2>5, <2>6, DeliveryDiscard DEF Continue
<1>3. CASE Output
  BY <1>0, <1>3 DEF Output, FlushStart, FlushSkipped, FlushDropped, FlushLost, FlushReturn
<1>4. CASE Input
  <2>1. ASSUME NEW c \in Chunks, ReleaseRing(c) PROVE FALSE
    BY <2>1, InAssumption DEF ReleaseRing, Lossless
  <2>2. ASSUME NEW c \in Chunks, NEW o \in Outputs, Releases(c, o) PROVE FALSE
    BY <2>2 DEF Releases, Lossless
  <2> QED BY <1>4, <2>1, <2>2, DeliveryAccept
          DEF Input, ReleaseChunk, ReleaseRoute, ReleaseTask
<1>5. CASE UNCHANGED vars
  BY <1>0, <1>5 DEF vars
<1> QED BY <1>1, <1>2, <1>3, <1>4, <1>5 DEF Next

\* Where no call of the hand-over fails and no space is released, the metrics of
\* the outputs account for every route of every chunk exactly once, and a chunk is
\* destroyed with its last route and not before: the engine implements FlbDelivery
\* (handle_output_event, flb_task_users_release, flb_task_destroy).
THEOREM EngineImplementsDelivery ==
  ASSUME Lossless PROVE Spec => ImplementsDelivery
<1>1. Init => Delivery!Init
  <2> SUFFICES ASSUME Init PROVE Delivery!Init
    OBVIOUS
  <2>1. \A c \in Chunks, o \in Outputs : chunk[c] = "none" /\ Ledger(c, o) = "none"
    BY LedgerEntry DEF Init
  <2>2. \A c \in Chunks : (chunk[c] \in {"ready", "busy"}) = FALSE
    <3> SUFFICES ASSUME NEW c \in Chunks PROVE (chunk[c] \in {"ready", "busy"}) = FALSE
      OBVIOUS
    <3>1. chunk[c] = "none"
      BY DEF Init
    <3>2. chunk[c] \notin {"ready", "busy"}
      BY <3>1
    <3> QED BY <3>2, NotInIsFalse
  <2>3. LiveMap = [c \in Chunks |-> FALSE]
    BY <2>2, Zenon DEF LiveMap
  <2>4. LedgerMap = [c \in Chunks |-> [o \in Outputs |-> "none"]]
    BY <2>1 DEF LedgerMap
  <2> QED BY <2>3, <2>4 DEF Delivery!Init, LiveMap, LedgerMap
<1>2. IInv /\ LedgerInv /\ [Next]_vars => [Delivery!Next]_(Delivery!vars)
  BY DeliveryStep
<1> QED
  BY <1>1, <1>2, EngineInvariant, EngineLedgerInv, PTL
     DEF Spec, ImplementsDelivery, Delivery!Spec
=============================================================================
