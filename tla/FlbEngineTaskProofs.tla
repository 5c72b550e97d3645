------------------------- MODULE FlbEngineTaskProofs -------------------------
(***************************************************************************)
(* More proofs about FlbEngine, on top of the invariant of FlbEngineProofs: *)
(* the singleplex queue of a synchronous output, the number of times a     *)
(* chunk is handed to an output, and that no running task is forgotten.    *)
(* Each has an invariant of its own, which is inductive relative to IInv.  *)
(***************************************************************************)
EXTENDS FlbEngineProofs

USE DEF chunkVars, taskVars, retryVars, queueVars, metricVars, loopVars, ctlVars

-----------------------------------------------------------------------------
(* The singleplex queue.                                                   *)

\* The flush of c through o has left the queue and has not ended; it has ended
\* when the engine took its event.
InHand(c, o) == flush[c][o] \notin {"idle", "queued"}
Taken(c, o) == Handling /\ cur = c /\ out = o

\* in_progress names the one flush in hand, if there is one.
ProgressInv(o) ==
  /\ in_progress[o] \in {<<>>} \cup {<<c>> : c \in Chunks}
  /\ \A c \in Chunks : in_progress[o] = <<c>> <=> InHand(c, o) /\ ~Taken(c, o)

\* Tasks wait only while one is in progress or the queue is about to be served.
ServedInv(o) == pending[o] # <<>> => in_progress[o] # <<>> \/ (pc = "one" /\ out = o)

SyncInv ==
  /\ \A o \in Sync : ProgressInv(o) /\ ServedInv(o)
  /\ pc = "one" => out \in Sync /\ in_progress[out] = <<>>

\* Sequences of one element.
LEMMA OneElement ==
  ASSUME NEW c
  PROVE  /\ <<c>> # <<>> /\ Head(<<c>>) = c /\ Tail(<<c>>) = <<>>
         /\ Append(<<>>, c) = <<c>>
         /\ \A d : <<c>> = <<d>> => c = d
OBVIOUS

\* A step that leaves the queues alone, and of the flushes those in hand.
LEMMA SyncFrame ==
  ASSUME SyncInv, UNCHANGED <<pending, in_progress>>,
         \/ UNCHANGED <<pc, cont, cur, out>>
         \/ pc \notin {"one", "event"} /\ pc' \notin {"one", "event"},
         \A c \in Chunks, o \in Sync : InHand(c, o)' <=> InHand(c, o)
  PROVE  SyncInv'
<1>1. \A c \in Chunks, o \in Sync : Taken(c, o)' <=> Taken(c, o)
  BY DEF Taken, Handling
<1>2. pc' = "one" => pc = "one" /\ out' = out
  OBVIOUS
<1>3. pc = "one" => pc' = "one" /\ out' = out
  OBVIOUS
<1>4. ASSUME NEW o \in Sync PROVE ProgressInv(o)' /\ ServedInv(o)'
  <2>1. ProgressInv(o)'
    BY <1>1 DEF SyncInv, ProgressInv
  <2>2. ServedInv(o)'
    BY <1>3 DEF SyncInv, ServedInv
  <2> QED BY <2>1, <2>2
<1> QED BY <1>2, <1>4 DEF SyncInv

\* A task is put into the queue of o.
LEMMA SyncEnqueue ==
  ASSUME IInv, SyncInv, NEW c \in Chunks, NEW o \in Sync, NEW from \in {"route", "loop"},
         pc = from, flush[c][o] = "idle", Enqueue(c, o, from)
  PROVE  SyncInv'
<1>0. o \in Outputs
  BY SetsAssumption
<1>1. \A d \in Chunks, p \in Sync : InHand(d, p)' <=> InHand(d, p)
  BY SetsAssumption DEF InHand, Enqueue, Set, IInv, TypeOK, DataTypeOK
<1>2. \A d \in Chunks, p \in Sync : ~Taken(d, p) /\ ~Taken(d, p)'
  BY DEF Taken, Handling, Enqueue
<1>3. ASSUME NEW p \in Sync PROVE ProgressInv(p)'
  BY <1>1, <1>2 DEF SyncInv, ProgressInv, Enqueue
<1>4. ASSUME NEW p \in Sync PROVE ServedInv(p)'
  <2>1. CASE p = o
    BY <2>1 DEF ServedInv, Enqueue, NothingRunning
  <2>2. CASE p # o
    BY <2>2, SetsAssumption DEF SyncInv, ServedInv, Enqueue, IInv, TypeOK, DataTypeOK
  <2> QED BY <2>1, <2>2
<1>5. pc' = "one" => out' \in Sync /\ in_progress'[out'] = <<>>
  BY DEF Enqueue, NothingRunning
<1> QED BY <1>3, <1>4, <1>5 DEF SyncInv

\* The first task of the queue is flushed.
LEMMA SyncFlushOne ==
  ASSUME IInv, SyncInv, FlushOne
  PROVE  SyncInv'
<1>0. out \in Sync /\ out \in Outputs /\ in_progress[out] = <<>> /\ pc = "one"
  BY SetsAssumption DEF SyncInv, FlushOne
<1>1. PICK c \in Chunks : c = Head(pending[out]) /\ flush[c][out] = "queued"
  <2>1. pending[out] \in Seq(Chunks) /\ pending[out] # <<>>
    BY <1>0 DEF FlushOne, IInv, TypeOK, DataTypeOK
  <2>2. Len(pending[out]) \in Nat \ {0} /\ Head(pending[out]) = pending[out][1]
        /\ Head(pending[out]) \in Chunks
    BY <2>1
  <2>3. 1 \in 1 .. Len(pending[out])
    BY <2>2
  <2> QED BY <1>0, <2>2, <2>3 DEF IInv, DataInv, QueueInv
<1>2. /\ flush' = Set(flush, c, out, "pipe")
      /\ in_progress' = [in_progress EXCEPT ![out] = <<c>>]
      /\ pending' = [pending EXCEPT ![out] = Tail(@)]
      /\ pc' = cont /\ cont' = "loop" /\ cur' = cur
      /\ out' = IF cont = "event" THEN out ELSE None
  <2>1. Append(<<>>, c) = <<c>>
    BY OneElement
  <2> QED BY <1>0, <1>1, <2>1 DEF FlushOne, QueueDone, IInv, TypeOK, DataTypeOK
<1>3. cont \in {"loop", "route", "event"}
  BY DEF IInv, TypeOK, ControlTypeOK
<1>4. \A d \in Chunks, p \in Sync : Taken(d, p)' <=> Taken(d, p)
  BY <1>0, <1>2, <1>3, SetsAssumption DEF Taken, Handling
<1>5. ~Taken(c, out)
  BY <1>0, <1>1 DEF Taken, IInv, ControlInv, HandleInv, Results
<1>6. ASSUME NEW p \in Sync PROVE ProgressInv(p)' /\ ServedInv(p)'
  <2>1. CASE p = out
    <3>1. \A d \in Chunks : InHand(d, p) => Taken(d, p)
      BY <1>0, <2>1, OneElement DEF SyncInv, ProgressInv
    <3>2. InHand(c, p)'
      BY <1>0, <1>1, <1>2, <2>1 DEF InHand, Set, IInv, TypeOK, DataTypeOK
    <3>3. \A d \in Chunks : d # c => (InHand(d, p)' <=> InHand(d, p))
      BY <1>0, <1>1, <1>2, <2>1 DEF InHand, Set, IInv, TypeOK, DataTypeOK
    <3>4. in_progress'[p] = <<c>>
      BY <1>0, <1>2, <2>1 DEF IInv, TypeOK, DataTypeOK
    <3>5. \A d \in Chunks : in_progress'[p] = <<d>> <=> d = c
      BY <3>4, OneElement
    <3>6. \A d \in Chunks : d = c <=> InHand(d, p)' /\ ~Taken(d, p)'
      BY <1>1, <1>4, <1>5, <2>1, <3>1, <3>2, <3>3
    <3>7. ProgressInv(p)'
      BY <1>1, <3>4, <3>5, <3>6 DEF ProgressInv
    <3> QED BY <3>4, <3>7, OneElement DEF ServedInv
  <2>2. CASE p # out
    <3>1. in_progress'[p] = in_progress[p] /\ pending'[p] = pending[p]
      BY <1>2, <2>2, SetsAssumption DEF IInv, TypeOK, DataTypeOK
    <3>2. \A d \in Chunks : InHand(d, p)' <=> InHand(d, p)
      BY <1>0, <1>1, <1>2, <2>2, SetsAssumption DEF InHand, Set, IInv, TypeOK, DataTypeOK
    <3>3. ProgressInv(p)'
      BY <1>4, <3>1, <3>2 DEF SyncInv, ProgressInv
    <3>4. ServedInv(p)'
      BY <2>2, <3>1 DEF SyncInv, ServedInv
    <3> QED BY <3>3, <3>4
  <2> QED BY <2>1, <2>2
<1>7. pc' # "one"
  BY <1>2, <1>3
<1> QED BY <1>6, <1>7 DEF SyncInv

\* The flush of the first task fails: the queue is served on or is empty.
LEMMA SyncFlushOneFails ==
  ASSUME IInv, SyncInv, FlushOneFails
  PROVE  SyncInv'
<1>0. out \in Sync /\ out \in Outputs /\ in_progress[out] = <<>> /\ pc = "one"
  BY SetsAssumption DEF SyncInv, FlushOneFails
<1>1. PICK c \in Chunks : c = Head(pending[out]) /\ flush[c][out] = "queued"
  <2>1. pending[out] \in Seq(Chunks) /\ pending[out] # <<>>
    BY <1>0 DEF FlushOneFails, IInv, TypeOK, DataTypeOK
  <2>2. /\ Len(pending[out]) \in Nat \ {0} /\ Head(pending[out]) = pending[out][1]
        /\ Head(pending[out]) \in Chunks
    BY <2>1
  <2>3. 1 \in 1 .. Len(pending[out])
    BY <2>2
  <2> QED BY <1>0, <2>2, <2>3 DEF IInv, DataInv, QueueInv
<1>2. /\ flush' = Set(flush, c, out, "idle")
      /\ in_progress' = in_progress
      /\ pending' = [pending EXCEPT ![out] = Tail(@)]
      /\ cur' = cur
      /\ \/ Tail(pending[out]) = <<>> /\ QueueDone
         \/ Tail(pending[out]) # <<>> /\ UNCHANGED <<pc, cont, out>>
  <2>1. Tail(Append(<<>>, c)) = <<>>
    BY OneElement
  <2>2. in_progress' = [in_progress EXCEPT ![out] = in_progress[out]]
    BY <1>0, <1>1, <2>1 DEF FlushOneFails
  <2> QED BY <1>0, <1>1, <2>2 DEF FlushOneFails, IInv, TypeOK, DataTypeOK
<1>3. cont \in {"loop", "route", "event"}
  BY DEF IInv, TypeOK, ControlTypeOK
<1>4. \A d \in Chunks, p \in Sync : Taken(d, p)' <=> Taken(d, p)
  BY <1>0, <1>2, <1>3, SetsAssumption DEF Taken, Handling, QueueDone
<1>5. \A d \in Chunks, p \in Sync : InHand(d, p)' <=> InHand(d, p)
  BY <1>0, <1>1, <1>2, SetsAssumption DEF InHand, Set, IInv, TypeOK, DataTypeOK
<1>6. ASSUME NEW p \in Sync PROVE ProgressInv(p)'
  BY <1>2, <1>4, <1>5 DEF SyncInv, ProgressInv
<1>7. ASSUME NEW p \in Sync PROVE ServedInv(p)'
  <2>1. CASE p = out
    <3>1. pending'[p] = Tail(pending[out])
      BY <1>0, <1>2, <2>1 DEF IInv, TypeOK, DataTypeOK
    <3> QED BY <1>0, <1>2, <2>1, <3>1 DEF ServedInv
  <2>2. CASE p # out
    <3>1. pending'[p] = pending[p]
      BY <1>2, <2>2, SetsAssumption DEF IInv, TypeOK, DataTypeOK
    <3> QED BY <1>2, <2>2, <3>1 DEF SyncInv, ServedInv
  <2> QED BY <2>1, <2>2
<1>8. pc' = "one" => out' \in Sync /\ in_progress'[out'] = <<>>
  BY <1>0, <1>2, <1>3 DEF QueueDone
<1> QED BY <1>6, <1>7, <1>8 DEF SyncInv

\* The engine takes the event of a flush; a synchronous output serves its queue.
LEMMA SyncTakeEvent ==
  ASSUME IInv, SyncInv, NEW c \in Chunks, NEW o \in Outputs, TakeEvent(c, o)
  PROVE  SyncInv'
<1>0. /\ pc = "loop" /\ flush[c][o] \in Results /\ cur' = c /\ out' = o
      /\ UNCHANGED <<flush, pending>> /\ Handling'
  <2>1. task_map[tid[c]] = c
    BY DEF IInv, DataInv, RouteInv, TaskInv, TakeEvent, Results
  <2> QED BY <2>1 DEF TakeEvent, Handling
<1>1. \A d \in Chunks, p \in Sync : ~Taken(d, p) /\ (Taken(d, p)' <=> d = c /\ p = o)
  BY <1>0 DEF Taken, Handling
<1>2. \A d \in Chunks, p \in Sync : InHand(d, p)' <=> InHand(d, p)
  BY <1>0 DEF InHand
<1>3. CASE o \notin Sync
  <2>1. pc' = "event" /\ UNCHANGED in_progress
    BY <1>3 DEF TakeEvent, ServesQueue
  <2>2. ASSUME NEW p \in Sync PROVE ProgressInv(p)'
    BY <1>1, <1>2, <1>3, <2>1 DEF SyncInv, ProgressInv
  <2>3. ASSUME NEW p \in Sync PROVE ServedInv(p)'
    BY <1>0, <2>1 DEF SyncInv, ServedInv
  <2> QED BY <2>1, <2>2, <2>3 DEF SyncInv
<1>4. CASE o \in Sync
  <2>1. in_progress[o] = <<c>>
    BY <1>0, <1>1, <1>4 DEF SyncInv, ProgressInv, InHand, Results
  <2>2. /\ in_progress' = [in_progress EXCEPT ![o] = <<>>]
        /\ \/ pending[o] = <<>> /\ pc' = "event"
           \/ pending[o] # <<>> /\ pc' = "one"
    BY <1>0, <1>4, <2>1, OneElement DEF TakeEvent, ServesQueue
  <2>3. in_progress'[o] = <<>> /\ \A p \in Outputs : p # o => in_progress'[p] = in_progress[p]
    BY <2>2 DEF IInv, TypeOK, DataTypeOK
  <2>4. ASSUME NEW p \in Sync PROVE ProgressInv(p)'
    <3>1. CASE p = o
      <4>1. \A d \in Chunks : InHand(d, p) => d = c
        BY <1>1, <2>1, <3>1, OneElement DEF SyncInv, ProgressInv
      <4> QED BY <1>1, <1>2, <2>3, <3>1, <4>1, OneElement DEF ProgressInv
    <3>2. CASE p # o
      BY <1>1, <1>2, <2>3, <3>2, SetsAssumption DEF SyncInv, ProgressInv
    <3> QED BY <3>1, <3>2
  <2>5. ASSUME NEW p \in Sync PROVE ServedInv(p)'
    BY <1>0, <2>2, <2>3, SetsAssumption DEF SyncInv, ServedInv
  <2>6. pc' = "one" => out' \in Sync /\ in_progress'[out'] = <<>>
    BY <1>0, <1>4, <2>3
  <2> QED BY <2>4, <2>5, <2>6 DEF SyncInv
<1> QED BY <1>3, <1>4

\* The event has been handled.
LEMMA SyncEventDone ==
  ASSUME IInv, SyncInv, pc = "event", EventDone
  PROVE  SyncInv'
<1>0. cur \in Chunks /\ out \in Outputs /\ flush[cur][out] \in Results
  BY DEF IInv, ControlInv, HandleInv, Handling
<1>1. ASSUME NEW d \in Chunks, NEW p \in Sync
      PROVE  InHand(d, p)' /\ ~Taken(d, p)' <=> InHand(d, p) /\ ~Taken(d, p)
  <2>1. ~Taken(d, p)' /\ (Taken(d, p) <=> d = cur /\ p = out)
    BY DEF Taken, Handling, EventDone
  <2>2. CASE d = cur /\ p = out
    BY <1>0, <2>1, <2>2 DEF InHand, EventDone, Set, IInv, TypeOK, DataTypeOK
  <2>3. CASE ~(d = cur /\ p = out)
    <3>1. flush'[d][p] = flush[d][p]
      BY <1>0, <2>3, SetsAssumption DEF EventDone, Set, IInv, TypeOK, DataTypeOK
    <3> QED BY <2>1, <2>3, <3>1 DEF InHand
  <2> QED BY <2>2, <2>3
<1>2. UNCHANGED <<pending, in_progress>> /\ pc' = "loop"
  BY DEF EventDone
<1>3. ASSUME NEW p \in Sync PROVE ProgressInv(p)'
  BY <1>1, <1>2 DEF SyncInv, ProgressInv
<1>4. ASSUME NEW p \in Sync PROVE ServedInv(p)'
  BY <1>2 DEF SyncInv, ServedInv
<1> QED BY <1>2, <1>3, <1>4 DEF SyncInv

\* Steps of the engine thread that leave the flushes alone.
LEMMA SyncQuiet ==
  ASSUME IInv, SyncInv, UNCHANGED <<flush, queueVars>>,
         pc \notin {"one", "event"}, pc' \notin {"one", "event"}
  PROVE  SyncInv'
<1>1. \A c \in Chunks, o \in Sync : InHand(c, o)' <=> InHand(c, o)
  BY DEF InHand
<1> QED BY <1>1, SyncFrame

\* A flush moves on in the hands of its thread.
LEMMA SyncOutput ==
  ASSUME IInv, SyncInv, NEW c \in Chunks, NEW o \in Outputs, NEW st \in Stages,
         InHand(c, o), st \notin {"idle", "queued"},
         flush' = Set(flush, c, o, st), UNCHANGED <<queueVars, ctlVars>>
  PROVE  SyncInv'
<1>1. \A d \in Chunks, p \in Sync : InHand(d, p)' <=> InHand(d, p)
  BY SetsAssumption DEF InHand, Set, IInv, TypeOK, DataTypeOK
<1> QED BY <1>1, SyncFrame

\* A flush through an output that is not synchronous begins.
LEMMA SyncOther ==
  ASSUME IInv, SyncInv, NEW c \in Chunks, NEW o \in Outputs \ Sync,
         UNCHANGED flush \/ TaskFlush(c, o),
         UNCHANGED <<queueVars, pc, cont, cur, out>>
  PROVE  SyncInv'
<1>1. ASSUME NEW d \in Chunks, NEW p \in Sync PROVE InHand(d, p)' <=> InHand(d, p)
  <2>1. CASE UNCHANGED flush
    BY <2>1 DEF InHand
  <2>2. CASE flush' = Set(flush, c, o, "pipe")
    <3>1. o # p /\ p \in Outputs /\ o \in Outputs
      BY SetsAssumption
    <3>2. flush'[d][p] = flush[d][p]
      BY <2>2, <3>1 DEF Set, IInv, TypeOK, DataTypeOK
    <3> QED BY <3>2 DEF InHand
  <2> QED BY <2>1, <2>2 DEF TaskFlush
<1> QED BY <1>1, SyncFrame

\* Every step keeps the invariant of the queues.
LEMMA SyncNext == ASSUME IInv, SyncInv, [Next]_vars PROVE SyncInv'
<1>1. CASE Handler
  <2>1. ASSUME NEW i \in Inputs, DispatchBegin(i) PROVE SyncInv'
    BY <2>1, SyncQuiet DEF DispatchBegin
  <2>2. ASSUME NEW c \in Chunks, NEW o \in Outputs,
               \/ TakeEvent(c, o) \/ RetryPostponed(c, o) \/ RetryAbandoned(c, o)
               \/ RetryFails(c, o) \/ RetryFlushed(c, o)
        PROVE  SyncInv'
    <3>1. CASE TakeEvent(c, o) BY <3>1, SyncTakeEvent
    <3>2. CASE RetryPostponed(c, o)
      BY <3>2, SyncQuiet DEF RetryPostponed, RetryFires, vars
    <3>3. CASE RetryAbandoned(c, o)
      BY <3>3, SyncQuiet DEF RetryAbandoned, RetryFires
    <3>4. CASE RetryFails(c, o)
      BY <3>4, SyncQuiet DEF RetryFails, RetryFires
    <3>5. CASE RetryFlushed(c, o)
      <4>1. pc = "loop" /\ flush[c][o] = "idle" /\ cur' = cur
        BY <3>5 DEF RetryFlushed, RetryFires, IInv, DataInv, RouteInv
      <4>2. CASE o \in Sync
        BY <3>5, <4>1, <4>2, SyncEnqueue DEF RetryFlushed
      <4>3. CASE o \notin Sync
        BY <3>5, <4>1, <4>3, SyncOther DEF RetryFlushed
      <4> QED BY <4>2, <4>3
    <3>6. QED BY <2>2, <3>1, <3>2, <3>3, <3>4, <3>5
  <2>3. QED BY <1>1, <2>1, <2>2 DEF Handler
<1>2. CASE Continue
  <2>1. CASE CreateBreak BY <2>1, SyncQuiet DEF CreateBreak
  <2>2. CASE StartBegin BY <2>2, SyncQuiet DEF StartBegin
  <2>3. CASE TaskStarted BY <2>3, SyncQuiet DEF TaskStarted
  <2>4. CASE DispatchEnd BY <2>4, SyncQuiet DEF DispatchEnd
  <2>5. CASE FlushOne BY <2>5, SyncFlushOne
  <2>6. CASE FlushOneFails BY <2>6, SyncFlushOneFails
  <2>7. CASE HandleOk \/ HandleDrop \/ HandleRetry \/ HandleUnscheduled
    <3>1. pc = "event" /\ EventDone
      BY <2>7 DEF HandleOk, HandleDrop, HandleRetry, HandleUnscheduled
    <3> QED BY <3>1, SyncEventDone
  <2>8. ASSUME NEW c \in Chunks,
               \/ CreateSkip(c) \/ CreateFail(c) \/ CreateTask(c) \/ CreateUseless(c)
               \/ VisitRunning(c) \/ VisitNew(c)
        PROVE  SyncInv'
    <3>1. /\ UNCHANGED <<flush, queueVars>>
          /\ pc \notin {"one", "event"} /\ pc' \notin {"one", "event"}
      BY <2>8 DEF CreateSkip, CreateFail, CreateTask, CreateUseless, VisitRunning, VisitNew
    <3> QED BY <3>1, SyncQuiet
  <2>9. ASSUME NEW o \in Outputs, RouteSkipped(o) PROVE SyncInv'
    BY <2>9, SyncQuiet DEF RouteSkipped
  <2>10. ASSUME NEW o \in Outputs, RouteStarted(o) PROVE SyncInv'
    <3>1. cur \in Chunks
      BY <2>10 DEF RouteStarted, IInv, ControlInv, StartInv, Starting
    <3> QED BY <2>10, <3>1, SyncOther DEF RouteStarted
  <2>11. ASSUME NEW o \in Outputs, RouteQueued(o) PROVE SyncInv'
    <3>1. cur \in Chunks /\ flush[cur][o] = "idle"
      BY <2>11 DEF RouteQueued, IInv, ControlInv, StartInv, Starting
    <3> QED BY <2>11, <3>1, SyncEnqueue DEF RouteQueued
  <2>12. QED
    BY <1>2, <2>1, <2>2, <2>3, <2>4, <2>5, <2>6, <2>7, <2>8, <2>9, <2>10, <2>11 DEF Continue
<1>3. CASE Output
  <2>1. PICK c \in Chunks, o \in Outputs :
          \/ FlushStart(c, o) \/ FlushSkipped(c, o) \/ FlushDropped(c, o)
          \/ FlushLost(c, o)
          \/ \E ret \in Results : FlushReturn(c, o, ret)
    BY <1>3 DEF Output
  <2>2. \E st \in Stages : st \notin {"idle", "queued"} /\ flush' = Set(flush, c, o, st)
    BY <2>1 DEF FlushStart, FlushSkipped, FlushDropped, FlushLost, FlushReturn, Stages, Results
  <2>3. InHand(c, o) /\ UNCHANGED <<queueVars, ctlVars>>
    BY <2>1 DEF FlushStart, FlushSkipped, FlushDropped, FlushLost, FlushReturn, InHand
  <2> QED BY <2>2, <2>3, SyncOutput
<1>4. CASE Input
  <2>1. UNCHANGED <<flush, queueVars, ctlVars>> /\ pc = "loop"
    BY <1>4 DEF Input, Ingest, ReleaseRing, ReleaseChunk, ReleaseRoute, ReleaseTask, Releases
  <2> QED BY <2>1, SyncQuiet
<1>5. CASE UNCHANGED vars
  <2>1. \A c \in Chunks, o \in Sync : InHand(c, o)' <=> InHand(c, o)
    BY <1>5 DEF vars, InHand
  <2> QED BY <1>5, <2>1, SyncFrame DEF vars
<1>6. QED BY <1>1, <1>2, <1>3, <1>4, <1>5 DEF Next

\* The queues of synchronous outputs, in every reachable state.
LEMMA EngineSyncInv == Spec => []SyncInv
<1>1. Init => SyncInv
  BY SetsAssumption, OneElement
     DEF Init, SyncInv, ProgressInv, ServedInv, InHand, Taken, Handling
<1>2. IInv /\ SyncInv /\ [Next]_vars => SyncInv'
  BY SyncNext
<1> QED BY <1>1, <1>2, EngineInvariant, PTL DEF Spec

\* A synchronous output has one task in the hands of its plugin at a time,
\* retries included and whatever fails (flb_output_task_singleplex_enqueue,
\* flb_output_task_singleplex_flush_next).
THEOREM EngineSynchronousOneTask == Spec => []SynchronousOneTask
<1>1. IInv /\ SyncInv => SynchronousOneTask
  <2> SUFFICES ASSUME IInv, SyncInv, NEW o \in Sync
               PROVE  Cardinality(InPlugin(o)) <= 1 /\ Len(in_progress[o]) <= 1
    BY DEF SynchronousOneTask
  <2>1. in_progress[o] \in {<<>>} \cup {<<c>> : c \in Chunks}
    BY DEF SyncInv, ProgressInv
  <2>2. Len(in_progress[o]) <= 1
    <3>1. Len(<<>>) = 0 /\ \A c \in Chunks : Len(<<c>>) = 1
      OBVIOUS
    <3> DEFINE n == Len(in_progress[o])
    <3>2. n = 0 \/ n = 1
      BY <2>1, <3>1, Zenon
    <3> HIDE DEF n
    <3>3. n <= 1
      BY <3>2
    <3> QED BY <3>3 DEF n
  <2>3. \A c \in InPlugin(o) : in_progress[o] = <<c>>
    BY DEF InPlugin, SyncInv, ProgressInv, InHand, Taken, IInv, ControlInv, HandleInv, Results
  <2>4. \A c, d \in InPlugin(o) : c = d
    BY <2>3, OneElement
  <2>5. InPlugin(o) = {} \/ \E c \in Chunks : InPlugin(o) = {c}
    BY <2>4 DEF InPlugin
  <2>6. Cardinality(InPlugin(o)) <= 1
    <3>1. CASE InPlugin(o) = {}
      BY <3>1, FS_EmptySet
    <3>2. ASSUME NEW c \in Chunks, InPlugin(o) = {c} PROVE Cardinality(InPlugin(o)) <= 1
      BY <3>2, FS_Singleton
    <3> QED BY <2>5, <3>1, <3>2
  <2> QED BY <2>2, <2>6
<1> QED BY <1>1, EngineInvariant, EngineSyncInv, PTL

-----------------------------------------------------------------------------
(* No synchronous output waits behind a flush that nobody will report.     *)

\* A worker that cannot create the coroutine forgets the task (output_thread),
\* and an output without workers reports the failure to its caller.
NoForgettingSync == "flush_create" \notin Faults \/ Sync \cap Threaded = {}

NotLost == \A c \in Chunks, o \in Sync : flush[c][o] # "lost"

\* Only a worker that fails to create the coroutine loses a flush.
LEMMA NotLostNext ==
  ASSUME IInv, NoForgettingSync, NotLost, [Next]_vars
  PROVE  NotLost'
<1>0. Sync \subseteq Outputs /\ flush \in [Chunks -> [Outputs -> Stages]]
  BY SetsAssumption DEF IInv, TypeOK, DataTypeOK
<1>1. ASSUME NEW c \in Chunks, NEW o \in Outputs, NEW st \in Stages \ {"lost"},
             flush' = Set(flush, c, o, st)
      PROVE  NotLost'
  BY <1>0, <1>1 DEF NotLost, Set
<1>2. CASE UNCHANGED flush
  BY <1>2 DEF NotLost
<1>3. ASSUME NEW c \in Chunks, NEW o \in Outputs, TaskFlush(c, o) PROVE NotLost'
  BY <1>1, <1>3 DEF TaskFlush, Stages
<1>4. ASSUME NEW c \in Chunks, NEW o \in Outputs, NEW from, Enqueue(c, o, from)
      PROVE  NotLost'
  BY <1>1, <1>4 DEF Enqueue, Stages
<1>5. CASE Handler
  <2>1. ASSUME NEW i \in Inputs, DispatchBegin(i) PROVE NotLost'
    BY <1>2, <2>1 DEF DispatchBegin
  <2>2. ASSUME NEW c \in Chunks, NEW o \in Outputs,
               \/ TakeEvent(c, o) \/ RetryPostponed(c, o) \/ RetryAbandoned(c, o)
               \/ RetryFails(c, o)
        PROVE  NotLost'
    BY <1>2, <2>2 DEF TakeEvent, RetryPostponed, RetryAbandoned, RetryFails, vars
  <2>3. ASSUME NEW c \in Chunks, NEW o \in Outputs, RetryFlushed(c, o) PROVE NotLost'
    BY <1>3, <1>4, <2>3 DEF RetryFlushed
  <2> QED BY <1>5, <2>1, <2>2, <2>3 DEF Handler
<1>6. CASE Continue
  <2>1. ASSUME pc = "event", EventDone PROVE NotLost'
    <3>1. cur \in Chunks /\ out \in Outputs /\ flush' = Set(flush, cur, out, "idle")
      BY <2>1 DEF EventDone, IInv, ControlInv, HandleInv, Handling
    <3> QED BY <1>1, <3>1 DEF Stages
  <2>2. CASE HandleOk \/ HandleDrop \/ HandleRetry \/ HandleUnscheduled
    BY <2>1, <2>2 DEF HandleOk, HandleDrop, HandleRetry, HandleUnscheduled
  <2>3. CASE FlushOne \/ FlushOneFails
    <3>1. out \in Outputs /\ pending[out] \in Seq(Chunks) /\ pending[out] # <<>>
      BY <2>3 DEF FlushOne, FlushOneFails, IInv, ControlInv, OneInv, TypeOK, DataTypeOK
    <3>2. Head(pending[out]) \in Chunks
      BY <3>1
    <3>3. \E st \in {"pipe", "idle"} : flush' = Set(flush, Head(pending[out]), out, st)
      BY <2>3 DEF FlushOne, FlushOneFails
    <3> QED BY <1>1, <3>1, <3>2, <3>3 DEF Stages
  <2>4. ASSUME NEW c \in Chunks,
               \/ CreateSkip(c) \/ CreateFail(c) \/ CreateTask(c) \/ CreateUseless(c)
               \/ VisitRunning(c) \/ VisitNew(c)
        PROVE  NotLost'
    BY <1>2, <2>4
       DEF CreateSkip, CreateFail, CreateTask, CreateUseless, VisitRunning, VisitNew
  <2>5. CASE CreateBreak \/ StartBegin \/ TaskStarted \/ DispatchEnd
    BY <1>2, <2>5 DEF CreateBreak, StartBegin, TaskStarted, DispatchEnd
  <2>6. ASSUME NEW o \in Outputs, RouteSkipped(o) \/ RouteStarted(o) \/ RouteQueued(o)
        PROVE  NotLost'
    <3>1. CASE RouteSkipped(o)
      BY <1>2, <3>1 DEF RouteSkipped
    <3>2. CASE RouteStarted(o) \/ RouteQueued(o)
      <4>1. cur \in Chunks
        BY <3>2 DEF RouteStarted, RouteQueued, IInv, ControlInv, StartInv, Starting
      <4> QED BY <1>2, <1>3, <1>4, <3>2, <4>1 DEF RouteStarted, RouteQueued
    <3> QED BY <2>6, <3>1, <3>2
  <2> QED BY <1>6, <2>2, <2>3, <2>4, <2>5, <2>6 DEF Continue
<1>7. CASE Output
  <2>1. PICK c \in Chunks, o \in Outputs :
          \/ FlushStart(c, o) \/ FlushSkipped(c, o) \/ FlushDropped(c, o)
          \/ FlushLost(c, o)
          \/ \E ret \in Results : FlushReturn(c, o, ret)
    BY <1>7 DEF Output
  <2>2. CASE FlushLost(c, o)
    <3>1. o \notin Sync /\ flush' = Set(flush, c, o, "lost")
      BY <2>2 DEF FlushLost, NoForgettingSync
    <3> QED BY <1>0, <3>1 DEF NotLost, Set
  <2>3. CASE ~FlushLost(c, o)
    BY <1>1, <2>1, <2>3
       DEF FlushStart, FlushSkipped, FlushDropped, FlushReturn, Stages, Results
  <2> QED BY <2>2, <2>3
<1>8. CASE Input
  BY <1>2, <1>8 DEF Input, Ingest, ReleaseRing, ReleaseChunk, ReleaseRoute, ReleaseTask
<1>9. CASE UNCHANGED vars
  BY <1>2, <1>9 DEF vars
<1> QED BY <1>5, <1>6, <1>7, <1>8, <1>9 DEF Next

\* A task that waits in a singleplex queue waits for a flush that will end and
\* serve it (flb_output_task_singleplex_flush_next).  The assumption excludes the
\* one case in which the code leaves the queue waiting for ever.
THEOREM EngineQueueNeverStalls ==
  ASSUME NoForgettingSync PROVE Spec => []QueueNeverStalls
<1>1. Init => NotLost
  BY SetsAssumption DEF Init, NotLost
<1>2. IInv /\ NotLost /\ [Next]_vars => NotLost'
  BY NotLostNext
<1>3. IInv /\ SyncInv /\ NotLost => QueueNeverStalls
  <2> SUFFICES ASSUME IInv, SyncInv, NotLost, NEW o \in Sync, pc = "loop", pending[o] # <<>>
               PROVE  /\ in_progress[o] # <<>>
                      /\ flush[Head(in_progress[o])][o] \in {"pipe", "run"} \cup Results
    BY DEF QueueNeverStalls
  <2>1. in_progress[o] # <<>>
    BY DEF SyncInv, ServedInv
  <2>2. PICK c \in Chunks : in_progress[o] = <<c>>
    BY <2>1 DEF SyncInv, ProgressInv
  <2>3. InHand(c, o) /\ flush[c][o] # "lost" /\ flush[c][o] \in Stages
    BY <2>2, SetsAssumption DEF SyncInv, ProgressInv, NotLost, IInv, TypeOK, DataTypeOK
  <2>4. Head(in_progress[o]) = c
    BY <2>2, OneElement
  <2> QED BY <2>1, <2>3, <2>4 DEF InHand, Stages
<1> QED BY <1>1, <1>2, <1>3, EngineInvariant, EngineSyncInv, PTL DEF Spec

-----------------------------------------------------------------------------
(* The number of times a chunk is handed to an output.                     *)

\* A chunk that was not started was not handed to anybody.  With a limit, the
\* retry context never goes over it, a flush that waits for its callback has
\* used no more calls than there were retries, and one that runs one more.
BudgetInv(c, o) ==
  /\ chunk[c] = "ready" \/ status[c] = "new" => tries[c][o] = 0
  /\ RetryLimit[o] >= 0 =>
       /\ attempts[c][o] <= RetryLimit[o]
       /\ tries[c][o] <= RetryLimit[o] + 1
       /\ flush[c][o] \in {"queued", "pipe"} \/ (flush[c][o] = "idle" /\ attempts[c][o] > 0)
            => tries[c][o] <= attempts[c][o]
       /\ flush[c][o] # "idle" => tries[c][o] <= attempts[c][o] + 1

\* The routes tasks_start has still to start were not tried.
StartBudget ==
  Starting => /\ \A o \in rts : tries[cur][o] = 0
              /\ ~hits => \A o \in Outputs : tries[cur][o] = 0

CountInv == StartBudget /\ \A c \in Chunks, o \in Outputs : BudgetInv(c, o)

\* A pair that keeps its retry and its flush, or loses both.
LEMMA BudgetKept ==
  ASSUME IInv, NEW c \in Chunks, NEW o \in Outputs, BudgetInv(c, o),
         tries'[c][o] = tries[c][o],
         chunk'[c] = "ready" \/ status'[c] = "new" =>
           chunk[c] = "ready" \/ status[c] = "new" \/ tries[c][o] = 0,
         \/ attempts'[c][o] = attempts[c][o] /\ flush'[c][o] = flush[c][o]
         \/ attempts'[c][o] = 0 /\ flush'[c][o] = "idle"
  PROVE  BudgetInv(c, o)'
<1>1. attempts[c][o] \in Nat /\ tries[c][o] \in Nat /\ RetryLimit[o] \in Int
  BY LimitAssumption DEF IInv, TypeOK, DataTypeOK, MetricTypeOK
<1>2. CASE attempts'[c][o] = attempts[c][o] /\ flush'[c][o] = flush[c][o]
  BY <1>1, <1>2 DEF BudgetInv
<1>3. CASE attempts'[c][o] = 0 /\ flush'[c][o] = "idle"
  BY <1>1, <1>3 DEF BudgetInv
<1> QED BY <1>2, <1>3

\* A step that moves no flush and no retry.
LEMMA BudgetFrame ==
  ASSUME IInv, CountInv, UNCHANGED <<tries, attempts, flush>>,
         \A c \in Chunks : chunk'[c] = "ready" \/ status'[c] = "new" =>
           chunk[c] = "ready" \/ status[c] = "new" \/ \A o \in Outputs : tries[c][o] = 0
  PROVE  \A c \in Chunks, o \in Outputs : BudgetInv(c, o)'
<1> SUFFICES ASSUME NEW c \in Chunks, NEW o \in Outputs PROVE BudgetInv(c, o)'
  OBVIOUS
<1> QED BY BudgetKept DEF CountInv

\* tasks_start goes on, or the engine thread is elsewhere.
LEMMA StartBudgetFrame ==
  ASSUME IInv, StartBudget, UNCHANGED tries,
         Starting' => Starting /\ cur' = cur /\ rts' \subseteq rts /\ (hits => hits')
  PROVE  StartBudget'
BY DEF StartBudget

\* A flush enters the queue or the pipe: the output had not been tried more
\* often than it had been retried.
LEMMA BudgetEnters ==
  ASSUME IInv, CountInv, NEW c \in Chunks, NEW o \in Outputs, NEW st \in {"queued", "pipe"},
         flush' = Set(flush, c, o, st), UNCHANGED <<tries, attempts, chunk, status>>,
         flush[c][o] = "queued" \/ (flush[c][o] = "idle" /\ attempts[c][o] > 0) \/ tries[c][o] = 0
  PROVE  \A d \in Chunks, p \in Outputs : BudgetInv(d, p)'
<1> SUFFICES ASSUME NEW d \in Chunks, NEW p \in Outputs PROVE BudgetInv(d, p)'
  OBVIOUS
<1>0. BudgetInv(d, p)
  BY DEF CountInv
<1>1. CASE d = c /\ p = o
  <2>1. attempts[c][o] \in Nat /\ tries[c][o] \in Nat /\ RetryLimit[o] \in Int
    BY LimitAssumption DEF IInv, TypeOK, DataTypeOK, MetricTypeOK
  <2>2. flush'[c][o] = st
    BY DEF Set, IInv, TypeOK, DataTypeOK
  <2>3. RetryLimit[o] >= 0 => tries[c][o] <= attempts[c][o]
    BY <1>0, <1>1, <2>1 DEF BudgetInv
  <2> QED BY <1>0, <1>1, <2>1, <2>2, <2>3 DEF BudgetInv
<1>2. CASE ~(d = c /\ p = o)
  <2>1. flush'[d][p] = flush[d][p]
    BY <1>2 DEF Set, IInv, TypeOK, DataTypeOK
  <2> QED BY <1>0, <2>1, BudgetKept
<1> QED BY <1>1, <1>2

\* A flush goes on in the hands of its thread.
LEMMA BudgetMoves ==
  ASSUME IInv, CountInv, NEW c \in Chunks, NEW o \in Outputs, NEW st \in Stages,
         flush[c][o] # "idle", st \notin {"idle", "queued", "pipe"},
         flush' = Set(flush, c, o, st), UNCHANGED <<attempts, chunk, status>>,
         \/ UNCHANGED tries
         \/ flush[c][o] = "pipe" /\ tries' = Set(tries, c, o, CountTo(tries[c][o], AttemptCap + 1))
  PROVE  \A d \in Chunks, p \in Outputs : BudgetInv(d, p)'
<1> SUFFICES ASSUME NEW d \in Chunks, NEW p \in Outputs PROVE BudgetInv(d, p)'
  OBVIOUS
<1>0. BudgetInv(d, p)
  BY DEF CountInv
<1>1. CASE d = c /\ p = o
  <2>1. /\ attempts[c][o] \in Nat /\ tries[c][o] \in Nat /\ RetryLimit[o] \in Int
        /\ AttemptCap \in Nat
    BY LimitAssumption DEF IInv, TypeOK, DataTypeOK, MetricTypeOK
  <2>2. flush'[c][o] = st
    BY DEF Set, IInv, TypeOK, DataTypeOK
  <2>3. \/ tries'[c][o] = tries[c][o]
        \/ flush[c][o] = "pipe" /\ tries'[c][o] \in {tries[c][o], tries[c][o] + 1}
    BY DEF Set, CountTo, IInv, TypeOK, MetricTypeOK
  <2>4. chunk[c] = "busy" /\ status[c] = "running"
    BY DEF IInv, DataInv, RouteInv, TaskInv
  <2>5. RetryLimit[o] >= 0 => tries'[c][o] <= attempts[c][o] + 1
    BY <1>0, <1>1, <2>1, <2>3 DEF BudgetInv
  <2>6. /\ tries'[c][o] \in Nat
        /\ RetryLimit[o] >= 0 =>
             attempts[c][o] <= RetryLimit[o] /\ tries'[c][o] <= RetryLimit[o] + 1
    BY <1>0, <1>1, <2>1, <2>3, <2>5 DEF BudgetInv
  <2> QED BY <1>1, <2>2, <2>4, <2>5, <2>6 DEF BudgetInv
<1>2. CASE ~(d = c /\ p = o)
  <2>1. flush'[d][p] = flush[d][p]
    BY <1>2 DEF Set, IInv, TypeOK, DataTypeOK
  <2>2. tries'[d][p] = tries[d][p]
    <3>1. CASE tries' = Set(tries, c, o, CountTo(tries[c][o], AttemptCap + 1))
      BY <1>2, <3>1 DEF Set, IInv, TypeOK, MetricTypeOK
    <3> QED BY <3>1
  <2> QED BY <1>0, <2>1, <2>2, BudgetKept
<1> QED BY <1>1, <1>2

\* A retry and the flush it may have had are gone.
LEMMA BudgetEnds ==
  ASSUME IInv, CountInv, NEW c \in Chunks, NEW o \in Outputs,
         attempts' = Set(attempts, c, o, 0),
         (UNCHANGED flush /\ flush[c][o] = "idle") \/ flush' = Set(flush, c, o, "idle"),
         UNCHANGED <<tries, chunk, status>>
  PROVE  \A d \in Chunks, p \in Outputs : BudgetInv(d, p)'
<1> SUFFICES ASSUME NEW d \in Chunks, NEW p \in Outputs PROVE BudgetInv(d, p)'
  OBVIOUS
<1>0. BudgetInv(d, p)
  BY DEF CountInv
<1>1. CASE d = c /\ p = o
  <2>1. attempts'[d][p] = 0 /\ flush'[d][p] = "idle"
    BY <1>1 DEF Set, IInv, TypeOK, DataTypeOK
  <2> QED BY <1>0, <2>1, BudgetKept
<1>2. CASE ~(d = c /\ p = o)
  <2>1. flush'[d][p] = flush[d][p] /\ attempts'[d][p] = attempts[d][p]
    BY <1>2 DEF Set, IInv, TypeOK, DataTypeOK
  <2> QED BY <1>0, <2>1, BudgetKept
<1> QED BY <1>1, <1>2

\* The task is destroyed, and no flush of it is left but the one that ended.
LEMMA BudgetDestroy ==
  ASSUME IInv, CountInv, NEW c \in Chunks, Destroy(c),
         \/ UNCHANGED flush /\ \A o \in Outputs : flush[c][o] = "idle"
         \/ \E o \in Outputs : /\ flush' = Set(flush, c, o, "idle")
                               /\ \A p \in Outputs \ {o} : flush[c][p] = "idle",
         UNCHANGED tries
  PROVE  \A d \in Chunks, p \in Outputs : BudgetInv(d, p)'
<1> SUFFICES ASSUME NEW d \in Chunks, NEW p \in Outputs PROVE BudgetInv(d, p)'
  OBVIOUS
<1>0. BudgetInv(d, p)
  BY DEF CountInv
<1>1. CASE d = c
  <2>1. attempts'[d][p] = 0 /\ chunk'[d] = "gone" /\ status'[d] = "none"
    BY <1>1 DEF Destroy, NoneOf, IInv, TypeOK, DataTypeOK
  <2>2. flush'[d][p] = "idle"
    <3>1. ASSUME NEW o \in Outputs, flush' = Set(flush, c, o, "idle"),
                 \A q \in Outputs \ {o} : flush[c][q] = "idle"
          PROVE  flush'[d][p] = "idle"
      BY <1>1, <3>1 DEF Set, IInv, TypeOK, DataTypeOK
    <3> QED BY <1>1, <3>1
  <2> QED BY <1>0, <2>1, <2>2, BudgetKept
<1>2. CASE d # c
  <2>1. /\ flush'[d][p] = flush[d][p] /\ attempts'[d][p] = attempts[d][p]
        /\ chunk'[d] = chunk[d] /\ status'[d] = status[d]
    BY <1>2 DEF Set, Destroy, NoneOf, IInv, TypeOK, DataTypeOK
  <2> QED BY <1>0, <2>1, BudgetKept
<1> QED BY <1>1, <1>2

\* The end of an event whose flush is not retried.
LEMMA BudgetReleased ==
  ASSUME IInv, CountInv, pc = "event", NEW u, CleanAndRelease(cur, out, u), EventDone
  PROVE  \A c \in Chunks, o \in Outputs : BudgetInv(c, o)'
<1>0. cur \in Chunks /\ out \in Outputs /\ flush[cur][out] # "idle" /\ UNCHANGED tries
      /\ flush' = Set(flush, cur, out, "idle")
  BY EventInHand DEF EventDone
<1>1. CASE LastUse(cur, out) /\ Destroy(cur)
  <2>1. \A p \in Outputs \ {out} : flush[cur][p] = "idle"
    <3>1. users[cur] <= 1
      BY <1>1 DEF LastUse
    <3> QED BY <1>0, <3>1, LastUser
  <2> QED BY <1>0, <1>1, <2>1, BudgetDestroy
<1>2. CASE ~LastUse(cur, out)
  <2>1. attempts' = Set(attempts, cur, out, 0) /\ UNCHANGED <<chunk, status>>
    BY <1>2 DEF CleanAndRelease, RetryDestroy
  <2> QED BY <1>0, <2>1, BudgetEnds
<1> QED BY <1>1, <1>2 DEF CleanAndRelease

\* The event of a flush that is retried: the limit leaves room for one more.
LEMMA BudgetRetried ==
  ASSUME IInv, CountInv, HandleRetry
  PROVE  \A c \in Chunks, o \in Outputs : BudgetInv(c, o)'
<1> SUFFICES ASSUME NEW d \in Chunks, NEW p \in Outputs PROVE BudgetInv(d, p)'
  OBVIOUS
<1>0. /\ cur \in Chunks /\ out \in Outputs /\ flush[cur][out] # "idle"
      /\ status[cur] = "running" /\ chunk[cur] = "busy"
  BY EventInHand DEF HandleRetry, IInv, DataInv, TaskInv
<1>1. /\ flush' = Set(flush, cur, out, "idle")
      /\ attempts' = Set(attempts, cur, out, CountTo(attempts[cur][out], AttemptCap))
      /\ UNCHANGED <<chunk, status, tries>> /\ RetryAllowed(cur, out)
  BY DEF HandleRetry, EventDone
<1>2. BudgetInv(d, p)
  BY DEF CountInv
<1>3. CASE d = cur /\ p = out
  <2>1. /\ attempts[cur][out] \in Nat /\ tries[cur][out] \in Nat /\ RetryLimit[out] \in Int
        /\ AttemptCap \in Nat /\ RetryLimit[out] < AttemptCap
    BY <1>0, LimitAssumption DEF IInv, TypeOK, DataTypeOK, MetricTypeOK
  <2>2. RetryLimit[out] >= 0 => attempts[cur][out] < RetryLimit[out]
    BY <1>1, <2>1 DEF RetryAllowed, LimitReached, FLB_OUT_RETRY_NONE
  <2>3. RetryLimit[out] >= 0 => attempts'[cur][out] = attempts[cur][out] + 1
    BY <1>0, <1>1, <2>1, <2>2 DEF Set, CountTo, IInv, TypeOK, DataTypeOK
  <2>4. flush'[cur][out] = "idle"
    BY <1>0, <1>1 DEF Set, IInv, TypeOK, DataTypeOK
  <2>5. RetryLimit[out] >= 0 =>
          tries[cur][out] <= attempts[cur][out] + 1 /\ tries[cur][out] <= RetryLimit[out] + 1
    BY <1>0, <1>2, <1>3 DEF BudgetInv
  <2> QED BY <1>0, <1>1, <1>3, <2>1, <2>2, <2>3, <2>4, <2>5 DEF BudgetInv
<1>4. CASE ~(d = cur /\ p = out)
  <2>1. flush'[d][p] = flush[d][p] /\ attempts'[d][p] = attempts[d][p]
    BY <1>0, <1>1, <1>4 DEF Set, IInv, TypeOK, DataTypeOK
  <2> QED BY <1>1, <1>2, <2>1, BudgetKept
<1> QED BY <1>3, <1>4

\* The handlers of events.
LEMMA CountHandler ==
  ASSUME IInv, CountInv, Handler
  PROVE  CountInv'
<1>0. ASSUME NEW c \in Chunks, NEW o \in Outputs, RetryFires(c, o)
      PROVE  flush[c][o] = "idle" /\ attempts[c][o] > 0
  BY <1>0 DEF RetryFires, IInv, DataInv, RouteInv
<1>1. ASSUME NEW i \in Inputs, DispatchBegin(i) PROVE CountInv'
  <2>1. ~Starting'
    BY <1>1 DEF DispatchBegin, Starting
  <2> QED BY <1>1, <2>1, BudgetFrame DEF DispatchBegin, CountInv, StartBudget
<1>2. ASSUME NEW c \in Chunks, NEW o \in Outputs, TakeEvent(c, o) PROVE CountInv'
  <2>1. ~Starting'
    BY <1>2 DEF TakeEvent, Starting
  <2> QED BY <1>2, <2>1, BudgetFrame DEF TakeEvent, CountInv, StartBudget
<1>3. ASSUME NEW c \in Chunks, NEW o \in Outputs, RetryPostponed(c, o) PROVE CountInv'
  <2>1. ~Starting'
    BY <1>3 DEF RetryPostponed, RetryFires, Starting, vars
  <2> QED BY <1>3, <2>1, BudgetFrame DEF RetryPostponed, vars, CountInv, StartBudget
<1>4. ASSUME NEW c \in Chunks, NEW o \in Outputs, RetryAbandoned(c, o) PROVE CountInv'
  <2>1. ~Starting' /\ UNCHANGED <<flush, tries>>
    BY <1>4 DEF RetryAbandoned, RetryFires, Starting
  <2>2. CASE users[c] = 0 /\ Destroy(c)
    <3>1. \A p \in Outputs : flush[c][p] = "idle"
      BY <2>2, NothingInFlight
    <3> QED BY <2>1, <2>2, <3>1, BudgetDestroy DEF CountInv, StartBudget
  <2>3. CASE RetryDestroy(c, o) /\ UNCHANGED <<chunkVars, taskVars>>
    <3>1. flush[c][o] = "idle"
      BY <1>0, <1>4 DEF RetryAbandoned
    <3> QED BY <2>1, <2>3, <3>1, BudgetEnds DEF RetryDestroy, CountInv, StartBudget
  <2> QED BY <1>4, <2>2, <2>3 DEF RetryAbandoned
<1>5. ASSUME NEW c \in Chunks, NEW o \in Outputs, RetryFails(c, o) PROVE CountInv'
  <2>1. ~Starting' /\ UNCHANGED <<flush, tries, chunk, status>> /\ flush[c][o] = "idle"
        /\ attempts' = Set(attempts, c, o, 0)
    BY <1>0, <1>5 DEF RetryFails, RetryFires, RetryDestroy, Starting
  <2> QED BY <2>1, BudgetEnds DEF CountInv, StartBudget
<1>6. ASSUME NEW c \in Chunks, NEW o \in Outputs, RetryFlushed(c, o) PROVE CountInv'
  <2>1. /\ flush[c][o] = "idle" /\ attempts[c][o] > 0
        /\ UNCHANGED <<tries, attempts, chunk, status>>
    BY <1>0, <1>6 DEF RetryFlushed
  <2>2. ~Starting'
    BY <1>6 DEF RetryFlushed, RetryFires, Enqueue, Starting
  <2>3. \E st \in {"queued", "pipe"} : flush' = Set(flush, c, o, st)
    BY <1>6 DEF RetryFlushed, TaskFlush, Enqueue
  <2> QED BY <2>1, <2>2, <2>3, BudgetEnters DEF CountInv, StartBudget
<1> QED BY <1>1, <1>2, <1>3, <1>4, <1>5, <1>6 DEF Handler, CountInv

\* A handler goes on.
LEMMA CountContinue ==
  ASSUME IInv, CountInv, Continue
  PROVE  CountInv'
<1>1. CASE CreateBreak \/ StartBegin \/ DispatchEnd
  <2>1. ~Starting' /\ UNCHANGED <<tries, attempts, flush, chunk, status>>
    BY <1>1 DEF CreateBreak, StartBegin, DispatchEnd, Starting
  <2> QED BY <2>1, BudgetFrame DEF CountInv, StartBudget
<1>2. CASE TaskStarted
  <2>1. ~Starting' /\ UNCHANGED <<tries, attempts, flush, chunk>>
    BY <1>2 DEF TaskStarted, Starting
  <2>2. Starting /\ cur \in Chunks
    BY <1>2 DEF TaskStarted, Starting, IInv, ControlInv, StartInv
  <2>3. ASSUME NEW c \in Chunks, status'[c] = "new"
        PROVE  status[c] = "new" \/ \A o \in Outputs : tries[c][o] = 0
    BY <1>2, <2>2, <2>3 DEF TaskStarted, CountInv, StartBudget, IInv, TypeOK, DataTypeOK
  <2> QED BY <2>1, <2>3, BudgetFrame DEF CountInv, StartBudget
<1>3. CASE FlushOne \/ FlushOneFails
  <2>1. PICK c \in Chunks : c = Head(pending[out]) /\ flush[c][out] = "queued"
    <3>1. /\ out \in Outputs /\ pending[out] \in Seq(Chunks) /\ pending[out] # <<>>
      BY <1>3 DEF FlushOne, FlushOneFails, IInv, ControlInv, OneInv, TypeOK, DataTypeOK
    <3>2. /\ Len(pending[out]) \in Nat \ {0} /\ Head(pending[out]) = pending[out][1]
          /\ Head(pending[out]) \in Chunks
      BY <3>1
    <3>3. 1 \in 1 .. Len(pending[out])
      BY <3>2
    <3> QED BY <3>1, <3>2, <3>3 DEF IInv, DataInv, QueueInv
  <2>2. /\ out \in Outputs /\ UNCHANGED <<tries, chunk, status, cur, rts, hits>>
        /\ Starting' => Starting
    BY <1>3 DEF FlushOne, FlushOneFails, QueueDone, Starting, IInv, ControlInv, OneInv
  <2>3. StartBudget'
    BY <2>2, StartBudgetFrame DEF CountInv
  <2>4. CASE FlushOne
    <3>1. flush' = Set(flush, c, out, "pipe") /\ UNCHANGED attempts
      BY <2>1, <2>4 DEF FlushOne
    <3> QED BY <2>1, <2>2, <2>3, <3>1, BudgetEnters DEF CountInv
  <2>5. CASE FlushOneFails
    <3>1. flush' = Set(flush, c, out, "idle") /\ attempts' = Set(attempts, c, out, 0)
      BY <2>1, <2>5 DEF FlushOneFails, RetryDestroy
    <3> QED BY <2>1, <2>2, <2>3, <3>1, BudgetEnds DEF CountInv
  <2> QED BY <1>3, <2>4, <2>5
<1>4. CASE HandleOk \/ HandleDrop \/ HandleRetry \/ HandleUnscheduled
  <2>1. pc = "event" /\ EventDone /\ ~Starting'
    BY <1>4 DEF HandleOk, HandleDrop, HandleRetry, HandleUnscheduled, EventDone, Starting
  <2>2. HandleRetry \/ \E u \in BOOLEAN : CleanAndRelease(cur, out, u)
    <3>1. CASE HandleOk \/ HandleDrop
      <4>1. up[cur] \in BOOLEAN
        BY <2>1, EventInHand DEF IInv, TypeOK, DataTypeOK
      <4> QED BY <3>1, <4>1 DEF HandleOk, HandleDrop
    <3>2. CASE HandleUnscheduled
      <4>1. PICK overlimit \in BOOLEAN :
              CleanAndRelease(cur, out, UpAfterRetry(cur, overlimit))
        BY <3>2 DEF HandleUnscheduled
      <4>2. UpAfterRetry(cur, overlimit) \in BOOLEAN
        BY DEF UpAfterRetry
      <4> QED BY <4>1, <4>2
    <3> QED BY <1>4, <3>1, <3>2
  <2>3. \A c \in Chunks, o \in Outputs : BudgetInv(c, o)'
    BY <2>1, <2>2, BudgetReleased, BudgetRetried
  <2> QED BY <2>1, <2>3 DEF CountInv, StartBudget
<1>5. ASSUME NEW c \in Chunks,
             CreateSkip(c) \/ CreateFail(c) \/ CreateUseless(c) \/ VisitRunning(c)
      PROVE  CountInv'
  <2>1. /\ ~Starting' /\ UNCHANGED <<tries, attempts, flush, status>>
        /\ \A d \in Chunks : chunk'[d] = "ready" => chunk[d] = "ready"
    BY <1>5 DEF CreateSkip, CreateFail, CreateUseless, VisitRunning, Starting,
                IInv, TypeOK, DataTypeOK
  <2> QED BY <2>1, BudgetFrame DEF CountInv, StartBudget
<1>6. ASSUME NEW c \in Chunks, CreateTask(c) PROVE CountInv'
  <2>1. /\ ~Starting' /\ UNCHANGED <<tries, attempts, flush>> /\ chunk[c] = "ready"
        /\ chunk' = [chunk EXCEPT ![c] = "busy"] /\ status' = [status EXCEPT ![c] = "new"]
    BY <1>6 DEF CreateTask, Starting, IInv, ControlInv, CreateInv
  <2>2. \A d \in Chunks : chunk'[d] = "ready" \/ status'[d] = "new" =>
          chunk[d] = "ready" \/ status[d] = "new"
    BY <2>1 DEF IInv, TypeOK, DataTypeOK
  <2> QED BY <2>1, <2>2, BudgetFrame DEF CountInv, StartBudget
<1>7. ASSUME NEW c \in Chunks, VisitNew(c) PROVE CountInv'
  <2>1. /\ UNCHANGED <<tries, attempts, flush, chunk>>
        /\ status' = [status EXCEPT ![c] = "running"]
        /\ cur' = c /\ rts' \subseteq Outputs /\ status[c] = "new"
    BY <1>7 DEF VisitNew, Routes
  <2>2. \A d \in Chunks : status'[d] = "new" => status[d] = "new"
    BY <2>1 DEF IInv, TypeOK, DataTypeOK
  <2>3. \A o \in Outputs : tries[c][o] = 0
    BY <2>1 DEF CountInv, BudgetInv
  <2> QED BY <2>1, <2>2, <2>3, BudgetFrame DEF CountInv, StartBudget
<1>8. ASSUME NEW o \in Outputs, RouteSkipped(o) \/ RouteStarted(o) \/ RouteQueued(o)
      PROVE  CountInv'
  <2>1. /\ Starting /\ cur \in Chunks /\ o \in rts /\ rts' = rts \ {o} /\ cur' = cur
        /\ (hits => hits') /\ UNCHANGED <<tries, attempts, chunk, status>>
    BY <1>8 DEF RouteSkipped, RouteStarted, RouteQueued, Starting, IInv, ControlInv, StartInv
  <2>2. tries[cur][o] = 0
    BY <2>1 DEF CountInv, StartBudget
  <2>3. UNCHANGED flush \/ \E st \in {"queued", "pipe"} : flush' = Set(flush, cur, o, st)
    BY <1>8 DEF RouteSkipped, RouteStarted, RouteQueued, TaskFlush, Enqueue
  <2>4. StartBudget'
    BY <2>1, StartBudgetFrame DEF CountInv
  <2> QED BY <2>1, <2>2, <2>3, <2>4, BudgetEnters, BudgetFrame DEF CountInv
<1> QED BY <1>1, <1>2, <1>3, <1>4, <1>5, <1>6, <1>7, <1>8 DEF Continue

\* A flush moves on; the callback is counted when it is called.
LEMMA CountOutput ==
  ASSUME IInv, CountInv, Output
  PROVE  CountInv'
<1>1. PICK c \in Chunks, o \in Outputs :
        \/ FlushStart(c, o) \/ FlushSkipped(c, o) \/ FlushDropped(c, o)
        \/ FlushLost(c, o)
        \/ \E ret \in Results : FlushReturn(c, o, ret)
  BY DEF Output
<1>2. PICK st \in Stages : /\ st \notin {"idle", "queued", "pipe"}
                          /\ flush' = Set(flush, c, o, st)
  BY <1>1 DEF FlushStart, FlushSkipped, FlushDropped, FlushLost, FlushReturn, Stages, Results
<1>3. /\ flush[c][o] \in {"pipe", "run"} /\ UNCHANGED <<attempts, chunk, status, ctlVars>>
      /\ \/ UNCHANGED tries
         \/ /\ flush[c][o] = "pipe"
            /\ tries' = Set(tries, c, o, CountTo(tries[c][o], AttemptCap + 1))
  BY <1>1 DEF FlushStart, FlushSkipped, FlushDropped, FlushLost, FlushReturn
<1>4. \A d \in Chunks, p \in Outputs : BudgetInv(d, p)'
  BY <1>2, <1>3, BudgetMoves
<1>5. StartBudget'
  <2>1. CASE UNCHANGED tries
    BY <1>3, <2>1, StartBudgetFrame DEF Starting, CountInv
  <2>2. CASE tries' = Set(tries, c, o, CountTo(tries[c][o], AttemptCap + 1)) /\ Starting
    <3>1. /\ cur \in Chunks /\ rts \subseteq Outputs
          /\ c = cur => o \notin rts /\ hits
      BY <1>3, <2>2 DEF IInv, ControlInv, StartInv, TypeOK, ControlTypeOK
    <3>2. \A p \in Outputs : ~(c = cur /\ p = o) => tries'[cur][p] = tries[cur][p]
      BY <2>2, <3>1 DEF Set, IInv, TypeOK, MetricTypeOK
    <3> QED BY <1>3, <2>2, <3>1, <3>2 DEF CountInv, StartBudget
  <2>3. CASE ~Starting
    BY <1>3, <2>3 DEF StartBudget, Starting
  <2> QED BY <1>3, <2>1, <2>2, <2>3
<1> QED BY <1>4, <1>5 DEF CountInv

\* A chunk comes in or makes room for another.
LEMMA CountInput ==
  ASSUME IInv, CountInv, Input
  PROVE  CountInv'
<1>1. ASSUME NEW c \in Chunks, Ingest(c) PROVE CountInv'
  <2>1. /\ ~Starting' /\ UNCHANGED <<attempts, flush, status>>
        /\ chunk' = [chunk EXCEPT ![c] = "ready"]
        /\ tries' = [tries EXCEPT ![c] = [o \in Outputs |-> 0]]
    BY <1>1 DEF Ingest, Starting, NoneOf
  <2>2. ASSUME NEW d \in Chunks, NEW p \in Outputs PROVE BudgetInv(d, p)'
    <3>0. BudgetInv(d, p)
      BY DEF CountInv
    <3>1. CASE d = c
      <4>1. attempts[c][p] = 0 /\ flush[c][p] = "idle"
        BY <1>1 DEF Ingest, IInv, DataInv, TaskInv, RouteInv
      <4>2. tries'[c][p] = 0
        BY <2>1 DEF IInv, TypeOK, MetricTypeOK
      <4>3. RetryLimit[p] \in Int
        BY LimitAssumption
      <4> QED BY <2>1, <3>1, <4>1, <4>2, <4>3 DEF BudgetInv
    <3>2. CASE d # c
      <4>1. tries'[d][p] = tries[d][p] /\ chunk'[d] = chunk[d]
        BY <2>1, <3>2 DEF IInv, TypeOK, DataTypeOK, MetricTypeOK
      <4> QED BY <2>1, <3>0, <4>1, BudgetKept
    <3> QED BY <3>1, <3>2
  <2> QED BY <2>1, <2>2 DEF CountInv, StartBudget
<1>2. ASSUME NEW c \in Chunks, UNCHANGED <<tries, flush, ctlVars>>, pc = "loop",
             \/ Destroy(c) /\ users[c] = 0
             \/ /\ UNCHANGED <<attempts, status>>
                /\ UNCHANGED chunk \/ chunk' = [chunk EXCEPT ![c] = "gone"]
      PROVE  CountInv'
  <2>1. ~Starting'
    BY <1>2 DEF Starting
  <2>2. CASE Destroy(c) /\ users[c] = 0
    <3>1. \A p \in Outputs : flush[c][p] = "idle"
      BY <2>2, NothingInFlight
    <3> QED BY <1>2, <2>1, <2>2, <3>1, BudgetDestroy DEF CountInv, StartBudget
  <2>3. CASE /\ UNCHANGED <<attempts, status>>
             /\ UNCHANGED chunk \/ chunk' = [chunk EXCEPT ![c] = "gone"]
    <3>1. \A d \in Chunks : chunk'[d] = "ready" => chunk[d] = "ready"
      BY <2>3 DEF IInv, TypeOK, DataTypeOK
    <3> QED BY <1>2, <2>1, <2>3, <3>1, BudgetFrame DEF CountInv, StartBudget
  <2> QED BY <1>2, <2>2, <2>3
<1>3. ASSUME NEW c \in Chunks, ReleaseRing(c) PROVE CountInv'
  BY <1>2, <1>3 DEF ReleaseRing
<1>4. ASSUME NEW c \in Chunks, NEW o \in Outputs, NEW scope \in Scopes(c),
             \/ ReleaseChunk(c, o, scope) \/ ReleaseRoute(c, o, scope)
             \/ ReleaseTask(c, o, scope)
      PROVE  CountInv'
  BY <1>2, <1>4 DEF ReleaseChunk, ReleaseRoute, ReleaseTask, Releases
<1> QED BY <1>1, <1>3, <1>4 DEF Input

\* An output with retry_limit n is handed the same chunk at most n + 1 times,
\* whatever fails and however flushes and retries interleave
\* (flb_task_retry_create, flb_engine_dispatch_retry).
THEOREM EngineRetryBudget == Spec => []RetryBudget
<1>1. Init => CountInv
  <2> SUFFICES ASSUME Init PROVE CountInv
    OBVIOUS
  <2>1. StartBudget
    BY DEF Init, StartBudget, Starting
  <2>2. ASSUME NEW c \in Chunks, NEW o \in Outputs PROVE BudgetInv(c, o)
    <3>1. attempts[c][o] = 0 /\ tries[c][o] = 0 /\ flush[c][o] = "idle" /\ RetryLimit[o] \in Int
      BY LimitAssumption DEF Init
    <3> QED BY <3>1 DEF BudgetInv
  <2> QED BY <2>1, <2>2 DEF CountInv
<1>2. IInv /\ CountInv /\ [Next]_vars => CountInv'
  <2> SUFFICES ASSUME IInv, CountInv, [Next]_vars PROVE CountInv'
    OBVIOUS
  <2>1. CASE UNCHANGED vars
    <3>1. \A c \in Chunks, o \in Outputs : BudgetInv(c, o)'
      BY <2>1, BudgetFrame DEF vars
    <3>2. StartBudget'
      BY <2>1 DEF vars, CountInv, StartBudget, Starting
    <3> QED BY <3>1, <3>2 DEF CountInv
  <2> QED BY <2>1, CountHandler, CountContinue, CountOutput, CountInput DEF Next
<1>3. CountInv => RetryBudget
  BY DEF CountInv, BudgetInv, RetryBudget
<1> QED BY <1>1, <1>2, <1>3, EngineInvariant, PTL DEF Spec

-----------------------------------------------------------------------------
(* No running task is forgotten.                                           *)

\* The calls whose failure leaves a task without users and retries behind do
\* not fail: reading the content of a retry, and creating the coroutine of an
\* output without workers (flb_engine_dispatch_retry, flb_output_task_flush).
HandOverWorks == "content" \notin Faults /\ \A o \in Outputs : ~FlushCreateFails(o)

Held(c) == users[c] > 0 \/ ~NoRetries(c)
BeingStarted(c) == Starting /\ cur = c /\ ~hits
HeldInv == \A c \in Chunks : status[c] = "running" => Held(c) \/ BeingStarted(c)

\* A step that leaves the users and the retries of every task alone.
LEMMA HeldFrame ==
  ASSUME HeldInv, UNCHANGED <<users, attempts>>,
         \A c \in Chunks : status'[c] = "running" =>
           \/ status[c] = "running" /\ (BeingStarted(c) => BeingStarted(c)')
           \/ BeingStarted(c)' \/ Held(c)
  PROVE  HeldInv'
BY DEF HeldInv, Held, NoRetries

\* A flush begins: the task has one more user.
LEMMA HeldUser ==
  ASSUME IInv, HeldInv, NEW c \in Chunks,
         users' = [users EXCEPT ![c] = @ + 1], UNCHANGED <<attempts, status>>,
         \A d \in Chunks : d # c => ~BeingStarted(d)
  PROVE  HeldInv'
<1>1. users'[c] > 0
  BY DEF IInv, TypeOK, DataTypeOK
<1>2. \A d \in Chunks : d # c => users'[d] = users[d]
  BY DEF IInv, TypeOK, DataTypeOK
<1> QED BY <1>1, <1>2 DEF HeldInv, Held, NoRetries

\* One task changes between handlers, and it is destroyed or held.
LEMMA HeldOne ==
  ASSUME IInv, HeldInv, NEW c \in Chunks, ~Starting,
         \A d \in Chunks : d # c =>
           status'[d] = status[d] /\ users'[d] = users[d] /\ attempts'[d] = attempts[d],
         status'[c] = "running" => Held(c)'
  PROVE  HeldInv'
<1> SUFFICES ASSUME NEW d \in Chunks, status'[d] = "running" PROVE Held(d)'
  BY DEF HeldInv
<1>1. CASE d # c
  BY <1>1 DEF HeldInv, BeingStarted, Held, NoRetries
<1> QED BY <1>1

\* A destroyed task is not running.
LEMMA HeldDestroy ==
  ASSUME IInv, HeldInv, NEW c \in Chunks, ~Starting, Destroy(c),
         \A d \in Chunks : d # c => users'[d] = users[d]
  PROVE  HeldInv'
<1>1. status'[c] = "none"
  BY DEF Destroy, IInv, TypeOK, DataTypeOK
<1>2. \A d \in Chunks : d # c => status'[d] = status[d] /\ attempts'[d] = attempts[d]
  BY DEF Destroy, NoneOf, IInv, TypeOK, DataTypeOK
<1> QED BY <1>1, <1>2, HeldOne

\* The end of an event: the task keeps a user or a retry, or is destroyed.
LEMMA HeldReleased ==
  ASSUME IInv, HeldInv, pc = "event", NEW u, CleanAndRelease(cur, out, u)
  PROVE  HeldInv'
<1>0. cur \in Chunks /\ out \in Outputs /\ flush[cur][out] # "idle" /\ ~Starting
  BY EventInHand DEF Starting
<1>1. /\ users' = [users EXCEPT ![cur] = @ - 1]
      /\ \A d \in Chunks : d # cur => users'[d] = users[d]
  BY <1>0 DEF CleanAndRelease, UsersDec, IInv, TypeOK, DataTypeOK
<1>2. PICK c \in Chunks : c = cur
  BY <1>0
<1>3. CASE Destroy(cur)
  BY <1>0, <1>1, <1>3, HeldDestroy
<1>4. CASE ~LastUse(cur, out) /\ RetryDestroy(cur, out) /\ UNCHANGED status
  <2>1. attempts' = Set(attempts, cur, out, 0)
    BY <1>4 DEF RetryDestroy
  <2>2. \A d \in Chunks : d # cur => attempts'[d] = attempts[d]
    BY <1>0, <2>1 DEF Set, IInv, TypeOK, DataTypeOK
  <2>3. \A p \in Outputs \ {out} : attempts'[cur][p] = attempts[cur][p]
    BY <1>0, <2>1 DEF Set, IInv, TypeOK, DataTypeOK
  <2>4. users[cur] \in Nat \ {0}
    <3>1. users[cur] \in Nat
      BY <1>0 DEF IInv, TypeOK, DataTypeOK
    <3> QED BY <1>0, <3>1, NothingInFlight
  <2>5. Held(c)'
    <3>1. CASE users[cur] # 1
      <4>1. users'[cur] = users[cur] - 1
        BY <1>0, <1>1 DEF IInv, TypeOK, DataTypeOK
      <4> QED BY <1>2, <2>4, <3>1, <4>1 DEF Held
    <3>2. CASE \E p \in Outputs \ {out} : attempts[cur][p] # 0
      BY <1>2, <2>3, <3>2 DEF Held, NoRetries
    <3> QED BY <1>4, <3>1, <3>2 DEF LastUse
  <2> QED BY <1>0, <1>1, <1>2, <1>4, <2>2, <2>5, HeldOne
<1> QED BY <1>3, <1>4 DEF CleanAndRelease

\* The handlers of events.
LEMMA HeldHandler ==
  ASSUME IInv, HandOverWorks, HeldInv, Handler
  PROVE  HeldInv'
<1>0. pc = "loop" /\ ~Starting
  BY DEF Handler, DispatchBegin, TakeEvent, RetryPostponed, RetryAbandoned, RetryFails,
         RetryFlushed, RetryFires, Starting
<1>1. \A c \in Chunks : ~BeingStarted(c)
  BY <1>0 DEF BeingStarted
<1>2. ASSUME NEW i \in Inputs, DispatchBegin(i) PROVE HeldInv'
  BY <1>1, <1>2, HeldFrame DEF DispatchBegin
<1>3. ASSUME NEW c \in Chunks, NEW o \in Outputs, TakeEvent(c, o) \/ RetryPostponed(c, o)
      PROVE  HeldInv'
  BY <1>1, <1>3, HeldFrame DEF TakeEvent, RetryPostponed, vars
<1>4. ASSUME NEW c \in Chunks, NEW o \in Outputs, RetryAbandoned(c, o) PROVE HeldInv'
  <2>1. CASE Destroy(c) /\ UNCHANGED users
    BY <1>0, <2>1, HeldDestroy
  <2>2. CASE /\ users[c] # 0 \/ \E p \in Outputs \ {o} : attempts[c][p] > 0
             /\ RetryDestroy(c, o)
             /\ UNCHANGED <<chunkVars, taskVars>>
    <3>1. attempts' = Set(attempts, c, o, 0)
      BY <2>2 DEF RetryDestroy
    <3>2. /\ \A d \in Chunks : d # c => attempts'[d] = attempts[d]
          /\ \A p \in Outputs \ {o} : attempts'[c][p] = attempts[c][p]
      BY <3>1 DEF Set, IInv, TypeOK, DataTypeOK
    <3>3. users[c] \in Nat /\ users'[c] = users[c]
      BY <2>2 DEF IInv, TypeOK, DataTypeOK
    <3>4. Held(c)'
      <4>1. CASE users[c] # 0
        BY <3>3, <4>1 DEF Held
      <4>2. ASSUME NEW p \in Outputs \ {o}, attempts[c][p] > 0 PROVE Held(c)'
        BY <3>2, <4>2 DEF Held, NoRetries
      <4> QED BY <2>2, <4>1, <4>2
    <3> QED BY <1>0, <2>2, <3>2, <3>4, HeldOne
  <2> QED BY <1>4, <2>1, <2>2 DEF RetryAbandoned
<1>5. ASSUME NEW c \in Chunks, NEW o \in Outputs, RetryFails(c, o) PROVE HeldInv'
  BY <1>5 DEF RetryFails, HandOverWorks
<1>6. ASSUME NEW c \in Chunks, NEW o \in Outputs, RetryFlushed(c, o) PROVE HeldInv'
  <2>1. users' = [users EXCEPT ![c] = @ + 1] /\ UNCHANGED <<attempts, status>>
    BY <1>6 DEF RetryFlushed, TaskFlush, Enqueue
  <2> QED BY <1>1, <2>1, HeldUser
<1> QED BY <1>2, <1>3, <1>4, <1>5, <1>6 DEF Handler

\* A handler goes on.
LEMMA HeldContinue ==
  ASSUME IInv, HandOverWorks, HeldInv, Continue
  PROVE  HeldInv'
<1>1. CASE CreateBreak \/ StartBegin \/ DispatchEnd
  <2>1. ~Starting /\ UNCHANGED <<users, attempts, status>>
    BY <1>1 DEF CreateBreak, StartBegin, DispatchEnd, Starting
  <2> QED BY <2>1, HeldFrame DEF BeingStarted
<1>2. CASE TaskStarted
  <2>1. cur \in Chunks /\ UNCHANGED <<users, attempts>>
        /\ status' = [status EXCEPT ![cur] = IF hits THEN @ ELSE "new"]
    BY <1>2 DEF TaskStarted, IInv, ControlInv, StartInv, Starting
  <2>2. \A c \in Chunks : status'[c] = "running" => status[c] = "running" /\ ~BeingStarted(c)
    BY <2>1 DEF BeingStarted, IInv, TypeOK, DataTypeOK
  <2> QED BY <2>1, <2>2, HeldFrame
<1>3. CASE FlushOne
  <2>1. /\ UNCHANGED <<users, attempts, status, cur, hits>>
        /\ Starting => Starting'
    BY <1>3 DEF FlushOne, QueueDone, Starting
  <2> QED BY <2>1, HeldFrame DEF BeingStarted
<1>4. CASE FlushOneFails
  BY <1>4 DEF FlushOneFails, HandOverWorks, IInv, ControlInv, OneInv
<1>5. CASE HandleOk \/ HandleDrop
  BY <1>5, HeldReleased DEF HandleOk, HandleDrop
<1>6. CASE HandleUnscheduled
  BY <1>6, HeldReleased DEF HandleUnscheduled
<1>7. CASE HandleRetry
  <2>1. /\ cur \in Chunks /\ out \in Outputs /\ ~Starting /\ UNCHANGED status
        /\ attempts' = Set(attempts, cur, out, CountTo(attempts[cur][out], AttemptCap))
        /\ users' = [users EXCEPT ![cur] = @ - 1]
    BY <1>7, EventInHand DEF HandleRetry, Starting, UsersDec
  <2>2. attempts'[cur][out] # 0
    <3>1. attempts[cur][out] \in Nat /\ AttemptCap \in Nat \ {0}
      BY <2>1, LimitAssumption DEF IInv, TypeOK, DataTypeOK
    <3> QED BY <2>1, <3>1 DEF Set, CountTo, IInv, TypeOK, DataTypeOK
  <2>3. \A d \in Chunks : d # cur => users'[d] = users[d] /\ attempts'[d] = attempts[d]
    BY <2>1 DEF Set, IInv, TypeOK, DataTypeOK
  <2>4. PICK c \in Chunks : c = cur
    BY <2>1
  <2>5. Held(c)'
    BY <2>1, <2>2, <2>4 DEF Held, NoRetries
  <2> QED BY <2>1, <2>3, <2>4, <2>5, HeldOne
<1>8. ASSUME NEW c \in Chunks,
             CreateSkip(c) \/ CreateFail(c) \/ CreateUseless(c) \/ VisitRunning(c)
      PROVE  HeldInv'
  <2>1. ~Starting /\ UNCHANGED <<users, attempts, status>>
    BY <1>8 DEF CreateSkip, CreateFail, CreateUseless, VisitRunning, Starting
  <2> QED BY <2>1, HeldFrame DEF BeingStarted
<1>9. ASSUME NEW c \in Chunks, CreateTask(c) PROVE HeldInv'
  <2>1. /\ ~Starting /\ UNCHANGED attempts
        /\ status' = [status EXCEPT ![c] = "new"] /\ users' = [users EXCEPT ![c] = 0]
    BY <1>9 DEF CreateTask, Starting
  <2>2. /\ status'[c] = "new"
        /\ \A d \in Chunks : d # c => status'[d] = status[d] /\ users'[d] = users[d]
    BY <2>1 DEF IInv, TypeOK, DataTypeOK
  <2> QED BY <2>1, <2>2, HeldOne
<1>10. ASSUME NEW c \in Chunks, VisitNew(c) PROVE HeldInv'
  <2>1. /\ ~Starting /\ BeingStarted(c)' /\ UNCHANGED <<users, attempts>>
        /\ status' = [status EXCEPT ![c] = "running"]
    BY <1>10 DEF VisitNew, Starting, BeingStarted
  <2>2. \A d \in Chunks : d # c => status'[d] = status[d]
    BY <2>1 DEF IInv, TypeOK, DataTypeOK
  <2> QED BY <2>1, <2>2, HeldFrame DEF BeingStarted
<1>11. ASSUME NEW o \in Outputs, RouteSkipped(o) PROVE HeldInv'
  <2>1. /\ UNCHANGED <<users, attempts, status, cur, hits>>
        /\ Starting => Starting'
    BY <1>11 DEF RouteSkipped, Starting
  <2> QED BY <2>1, HeldFrame DEF BeingStarted
<1>12. ASSUME NEW o \in Outputs, RouteStarted(o) \/ RouteQueued(o) PROVE HeldInv'
  <2>1. cur \in Chunks /\ UNCHANGED <<attempts, status>>
    BY <1>12 DEF RouteStarted, RouteQueued, IInv, ControlInv, StartInv, Starting
  <2>2. users' = [users EXCEPT ![cur] = @ + 1]
    BY <1>12 DEF RouteStarted, RouteQueued, TaskFlush, Enqueue, HandOverWorks
  <2> QED BY <2>1, <2>2, HeldUser DEF BeingStarted
<1> QED
  BY <1>1, <1>2, <1>3, <1>4, <1>5, <1>6, <1>7, <1>8, <1>9, <1>10, <1>11, <1>12 DEF Continue

\* Flushes, appends and the release of space.
LEMMA HeldOutside ==
  ASSUME IInv, HeldInv, Output \/ Input
  PROVE  HeldInv'
<1>1. CASE Output
  <2>1. UNCHANGED <<users, attempts, status, ctlVars>>
    BY <1>1 DEF Output, FlushStart, FlushSkipped, FlushDropped, FlushLost, FlushReturn
  <2> QED BY <2>1, HeldFrame DEF BeingStarted, Starting
<1>2. CASE Input
  <2>1. pc = "loop" /\ ~Starting /\ UNCHANGED users
    BY <1>2 DEF Input, Ingest, ReleaseRing, ReleaseChunk, ReleaseRoute, ReleaseTask,
                Releases, Starting
  <2>2. ASSUME NEW c \in Chunks, Destroy(c) PROVE HeldInv'
    BY <2>1, <2>2, HeldDestroy
  <2>3. CASE UNCHANGED <<attempts, status>>
    BY <2>1, <2>3, HeldFrame DEF BeingStarted
  <2> QED
    BY <1>2, <2>2, <2>3 DEF Input, Ingest, ReleaseRing, ReleaseChunk, ReleaseRoute, ReleaseTask
<1> QED BY <1>1, <1>2

\* Between handlers every running task has a user or a retry, so something will
\* destroy it (flb_task_users_release, flb_task_retry_create).  The assumption
\* excludes the two failures after which the code forgets the task.
THEOREM EngineNoOrphanTask == ASSUME HandOverWorks PROVE Spec => []NoOrphanTask
<1>1. Init => HeldInv
  BY DEF Init, HeldInv
<1>2. IInv /\ HeldInv /\ [Next]_vars => HeldInv'
  <2> SUFFICES ASSUME IInv, HeldInv, [Next]_vars PROVE HeldInv'
    OBVIOUS
  <2>1. CASE UNCHANGED vars
    BY <2>1, HeldFrame DEF vars, BeingStarted, Starting
  <2> QED BY <2>1, HeldHandler, HeldContinue, HeldOutside DEF Next
<1>3. HeldInv => NoOrphanTask
  BY DEF HeldInv, Held, BeingStarted, Starting, NoOrphanTask
<1> QED BY <1>1, <1>2, <1>3, EngineInvariant, PTL DEF Spec
=============================================================================
