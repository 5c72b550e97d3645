------------------------- MODULE FlbSchedulerProofs -------------------------
(***************************************************************************)
(* The safety of the scheduler, for any retries, requests, frame, waits    *)
(* and failures, and the punctuality of its dispatches when the engine     *)
(* keeps up and nothing fails.                                             *)
(***************************************************************************)
EXTENDS FlbScheduler, TLAPS

-----------------------------------------------------------------------------
(* The inductive invariant.                                                *)

\* A request in a list has its timer and its retry, and the timeout of the
\* timer exists exactly while the request is in the list of near requests.
ListInv ==
  \A r \in Requests :
    /\ Listed(r) => timer[r] = "active" /\ data[r] \in Retries
    /\ list[r] = "now" => left[r] \in Nat
    /\ list[r] # "now" => left[r] = NoFd

\* An event in the queue is that of an expired timeout of a near request.
ReadyInv == \A r \in ready : list[r] = "now" /\ left[r] = 0

\* The timeout of a near request is not ahead of its time by more than the
\* distance of the two clocks.
EarlyInv ==
  \A r \in Requests : list[r] = "now" =>
    /\ togo[r] <= left[r] + 1
    /\ turn = "mono" => togo[r] <= left[r]

IInv == TypeOK /\ ListInv /\ ReadyInv /\ EarlyInv /\ OneRequest

\* The timeout of a near request is not behind its time either, and a request
\* that waits will see the frame timer expire before its time has passed.
TimeInv ==
  \A r \in Requests :
    /\ list[r] = "now" =>
         /\ togo[r] >= 0
         /\ turn = "wall" => togo[r] >= left[r]
         /\ turn = "mono" => togo[r] >= left[r] - 1
    /\ list[r] = "wait" =>
         /\ togo[r] >= 0
         /\ frame = "armed" /\ turn = "wall" => togo[r] >= Frame - phase
         /\ frame = "armed" /\ turn = "mono" => togo[r] >= Frame - phase - 1

-----------------------------------------------------------------------------
(* Requests of one retry.                                                  *)

\* flb_sched_request_invalidate takes away everything that points at the
\* retry, since there is at most one request of it.
LEMMA InvalidatesAll ==
  ASSUME IInv, NEW x \in Retries, NEW D \in SUBSET Requests, Invalidated(x, D)
  PROVE  D = Of(x)
<1>1. \A q, r \in Of(x) : q = r
  BY DEF IInv, OneRequest, Of
<1>2. \A r \in Of(x) : list[r] \in {"now", "wait"}
  BY DEF IInv, TypeOK, Of, Listed
<1>3. ToInvalidate(x) = Of(x)
  BY <1>1, <1>2 DEF ToInvalidate, InList
<1> QED
  BY <1>1, <1>3 DEF Invalidated

\* A request in the queue is the only one of its retry.
LEMMA ReadyIsOnly ==
  ASSUME IInv, NEW r \in ready
  PROVE  /\ r \in Requests
         /\ data[r] \in Retries
         /\ Of(data[r]) = {r}
         /\ retry[data[r]] = "waiting"
<1>1. r \in Requests /\ Listed(r)
  BY DEF IInv, TypeOK, ReadyInv, Listed
<1>2. data[r] \in Retries
  BY <1>1 DEF IInv, ListInv
<1>3. Of(data[r]) = {r}
  BY <1>1 DEF IInv, OneRequest, Of
<1> QED
  BY <1>1, <1>2, <1>3 DEF IInv, OneRequest

-----------------------------------------------------------------------------
(* Every handler destroys all requests of one retry, creates one, or both. *)

\* A retry x loses its requests and is not waiting any more.
LEMMA DestroyStep ==
  ASSUME IInv, NEW x \in Retries, NEW L \in SUBSET Free, NEW v \in {"none", "held"},
         Destroyed(Of(x), L), retry' = [retry EXCEPT ![x] = v], UNCHANGED clockVars
  PROVE  IInv'
<1> USE DEF Destroyed, clockVars, NoFd, Past, Dequeue
<1>1. TypeOK'
  BY DEF IInv, TypeOK
<1>2. ListInv'
  BY DEF IInv, TypeOK, ListInv, Listed, Free
<1>3. ReadyInv'
  BY DEF IInv, TypeOK, ReadyInv
<1>4. EarlyInv'
  BY DEF IInv, TypeOK, EarlyInv
<1>5. OneRequest'
  <2>1. \A r \in Requests : r \notin Of(x) => list'[r] = list[r] /\ data'[r] = data[r]
    BY DEF IInv, TypeOK
  <2>2. \A r \in Of(x) : list'[r] = "none"
    BY DEF Of
  <2>3. Of(x)' = {}
    BY <2>1, <2>2 DEF Of, Listed
  <2>4. \A y \in Retries : y # x => Of(y)' = Of(y)
    BY <2>1, <2>2 DEF Of, Listed
  <2>5. \A y \in Retries : retry'[y] = "waiting" <=> Of(y)' # {}
    BY <2>3, <2>4 DEF IInv, TypeOK, OneRequest
  <2>6. \A q, r \in Requests :
          Listed(q)' /\ Listed(r)' /\ data'[q] = data'[r] => q = r
    BY <2>1, <2>2 DEF IInv, OneRequest, Listed
  <2> QED
    BY <2>5, <2>6 DEF OneRequest
<1> QED
  BY <1>1, <1>2, <1>3, <1>4, <1>5 DEF IInv

\* A retry x gets request q for s seconds, in the place of its old one.
LEMMA CreateStep ==
  ASSUME IInv, NEW x \in Retries, NEW q \in Free, NEW s \in Nat,
         Created(q, x, s, Of(x)), retry' = [retry EXCEPT ![x] = "waiting"],
         UNCHANGED clockVars
  PROVE  IInv'
<1> USE DEF Created, clockVars, NoFd, Past, Dequeue, Near
<1>0. /\ q \in Requests
      /\ ~Listed(q)
      /\ Frame \in Nat
  BY SchedTimes DEF IInv, ListInv, Free
<1>1. TypeOK'
  BY <1>0 DEF IInv, TypeOK
<1>2. ListInv'
  BY <1>0 DEF IInv, TypeOK, ListInv, Listed
<1>3. ReadyInv'
  BY <1>0 DEF IInv, TypeOK, ReadyInv, Listed
<1>4. EarlyInv'
  BY <1>0 DEF IInv, TypeOK, EarlyInv
<1>5. OneRequest'
  <2>1. \A r \in Requests : r # q /\ r \notin Of(x) =>
          list'[r] = list[r] /\ data'[r] = data[r]
    BY DEF IInv, TypeOK
  <2>2. \A r \in Of(x) : r # q /\ list'[r] = "none"
    BY <1>0 DEF Of, Listed
  <2>3. list'[q] # "none" /\ data'[q] = x
    BY <1>0
  <2>4. Of(x)' = {q}
    BY <1>0, <2>1, <2>2, <2>3 DEF Of, Listed
  <2>5. \A y \in Retries : y # x => Of(y)' = Of(y)
    BY <1>0, <2>1, <2>2, <2>3 DEF Of, Listed
  <2>6. \A y \in Retries : retry'[y] = "waiting" <=> Of(y)' # {}
    BY <2>4, <2>5 DEF IInv, TypeOK, OneRequest
  <2>7. \A p, r \in Requests :
          Listed(p)' /\ Listed(r)' /\ data'[p] = data'[r] => p = r
    BY <2>1, <2>2, <2>3 DEF IInv, OneRequest, Listed, Of
  <2> QED
    BY <2>6, <2>7 DEF OneRequest
<1> QED
  BY <1>1, <1>2, <1>3, <1>4, <1>5 DEF IInv

-----------------------------------------------------------------------------
(* The handlers, as one of the two.                                        *)

\* What a handler does to the requests and the retries.
Ends(x) ==
  \E L \in SUBSET Free, v \in {"none", "held"} :
    /\ Destroyed(Of(x), L)
    /\ retry' = [retry EXCEPT ![x] = v]
    /\ UNCHANGED clockVars
Begins(x) ==
  \E q \in Free, s \in Nat :
    /\ s \in Waits \cup {0}
    /\ Created(q, x, s, Of(x))
    /\ retry' = [retry EXCEPT ![x] = "waiting"]
    /\ UNCHANGED clockVars

\* The calls of the engine.
LEMMA CallSteps ==
  ASSUME IInv, NEW x \in Retries,
         \/ Schedule(x) \/ ScheduleFails(x) \/ RetryDestroy(x)
         \/ RetryNow(x) \/ RetryNowFails(x)
  PROVE  Ends(x) \/ Begins(x)
<1>1. CASE Schedule(x)
  <2>1. Of(x) = {}
    BY <1>1 DEF Schedule, IInv, OneRequest
  <2> QED
    BY <1>1, <2>1, SchedTimes DEF Schedule, Begins
<1>2. CASE ScheduleFails(x)
  <2>1. Of(x) = {}
    BY <1>2 DEF ScheduleFails, IInv, OneRequest
  <2> QED
    BY <1>2, <2>1 DEF ScheduleFails, CreateFails, Ends
<1>3. CASE RetryDestroy(x)
  BY <1>3, InvalidatesAll DEF RetryDestroy, Ends
<1>4. CASE RetryNow(x)
  <2>1. retry' = [retry EXCEPT ![x] = "waiting"]
    BY <1>4 DEF RetryNow, IInv, TypeOK
  <2> QED
    BY <1>4, <2>1, InvalidatesAll DEF RetryNow, Begins
<1>5. CASE RetryNowFails(x)
  BY <1>5, InvalidatesAll DEF RetryNowFails, Ends
<1> QED
  BY <1>1, <1>2, <1>3, <1>4, <1>5

\* The handler of an expired request.
LEMMA FireSteps ==
  ASSUME IInv, NEW r \in Requests, Fire(r)
  PROVE  \E x \in Retries : Ends(x) \/ Begins(x)
<1>0. r \in ready
  BY DEF Fire, FireFlushed, FirePostponed, FireFails
<1> DEFINE x == data[r]
<1>1. x \in Retries /\ Of(x) = {r} /\ retry[x] = "waiting"
  BY <1>0, ReadyIsOnly
<1>2. CASE FireFlushed(r)
  BY <1>1, <1>2 DEF FireFlushed, Ends
<1>3. CASE FirePostponed(r)
  <2>1. retry' = [retry EXCEPT ![x] = "waiting"]
    BY <1>1, <1>3 DEF FirePostponed, IInv, TypeOK
  <2> QED
    BY <1>1, <1>3, <2>1, SchedTimes DEF FirePostponed, Begins
<1>4. CASE FireFails(r)
  <2>1. PICK D, L \in SUBSET Requests :
          Invalidated(x, D) /\ (L = {} \/ CreateFails(L)) /\ Destroyed(D, L)
    BY <1>4 DEF FireFails
  <2>2. D = Of(x)
    BY <1>1, <2>1, InvalidatesAll
  <2>3. L \in SUBSET Free
    BY <2>1 DEF CreateFails
  <2> QED
    BY <1>1, <1>4, <2>1, <2>2, <2>3 DEF FireFails, Ends
<1> QED
  BY <1>2, <1>3, <1>4 DEF Fire
-----------------------------------------------------------------------------
(* The event loop and the clocks.                                          *)

\* The frame timer promotes requests; none of them gets a timeout before its
\* time.
LEMMA PromoteStep ==
  ASSUME IInv, FramePromotes
  PROVE  IInv'
<1> USE DEF FramePromotes, reqVars, NoFd, Past
<1>0. PICK F \in SUBSET {r \in Requests : Promotable(r)} :
        /\ list' = [r \in Requests |-> IF Promotable(r) /\ r \notin F THEN "now" ELSE list[r]]
        /\ left' = [r \in Requests |->
                      IF Promotable(r) /\ r \notin F THEN Remaining(r) ELSE left[r]]
  OBVIOUS
<1>1. \A r \in Requests : Promotable(r) => Remaining(r) \in Nat /\ togo[r] <= Remaining(r)
  BY DEF IInv, TypeOK, Promotable, Remaining
<1>2. \A r \in Requests : Promotable(r) => list[r] = "wait"
  BY DEF Promotable
<1>3. \A r \in Requests : Listed(r)' <=> Listed(r)
  BY <1>0, <1>2 DEF Listed
<1>4. TypeOK'
  BY <1>0, <1>1 DEF IInv, TypeOK
<1>5. ListInv'
  BY <1>0, <1>1, <1>2, <1>3 DEF IInv, TypeOK, ListInv
<1>6. ReadyInv'
  BY <1>0, <1>2 DEF IInv, TypeOK, ReadyInv
<1>7. EarlyInv'
  BY <1>0, <1>1, <1>2 DEF IInv, TypeOK, EarlyInv
<1>8. OneRequest'
  <2>1. \A x \in Retries : Of(x)' = Of(x)
    BY <1>3 DEF Of
  <2> QED
    BY <1>3, <2>1 DEF IInv, OneRequest
<1> QED
  BY <1>4, <1>5, <1>6, <1>7, <1>8 DEF IInv

\* Polling, leaving an event unserved and cleaning up.
LEMMA LoopSteps ==
  ASSUME IInv, Poll \/ Cleanup \/ UnservedFrame \/ \E r \in Requests : Unserved(r)
  PROVE  IInv'
<1>1. CASE Poll
  <2> USE <1>1 DEF Poll, reqVars
  <2>1. TypeOK' /\ ListInv' /\ EarlyInv' /\ OneRequest'
    BY DEF IInv, TypeOK, ListInv, EarlyInv, OneRequest, Of, Listed
  <2>2. \A r \in Requests : Due(r) => list[r] = "now"
    BY DEF Due, IInv, ListInv, NoFd
  <2>3. ReadyInv'
    BY <2>2 DEF IInv, ReadyInv, Due
  <2> QED
    BY <2>1, <2>3 DEF IInv
<1>2. CASE Cleanup
  <2> USE <1>2 DEF Cleanup, clockVars
  <2>1. TypeOK' /\ ReadyInv' /\ EarlyInv' /\ OneRequest'
    BY DEF IInv, TypeOK, ReadyInv, EarlyInv, OneRequest, Of, Listed
  <2>2. ListInv'
    BY DEF IInv, TypeOK, ListInv, Listed
  <2> QED
    BY <2>1, <2>2 DEF IInv
<1>3. CASE UnservedFrame
  BY <1>3 DEF UnservedFrame, reqVars, IInv, TypeOK, ListInv, ReadyInv, EarlyInv,
              OneRequest, Of, Listed
<1>4. CASE \E r \in Requests : Unserved(r)
  BY <1>4 DEF Unserved, reqVars, clockVars, IInv, TypeOK, ListInv, ReadyInv, EarlyInv,
              OneRequest, Of, Listed
<1> QED
  BY <1>1, <1>2, <1>3, <1>4

\* A second of either clock begins.
LEMMA TickSteps ==
  ASSUME IInv, WallTick \/ MonoTick
  PROVE  IInv'
<1> USE DEF NoFd, Past
<1>1. CASE WallTick
  <2> USE <1>1 DEF WallTick
  <2>1. TypeOK'
    BY DEF IInv, TypeOK
  <2>2. ListInv' /\ ReadyInv' /\ OneRequest'
    BY DEF IInv, ListInv, ReadyInv, OneRequest, Of, Listed
  <2>3. EarlyInv'
    BY DEF IInv, TypeOK, ListInv, EarlyInv, Listed
  <2> QED
    BY <2>1, <2>2, <2>3 DEF IInv
<1>2. CASE MonoTick
  <2> USE <1>2, SchedTimes DEF MonoTick
  <2>1. TypeOK'
    BY DEF IInv, TypeOK
  <2>2. ListInv'
    BY DEF IInv, TypeOK, ListInv, Listed
  <2>3. ReadyInv' /\ OneRequest'
    BY DEF IInv, TypeOK, ReadyInv, OneRequest, Of, Listed
  <2>4. EarlyInv'
    BY DEF IInv, TypeOK, ListInv, EarlyInv
  <2> QED
    BY <2>1, <2>2, <2>3, <2>4 DEF IInv
<1> QED
  BY <1>1, <1>2

-----------------------------------------------------------------------------
(* Safety.                                                                 *)

\* The invariant is inductive.
LEMMA SchedNext ==
  ASSUME IInv, [Next]_vars
  PROVE  IInv'
<1>1. ASSUME NEW x \in Retries, Ends(x) PROVE IInv'
  BY <1>1, DestroyStep DEF Ends
<1>2. ASSUME NEW x \in Retries, Begins(x) PROVE IInv'
  BY <1>2, CreateStep DEF Begins
<1>3. CASE UNCHANGED vars
  BY <1>3 DEF vars, reqVars, clockVars, IInv, TypeOK, ListInv, ReadyInv, EarlyInv,
              OneRequest, Of, Listed
<1>4. CASE Next
  BY <1>1, <1>2, <1>4, CallSteps, FireSteps, PromoteStep, LoopSteps, TickSteps DEF Next
<1> QED
  BY <1>3, <1>4

\* The invariant holds when the scheduler is created.
LEMMA SchedInit ==
  ASSUME Init
  PROVE  IInv
<1> USE SchedSets, SchedTimes DEF Init, NoFd, Past
<1>1. TypeOK
  BY DEF TypeOK
<1>2. ListInv /\ ReadyInv /\ EarlyInv
  BY DEF ListInv, ReadyInv, EarlyInv, Listed
<1>3. OneRequest
  BY DEF OneRequest, Of, Listed
<1> QED
  BY <1>1, <1>2, <1>3 DEF IInv

\* The inductive invariant of the scheduler holds in every reachable state,
\* whatever fails and however late the handlers run.
THEOREM SchedInvariant == Spec => []IInv
<1>1. Init => IInv
  BY SchedInit
<1>2. IInv /\ [Next]_vars => IInv'
  BY SchedNext
<1> QED
  BY <1>1, <1>2, PTL DEF Spec

\* Times and lists keep their types.
THEOREM SchedTypeOK == Spec => []TypeOK
<1>1. IInv => TypeOK
  BY DEF IInv
<1> QED
  BY <1>1, SchedInvariant, PTL

\* A waiting retry has exactly one request and no other retry has any:
\* flb_sched_request_invalidate never leaves a pointer to a freed retry.
THEOREM SchedOneRequest == Spec => []OneRequest
<1>1. IInv => OneRequest
  BY DEF IInv
<1> QED
  BY <1>1, SchedInvariant, PTL

\* No event in the queue belongs to an invalidated or freed timer.
THEOREM SchedQueuedIsLive == Spec => []QueuedIsLive
<1>1. IInv => QueuedIsLive
  BY DEF IInv, TypeOK, ReadyInv, ListInv, Listed, QueuedIsLive
<1> QED
  BY <1>1, SchedInvariant, PTL

\* No retry is dispatched before its time by more than the one second that
\* the two clocks can be apart.
THEOREM SchedNotEarly == Spec => []NotEarly
<1>1. IInv => NotEarly
  BY DEF IInv, TypeOK, ReadyInv, EarlyInv, NotEarly, NoFd, Past
<1> QED
  BY <1>1, SchedInvariant, PTL

-----------------------------------------------------------------------------
(* Punctuality.  Of the engine it is assumed that no second begins while a *)
(* handler of the scheduler is due, and of the calls that none fails.      *)

\* A retry loses its request.
LEMMA DestroyInTime ==
  ASSUME IInv, TimeInv, NEW x \in Retries, Ends(x)
  PROVE  TimeInv'
BY DEF IInv, TypeOK, TimeInv, Ends, Destroyed, clockVars

\* A new request of more than a frame waits for the next expiry of the frame
\* timer, which comes first.
LEMMA CreateInTime ==
  ASSUME IInv, TimeInv, NEW x \in Retries, Begins(x)
  PROVE  TimeInv'
<1>1. PICK q \in Free, s \in Nat : Created(q, x, s, Of(x)) /\ UNCHANGED clockVars
  BY DEF Begins
<1>2. q \in Requests /\ Frame \in Nat /\ phase \in Nat
  BY SchedTimes DEF Free, IInv, TypeOK
<1>3. \A r \in Requests \ {q} : list'[r] # "none" =>
        list'[r] = list[r] /\ left'[r] = left[r] /\ togo'[r] = togo[r]
  BY <1>1 DEF Created
<1>4. /\ togo'[q] = s
      /\ s <= Frame => list'[q] = "now" /\ left'[q] = s
      /\ ~(s <= Frame) => list'[q] = "wait"
  BY <1>1, <1>2 DEF Created, Near
<1>5. frame' = frame /\ phase' = phase /\ turn' = turn
  BY <1>1 DEF clockVars
<1>6. ASSUME NEW r \in Requests
      PROVE  /\ list'[r] = "now" =>
                  /\ togo'[r] >= 0
                  /\ turn' = "wall" => togo'[r] >= left'[r]
                  /\ turn' = "mono" => togo'[r] >= left'[r] - 1
             /\ list'[r] = "wait" =>
                  /\ togo'[r] >= 0
                  /\ frame' = "armed" /\ turn' = "wall" => togo'[r] >= Frame - phase'
                  /\ frame' = "armed" /\ turn' = "mono" => togo'[r] >= Frame - phase' - 1
  <2>1. CASE r = q
    BY <1>2, <1>4, <1>5, <2>1
  <2>2. CASE r # q
    BY <1>3, <1>5, <2>2 DEF TimeInv
  <2> QED
    BY <2>1, <2>2
<1> QED
  BY <1>6 DEF TimeInv

\* What the frame timer promotes gets the rest of its time, and what it leaves
\* is at least another frame away.
LEMMA PromoteInTime ==
  ASSUME IInv, TimeInv, FramePromotes, Faults = {}
  PROVE  TimeInv'
<1>1. \A r \in Requests :
        /\ list'[r] = IF Promotable(r) THEN "now" ELSE list[r]
        /\ left'[r] = IF Promotable(r) THEN Remaining(r) ELSE left[r]
  BY DEF FramePromotes
<1>2. \A r \in Requests : Promotable(r) => togo[r] >= 0 /\ Remaining(r) = togo[r]
  BY DEF Promotable, Remaining, TimeInv, Past
<1>3. \A r \in Requests : list'[r] = "wait" => list[r] = "wait" /\ ~(togo[r] <= Frame)
  BY <1>1 DEF Promotable
<1>4. togo' = togo /\ turn' = turn /\ phase' = phase
  BY DEF FramePromotes
<1>5. Frame \in Nat /\ phase \in Nat /\ togo \in [Requests -> Int]
  BY SchedTimes DEF IInv, TypeOK, Past
<1> QED
  BY <1>1, <1>2, <1>3, <1>4, <1>5 DEF TimeInv

\* While no timer is due, a second brings every request nearer to its time
\* and its timeout, or the frame, nearer to its expiry.
LEMMA TickInTime ==
  ASSUME IInv, TimeInv, WallTick \/ MonoTick, Punctual
  PROVE  TimeInv'
<1>1. OnSchedule
  BY DEF WallTick, MonoTick
<1>2. \A r \in Requests : list[r] = "now" => left[r] \in Nat /\ left[r] >= 1
  BY <1>1 DEF IInv, TypeOK, ListInv, Listed, OnSchedule, Due
<1>3. frame = "armed" /\ Frame \in Nat /\ phase \in Nat /\ phase + 1 <= Frame
  BY <1>1, SchedTimes DEF IInv, TypeOK, OnSchedule
<1>4. togo \in [Requests -> Int] /\ list \in [Requests -> {"none", "now", "wait"}]
  BY DEF IInv, TypeOK, Past
<1>5. CASE WallTick
  BY <1>2, <1>3, <1>4, <1>5 DEF TimeInv, WallTick, Listed, Past
<1>6. CASE MonoTick
  BY <1>2, <1>3, <1>4, <1>6 DEF TimeInv, MonoTick
<1> QED
  BY <1>5, <1>6

\* The other steps of the event loop leave the times alone.
LEMMA LoopInTime ==
  ASSUME TimeInv, Poll \/ Cleanup \/ UnservedFrame \/ \E r \in Requests : Unserved(r)
  PROVE  TimeInv'
BY DEF TimeInv, Poll, Cleanup, UnservedFrame, Unserved, reqVars, clockVars

\* Both invariants together are inductive.
LEMMA TimeNext ==
  ASSUME IInv, TimeInv, [Next]_vars, Punctual, Faults = {}
  PROVE  TimeInv'
<1>1. CASE UNCHANGED vars
  BY <1>1 DEF vars, reqVars, clockVars, TimeInv
<1>2. CASE Next
  BY <1>2, CallSteps, FireSteps, DestroyInTime, CreateInTime, PromoteInTime, TickInTime,
     LoopInTime DEF Next
<1> QED
  BY <1>1, <1>2

\* With an engine that keeps up and calls that do not fail, no retry is
\* dispatched after the second that was announced for it, for any frame, any
\* waits and any number of requests.
THEOREM SchedOnTime ==
  ASSUME Punctual, Faults = {}
  PROVE  Spec => []OnTime
<1>1. Init => TimeInv
  BY DEF Init, TimeInv
<1>2. IInv /\ TimeInv /\ [Next]_vars => TimeInv'
  BY TimeNext
<1>3. IInv /\ TimeInv => OnTime
  BY DEF IInv, TypeOK, TimeInv, OnTime, Listed
<1> QED
  BY <1>1, <1>2, <1>3, SchedInvariant, PTL DEF Spec
=============================================================================
