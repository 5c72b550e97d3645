---------------------------- MODULE FlbScheduler ----------------------------
(***************************************************************************)
(* The retry scheduler of flb_scheduler.c: requests that wait for a retry, *)
(* the operating system timers of those that are near, the frame timer     *)
(* that brings the others near, and the timers that outlive their request  *)
(* until the round of the event loop ends.                                 *)
(*                                                                         *)
(* Everything runs on the engine thread, so a handler is one step.  Who    *)
(* calls the scheduler is modelled from its callers: handle_output_event,  *)
(* flb_task_retry_destroy, flb_engine_dispatch_retry and                   *)
(* flb_engine_reschedule_retries.  A request and the timer allocated with  *)
(* it have the same name; the fields of a freed request are reset.         *)
(*                                                                         *)
(* Time is counted in seconds, as the code counts it, on two clocks that   *)
(* run at the same pace and whose seconds begin at different instants:     *)
(* time(NULL), that dates requests, and the monotonic clock whose seconds  *)
(* expire timers.  Only distances to the present are kept.                 *)
(***************************************************************************)
EXTENDS Integers, FiniteSets

CONSTANTS
  Retries,     \* retry contexts
  Requests,    \* memory for requests and their timers (bound of their number)
  Frame,       \* FLB_SCHED_REQUEST_FRAME
  Waits,       \* seconds that a new request may be told to wait
  Faults,      \* which calls may fail, a subset of FaultKinds
  Punctual,    \* whether handlers run before the next second begins
  None

FaultKinds == {"alloc", "request_alloc", "timeout_create", "retry_now"}

ASSUME SchedSets ==
  /\ None \notin Retries
  /\ Faults \subseteq FaultKinds
  /\ Punctual \in BOOLEAN
ASSUME SchedTimes ==
  /\ Frame \in Nat \ {0}
  /\ Waits \subseteq Nat \ {0}

NoFd == -1     \* timer_fd of a timer that no timeout was created for
Past == -1     \* togo of a request whose time has passed

VARIABLES
  list,        \* "none" | "now" (sched->requests) | "wait" (requests_wait)
  timer,       \* "none" (not allocated) | "active" | "drop" (timers_drop)
  left,        \* seconds until the timeout of the timer expires, or NoFd
  data,        \* request->data: the retry
  togo,        \* created + timeout - time(NULL) of a request, or Past
  ready,       \* timers whose event is in the queue of the event loop
  frame,       \* frame timer: "armed" | "due" | "queued"
  phase,       \* seconds since the frame timer last expired
  turn,        \* which clock begins its next second first: "wall" | "mono"
  retry        \* "none" | "held" (by the engine) | "waiting" (for a request)

reqVars == <<list, timer, left, data, togo>>
clockVars == <<frame, phase, turn>>
vars == <<reqVars, ready, clockVars, retry>>

Listed(r) == list[r] # "none"
Free == {r \in Requests : timer[r] = "none"}

-----------------------------------------------------------------------------
(* Operations on the lists.                                                *)

\* flb_sched_timer_cb_disable: the timeout of the timer is destroyed, and
\* mk_event_del takes its event out of the queue.
MutDequeue(D) == ready
Dequeue(D) == ready \ D

\* flb_sched_request_destroy: unlink the requests of D and invalidate their
\* timers.  The timers of L stay allocated without a request.
Destroyed(D, L) ==
  /\ list' = [r \in Requests |-> IF r \in D THEN "none" ELSE list[r]]
  /\ timer' = [r \in Requests |-> IF r \in D THEN "drop"
                                  ELSE IF r \in L THEN "active" ELSE timer[r]]
  /\ left' = [r \in Requests |-> IF r \in D THEN NoFd ELSE left[r]]
  /\ data' = [r \in Requests |-> IF r \in D THEN None ELSE data[r]]
  /\ togo' = [r \in Requests |-> IF r \in D THEN 0 ELSE togo[r]]
  /\ ready' = Dequeue(D)

\* flb_sched_request_create and flb_sched_retry_now: request q for retry x in
\* s seconds, with a timeout when it falls into the next Frame seconds.  The
\* requests of D are destroyed by the same handler.
Near(s) == s <= Frame
Created(q, x, s, D) ==
  /\ list' = [r \in Requests |-> IF r = q THEN IF Near(s) THEN "now" ELSE "wait"
                                 ELSE IF r \in D THEN "none" ELSE list[r]]
  /\ timer' = [r \in Requests |-> IF r = q THEN "active"
                                  ELSE IF r \in D THEN "drop" ELSE timer[r]]
  /\ left' = [r \in Requests |-> IF r = q THEN IF Near(s) THEN s ELSE NoFd
                                 ELSE IF r \in D THEN NoFd ELSE left[r]]
  /\ data' = [r \in Requests |-> IF r = q THEN x
                                 ELSE IF r \in D THEN None ELSE data[r]]
  /\ togo' = [r \in Requests |-> IF r = q THEN s
                                 ELSE IF r \in D THEN 0 ELSE togo[r]]
  /\ ready' = Dequeue(D)

\* flb_sched_request_invalidate: the first request of retry x is destroyed,
\* looked for in requests and then in requests_wait.
Of(x) == {r \in Requests : Listed(r) /\ data[r] = x}
InList(x, l) == {r \in Of(x) : list[r] = l}
MutToInvalidate(x) == InList(x, "now")
ToInvalidate(x) == IF InList(x, "now") # {} THEN InList(x, "now") ELSE InList(x, "wait")
Invalidated(x, D) ==
  \/ ToInvalidate(x) = {} /\ D = {}
  \/ \E r \in ToInvalidate(x) : D = {r}

\* flb_sched_request_create returns -1.  When the memory of the request is
\* missing, the timer allocated for it stays in the list of timers.
CreateFails(L) ==
  \/ L = {} /\ Faults \cap {"alloc", "timeout_create"} # {}
  \/ "request_alloc" \in Faults /\ \E q \in Free : L = {q}

-----------------------------------------------------------------------------
(* Calls of the engine.                                                    *)

\* handle_output_event: a flush asks for a retry.
Schedule(x) ==
  /\ retry[x] \in {"none", "held"}
  /\ \E q \in Free, s \in Waits : Created(q, x, s, {})
  /\ retry' = [retry EXCEPT ![x] = "waiting"]
  /\ UNCHANGED clockVars

\* The same when the request cannot be created: the retry is destroyed.
ScheduleFails(x) ==
  /\ retry[x] \in {"none", "held"}
  /\ \E L \in SUBSET Requests : CreateFails(L) /\ Destroyed({}, L)
  /\ retry' = [retry EXCEPT ![x] = "none"]
  /\ UNCHANGED clockVars

\* flb_task_retry_destroy, from the end of a flush or of the whole task.
RetryDestroy(x) ==
  /\ retry[x] # "none"
  /\ \E D \in SUBSET Requests : Invalidated(x, D) /\ Destroyed(D, {})
  /\ retry' = [retry EXCEPT ![x] = "none"]
  /\ UNCHANGED clockVars

\* flb_engine_reschedule_retries, when the engine is told to stop: the retry
\* is to run at once.
RetryNow(x) ==
  /\ retry[x] = "waiting"
  /\ \E D \in SUBSET Requests, q \in Free : Invalidated(x, D) /\ Created(q, x, 0, D)
  /\ UNCHANGED <<retry, clockVars>>

\* flb_sched_retry_now fails: the retry is left without a request.
RetryNowFails(x) ==
  /\ retry[x] = "waiting"
  /\ "retry_now" \in Faults
  /\ \E D \in SUBSET Requests : Invalidated(x, D) /\ Destroyed(D, {})
  /\ retry' = [retry EXCEPT ![x] = "held"]
  /\ UNCHANGED clockVars

-----------------------------------------------------------------------------
(* The event loop.  It asks the operating system for events between any    *)
(* two handlers; all events of the scheduler have the same priority.       *)

Due(r) == timer[r] = "active" /\ left[r] = 0

\* mk_event_wait and flb_event_load_bucket_queue.
Poll ==
  /\ \/ \E r \in Requests : Due(r) /\ r \notin ready
     \/ frame = "due"
  /\ ready' = ready \cup {r \in Requests : Due(r)}
  /\ frame' = IF frame = "due" THEN "queued" ELSE frame
  /\ UNCHANGED <<reqVars, phase, turn, retry>>

\* The round has handled as many events as it may: the event that is taken
\* from the queue after that is not handled.  Its timer stays expired.
Unserved(r) ==
  /\ r \in ready
  /\ ready' = ready \ {r}
  /\ UNCHANGED <<reqVars, clockVars, retry>>

UnservedFrame ==
  /\ frame = "queued"
  /\ frame' = "due"
  /\ UNCHANGED <<reqVars, ready, phase, turn, retry>>

\* flb_sched_timer_cleanup at the end of a round.
Cleanup ==
  /\ \E r \in Requests : timer[r] = "drop"
  /\ timer' = [r \in Requests |-> IF timer[r] = "drop" THEN "none" ELSE timer[r]]
  /\ UNCHANGED <<list, left, data, togo, ready, clockVars, retry>>

\* flb_sched_event_handler for a request whose retry is flushed.
FireFlushed(r) ==
  /\ r \in ready
  /\ Destroyed({r}, {})
  /\ retry' = [retry EXCEPT ![data[r]] = "held"]
  /\ UNCHANGED clockVars

\* The same for a retry that is scheduled again (flb_task_retry_reschedule).
FirePostponed(r) ==
  /\ r \in ready
  /\ \E q \in Free, s \in Waits : Created(q, data[r], s, {r})
  /\ UNCHANGED <<retry, clockVars>>

\* The same for a retry that is destroyed because it can be neither flushed
\* nor scheduled: the handler does not destroy the request, the end of the
\* retry does.
FireFails(r) ==
  /\ r \in ready
  /\ \E D, L \in SUBSET Requests :
       Invalidated(data[r], D) /\ (L = {} \/ CreateFails(L)) /\ Destroyed(D, L)
  /\ retry' = [retry EXCEPT ![data[r]] = "none"]
  /\ UNCHANGED clockVars

\* schedule_request_promote: every waiting request that comes into the next
\* frame gets a timeout; those of F fail to and stay in the wait list.
MutPromotableOnlyPassed(r) == list[r] = "wait" /\ togo[r] = Past
MutPromotableNotPassed(r) == list[r] = "wait" /\ togo[r] <= Frame /\ togo[r] # Past
Promotable(r) == list[r] = "wait" /\ togo[r] <= Frame
MutRemainingSigned(r) == IF togo[r] = Past THEN 1 ELSE 0 - togo[r]
MutRemainingNext(r) == 1
Remaining(r) == IF togo[r] = Past THEN 1 ELSE togo[r]
FramePromotes ==
  /\ frame = "queued"
  /\ frame' = "armed"
  /\ \E F \in SUBSET {r \in Requests : Promotable(r)} :
       /\ F # {} => "timeout_create" \in Faults
       /\ list' = [r \in Requests |-> IF Promotable(r) /\ r \notin F THEN "now" ELSE list[r]]
       /\ left' = [r \in Requests |->
                     IF Promotable(r) /\ r \notin F THEN Remaining(r) ELSE left[r]]
  /\ UNCHANGED <<timer, data, togo, ready, phase, turn, retry>>

-----------------------------------------------------------------------------
(* Time.  Nothing makes the engine handle an event in the second it is     *)
(* due; a punctual engine does.                                            *)

OnSchedule == ready = {} /\ frame = "armed" /\ \A r \in Requests : ~Due(r)

\* A second of time(NULL) begins.
WallTick ==
  /\ turn = "wall"
  /\ Punctual => OnSchedule
  /\ turn' = "mono"
  /\ togo' = [r \in Requests |->
                IF Listed(r) /\ togo[r] # Past THEN togo[r] - 1 ELSE togo[r]]
  /\ UNCHANGED <<list, timer, left, data, ready, frame, phase, retry>>

\* A second of the monotonic clock begins: timeouts expire.
MonoTick ==
  /\ turn = "mono"
  /\ Punctual => OnSchedule
  /\ turn' = "wall"
  /\ left' = [r \in Requests |-> IF left[r] > 0 THEN left[r] - 1 ELSE left[r]]
  /\ phase' = IF phase + 1 = Frame THEN 0 ELSE phase + 1
  /\ frame' = IF phase' = 0 /\ frame = "armed" THEN "due" ELSE frame
  /\ UNCHANGED <<list, timer, data, togo, ready, retry>>

-----------------------------------------------------------------------------
\* flb_sched_create.
Init ==
  /\ list = [r \in Requests |-> "none"]
  /\ timer = [r \in Requests |-> "none"]
  /\ left = [r \in Requests |-> NoFd]
  /\ data = [r \in Requests |-> None]
  /\ togo = [r \in Requests |-> 0]
  /\ ready = {}
  /\ frame = "armed"
  /\ phase = 0
  /\ turn \in {"wall", "mono"}
  /\ retry = [x \in Retries |-> "none"]

Fire(r) == FireFlushed(r) \/ FirePostponed(r) \/ FireFails(r)

Next ==
  \/ \E x \in Retries : \/ Schedule(x) \/ ScheduleFails(x) \/ RetryDestroy(x)
                        \/ RetryNow(x) \/ RetryNowFails(x)
  \/ Poll \/ Cleanup \/ FramePromotes \/ UnservedFrame
  \/ \E r \in Requests : Fire(r) \/ Unserved(r)
  \/ WallTick \/ MonoTick

Spec == Init /\ [][Next]_vars

\* Time passes, the loop polls, no event that keeps coming back is passed
\* over for ever, and no request fails to get its timeout for ever.
Promotes(r) == FramePromotes /\ list[r] = "wait" /\ list'[r] = "now"
Fairness ==
  /\ WF_vars(WallTick) /\ WF_vars(MonoTick) /\ WF_vars(Poll)
  /\ \A r \in Requests : SF_vars(Fire(r)) /\ SF_vars(Promotes(r))
FairSpec == Spec /\ Fairness

-----------------------------------------------------------------------------
(* Properties.                                                             *)

\* Every variable keeps its type: times never run below their bounds.
TypeOK ==
  /\ list \in [Requests -> {"none", "now", "wait"}]
  /\ timer \in [Requests -> {"none", "active", "drop"}]
  /\ left \in [Requests -> Nat \cup {NoFd}]
  /\ data \in [Requests -> Retries \cup {None}]
  /\ togo \in [Requests -> Nat \cup {Past}]
  /\ ready \in SUBSET Requests
  /\ frame \in {"armed", "due", "queued"}
  /\ phase \in 0 .. Frame - 1
  /\ turn \in {"wall", "mono"}
  /\ retry \in [Retries -> {"none", "held", "waiting"}]

\* A retry that waits has one request, in one of the two lists, and no other
\* retry has any: when a retry is freed nothing in the scheduler points at it
\* (flb_sched_request_invalidate looks in both lists).
OneRequest ==
  /\ \A x \in Retries : retry[x] = "waiting" <=> Of(x) # {}
  /\ \A q, r \in Requests : Listed(q) /\ Listed(r) /\ data[q] = data[r] => q = r

\* An event in the queue of the loop belongs to a timer that still exists
\* and whose request is still to be served: an invalidated timer is never
\* run, and a freed one never read (flb_sched_request_destroy in the same
\* round as the event).
QueuedIsLive == \A r \in ready : timer[r] = "active" /\ list[r] = "now"

\* No retry is dispatched more than one second before the time that was
\* announced for it, however late the frame timer is served; that one second
\* is the distance between the two clocks (schedule_request_promote).
NotEarly == \A r \in ready : togo[r] <= 1

\* With an engine that keeps up and calls that do not fail, no retry is
\* dispatched after the second that was announced for it, however long it
\* waits and wherever in the frame it was created.
OnTime == \A r \in Requests : Listed(r) => togo[r] >= 0

\* Every request is served or invalidated in the end, those of the wait list
\* too.
RequestEnds == \A r \in Requests : Listed(r) ~> ~Listed(r)
=============================================================================
