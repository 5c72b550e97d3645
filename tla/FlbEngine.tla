------------------------------ MODULE FlbEngine ------------------------------
(***************************************************************************)
(* The delivery core of Fluent Bit: how a chunk of records becomes a task, *)
(* how the task is flushed to every output it is routed to, how a flush    *)
(* that asks for it is retried, and when the task and its chunk are freed. *)
(*                                                                         *)
(* Modelled code: flb_task.c and flb_task.h (tasks, users, retries, routes),*)
(* flb_engine_dispatch.c, the output event handler of flb_engine.c, the    *)
(* singleplex queue and flb_output_task_flush of flb_output.c, the flush   *)
(* coroutine of flb_output.h, the worker side of flb_output_thread.c, the  *)
(* request list of flb_scheduler.c as the engine uses it, and the space    *)
(* release of flb_input_chunk.c that can destroy a task or drop a route.   *)
(*                                                                         *)
(* Two kinds of process take the steps.  The engine thread runs one event  *)
(* handler at a time; a handler that loops or that starts other work is    *)
(* cut into steps with the control variable pc, so that the worker threads *)
(* of threaded outputs interleave inside it.  pc = "loop" is the event     *)
(* loop between two handlers.  A chunk and its task have the same name:    *)
(* a chunk never has two tasks at a time.                                  *)
(***************************************************************************)
EXTENDS Integers, FiniteSets, Sequences

CONSTANTS
  Chunks,       \* the chunks the inputs ingest
  Inputs,       \* input instances
  Outputs,      \* output instances
  In,           \* In[c]: the input instance of chunk c
  Kind,         \* Kind[i]: storage of input i: "mem", "fs", "memrb", "backlog"
  Match,        \* Match[i]: outputs whose match rule accepts the tag of i
  Handles,      \* Handles[i]: outputs that accept the event type of i
  Direct,       \* Direct[i]: routes_direct of i, outputs connected by name
  Sync,         \* outputs flagged FLB_OUTPUT_SYNCHRONOUS
  NoMux,        \* outputs flagged FLB_OUTPUT_NO_MULTIPLEX
  Threaded,     \* outputs with workers
  Processors,   \* outputs with processors, which may filter every record out
  Limited,      \* outputs with storage.total_limit_size
  RetryLimit,   \* RetryLimit[o]: retry_limit, -1 is FLB_OUT_RETRY_UNLIMITED
  AttemptCap,   \* bound: attempts are counted up to this value, tries one further
  TaskIds,      \* slots of config->task_map (bound of the map)
  MaxUp,        \* storage.max_chunks_up
  Faults,       \* which calls may fail, a subset of FaultKinds
  None          \* "no chunk", "no output", "no input"

FaultKinds == {"task_alloc", "flush_create", "sched", "retry_alloc", "content"}
StorageKinds == {"mem", "fs", "memrb", "backlog"}

\* The slot of a task that was freed without giving its id back.
Freed == "freed"

ASSUME SetsAssumption ==
  /\ IsFiniteSet(Chunks) /\ IsFiniteSet(Outputs)
  /\ Freed # None /\ Freed \notin Chunks
  /\ None \notin Chunks /\ None \notin Outputs /\ None \notin Inputs
  /\ Sync \subseteq Outputs /\ NoMux \subseteq Outputs
  /\ Threaded \subseteq Outputs /\ Limited \subseteq Outputs
  /\ Processors \subseteq Outputs
  /\ Faults \subseteq FaultKinds
ASSUME InAssumption == In \in [Chunks -> Inputs]
ASSUME KindAssumption == Kind \in [Inputs -> StorageKinds]
ASSUME MatchAssumption ==
  /\ Match \in [Inputs -> SUBSET Outputs] /\ Handles \in [Inputs -> SUBSET Outputs]
  /\ Direct \in [Inputs -> SUBSET Outputs]
ASSUME LimitAssumption ==
  /\ RetryLimit \in [Outputs -> Int]
  /\ \A o \in Outputs : RetryLimit[o] >= -1 /\ RetryLimit[o] < AttemptCap
  /\ AttemptCap \in Nat \ {0}
  /\ TaskIds \subseteq Nat
  /\ MaxUp \in Nat

FLB_OUT_RETRY_NONE == 0

\* Stages of the flush of one chunk through one output.
\*   idle      nothing under way
\*   queued    waiting in the singleplex queue of a synchronous output
\*   pipe      handed over through a pipe, callback not running yet
\*   run       the flush callback of the plugin is running
\*   ok, error, retry   the callback returned, the engine has not read it yet
\*   lost      the worker could not create the coroutine and forgot the task
Results == {"ok", "error", "retry"}
RouteStates == {"absent", "inactive", "active", "dropped"}
Stages == {"idle", "queued", "pipe", "run", "lost"} \cup Results

VARIABLES
  chunk,        \* "none" | "ready" (not busy) | "busy" (has a task) | "gone"
  up,           \* content mapped in memory
  mask,         \* routes_mask
  task_map,     \* task_map[i]: the task in slot i, None or Freed
  tid,          \* task->id
  status,       \* "none" (no task) | "new" | "running"
  users,        \* task->users
  route,        \* route status per output
  attempts,     \* retry->attempts per output, 0: no retry context
  request,      \* scheduler requests that point at the retry, per output
  flush,        \* stage of the flush, per output
  pending,      \* singleplex_queue->pending, per output
  in_progress,  \* singleplex_queue->in_progress, per output
  proc,         \* cmt_proc_records: times chunk c was counted for output o
  dropped,      \* cmt_dropped_records: times chunk c was counted for output o
  tries,        \* times the flush callback was called for c and o
  pc,           \* where the engine thread is
  cont,         \* where it continues after the singleplex loop
  inp,          \* the input being dispatched
  seen,         \* chunks or tasks the current loop has still to visit
  cur,          \* task in hand
  out,          \* output in hand
  rts,          \* routes of the task in hand still to start
  hits,         \* tasks_start: some route of the task in hand was started
  nretry        \* tasks_start: a visited task had a retry

chunkVars == <<chunk, up, mask>>
taskVars == <<task_map, tid, status, users, route>>
retryVars == <<attempts, request>>
queueVars == <<pending, in_progress>>
metricVars == <<proc, dropped, tries>>
loopVars == <<inp, seen, rts, hits, nretry>>
ctlVars == <<pc, cont, cur, out, loopVars>>
vars == <<chunkVars, taskVars, retryVars, flush, queueVars, metricVars, ctlVars>>

-----------------------------------------------------------------------------
(* Helpers.  A definition named Mut... is a faulty form of the one below   *)
(* it; no action uses it.  With it in the place of the right form, TLC     *)
(* finds a property violated.                                              *)

Set(f, c, o, v) == [f EXCEPT ![c][o] = v]
CountTo(n, cap) == IF n < cap THEN n + 1 ELSE n
NoRetries(c) == \A o \in Outputs : attempts[c][o] = 0
Routes(c) == {o \in Outputs : route[c][o] # "absent"}
Busy(c) == {o \in Outputs : flush[c][o] # "idle"}
FsChunk(c) == Kind[In[c]] \in {"fs", "backlog"}
Running(i) == {c \in Chunks : status[c] # "none" /\ In[c] = i}

\* map_get_task_id: the slots that are free; the lowest one is taken.
MutFreeIdsTaken == TaskIds
FreeIds == {i \in TaskIds : task_map[i] = None}
LowestFree(i) == i \in FreeIds /\ \A j \in FreeIds : i <= j

\* cio_chunk_up: a chunk that is down cannot be mapped over max_chunks_up.
CanUp(c) == up[c] \/ Cardinality({d \in Chunks : up[d]}) < MaxUp

\* flb_output_coros_size: coroutines in the flush list.  A worker creates
\* the coroutine itself, so a task still in its pipe is not counted.
Coros(o) ==
  {c \in Chunks : flush[c][o] = "run" \/ (o \notin Threaded /\ flush[c][o] = "pipe")}

\* flb_task_destroy(task, FLB_TRUE): slot, routes, chunk, retries and their
\* requests.  Whatever else still points at the task is left behind.
NoneOf(f, c, v) == [f EXCEPT ![c] = [o \in Outputs |-> v]]
Destroy(c) ==
  /\ task_map' = [task_map EXCEPT ![tid[c]] = None]
  /\ status' = [status EXCEPT ![c] = "none"]
  /\ route' = NoneOf(route, c, "absent")
  /\ chunk' = [chunk EXCEPT ![c] = "gone"]
  /\ up' = [up EXCEPT ![c] = FALSE]
  /\ attempts' = NoneOf(attempts, c, 0)
  /\ request' = NoneOf(request, c, 0)

\* flb_task_retry_destroy: invalidate the request of the retry, free it.
RetryDestroy(c, o) ==
  /\ attempts' = Set(attempts, c, o, 0)
  /\ request' = Set(request, c, o, IF request[c][o] > 0 THEN request[c][o] - 1 ELSE 0)

\* flb_task_users_dec.
UsersDec(c) == [users EXCEPT ![c] = @ - 1]

\* flb_task_users_release: the flush of c through o that ends is the last
\* use of the task.
MutLastUseLate(c, o) == users[c] = 0 /\ \A p \in Outputs \ {o} : attempts[c][p] = 0
MutLastUseNoRetryCheck(c, o) == users[c] = 1
LastUse(c, o) == users[c] = 1 /\ \A p \in Outputs \ {o} : attempts[c][p] = 0

\* The end of a flush that is not retried: the retry context is freed, the
\* user is taken away, and a task without users and retries is destroyed.
\* Otherwise the chunk is left mapped or not as u says.
CleanAndRelease(c, o, u) ==
  /\ users' = UsersDec(c)
  /\ \/ /\ LastUse(c, o)
        /\ Destroy(c)
     \/ /\ ~LastUse(c, o)
        /\ RetryDestroy(c, o)
        /\ up' = [up EXCEPT ![c] = u]
        /\ UNCHANGED <<task_map, status, route, chunk>>
  /\ UNCHANGED <<tid, mask>>

-----------------------------------------------------------------------------
(* Ingestion, as far as delivery depends on it: flb_input_chunk_create and *)
(* the append that fills the chunk.  A chunk that no rule matches is kept, *)
(* unless it is mapped from the backlog.  A file chunk may be put down     *)
(* again when memory is over the limit.                                    *)
(* The name of a destroyed chunk stands for a later one: counting restarts.*)

Ingest(c) ==
  /\ pc = "loop"
  /\ chunk[c] \in {"none", "gone"}
  /\ Kind[In[c]] = "backlog" => Match[In[c]] # {}
  /\ chunk' = [chunk EXCEPT ![c] = "ready"]
  /\ mask' = [mask EXCEPT ![c] = Match[In[c]]]
  /\ \E u \in BOOLEAN :
        /\ u \/ FsChunk(c)
        /\ up' = [up EXCEPT ![c] = u]
  /\ proc' = NoneOf(proc, c, 0)
  /\ dropped' = NoneOf(dropped, c, 0)
  /\ tries' = NoneOf(tries, c, 0)
  /\ UNCHANGED <<taskVars, retryVars, flush, queueVars, ctlVars>>

-----------------------------------------------------------------------------
(* flb_engine_dispatch: create a task for every chunk that is not busy.    *)
(* The lists are visited in any order, which covers the order of the code. *)
(* A tick that would find nothing to create and nothing new to start       *)
(* changes nothing and is not a step.                                      *)

DispatchBegin(i) ==
  /\ pc = "loop"
  /\ \E c \in Chunks : In[c] = i /\ (chunk[c] = "ready" \/ status[c] = "new")
  /\ pc' = "create"
  /\ inp' = i
  /\ seen' = {c \in Chunks : chunk[c] = "ready" /\ In[c] = i}
  /\ UNCHANGED <<chunkVars, taskVars, retryVars, flush, queueVars, metricVars,
                 cont, cur, out, rts, hits, nretry>>

\* No task id is left: the loop over the chunks is abandoned.
CreateBreak ==
  /\ pc = "create"
  /\ seen # {}
  /\ FreeIds = {}
  /\ seen' = {}
  /\ UNCHANGED <<chunkVars, taskVars, retryVars, flush, queueVars, metricVars,
                 pc, cont, cur, out, inp, rts, hits, nretry>>

\* flb_input_chunk_flush cannot bring the chunk up: keep it for later.
CreateSkip(c) ==
  /\ pc = "create"
  /\ c \in seen
  /\ FreeIds # {}
  /\ ~CanUp(c)
  /\ seen' = seen \ {c}
  /\ UNCHANGED <<chunkVars, taskVars, retryVars, flush, queueVars, metricVars,
                 pc, cont, cur, out, inp, rts, hits, nretry>>

\* flb_task_create fails with the error flag: release the chunk, put it down.
\* When the event chunk cannot be created the slot of the task is not freed.
CreateFail(c) ==
  /\ pc = "create"
  /\ "task_alloc" \in Faults
  /\ c \in seen
  /\ FreeIds # {}
  /\ CanUp(c)
  /\ \/ UNCHANGED task_map
     \/ \E i \in FreeIds : LowestFree(i) /\ task_map' = [task_map EXCEPT ![i] = Freed]
  /\ up' = [up EXCEPT ![c] = ~FsChunk(c)]
  /\ seen' = seen \ {c}
  /\ UNCHANGED <<chunk, mask, tid, status, users, route, retryVars, flush, queueVars, metricVars,
                 pc, cont, cur, out, inp, rts, hits, nretry>>

\* The outputs of a new task: the direct connections of the input if it has
\* any, else the outputs that are in the mask and handle the event type.
TaskRoutes(c) ==
  IF Direct[In[c]] # {} THEN Direct[In[c]] ELSE mask[c] \cap Handles[In[c]]

\* The status of a route of a new task.  The route of a direct connection is
\* allocated without one, so it may be any (a value that is none of them acts
\* as "active": it is neither dropped nor inactive).
NewRouteStatus(c) ==
  IF Direct[In[c]] # {} THEN {"inactive", "active", "dropped"} ELSE {"inactive"}

\* flb_task_create.
CreateTask(c) ==
  /\ pc = "create"
  /\ c \in seen
  /\ CanUp(c)
  /\ TaskRoutes(c) # {}
  /\ \E i \in FreeIds :
        /\ LowestFree(i)
        /\ task_map' = [task_map EXCEPT ![i] = c]
        /\ tid' = [tid EXCEPT ![c] = i]
  /\ chunk' = [chunk EXCEPT ![c] = "busy"]
  /\ up' = [up EXCEPT ![c] = TRUE]
  /\ status' = [status EXCEPT ![c] = "new"]
  /\ users' = [users EXCEPT ![c] = 0]
  /\ \E st \in [TaskRoutes(c) -> NewRouteStatus(c)] :
        route' = [route EXCEPT ![c] =
                    [o \in Outputs |-> IF o \in TaskRoutes(c) THEN st[o] ELSE "absent"]]
  /\ seen' = seen \ {c}
  /\ UNCHANGED <<mask, retryVars, flush, queueVars, metricVars,
                 pc, cont, cur, out, inp, rts, hits, nretry>>

\* flb_task_create without any route: the task and the chunk are destroyed.
CreateUseless(c) ==
  /\ pc = "create"
  /\ c \in seen
  /\ FreeIds # {}
  /\ CanUp(c)
  /\ TaskRoutes(c) = {}
  /\ chunk' = [chunk EXCEPT ![c] = "gone"]
  /\ up' = [up EXCEPT ![c] = FALSE]
  /\ seen' = seen \ {c}
  /\ UNCHANGED <<mask, taskVars, retryVars, flush, queueVars, metricVars,
                 pc, cont, cur, out, inp, rts, hits, nretry>>

-----------------------------------------------------------------------------
(* tasks_start: start the routes of every new task of the input.           *)

StartBegin ==
  /\ pc = "create"
  /\ seen = {}
  /\ pc' = "start"
  /\ seen' = Running(inp)
  /\ UNCHANGED <<chunkVars, taskVars, retryVars, flush, queueVars, metricVars,
                 cont, cur, out, inp, rts, hits, nretry>>

\* A task that already runs only counts if it has retries.
VisitRunning(c) ==
  /\ pc = "start"
  /\ c \in seen
  /\ status[c] = "running"
  /\ nretry' = (nretry \/ ~NoRetries(c))
  /\ seen' = seen \ {c}
  /\ UNCHANGED <<chunkVars, taskVars, retryVars, flush, queueVars, metricVars,
                 pc, cont, cur, out, inp, rts, hits>>

VisitNew(c) ==
  /\ pc = "start"
  /\ c \in seen
  /\ status[c] = "new"
  /\ nretry' = (nretry \/ ~NoRetries(c))
  /\ seen' = seen \ {c}
  /\ status' = [status EXCEPT ![c] = "running"]
  /\ pc' = "route"
  /\ cur' = c
  /\ rts' = Routes(c)
  /\ hits' = FALSE
  /\ UNCHANGED <<chunkVars, task_map, tid, users, route, retryVars, flush,
                 queueVars, metricVars, cont, out, inp>>

\* Whether tasks_start passes over a route of an output that runs one task
\* at a time.
SkipRoute(o) == o \in NoMux /\ (Coros(o) # {} \/ nretry)

RouteSkipped(o) ==
  /\ pc = "route"
  /\ o \in rts
  /\ SkipRoute(o)
  /\ rts' = rts \ {o}
  /\ UNCHANGED <<chunkVars, taskVars, retryVars, flush, queueVars, metricVars,
                 pc, cont, cur, out, inp, seen, hits, nretry>>

\* flb_output_task_flush: the user is added, the flush goes into the pipe.
\* Creating the coroutine of an output without workers may fail.
MutTaskFlushNoUser(c, o) ==
  /\ UNCHANGED users
  /\ flush' = Set(flush, c, o, "pipe")
TaskFlush(c, o) ==
  /\ users' = [users EXCEPT ![c] = @ + 1]
  /\ flush' = Set(flush, c, o, "pipe")
FlushCreateFails(o) == "flush_create" \in Faults /\ o \notin Threaded

RouteStarted(o) ==
  /\ pc = "route"
  /\ o \in rts
  /\ o \notin Sync
  /\ ~SkipRoute(o)
  /\ rts' = rts \ {o}
  /\ hits' = TRUE
  /\ \/ TaskFlush(cur, o)
     \/ FlushCreateFails(o) /\ UNCHANGED <<users, flush>>
  /\ UNCHANGED <<chunkVars, task_map, tid, status, route, retryVars, queueVars,
                 metricVars, pc, cont, cur, out, inp, seen, nretry>>

\* "Launch task if nothing is running"
MutLaunchAlways(o) == o \in Outputs
NothingRunning(o) == in_progress[o] = <<>>

\* flb_output_task_singleplex_enqueue: a temporary user keeps the task
\* while it waits; with nothing in progress the queue is served at once.
Enqueue(c, o, from) ==
  /\ users' = [users EXCEPT ![c] = @ + 1]
  /\ flush' = Set(flush, c, o, "queued")
  /\ pending' = [pending EXCEPT ![o] = Append(@, c)]
  /\ \/ NothingRunning(o) /\ pc' = "one" /\ cont' = from /\ out' = o
     \/ ~NothingRunning(o) /\ pc' = from /\ UNCHANGED <<cont, out>>
  /\ UNCHANGED in_progress

RouteQueued(o) ==
  /\ pc = "route"
  /\ o \in rts
  /\ o \in Sync
  /\ ~SkipRoute(o)
  /\ rts' = rts \ {o}
  /\ hits' = TRUE
  /\ Enqueue(cur, o, "route")
  /\ UNCHANGED <<chunkVars, task_map, tid, status, route, retryVars, metricVars,
                 cur, inp, seen, nretry>>

\* A task none of whose routes was started is tried again at the next tick.
TaskStarted ==
  /\ pc = "route"
  /\ rts = {}
  /\ status' = [status EXCEPT ![cur] = IF hits THEN @ ELSE "new"]
  /\ pc' = "start"
  /\ cur' = None
  /\ hits' = FALSE
  /\ UNCHANGED <<chunkVars, task_map, tid, users, route, retryVars, flush,
                 queueVars, metricVars, cont, out, inp, seen, rts, nretry>>

DispatchEnd ==
  /\ pc = "start"
  /\ seen = {}
  /\ pc' = "loop"
  /\ inp' = None
  /\ nretry' = FALSE
  /\ UNCHANGED <<chunkVars, taskVars, retryVars, flush, queueVars, metricVars,
                 cont, cur, out, seen, rts, hits>>

-----------------------------------------------------------------------------
(* The singleplex loop: flb_output_task_queue_flush_one, called by the     *)
(* enqueue and by flb_output_task_singleplex_flush_next.  The temporary    *)
(* user goes and the flush adds its own.                                   *)

QueueDone == pc' = cont /\ cont' = "loop" /\ out' = IF cont = "event" THEN out ELSE None

FlushOne ==
  /\ pc = "one"
  /\ pending[out] # <<>>
  /\ LET c == Head(pending[out]) IN
       /\ in_progress' = [in_progress EXCEPT ![out] = Append(@, c)]
       /\ flush' = Set(flush, c, out, "pipe")
  /\ pending' = [pending EXCEPT ![out] = Tail(@)]
  /\ QueueDone
  /\ UNCHANGED <<chunkVars, taskVars, retryVars, metricVars, cur, loopVars>>

\* The flush fails: its retry is freed and the next waiting task is tried.
FlushOneFails ==
  /\ pc = "one"
  /\ pending[out] # <<>>
  /\ FlushCreateFails(out)
  /\ LET c == Head(pending[out]) IN
       /\ in_progress' = [in_progress EXCEPT ![out] = Tail(Append(@, c))]
       /\ flush' = Set(flush, c, out, "idle")
       /\ users' = UsersDec(c)
       /\ RetryDestroy(c, out)
  /\ pending' = [pending EXCEPT ![out] = Tail(@)]
  /\ \/ Tail(pending[out]) = <<>> /\ QueueDone
     \/ Tail(pending[out]) # <<>> /\ UNCHANGED <<pc, cont, out>>
  /\ UNCHANGED <<chunkVars, task_map, tid, status, route, metricVars, cur, loopVars>>

-----------------------------------------------------------------------------
(* The flush itself.  Outputs without workers run on the engine thread,    *)
(* between handlers; the others run on a worker at any time.  The route    *)
(* status is read and written under the lock of the task.                  *)

RouteDropped(c, o) == route[c][o] = "dropped"
OnItsThread(o) == o \in Threaded \/ pc = "loop"

\* output_pre_cb_flush: the callback of the plugin is called.
FlushStart(c, o) ==
  /\ OnItsThread(o)
  /\ flush[c][o] = "pipe"
  /\ ~RouteDropped(c, o)
  /\ flush' = Set(flush, c, o, "run")
  /\ route' = Set(route, c, o, "active")
  /\ tries' = Set(tries, c, o, CountTo(tries[c][o], AttemptCap + 1))
  /\ UNCHANGED <<chunkVars, task_map, tid, status, users, retryVars, queueVars,
                 proc, dropped, ctlVars>>

\* output_pre_cb_flush: the processors of the output left no record, return
\* FLB_OK without calling the plugin.
FlushSkipped(c, o) ==
  /\ OnItsThread(o)
  /\ o \in Processors
  /\ flush[c][o] = "pipe"
  /\ flush' = Set(flush, c, o, "ok")
  /\ route' = Set(route, c, o, "inactive")
  /\ UNCHANGED <<chunkVars, task_map, tid, status, users, retryVars, queueVars,
                 metricVars, ctlVars>>

\* output_pre_cb_flush: the route was dropped meanwhile, return FLB_ERROR.
FlushDropped(c, o) ==
  /\ OnItsThread(o)
  /\ flush[c][o] = "pipe"
  /\ RouteDropped(c, o)
  /\ flush' = Set(flush, c, o, "error")
  /\ route' = Set(route, c, o, "inactive")
  /\ UNCHANGED <<chunkVars, task_map, tid, status, users, retryVars, queueVars,
                 metricVars, ctlVars>>

\* output_thread: the coroutine cannot be created, the loop continues.
FlushLost(c, o) ==
  /\ "flush_create" \in Faults
  /\ o \in Threaded
  /\ flush[c][o] = "pipe"
  /\ flush' = Set(flush, c, o, "lost")
  /\ UNCHANGED <<chunkVars, taskVars, retryVars, queueVars, metricVars, ctlVars>>

\* flb_output_return: deactivate the route, write the event.
FlushReturn(c, o, ret) ==
  /\ OnItsThread(o)
  /\ flush[c][o] = "run"
  /\ flush' = Set(flush, c, o, ret)
  /\ route' = Set(route, c, o, "inactive")
  /\ UNCHANGED <<chunkVars, task_map, tid, status, users, retryVars, queueVars,
                 metricVars, ctlVars>>

-----------------------------------------------------------------------------
(* handle_output_event.  The event carries the id of the task; the task is *)
(* looked up in task_map.  A synchronous output first serves its queue,    *)
(* whatever the flush returned.                                            *)

MutServesOnOk(c, o) == o \in Sync /\ flush[c][o] = "ok"
ServesQueue(c, o) == o \in Sync /\ flush[c][o] \in Results

TakeEvent(c, o) ==
  /\ pc = "loop"
  /\ flush[c][o] \in Results
  /\ cur' = task_map[tid[c]]
  /\ out' = o
  /\ \/ /\ ~ServesQueue(c, o)
        /\ pc' = "event"
        /\ UNCHANGED <<queueVars, cont>>
     \/ /\ ServesQueue(c, o)
        /\ in_progress' = [in_progress EXCEPT ![o] = IF @ = <<>> THEN @ ELSE Tail(@)]
        /\ \/ pending[o] = <<>> /\ pc' = "event" /\ UNCHANGED cont
           \/ pending[o] # <<>> /\ pc' = "one" /\ cont' = "event"
        /\ UNCHANGED pending
  /\ UNCHANGED <<chunkVars, taskVars, retryVars, flush, metricVars, loopVars>>

EventDone ==
  /\ flush' = Set(flush, cur, out, "idle")
  /\ pc' = "loop"
  /\ cur' = None
  /\ out' = None
  /\ UNCHANGED <<queueVars, tries, cont, loopVars>>

HandleOk ==
  /\ pc = "event"
  /\ flush[cur][out] = "ok"
  /\ proc' = Set(proc, cur, out, proc[cur][out] + 1)
  /\ CleanAndRelease(cur, out, up[cur])
  /\ EventDone
  /\ UNCHANGED dropped

\* flb_task_retry_create returns NULL: the limit is reached, or a first
\* retry cannot be allocated.
MutLimitPassed(c, o) ==
  attempts[c][o] > 0 /\ attempts[c][o] > RetryLimit[o] /\ RetryLimit[o] >= 0
LimitReached(c, o) ==
  attempts[c][o] > 0 /\ attempts[c][o] >= RetryLimit[o] /\ RetryLimit[o] >= 0
RetryRefused(c, o) ==
  LimitReached(c, o) \/ (attempts[c][o] = 0 /\ "retry_alloc" \in Faults)

\* FLB_ERROR, or FLB_RETRY without a retry: the records are dropped.
HandleDrop ==
  /\ pc = "event"
  /\ \/ flush[cur][out] = "error"
     \/ /\ flush[cur][out] = "retry"
        /\ RetryLimit[out] = FLB_OUT_RETRY_NONE \/ RetryRefused(cur, out)
  /\ dropped' = Set(dropped, cur, out, dropped[cur][out] + 1)
  /\ CleanAndRelease(cur, out, up[cur])
  /\ EventDone
  /\ UNCHANGED proc

\* flb_task_retry_create succeeds.  With no other user the chunk is put down
\* if memory is over the limit, and always when it has a single route.
RetryAllowed(c, o) ==
  /\ flush[c][o] = "retry"
  /\ RetryLimit[o] # FLB_OUT_RETRY_NONE
  /\ ~LimitReached(c, o)
MutUpIgnoresUsers(c, overlimit) ==
  up[c] /\ ~(FsChunk(c) /\ (overlimit \/ Cardinality(Routes(c)) = 1))
UpAfterRetry(c, overlimit) ==
  up[c] /\ ~(FsChunk(c) /\ (\/ overlimit /\ users[c] <= 1
                            \/ Cardinality(Routes(c)) = 1))

HandleRetry ==
  /\ pc = "event"
  /\ RetryAllowed(cur, out)
  /\ attempts' = Set(attempts, cur, out,
                     CountTo(attempts[cur][out], AttemptCap))
  /\ request' = Set(request, cur, out, request[cur][out] + 1)
  /\ users' = UsersDec(cur)
  /\ \E overlimit \in BOOLEAN :
        up' = [up EXCEPT ![cur] = UpAfterRetry(cur, overlimit)]
  /\ EventDone
  /\ UNCHANGED <<chunk, mask, task_map, tid, status, route, proc, dropped>>

\* The scheduler cannot take the retry: it is freed, and the task with it
\* when nothing else holds it.
HandleUnscheduled ==
  /\ pc = "event"
  /\ "sched" \in Faults
  /\ RetryAllowed(cur, out)
  /\ \E overlimit \in BOOLEAN :
        CleanAndRelease(cur, out, UpAfterRetry(cur, overlimit))
  /\ EventDone
  /\ UNCHANGED <<proc, dropped>>

-----------------------------------------------------------------------------
(* flb_sched_event_handler and flb_engine_dispatch_retry: the timer of a   *)
(* request has fired.  The request is destroyed when the dispatch succeeds,*)
(* and with its retry when it does not.                                    *)

\* flb_sched_request_destroy of the request that fired.
MutRequestKept(c, o) == UNCHANGED request
RequestDestroy(c, o) == request' = Set(request, c, o, request[c][o] - 1)

RetryFires(c, o) == pc = "loop" /\ request[c][o] > 0

\* The chunk cannot be brought up: a new request replaces the fired one.
RetryPostponed(c, o) ==
  /\ RetryFires(c, o)
  /\ ~CanUp(c)
  /\ UNCHANGED vars

\* flb_task_retry_reschedule fails.
RetryAbandoned(c, o) ==
  /\ RetryFires(c, o)
  /\ "sched" \in Faults
  /\ ~CanUp(c)
  /\ \/ /\ users[c] = 0 /\ \A p \in Outputs \ {o} : attempts[c][p] = 0
        /\ Destroy(c)
        /\ UNCHANGED <<mask, tid, users>>
     \/ /\ users[c] # 0 \/ \E p \in Outputs \ {o} : attempts[c][p] > 0
        /\ RetryDestroy(c, o)
        /\ UNCHANGED <<chunkVars, taskVars>>
  /\ UNCHANGED <<flush, queueVars, metricVars, ctlVars>>

\* The content cannot be read, or the coroutine cannot be created: the
\* retry is destroyed and nothing else.
RetryFails(c, o) ==
  /\ RetryFires(c, o)
  /\ CanUp(c)
  /\ "content" \in Faults \/ (o \notin Sync /\ FlushCreateFails(o))
  /\ up' = [up EXCEPT ![c] = TRUE]
  /\ RetryDestroy(c, o)
  /\ UNCHANGED <<chunk, mask, taskVars, flush, queueVars, metricVars, ctlVars>>

RetryFlushed(c, o) ==
  /\ RetryFires(c, o)
  /\ CanUp(c)
  /\ up' = [up EXCEPT ![c] = TRUE]
  /\ RequestDestroy(c, o)
  /\ \/ /\ o \notin Sync
        /\ TaskFlush(c, o)
        /\ UNCHANGED <<queueVars, pc, cont, out>>
     \/ /\ o \in Sync
        /\ Enqueue(c, o, "loop")
  /\ UNCHANGED <<chunk, mask, task_map, tid, status, route, attempts, metricVars,
                 cur, loopVars>>

-----------------------------------------------------------------------------
(* flb_input_chunk_release_space: an incoming file chunk makes room for    *)
(* itself at the expense of an older chunk routed to a limited output.     *)
(* The scope is global for chunks of the storage backlog, local for all.   *)

Releases(c, o) ==
  /\ pc = "loop"
  /\ \E i \in Inputs : Kind[i] = "fs"
  /\ o \in Limited
  /\ o \in mask[c]
Scopes(c) == IF Kind[In[c]] = "backlog" THEN {"local", "global"} ELSE {"local"}
MaskAfter(c, o, scope) == IF scope = "local" THEN mask[c] \ {o} ELSE mask[c]
DestroyAfter(c, o, scope) == scope = "global" \/ mask[c] = {o}

\* The chunk has no task.
ReleaseChunk(c, o, scope) ==
  /\ Releases(c, o)
  /\ chunk[c] = "ready"
  /\ mask' = [mask EXCEPT ![c] = MaskAfter(c, o, scope)]
  /\ dropped' = Set(dropped, c, o, dropped[c][o] + 1)
  /\ \/ /\ DestroyAfter(c, o, scope)
        /\ chunk' = [chunk EXCEPT ![c] = "gone"]
        /\ up' = [up EXCEPT ![c] = FALSE]
     \/ ~DestroyAfter(c, o, scope) /\ UNCHANGED <<chunk, up>>
  /\ UNCHANGED <<taskVars, retryVars, flush, queueVars, proc, tries, ctlVars>>

\* flb_input_chunk_drop_task_route, under the lock of the task: an output
\* without a route in the task counts as inactive.
MutDropAnyRoute(c, o) == route[c][o] # "dropped"
MayDropRoute(c, o) == route[c][o] \in {"inactive", "absent"}

\* The task has users: only a route that is not being flushed is dropped,
\* and the chunk stays.  The records are counted when the flush fails.
ReleaseRoute(c, o, scope) ==
  /\ Releases(c, o)
  /\ chunk[c] = "busy"
  /\ users[c] # 0
  /\ MayDropRoute(c, o)
  /\ route' = Set(route, c, o, IF route[c][o] = "absent" THEN "absent" ELSE "dropped")
  /\ mask' = [mask EXCEPT ![c] = MaskAfter(c, o, scope)]
  /\ UNCHANGED <<chunk, up, task_map, tid, status, users, retryVars, flush,
                 queueVars, metricVars, ctlVars>>

\* The task has no users: the records count as dropped, and the task goes
\* when no route is left.
ReleaseTask(c, o, scope) ==
  /\ Releases(c, o)
  /\ chunk[c] = "busy"
  /\ users[c] = 0
  /\ mask' = [mask EXCEPT ![c] = MaskAfter(c, o, scope)]
  /\ dropped' = Set(dropped, c, o, dropped[c][o] + 1)
  /\ \/ DestroyAfter(c, o, scope) /\ Destroy(c)
     \/ /\ ~DestroyAfter(c, o, scope)
        /\ UNCHANGED <<chunk, up, task_map, status, route, retryVars>>
  /\ UNCHANGED <<tid, users, flush, queueVars, proc, tries, ctlVars>>

\* memrb_input_chunk_release_space: a memory ring buffer over its limit
\* drops its own chunks that no output uses.
ReleaseRing(c) ==
  /\ pc = "loop"
  /\ Kind[In[c]] = "memrb"
  /\ \/ /\ chunk[c] = "ready"
        /\ chunk' = [chunk EXCEPT ![c] = "gone"]
        /\ up' = [up EXCEPT ![c] = FALSE]
        /\ UNCHANGED <<task_map, status, route, retryVars>>
     \/ /\ chunk[c] = "busy"
        /\ users[c] = 0
        /\ Destroy(c)
  /\ UNCHANGED <<mask, tid, users, flush, queueVars, metricVars, ctlVars>>

-----------------------------------------------------------------------------
Init ==
  /\ chunk = [c \in Chunks |-> "none"]
  /\ up = [c \in Chunks |-> FALSE]
  /\ mask = [c \in Chunks |-> {}]
  /\ task_map = [i \in TaskIds |-> None]
  /\ tid = [c \in Chunks |-> None]
  /\ status = [c \in Chunks |-> "none"]
  /\ users = [c \in Chunks |-> 0]
  /\ route = [c \in Chunks |-> [o \in Outputs |-> "absent"]]
  /\ attempts = [c \in Chunks |-> [o \in Outputs |-> 0]]
  /\ request = [c \in Chunks |-> [o \in Outputs |-> 0]]
  /\ flush = [c \in Chunks |-> [o \in Outputs |-> "idle"]]
  /\ pending = [o \in Outputs |-> <<>>]
  /\ in_progress = [o \in Outputs |-> <<>>]
  /\ proc = [c \in Chunks |-> [o \in Outputs |-> 0]]
  /\ dropped = [c \in Chunks |-> [o \in Outputs |-> 0]]
  /\ tries = [c \in Chunks |-> [o \in Outputs |-> 0]]
  /\ pc = "loop" /\ cont = "loop" /\ inp = None /\ seen = {} /\ cur = None
  /\ out = None /\ rts = {} /\ hits = FALSE /\ nretry = FALSE

-----------------------------------------------------------------------------
Handler ==          \* event handlers of the engine thread
  \/ \E i \in Inputs : DispatchBegin(i)
  \/ \E c \in Chunks, o \in Outputs :
       \/ TakeEvent(c, o)
       \/ RetryPostponed(c, o) \/ RetryAbandoned(c, o)
       \/ RetryFails(c, o) \/ RetryFlushed(c, o)

Continue ==         \* the engine thread inside a handler
  \/ CreateBreak \/ StartBegin \/ TaskStarted \/ DispatchEnd
  \/ FlushOne \/ FlushOneFails
  \/ HandleOk \/ HandleDrop \/ HandleRetry \/ HandleUnscheduled
  \/ \E c \in Chunks :
       \/ CreateSkip(c) \/ CreateFail(c) \/ CreateTask(c) \/ CreateUseless(c)
       \/ VisitRunning(c) \/ VisitNew(c)
  \/ \E o \in Outputs : RouteSkipped(o) \/ RouteStarted(o) \/ RouteQueued(o)

Output ==           \* flush coroutines, on the engine thread or on a worker
  \E c \in Chunks, o \in Outputs :
    \/ FlushStart(c, o) \/ FlushSkipped(c, o) \/ FlushDropped(c, o) \/ FlushLost(c, o)
    \/ \E ret \in Results : FlushReturn(c, o, ret)

Input ==            \* appends, which run on the engine thread
  \E c \in Chunks :
    \/ Ingest(c)
    \/ ReleaseRing(c)
    \/ \E o \in Outputs, scope \in Scopes(c) :
         ReleaseChunk(c, o, scope) \/ ReleaseRoute(c, o, scope) \/ ReleaseTask(c, o, scope)

Next == Handler \/ Continue \/ Output \/ Input
Spec == Init /\ [][Next]_vars

\* The engine thread never stops inside a handler, a callback returns in
\* the end, and the event loop serves every event that stays ready: the
\* flush timer, the timer of a request, a pipe with something to read.  The
\* stage of a flush enables one action of Advance at a time, so fairness of
\* the disjunction is fairness of each.
Advance(c, o) ==
  \/ TakeEvent(c, o) \/ RetryFlushed(c, o)
  \/ FlushStart(c, o) \/ FlushSkipped(c, o) \/ FlushDropped(c, o)
  \/ \E ret \in Results : FlushReturn(c, o, ret)
Fairness ==
  /\ WF_vars(Continue)
  /\ \A i \in Inputs : SF_vars(DispatchBegin(i))
  /\ \A c \in Chunks, o \in Outputs : SF_vars(Advance(c, o))
FairSpec == Spec /\ Fairness

-----------------------------------------------------------------------------
(* Properties.                                                             *)

DataTypeOK ==
  /\ chunk \in [Chunks -> {"none", "ready", "busy", "gone"}]
  /\ up \in [Chunks -> BOOLEAN]
  /\ mask \in [Chunks -> SUBSET Outputs]
  /\ task_map \in [TaskIds -> Chunks \cup {None, Freed}]
  /\ tid \in [Chunks -> TaskIds \cup {None}]
  /\ status \in [Chunks -> {"none", "new", "running"}]
  /\ users \in [Chunks -> Nat]
  /\ route \in [Chunks -> [Outputs -> RouteStates]]
  /\ attempts \in [Chunks -> [Outputs -> 0 .. AttemptCap]]
  /\ request \in [Chunks -> [Outputs -> Nat]]
  /\ flush \in [Chunks -> [Outputs -> Stages]]
  /\ pending \in [Outputs -> Seq(Chunks)]
  /\ in_progress \in [Outputs -> Seq(Chunks)]
MetricTypeOK ==
  /\ proc \in [Chunks -> [Outputs -> Nat]]
  /\ dropped \in [Chunks -> [Outputs -> Nat]]
  /\ tries \in [Chunks -> [Outputs -> Nat]]
ControlTypeOK ==
  /\ pc \in {"loop", "create", "start", "route", "one", "event"}
  /\ cont \in {"loop", "route", "event"}
  /\ inp \in Inputs \cup {None}
  /\ seen \subseteq Chunks
  /\ cur \in Chunks \cup {None}
  /\ out \in Outputs \cup {None}
  /\ rts \subseteq Outputs
  /\ hits \in BOOLEAN
  /\ nretry \in BOOLEAN

\* Every variable keeps its type; in particular the users of a task never
\* go below zero, and the engine thread finds a task and an output whenever
\* a handler needs them.
TypeOK == DataTypeOK /\ MetricTypeOK /\ ControlTypeOK

\* task->users counts exactly the flushes of the task that are waiting,
\* running or returned but not yet handled, so the task is destroyed at the
\* last of them and never before (flb_task_users_inc, flb_task_users_dec).
UsersExact == \A c \in Chunks : users[c] = Cardinality(Busy(c))

\* While any output still uses the task, its chunk exists and its content
\* stays mapped: a retry of one route never unmaps or deletes the buffer
\* another route is reading (flb_task_retry_create, issue 8691).
MappedWhileUsed ==
  \A c \in Chunks : Busy(c) # {} => chunk[c] = "busy" /\ up[c]

\* The task id that a flush will report leads back to its own task: the
\* slot is not freed or given to another task before the event is handled.
EventFindsItsTask ==
  \A c \in Chunks : Busy(c) # {} => tid[c] \in TaskIds /\ task_map[tid[c]] = c

\* A retry context is referenced from exactly one place: one request of the
\* scheduler, or one flush; and no request points at a freed retry.
RetryExclusive ==
  \A c \in Chunks, o \in Outputs :
    /\ request[c][o] > 0 => attempts[c][o] > 0 /\ flush[c][o] = "idle"
    /\ attempts[c][o] > 0 => flush[c][o] # "idle" \/ request[c][o] = 1
    /\ request[c][o] <= 1

\* A synchronous output has one task in the hands of the plugin at a time,
\* retries included, and the in_progress list names it ("run one task at a
\* time", flb_output.h).
InPlugin(o) == {c \in Chunks : flush[c][o] \in {"pipe", "run"}}
SynchronousOneTask ==
  \A o \in Sync : Cardinality(InPlugin(o)) <= 1 /\ Len(in_progress[o]) <= 1

\* A task that waits in a singleplex queue has a flush in progress whose end
\* will serve it: the queue is never left with waiters and nothing running.
QueueNeverStalls ==
  pc = "loop" =>
    \A o \in Sync :
      pending[o] # <<>> =>
        /\ in_progress[o] # <<>>
        /\ flush[Head(in_progress[o])][o] \in {"pipe", "run"} \cup Results

\* Between handlers no running task is left without users and retries:
\* nothing would ever destroy it.
NoOrphanTask ==
  pc = "loop" =>
    \A c \in Chunks : status[c] = "running" => users[c] > 0 \/ ~NoRetries(c)

\* With retry_limit n an output is handed the same chunk at most n + 1 times.
RetryBudget ==
  \A c \in Chunks, o \in Outputs : RetryLimit[o] >= 0 => tries[c][o] <= RetryLimit[o] + 1

\* A route whose callback is running is marked active the whole time: the
\* space release of the engine thread, which looks at the mark under the
\* lock of the task, never drops a route under a plugin that is using it.
FlushingRouteIsActive ==
  \A c \in Chunks, o \in Outputs : flush[c][o] = "run" => route[c][o] = "active"

\* Every ingested chunk is delivered or dropped for all its routes in the
\* end and then destroyed, when every output has a retry limit.
EveryChunkEnds == \A c \in Chunks : chunk[c] = "ready" ~> chunk[c] = "gone"

\* Without space limits and with calls that do not fail, the engine
\* implements FlbDelivery: the metrics of the outputs are the ledger.
Destined(i) == IF Direct[i] # {} THEN Direct[i] ELSE Match[i] \cap Handles[i]
Ledger(c, o) ==
  CASE chunk[c] = "none" \/ o \notin Destined(In[c]) -> "none"
    [] OTHER -> CASE proc[c][o] = 0 /\ dropped[c][o] = 0 -> "due"
                  [] proc[c][o] = 1 /\ dropped[c][o] = 0 -> "proc"
                  [] proc[c][o] = 0 /\ dropped[c][o] = 1 -> "drop"
                  [] OTHER -> "twice"
Delivery == INSTANCE FlbDelivery WITH
  live <- [c \in Chunks |-> chunk[c] \in {"ready", "busy"}],
  ledger <- [c \in Chunks |-> [o \in Outputs |-> Ledger(c, o)]]
ImplementsDelivery == Delivery!Spec
=============================================================================
