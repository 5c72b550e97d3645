# Fluent Bit: TLA+ models, model-checking runs and proofs

This directory models the delivery core of Fluent Bit: how records enter it and when
an input has to pause, how chunks are stored within the limits of the outputs, what
happens to a chunk between the moment it is stored and the moment every output has
accepted or refused it, the scheduler that brings a refused chunk back, and the
connections the outputs use. Paths below are relative to the repository root;
`flb_x.c` is in `src/`, `flb_x.h` in `include/fluent-bit/`.

    tlasany FlbEngine.tla                               parse
    tlc -workers 2 -config EngineFaults.cfg MCFlbEngine check one run
    tlapm FlbEngineProofs.tla                           check the proofs of a module

## 1. The system

Fluent Bit is one process with one *engine thread*, which runs an event loop, and
optional threads for inputs and outputs. Inputs append records to chunks; a timer
(`flush`, one second) turns every chunk that is not busy into a *task*; a task has one
*route* per output; each route is *flushed* by a coroutine that calls the plugin, on
the engine thread or on a worker of the output; the plugin returns `FLB_OK`,
`FLB_ERROR` or `FLB_RETRY`, and the result comes back to the engine thread through a
pipe. A retry is put in the *scheduler*, which fires it after a back-off. When the
last route is settled the task and its chunk are destroyed.

### Inventory

| Component | State | Operations | Interacts with |
|---|---|---|---|
| Tasks (`flb_task.c`, `flb_task.h`) | `task_map` of ids, status, `users`, routes with a status each, list of retries | create, destroy, users inc/dec/release, retry create/clean/destroy/reschedule, route activate/deactivate/drop | dispatch and output events call it; it calls the scheduler and the chunk layer |
| Dispatch (`flb_engine_dispatch.c`) | none of its own | flush tick per input, `tasks_start`, retry dispatch | chunks to tasks, tasks to outputs |
| Engine (`flb_engine.c`) | event loop, metrics, shutdown flags and grace counters | flush tick, output event, manager event, stop, shutdown, re-schedule of retries at stop | everything |
| Output (`flb_output.c`, `flb_output.h`) | flush list, singleplex queue (`pending`, `in_progress`), flags, limits, metrics | task flush, enqueue, flush next, flush coroutine, return | tasks, workers, pipes |
| Output workers (`flb_output_thread.c`) | a flush list and event loop per worker, round-robin counter | hand-over, start of the coroutine, forwarding of results, stop | the engine through pipes |
| Scheduler (`flb_scheduler.c`) | `requests`, `requests_wait`, timers, timers to drop | create, wait, promote, fire, invalidate, retry now | retries, event loop |
| Input chunks (`flb_input_chunk.c`) | chunk lists, `routes_mask`, busy, sizes per output, up/down | create, append, flush, destroy, release of space, pause and resume | chunk I/O, tasks, router |
| Inputs and input threads (`flb_input.c`, `flb_input_thread.c`, `flb_ring_buffer.c`) | collectors, status, ring buffer | collect, pause, resume, ring buffer write and drain | chunks |
| Storage backlog (`plugins/in_storage_backlog/sb.c`, `flb_storage.c`) | queues of chunks found on disk | segregate, load, release | chunks, outputs' limits |
| Chunk I/O (`lib/chunkio`) | files, mapped state, counters | open, up, down, lock, close | chunks |
| Router (`flb_router.c`, `flb_router_config.c`, `flb_routes_mask.c`) | routes, masks | match, connect, direct connect | tasks, chunks |
| Emitter (`plugins/in_emitter/emitter.c`, `filter_rewrite_tag`) | senders, ring buffer | ingest again, pause and resume of the senders | chunks, other inputs |
| Upstreams (`flb_upstream.c`, `flb_connection.c`, `flb_io.c`, `flb_network.c`) | connection queues (available, busy, destroy), event registration, timeouts | get, connect, read, write, release, recycle, time out, delayed destruction | output plugins, event loop |
| Hot reload, library, supervisor (`flb_reload.c`, `flb_lib.c`, `flb_supervisor.c`) | contexts, reload flags | start, stop, reload | the engine |
| Filters, processors, stream processor, parsers, encoders | configuration | transform records | data only |

### What is hard in it

* **Several users of one task.** Each output of a task works at its own pace, on its
  own thread, and can ask for a retry. The task must live until the last of them and
  no longer (`task->users`, `task->retries`). The count is changed in six places.
* **References by number and by raw pointer.** A completion event carries a task id;
  a scheduler request carries a pointer to a retry. Both may be stale when they are used.
* **Memory limits change state under a running flush.** A retry may put the chunk of
  the task down; an append that needs space may drop a route, destroy a task or
  destroy a chunk.
* **Serialised outputs.** A synchronous output works from a queue that only the end of
  the previous flush serves.
* **Two clocks and two lists.** A retry is dated by `time(NULL)` and fired by a timer of
  the monotonic clock; while it is far away it has no timer at all and depends on the
  frame timer to get one in time. Its event may be in the queue of the loop when it is
  invalidated.
* **Two threads and a ring without locks.** A threaded input writes pointers byte by
  byte while the engine reads them, and signals at a fill level that may be passed
  while a signal is on its way.
* **Paused and resumed from several sides.** Limits of memory, of mapped files and of an
  emitter pause an input; the end of a task, or of the emitter's, resumes it; a threaded
  input hears of it later, through a pipe.
* **Sizes kept by difference.** The space of an output is counted at every append, trim,
  flush, load and release, and decides which data is dropped; files outlive a crash.
* **Coroutines that sleep on a connection** while the loop times it out, hears of its
  disconnection or frees it.
* **Failures** of allocation, of timers and of reading the content, in the middle of
  these steps.

`PROJECT.json` lists the hazards with the line where each bites and the properties
that would catch it.

### What makes each component correct

* Tasks: users are counted exactly; ids are unique among live tasks; a task in use is
  not destroyed and its content is not unmapped; a task nobody uses is destroyed.
* Retries: one reference each; never more attempts than `retry_limit` allows.
* Outputs: a synchronous output runs one task at a time and its queue never stalls.
* Delivery: every route of an accepted chunk is settled exactly once, as processed or
  as dropped, before the chunk is discarded; with retry limits every chunk ends.
* Space release: never takes what a plugin is using.
* Scheduler: a waiting retry has one request, which fires once, not before its time, in
  its second if the engine keeps up, and never after its invalidation.
* Ring buffer: a bounded queue of whole records; no signal is lost; nothing stays inside
  at the exit.
* Flow control: a plugin that was told to run can append; one that was told to pause has a
  limit that holds it and is resumed in the end; memory limits are exceeded by one append
  at most.
* Storage: the size booked for an output is the size of the chunks routed to it; making
  room never destroys what is being written, flushed or looked up; after a crash each
  file is queued and counted once.
* Connections: nothing freed is reached, nothing broken or shared is handed out, no
  connection is lost from the limit, no coroutine sleeps for ever.

## 2. Modules

| Module | What it is |
|---|---|
| `FlbEngine` | the delivery core: tasks, dispatch, flush, events, retries, space release |
| `FlbDelivery` | the abstract specification: a ledger of routes, settled once |
| `MCFlbEngine` | the small instances TLC checks |
| `FlbEngineProofs` | the inductive invariant of `FlbEngine` and its proof |
| `FlbEngineTaskProofs` | the singleplex queue, the retry budget and forgotten tasks, on top of it |
| `FlbDeliveryProofs` | `FlbEngine` implements `FlbDelivery` |
| `FlbScheduler` | the retry requests of the scheduler: lists, timers, frames, time |
| `MCFlbScheduler` | the scheduler for TLC, with the symmetry of its names |
| `FlbSchedulerProofs` | the two inductive invariants of `FlbScheduler` and their proofs |
| `FlbRingBuffer` | the ring between a threaded input and the engine, its signal and its clean-up |
| `FlbFifo` | the abstract specification of the ring: a bounded queue |
| `FlbRingBufferProofs` | the ring implements the queue, for any capacity and pointer size |
| `FlbFlowControl` | limits, pause and resume of inputs and of the senders of an emitter |
| `MCFlbFlowControl` | its instances |
| `FlbFlowControlProofs` | what plugins are told agrees with the limits, and what the limits hold |
| `FlbStorage` | chunk files, the space of outputs, its release, the backlog, crash and restart |
| `MCFlbStorage` | its instances |
| `FlbStorageProofs` | the inductive invariant of `FlbStorage` and its proof |
| `FlbUpstream` | connections of an upstream and the coroutines that use them |
| `FlbUpstreamProofs` | the inductive invariant of `FlbUpstream` and its proof |

The modules meet at these points: `FlbEngine` sees a count of requests per retry where
`FlbScheduler` has requests with a place and a time; `FlbFlowControl` sees records in a
ring where `FlbRingBuffer` has bytes and indexes; `FlbEngine` may release any chunk of an
output with a limit where `FlbStorage` says which and when; `FlbEngine` lets a flush
return at any time where `FlbUpstream` has the waiting inside it.

### FlbEngine

A chunk and its task share a name, since a chunk has at most one task at a time. The
name of a destroyed chunk may be ingested again and then stands for a new chunk, so
slots, ids and queues are reused without bound while the model stays finite.

| Variable | Code |
|---|---|
| `chunk`, `up`, `mask` | `ic->busy` and existence, `cio_chunk_is_up`, `ic->routes_mask` |
| `task_map`, `tid`, `status`, `users`, `route` | `config->task_map`, `task->id`, `->status`, `->users`, `route->status` |
| `attempts`, `request` | `retry->attempts` (0: no retry), number of scheduler requests whose `data` is that retry |
| `flush` | where the flush of a chunk through an output is: queued, in a pipe, in the plugin, returned, lost |
| `pending`, `in_progress` | the two lists of `singleplex_queue` |
| `proc`, `dropped` | `cmt_proc_records`, `cmt_dropped_records`, per chunk |
| `tries` | how often the plugin's callback was called (observer) |
| `pc`, `cont`, `inp`, `seen`, `cur`, `out`, `rts`, `hits`, `nretry` | program counter and locals of the engine thread |

Actions follow the functions of the code. `DispatchBegin`, `Create*`, `StartBegin`,
`Visit*`, `Route*`, `TaskStarted` and `DispatchEnd` are `flb_engine_dispatch` and
`tasks_start`, cut at each call so that workers interleave inside them. `FlushOne` and
`FlushOneFails` are the singleplex loop. `FlushStart`, `FlushSkipped`, `FlushDropped`,
`FlushLost` and `FlushReturn` are the coroutine and the worker. `TakeEvent` and
`Handle*` are `handle_output_event`. `Retry*` are the fired request with
`flb_engine_dispatch_retry`. `Ingest` and `Release*` are the chunk layer as far as it
touches tasks. Everything an engine handler does between two points where another
thread can see the difference is one step.

What is abstracted:

* Lists that the code walks in creation order are walked in any order (a superset of
  the code's behaviours). The singleplex queue and the task ids keep their order.
* Records, tags and sizes. Whether an output is over its limit, whether memory is over
  the limit, whether processors leave records and what the plugin returns are
  nondeterministic choices.
* Time. A request may fire at any moment after it was made.
* Routes of direct connections are allocated with `flb_malloc` and their status is
  never written (`flb_task.c:422`), so the model gives them any status.
* The failures in `Faults` can happen at any call of their kind: `task_alloc` (task
  creation; when the event chunk fails, `flb_task.c:389`, the task is freed and its slot
  stays taken for good, the value `Freed` of `task_map`), `flush_create` (coroutine), `sched` (scheduler request), `retry_alloc`
  (retry context), `content` (reading the chunk for a retry).

Left out of the modelled functions: outputs in test mode (`test_run_formatter`),
chunks with an unreadable tag, failure to write into a pipe, failure to allocate the
queue entry of a synchronous output, and failure to allocate one of several routes.

### FlbDelivery

For every chunk a ledger: each route is `due`, then `proc` or `drop`, once; a chunk is
discarded only when no route is due. The refinement mapping reads the ledger off the
metrics counters of the outputs, so a chunk counted twice, or discarded while an
output still owes it an answer, is not a step of the abstract specification.

### FlbScheduler

What `FlbEngine` sees as a count of requests per retry is here a request with a place
and a time.

| Variable | Code |
|---|---|
| `list` | whether a request is in `sched->requests`, in `sched->requests_wait` or in neither |
| `timer`, `left` | the `flb_sched_timer` of the request: not allocated, active or in `timers_drop`; seconds of its timeout that are left, or no timeout |
| `data`, `togo` | `request->data`; `created + timeout - time(NULL)` |
| `ready` | timers whose event is in the bucket queue of the event loop |
| `frame`, `phase` | the frame timer: armed, expired or in the queue; its position |
| `turn` | which of the two clocks begins its next second first |
| `retry` | whether the retry exists, and whether it waits for a request or is in the engine's hands |

`Schedule*`, `RetryDestroy` and `RetryNow*` are the calls of the engine; `Poll`,
`Unserved*` and `Cleanup` the event loop around the handlers; `Fire*` the handler of a
request with the three outcomes of `flb_engine_dispatch_retry`; `FramePromotes` the
frame timer; `WallTick` and `MonoTick` the two clocks. Everything runs on the engine
thread, so a handler is one step.

The wait of a new request is any member of `Waits`: the random back-off is not modelled. A timer of the code is set to a whole second of the monotonic clock, the
request is dated in whole seconds of the wall clock; the model counts both and lets
them begin at different instants, which is where the one second of `NotEarly` comes
from. Steps of the wall clock (an administrator or NTP) are not modelled. The fields of
a freed request are reset, since nothing may read them. `Faults` selects the calls that
may fail: allocation of the timer (`alloc`), of the request (`request_alloc`, which
leaks the timer), creation of the timeout (`timeout_create`), `flb_sched_retry_now`
(`retry_now`).

### FlbRingBuffer and FlbFifo

`lwrb.c`, `flb_ring_buffer.c`, `append_to_ring_buffer`,
`flb_input_chunk_ring_buffer_collector` and the clean-up at exit. A step is one access
to what the two threads share: `WriteBegin`, `LwrbWrite`, `LwrbStore`, `WriteEnd` and
`WritePipe` in the input's thread, the loads of `lwrb_read`, the collector, the pipe and
its timer in the engine's. Byte `k` of the pointer to record `n` is `<<n, k>>`, so a torn
pointer is no record. `lwrb_t` has neither atomics nor barriers (`lwrb.c:164`): with
`Ordered` the accesses of a thread take effect in program order, as on x86; without it
`ReadIntact` fails, and every result below except `RingSignals` assumes it.
The refinement maps the numbers of records written and read to the two counters of
`FlbFifo`.

### FlbFlowControl

| Variable | Code |
|---|---|
| `chunks` | `in->chunks`, oldest first: size, up or down, with a task or without |
| `mem_chunks_size`, `mem_buf_status`, `storage_buf_status` | the fields of the instance |
| `running`, `chan` | whether the plugin's collectors run; messages to the input's thread |
| `ring`, `senders` | records on their way through the ring or the emitter; `i_ins_list` |
| `releasing` | the input whose append has destroyed chunks to make room and is not over yet |
| `stranded` | history: inputs that such a release left paused and without a chunk |

Appends check and set limits before and after the write (`input_chunk_append_raw`,
`flb_input_chunk_protect`, `flb_input_chunk_set_limits`), `memrb` inputs make room for
themselves, `TaskEnds` and `Flush` are the engine's side, `StopIngestion` is
`flb_engine_stop_ingestion`, `ThreadTold` the thread that reads its pipe.

An append to files may find an output over its `total_limit_size` and destroy chunks of
all inputs that are routed to it (`flb_input_chunk_place_new_chunk`,
`flb_input_chunk_release_space_compound`). `Sharing` are the inputs that match such an
output; `Release(i, j, k)` is one chunk of `j` that the append of `i` destroys, for the
last of its routes and through `flb_task_destroy` or `flb_input_chunk_destroy`, of which
only the first looks at the limits of `j`. Which chunks, and how many, is left open here
and is the subject of `FlbStorage`. The append goes on after its releases (`releasing`) and
no other handler of the engine's thread comes between; input threads may. It may then be
refused, or write.

Not modelled: appends whose write fails, inputs that are not routable, and an emitter in
its own thread. The bytes in use and the mapped files are cardinalities
of sets of (chunk, byte) and (input, chunk) pairs (`Mapped`, `UpBytes`, `TotalUp`), and the
chunks a release keeps are enumerated by `InOrder`: no definition is recursive, so that all
of them can be reasoned about. `MaxChan` holds back appends only, so the number of
messages in a pipe is not limited by it.

### FlbStorage

An append is cut into steps (find or create a chunk, look for outputs that lack space,
release, write), so that the three loops of
`flb_input_chunk_release_space_compound` can be followed chunk by chunk and a crash can
come between them. `fs` and `bl` are the two counters of an output, kept apart by
chunk; `queue` the backlog queues of `sb.c`; `last` the table of the chunk to append to.
`Restart` is a crash or stop at any point with the segregation of the next start. Files
grow by allocation units, are trimmed when they go down, and can be found corrupted.

`DelBad` is `storage.delete_irrecoverable_chunks`. `Faults` selects what may fail: loading
a file that is down (`load`) and creating a chunk (`create`). A file that cannot be loaded
but is not corrupted keeps its chunk and the append takes a new one (`AppendCreate`). A
corrupted one is closed, and the append takes a new chunk (`AppendCorrupted`) or fails to
create one (`AppendLost`). In two cases a chunk is freed and its entry stays in `last`, as
the value `Freed`: `AppendLost` without `DelBad` (`flb_input_chunk.c:1022`, `1242`), and the
destruction of a file that is down and cannot be loaded, whose tag is not known
(`flb_input_chunk.c:1111-1127`). A lookup that meets `Freed` reads freed memory: it finds
some other chunk that is listed, or something that looks locked, so that a chunk is created
and replaces the entry (`Found`). Other effects of that read are not followed.

`drifted` is the history of chunks that a failed write left empty and that were released
or trimmed afterwards: the code subtracts a size it never added
(`flb_input_chunk.c:191`). `FsExact` is about all others, and drifted names are not used
again. An empty chunk left by a failed write is locked by its first flush and stays until
it is released or the process restarts.

Left out: the order of lists (sets, walked in any order); failing writes to memory chunks;
deletion of bad files at the start; the retry
loop of `cb_queue_chunks` on `CIO_ERROR` and `CIO_RETRY`; `sb_segregate_chunks` failing
half way and its second call at shutdown; the memory limit of the loader; the `int` that
holds the outputs over their limit (more than 31 outputs shift out of it).

### FlbUpstream

| Variable | Code |
|---|---|
| `queue` | which list of `flb_upstream_queue` has the connection |
| `open`, `event`, `ready` | `fd`, what is registered for it, `_priority_head` linked into the loop's queue |
| `waiter`, `saved` | `connection->coroutine`, the `event_backup` of a read or write |
| `error`, `busy`, `down`, `armed` | `net_error`, `busy_flag`, `shutdown_flag`, the timeout that is set |
| `at`, `conn` | where a coroutine is (looking up, connecting, holding, in input or output) |

All of it is one thread; a step ends where a coroutine yields or the loop takes the next
event. `Get*` is `flb_upstream_conn_get`, `LookedUp` and `ConnectResumes` the connect,
`Io*` the asynchronous reads and writes with the registration they save and restore,
`Release*` the release; `Report`, `Unserved`, `cb_upstream_conn_ka_dropped`,
`flb_upstream_conn_timeouts` and `flb_upstream_conn_pending_destroy` are the loop. A
held connection may sit through any number of rounds, so a keepalive event that is
still registered can close it under its coroutine.

Left out: the gauges of connections, `flb_upstream_destroy` and the destruction of active
connections at exit, synchronous mode (which never yields), the TLS session itself (its
yields are those of connect, read and write), the resolver's contexts, downstream
connections and HA.

## 3. Runs

| Run | Instance | Checks | Result |
|---|---|---|---|
| `engine_faults` | 2 file chunks, `max_chunks_up` 1, all failures, a synchronous output without retry limit, a threaded NO_MULTIPLEX one | `UsersExact`, `RetryExclusive`, `SynchronousOneTask`, `RetryBudget` | holds |
| `engine_release` | a backlog chunk, a ring buffer chunk and a file nobody handles, one task id, both outputs with a space limit, a direct connection | `MappedWhileUsed`, `EventFindsItsTask`, `FlushingRouteIsActive` | holds |
| `engine_live` | 2 file chunks, retry limits 1 and 0, fairness | `QueueNeverStalls`, `NoOrphanTask`, `ImplementsDelivery`, `EveryChunkEnds` | holds |
| `sched_faults` | 2 retries, 2 requests, frame 2, waits 1, 2, 3 and 5, all failures, handlers late by any amount, fairness | `TypeOK`, `OneRequest`, `QueuedIsLive`, `NotEarly`, `RequestEnds` | holds |
| `sched_time` | 3 retries, 4 requests, frame 3, waits 1 to 8, a punctual engine, no failures | `OnTime` | holds |
| `ring_core` | 2 slots of 3 bytes in a ring of 7, 8 records, pauses and exit, fairness | `PendingIsAnswered`, `NothingLeftInRing`, `RefinesFifo`, `AllCollected`, `AppendReturns` | holds |
| `flow_files` | a memory ring buffer and two file inputs that share one mapped file and an output with a limit, one of them threaded | `TypeOK`, `RunningMayAppend`, `StoppedIsPaused`, `PausedHasChunk`, `MemLimitHeld` | holds |
| `flow_live` | a threaded memory input that sends to an emitter, and a file input whose appends release chunks of both, fairness | `PausedForALimit`, `PausedIsResumed` | holds |
| `flow_memrb` | a memory input and a memory ring buffer | `MemrbCanRelease` | violated |
| `storage_faults` | 3 chunks of a file input, a memory input and the backlog, 2 limited outputs, failing writes, corrupted files, files that cannot be loaded or created, one crash | `FsExact`, `QueueExact`, `IncomingSurvives`, `UsedSurvives`, `TableLive` | holds |
| `storage_limit` | 3 files, one output with a limit of 4 | `LimitHeld` | violated |
| `upstream_faults` | 2 coroutines, 2 connections, both the limit; both timeouts, keepalive, fairness | `NoDangling`, `AvailableIsUsable`, `WaiterIsReached`, `NothingLost`, `WaitEnds`, `Reclaimed` | holds |

What each property says is stated where it is defined, at the end of its module.

**Bounds.** *Engine.* Two chunks are the fewest that compete for a queue, for a slot of
`max_chunks_up` and for a task id; three chunks share one id in `engine_release` (the
code's map has 2048 slots and grows to 16384). Two outputs are the fewest for a task with
two users, and the pair always has a flush on a worker beside the engine thread. A retry
limit of 1 gives a first retry, a second refusal and the boundary between; `AttemptCap`
only bounds the counter of an output without limit. Names are reused after destruction,
so executions are unbounded. *Scheduler.* Waits below, at and just above one and two
frames; `sched_time` has more requests than retries, which are interchangeable there.
*Ring.* Seven bytes for pointers of three: every split of a pointer at the end of the
ring happens; eight records go around it more than three times. *Flow.* Two chunks of
one or two units around limits of 1 and 2 (appends of two sizes, limits of 3, in
`flow_memrb`), one mapped file for two inputs. *Storage.* Three chunks let one be
written, one flushed and one queued at the same time; a size of 2 fills a chunk; names
that drifted run out, which ends some executions. *Upstream.* Two coroutines for two
connections: one can be refused, wait, or take over what the other released. The safety
results do not depend on these numbers where section 4 proves them.

Passing runs without deadlock check: `engine_faults` (a flush that a worker has lost, or a
retry destroyed after a failed read, leaves the task for ever: `flb_output_thread.c:311`,
`flb_engine_dispatch.c:71`), `ring_core` (all records are through, or the exit), the flow
runs (the ingestion is stopped) and `storage_faults` (all names have drifted).

**Fairness.** *Engine* (`FairSpec`): weak fairness of the engine thread inside a handler,
since no handler blocks; strong fairness of each flush stage, of each request and of the
dispatch of each input: the flush timer is periodic, and a pipe with data and an expired
timer stay readable, so an event that is not handled is reported again. The loop takes
events by priority, at most `FLB_ENGINE_LOOP_MAX_ITER` in a round, and does not handle the
one it takes last (`flb_event_loop.h:87`); what is assumed is that this is not the same
one for ever. A plugin that never returns keeps its task, in the code as in the model, so
`FlushReturn` is assumed. `engine_live` gives every chunk a slot and a task id: under
contention a retry can find `max_chunks_up` reached each time it fires, and nothing in the
code prevents that. *Scheduler*: time passes, a request that is expired again and again is
served, and a promotion does not fail for ever. *Ring* (`LiveSpec`): both threads run, the
timer of the collector is periodic, and an input that was paused is resumed at some time.
*Flow* (`LiveSpec`): an append that released chunks comes to its end, tasks end, threads
read their pipes, and chunks are dispatched: the flush timer is periodic and served between
other handlers, so a chunk in memory is (strong fairness), while a file is only if it can be
mapped for long enough (weak fairness).
*Upstream* (`FairSpec`): a lookup has a timeout of its own, a socket that was shut down is
reported by the kernel, the timer of the timeouts is periodic, and a plugin gives a
connection back once its socket is closed (`Reclaimed` needs that, `WaitEnds` does not).

**Findings.**

1. `flow_memrb`: a memory ring buffer that cannot make enough room destroys what it has
   and returns without counting its bytes again (`flb_input_chunk.c:1586`); it then takes
   itself to be over its limit with no chunk left, and refuses every later append. The
   comment at `flb_input_chunk.c:1388` says that the next try will release some bytes.
2. `storage_limit`: `flb_input_chunk_release_space_compound` asks for as much room as the
   chunk takes now, not for the data that is to be written, so an append takes an output
   over its `total_limit_size`; `flb_output.h:486` says that it cannot.

**Differences met while modelling, not kept as runs.**

* `flb_output.h:83` says of `FLB_OUTPUT_NO_MULTIPLEX` "run one task at a time"; a fired
  retry is flushed without any check, and a route that is passed over while another route
  of its task is started is never started (`flb_engine_dispatch.c:195`), which breaks the
  refinement for such outputs. No plugin of the tree sets the flag.
* The counter of dropped records (`flb_output.c:1282`) also counts records an output has
  delivered, when the chunk is released while another output retries it
  (`flb_input_chunk.c:212`).
* `flb_scheduler.h:101-108` speaks of retries within 60 seconds; the frame is 10.
* `flb_input.h:305` says that a resume is triggered "when the buffer size goes down
  (because data was flushed)".
  `flb_input_chunk_set_limits` is called when a task of the input ends (`flb_task.c:513`)
  and by its own appends (`flb_input_chunk.c:1760`, `1795`). When an append of another
  input destroys chunks without a task to make room in an output
  (`flb_input_chunk.c:461-479`, `242`), it is not called: a paused input that loses its
  last chunk in this way has no task and no appends, and stays paused until the process
  ends. The same happens to a file input when its last chunk waits for a retry and is down:
  its end is looked at, but unmaps nothing, and `max_chunks_up` may still be reached by
  other inputs. `PausedHasChunk` and `PausedIsResumed` except exactly these inputs (`stranded`);
  without the exception TLC finds the release as a counterexample of both.
* The comment at `flb_input_chunk.c:1023` speaks of deleting "any reference to this chunk"
  from the table of tags. A corrupted chunk whose file is kept leaves its entry behind, and
  so does one whose tag cannot be read; `flb_input_chunk_create` overwrites the entry in the
  first case unless it fails. `TableLive` allows these entries (`MayDangle`) and no other.
* A ring that fills from below the window to its end while a signal is pending gets no
  further signal; the timer of the collector (`AllCollected`) covers it.
* An emitter resumes senders that are over a limit of their own (`emitter.c:376`), and a
  sender can be resumed by the end of its own task while the emitter is paused
  (`flb_input_chunk.c:1338`). A sender resumed over its own limit runs although its buffer
  is paused, and when the ingestion stops `flb_input_pause` returns early for it and leaves
  it running; `RunningMayAppend` and `StoppedIsPaused` are therefore checked and proved
  without an emitter.
* The comment at `sb.c:634` says that a chunk which was loaded has to stay in the queues of
  the other outputs; the code takes it out of all of them, which is what `QueueExact`
  needs.
* `prepare_destroy_conn` can run twice for one connection (a timeout or a disconnection
  while it is held, then its release), so the gauge of total connections is decremented
  twice; `flb_upstream_conn_timeouts` decrements the gauge of busy connections, and the
  release does so again.
* `flb_upstream_conn_timeouts` doubts that the path for connections without a registered
  event is ever taken (a comment there); it is, when the timeout is over during the name
  lookup. `flb_network.c:1491` says that the timeout closed the socket; it was only shut
  down, and the release closes it.
* A write whose first part does not block leaves its event registered without a
  coroutine to resume (`flb_io.c:481`); the loop ignores it.

The type invariants of `FlbEngine`, `FlbRingBuffer`, `FlbStorage` and `FlbUpstream`, and
`ReadIntact`, which `RefinesFifo` implies, are proved for every value of the constants and
are not in a run.

Each property of a passing run has a mutant: a small fault in one definition (named
`Mut...` beside it) with which TLC finds the property violated.

## 4. Proofs

### FlbEngineProofs

`FlbEngineProofs` proves, for all finite sets of chunks and outputs, any routes, flags,
limits and failures, under the assumptions named in `FlbEngine`:

| Theorem | States |
|---|---|
| `EngineInvariant` | `Spec => []IInv` |
| `EngineTypeOK` | `Spec => []TypeOK` |
| `EngineUsersExact` | `Spec => []UsersExact` |
| `EngineMappedWhileUsed` | `Spec => []MappedWhileUsed` |
| `EngineEventFindsItsTask` | `Spec => []EventFindsItsTask` |
| `EngineRetryExclusive` | `Spec => []RetryExclusive` |
| `EngineFlushingRouteIsActive` | `Spec => []FlushingRouteIsActive` |

None of the five safety properties is inductive. `IInv` adds what they lean on:

* `TaskInv`: a task exists exactly for a busy chunk, its slot names it, its content is
  mapped while a flush is under way, and a task that is not running has no users or
  retries;
* `RouteInv`: only routes of the task are flushed or retried, and the exclusion of
  request and flush per route;
* `QueueInv`: the pending list of an output holds exactly the chunks queued for it,
  each once;
* `CreateInv`, `StartInv`, `OneInv`, `HandleInv`: what the engine thread knows at each
  value of `pc` (the routes still to be started are idle, the task in hand is running,
  the event in hand has a result).

There is one lemma per action; frame lemmas say which parts an action cannot disturb,
and cardinality lemmas carry `users` across the start and the end of a flush. `IInv`
was checked with TLC on the instances of the runs before it was proved.

### FlbEngineTaskProofs

Four more invariants of `FlbEngine`, each inductive relative to `IInv`:

| Theorem | States | Assumes |
|---|---|---|
| `EngineSynchronousOneTask` | `Spec => []SynchronousOneTask` | |
| `EngineRetryBudget` | `Spec => []RetryBudget` | |
| `EngineQueueNeverStalls` | `Spec => []QueueNeverStalls` | `NoForgettingSync` |
| `EngineNoOrphanTask` | `Spec => []NoOrphanTask` | `HandOverWorks` |

* `SyncInv`: `in_progress` of a synchronous output names exactly the flush that left its
  queue and whose event was not taken yet (`ProgressInv`), and somebody waits only behind
  such a flush or while the queue is being served (`ServedInv`).
* `CountInv`: a flush that waits for its callback has used no more calls than there were
  retries, one that runs has used one more (`BudgetInv`), and the routes that `tasks_start`
  has still before it were never tried (`StartBudget`).
* `NotLost` and `HeldInv`: no flush of a synchronous output is forgotten; a running task
  has users or retries unless the engine is about to start its first route.

The two assumptions are on the failures that may happen, and each is needed: a worker
that cannot create the coroutine drops the task without an event (`NoForgettingSync`:
no worker of a synchronous output does), and the engine forgets a task when the content of
its retry cannot be read or when an output without workers cannot create the coroutine
(`HandOverWorks`). All other failures of `Faults` are allowed.

### FlbDeliveryProofs

`EngineImplementsDelivery`: `Lossless => (Spec => ImplementsDelivery)`, for any chunks,
inputs, outputs and limits of retries. The refinement mapping is the one of the runs (the
counters of processed and dropped records give the entry of the ledger). `LedgerInv` says
which routes are open, that is not started, in flight or waiting for a retry (`Open`); that
an open route was not counted and any other one was counted once (`AccountInv`); that
a chunk keeps its mask and its task has the routes it is destined to (`MaskInv`,
`DestinedInv`); and that `tasks_start` has all of them before it until it starts the first
(`AllToStart`). One lemma per action then shows that a step counts one open route, destroys
a chunk without open routes, or is a stutter of the ledger. `Lossless` excludes what makes
the code give up a chunk without counting it, or count it twice: the failures of
`HandOverWorks` and of the scheduler, outputs with `FLB_OUTPUT_NO_MULTIPLEX`, whose busy
routes `tasks_start` passes over for good, and the release of space. Where they are
possible the abstract promise is not kept.

### FlbSchedulerProofs

For any sets of retries and requests, any frame of at least one second and any waits of
at least one second (`SchedSets`, `SchedTimes`):

| Theorem | States |
|---|---|
| `SchedInvariant` | `Spec => []IInv` |
| `SchedTypeOK` | `Spec => []TypeOK` |
| `SchedOneRequest` | `Spec => []OneRequest` |
| `SchedQueuedIsLive` | `Spec => []QueuedIsLive` |
| `SchedNotEarly` | `Spec => []NotEarly` |
| `SchedOnTime` | `Spec => []OnTime`, if the engine is punctual and nothing fails |

`IInv` adds to the properties that a listed request has its timer and its retry, that
a timeout exists exactly for the near requests (`ListInv`), that a queued event is of
an expired timeout (`ReadyInv`), and that the time of a near request is at most its
timeout, or one second more between a tick of the one clock and the next of the other
(`EarlyInv`). Every handler is shown to end the requests of one retry, to begin one, or
both (`Ends`, `Begins`), so that two lemmas carry the invariant over all of them.
`OnTime` needs the bounds from the other side (`TimeInv`): the timeout of a near request
is not behind its time, and a request that waits has at least as many seconds to go as
the frame timer has until it expires.

### FlbRingBufferProofs

For any capacity, pointer size, window and number of records, with accesses in program
order (`ASSUME Ordered`): `RingTypes`, `RingIntact` (`ReadIntact`), `RingExit`
(`NothingLeftInRing`) and `RingIsFifo` (`Spec => RefinesFifo`, the step simulation of
`FlbFifo`). `RingSignals` (`PendingIsAnswered`) needs no order. `IInv` says that the bytes
between the indexes are those of the records in the ring (`RingInv`), that a write which
was admitted keeps its space because the engine can only add to it (`SpaceInv`), and what
has been copied of the record that is being written and read (`StoreInv`, `LoadInv`). The
arithmetic of positions is in lemmas about `Off` and `At`.

### FlbFlowControlProofs

For any inputs, storage types, limits and sizes: `FlowRunningMayAppend` and
`FlowStoppedIsPaused` without an emitter, `FlowPausedForALimit` with or without one. The
contents of chunks play no part: it is shown that a status and what the plugin is told
change in the same step (`TellTypes`, `ToldPause`, ...), that only threaded inputs have
messages under way and that an input can reach only one of the two limits.

`FlowTypeOK`, `FlowMemLimitHeld` and `FlowPausedHasChunk` hold with or without threads and
emitters, and are about the contents. Their invariant `FlowInv` adds `Counts`: a memory
chunk and a chunk with a task are mapped; `mem_chunks_size` is at least the bytes that are
mapped (it is stale in one direction only), and these are at most one append over the
limit, and below it while the input is not paused; no more than `MaxUp` files are mapped.
`PausedHasChunk` needs the first and the last of them: the chunk whose task ends was
mapped, so that without it fewer than `MaxUp` files are, and an input that loses its last
chunk is resumed, whichever inputs the other files belong to. A release by another
input's append is the exception (`stranded`): without a task nobody looks at the input, and
a file that waits for a retry may be down, so that its end unmaps nothing. No other step
adds to `stranded`. Bytes and
files are sets, so an append, a release or the end of a task adds or removes a set, and the
lemmas (`MappedSplit`, `FilesMore`, `KeptBytes`, `RemoveAtFrom`, ...) follow from the
theorems on cardinality. The chunks a `memrb` release keeps are taken in ascending order;
that such an enumeration exists (`InOrderExists`) is shown by a smallest counterexample,
with the well-foundedness of `<`. There is one `...Counts` lemma per action.

### FlbStorageProofs

For any chunks, inputs, outputs (with or without a limit), routes and sizes:
`StorageTypes`, `StorageCountersExact` (`FsExact`), `StorageQueueExact`,
`StorageIncomingSurvives`, `StorageUsedSurvives`, `StorageTableLive` (where neither loads
nor, with files kept, creations fail, no entry of a table is ever of a destroyed chunk;
where they do, an entry is of freed memory or of a chunk with that tag). The properties
support each other: the counters are exact because a chunk that is destroyed is in one
list only, which needs the queues; the chunk of an append survives because it has no task
and is not looked at by the loops. `IInv` adds `Fields` (a free name has nothing set, data
on a limited route is counted, a chunk with a task or of the backlog is locked, so that not
even a dangling entry leads an append to it) and `Walk` (what a release loop
still has to look at is in its list). It is split into a part about chunks and a part
about the append, and the effects that several actions share are lemmas of their own
(`DestroyKeeps`, `CreateKeeps`, `UnqueueKeeps`, `UpdateShares`).

### FlbUpstreamProofs

For any connections and coroutines, with or without keepalive, limit and timeouts
(`UpstreamConfig`): `UpstreamTypes`, `UpstreamNoDangling`, `UpstreamAvailable`,
`UpstreamWaiters`, `UpstreamNothingLost`. `IInv` adds that a connection somebody has is
busy (`HeldIsBusy`), that what is in the destroy queue has no socket, event or coroutine
(`Closed`), that only registered events are queued (`Registered`), that a connection
resumes only who waits for it (`WaiterWaits`), and what is known before a wait begins
(`Armed`, `LookupGoesOn`). `NoDangling` then follows for the one step that frees: the busy
flag keeps what is held, and `Closed` covers the rest. There is one lemma per action with
one step per conjunct; the four ways a connect goes on are lemmas that the three actions
of the connect share.

### Only model-checked

The liveness properties (`EveryChunkEnds`, `RequestEnds`, `AllCollected`, `AppendReturns`,
`PausedIsResumed`, `WaitEnds`, `Reclaimed`), since liveness under fairness is out of the
prover's reach. Every invariant and every step property of the runs is proved.

## 5. Not modelled

Record formats, parsers, filters, processors' transformations, encoders, plugins, HTTP and
TLS, record accessors, stream processor: data transformation without shared state of the
core. The router: its result is a constant of the models. Start-up, shutdown with its
grace period, hot reload and the supervisor. What is left out of the modelled functions is
listed with each module in section 2.

## 6. Plan

1. `FlbShutdown`: stop, ingestion stop, re-scheduling of retries, grace timer, end, and
   the destruction of workers and connections at exit.
2. The rest of the scheduler: the back-off (`random_uniform`, `backoff_full_jitter`)
   against its bounds, callback timers and timer coroutines.
3. Downstream connections of inputs, which share the connection layer with `FlbUpstream`.
4. Proofs: the refinement of `FlbDelivery` with the release of space as a step of the
   abstract specification; the invariants of the modules above.
