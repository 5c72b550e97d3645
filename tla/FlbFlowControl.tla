--------------------------- MODULE FlbFlowControl ---------------------------
(***************************************************************************)
(* When an input may append: the limits of its buffers, and the pause and  *)
(* resume callbacks that follow them.  The engine's thread appends, ends   *)
(* tasks and stops the ingestion; each of its handlers is one step, except *)
(* an append that first releases chunks of any input to make room in an    *)
(* output (FlbStorage), which takes a step for each of them.  The plugin   *)
(* of a threaded input runs in a thread of its own, which the engine tells *)
(* to pause or to resume through a pipe and which hands its records over   *)
(* through a ring buffer (FlbRingBuffer).                                  *)
(*                                                                         *)
(* One input may be an emitter, the input through which a rewrite_tag      *)
(* filter ingests records of other inputs again.  It pauses and resumes    *)
(* its senders together with itself.                                       *)
(***************************************************************************)
EXTENDS Integers, FiniteSets, SequencesExt

CONSTANTS
  Inputs,
  Kind,       \* storage type: "mem", "memrb" or "fs"
  Threaded,   \* inputs that run in their own thread
  PauseOnUp,  \* inputs with storage.pause_on_chunks_overlimit
  Sharing,    \* inputs that match one output with a total_limit_size
  Em,         \* the emitter, or None
  Limit,      \* mem_buf_limit of each input, 0 for none
  MaxUp,      \* storage.max_chunks_up
  Sizes,      \* sizes of what is appended at once
  MaxChunks,  \* bound of the chunks of an input
  MaxSize,    \* bound of the size of a chunk
  MaxRing,    \* bound of the records in a ring or inside the emitter
  MaxChan,    \* messages in the pipe to a thread that stop the appends
  None

ASSUME FlowInputs ==
  /\ IsFiniteSet(Inputs) /\ Kind \in [Inputs -> {"mem", "memrb", "fs"}]
  /\ Threaded \subseteq Inputs /\ PauseOnUp \subseteq Inputs /\ Sharing \subseteq Inputs
  /\ Em \in (Inputs \ Threaded) \cup {None} /\ None \notin Inputs
  /\ Limit \in [Inputs -> Nat]
ASSUME FlowBounds ==
  /\ MaxUp \in Nat /\ Sizes \subseteq Nat \ {0} /\ Sizes # {}
  /\ MaxChunks \in Nat /\ MaxSize \in Nat /\ MaxRing \in Nat /\ MaxChan \in Nat

VARIABLES
  chunks,              \* in->chunks, the oldest first
  mem_chunks_size,     \* the number of bytes in use, as the input keeps it
  mem_buf_status, storage_buf_status,
  running,             \* whether the collectors of the plugin run
  chan,                \* messages in the pipe to the input's thread
  ring,                \* records in the ring buffer, or inside the emitter
  senders,             \* i_ins_list of the emitter
  is_ingestion_active,
  releasing,           \* the input whose append has released chunks, or None
  stranded             \* history: inputs that a release left paused without a chunk

status == <<mem_buf_status, storage_buf_status>>
told == <<running, chan>>
room == <<releasing, stranded>>
vars == <<chunks, mem_chunks_size, status, told, ring, senders, is_ingestion_active, room>>

\* A chunk has no task, a task some output is flushing, or a task that only
\* has retries (no users).
Tasks == {"none", "users", "idle"}
Chunk == [size : Nat, task : Tasks, up : BOOLEAN]

-----------------------------------------------------------------------------
(* Limits.                                                                 *)

flb_input_buf_paused(i) ==
  mem_buf_status[i] = "paused" \/ storage_buf_status[i] = "paused"

\* The bytes of the chunks K of s that are mapped, and how many bytes of s are
\* (cio_stream_size_chunks_up).
Mapped(s, K) == UNION {{k} \X (1..s[k].size) : k \in {l \in K : s[l].up}}
UpBytes(s) == Cardinality(Mapped(s, DOMAIN s))

\* total_chunks_up counts the files that are mapped.
UpFiles(cs) ==
  UNION {{i} \X {k \in DOMAIN cs[i] : cs[i][k].up} : i \in {j \in Inputs : Kind[j] = "fs"}}
TotalUp(cs) == Cardinality(UpFiles(cs))

MutMemOverlimit(i, bytes) == Limit[i] > 0 /\ bytes > Limit[i]
is_mem_overlimit(i, bytes) == Limit[i] > 0 /\ bytes >= Limit[i]
is_storage_overlimit(i, cs) ==
  Kind[i] = "fs" /\ i \in PauseOnUp /\ TotalUp(cs) >= MaxUp

-----------------------------------------------------------------------------
(* Pause and resume.                                                       *)

\* Whose plugins flb_input_pause(i) tells to pause: nobody's if i is already
\* paused; cb_emitter_pause passes the call on to the senders.
Pauses(i) ==
  LET called == IF i = Em THEN {i} \cup senders ELSE {i}
  IN  IF flb_input_buf_paused(i) THEN {}
      ELSE {j \in called : ~flb_input_buf_paused(j)}

\* Whose plugins flb_input_resume(i) tells to resume.
MutResumes(i) == {i}
Resumes(i) == IF i = Em THEN {i} \cup senders ELSE {i}

\* The plugins in P are told to pause, the ones in R to resume: by their
\* callback, or by a message to their thread.  flb_input_collector_resume does
\* nothing once the ingestion was stopped.
Tell(P, R) ==
  /\ running' = [i \in Inputs |->
       IF i \in Threaded THEN running[i]
       ELSE /\ i \notin P
            /\ running[i] \/ (i \in R /\ is_ingestion_active)]
  /\ chan' = [i \in Inputs |->
       IF i \in Threaded \cap P THEN Append(chan[i], "pause")
       ELSE IF i \in Threaded \cap R THEN Append(chan[i], "resume") ELSE chan[i]]

\* flb_input_chunk_set_limits, with the chunks cs: which of the two limits the
\* input has left.
LeavesMem(i, cs) ==
  /\ ~is_mem_overlimit(i, UpBytes(cs[i]))
  /\ is_ingestion_active /\ mem_buf_status[i] = "paused"
MutLeavesStorage(i, cs) == ~is_storage_overlimit(i, cs) /\ storage_buf_status[i] = "paused"
LeavesStorage(i, cs) ==
  /\ ~is_storage_overlimit(i, cs)
  /\ is_ingestion_active /\ storage_buf_status[i] = "paused"
set_limits(i, cs) ==
  /\ mem_chunks_size' = [mem_chunks_size EXCEPT ![i] = UpBytes(cs[i])]
  /\ mem_buf_status' = [mem_buf_status EXCEPT ![i] =
                          IF LeavesMem(i, cs) THEN "running" ELSE @]
  /\ storage_buf_status' = [storage_buf_status EXCEPT ![i] =
                              IF LeavesStorage(i, cs) THEN "running" ELSE @]
  /\ Tell({}, IF LeavesMem(i, cs) \/ LeavesStorage(i, cs) THEN Resumes(i) ELSE {})

\* flb_input_chunk_protect, with the chunks cs: which limit the input reached.
HitsStorage(i, cs) == is_storage_overlimit(i, cs)
HitsMem(i, cs) == Kind[i] = "mem" /\ is_mem_overlimit(i, UpBytes(cs[i]))
\* (The mutant sets the status first, so that flb_input_pause returns early.)
MutProtectPauses(i, cs) == {}
ProtectPauses(i, cs) ==
  IF HitsStorage(i, cs) \/ HitsMem(i, cs) THEN Pauses(i) ELSE {}

-----------------------------------------------------------------------------
(* input_chunk_append_raw.                                                 *)

\* memrb_input_chunk_release_space: of the chunks s those without users are
\* destroyed, the oldest first, until n bytes are released.
Deletable(c) == c.task # "users"
Released(s, k) == {j \in 1..k : Deletable(s[j])}
\* The numbers of K in ascending order, and what is left of s.
InOrder(K) ==
  CHOOSE f \in [1..Cardinality(K) -> K] : \A x, y \in DOMAIN f : x < y => f[x] < f[y]
Kept(s, k) ==
  LET f == InOrder(DOMAIN s \ Released(s, k)) IN [x \in DOMAIN f |-> s[f[x]]]
Enough(s, n) == {k \in 1..Len(s) : Cardinality(Mapped(s, Released(s, k))) >= n}
LastReleased(s, n) ==
  IF Enough(s, n) = {} THEN Len(s)
  ELSE CHOOSE k \in Enough(s, n) : \A j \in Enough(s, n) : k <= j
\* flb_task_destroy counts the bytes again; flb_input_chunk_destroy does not.
CountedAfter(i, s, k) ==
  LET idle == {j \in 1..k : s[j].task = "idle"}
  IN  IF idle = {} THEN mem_chunks_size[i]
      ELSE UpBytes(Kept(s, CHOOSE j \in idle : \A l \in idle : l <= j))

\* The memory ring buffer is over its limit and cannot make room.
AppendNoRoom(i, n) ==
  /\ Kind[i] = "memrb" /\ is_mem_overlimit(i, mem_chunks_size[i])
  /\ Enough(chunks[i], n) = {}
  /\ chunks' = [chunks EXCEPT ![i] = Kept(@, Len(@))]
  /\ mem_chunks_size' = [mem_chunks_size EXCEPT ![i] = CountedAfter(i, chunks[i], Len(chunks[i]))]
  /\ UNCHANGED <<status, told, senders, is_ingestion_active>>

\* The chunks of i that the head of the function leaves.
Room(i, n) ==
  IF Kind[i] = "memrb" /\ is_mem_overlimit(i, mem_chunks_size[i])
    THEN Kept(chunks[i], LastReleased(chunks[i], n)) ELSE chunks[i]
HasRoom(i, n) ==
  Kind[i] = "memrb" /\ is_mem_overlimit(i, mem_chunks_size[i]) =>
    Enough(chunks[i], n) # {}

\* flb_input_chunk_place_new_chunk: an append to files may find an output of
\* theirs over its total_limit_size.
Placed(i) == Kind[i] = "fs" /\ i \in Sharing

\* The input is paused, or not enough could be released: the records are refused.
AppendRefused(i, n) ==
  /\ HasRoom(i, n) /\ (flb_input_buf_paused(i) \/ Placed(i))
  /\ UNCHANGED <<chunks, mem_chunks_size, status, told, senders, is_ingestion_active>>

\* Chunks after n bytes were written to chunk k of s, or to a new one.  A new
\* file is mapped as long as max_chunks_up allows; one that is not is mapped
\* only for the write; the file was created before chunks were released.
Write(s, k, n) == [s EXCEPT ![k].size = @ + n]
NewChunks(i, n) ==
  {c \in [size : {n}, task : {"none"}, up : BOOLEAN] :
     IF c.up THEN Kind[i] = "fs" => TotalUp(chunks) < MaxUp
     ELSE Kind[i] = "fs" /\ (TotalUp(chunks) >= MaxUp \/ releasing = i)}
Targets(i, s, n) ==
  {Append(s, c) : c \in NewChunks(i, n)} \cup
  {Write(s, k, n) : k \in {l \in 1..Len(s) : s[l].task = "none"}}

\* A file may be put down when the input is over its memory limit and the
\* chunk is nearly full.
MayGoDown(i, s) ==
  {s} \cup IF Kind[i] = "fs" /\ is_mem_overlimit(i, UpBytes(s))
             THEN {[s EXCEPT ![k].up = FALSE] : k \in {l \in 1..Len(s) : s[l].task = "none"}}
             ELSE {}

\* in_emitter_add_record: the first record of i makes it a sender, which is
\* paused when the emitter is.  A paused emitter takes no records.
EmitPauses(i) ==
  IF i \notin senders /\ flb_input_buf_paused(Em) THEN Pauses(i) ELSE {}
Emit(i, rg) ==
  /\ senders' = senders \cup {i}
  /\ ring' = [rg EXCEPT ![Em] = IF flb_input_buf_paused(Em) THEN @ ELSE @ + 1]

\* The filters took every record, and the new chunk is destroyed again.
AppendFiltered(i, n, P) ==
  /\ HasRoom(i, n) /\ ~flb_input_buf_paused(i)
  /\ chunks' = [chunks EXCEPT ![i] = Room(i, n)]
  /\ mem_chunks_size' = [mem_chunks_size EXCEPT ![i] = UpBytes(chunks'[i])]
  /\ Tell(P, {})
  /\ UNCHANGED <<status, is_ingestion_active>>

\* The records are written, and the limits checked.
AppendWritten(i, n, P) ==
  /\ HasRoom(i, n) /\ ~flb_input_buf_paused(i)
  /\ \A j \in Inputs : Len(chan[j]) < MaxChan
  /\ \E s \in Targets(i, Room(i, n), n) : \E t \in MayGoDown(i, s) :
       /\ Len(t) <= MaxChunks /\ \A k \in DOMAIN t : t[k].size <= MaxSize
       /\ chunks' = [chunks EXCEPT ![i] = t]
       /\ mem_chunks_size' = [mem_chunks_size EXCEPT ![i] = UpBytes(s)]
  /\ storage_buf_status' = [storage_buf_status EXCEPT ![i] =
                              IF HitsStorage(i, chunks') THEN "paused" ELSE @]
  /\ mem_buf_status' = [mem_buf_status EXCEPT ![i] =
                          IF HitsMem(i, chunks') THEN "paused" ELSE @]
  /\ Tell(P \cup ProtectPauses(i, chunks'), {})
  /\ UNCHANGED is_ingestion_active

\* rg is the ring as the caller leaves it.  A record that a rewrite_tag filter
\* emits with another tag is kept under its own tag or not.
AppendRaw(i, rg) ==
  /\ \E n \in Sizes :
       \/ (AppendNoRoom(i, n) \/ AppendRefused(i, n)) /\ ring' = rg
       \/ /\ AppendFiltered(i, n, {}) \/ AppendWritten(i, n, {})
          /\ ring' = rg /\ UNCHANGED senders
       \/ /\ Em # None /\ i # Em /\ rg[Em] < MaxRing
          /\ AppendFiltered(i, n, EmitPauses(i)) \/ AppendWritten(i, n, EmitPauses(i))
          /\ Emit(i, rg)
  /\ releasing \in {i, None} /\ releasing' = None
  /\ UNCHANGED stranded

-----------------------------------------------------------------------------
(* Who appends.                                                            *)

\* The collector of an input that runs in the engine's thread.
Collects(i) == i \notin Threaded \cup {Em} /\ running[i]
Collect(i) == Collects(i) /\ AppendRaw(i, ring)

\* The thread of an input puts a record into the ring.
CollectThread(i) ==
  /\ i \in Threaded /\ running[i] /\ ring[i] < MaxRing
  /\ ring' = [ring EXCEPT ![i] = @ + 1]
  /\ UNCHANGED <<chunks, mem_chunks_size, status, told, senders, is_ingestion_active, room>>

\* flb_input_chunk_ring_buffer_collector, one record.
MutCollectRing(i) == i \in Threaded /\ ~flb_input_buf_paused(i) /\ AppendRaw(i, [ring EXCEPT ![i] = @ - 1])
CollectsRing(i) == i \in Threaded /\ ring[i] > 0 /\ ~flb_input_buf_paused(i)
CollectRing(i) == CollectsRing(i) /\ AppendRaw(i, [ring EXCEPT ![i] = @ - 1])

\* cb_queue_chunks of the emitter, one of its chunks.
CollectsEmitter(i) ==
  /\ Em # None /\ i = Em
  /\ running[Em] /\ ring[Em] > 0 /\ ~flb_input_buf_paused(Em)
CollectEmitter ==
  CollectsEmitter(Em) /\ AppendRaw(Em, [ring EXCEPT ![Em] = @ - 1])

\* flb_input_chunk_release_space: an append of i destroys chunk k of j, the last
\* of its routes being the output that needs room.  flb_task_destroy looks at
\* the limits of j afterwards, flb_input_chunk_destroy does not.
Release(i, j, k) ==
  /\ Collects(i) \/ CollectsRing(i) \/ CollectsEmitter(i)
  /\ Placed(i) /\ ~flb_input_buf_paused(i) /\ releasing \in {i, None}
  /\ j \in Sharing /\ k \in DOMAIN chunks[j] /\ Deletable(chunks[j][k])
  /\ chunks' = [chunks EXCEPT ![j] = RemoveAt(@, k)]
  /\ IF chunks[j][k].task = "idle" THEN set_limits(j, chunks')
     ELSE UNCHANGED <<mem_chunks_size, status, told>>
  /\ releasing' = i
  /\ stranded' = stranded \cup {x \in {j} : chunks'[x] = <<>> /\ flb_input_buf_paused(x)'}
  /\ UNCHANGED <<ring, senders, is_ingestion_active>>

\* handle_input_event in the thread of the input.
ThreadTold(i) ==
  /\ chan[i] # <<>>
  /\ running' = [running EXCEPT ![i] =
       Head(chan[i]) = "resume" /\ (@ \/ is_ingestion_active)]
  /\ chan' = [chan EXCEPT ![i] = Tail(@)]
  /\ UNCHANGED <<chunks, mem_chunks_size, status, ring, senders, is_ingestion_active, room>>

-----------------------------------------------------------------------------
(* Tasks.                                                                  *)

\* cio_chunk_up: files come up while max_chunks_up allows.
CanUp(i, k) == chunks[i][k].up \/ TotalUp(chunks) < MaxUp
SetTask(i, k, t, up) ==
  chunks' = [chunks EXCEPT ![i][k].task = t, ![i][k].up = up]

\* A task is created for the chunk, or a retry of it is dispatched.
Flush(i, k) ==
  /\ releasing = None
  /\ k \in DOMAIN chunks[i] /\ chunks[i][k].task \in {"none", "idle"} /\ CanUp(i, k)
  /\ SetTask(i, k, "users", TRUE)
  /\ UNCHANGED <<mem_chunks_size, status, told, ring, senders, is_ingestion_active, room>>

\* flb_task_retry_create, for the last user: a chunk with one route, or of an
\* input over its memory limit, is put down.
Retry(i, k) ==
  /\ releasing = None
  /\ k \in DOMAIN chunks[i] /\ chunks[i][k].task = "users"
  /\ \E one \in BOOLEAN :
       SetTask(i, k, "idle",
               Kind[i] = "fs" => ~(one \/ is_mem_overlimit(i, UpBytes(chunks[i]))))
  /\ mem_chunks_size' = [mem_chunks_size EXCEPT ![i] =
       UpBytes(IF is_mem_overlimit(i, UpBytes(chunks[i])) THEN chunks'[i] ELSE chunks[i])]
  /\ UNCHANGED <<status, told, ring, senders, is_ingestion_active, room>>

\* flb_task_destroy, when the last user leaves.
MutTaskEnds(i, k) ==
  /\ releasing = None
  /\ k \in DOMAIN chunks[i] /\ chunks[i][k].task = "users"
  /\ set_limits(i, chunks)
  /\ chunks' = [chunks EXCEPT ![i] = RemoveAt(@, k)]
  /\ UNCHANGED <<ring, senders, is_ingestion_active, room>>
TaskEnds(i, k) ==
  /\ releasing = None
  /\ k \in DOMAIN chunks[i] /\ chunks[i][k].task = "users"
  /\ chunks' = [chunks EXCEPT ![i] = RemoveAt(@, k)]
  /\ set_limits(i, chunks')
  /\ UNCHANGED <<ring, senders, is_ingestion_active, room>>

\* flb_engine_stop_ingestion.
StopIngestion ==
  /\ releasing = None
  /\ is_ingestion_active
  /\ is_ingestion_active' = FALSE
  /\ Tell(UNION {Pauses(i) : i \in Inputs}, {})
  /\ UNCHANGED <<chunks, mem_chunks_size, status, ring, senders, room>>

-----------------------------------------------------------------------------
Init ==
  /\ chunks = [i \in Inputs |-> <<>>]
  /\ mem_chunks_size = [i \in Inputs |-> 0]
  /\ mem_buf_status = [i \in Inputs |-> "running"]
  /\ storage_buf_status = [i \in Inputs |-> "running"]
  /\ running = [i \in Inputs |-> TRUE]
  /\ chan = [i \in Inputs |-> <<>>]
  /\ ring = [i \in Inputs |-> 0]
  /\ senders = {}
  /\ is_ingestion_active = TRUE
  /\ releasing = None /\ stranded = {}

Ingest == \/ \E i \in Inputs : Collect(i) \/ CollectThread(i) \/ CollectRing(i)
          \/ CollectEmitter
Engine == \E i \in Inputs : \E k \in 1..MaxChunks :
            \/ Flush(i, k) \/ Retry(i, k) \/ TaskEnds(i, k)
            \/ \E j \in Inputs : Release(i, j, k)
Next == Ingest \/ Engine \/ StopIngestion \/ \E i \in Inputs : ThreadTold(i)
Spec == Init /\ [][Next]_vars

\* An append that has released chunks ends.
Finish ==
  /\ releasing # None
  /\ (\E i \in Inputs : Collect(i) \/ CollectRing(i)) \/ CollectEmitter

\* Chunks are dispatched at every flush, between other handlers, files while one
\* can be mapped; an output with a retry limit answers OK or an error in the end;
\* the threads of the inputs read their pipes.
LiveSpec ==
  /\ Spec
  /\ WF_vars(Finish)
  /\ \A i \in {j \in Inputs : Kind[j] # "fs"} : SF_vars(\E k \in 1..MaxChunks : Flush(i, k))
  /\ \A i \in Inputs :
       /\ WF_vars(\E k \in 1..MaxChunks : Flush(i, k))
       /\ SF_vars(\E k \in 1..MaxChunks : TaskEnds(i, k))
       /\ WF_vars(ThreadTold(i))

-----------------------------------------------------------------------------
(* Properties.                                                             *)

TypeOK ==
  /\ chunks \in [Inputs -> Seq(Chunk)]
  /\ mem_chunks_size \in [Inputs -> Nat]
  /\ mem_buf_status \in [Inputs -> {"running", "paused"}]
  /\ storage_buf_status \in [Inputs -> {"running", "paused"}]
  /\ running \in [Inputs -> BOOLEAN]
  /\ chan \in [Inputs -> Seq({"pause", "resume"})]
  /\ ring \in [Inputs -> Nat]
  /\ senders \subseteq Inputs
  /\ is_ingestion_active \in BOOLEAN
  /\ releasing \in Inputs \cup {None} /\ stranded \subseteq Inputs

\* What the plugin was told last: to run, or to pause.
ToldToRun(i) == IF chan[i] = <<>> THEN running[i] ELSE chan[i][Len(chan[i])] = "resume"

\* "a resume() callback will be triggered, from that moment the plugin can
\* append more data": the records of a plugin that was told to run are never
\* refused because its buffer is paused.
RunningMayAppend == \A i \in Inputs : ToldToRun(i) => ~flb_input_buf_paused(i)

\* After flb_engine_stop_ingestion every plugin is paused or about to be,
\* although flb_input_pause returns early for the inputs whose buffers are
\* paused and late resume messages are still in the pipes.
StoppedIsPaused == ~is_ingestion_active => \A i \in Inputs : ~ToldToRun(i)

\* While the ingestion is active no plugin is left paused without a limit that
\* holds it: its own, or the one of an emitter it has sent records to.
PausedForALimit ==
  is_ingestion_active =>
    \A i \in Inputs : ToldToRun(i) \/ flb_input_buf_paused(i)
                      \/ (Em # None /\ i \in senders /\ flb_input_buf_paused(Em))

\* An input that buffers in memory exceeds mem_buf_limit by one append at most,
\* although the limit is checked after the write and the counted size may be
\* stale.
MemLimitHeld ==
  \A i \in Inputs :
    Kind[i] \in {"mem", "memrb"} /\ Limit[i] > 0 =>
      \E n \in Sizes : UpBytes(chunks[i]) <= Limit[i] - 1 + n

\* Nothing but the end of one of its own tasks makes flb_input_chunk_set_limits
\* look at a paused input again, so that a paused input has a chunk left; also
\* when max_chunks_up was reached by the chunks of other inputs.  The code breaks
\* this in one case: another input's append releases the last chunk.
PausedHasChunk ==
  is_ingestion_active =>
    \A i \in Inputs : flb_input_buf_paused(i) => chunks[i] # <<>> \/ i \in stranded

\* A paused plugin is resumed in the end, unless the ingestion is stopped, or the
\* last chunk of the input that paused it was released by another input's append.
PausedIsResumed ==
  \A i \in Inputs :
    ~running[i] ~> \/ running[i] \/ ~is_ingestion_active
                   \/ i \in stranded \/ (i \in senders /\ Em \in stranded)

\* "upon next try of ingestion 'memrb' will make sure to release some bytes":
\* a memory ring buffer that takes itself to be over its limit has a chunk it
\* can release, now or when its tasks end.
MemrbCanRelease ==
  \A i \in Inputs :
    Kind[i] = "memrb" /\ is_mem_overlimit(i, mem_chunks_size[i]) => chunks[i] # <<>>
=============================================================================
