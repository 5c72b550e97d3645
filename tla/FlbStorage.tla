----------------------------- MODULE FlbStorage -----------------------------
(***************************************************************************)
(* Chunks in files and the space they may take.  An output can have a      *)
(* total_limit_size; the engine keeps for it the size of the chunks that   *)
(* are routed to it (fs_chunks_size) and of the files of an earlier run    *)
(* that wait to be loaded (fs_backlog_chunks_size), and releases older     *)
(* chunks before an append that would exceed the limit.  Files that a      *)
(* crash or a stop left behind are queued per output at the start and are  *)
(* loaded by the storage_backlog input.                                    *)
(*                                                                         *)
(* Everything here runs in the engine's thread.  An append is cut into     *)
(* steps so that the release loops can be followed; only a crash comes     *)
(* between them.  The lists of chunks are sets, walked in any order: the   *)
(* code walks them from the oldest on, which is one of those orders.       *)
(* A size is a number of allocation units of a file.  Both counters are    *)
(* sums in the code; here they are kept apart by chunk.                    *)
(***************************************************************************)
EXTENDS Integers, FiniteSetsExt

CONSTANTS
  Chunks,       \* names for chunks
  Inputs,
  Backlog,      \* the storage_backlog input
  Fs,           \* inputs with storage.type filesystem
  Outputs,
  Limit,        \* total_limit_size of each output, NoLimit if it is not set
  Tags,
  Route,        \* outputs that match a tag
  Sizes,        \* sizes of what is appended at once
  MaxSize,      \* size from which a chunk takes no more (2 MB)
  DelBad,       \* storage.delete_irrecoverable_chunks
  Faults,       \* what may fail: "load" a file that is down, "create" one
  MaxRestarts,  \* bound of the restarts
  None

NoLimit == -1
\* An entry of the table that points to a chunk after its memory was freed.
Freed == "freed"

ASSUME StorageInputs ==
  /\ Backlog \in Inputs /\ Fs \subseteq Inputs \ {Backlog}
  /\ {"file", "queued", None} \cap Inputs = {}
  /\ None \notin Chunks /\ None \notin Outputs /\ None \notin Tags
  /\ None \notin {"file", "queued", Freed} /\ Freed \notin Chunks
  /\ DelBad \in BOOLEAN /\ Faults \subseteq {"load", "create"}
ASSUME StorageLimits ==
  /\ Limit \in [Outputs -> Nat \cup {NoLimit}]
  /\ Route \in [Tags -> SUBSET Outputs]
  /\ Sizes \subseteq Nat \ {0} /\ MaxSize \in Nat /\ MaxRestarts \in Nat

VARIABLES
  owner,    \* input whose list has the chunk; "queued" for a file in the
            \* backlog, "file" for one that only exists on disk, or None
  tag, size, content, mask, counted,
            \* metadata, real size, whether data was written, routes_mask and
            \* fs_counted of a chunk
  locked,   \* no append any more: flushed once, full, or from the backlog
  task,     \* "none", "users" (some output flushes it) or "idle" (retries)
  last,     \* ht_log_chunks: the chunk of an input and a tag to append to
  fs, bl,   \* shares of a chunk in fs_chunks_size and fs_backlog_chunks_size
  queue,    \* sb_out_queue of each output
  pc, cur, fresh, len, over,
            \* the append: where it is, its chunk, whether that was created,
            \* the size of the data, outputs that lack space
  out, stage, scan, req, failed,
            \* the release for one output: its loop, the chunks left in it,
            \* the space still required; whether it failed for any output
  drifted,  \* history: chunks that were counted wrong
  restarts

chunk == <<owner, tag, size, content, mask, counted, locked, last>>
book == <<fs, bl, queue, drifted>>
release == <<out, stage, scan, req>>
append == <<pc, cur, fresh, len, over, failed, release>>
vars == <<chunk, task, book, append, restarts>>

Limited == {o \in Outputs : Limit[o] # NoLimit}
Listed(c) == owner[c] \in Inputs
Free(c) == owner[c] = None /\ task[c] = "none" /\ c \notin drifted

Init ==
  /\ owner = [c \in Chunks |-> None]
  /\ tag = [c \in Chunks |-> None]
  /\ size = [c \in Chunks |-> 0]
  /\ content = [c \in Chunks |-> FALSE]
  /\ mask = [c \in Chunks |-> {}]
  /\ counted = [c \in Chunks |-> FALSE]
  /\ locked = [c \in Chunks |-> FALSE]
  /\ task = [c \in Chunks |-> "none"]
  /\ last = [i \in Inputs |-> [t \in Tags |-> None]]
  /\ fs = [o \in Outputs |-> [c \in Chunks |-> 0]]
  /\ bl = [o \in Outputs |-> [c \in Chunks |-> 0]]
  /\ queue = [o \in Outputs |-> {}]
  /\ pc = "idle" /\ cur = None /\ fresh = FALSE /\ len = 0 /\ over = {}
  /\ out = None /\ stage = "others" /\ scan = {} /\ req = 0 /\ failed = FALSE
  /\ drifted = {} /\ restarts = 0

-----------------------------------------------------------------------------
(* The counters.                                                           *)

\* fs with d added to the share of c for the limited outputs in m
Booked(c, m, d) ==
  [o \in Outputs |-> IF o \in m \cap Limited THEN [fs[o] EXCEPT ![c] = @ + d]
                     ELSE fs[o]]

update_output_instances(c, d) ==
  /\ fs' = IF d = 0 THEN fs ELSE Booked(c, mask[c], d)
  /\ counted' = [counted EXCEPT ![c] = @ \/ (d # 0 /\ mask[c] \cap Limited # {})]

\* The counters are unsigned: a sum below zero is a huge one.
OverLimit(o, n, f) ==
  LET sum == MapThenSumSet(LAMBDA c : f[o][c] + bl[o][c], Chunks) + n
  IN  sum < 0 \/ sum > Limit[o]

has_overlimit_routes(m, n, f) == {o \in m \cap Limited : OverLimit(o, n, f)}

\* What a chunk leaves in fs when it is destroyed: only a counted chunk is
\* taken out, for the routes it still has.
MutUnbooked(c) == IF counted[c] THEN Booked(c, Route[tag[c]], 0 - size[c]) ELSE fs
Unbooked(c) == IF counted[c] THEN Booked(c, mask[c], 0 - size[c]) ELSE fs

\* The chunk is closed and, with k = None, its file deleted.
Closed(c, k) ==
  /\ owner' = [owner EXCEPT ![c] = k]
  /\ mask' = [mask EXCEPT ![c] = {}]
  /\ counted' = [counted EXCEPT ![c] = FALSE]
  /\ locked' = [locked EXCEPT ![c] = FALSE]
  /\ tag' = [tag EXCEPT ![c] = IF k = None THEN None ELSE @]
  /\ size' = [size EXCEPT ![c] = IF k = None THEN 0 ELSE @]
  /\ content' = [content EXCEPT ![c] = IF k = None THEN FALSE ELSE @]

\* The entry of the chunk in the table goes with it.  The tag of a file that is
\* down and cannot be loaded is not known, and its entry stays.
Entries(c, e) ==
  [i \in Inputs |-> [t \in Tags |-> IF last[i][t] = c THEN e ELSE last[i][t]]]
MutUnlinked(c) == last
Unlinked(c) == Entries(c, None)
Unloadable(c) == "load" \in Faults /\ owner[c] \in Fs /\ task[c] # "users"
destroy_up(c) == Closed(c, None) /\ last' = Unlinked(c)
destroy(c) ==
  /\ Closed(c, None)
  /\ \/ last' = Unlinked(c)
     \/ Unloadable(c) /\ last' = Entries(c, Freed)

-----------------------------------------------------------------------------
(* An append: the chunk to write to.                                       *)

\* The chunks the entry may lead to.  Freed memory holds another chunk by now,
\* or reads like a chunk that is locked.
Found(i, t) ==
  IF last[i][t] = Freed THEN {c \in Chunks : Listed(c)} ELSE {last[i][t]} \ {None}
Usable(i, t) == last[i][t] \in Chunks /\ ~locked[last[i][t]]

Append(i, c, n, new, m, f) ==
  /\ cur' = c /\ fresh' = new /\ len' = n /\ failed' = FALSE
  /\ over' = IF i \in Fs THEN has_overlimit_routes(m, n, f) ELSE {}
  /\ pc' = IF over' = {} THEN "write" ELSE "space"
  /\ UNCHANGED release

AppendReuse(i, t, n) ==
  /\ pc = "idle"
  /\ \E c \in Found(i, t) :
       ~locked[c] /\ Append(owner[c], c, n, FALSE, mask[c], fs)
  /\ UNCHANGED <<chunk, task, book, restarts>>

\* A new file has one unit.
Created(c, i, t) ==
  /\ tag' = [tag EXCEPT ![c] = t]
  /\ size' = [size EXCEPT ![c] = IF i \in Fs THEN 1 ELSE 0]
  /\ mask' = [mask EXCEPT ![c] = Route[t]]
  /\ last' = [last EXCEPT ![i][t] = c]

\* A chunk that is down and cannot be loaded stays where it is.
AppendCreate(i, t, n) ==
  /\ pc = "idle"
  /\ Usable(i, t) => i \in Fs /\ "load" \in Faults
  /\ \E c \in Chunks :
       /\ Free(c)
       /\ Created(c, i, t)
       /\ owner' = [owner EXCEPT ![c] = i]
       /\ Append(i, c, n, TRUE, Route[t], fs)
  /\ UNCHANGED <<content, counted, locked, task, book, restarts>>

\* The chunk was down and is found corrupted when it is loaded: it is closed,
\* its file stays unless such files are deleted, and the append takes a new chunk.
AppendCorrupted(i, t, n) ==
  /\ pc = "idle" /\ Usable(i, t) /\ i \in Fs
  /\ LET d == last[i][t] IN \E c \in Chunks :
       /\ Free(c)
       /\ owner' = [owner EXCEPT ![d] = IF DelBad THEN None ELSE "file", ![c] = i]
       /\ tag' = [tag EXCEPT ![d] = IF DelBad THEN None ELSE @, ![c] = t]
       /\ size' = [size EXCEPT ![d] = IF DelBad THEN 0 ELSE @, ![c] = 1]
       /\ content' = [content EXCEPT ![d] = @ /\ ~DelBad]
       /\ mask' = [mask EXCEPT ![d] = {}, ![c] = Route[t]]
       /\ counted' = [counted EXCEPT ![d] = FALSE]
       /\ last' = [last EXCEPT ![i][t] = c]
       /\ fs' = Unbooked(d)
       /\ Append(i, c, n, TRUE, Route[t], fs')
  /\ UNCHANGED <<locked, task, bl, queue, drifted, restarts>>

\* The new chunk cannot be created.  The entry of the corrupted one was taken
\* out only if its file was to be deleted.
AppendLost(i, t) ==
  /\ pc = "idle" /\ Usable(i, t) /\ i \in Fs /\ "create" \in Faults
  /\ LET d == last[i][t] IN
       /\ Closed(d, IF DelBad THEN None ELSE "file")
       /\ last' = IF DelBad THEN Unlinked(d) ELSE Entries(d, Freed)
       /\ fs' = Unbooked(d)
  /\ UNCHANGED <<task, bl, queue, drifted, append, restarts>>

-----------------------------------------------------------------------------
(* An append: space for it.  find_space_new_data goes through the outputs   *)
(* that are over their limit, release_space_compound for each of them      *)
(* through four lists, until as much is released as the chunk of the       *)
(* append is large.                                                        *)

List(s, o) ==
  CASE s = "global" -> {c \in Chunks : owner[c] = Backlog}
    [] s = "queue"  -> queue[o]
    [] s = "own"    -> {c \in Chunks : owner[c] = owner[cur]}
    [] s = "others" -> {c \in Chunks : owner[c] \in Inputs \ {owner[cur]}}

NextStage == [global |-> "queue", queue |-> "own", own |-> "others"]

ReleaseFor(o) ==
  /\ pc = "space" /\ out = None /\ o \in over
  /\ out' = o /\ over' = over \ {o}
  /\ req' = size[cur]
  /\ stage' = "global" /\ scan' = List("global", o)
  /\ UNCHANGED <<chunk, task, book, pc, cur, fresh, len, failed, restarts>>

ReleaseNext ==
  /\ pc = "space" /\ out # None
  /\ scan = {} /\ req > 0 /\ stage # "others"
  /\ stage' = NextStage[stage] /\ scan' = List(NextStage[stage], out)
  /\ UNCHANGED <<chunk, task, book, pc, cur, fresh, len, over, failed, out, req,
                 restarts>>

ReleaseEnds ==
  /\ pc = "space" /\ out # None
  /\ req <= 0 \/ (scan = {} /\ stage = "others")
  /\ out' = None /\ scan' = {} /\ stage' = "others" /\ req' = 0
  /\ failed' = (failed \/ req > 0)
  /\ UNCHANGED <<chunk, task, book, pc, cur, fresh, len, over, restarts>>

Scans(c, stages) == pc = "space" /\ c \in scan /\ req > 0 /\ stage \in stages

MutSafeDelete(c) == out \in mask[c]
safe_delete(c) == c # cur /\ out \in mask[c]

MutNoUsers(c) == TRUE
NoUsers(c) == task[c] # "users"

\* Another route, the chunk of the append itself, or a task that some output
\* is flushing: a route of it that is not started can be dropped, but the
\* backlog's chunk is not released by that.
ReleasePasses(c) ==
  /\ Scans(c, {"global", "own", "others"})
  /\ ~safe_delete(c) \/ ~NoUsers(c)
  /\ scan' = scan \ {c}
  /\ UNCHANGED <<chunk, task, book, pc, cur, fresh, len, over, failed, out, stage,
                 req, restarts>>

Releases(c) ==
  /\ scan' = scan \ {c} /\ req' = req - size[c]
  /\ UNCHANGED <<pc, cur, fresh, len, over, failed, out, stage, restarts>>

\* flb_task_destroy with the chunk, if it has a task
TaskDropped(c) == task' = [task EXCEPT ![c] = IF @ = "users" THEN @ ELSE "none"]

ReleaseGlobal(c) ==
  /\ Scans(c, {"global"})
  /\ safe_delete(c) /\ NoUsers(c)
  /\ fs' = Unbooked(c)
  /\ destroy(c) /\ TaskDropped(c)
  /\ Releases(c)
  /\ UNCHANGED <<bl, queue, drifted>>

\* The size is taken out whether or not the chunk was counted.
ReleaseLocal(c) ==
  /\ Scans(c, {"own", "others"})
  /\ safe_delete(c)
  /\ fs' = Booked(c, {out}, 0 - size[c])
  /\ drifted' = IF counted[c] THEN drifted ELSE drifted \cup {c}
  /\ IF mask[c] = {out} /\ NoUsers(c)
     THEN destroy(c) /\ TaskDropped(c)
     ELSE /\ mask' = [mask EXCEPT ![c] = @ \ {out}]
          /\ UNCHANGED <<owner, tag, size, content, counted, locked, last, task>>
  /\ Releases(c)
  /\ UNCHANGED <<bl, queue>>

\* sb_remove_chunk_from_segregated_backlogs: out of the queues of all outputs
MutUnqueued(c) ==
  LET o == CHOOSE p \in Outputs : c \in queue[p] IN
  /\ queue' = [queue EXCEPT ![o] = @ \ {c}]
  /\ bl' = [bl EXCEPT ![o][c] = @ - size[c]]
Unqueued(c) ==
  /\ queue' = [o \in Outputs |-> queue[o] \ {c}]
  /\ bl' = [o \in Outputs |-> IF c \in queue[o] THEN [bl[o] EXCEPT ![c] = @ - size[c]]
                              ELSE bl[o]]

ReleaseQueue(c) ==
  /\ Scans(c, {"queue"})
  /\ Unqueued(c)
  /\ Closed(c, None)
  /\ Releases(c)
  /\ UNCHANGED <<last, task, fs, drifted>>

AppendEnds ==
  /\ pc' = "idle" /\ cur' = None /\ fresh' = FALSE /\ len' = 0 /\ failed' = FALSE
  /\ UNCHANGED <<over, release, restarts>>

AppendPlaced ==
  /\ pc = "space" /\ out = None /\ over = {} /\ ~failed
  /\ pc' = "write"
  /\ UNCHANGED <<chunk, task, book, cur, fresh, len, over, failed, release, restarts>>

\* Some output could not be relieved.  A reused chunk has data and stays.
AppendRefused ==
  /\ pc = "space" /\ out = None /\ over = {} /\ failed
  /\ IF fresh THEN destroy(cur) /\ fs' = Unbooked(cur)
     ELSE UNCHANGED <<chunk, fs>>
  /\ AppendEnds
  /\ UNCHANGED <<task, bl, queue, drifted>>

-----------------------------------------------------------------------------
(* An append: the write.                                                   *)

\* The filters removed everything.
WriteFiltered ==
  /\ pc = "write"
  /\ IF content[cur] THEN UNCHANGED <<chunk, fs>>
     ELSE destroy_up(cur) /\ fs' = Unbooked(cur)
  /\ AppendEnds
  /\ UNCHANGED <<task, bl, queue, drifted>>

\* The file cannot grow: nothing is written, and a new chunk stays empty.
WriteFails ==
  /\ pc = "write" /\ owner[cur] \in Fs
  /\ AppendEnds
  /\ UNCHANGED <<chunk, task, book>>

\* A file may have had room for a part of the data.
Grown(c, n) == IF owner[c] \in Fs THEN {size[c] + n - 1, size[c] + n} ELSE {size[c] + n}

WriteDone ==
  /\ pc = "write"
  /\ \E s \in Grown(cur, len) :
       /\ size' = [size EXCEPT ![cur] = s]
       /\ locked' = [locked EXCEPT ![cur] = s >= MaxSize]
       /\ update_output_instances(cur, s - (IF content[cur] THEN size[cur] ELSE 0))
  /\ content' = [content EXCEPT ![cur] = TRUE]
  /\ AppendEnds
  /\ UNCHANGED <<owner, tag, mask, last, task, bl, queue, drifted>>

-----------------------------------------------------------------------------
(* Tasks.                                                                  *)

\* The first flush locks the chunk, which may trim its file.
Trimmed(c) == IF owner[c] \in Fs /\ ~locked[c] /\ size[c] > 1 THEN {size[c], size[c] - 1}
              ELSE {size[c]}

\* With no content, or no task to be had, the chunk is only left locked.
Flush(c) ==
  /\ pc = "idle" /\ Listed(c) /\ task[c] = "none"
  /\ content[c] => mask[c] # {}
  /\ \E s \in Trimmed(c) :
       /\ size' = [size EXCEPT ![c] = s]
       /\ update_output_instances(c, s - size[c])
       /\ drifted' = IF ~content[c] /\ s # size[c] /\ mask[c] \cap Limited # {}
                     THEN drifted \cup {c} ELSE drifted
  /\ locked' = [locked EXCEPT ![c] = TRUE]
  /\ \/ content[c] /\ task' = [task EXCEPT ![c] = "users"]
     \/ UNCHANGED task
  /\ UNCHANGED <<owner, tag, content, mask, last, bl, queue, append, restarts>>

\* A task without routes is dropped together with its chunk.
FlushUnrouted(c) ==
  /\ pc = "idle" /\ Listed(c) /\ task[c] = "none"
  /\ content[c] /\ mask[c] = {}
  /\ fs' = Unbooked(c) /\ destroy_up(c)
  /\ UNCHANGED <<task, bl, queue, drifted, append, restarts>>

Retry(c) ==
  /\ pc = "idle" /\ task[c] = "users"
  /\ task' = [task EXCEPT ![c] = "idle"]
  /\ UNCHANGED <<chunk, book, append, restarts>>

FlushRetry(c) ==
  /\ pc = "idle" /\ task[c] = "idle"
  /\ task' = [task EXCEPT ![c] = "users"]
  /\ UNCHANGED <<chunk, book, append, restarts>>

TaskEnds(c) ==
  /\ pc = "idle" /\ task[c] # "none"
  /\ fs' = Unbooked(c) /\ destroy(c)
  /\ task' = [task EXCEPT ![c] = "none"]
  /\ UNCHANGED <<bl, queue, drifted, append, restarts>>

-----------------------------------------------------------------------------
(* The backlog.                                                            *)

\* flb_input_chunk_map: the file becomes a chunk of the backlog input.
QueueMap(c) ==
  /\ pc = "idle" /\ \E o \in Outputs : c \in queue[o]
  /\ content[c]
  /\ Unqueued(c)
  /\ owner' = [owner EXCEPT ![c] = Backlog]
  /\ mask' = [mask EXCEPT ![c] = Route[tag[c]]]
  /\ counted' = [counted EXCEPT ![c] = Route[tag[c]] \cap Limited # {}]
  /\ locked' = [locked EXCEPT ![c] = TRUE]
  /\ fs' = Booked(c, Route[tag[c]], size[c])
  /\ UNCHANGED <<tag, size, content, last, task, drifted, append, restarts>>

\* Files that are empty or cannot be mapped are deleted, corrupted ones stay.
QueueRemove(c) ==
  /\ pc = "idle" /\ \E o \in Outputs : c \in queue[o]
  /\ Unqueued(c)
  /\ \/ Closed(c, None)
     \/ Closed(c, "file")
  /\ UNCHANGED <<last, task, fs, drifted, append, restarts>>

\* The process ends, at any point, and starts again: chunks in memory are
\* lost, files that can be read are queued for the outputs of their tag.
Restart ==
  /\ restarts < MaxRestarts /\ restarts' = restarts + 1
  /\ LET files == {c \in Chunks : owner[c] \in Fs \cup {Backlog, "queued", "file"}} IN
     \E bad \in SUBSET files :
       LET found == {c \in files \ bad : Route[tag[c]] # {}} IN
       /\ owner' = [c \in Chunks |-> IF c \in found THEN "queued"
                                     ELSE IF c \in files THEN "file" ELSE None]
       /\ tag' = [c \in Chunks |-> IF c \in files THEN tag[c] ELSE None]
       /\ size' = [c \in Chunks |-> IF c \in files THEN size[c] ELSE 0]
       /\ content' = [c \in Chunks |-> c \in files /\ content[c]]
       /\ queue' = [o \in Outputs |-> {c \in found : o \in Route[tag[c]]}]
       /\ bl' = [o \in Outputs |-> [c \in Chunks |->
                   IF c \in found /\ o \in Route[tag[c]] THEN size[c] ELSE 0]]
  /\ mask' = [c \in Chunks |-> {}]
  /\ counted' = [c \in Chunks |-> FALSE]
  /\ locked' = [c \in Chunks |-> FALSE]
  /\ task' = [c \in Chunks |-> "none"]
  /\ last' = [i \in Inputs |-> [t \in Tags |-> None]]
  /\ fs' = [o \in Outputs |-> [c \in Chunks |-> 0]]
  /\ pc' = "idle" /\ cur' = None /\ fresh' = FALSE /\ len' = 0 /\ over' = {}
  /\ out' = None /\ stage' = "others" /\ scan' = {} /\ req' = 0 /\ failed' = FALSE
  /\ drifted' = {}

-----------------------------------------------------------------------------
Next ==
  \/ \E i \in Inputs \ {Backlog}, t \in Tags, n \in Sizes :
       AppendReuse(i, t, n) \/ AppendCreate(i, t, n) \/ AppendCorrupted(i, t, n)
  \/ \E i \in Inputs \ {Backlog}, t \in Tags : AppendLost(i, t)
  \/ \E o \in Outputs : ReleaseFor(o)
  \/ ReleaseNext \/ ReleaseEnds \/ AppendPlaced \/ AppendRefused
  \/ WriteFiltered \/ WriteFails \/ WriteDone
  \/ \E c \in Chunks :
       \/ ReleasePasses(c) \/ ReleaseGlobal(c) \/ ReleaseLocal(c) \/ ReleaseQueue(c)
       \/ Flush(c) \/ FlushUnrouted(c) \/ Retry(c) \/ FlushRetry(c) \/ TaskEnds(c)
       \/ QueueMap(c) \/ QueueRemove(c)
  \/ Restart

Spec == Init /\ [][Next]_vars

-----------------------------------------------------------------------------
(* Properties.                                                             *)

(* The parts of a chunk, the table, the queues and the append in progress   *)
(* have the types their comments state, and no file is without its first   *)
(* unit, through all the growing and trimming.                             *)
TypeOK ==
  /\ owner \in [Chunks -> Inputs \cup {None, "file", "queued"}]
  /\ tag \in [Chunks -> Tags \cup {None}]
  /\ size \in [Chunks -> Nat]
  /\ \A c \in Chunks : owner[c] \in Fs \cup {Backlog, "file", "queued"} => size[c] > 0
  /\ content \in [Chunks -> BOOLEAN]
  /\ mask \in [Chunks -> SUBSET Outputs]
  /\ counted \in [Chunks -> BOOLEAN]
  /\ locked \in [Chunks -> BOOLEAN]
  /\ task \in [Chunks -> {"none", "users", "idle"}]
  /\ last \in [Inputs -> [Tags -> Chunks \cup {None, Freed}]]
  /\ fs \in [Outputs -> [Chunks -> Int]]
  /\ bl \in [Outputs -> [Chunks -> Int]]
  /\ queue \in [Outputs -> SUBSET Chunks]
  /\ pc \in {"idle", "space", "write"}
  /\ cur \in Chunks \cup {None}
  /\ fresh \in BOOLEAN /\ failed \in BOOLEAN
  /\ len \in Nat /\ req \in Int
  /\ over \subseteq Outputs /\ out \in Outputs \cup {None}
  /\ stage \in {"global", "queue", "own", "others"}
  /\ scan \subseteq Chunks /\ drifted \subseteq Chunks
  /\ restarts \in Nat

(* fs_chunks_size of a limited output is the size of the chunks with data   *)
(* that are routed to it, whatever appends, filters, trims, flushes,        *)
(* releases and loads made of them; except for chunks that a failed write   *)
(* left empty and that were released or trimmed afterwards.                *)
Share(o, c) == IF Listed(c) /\ content[c] /\ o \in mask[c] \cap Limited THEN size[c] ELSE 0
FsExact == \A o \in Outputs, c \in Chunks \ drifted : fs[o][c] = Share(o, c)

(* A file waits in the queue of an output exactly when it is one of the     *)
(* backlog and its tag matches the output, and is counted there with its   *)
(* size; a chunk that was loaded or deleted is in no queue any more, so     *)
(* nobody loads or deletes it twice.                                       *)
QueueExact ==
  \A o \in Outputs, c \in Chunks :
    LET waits == owner[c] = "queued" /\ o \in Route[tag[c]] IN
    /\ c \in queue[o] <=> waits
    /\ bl[o][c] = IF waits THEN size[c] ELSE 0

(* The chunk an append is about to write to is still in the list of its     *)
(* input, no task has it, and it takes data: nothing that made room for     *)
(* the append released it.                                                 *)
IncomingSurvives ==
  pc # "idle" => /\ cur \in Chunks /\ owner[cur] \in Inputs \ {Backlog}
                 /\ task[cur] = "none" /\ ~locked[cur]

(* A chunk that an output is flushing is in the list of an input: to make   *)
(* room its routes may be dropped, but its data stays until the task ends. *)
UsedSurvives == \A c \in Chunks : task[c] # "none" => Listed(c) /\ content[c]

(* The table of an input never names a chunk that was destroyed, or one of  *)
(* another tag, so that no append writes to it.  The code breaks this in    *)
(* two cases: the tag of a chunk that is destroyed cannot be loaded; a      *)
(* corrupted file is kept and the chunk that takes its place cannot be      *)
(* created.                                                                *)
MayDangle == "load" \in Faults \/ ("create" \in Faults /\ ~DelBad)
TableLive ==
  \A i \in Inputs, t \in Tags :
    \/ last[i][t] = None
    \/ last[i][t] = Freed /\ MayDangle
    \/ last[i][t] \in Chunks /\ owner[last[i][t]] = i /\ tag[last[i][t]] = t

(* "this output instance cannot buffer more than total_limit_size" (comment *)
(* in flb_output.h); one unit more is allowed here, since a file is larger *)
(* than its data.                                                          *)
LimitHeld ==
  \A o \in Limited : MapThenSumSet(LAMBDA c : fs[o][c] + bl[o][c], Chunks) <= Limit[o] + 1
=============================================================================
