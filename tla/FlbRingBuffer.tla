---------------------------- MODULE FlbRingBuffer ----------------------------
(***************************************************************************)
(* How a threaded input hands records to the engine: the byte ring of      *)
(* lib/lwrb, flb_ring_buffer.c on top of it, append_to_ring_buffer in the  *)
(* thread of the input and flb_input_chunk_ring_buffer_collector in the    *)
(* thread of the engine.  No lock protects any of it, so a step is one     *)
(* access to what the threads share, or one memcpy of lwrb.                *)
(*                                                                         *)
(* What goes through the ring are pointers to records.  Records are        *)
(* numbered in the order of their writes; byte k of the pointer to record  *)
(* n is <<n, k>>, so that a pointer put together from bytes of two records *)
(* (or from bytes that were never written) is no record.                   *)
(*                                                                         *)
(* lwrb_t's fields are neither volatile nor atomic, and there is no        *)
(* barrier.  With Ordered the accesses of a thread take effect in program  *)
(* order, which is what x86 and a compiler that does not move the copies   *)
(* give; without it the copies of one call and the store of its index may  *)
(* take effect in any order.                                               *)
(***************************************************************************)
EXTENDS Integers

CONSTANTS
  Cap,         \* thread.ring_buffer.capacity, in slots
  E,           \* sizeof(void *)
  Window,      \* thread.ring_buffer.window, a percentage
  RetryLimit,  \* retry_limit of append_to_ring_buffer
  Ordered,     \* whether the accesses of a thread keep their order
  MayPause,    \* whether the input reaches a limit of its buffers
  MayStop,     \* whether the engine shuts down
  MaxRecords,  \* bound of the records written
  None

ASSUME RingSizes ==
  /\ Cap \in Nat \ {0} /\ E \in Nat \ {0}
  /\ Window \in 1..100
  /\ RetryLimit \in Nat /\ MaxRecords \in Nat
ASSUME RingModes ==
  /\ Ordered \in BOOLEAN /\ MayPause \in BOOLEAN /\ MayStop \in BOOLEAN
  /\ None \notin Nat

VARIABLES
  buf,            \* buff->buff
  w, r,           \* buff->w, buff->r
  flush_pending,  \* rb->flush_pending
  pipe,           \* whether signal_channels[0] is readable
  prod,           \* where the thread of the input is
  retries,        \* retries of append_to_ring_buffer
  av,             \* av of flb_ring_buffer_write
  btw, wp,        \* bytes that lwrb_write is to write, and where
  wtodo,          \* stores of lwrb_write that have not taken effect
  eng,            \* where the engine's thread is
  flag,           \* rb_flush_flag
  paused,         \* flb_input_buf_paused
  stop,           \* whether the inputs are being destroyed
  btr, rp,        \* bytes that lwrb_read is to read, and from where
  rtodo,          \* loads and the store of lwrb_read that have not happened
  d,              \* the bytes lwrb_read has copied
  sent, recv,     \* records written to and read from the ring so far
  cr              \* the record the collector was given, or None

shared == <<buf, w, r, sent, recv>>
signal == <<flush_pending, pipe>>
readVars == <<btr, rp, rtodo, d>>
prodVars == <<prod, retries, av, btw, wp, wtodo>>
engVars == <<eng, flag, paused, stop, readVars, cr>>
vars == <<shared, signal, prodVars, engVars>>

-----------------------------------------------------------------------------
(* lwrb and the geometry of the ring.                                      *)

data_size == Cap * E
size == data_size + 1          \* of data_buf: lwrb keeps one byte unused
data_window == (data_size * Window) \div 100
Pos == 0..(size - 1)

\* lwrb_get_full and lwrb_get_free, on the indexes they loaded.
get_full(wi, ri) == IF wi >= ri THEN wi - ri ELSE size - (ri - wi)
get_free(wi, ri) == (IF wi = ri THEN size
                     ELSE IF ri > wi THEN ri - wi ELSE size - (wi - ri)) - 1

\* Bytes of a copy of b bytes at index i that fit before the end of the ring
\* (tocopy), the parts of the copy, and the index that follows it.
least(a, b) == IF a <= b THEN a ELSE b
tocopy(i, b) == least(size - i, b)
Parts(i, b) == IF b > tocopy(i, b) THEN {"linear", "wrap"} ELSE {"linear"}
EndOf(i, b) == LET p == IF b > tocopy(i, b) THEN b - tocopy(i, b) ELSE i + b
               IN  IF p >= size THEN 0 ELSE p

\* In which order the accesses of one call take effect.
MutInTurn(a, todo) == Ordered => (a = "wrap" => "linear" \notin todo)
InTurn(a, todo) ==
  Ordered => /\ a = "wrap" => "linear" \notin todo
             /\ a = "index" => todo = {"index"}

NoBytes == [k \in 0..(E - 1) |-> None]
Whole(n) == [k \in 0..(E - 1) |-> <<n, k>>]
RecordOf(bytes) ==
  IF \E n \in 0..(sent - 1) : bytes = Whole(n)
    THEN CHOOSE n \in 0..(sent - 1) : bytes = Whole(n) ELSE None

-----------------------------------------------------------------------------
(* The thread of the input: append_to_ring_buffer.                         *)

\* flb_input_chunk_append_raw of a threaded input: a record is allocated.
Append ==
  /\ prod = "idle" /\ ~stop /\ sent < MaxRecords
  /\ prod' = "try"
  /\ retries' = 0
  /\ UNCHANGED <<shared, signal, av, btw, wp, wtodo, engVars>>

\* flb_ring_buffer_write: is there enough space?
EnoughSpace(free) == free >= E
WriteBegin ==
  /\ prod = "try" /\ retries < RetryLimit
  /\ EnoughSpace(get_free(w, r))
  /\ av' = get_free(w, r)
  /\ prod' = "write"
  /\ UNCHANGED <<shared, signal, retries, btw, wp, wtodo, engVars>>

\* The ring is full: sleep 100 ms and try again.
WriteRefused ==
  /\ prod = "try" /\ retries < RetryLimit
  /\ ~EnoughSpace(get_free(w, r))
  /\ retries' = retries + 1
  /\ UNCHANGED <<shared, signal, prod, av, btw, wp, wtodo, engVars>>

\* retry_limit tries have failed: the record is destroyed.
MutDropRecord == FALSE /\ UNCHANGED vars
DropRecord ==
  /\ prod = "try" /\ retries >= RetryLimit
  /\ prod' = "idle" /\ retries' = 0
  /\ UNCHANGED <<shared, signal, av, btw, wp, wtodo, engVars>>

\* lwrb_write, which measures the free space again.
LwrbWrite ==
  /\ prod = "write"
  /\ btw' = least(get_free(w, r), E)
  /\ wp' = w
  /\ wtodo' = Parts(w, btw') \cup {"index"}
  /\ prod' = "store"
  /\ UNCHANGED <<shared, signal, retries, av, engVars>>

\* One memcpy of lwrb_write, or the store of buff->w.
Storing == IF "index" \in wtodo THEN sent ELSE sent - 1
StoreLinear ==
  /\ buf' = [p \in Pos |-> IF p >= wp /\ p < wp + tocopy(wp, btw)
                             THEN <<Storing, p - wp>> ELSE buf[p]]
  /\ UNCHANGED <<w, sent>>
StoreWrap ==
  /\ buf' = [p \in Pos |-> IF p < btw - tocopy(wp, btw)
                             THEN <<Storing, p + tocopy(wp, btw)>> ELSE buf[p]]
  /\ UNCHANGED <<w, sent>>
StoreIndex ==
  /\ w' = EndOf(wp, btw)
  /\ sent' = sent + 1
  /\ UNCHANGED buf
LwrbStore(a) ==
  /\ prod = "store" /\ a \in wtodo /\ InTurn(a, wtodo)
  /\ \/ a = "linear" /\ StoreLinear
     \/ a = "wrap" /\ StoreWrap
     \/ a = "index" /\ StoreIndex
  /\ wtodo' = wtodo \ {a}
  /\ prod' = IF wtodo' = {} THEN "check" ELSE "store"
  /\ btw' = IF wtodo' = {} THEN 0 ELSE btw
  /\ wp' = IF wtodo' = {} THEN 0 ELSE wp
  /\ UNCHANGED <<r, recv, signal, retries, av, engVars>>

\* The end of flb_ring_buffer_write: the window is full and no flush is
\* pending, so the engine is to be signalled.
MustSignal == ~flush_pending /\ data_size - (av - E) >= data_window
WriteEnd ==
  /\ prod = "check"
  /\ flush_pending' = (flush_pending \/ MustSignal)
  /\ prod' = IF MustSignal THEN "pipe" ELSE "idle"
  /\ av' = 0 /\ retries' = 0
  /\ UNCHANGED <<shared, pipe, btw, wp, wtodo, engVars>>

\* flb_pipe_write_all.
WritePipe ==
  /\ prod = "pipe"
  /\ pipe' = TRUE
  /\ prod' = "idle"
  /\ UNCHANGED <<shared, flush_pending, retries, av, btw, wp, wtodo, engVars>>

-----------------------------------------------------------------------------
(* The engine's thread.                                                    *)

\* FLB_ENGINE_EV_THREAD_INPUT: the pipe is drained, and the collector is to
\* run when the round of the event loop ends.
HandleSignal ==
  /\ eng = "idle" /\ pipe
  /\ pipe' = FALSE
  /\ flag' = TRUE
  /\ UNCHANGED <<shared, flush_pending, prodVars, eng, paused, stop, readVars, cr>>

EndOfRound ==
  /\ eng = "idle" /\ flag
  /\ flag' = FALSE
  /\ eng' = "collect"
  /\ UNCHANGED <<shared, signal, prodVars, paused, stop, readVars, cr>>

\* The permanent timer of the collector, every 250 ms.
MutCollectorTimer == eng = "idle" /\ UNCHANGED vars
CollectorTimer ==
  /\ eng = "idle"
  /\ eng' = "collect"
  /\ UNCHANGED <<shared, signal, prodVars, flag, paused, stop, readVars, cr>>

\* The collector stops at an input that is paused.
CollectPaused ==
  /\ eng = "collect" /\ paused
  /\ eng' = "reset"
  /\ UNCHANGED <<shared, signal, prodVars, flag, paused, stop, readVars, cr>>

\* lwrb_read, for the collector or for the cleanup of the instance.
ReadBegin ==
  /\ \/ eng = "collect" /\ ~paused
     \/ eng = "cleanup"
  /\ LET full == get_full(w, r)
     IN  \/ /\ full = 0
            /\ eng' = IF stop THEN "stopped" ELSE "reset"
            /\ UNCHANGED <<btr, rp, rtodo>>
         \/ /\ full > 0
            /\ btr' = least(full, E)
            /\ rp' = r
            /\ rtodo' = Parts(r, btr') \cup {"index"}
            /\ eng' = "load"
  /\ UNCHANGED <<shared, signal, prodVars, flag, paused, stop, d, cr>>

\* One memcpy of lwrb_read, or the store of buff->r, with which the reader
\* gives the bytes back.
LoadLinear ==
  /\ d' = [k \in DOMAIN d |-> IF k < tocopy(rp, btr) THEN buf[rp + k] ELSE d[k]]
  /\ UNCHANGED <<r, recv>>
LoadWrap ==
  /\ d' = [k \in DOMAIN d |-> IF k >= tocopy(rp, btr) /\ k < btr
                                THEN buf[k - tocopy(rp, btr)] ELSE d[k]]
  /\ UNCHANGED <<r, recv>>
ReadIndex ==
  /\ r' = EndOf(rp, btr)
  /\ recv' = recv + 1
  /\ UNCHANGED d
LwrbLoad(a) ==
  /\ eng = "load" /\ a \in rtodo /\ InTurn(a, rtodo)
  /\ \/ a = "linear" /\ LoadLinear
     \/ a = "wrap" /\ LoadWrap
     \/ a = "index" /\ ReadIndex
  /\ rtodo' = rtodo \ {a}
  /\ eng' = IF rtodo' = {} THEN "append" ELSE "load"
  /\ btr' = IF rtodo' = {} THEN 0 ELSE btr
  /\ rp' = IF rtodo' = {} THEN 0 ELSE rp
  /\ UNCHANGED <<buf, w, sent, signal, prodVars, flag, paused, stop, cr>>

\* input_chunk_append_raw and destroy_chunk_raw; the record may take the
\* input over a limit.  The cleanup only destroys it.
AppendRaw ==
  /\ eng = "append"
  /\ cr' = RecordOf(d)
  /\ d' = NoBytes
  /\ paused' \in IF MayPause /\ ~stop THEN {paused, TRUE} ELSE {paused}
  /\ eng' = IF stop THEN "cleanup" ELSE "collect"
  /\ UNCHANGED <<shared, signal, prodVars, flag, stop, btr, rp, rtodo>>

\* The collector is done with this input.
MutResetPending == eng = "reset" /\ eng' = "idle" /\ UNCHANGED <<shared, signal, prodVars, flag, paused, stop, readVars, cr>>
ResetPending ==
  /\ eng = "reset"
  /\ flush_pending' = FALSE
  /\ eng' = "idle"
  /\ UNCHANGED <<shared, pipe, prodVars, flag, paused, stop, readVars, cr>>

\* flb_input_chunk_set_limits, when chunks of the input were released.
Resume ==
  /\ eng = "idle" /\ paused
  /\ paused' = FALSE
  /\ UNCHANGED <<shared, signal, prodVars, eng, flag, stop, readVars, cr>>

\* flb_input_exit_all: the thread of the input is told to exit ...
InputExit ==
  /\ MayStop /\ eng = "idle" /\ ~stop
  /\ stop' = TRUE
  /\ eng' = "join"
  /\ UNCHANGED <<shared, signal, prodVars, flag, paused, readVars, cr>>

\* ... and joined before flb_input_instance_destroy frees what is in the ring.
MutThreadJoined == eng = "join" /\ eng' = "cleanup" /\ UNCHANGED <<shared, signal, prodVars, flag, paused, stop, readVars, cr>>
ThreadJoined ==
  /\ eng = "join" /\ prod = "idle"
  /\ eng' = "cleanup"
  /\ UNCHANGED <<shared, signal, prodVars, flag, paused, stop, readVars, cr>>

-----------------------------------------------------------------------------
Accesses == {"linear", "wrap", "index"}

Init ==
  /\ buf = [p \in Pos |-> None] /\ w = 0 /\ r = 0
  /\ flush_pending = FALSE /\ pipe = FALSE
  /\ prod = "idle" /\ retries = 0 /\ av = 0 /\ btw = 0 /\ wp = 0 /\ wtodo = {}
  /\ eng = "idle" /\ flag = FALSE /\ paused = FALSE /\ stop = FALSE
  /\ btr = 0 /\ rp = 0 /\ rtodo = {} /\ d = NoBytes
  /\ sent = 0 /\ recv = 0 /\ cr = None

Producer ==
  \/ Append \/ WriteBegin \/ WriteRefused \/ DropRecord \/ LwrbWrite
  \/ \E a \in Accesses : LwrbStore(a)
  \/ WriteEnd \/ WritePipe

Collector ==
  \/ CollectPaused \/ ReadBegin \/ \E a \in Accesses : LwrbLoad(a)
  \/ AppendRaw \/ ResetPending

Engine ==
  \/ HandleSignal \/ EndOfRound \/ CollectorTimer \/ Collector
  \/ Resume \/ InputExit \/ ThreadJoined

Next == Producer \/ Engine
Spec == Init /\ [][Next]_vars

\* Both threads run; the timer of the collector expires again and again, and
\* the event loop handles the events it is given; and the outputs deliver, so
\* that a limit which paused the input is left at some time.
LiveSpec ==
  /\ Spec
  /\ WF_vars(WriteBegin) /\ WF_vars(WriteRefused) /\ WF_vars(DropRecord)
  /\ WF_vars(LwrbWrite) /\ WF_vars(\E a \in Accesses : LwrbStore(a))
  /\ WF_vars(WriteEnd) /\ WF_vars(WritePipe)
  /\ SF_vars(HandleSignal) /\ SF_vars(EndOfRound) /\ SF_vars(CollectorTimer)
  /\ SF_vars(Resume) /\ WF_vars(Collector) /\ WF_vars(ThreadJoined)

-----------------------------------------------------------------------------
(* Properties.                                                             *)

TypeOK ==
  /\ buf \in [Pos -> {None} \cup (Nat \X Nat)] /\ w \in Pos /\ r \in Pos
  /\ flush_pending \in BOOLEAN /\ pipe \in BOOLEAN
  /\ prod \in {"idle", "try", "write", "store", "check", "pipe"}
  /\ retries \in Nat /\ av \in Nat
  /\ btw \in 0..E /\ wp \in Pos /\ wtodo \in SUBSET Accesses
  /\ eng \in {"idle", "collect", "load", "append", "reset", "join", "cleanup", "stopped"}
  /\ flag \in BOOLEAN /\ paused \in BOOLEAN /\ stop \in BOOLEAN
  /\ btr \in 0..E /\ rp \in Pos /\ rtodo \in SUBSET Accesses
  /\ d \in [0..(E - 1) -> {None} \cup (Nat \X Nat)]
  /\ sent \in Nat /\ recv \in Nat /\ cr \in Nat \cup {None}

\* flb_ring_buffer_read never returns a pointer that no record has: what the
\* collector dereferences is the oldest record in the ring, whole, although
\* pointers are split at the end of the ring and the input's thread writes
\* while the engine reads.
ReadIntact == eng = "append" => d = Whole(recv - 1)

\* The ring implements a bounded queue: records come out once, in order, and
\* never more than the capacity are inside.
Fifo == INSTANCE FlbFifo WITH
          Cap <- Cap, Nothing <- None, put <- sent, taken <- recv,
          out <- IF eng = "append" THEN RecordOf(d) ELSE cr
RefinesFifo == Fifo!Spec

\* No signal is swallowed: while flush_pending keeps the input's thread from
\* signalling, the byte it wrote is still in the pipe or about to be, or the
\* engine is on its way to the end of a collection, where it resets the flag.
PendingIsAnswered ==
  flush_pending /\ ~stop =>
    pipe \/ flag \/ prod = "pipe" \/ eng \in {"collect", "load", "append", "reset"}

\* flb_input_chunk_ring_buffer_cleanup frees every record that is still in the
\* ring when the instance goes away, and nothing is written afterwards.
NothingLeftInRing == eng = "stopped" => recv = sent /\ prod = "idle"

\* Every record that was written into the ring is collected (or freed at the
\* exit), although signals may be missed: the timer of the collector sees to
\* it.
AllCollected == \A n \in 1..MaxRecords : sent >= n ~> recv >= n

\* append_to_ring_buffer returns: it gives up on a ring that stays full.
AppendReturns == prod # "idle" ~> prod = "idle"
=============================================================================
