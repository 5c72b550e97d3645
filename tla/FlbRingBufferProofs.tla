------------------------ MODULE FlbRingBufferProofs ------------------------
(***************************************************************************)
(* The ring between a threaded input and the engine is a bounded queue of  *)
(* whole records, for any capacity, any size of a pointer, any number of   *)
(* records and any interleaving of the two threads, as long as the         *)
(* accesses of each thread take effect in program order.                   *)
(***************************************************************************)
EXTENDS FlbRingBuffer, TLAPS

-----------------------------------------------------------------------------
(* Byte offsets of records, counted from the read index.                   *)

Off(n) == E * n
At(i, j) == IF i + j >= size THEN i + j - size ELSE i + j

LEMMA OffFacts ==
  /\ \A a \in Nat : Off(a) \in Nat
  /\ Off(0) = 0
  /\ \A a \in Nat : Off(a + 1) = Off(a) + E
  /\ \A a, b \in Nat : a < b => Off(a) + E <= Off(b)
<1>1. E \in Nat /\ E >= 1
  BY RingSizes
<1>2. \A a \in Nat : E * a \in Nat
  BY <1>1
<1>3. \A a, b \in Nat : E * (a + b) = E * a + E * b
  BY <1>1
<1>4. ASSUME NEW a \in Nat, NEW b \in Nat, a < b
      PROVE  E * a + E <= E * b
  <2>1. b - a - 1 \in Nat /\ b = a + (b - a - 1) + 1
    BY <1>4
  <2>2. E * b = E * a + E * (b - a - 1) + E
    BY <2>1, <1>1
  <2> QED
    BY <2>1, <2>2, <1>1, <1>2
<1> QED
  BY <1>1, <1>2, <1>3, <1>4 DEF Off

LEMMA Geometry ==
  /\ E \in Nat /\ E >= 1 /\ data_size \in Nat /\ data_size >= E
  /\ size = data_size + 1 /\ size \in Nat
<1>1. Cap \in Nat /\ Cap >= 1 /\ E \in Nat /\ E >= 1
  BY RingSizes
<1>2. Cap * E \in Nat /\ Cap * E >= E
  BY <1>1
<1> QED
  BY <1>1, <1>2 DEF data_size, size

LEMMA GeometryCap == data_size = Off(Cap)
BY RingSizes DEF data_size, Off

-----------------------------------------------------------------------------
(* The inductive invariant.                                                *)

\* The bytes between the indexes are those of the records in the ring.
RingInv ==
  /\ recv <= sent
  /\ get_full(w, r) = Off(sent - recv)
  /\ \A n \in recv..(sent - 1), k \in 0..(E - 1) :
       buf[At(r, Off(n - recv) + k)] = <<n, k>>

\* A write that was admitted has its space until it is published, since the
\* engine can only add to it.
SpaceInv == prod \in {"write", "store"} => Off(sent - recv) + E <= data_size

\* What lwrb_write has copied so far.
StoreInv ==
  prod = "store" =>
    /\ wp = w /\ btw = E
    /\ "index" \in wtodo /\ wtodo \subseteq Parts(w, E) \cup {"index"}
    /\ "linear" \in wtodo => Parts(w, E) \subseteq wtodo
    /\ "linear" \notin wtodo => \A k \in 0..(tocopy(w, E) - 1) : buf[w + k] = <<sent, k>>
    /\ "wrap" \notin wtodo =>
         \A k \in tocopy(w, E)..(E - 1) : buf[k - tocopy(w, E)] = <<sent, k>>

\* What lwrb_read has copied so far.
LoadInv ==
  eng = "load" =>
    /\ rp = r /\ btr = E /\ recv < sent
    /\ "index" \in rtodo /\ rtodo \subseteq Parts(r, E) \cup {"index"}
    /\ "linear" \in rtodo => Parts(r, E) \subseteq rtodo
    /\ "linear" \notin rtodo => \A k \in 0..(tocopy(r, E) - 1) : d[k] = <<recv, k>>
    /\ "wrap" \notin rtodo => \A k \in tocopy(r, E)..(E - 1) : d[k] = <<recv, k>>

TakenInv == eng = "append" => recv >= 1 /\ d = Whole(recv - 1)

IInv == TypeOK /\ RingInv /\ SpaceInv /\ StoreInv /\ LoadInv /\ TakenInv

-----------------------------------------------------------------------------
(* Steps that leave the ring alone.                                        *)

LEMMA InitInv == Init => IInv
<1> SUFFICES ASSUME Init PROVE IInv
  OBVIOUS
<1>1. TypeOK
  <2>1. 0 \in Pos /\ 0 \in 0..E
    BY Geometry DEF Pos
  <2>2. buf \in [Pos -> {None} \cup (Nat \X Nat)] /\ d \in [0..(E - 1) -> {None} \cup (Nat \X Nat)]
    BY DEF Init, NoBytes
  <2> QED
    BY <2>1, <2>2 DEF Init, TypeOK
<1>2. RingInv
  BY OffFacts DEF Init, RingInv, get_full
<1> QED
  BY <1>1, <1>2 DEF IInv, Init, SpaceInv, StoreInv, LoadInv, TakenInv

LEMMA FreeFacts ==
  ASSUME TypeOK, RingInv
  PROVE  /\ get_free(w, r) = data_size - Off(sent - recv)
         /\ get_free(w, r) \in Nat /\ Off(sent - recv) \in Nat
         /\ sent - recv \in Nat
<1>1. w \in Pos /\ r \in Pos /\ sent - recv \in Nat
  BY DEF TypeOK, RingInv
<1>2. get_full(w, r) = Off(sent - recv)
  BY DEF RingInv
<1>3. Off(sent - recv) \in Nat
  BY <1>1, OffFacts
<1> QED
  BY <1>1, <1>2, <1>3, Geometry DEF get_full, get_free, Pos

QuietSteps ==
  \/ Append \/ WriteRefused \/ DropRecord \/ WriteEnd \/ WritePipe
  \/ HandleSignal \/ EndOfRound \/ CollectorTimer \/ CollectPaused
  \/ ResetPending \/ Resume \/ InputExit \/ ThreadJoined
  \/ UNCHANGED vars

LEMMA QuietRing ==
  ASSUME IInv, QuietSteps
  PROVE  IInv'
<1>1. UNCHANGED <<buf, w, r, sent, recv, readVars, btw, wp, wtodo, cr>>
  BY DEF QuietSteps, Append, WriteRefused, DropRecord, WriteEnd, WritePipe, HandleSignal,
     EndOfRound, CollectorTimer, CollectPaused, ResetPending, Resume, InputExit,
     ThreadJoined, vars, shared, prodVars, engVars, readVars
<1>2. TypeOK'
  <2>1. /\ prod' \in {"idle", "try", "write", "store", "check", "pipe"}
        /\ retries' \in Nat /\ av' \in Nat
    BY DEF IInv, TypeOK, QuietSteps, Append, WriteRefused, DropRecord, WriteEnd, WritePipe,
       HandleSignal, EndOfRound, CollectorTimer, CollectPaused, ResetPending, Resume,
       InputExit, ThreadJoined, vars, shared, prodVars, engVars
  <2>2. /\ eng' \in {"idle", "collect", "load", "append", "reset", "join", "cleanup", "stopped"}
        /\ flag' \in BOOLEAN /\ paused' \in BOOLEAN /\ stop' \in BOOLEAN
        /\ flush_pending' \in BOOLEAN /\ pipe' \in BOOLEAN
    BY Zenon DEF IInv, TypeOK, QuietSteps, Append, WriteRefused, DropRecord, WriteEnd, WritePipe,
       HandleSignal, EndOfRound, CollectorTimer, CollectPaused, ResetPending, Resume,
       InputExit, ThreadJoined, vars, shared, signal, prodVars, engVars, MustSignal
  <2> QED
    BY <1>1, <2>1, <2>2 DEF IInv, TypeOK, readVars
<1>3. /\ prod' \in {"write", "store"} => prod' = prod
      /\ eng' \in {"load", "append"} => eng' = eng
  BY DEF QuietSteps, Append, WriteRefused, DropRecord, WriteEnd, WritePipe,
     HandleSignal, EndOfRound, CollectorTimer, CollectPaused, ResetPending, Resume,
     InputExit, ThreadJoined, vars, shared, prodVars, engVars
<1>4. RingInv'
  BY <1>1 DEF IInv, RingInv, get_full
<1>5. SpaceInv' /\ StoreInv' /\ LoadInv' /\ TakenInv'
  BY <1>1, <1>3 DEF IInv, SpaceInv, StoreInv, LoadInv, TakenInv, readVars
<1> QED
  BY <1>2, <1>4, <1>5 DEF IInv
-----------------------------------------------------------------------------
(* The producer.                                                           *)

LEMMA WriteBeginInv ==
  ASSUME IInv, WriteBegin
  PROVE  IInv'
<1>1. UNCHANGED <<buf, w, r, sent, recv, eng, readVars, btw, wp, wtodo, cr>> /\ prod' = "write"
  BY DEF WriteBegin, shared, engVars
<1>2. get_free(w, r) \in Nat /\ Off(sent - recv) + E <= data_size
  BY FreeFacts, Geometry DEF IInv, WriteBegin, EnoughSpace
<1>3. TypeOK'
  BY <1>1, <1>2 DEF IInv, TypeOK, WriteBegin, readVars, shared, signal, engVars
<1>4. RingInv'
  BY <1>1 DEF IInv, RingInv, get_full
<1>5. SpaceInv' /\ StoreInv' /\ LoadInv' /\ TakenInv'
  BY <1>1, <1>2 DEF IInv, SpaceInv, StoreInv, LoadInv, TakenInv, readVars
<1> QED
  BY <1>3, <1>4, <1>5 DEF IInv

LEMMA PartsFacts ==
  ASSUME NEW i \in Pos
  PROVE  /\ tocopy(i, E) \in 1..E /\ i + tocopy(i, E) <= size
         /\ Parts(i, E) \subseteq Accesses
         /\ "linear" \in Parts(i, E) /\ "index" \notin Parts(i, E)
         /\ "wrap" \notin Parts(i, E) => tocopy(i, E) = E
         /\ "wrap" \in Parts(i, E) => tocopy(i, E) = size - i
         /\ EndOf(i, E) = At(i, E) /\ EndOf(i, E) \in Pos
BY Geometry DEF Pos, tocopy, least, Parts, EndOf, At, Accesses

LEMMA LwrbWriteInv ==
  ASSUME IInv, LwrbWrite
  PROVE  IInv'
<1>1. /\ UNCHANGED <<buf, w, r, sent, recv, eng, readVars, cr>>
      /\ prod = "write" /\ prod' = "store" /\ wp' = w
  BY DEF LwrbWrite, shared, engVars
<1>2. btw' = E
  BY FreeFacts, Geometry DEF IInv, SpaceInv, LwrbWrite, least
<1>3. w \in Pos /\ E \in 0..E
  BY Geometry DEF IInv, TypeOK
<1>4. wtodo' = Parts(w, E) \cup {"index"}
  BY <1>2 DEF LwrbWrite
<1>5. TypeOK'
  BY <1>1, <1>2, <1>3, <1>4, PartsFacts
     DEF IInv, TypeOK, LwrbWrite, readVars, shared, signal, engVars, Accesses
<1>6. RingInv'
  BY <1>1 DEF IInv, RingInv, get_full
<1>7. StoreInv'
  <2>1. "linear" \in wtodo' /\ Parts(w, E) \subseteq wtodo'
    BY <1>3, <1>4, PartsFacts
  <2>2. "wrap" \notin wtodo' => tocopy(w, E) = E
    BY <1>3, <1>4, PartsFacts
  <2>3. "wrap" \notin wtodo' => \A k \in tocopy(w, E)..(E - 1) : FALSE
    BY <2>2, Geometry
  <2> QED
    BY <1>1, <1>2, <1>4, <2>1, <2>3 DEF StoreInv
<1>8. SpaceInv' /\ LoadInv' /\ TakenInv'
  BY <1>1 DEF IInv, SpaceInv, LoadInv, TakenInv, readVars
<1> QED
  BY <1>5, <1>6, <1>7, <1>8 DEF IInv

\* Positions of bytes in the ring: distinct offsets below the size of the ring
\* are distinct positions, and the write index follows the last byte.
LEMMA Positions ==
  ASSUME TypeOK, RingInv
  PROVE  /\ w = At(r, Off(sent - recv))
         /\ \A i, j \in 0..(size - 1) : At(r, i) = At(r, j) => i = j
         /\ \A j \in 0..(size - 1) : At(r, j) \in Pos
         /\ \A n \in recv..(sent - 1), k \in 0..(E - 1) :
              /\ Off(n - recv) + k \in Nat
              /\ Off(n - recv) + k < Off(sent - recv)
              /\ Off(n - recv) + E <= Off(sent - recv)
<1>1. r \in Pos /\ w \in Pos /\ sent - recv \in Nat /\ sent \in Nat /\ recv \in Nat
  BY DEF TypeOK, RingInv
<1>2. get_full(w, r) = Off(sent - recv)
  BY DEF RingInv
<1>3. w = At(r, Off(sent - recv))
  BY <1>1, <1>2, Geometry DEF get_full, At, Pos
<1>4. /\ \A i, j \in 0..(size - 1) : At(r, i) = At(r, j) => i = j
      /\ \A j \in 0..(size - 1) : At(r, j) \in Pos
  BY <1>1, Geometry DEF At, Pos
<1>5. ASSUME NEW n \in recv..(sent - 1), NEW k \in 0..(E - 1)
      PROVE  /\ Off(n - recv) + k \in Nat
             /\ Off(n - recv) + k < Off(sent - recv)
             /\ Off(n - recv) + E <= Off(sent - recv)
  <2>1. n - recv \in Nat /\ n - recv < sent - recv
    BY <1>1
  <2>2. Off(n - recv) \in Nat /\ Off(n - recv) + E <= Off(sent - recv) /\ Off(sent - recv) \in Nat
    BY <1>1, <2>1, OffFacts
  <2> QED
    BY <2>2, Geometry
<1> QED
  BY <1>3, <1>4, <1>5

\* The bytes a write or a read touches are those at the offsets that follow its
\* index, before and after the end of the ring.
LEMMA Span ==
  ASSUME NEW i \in Pos, NEW k \in 0..(E - 1)
  PROVE  /\ k < tocopy(i, E) => At(i, k) = i + k
         /\ k >= tocopy(i, E) => At(i, k) = k - tocopy(i, E)
         /\ At(i, k) \in Pos
BY Geometry DEF Pos, tocopy, least, At

\* The writer's bytes are none of the bytes of the records in the ring.
LEMMA WriteSpan ==
  ASSUME IInv, prod = "store"
  PROVE  \A m \in 0..(E - 1), n \in recv..(sent - 1), k \in 0..(E - 1) :
           At(w, m) # At(r, Off(n - recv) + k)
<1> SUFFICES ASSUME NEW m \in 0..(E - 1), NEW n \in recv..(sent - 1), NEW k \in 0..(E - 1)
             PROVE  At(w, m) # At(r, Off(n - recv) + k)
  OBVIOUS
<1> DEFINE U == Off(sent - recv)
<1> DEFINE j == Off(n - recv) + k
<1>1. w = At(r, U) /\ j \in Nat /\ j < U
  BY Positions DEF IInv
<1>2. U \in Nat /\ U + E <= data_size /\ r \in Pos
  BY FreeFacts DEF IInv, SpaceInv, TypeOK
<1> HIDE DEF U, j
<1>3. At(At(r, U), m) = At(r, U + m)
  BY <1>2, Geometry DEF At, Pos
<1>4. U + m \in 0..(size - 1) /\ j \in 0..(size - 1) /\ j # U + m
  BY <1>1, <1>2, Geometry
<1>5. At(r, U + m) # At(r, j)
  BY <1>4, Positions DEF IInv
<1> QED
  BY <1>1, <1>3, <1>5 DEF j

LEMMA StoreLinearInv ==
  ASSUME IInv, Ordered, LwrbStore("linear")
  PROVE  IInv'
<1>1. /\ UNCHANGED <<w, r, sent, recv, eng, readVars, cr>>
      /\ prod = "store" /\ "linear" \in wtodo /\ wtodo' = wtodo \ {"linear"}
      /\ StoreLinear
  BY DEF LwrbStore, engVars, StoreLinear, StoreWrap, StoreIndex
<1>2. /\ wp = w /\ btw = E /\ "index" \in wtodo /\ Storing = sent
      /\ wtodo \subseteq Parts(w, E) \cup {"index"} /\ Parts(w, E) \subseteq wtodo
  BY <1>1 DEF IInv, StoreInv, Storing
<1>3. wtodo' # {} /\ prod' = "store" /\ btw' = btw /\ wp' = wp
  BY <1>1, <1>2 DEF LwrbStore
<1>4. w \in Pos /\ sent \in Nat /\ recv \in Nat /\ buf \in [Pos -> {None} \cup (Nat \X Nat)]
  BY DEF IInv, TypeOK
<1>5. buf' = [p \in Pos |-> IF p >= w /\ p < w + tocopy(w, E) THEN <<sent, p - w>> ELSE buf[p]]
  BY <1>1, <1>2 DEF StoreLinear
<1>11. tocopy(w, E) \in 1..E /\ w + tocopy(w, E) <= size
  BY <1>4, PartsFacts
<1>6. TypeOK'
  <2>1. buf' \in [Pos -> {None} \cup (Nat \X Nat)]
    <3>1. \A p \in Pos : p >= w => p - w \in Nat
      BY <1>4 DEF Pos
    <3> QED
      BY <1>4, <1>5, <3>1
  <2> QED
    BY <1>1, <1>3, <2>1 DEF IInv, TypeOK, LwrbStore, readVars, signal, engVars
<1>7. \A n \in recv..(sent - 1), k \in 0..(E - 1) :
        buf'[At(r, Off(n - recv) + k)] = buf[At(r, Off(n - recv) + k)]
  <2> SUFFICES ASSUME NEW n \in recv..(sent - 1), NEW k \in 0..(E - 1)
               PROVE  buf'[At(r, Off(n - recv) + k)] = buf[At(r, Off(n - recv) + k)]
    OBVIOUS
  <2> DEFINE p == At(r, Off(n - recv) + k)
  <2>1. p \in Pos
    <3>1. Off(n - recv) + k \in Nat /\ Off(n - recv) + k < Off(sent - recv)
      BY Positions DEF IInv
    <3>2. Off(sent - recv) <= data_size /\ Off(sent - recv) \in Nat
      BY <1>1, FreeFacts, Geometry DEF IInv, SpaceInv
    <3>3. Off(n - recv) + k \in 0..(size - 1)
      BY <3>1, <3>2, Geometry
    <3> QED
      BY <3>3, Positions DEF IInv
  <2>2. \A m \in 0..(E - 1) : At(w, m) # p
    BY <1>1, WriteSpan
  <2> HIDE DEF p
  <2>3. ASSUME p >= w, p < w + tocopy(w, E)
        PROVE  FALSE
    <3>1. p - w \in 0..(E - 1) /\ p - w < tocopy(w, E)
      BY <2>1, <2>3, <1>4, <1>11, Geometry DEF Pos
    <3>2. At(w, p - w) = p
      BY <3>1, <1>4, Span, <2>1 DEF Pos
    <3> QED
      BY <3>1, <3>2, <2>2
  <2>4. buf'[p] = buf[p]
    BY <2>1, <2>3, <1>5
  <2> QED
    BY <2>4 DEF p
<1>8. RingInv'
  BY <1>1, <1>7 DEF IInv, RingInv, get_full
<1>9. StoreInv'
  <2>1. \A k \in 0..(tocopy(w, E) - 1) : buf'[w + k] = <<sent, k>>
    <3> SUFFICES ASSUME NEW k \in 0..(tocopy(w, E) - 1)
                 PROVE  buf'[w + k] = <<sent, k>>
      OBVIOUS
    <3>1. w + k \in Pos /\ w + k >= w /\ w + k < w + tocopy(w, E) /\ (w + k) - w = k
      BY <1>4, <1>11, Geometry DEF Pos
    <3> QED
      BY <3>1, <1>5
  <2>2. "wrap" \notin wtodo' => \A k \in tocopy(w, E)..(E - 1) : FALSE
    BY <1>1, <1>2, <1>4, PartsFacts, Geometry
  <2> QED
    BY <1>1, <1>2, <1>3, <2>1, <2>2 DEF StoreInv
<1>10. SpaceInv' /\ LoadInv' /\ TakenInv'
  BY <1>1 DEF IInv, SpaceInv, LoadInv, TakenInv, readVars
<1> QED
  BY <1>6, <1>8, <1>9, <1>10 DEF IInv

LEMMA StoreWrapInv ==
  ASSUME IInv, Ordered, LwrbStore("wrap")
  PROVE  IInv'
<1>1. /\ UNCHANGED <<w, r, sent, recv, eng, readVars, cr>>
      /\ prod = "store" /\ "wrap" \in wtodo /\ wtodo' = wtodo \ {"wrap"}
      /\ StoreWrap /\ "linear" \notin wtodo
  BY DEF LwrbStore, engVars, InTurn, StoreLinear, StoreWrap, StoreIndex
<1>2. /\ wp = w /\ btw = E /\ "index" \in wtodo /\ Storing = sent
      /\ wtodo \subseteq Parts(w, E) \cup {"index"}
      /\ \A k \in 0..(tocopy(w, E) - 1) : buf[w + k] = <<sent, k>>
  BY <1>1 DEF IInv, StoreInv, Storing
<1>3. wtodo' # {} /\ prod' = "store" /\ btw' = btw /\ wp' = wp
  BY <1>1, <1>2 DEF LwrbStore
<1>4. w \in Pos /\ sent \in Nat /\ recv \in Nat /\ buf \in [Pos -> {None} \cup (Nat \X Nat)]
  BY DEF IInv, TypeOK
<1> DEFINE tc == tocopy(w, E)
<1>5. tc \in 1..E /\ tc = size - w
  BY <1>1, <1>2, <1>4, PartsFacts
<1>6. buf' = [p \in Pos |-> IF p < E - tc THEN <<sent, p + tc>> ELSE buf[p]]
  BY <1>1, <1>2 DEF StoreWrap
<1> HIDE DEF tc
<1>7. TypeOK'
  <2>1. buf' \in [Pos -> {None} \cup (Nat \X Nat)]
    <3>1. \A p \in Pos : p + tc \in Nat
      BY <1>5 DEF Pos
    <3> QED
      BY <1>4, <1>6, <3>1
  <2> QED
    BY <1>1, <1>3, <2>1 DEF IInv, TypeOK, LwrbStore, readVars, signal, engVars
<1>8. \A n \in recv..(sent - 1), k \in 0..(E - 1) :
        buf'[At(r, Off(n - recv) + k)] = buf[At(r, Off(n - recv) + k)]
  <2> SUFFICES ASSUME NEW n \in recv..(sent - 1), NEW k \in 0..(E - 1)
               PROVE  buf'[At(r, Off(n - recv) + k)] = buf[At(r, Off(n - recv) + k)]
    OBVIOUS
  <2> DEFINE p == At(r, Off(n - recv) + k)
  <2>1. p \in Pos
    <3>1. Off(n - recv) + k \in Nat /\ Off(n - recv) + k < Off(sent - recv)
      BY Positions DEF IInv
    <3>2. Off(sent - recv) <= data_size /\ Off(sent - recv) \in Nat
      BY <1>1, FreeFacts, Geometry DEF IInv, SpaceInv
    <3>3. Off(n - recv) + k \in 0..(size - 1)
      BY <3>1, <3>2, Geometry
    <3> QED
      BY <3>3, Positions DEF IInv
  <2>2. \A m \in 0..(E - 1) : At(w, m) # p
    BY <1>1, WriteSpan
  <2> HIDE DEF p
  <2>3. ASSUME p < E - tc
        PROVE  FALSE
    <3>1. p + tc \in 0..(E - 1) /\ p + tc >= tc /\ (p + tc) - tc = p
      BY <2>1, <2>3, <1>5, Geometry DEF Pos
    <3>2. At(w, p + tc) = p
      BY <3>1, <1>4, Span DEF tc
    <3> QED
      BY <3>1, <3>2, <2>2
  <2>4. buf'[p] = buf[p]
    BY <2>1, <2>3, <1>6
  <2> QED
    BY <2>4 DEF p
<1>9. RingInv'
  BY <1>1, <1>8 DEF IInv, RingInv, get_full
<1>10. StoreInv'
  <2>1. \A k \in 0..(tc - 1) : buf'[w + k] = <<sent, k>>
    <3> SUFFICES ASSUME NEW k \in 0..(tc - 1)
                 PROVE  buf'[w + k] = <<sent, k>>
      OBVIOUS
    <3>0. SpaceInv /\ Off(sent - recv) \in Nat
      BY FreeFacts DEF IInv
    <3>1. E <= data_size
      BY Geometry
    <3>2. w + k \in Pos /\ ~(w + k < E - tc)
      BY <1>4, <1>5, <3>1, Geometry DEF Pos
    <3>3. buf[w + k] = <<sent, k>>
      BY <1>2 DEF tc
    <3> QED
      BY <3>2, <3>3, <1>6
  <2>2. \A k \in tc..(E - 1) : buf'[k - tc] = <<sent, k>>
    <3> SUFFICES ASSUME NEW k \in tc..(E - 1)
                 PROVE  buf'[k - tc] = <<sent, k>>
      OBVIOUS
    <3>1. k - tc \in Pos /\ k - tc < E - tc /\ (k - tc) + tc = k
      BY <1>5, Geometry DEF Pos
    <3> QED
      BY <3>1, <1>6
  <2> QED
    BY <1>1, <1>2, <1>3, <2>1, <2>2 DEF StoreInv, tc
<1>11. SpaceInv' /\ LoadInv' /\ TakenInv'
  BY <1>1 DEF IInv, SpaceInv, LoadInv, TakenInv, readVars
<1> QED
  BY <1>7, <1>9, <1>10, <1>11 DEF IInv

\* Publishing the index adds a record to the ring, whole.
LEMMA StoreIndexInv ==
  ASSUME IInv, Ordered, LwrbStore("index")
  PROVE  IInv'
<1>1. /\ UNCHANGED <<buf, r, recv, eng, readVars, cr>>
      /\ prod = "store" /\ wtodo = {"index"} /\ wtodo' = {}
      /\ w' = EndOf(wp, btw) /\ sent' = sent + 1
  BY DEF LwrbStore, engVars, InTurn, StoreLinear, StoreWrap, StoreIndex
<1>2. /\ wp = w /\ btw = E
      /\ \A k \in 0..(tocopy(w, E) - 1) : buf[w + k] = <<sent, k>>
      /\ \A k \in tocopy(w, E)..(E - 1) : buf[k - tocopy(w, E)] = <<sent, k>>
  BY <1>1 DEF IInv, StoreInv
<1>3. prod' = "check" /\ btw' = 0 /\ wp' = 0
  BY <1>1 DEF LwrbStore
<1>4. w \in Pos /\ r \in Pos /\ sent \in Nat /\ recv \in Nat /\ recv <= sent /\ sent - recv \in Nat
  BY DEF IInv, TypeOK, RingInv
<1>5. w' = At(w, E) /\ w' \in Pos
  BY <1>1, <1>2, <1>4, PartsFacts
<1> DEFINE U == Off(sent - recv)
<1>6. U \in Nat /\ U + E <= data_size /\ w = At(r, U) /\ get_full(w, r) = U
  BY <1>1, FreeFacts, Positions DEF IInv, SpaceInv, RingInv
<1>7. Off(sent' - recv') = U + E
  <2>1. sent' - recv' = (sent - recv) + 1
    BY <1>1, <1>4
  <2> QED
    BY <2>1, <1>4, OffFacts
<1>8. TypeOK'
  <2>1. 0 \in Pos /\ 0 \in 0..E
    BY Geometry DEF Pos
  <2>2. sent' \in Nat
    BY <1>1, <1>4
  <2> QED
    BY <1>1, <1>3, <1>5, <2>1, <2>2 DEF IInv, TypeOK, LwrbStore, readVars, signal, engVars
<1> HIDE DEF U
<1>9. get_full(w', r') = U + E
  BY <1>1, <1>4, <1>5, <1>6, Geometry DEF get_full, At, Pos
<1>10. \A n \in recv..sent, k \in 0..(E - 1) : buf[At(r, Off(n - recv) + k)] = <<n, k>>
  <2> SUFFICES ASSUME NEW n \in recv..sent, NEW k \in 0..(E - 1)
               PROVE  buf[At(r, Off(n - recv) + k)] = <<n, k>>
    OBVIOUS
  <2>1. CASE n \in recv..(sent - 1)
    BY <2>1 DEF IInv, RingInv
  <2>2. CASE n = sent
    <3>1. At(r, U + k) = At(w, k)
      BY <1>4, <1>6, Geometry DEF At, Pos
    <3>2. tocopy(w, E) \in 1..E
      BY <1>4, PartsFacts
    <3>3. buf[At(w, k)] = <<sent, k>>
      <4>1. CASE k < tocopy(w, E)
        <5>1. k \in 0..(tocopy(w, E) - 1) /\ At(w, k) = w + k
          BY <4>1, <3>2, <1>4, Span, Geometry
        <5> QED
          BY <5>1, <1>2
      <4>2. CASE k >= tocopy(w, E)
        <5>1. k \in tocopy(w, E)..(E - 1) /\ At(w, k) = k - tocopy(w, E)
          BY <4>2, <3>2, <1>4, Span, Geometry
        <5> QED
          BY <5>1, <1>2
      <4> QED
        BY <4>1, <4>2, <3>2, Geometry
    <3> QED
      BY <2>2, <3>1, <3>3 DEF U
  <2> QED
    BY <2>1, <2>2, <1>4
<1>11. RingInv'
  <2>1. sent' - 1 = sent /\ recv' <= sent'
    BY <1>1, <1>4
  <2> QED
    BY <1>1, <1>7, <1>9, <1>10, <2>1 DEF RingInv
<1>12. LoadInv' /\ TakenInv'
  <2>1. recv' < sent' \/ recv = sent'
    BY <1>1, <1>4
  <2> QED
    BY <1>1, <1>4 DEF IInv, LoadInv, TakenInv, readVars
<1>13. SpaceInv' /\ StoreInv'
  BY <1>3 DEF SpaceInv, StoreInv
<1> QED
  BY <1>8, <1>11, <1>12, <1>13 DEF IInv

-----------------------------------------------------------------------------
(* The collector.                                                          *)

\* A ring that is not empty holds a whole record.
LEMMA ReadBeginInv ==
  ASSUME IInv, ReadBegin
  PROVE  IInv'
<1>1. /\ UNCHANGED <<buf, w, r, sent, recv, prod, btw, wp, wtodo, d, cr>>
      /\ eng \in {"collect", "cleanup"}
  BY DEF ReadBegin, shared, prodVars
<1>2. w \in Pos /\ r \in Pos /\ E \in 0..E /\ sent - recv \in Nat
  BY Geometry DEF IInv, TypeOK, RingInv
<1>3. RingInv'
  BY <1>1 DEF IInv, RingInv, get_full
<1>4. SpaceInv' /\ StoreInv'
  BY <1>1 DEF IInv, SpaceInv, StoreInv
<1>5. CASE get_full(w, r) = 0
  <2>1. eng' \in {"stopped", "reset"} /\ UNCHANGED <<btr, rp, rtodo>>
    BY <1>5 DEF ReadBegin
  <2>2. TypeOK'
    BY <1>1, <2>1 DEF IInv, TypeOK, ReadBegin, shared, signal, prodVars
  <2>3. LoadInv' /\ TakenInv'
    BY <2>1 DEF LoadInv, TakenInv
  <2> QED
    BY <1>3, <1>4, <2>2, <2>3 DEF IInv
<1>6. CASE get_full(w, r) # 0
  <2>1. /\ btr' = least(get_full(w, r), E) /\ rp' = r /\ eng' = "load"
        /\ rtodo' = Parts(r, btr') \cup {"index"}
    BY <1>6 DEF ReadBegin
  <2>2. sent - recv # 0
    BY <1>6, OffFacts DEF IInv, RingInv
  <2>3. 0 < sent - recv /\ recv < sent
    BY <1>2, <2>2 DEF IInv, TypeOK
  <2>4. get_full(w, r) >= E /\ get_full(w, r) \in Nat
    BY <1>2, <2>3, OffFacts, Geometry DEF IInv, RingInv
  <2>5. btr' = E
    BY <2>1, <2>4, Geometry DEF least
  <2>6. rtodo' = Parts(r, E) \cup {"index"}
    BY <2>1, <2>5
  <2>7. TypeOK'
    BY <1>1, <1>2, <2>1, <2>5, <2>6, PartsFacts
       DEF IInv, TypeOK, ReadBegin, shared, signal, prodVars, Accesses
  <2>8. LoadInv'
    <3>1. "linear" \in rtodo' /\ Parts(r, E) \subseteq rtodo'
      BY <1>2, <2>6, PartsFacts
    <3>2. "wrap" \notin rtodo' => tocopy(r, E) = E
      BY <1>2, <2>6, PartsFacts
    <3>3. "wrap" \notin rtodo' => \A k \in tocopy(r, E)..(E - 1) : FALSE
      BY <3>2, Geometry
    <3> QED
      BY <1>1, <2>1, <2>3, <2>5, <2>6, <3>1, <3>3 DEF LoadInv
  <2>9. TakenInv'
    BY <2>1 DEF TakenInv
  <2> QED
    BY <1>3, <1>4, <2>7, <2>8, <2>9 DEF IInv
<1> QED
  BY <1>5, <1>6

\* The bytes of the oldest record are those at the read index.
LEMMA OldestRecord ==
  ASSUME IInv, eng = "load"
  PROVE  \A k \in 0..(E - 1) : buf[At(r, k)] = <<recv, k>>
<1>1. recv \in recv..(sent - 1) /\ recv - recv = 0
  BY DEF IInv, TypeOK, LoadInv
<1>2. \A k \in 0..(E - 1) : Off(recv - recv) + k = k
  BY <1>1, OffFacts, Geometry
<1>3. \A k \in 0..(E - 1) : buf[At(r, Off(recv - recv) + k)] = <<recv, k>>
  BY <1>1 DEF IInv, RingInv
<1> QED
  BY <1>2, <1>3

LEMMA LoadLinearInv ==
  ASSUME IInv, Ordered, LwrbLoad("linear")
  PROVE  IInv'
<1>1. /\ UNCHANGED <<buf, w, r, sent, recv, prod, btw, wp, wtodo, cr>>
      /\ eng = "load" /\ "linear" \in rtodo /\ rtodo' = rtodo \ {"linear"}
      /\ LoadLinear
  BY DEF LwrbLoad, prodVars, LoadLinear, LoadWrap, ReadIndex
<1>2. /\ rp = r /\ btr = E /\ "index" \in rtodo /\ recv < sent
      /\ rtodo \subseteq Parts(r, E) \cup {"index"} /\ Parts(r, E) \subseteq rtodo
  BY <1>1 DEF IInv, LoadInv
<1>3. rtodo' # {} /\ eng' = "load" /\ btr' = btr /\ rp' = rp
  BY <1>1, <1>2 DEF LwrbLoad
<1>4. /\ r \in Pos /\ buf \in [Pos -> {None} \cup (Nat \X Nat)]
      /\ d \in [0..(E - 1) -> {None} \cup (Nat \X Nat)]
  BY DEF IInv, TypeOK
<1>5. tocopy(r, E) \in 1..E /\ r + tocopy(r, E) <= size
  BY <1>4, PartsFacts
<1>6. d' = [k \in 0..(E - 1) |-> IF k < tocopy(r, E) THEN buf[r + k] ELSE d[k]]
  BY <1>1, <1>2, <1>4 DEF LoadLinear
<1>7. \A k \in 0..(E - 1) : k < tocopy(r, E) => r + k \in Pos /\ buf[r + k] = <<recv, k>>
  <2>1. \A k \in 0..(E - 1) : k < tocopy(r, E) => At(r, k) = r + k
    BY <1>4, Span
  <2>2. \A k \in 0..(E - 1) : k < tocopy(r, E) => r + k \in Pos
    BY <1>4, <1>5, Geometry DEF Pos
  <2> QED
    BY <1>1, <2>1, <2>2, OldestRecord
<1>8. d' \in [0..(E - 1) -> {None} \cup (Nat \X Nat)]
  BY <1>4, <1>6, <1>7
<1>9. TypeOK'
  BY <1>1, <1>3, <1>8 DEF IInv, TypeOK, LwrbLoad, signal, prodVars
<1>10. LoadInv'
  <2>1. \A k \in 0..(tocopy(r, E) - 1) : d'[k] = <<recv, k>>
    <3>1. \A k \in 0..(tocopy(r, E) - 1) : k \in 0..(E - 1) /\ k < tocopy(r, E)
      BY <1>5, Geometry
    <3> QED
      BY <3>1, <1>6, <1>7
  <2>2. "wrap" \notin rtodo' => \A k \in tocopy(r, E)..(E - 1) : FALSE
    <3>1. "wrap" \notin rtodo' => tocopy(r, E) = E
      BY <1>1, <1>2, <1>4, PartsFacts
    <3> QED
      BY <3>1, Geometry
  <2> QED
    BY <1>1, <1>2, <1>3, <2>1, <2>2 DEF LoadInv
<1>11. RingInv' /\ SpaceInv' /\ StoreInv' /\ TakenInv'
  BY <1>1, <1>3 DEF IInv, RingInv, SpaceInv, StoreInv, TakenInv, get_full
<1> QED
  BY <1>9, <1>10, <1>11 DEF IInv

LEMMA LoadWrapInv ==
  ASSUME IInv, Ordered, LwrbLoad("wrap")
  PROVE  IInv'
<1>1. /\ UNCHANGED <<buf, w, r, sent, recv, prod, btw, wp, wtodo, cr>>
      /\ eng = "load" /\ "wrap" \in rtodo /\ rtodo' = rtodo \ {"wrap"}
      /\ LoadWrap /\ "linear" \notin rtodo
  BY DEF LwrbLoad, prodVars, InTurn, LoadLinear, LoadWrap, ReadIndex
<1>2. /\ rp = r /\ btr = E /\ "index" \in rtodo /\ recv < sent
      /\ rtodo \subseteq Parts(r, E) \cup {"index"}
      /\ \A k \in 0..(tocopy(r, E) - 1) : d[k] = <<recv, k>>
  BY <1>1 DEF IInv, LoadInv
<1>3. rtodo' # {} /\ eng' = "load" /\ btr' = btr /\ rp' = rp
  BY <1>1, <1>2 DEF LwrbLoad
<1>4. /\ r \in Pos /\ buf \in [Pos -> {None} \cup (Nat \X Nat)]
      /\ d \in [0..(E - 1) -> {None} \cup (Nat \X Nat)]
  BY DEF IInv, TypeOK
<1> DEFINE tc == tocopy(r, E)
<1>5. tc \in 1..E
  BY <1>4, PartsFacts
<1>6. d' = [k \in 0..(E - 1) |-> IF k >= tc /\ k < E THEN buf[k - tc] ELSE d[k]]
  BY <1>1, <1>2, <1>4 DEF LoadWrap
<1>7. \A k \in 0..(E - 1) : k >= tc => k - tc \in Pos /\ buf[k - tc] = <<recv, k>>
  <2>1. \A k \in 0..(E - 1) : k >= tc => At(r, k) = k - tc /\ At(r, k) \in Pos
    BY <1>4, Span
  <2> QED
    BY <1>1, <2>1, OldestRecord
<1> HIDE DEF tc
<1>8. d' \in [0..(E - 1) -> {None} \cup (Nat \X Nat)]
  BY <1>4, <1>6, <1>7
<1>9. TypeOK'
  BY <1>1, <1>3, <1>8 DEF IInv, TypeOK, LwrbLoad, signal, prodVars
<1>10. LoadInv'
  <2>1. \A k \in 0..(tc - 1) : d'[k] = <<recv, k>>
    <3>1. \A k \in 0..(tc - 1) : k \in 0..(E - 1) /\ ~(k >= tc)
      BY <1>5, Geometry
    <3>2. \A k \in 0..(tc - 1) : d[k] = <<recv, k>>
      BY <1>2 DEF tc
    <3> QED
      BY <3>1, <3>2, <1>6
  <2>2. \A k \in tc..(E - 1) : d'[k] = <<recv, k>>
    <3>1. \A k \in tc..(E - 1) : k \in 0..(E - 1) /\ k >= tc /\ k < E
      BY <1>5, Geometry
    <3> QED
      BY <3>1, <1>6, <1>7
  <2> QED
    BY <1>1, <1>2, <1>3, <2>1, <2>2 DEF LoadInv, tc
<1>11. RingInv' /\ SpaceInv' /\ StoreInv' /\ TakenInv'
  BY <1>1, <1>3 DEF IInv, RingInv, SpaceInv, StoreInv, TakenInv, get_full
<1> QED
  BY <1>9, <1>10, <1>11 DEF IInv

\* Publishing the read index takes the oldest record out of the ring, whole.
LEMMA ReadIndexInv ==
  ASSUME IInv, Ordered, LwrbLoad("index")
  PROVE  IInv' /\ d' = Whole(recv) /\ recv' = recv + 1 /\ eng' = "append" /\ recv < sent
<1>1. /\ UNCHANGED <<buf, w, sent, prod, btw, wp, wtodo, d, cr>>
      /\ eng = "load" /\ rtodo = {"index"} /\ rtodo' = {}
      /\ r' = EndOf(rp, btr) /\ recv' = recv + 1
  BY DEF LwrbLoad, prodVars, InTurn, LoadLinear, LoadWrap, ReadIndex
<1>2. /\ rp = r /\ btr = E /\ recv < sent
      /\ \A k \in 0..(tocopy(r, E) - 1) : d[k] = <<recv, k>>
      /\ \A k \in tocopy(r, E)..(E - 1) : d[k] = <<recv, k>>
  BY <1>1 DEF IInv, LoadInv
<1>3. eng' = "append" /\ btr' = 0 /\ rp' = 0
  BY <1>1 DEF LwrbLoad
<1>4. /\ w \in Pos /\ r \in Pos /\ sent \in Nat /\ recv \in Nat
      /\ sent - recv \in Nat /\ sent - (recv + 1) \in Nat
      /\ d \in [0..(E - 1) -> {None} \cup (Nat \X Nat)]
  BY <1>2 DEF IInv, TypeOK
<1>5. r' = At(r, E) /\ r' \in Pos
  BY <1>1, <1>2, <1>4, PartsFacts
<1>6. d = Whole(recv)
  <2>1. tocopy(r, E) \in 1..E
    BY <1>4, PartsFacts
  <2>2. \A k \in 0..(E - 1) : k \in 0..(tocopy(r, E) - 1) \/ k \in tocopy(r, E)..(E - 1)
    BY <2>1, Geometry
  <2>3. \A k \in 0..(E - 1) : d[k] = <<recv, k>>
    BY <2>2, <1>2
  <2> QED
    BY <1>4, <2>3 DEF Whole
<1> DEFINE U == Off(sent - recv)
<1>7. U \in Nat /\ w = At(r, U) /\ get_full(w, r) = U /\ U <= data_size
  BY FreeFacts, Positions, Geometry DEF IInv, RingInv
<1>8. Off(sent' - recv') = U - E /\ U >= E
  <2>1. sent - recv = (sent - (recv + 1)) + 1
    BY <1>4
  <2>2. U = Off(sent - (recv + 1)) + E /\ Off(sent - (recv + 1)) \in Nat
    BY <2>1, <1>4, OffFacts
  <2> QED
    BY <1>1, <2>2, Geometry
<1>9. TypeOK'
  <2>1. 0 \in Pos /\ 0 \in 0..E /\ recv' \in Nat
    BY <1>1, <1>4, Geometry DEF Pos
  <2> QED
    BY <1>1, <1>3, <1>5, <2>1 DEF IInv, TypeOK, LwrbLoad, signal, prodVars
<1>10. \A n \in (recv + 1)..(sent - 1), k \in 0..(E - 1) :
         buf[At(r', Off(n - (recv + 1)) + k)] = <<n, k>>
  <2> SUFFICES ASSUME NEW n \in (recv + 1)..(sent - 1), NEW k \in 0..(E - 1)
               PROVE  buf[At(r', Off(n - (recv + 1)) + k)] = <<n, k>>
    OBVIOUS
  <2> DEFINE o == Off(n - (recv + 1))
  <2>1. n \in recv..(sent - 1) /\ n - (recv + 1) \in Nat /\ n - recv = (n - (recv + 1)) + 1
    BY <1>4
  <2>2. Off(n - recv) = o + E /\ o \in Nat
    BY <2>1, OffFacts
  <2>3. Off(n - recv) + k < U
    BY <2>1, Positions DEF IInv
  <2>4. buf[At(r, Off(n - recv) + k)] = <<n, k>>
    BY <2>1 DEF IInv, RingInv
  <2> HIDE DEF o, U
  <2>5. o + E + k < size
    BY <2>2, <2>3, <1>7, Geometry
  <2>6. At(r', o + k) = At(r, o + E + k)
    BY <2>2, <2>5, <1>4, <1>5, Geometry DEF At, Pos
  <2> QED
    BY <2>2, <2>4, <2>6 DEF o
<1> HIDE DEF U
<1>11. get_full(w', r') = U - E
  BY <1>1, <1>4, <1>5, <1>7, <1>8, Geometry DEF get_full, At, Pos
<1>12. RingInv'
  <2>1. recv' <= sent' /\ w' = w /\ sent' = sent /\ buf' = buf
    BY <1>1, <1>2, <1>4
  <2> QED
    BY <1>1, <1>8, <1>10, <1>11, <2>1 DEF RingInv
<1>13. SpaceInv'
  BY <1>1, <1>7, <1>8, Geometry DEF IInv, SpaceInv, U
<1>14. StoreInv'
  BY <1>1 DEF IInv, StoreInv
<1>15. TakenInv' /\ LoadInv'
  <2>1. recv' >= 1 /\ recv' - 1 = recv
    BY <1>1, <1>4
  <2> QED
    BY <1>1, <1>3, <1>6, <2>1 DEF TakenInv, LoadInv
<1> QED
  BY <1>1, <1>2, <1>3, <1>6, <1>9, <1>12, <1>13, <1>14, <1>15 DEF IInv

LEMMA WholeRecord ==
  ASSUME NEW n \in 0..(sent - 1), sent \in Nat
  PROVE  RecordOf(Whole(n)) = n
<1>1. \A m \in 0..(sent - 1) : Whole(n) = Whole(m) => m = n
  <2>1. 0 \in 0..(E - 1)
    BY Geometry
  <2>2. \A m \in 0..(sent - 1) : Whole(m)[0] = <<m, 0>>
    BY <2>1 DEF Whole
  <2> QED
    BY <2>2
<1> QED
  BY <1>1 DEF RecordOf

LEMMA AppendRawInv ==
  ASSUME IInv, AppendRaw
  PROVE  IInv' /\ cr' = RecordOf(d) /\ cr' = recv - 1
<1>1. /\ UNCHANGED <<buf, w, r, sent, recv, prod, btw, wp, wtodo, btr, rp, rtodo>>
      /\ eng = "append" /\ eng' \in {"cleanup", "collect"} /\ d' = NoBytes /\ cr' = RecordOf(d)
  BY DEF AppendRaw, shared, prodVars
<1>2. recv - 1 \in 0..(sent - 1) /\ sent \in Nat /\ recv - 1 \in Nat
  BY <1>1 DEF IInv, TypeOK, TakenInv, RingInv
<1>3. cr' = recv - 1
  BY <1>1, <1>2, WholeRecord DEF IInv, TakenInv
<1>4. TypeOK'
  <2>1. d' \in [0..(E - 1) -> {None} \cup (Nat \X Nat)]
    BY <1>1 DEF NoBytes
  <2>2. paused' \in BOOLEAN
    BY DEF IInv, TypeOK, AppendRaw
  <2> QED
    BY <1>1, <1>2, <1>3, <2>1, <2>2 DEF IInv, TypeOK, AppendRaw, signal, prodVars
<1>5. RingInv' /\ SpaceInv' /\ StoreInv'
  BY <1>1 DEF IInv, RingInv, SpaceInv, StoreInv, get_full
<1>6. LoadInv' /\ TakenInv'
  BY <1>1 DEF LoadInv, TakenInv
<1> QED
  BY <1>1, <1>3, <1>4, <1>5, <1>6 DEF IInv

-----------------------------------------------------------------------------
(* The theorems.                                                           *)

LEMMA Steps ==
  ASSUME [Next]_vars
  PROVE  \/ QuietSteps \/ WriteBegin \/ LwrbWrite
         \/ \E a \in Accesses : LwrbStore(a)
         \/ ReadBegin \/ AppendRaw \/ \E a \in Accesses : LwrbLoad(a)
BY DEF Next, Producer, Engine, Collector, QuietSteps

LEMMA NextInv ==
  ASSUME IInv, [Next]_vars, Ordered
  PROVE  IInv'
<1>1. ASSUME NEW a \in Accesses, LwrbStore(a) PROVE IInv'
  BY <1>1, StoreLinearInv, StoreWrapInv, StoreIndexInv DEF Accesses
<1>2. ASSUME NEW a \in Accesses, LwrbLoad(a) PROVE IInv'
  BY <1>2, LoadLinearInv, LoadWrapInv, ReadIndexInv DEF Accesses
<1> QED
  BY Steps, <1>1, <1>2, QuietRing, WriteBeginInv, LwrbWriteInv, ReadBeginInv, AppendRawInv

\* The invariant of the ring holds for any capacity and size of pointers.
THEOREM RingInvariant ==
  ASSUME Ordered
  PROVE  Spec => []IInv
<1>1. IInv /\ [Next]_vars => IInv'
  BY NextInv
<1> QED
  BY <1>1, InitInv, PTL DEF Spec

\* The variables keep their types.
THEOREM RingTypes ==
  ASSUME Ordered
  PROVE  Spec => []TypeOK
<1>1. IInv => TypeOK
  BY DEF IInv
<1> QED
  BY <1>1, RingInvariant, PTL

\* The collector never gets a pointer that is not that of the oldest record,
\* for any capacity, any size of pointers and any interleaving.
THEOREM RingIntact ==
  ASSUME Ordered
  PROVE  Spec => []ReadIntact
<1>1. IInv => ReadIntact
  BY DEF IInv, TakenInv, ReadIntact
<1> QED
  BY <1>1, RingInvariant, PTL

-----------------------------------------------------------------------------
(* Signals, and the exit of the input.                                     *)

LEMMA PendingStep ==
  ASSUME PendingIsAnswered, [Next]_vars
  PROVE  PendingIsAnswered'
<1> USE DEF PendingIsAnswered
<1>1. CASE UNCHANGED vars
  BY <1>1 DEF vars, signal, prodVars, engVars
<1>2. CASE Producer
  <2>1. ASSUME NEW a \in Accesses, LwrbStore(a) PROVE PendingIsAnswered'
    BY <2>1 DEF LwrbStore, signal, engVars
  <2>2. CASE Append \/ WriteBegin \/ WriteRefused \/ DropRecord \/ LwrbWrite
    BY <2>2 DEF Append, WriteBegin, WriteRefused, DropRecord, LwrbWrite, signal, engVars
  <2>3. CASE WriteEnd
    BY <2>3, Zenon DEF WriteEnd, engVars
  <2>4. CASE WritePipe
    BY <2>4 DEF WritePipe, engVars
  <2> QED
    BY <1>2, <2>1, <2>2, <2>3, <2>4 DEF Producer
<1>3. CASE Engine
  <2>1. ASSUME NEW a \in Accesses, LwrbLoad(a) PROVE PendingIsAnswered'
    BY <2>1 DEF LwrbLoad, signal, prodVars
  <2>2. CASE HandleSignal \/ EndOfRound \/ CollectorTimer \/ CollectPaused \/ ResetPending
    BY <2>2 DEF HandleSignal, EndOfRound, CollectorTimer, CollectPaused, ResetPending, signal,
       prodVars
  <2>3. CASE ReadBegin
    BY <2>3 DEF ReadBegin, signal, prodVars
  <2>4. CASE AppendRaw
    BY <2>4 DEF AppendRaw, signal, prodVars
  <2>5. CASE Resume \/ InputExit \/ ThreadJoined
    BY <2>5 DEF Resume, InputExit, ThreadJoined, signal, prodVars
  <2> QED
    BY <1>3, <2>1, <2>2, <2>3, <2>4, <2>5 DEF Engine, Collector
<1> QED
  BY <1>1, <1>2, <1>3 DEF Next

\* A pending flush is always answered, whatever the order of the accesses: the
\* flag never stays set with nothing on its way that resets it.
THEOREM RingSignals == Spec => []PendingIsAnswered
<1>1. Init => PendingIsAnswered
  BY DEF Init, PendingIsAnswered
<1>2. PendingIsAnswered /\ [Next]_vars => PendingIsAnswered'
  BY PendingStep
<1> QED
  BY <1>1, <1>2, PTL DEF Spec

\* Once the thread of the input was joined, nobody writes.
ExitInv ==
  /\ ~stop => eng \notin {"join", "cleanup", "stopped"}
  /\ stop => eng \in {"join", "cleanup", "load", "append", "stopped"}
  /\ stop /\ eng # "join" => prod = "idle"

LEMMA ExitStep ==
  ASSUME IInv, ExitInv, NothingLeftInRing, [Next]_vars
  PROVE  ExitInv' /\ NothingLeftInRing'
<1> USE DEF ExitInv, NothingLeftInRing
<1>1. CASE UNCHANGED vars
  BY <1>1 DEF vars, shared, prodVars, engVars
<1>2. CASE Producer
  <2>1. UNCHANGED <<stop, eng>> /\ (prod # "idle" \/ ~stop)
    BY <1>2 DEF Producer, Append, WriteBegin, WriteRefused, DropRecord, LwrbWrite, LwrbStore,
       WriteEnd, WritePipe, engVars
  <2> QED
    BY <2>1
<1>3. CASE Engine
  <2>1. ASSUME NEW a \in Accesses, LwrbLoad(a) PROVE ExitInv' /\ NothingLeftInRing'
    BY <2>1 DEF LwrbLoad, prodVars
  <2>2. CASE HandleSignal \/ EndOfRound \/ CollectorTimer \/ CollectPaused \/ ResetPending
    BY <2>2 DEF HandleSignal, EndOfRound, CollectorTimer, CollectPaused, ResetPending, prodVars
  <2>3. CASE ReadBegin
    <3>1. get_full(w, r) = 0 => recv = sent
      <4>1. sent - recv \in Nat /\ sent \in Nat /\ recv \in Nat
        BY DEF IInv, TypeOK, RingInv
      <4>2. 0 < sent - recv => Off(0) + E <= Off(sent - recv)
        BY <4>1, OffFacts
      <4>3. get_full(w, r) = 0 => ~(0 < sent - recv)
        BY <4>2, OffFacts, Geometry DEF IInv, RingInv
      <4> QED
        BY <4>1, <4>3
    <3> QED
      BY <2>3, <3>1 DEF ReadBegin, shared, prodVars
  <2>4. CASE AppendRaw
    BY <2>4 DEF AppendRaw, prodVars
  <2>5. CASE Resume \/ InputExit \/ ThreadJoined
    BY <2>5 DEF Resume, InputExit, ThreadJoined, prodVars
  <2> QED
    BY <1>3, <2>1, <2>2, <2>3, <2>4, <2>5 DEF Engine, Collector
<1> QED
  BY <1>1, <1>2, <1>3 DEF Next

\* Whatever the input's thread was doing when the engine shut down, the cleanup
\* frees all the records it left in the ring.
THEOREM RingExit ==
  ASSUME Ordered
  PROVE  Spec => []NothingLeftInRing
<1>1. Init => ExitInv /\ NothingLeftInRing
  BY DEF Init, ExitInv, NothingLeftInRing
<1>2. IInv /\ ExitInv /\ NothingLeftInRing /\ [Next]_vars => ExitInv' /\ NothingLeftInRing'
  BY ExitStep
<1> QED
  BY <1>1, <1>2, RingInvariant, PTL DEF Spec

-----------------------------------------------------------------------------
(* The ring implements the bounded queue.                                  *)

Out == IF eng = "append" THEN RecordOf(d) ELSE cr

LEMMA OutIs ==
  ASSUME IInv
  PROVE  Out = IF eng = "append" THEN recv - 1 ELSE cr
<1>1. CASE eng = "append"
  <2>1. recv - 1 \in 0..(sent - 1) /\ sent \in Nat
    BY <1>1 DEF IInv, TypeOK, TakenInv, RingInv
  <2> QED
    BY <1>1, <2>1, WholeRecord DEF IInv, TakenInv, Out
<1> QED
  BY <1>1 DEF Out

LEMMA FifoStep ==
  ASSUME IInv, IInv', [Next]_vars, Ordered
  PROVE  [Fifo!Next]_(Fifo!vars)
<1>0. /\ Out = IF eng = "append" THEN recv - 1 ELSE cr
      /\ Out' = IF eng' = "append" THEN recv' - 1 ELSE cr'
  <2>1. IInv => Out = IF eng = "append" THEN recv - 1 ELSE cr
    BY OutIs
  <2>2. (IInv => Out = IF eng = "append" THEN recv - 1 ELSE cr)'
    BY OutIs, PTL
  <2> QED
    BY <2>1, <2>2
<1>1. CASE QuietSteps \/ WriteBegin \/ LwrbWrite \/ ReadBegin
  <2>1. UNCHANGED <<sent, recv, cr>> /\ (eng = "append" <=> eng' = "append")
    BY <1>1 DEF QuietSteps, Append, WriteRefused, DropRecord, WriteEnd, WritePipe, HandleSignal,
       EndOfRound, CollectorTimer, CollectPaused, ResetPending, Resume, InputExit,
       ThreadJoined, vars, shared, prodVars, engVars, readVars, WriteBegin, LwrbWrite, ReadBegin
  <2> QED
    BY <1>0, <2>1 DEF Fifo!vars, Out
<1>2. CASE \E a \in Accesses : LwrbStore(a)
  <2>1. PICK a \in Accesses : LwrbStore(a)
    BY <1>2
  <2>2. UNCHANGED <<recv, cr, eng>> /\ prod = "store"
    BY <2>1 DEF LwrbStore, engVars
  <2>3. CASE a # "index"
    <3>1. sent' = sent
      BY <2>1, <2>3 DEF LwrbStore, StoreLinear, StoreWrap, StoreIndex
    <3> QED
      BY <1>0, <2>2, <3>1 DEF Fifo!vars, Out
  <2>4. CASE a = "index"
    <3>1. sent' = sent + 1
      BY <2>1, <2>4 DEF LwrbStore, StoreLinear, StoreWrap, StoreIndex
    <3>2. sent - recv \in Nat /\ Off(sent - recv) + E <= data_size /\ Off(sent - recv) \in Nat
      BY <2>2, FreeFacts DEF IInv, SpaceInv
    <3>3. sent - recv < Cap
      <4>1. Cap \in Nat
        BY RingSizes
      <4>2. sent - recv # Cap
        BY <3>2, Geometry, GeometryCap
      <4>3. Cap < sent - recv => Off(Cap) + E <= Off(sent - recv)
        BY <4>1, <3>2, OffFacts
      <4>4. ~(Cap < sent - recv)
        BY <4>3, <3>2, Geometry, GeometryCap
      <4> QED
        BY <4>1, <4>2, <4>4, <3>2
    <3>4. Fifo!Put
      BY <1>0, <2>2, <3>1, <3>3 DEF Fifo!Put, Out
    <3> QED
      BY <3>4 DEF Fifo!Next
  <2> QED
    BY <2>3, <2>4
<1>3. CASE AppendRaw
  <2>1. UNCHANGED <<sent, recv>> /\ cr' = recv - 1 /\ eng = "append" /\ eng' # "append"
    BY <1>3, AppendRawInv DEF AppendRaw, shared
  <2> QED
    BY <1>0, <2>1 DEF Fifo!vars, Out
<1>4. CASE \E a \in Accesses : LwrbLoad(a)
  <2>1. PICK a \in Accesses : LwrbLoad(a)
    BY <1>4
  <2>2. UNCHANGED <<sent, cr>> /\ eng = "load"
    BY <2>1 DEF LwrbLoad
  <2>3. CASE a # "index"
    <3>1. recv' = recv /\ a \in {"linear", "wrap"}
      BY <2>1, <2>3 DEF LwrbLoad, LoadLinear, LoadWrap, ReadIndex, Accesses
    <3>2. "index" \in rtodo'
      BY <2>1, <2>2, <2>3 DEF LwrbLoad, IInv, LoadInv
    <3>3. eng' # "append"
      BY <2>1, <3>2 DEF LwrbLoad
    <3> QED
      BY <1>0, <2>2, <3>1, <3>3 DEF Fifo!vars, Out
  <2>4. CASE a = "index"
    <3>1. recv' = recv + 1 /\ eng' = "append" /\ recv < sent
      BY <2>1, <2>4, ReadIndexInv
    <3>2. recv' - 1 = recv
      BY <3>1 DEF IInv, TypeOK
    <3>3. Fifo!Get
      BY <1>0, <2>2, <3>1, <3>2 DEF Fifo!Get, Out
    <3> QED
      BY <3>3 DEF Fifo!Next
  <2> QED
    BY <2>3, <2>4
<1> QED
  BY Steps, <1>1, <1>2, <1>3, <1>4

\* Records go through the ring once, in order and whole, and at most Cap of
\* them are inside: the ring implements a bounded queue.
THEOREM RingIsFifo ==
  ASSUME Ordered
  PROVE  Spec => RefinesFifo
<1>1. Init => Fifo!Init
  BY DEF Init, Fifo!Init
<1>2. IInv /\ IInv' /\ [Next]_vars => [Fifo!Next]_(Fifo!vars)
  BY FifoStep
<1> QED
  BY <1>1, <1>2, RingInvariant, PTL DEF Spec, RefinesFifo, Fifo!Spec
=============================================================================
