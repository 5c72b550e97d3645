------------------------ MODULE FlbFlowControlProofs ------------------------
(***************************************************************************)
(* Proofs about FlbFlowControl, for any inputs, storage types, limits and  *)
(* sizes.  The first part does not look at what the chunks hold: its       *)
(* results rest on when the statuses change and on what the plugins are    *)
(* told in the same step.  The second part is about the chunks: bytes and  *)
(* mapped files are counted as the elements of a set.                      *)
(***************************************************************************)
EXTENDS FlbFlowControl, SequenceTheorems, FiniteSetTheorems, TLAPS

\* The types the proofs need.
Types ==
  /\ mem_buf_status \in [Inputs -> {"running", "paused"}]
  /\ storage_buf_status \in [Inputs -> {"running", "paused"}]
  /\ running \in [Inputs -> BOOLEAN]
  /\ chan \in [Inputs -> Seq({"pause", "resume"})]
  /\ senders \subseteq Inputs
  /\ is_ingestion_active \in BOOLEAN

\* Only the plugin of a threaded input is told through a pipe; and an input
\* can reach one of the two limits only.
OnePipe == \A i \in Inputs \ Threaded : chan[i] = <<>>
OneLimit ==
  \A i \in Inputs :
    /\ mem_buf_status[i] = "paused" => Kind[i] = "mem"
    /\ storage_buf_status[i] = "paused" => Kind[i] = "fs"

Base == Types /\ OnePipe /\ OneLimit

-----------------------------------------------------------------------------
(* What a step tells the plugins.                                          *)

\* Tell changes what a plugin was told last, and nothing else.
LEMMA TellTypes ==
  ASSUME Types, NEW P, NEW R, Tell(P, R)
  PROVE  /\ running' \in [Inputs -> BOOLEAN]
         /\ chan' \in [Inputs -> Seq({"pause", "resume"})]
<1>1. running' \in [Inputs -> BOOLEAN]
  BY Zenon DEF Types, Tell
<1>2. ASSUME NEW i \in Inputs
      PROVE  /\ chan[i] \in Seq({"pause", "resume"})
             /\ Append(chan[i], "pause") \in Seq({"pause", "resume"})
             /\ Append(chan[i], "resume") \in Seq({"pause", "resume"})
  BY DEF Types
<1>3. chan' \in [Inputs -> Seq({"pause", "resume"})]
  BY <1>2, Zenon DEF Tell
<1> QED BY <1>1, <1>3

LEMMA TellPipe ==
  ASSUME Types, OnePipe, NEW P, NEW R, Tell(P, R)
  PROVE  OnePipe'
BY DEF Types, OnePipe, Tell

\* A plugin in P was told to pause.
LEMMA ToldPause ==
  ASSUME Types, OnePipe, NEW P, NEW R, Tell(P, R), NEW i \in Inputs, i \in P
  PROVE  ~ToldToRun(i)'
<1>1. CASE i \in Threaded
  <2>1. chan'[i] = Append(chan[i], "pause")
    BY <1>1 DEF Tell
  <2>2. chan[i] \in Seq({"pause", "resume"})
    BY DEF Types
  <2>3. chan'[i] # <<>> /\ chan'[i][Len(chan'[i])] = "pause"
    BY <2>1, <2>2
  <2> QED BY <2>3 DEF ToldToRun
<1>2. CASE i \notin Threaded
  <2>1. chan'[i] = <<>>
    BY <1>2 DEF Tell, OnePipe
  <2>2. running'[i] = FALSE
    BY <1>2, Zenon DEF Tell
  <2> QED BY <2>1, <2>2 DEF ToldToRun
<1> QED BY <1>1, <1>2

\* A plugin in R, and not in P, was told to run while the ingestion is active.
LEMMA ToldResume ==
  ASSUME Types, OnePipe, NEW P, NEW R, Tell(P, R), NEW i \in Inputs, i \in R, i \notin P,
         is_ingestion_active
  PROVE  ToldToRun(i)'
<1>1. CASE i \in Threaded
  <2>1. chan'[i] = Append(chan[i], "resume")
    BY <1>1 DEF Tell
  <2>2. chan[i] \in Seq({"pause", "resume"})
    BY DEF Types
  <2>3. chan'[i] # <<>> /\ chan'[i][Len(chan'[i])] = "resume"
    BY <2>1, <2>2
  <2> QED BY <2>3 DEF ToldToRun
<1>2. CASE i \notin Threaded
  <2>1. chan'[i] = <<>>
    BY <1>2 DEF Tell, OnePipe
  <2>2. running'[i] = TRUE
    BY <1>2, Zenon DEF Tell
  <2> QED BY <2>1, <2>2 DEF ToldToRun
<1> QED BY <1>1, <1>2

\* The others were told nothing.
LEMMA ToldNothing ==
  ASSUME Types, OnePipe, NEW P, NEW R, Tell(P, R), NEW i \in Inputs, i \notin P, i \notin R
  PROVE  ToldToRun(i)' = ToldToRun(i)
<1>1. chan'[i] = chan[i]
  BY DEF Tell
<1>2. CASE i \in Threaded
  <2>1. running'[i] = running[i]
    BY <1>2 DEF Tell
  <2> QED BY <1>1, <2>1 DEF ToldToRun
<1>3. CASE i \notin Threaded
  <2>1. running'[i] = running[i]
    BY <1>3, Zenon DEF Tell, Types
  <2> QED BY <1>1, <2>1 DEF ToldToRun
<1> QED BY <1>2, <1>3

\* The last element of a sequence is the last one of its tail, if there is one.
LEMMA LastOfTail ==
  ASSUME NEW S, NEW q \in Seq(S), q # <<>>
  PROVE  /\ Tail(q) = <<>> => Head(q) = q[Len(q)]
         /\ Tail(q) # <<>> => Tail(q)[Len(Tail(q))] = q[Len(q)]
<1>1. /\ Len(q) \in Nat /\ Len(q) # 0 /\ Head(q) = q[1] /\ Tail(q) \in Seq(S)
      /\ Len(Tail(q)) = Len(q) - 1
      /\ \A k \in 1..Len(Tail(q)) : Tail(q)[k] = q[k + 1]
  BY HeadTailProperties, EmptySeq, LenProperties
<1>2. ASSUME Tail(q) = <<>> PROVE Head(q) = q[Len(q)]
  <2>1. Len(<<>>) = 0
    BY EmptySeq
  <2>2. Len(Tail(q)) = 0
    BY <1>2, <2>1, Zenon
  <2> DEFINE n == Len(Tail(q))
  <2>3. n = 0 /\ n = Len(q) - 1 /\ Len(q) \in Nat
    BY <1>1, <2>2, Zenon
  <2> HIDE DEF n
  <2>4. Len(q) = 1
    BY <2>3
  <2> QED BY <1>1, <2>4, Zenon
<1>3. ASSUME Tail(q) # <<>> PROVE Tail(q)[Len(Tail(q))] = q[Len(q)]
  <2>1. \A t \in Seq(S) : t # <<>> => Len(t) \in Nat \ {0}
    BY EmptySeq
  <2>2. Len(Tail(q)) \in Nat \ {0}
    BY <1>1, <1>3, <2>1
  <2> DEFINE n == Len(Tail(q))
  <2>3. n \in 1..n /\ n + 1 = Len(q)
    BY <1>1, <2>2
  <2>4. Tail(q)[n] = q[n + 1]
    BY <1>1, <2>3
  <2> QED BY <2>3, <2>4
<1> QED BY <1>2, <1>3

\* Reading a message does not change what the plugin was told last, while the
\* ingestion is active; afterwards it may only forget to run.
LEMMA ToldRead ==
  ASSUME Types, NEW i \in Inputs, ThreadTold(i), NEW j \in Inputs
  PROVE  /\ is_ingestion_active => (ToldToRun(j) => ToldToRun(j)')
         /\ ToldToRun(j)' => ToldToRun(j)
<1>1. CASE j # i
  <2>1. chan'[j] = chan[j] /\ running'[j] = running[j]
    BY <1>1 DEF ThreadTold, Types
  <2> QED BY <2>1 DEF ToldToRun
<1>2. CASE j = i
  <2>1. /\ chan[i] \in Seq({"pause", "resume"}) /\ chan[i] # <<>>
        /\ chan'[i] = Tail(chan[i])
    BY DEF ThreadTold, Types
  <2>2. CASE chan'[i] = <<>>
    <3>1. Head(chan[i]) = chan[i][Len(chan[i])]
      BY <2>1, <2>2, LastOfTail
    <3>2. running'[i] = (Head(chan[i]) = "resume" /\ (running[i] \/ is_ingestion_active))
      BY Zenon DEF ThreadTold, Types
    <3>3. ToldToRun(i) <=> Head(chan[i]) = "resume"
      BY <2>1, <3>1, Zenon DEF ToldToRun
    <3>4. ToldToRun(i)' <=> running'[i]
      BY <2>2, Zenon DEF ToldToRun
    <3> QED BY <1>2, <3>2, <3>3, <3>4, Zenon
  <2>3. CASE chan'[i] # <<>>
    <3>1. chan'[i][Len(chan'[i])] = chan[i][Len(chan[i])]
      BY <2>1, <2>3, LastOfTail
    <3> QED BY <1>2, <2>1, <2>3, <3>1, Zenon DEF ToldToRun
  <2> QED BY <2>2, <2>3
<1> QED BY <1>1, <1>2

-----------------------------------------------------------------------------
(* The shapes of a step, as far as statuses and messages go.               *)

Quiet == UNCHANGED <<status, told, senders, is_ingestion_active>>

\* i sends to an emitter that is paused.
Held(i) == Em # None /\ i \in senders' /\ flb_input_buf_paused(Em)

\* An append that the filters swallow: at most i is paused, for its emitter.
FilterStep(i, Q) ==
  /\ UNCHANGED <<status, is_ingestion_active>>
  /\ Tell(Q, {})
  /\ \A j \in Q : j = i /\ Held(i)
  /\ senders \subseteq senders' /\ senders' \subseteq Inputs

\* An append that is written: i may reach a limit.
Hits(i) == HitsMem(i, chunks') \/ HitsStorage(i, chunks')
PauseStep(i, Q) ==
  /\ ~flb_input_buf_paused(i)
  /\ storage_buf_status' = [storage_buf_status EXCEPT ![i] =
                              IF HitsStorage(i, chunks') THEN "paused" ELSE @]
  /\ mem_buf_status' = [mem_buf_status EXCEPT ![i] =
                          IF HitsMem(i, chunks') THEN "paused" ELSE @]
  /\ Tell(Q, {})
  /\ Hits(i) => i \in Q
  /\ \A j \in Q : \/ j = i /\ (Hits(i) \/ Held(i))
                  \/ i = Em /\ j \in senders /\ Hits(i)
  /\ senders \subseteq senders' /\ senders' \subseteq Inputs
  /\ UNCHANGED is_ingestion_active

ResumeStep(i) ==
  /\ set_limits(i, chunks')
  /\ UNCHANGED <<senders, is_ingestion_active>>

LEMMA PausesSelf ==
  ASSUME NEW i \in Inputs, ~flb_input_buf_paused(i)
  PROVE  i \in Pauses(i)
BY DEF Pauses

LEMMA PausesWhom ==
  ASSUME NEW i \in Inputs, NEW j \in Pauses(i)
  PROVE  j = i \/ (i = Em /\ j \in senders)
BY DEF Pauses

LEMMA EmitPausesWhom ==
  ASSUME NEW i \in Inputs, i # Em, NEW j \in EmitPauses(i)
  PROVE  j = i /\ flb_input_buf_paused(Em)
BY DEF EmitPauses, Pauses

\* P is what the caller has already paused: nobody, or i for its emitter.
LEMMA WrittenShape ==
  ASSUME Types, NEW i \in Inputs, NEW n \in Sizes, NEW P, AppendWritten(i, n, P),
         \A j \in P : j = i /\ Held(i),
         senders \subseteq senders', senders' \subseteq Inputs
  PROVE  \E Q : PauseStep(i, Q)
<1> DEFINE Q == P \cup ProtectPauses(i, chunks')
<1>1. /\ ~flb_input_buf_paused(i) /\ Tell(Q, {}) /\ UNCHANGED is_ingestion_active
      /\ storage_buf_status' = [storage_buf_status EXCEPT ![i] =
                              IF HitsStorage(i, chunks') THEN "paused" ELSE @]
      /\ mem_buf_status' = [mem_buf_status EXCEPT ![i] =
                          IF HitsMem(i, chunks') THEN "paused" ELSE @]
  BY DEF AppendWritten
<1>2. Hits(i) => i \in Q
  BY <1>1, PausesSelf DEF ProtectPauses, Hits
<1>3. ASSUME NEW j \in Q
      PROVE  \/ j = i /\ (Hits(i) \/ Held(i))
             \/ i = Em /\ j \in senders /\ Hits(i)
  <2>1. CASE j \in P
    BY <2>1
  <2>2. CASE j \in ProtectPauses(i, chunks')
    <3>1. Hits(i) /\ j \in Pauses(i)
      BY <2>2 DEF ProtectPauses, Hits
    <3> QED BY <3>1, PausesWhom
  <2> QED BY <2>1, <2>2
<1> HIDE DEF Q
<1>4. PauseStep(i, Q)
  BY <1>1, <1>2, <1>3 DEF PauseStep
<1> QED BY <1>4

LEMMA AppendShape ==
  ASSUME FlowInputs, Types, NEW i \in Inputs, NEW rg, AppendRaw(i, rg)
  PROVE  Quiet \/ (\E Q : FilterStep(i, Q)) \/ (\E Q : PauseStep(i, Q))
<1> PICK n \in Sizes :
      \/ (AppendNoRoom(i, n) \/ AppendRefused(i, n)) /\ ring' = rg
      \/ /\ AppendFiltered(i, n, {}) \/ AppendWritten(i, n, {})
         /\ ring' = rg /\ UNCHANGED senders
      \/ /\ Em # None /\ i # Em /\ rg[Em] < MaxRing
         /\ AppendFiltered(i, n, EmitPauses(i)) \/ AppendWritten(i, n, EmitPauses(i))
         /\ Emit(i, rg)
  BY DEF AppendRaw
<1>1. CASE AppendNoRoom(i, n) \/ AppendRefused(i, n)
  BY <1>1 DEF AppendNoRoom, AppendRefused, Quiet
<1>2. CASE AppendFiltered(i, n, {}) /\ UNCHANGED senders
  <2>1. FilterStep(i, {})
    BY <1>2 DEF AppendFiltered, FilterStep, Types
  <2> QED BY <2>1
<1>3. CASE AppendWritten(i, n, {}) /\ UNCHANGED senders
  <2>1. senders \subseteq senders' /\ senders' \subseteq Inputs
    BY <1>3 DEF Types
  <2> QED BY <1>3, <2>1, WrittenShape
<1>4. CASE Em # None /\ i # Em /\ Emit(i, rg)
           /\ (AppendFiltered(i, n, EmitPauses(i)) \/ AppendWritten(i, n, EmitPauses(i)))
  <2>1. senders \subseteq senders' /\ senders' \subseteq Inputs /\ i \in senders'
    BY <1>4 DEF Types, Emit
  <2>2. \A j \in EmitPauses(i) : j = i /\ Held(i)
    BY <1>4, <2>1, EmitPausesWhom DEF Held
  <2>3. PICK P : /\ P = EmitPauses(i)
                 /\ AppendFiltered(i, n, P) \/ AppendWritten(i, n, P)
    BY <1>4
  <2>4. CASE AppendFiltered(i, n, P)
    <3>1. FilterStep(i, P)
      BY <2>1, <2>2, <2>3, <2>4 DEF AppendFiltered, FilterStep
    <3> QED BY <3>1
  <2>5. CASE AppendWritten(i, n, P)
    BY <2>1, <2>2, <2>3, <2>5, WrittenShape
  <2> QED BY <2>3, <2>4, <2>5
<1> QED BY <1>1, <1>2, <1>3, <1>4

LEMMA NextShape ==
  ASSUME FlowInputs, Types, [Next]_vars
  PROVE  \/ Quiet
         \/ \E i \in Inputs : \E Q : FilterStep(i, Q)
         \/ \E i \in Inputs : \E Q : PauseStep(i, Q)
         \/ \E i \in Inputs : ResumeStep(i)
         \/ StopIngestion
         \/ \E i \in Inputs : ThreadTold(i)
<1>1. CASE UNCHANGED vars
  BY <1>1 DEF vars, Quiet
<1>2. ASSUME NEW i \in Inputs, Collect(i) \/ CollectThread(i) \/ CollectRing(i)
      PROVE  Quiet \/ (\E Q : FilterStep(i, Q)) \/ (\E Q : PauseStep(i, Q))
  <2>1. CASE CollectThread(i)
    BY <2>1 DEF CollectThread, Quiet
  <2>2. CASE Collect(i) \/ CollectRing(i)
    <3>1. PICK rg : AppendRaw(i, rg)
      BY <2>2 DEF Collect, CollectRing
    <3> QED BY <3>1, AppendShape
  <2> QED BY <1>2, <2>1, <2>2
<1>3. CASE CollectEmitter
  <2>1. Em \in Inputs
    BY <1>3 DEF CollectEmitter, CollectsEmitter, FlowInputs
  <2>2. PICK rg : AppendRaw(Em, rg)
    BY <1>3 DEF CollectEmitter
  <2> QED BY <2>1, <2>2, AppendShape
<1>4. ASSUME NEW i \in Inputs, NEW k \in 1..MaxChunks,
             Flush(i, k) \/ Retry(i, k) \/ TaskEnds(i, k)
      PROVE  Quiet \/ ResumeStep(i)
  BY <1>4 DEF Flush, Retry, TaskEnds, Quiet, ResumeStep
<1>5. ASSUME NEW i \in Inputs, NEW j \in Inputs, NEW k \in 1..MaxChunks, Release(i, j, k)
      PROVE  Quiet \/ ResumeStep(j)
  BY <1>5 DEF Release, Quiet, ResumeStep
<1> QED BY <1>1, <1>2, <1>3, <1>4, <1>5 DEF Next, Ingest, Engine

-----------------------------------------------------------------------------
(* The base of the invariants.                                             *)

LEMMA InitBase == ASSUME Init PROVE Base
BY DEF Init, Base, Types, OnePipe, OneLimit

\* What set_limits leaves of the statuses of i.
LEMMA LimitsLeft ==
  ASSUME FlowInputs, Base, NEW i \in Inputs, ResumeStep(i)
  PROVE  /\ Types' /\ OneLimit'
         /\ \A j \in Inputs : flb_input_buf_paused(j)' => flb_input_buf_paused(j)
         /\ LeavesMem(i, chunks') \/ LeavesStorage(i, chunks') =>
              ~flb_input_buf_paused(i)' /\ is_ingestion_active
         /\ \A j \in Inputs :
              j # i \/ ~(LeavesMem(i, chunks') \/ LeavesStorage(i, chunks')) =>
                (flb_input_buf_paused(j)' <=> flb_input_buf_paused(j))
<1>1. /\ mem_buf_status' = [mem_buf_status EXCEPT ![i] =
                              IF LeavesMem(i, chunks') THEN "running" ELSE @]
      /\ storage_buf_status' = [storage_buf_status EXCEPT ![i] =
                                  IF LeavesStorage(i, chunks') THEN "running" ELSE @]
      /\ UNCHANGED <<senders, is_ingestion_active>>
  BY DEF ResumeStep, set_limits
<1>2. PICK R : Tell({}, R)
  BY DEF ResumeStep, set_limits
<1>3. Types'
  BY <1>1, <1>2, TellTypes DEF Base, Types
<1>4. OneLimit' /\ \A j \in Inputs : flb_input_buf_paused(j)' => flb_input_buf_paused(j)
  BY <1>1 DEF Base, Types, OneLimit, flb_input_buf_paused
<1>5. ASSUME LeavesMem(i, chunks') \/ LeavesStorage(i, chunks')
      PROVE  ~flb_input_buf_paused(i)' /\ is_ingestion_active
  BY <1>1, <1>5 DEF Base, Types, OneLimit, LeavesMem, LeavesStorage, flb_input_buf_paused
<1>6. \A j \in Inputs :
        j # i \/ ~(LeavesMem(i, chunks') \/ LeavesStorage(i, chunks')) =>
          (flb_input_buf_paused(j)' <=> flb_input_buf_paused(j))
  BY <1>1 DEF Base, Types, flb_input_buf_paused
<1> QED BY <1>3, <1>4, <1>5, <1>6

\* What protect leaves of the statuses.
LEMMA LimitsHit ==
  ASSUME FlowInputs, Base, NEW i \in Inputs, NEW Q, PauseStep(i, Q)
  PROVE  /\ Types' /\ OneLimit'
         /\ \A j \in Inputs : j # i => (flb_input_buf_paused(j)' <=> flb_input_buf_paused(j))
         /\ flb_input_buf_paused(i)' <=> Hits(i)
<1>1. /\ storage_buf_status' = [storage_buf_status EXCEPT ![i] =
                                  IF HitsStorage(i, chunks') THEN "paused" ELSE @]
      /\ mem_buf_status' = [mem_buf_status EXCEPT ![i] =
                              IF HitsMem(i, chunks') THEN "paused" ELSE @]
      /\ ~flb_input_buf_paused(i) /\ Tell(Q, {})
      /\ senders' \subseteq Inputs /\ UNCHANGED is_ingestion_active
  BY DEF PauseStep
<1>2. Types'
  BY <1>1, TellTypes DEF Base, Types
<1>3. (HitsMem(i, chunks') => Kind[i] = "mem") /\ (HitsStorage(i, chunks') => Kind[i] = "fs")
  BY DEF HitsMem, HitsStorage, is_storage_overlimit
<1>4. OneLimit'
  BY <1>1, <1>3 DEF Base, Types, OneLimit
<1>5. \A j \in Inputs : j # i => (flb_input_buf_paused(j)' <=> flb_input_buf_paused(j))
  BY <1>1 DEF Base, Types, flb_input_buf_paused
<1>6. flb_input_buf_paused(i)' <=> Hits(i)
  BY <1>1 DEF Base, Types, flb_input_buf_paused, Hits
<1> QED BY <1>2, <1>4, <1>5, <1>6

LEMMA BaseStep ==
  ASSUME FlowInputs, Base, [Next]_vars
  PROVE  Base'
<1> USE DEF Base
<1>1. CASE Quiet
  BY <1>1 DEF Quiet, status, told, Types, OnePipe, OneLimit
<1>2. ASSUME NEW i \in Inputs, NEW Q, FilterStep(i, Q) PROVE Base'
  <2>1. Tell(Q, {}) /\ UNCHANGED <<status, is_ingestion_active>> /\ senders' \subseteq Inputs
    BY <1>2 DEF FilterStep
  <2>2. Types'
    BY <2>1, TellTypes DEF Types, status
  <2>3. OnePipe'
    BY <2>1, TellPipe
  <2> QED BY <2>1, <2>2, <2>3 DEF OneLimit, status
<1>3. ASSUME NEW i \in Inputs, NEW Q, PauseStep(i, Q) PROVE Base'
  <2>1. OnePipe'
    BY <1>3, TellPipe DEF PauseStep
  <2> QED BY <1>3, <2>1, LimitsHit
<1>4. ASSUME NEW i \in Inputs, ResumeStep(i) PROVE Base'
  <2>1. PICK R : Tell({}, R)
    BY <1>4 DEF ResumeStep, set_limits
  <2>2. OnePipe'
    BY <2>1, TellPipe
  <2> QED BY <1>4, <2>2, LimitsLeft
<1>5. CASE StopIngestion
  <2>1. PICK P : Tell(P, {})
    BY <1>5 DEF StopIngestion
  <2>2. /\ running' \in [Inputs -> BOOLEAN]
        /\ chan' \in [Inputs -> Seq({"pause", "resume"})]
        /\ OnePipe'
    BY <2>1, TellTypes, TellPipe
  <2> QED BY <1>5, <2>2 DEF StopIngestion, status, Types, OneLimit
<1>6. ASSUME NEW i \in Inputs, ThreadTold(i) PROVE Base'
  <2>1. chan[i] \in Seq({"pause", "resume"}) /\ chan[i] # <<>>
    BY <1>6 DEF ThreadTold, Types
  <2>2. Tail(chan[i]) \in Seq({"pause", "resume"})
    BY <2>1, HeadTailProperties
  <2>3. chan' = [chan EXCEPT ![i] = Tail(chan[i])] /\ UNCHANGED <<status, senders, is_ingestion_active>>
    BY <1>6 DEF ThreadTold
  <2>4. running' \in [Inputs -> BOOLEAN]
    BY <1>6, Zenon DEF ThreadTold, Types
  <2>5. chan' \in [Inputs -> Seq({"pause", "resume"})]
    BY <2>2, <2>3 DEF Types
  <2>6. OnePipe'
    BY <2>1, <2>3 DEF OnePipe, Types
  <2> QED BY <2>3, <2>4, <2>5, <2>6 DEF Types, OneLimit, status
<1> QED BY <1>1, <1>2, <1>3, <1>4, <1>5, <1>6, NextShape

-----------------------------------------------------------------------------
(* Without an emitter.                                                     *)

\* The two properties need each other: the stop of the ingestion pauses the
\* inputs whose buffers are not paused, and relies on the others being told.
InStep == Base /\ RunningMayAppend /\ StoppedIsPaused

LEMMA InStepStep ==
  ASSUME FlowInputs, Em = None, InStep, [Next]_vars
  PROVE  InStep'
<1> USE DEF InStep
<1>0. Base' /\ Types /\ OnePipe
  BY BaseStep DEF Base
<1> SUFFICES RunningMayAppend' /\ StoppedIsPaused'
  BY <1>0
<1> DEFINE Fine(j) == /\ ToldToRun(j)' => ~flb_input_buf_paused(j)'
                      /\ ~is_ingestion_active' => ~ToldToRun(j)'
<1> SUFFICES ASSUME NEW j \in Inputs PROVE Fine(j)
  BY DEF RunningMayAppend, StoppedIsPaused
<1>1. /\ ToldToRun(j) => ~flb_input_buf_paused(j)
      /\ ~is_ingestion_active => ~ToldToRun(j)
  BY DEF RunningMayAppend, StoppedIsPaused
<1>2. CASE Quiet
  <2>1. ToldToRun(j)' = ToldToRun(j) /\ flb_input_buf_paused(j)' = flb_input_buf_paused(j)
    BY <1>2 DEF Quiet, status, told, ToldToRun, flb_input_buf_paused
  <2>2. is_ingestion_active' = is_ingestion_active
    BY <1>2 DEF Quiet
  <2> QED BY <1>1, <2>1, <2>2
<1>3. ASSUME NEW i \in Inputs, NEW Q, FilterStep(i, Q) PROVE Fine(j)
  <2>1. j \notin Q /\ j \notin {}
    BY <1>3 DEF FilterStep, Held
  <2>2. ToldToRun(j)' = ToldToRun(j)
    BY <1>0, <1>3, <2>1, ToldNothing DEF FilterStep
  <2>3. flb_input_buf_paused(j)' = flb_input_buf_paused(j) /\ is_ingestion_active' = is_ingestion_active
    BY <1>3 DEF FilterStep, status, flb_input_buf_paused
  <2> QED BY <1>1, <2>2, <2>3
<1>4. ASSUME NEW i \in Inputs, NEW Q, PauseStep(i, Q) PROVE Fine(j)
  <2>1. Tell(Q, {}) /\ is_ingestion_active' = is_ingestion_active /\ (Hits(i) => i \in Q)
    BY <1>4 DEF PauseStep
  <2>2. CASE j \in Q
    BY <1>0, <2>1, <2>2, ToldPause
  <2>3. CASE j \notin Q
    <3>1. ToldToRun(j)' = ToldToRun(j)
      BY <1>0, <2>1, <2>3, ToldNothing
    <3>2. flb_input_buf_paused(j)' => flb_input_buf_paused(j)
      BY <1>4, <2>1, <2>3, LimitsHit
    <3> QED BY <1>1, <2>1, <3>1, <3>2
  <2> QED BY <2>2, <2>3
<1>5. ASSUME NEW i \in Inputs, ResumeStep(i) PROVE Fine(j)
  <2>1. PICK R : /\ R = IF LeavesMem(i, chunks') \/ LeavesStorage(i, chunks') THEN Resumes(i) ELSE {}
                 /\ Tell({}, R)
    BY <1>5 DEF ResumeStep, set_limits
  <2>2. is_ingestion_active' = is_ingestion_active
    BY <1>5 DEF ResumeStep
  <2>3. CASE j \in R
    <3>1. j = i /\ (LeavesMem(i, chunks') \/ LeavesStorage(i, chunks'))
      BY <2>1, <2>3 DEF Resumes, FlowInputs
    <3>2. ~flb_input_buf_paused(j)' /\ is_ingestion_active
      BY <1>5, <3>1, LimitsLeft
    <3> QED BY <2>2, <3>2
  <2>4. CASE j \notin R
    <3>1. ToldToRun(j)' = ToldToRun(j)
      BY <1>0, <2>1, <2>4, ToldNothing
    <3>2. flb_input_buf_paused(j)' => flb_input_buf_paused(j)
      BY <1>5, LimitsLeft
    <3> QED BY <1>1, <2>2, <3>1, <3>2
  <2> QED BY <2>3, <2>4
<1>6. CASE StopIngestion
  <2>1. PICK P : P = UNION {Pauses(i) : i \in Inputs} /\ Tell(P, {})
    BY <1>6 DEF StopIngestion
  <2>2. CASE j \in P
    BY <1>0, <2>1, <2>2, ToldPause
  <2>3. CASE j \notin P
    <3>1. flb_input_buf_paused(j)
      BY <2>1, <2>3, PausesSelf
    <3>2. ToldToRun(j)' = ToldToRun(j)
      BY <1>0, <2>1, <2>3, ToldNothing
    <3> QED BY <1>1, <3>1, <3>2
  <2> QED BY <2>2, <2>3
<1>7. ASSUME NEW i \in Inputs, ThreadTold(i) PROVE Fine(j)
  <2>1. ToldToRun(j)' => ToldToRun(j)
    BY <1>0, <1>7, ToldRead
  <2>2. flb_input_buf_paused(j)' = flb_input_buf_paused(j) /\ is_ingestion_active' = is_ingestion_active
    BY <1>7 DEF ThreadTold, status, flb_input_buf_paused
  <2> QED BY <1>1, <2>1, <2>2
<1> QED BY <1>0, <1>2, <1>3, <1>4, <1>5, <1>6, <1>7, NextShape

\* The properties InStep names hold in every reachable state.
LEMMA FlowInStep == ASSUME FlowInputs, Em = None PROVE Spec => []InStep
<1>1. Init => InStep
  <2> SUFFICES ASSUME Init PROVE InStep
    OBVIOUS
  <2>1. \A i \in Inputs : ~flb_input_buf_paused(i) /\ is_ingestion_active
    BY DEF Init, flb_input_buf_paused
  <2> QED BY <2>1, InitBase DEF InStep, RunningMayAppend, StoppedIsPaused, Init
<1>2. InStep /\ [Next]_vars => InStep'
  BY InStepStep
<1> QED BY <1>1, <1>2, PTL DEF Spec

\* Without an emitter the records of a plugin that flb_input_resume told to run
\* are never refused by flb_input_buf_paused.
THEOREM FlowRunningMayAppend ==
  ASSUME FlowInputs, Em = None PROVE Spec => []RunningMayAppend
<1>1. InStep => RunningMayAppend
  BY DEF InStep
<1> QED BY <1>1, FlowInStep, PTL

\* Without an emitter flb_engine_stop_ingestion leaves no plugin running.
THEOREM FlowStoppedIsPaused ==
  ASSUME FlowInputs, Em = None PROVE Spec => []StoppedIsPaused
<1>1. InStep => StoppedIsPaused
  BY DEF InStep
<1> QED BY <1>1, FlowInStep, PTL

-----------------------------------------------------------------------------
(* With or without an emitter.                                             *)

LEMMA HeldStep ==
  ASSUME FlowInputs, Base, PausedForALimit, [Next]_vars
  PROVE  PausedForALimit'
<1>0. Types /\ OnePipe
  BY DEF Base
<1> DEFINE HeldBy(j) == Em # None /\ j \in senders /\ flb_input_buf_paused(Em)
           Fine(j) == is_ingestion_active' =>
                        ToldToRun(j)' \/ flb_input_buf_paused(j)'
                        \/ (Em # None /\ j \in senders' /\ flb_input_buf_paused(Em)')
<1> SUFFICES ASSUME NEW j \in Inputs, is_ingestion_active' PROVE Fine(j)
  BY DEF PausedForALimit, flb_input_buf_paused
<1>1. is_ingestion_active
  BY <1>0, NextShape DEF Quiet, FilterStep, PauseStep, ResumeStep, StopIngestion, ThreadTold
<1>2. ToldToRun(j) \/ flb_input_buf_paused(j) \/ HeldBy(j)
  BY <1>1 DEF PausedForALimit
<1>3. Em # None => Em \in Inputs
  BY DEF FlowInputs
<1>4. CASE Quiet
  BY <1>2, <1>4 DEF Quiet, status, told, ToldToRun, flb_input_buf_paused
<1>5. ASSUME NEW i \in Inputs, NEW Q, FilterStep(i, Q) PROVE Fine(j)
  <2>1. /\ flb_input_buf_paused(j)' = flb_input_buf_paused(j)
        /\ flb_input_buf_paused(Em)' = flb_input_buf_paused(Em)
        /\ senders \subseteq senders'
    BY <1>5 DEF FilterStep, status, flb_input_buf_paused
  <2>2. CASE j \in Q
    BY <1>5, <2>1, <2>2 DEF FilterStep, Held
  <2>3. CASE j \notin Q
    <3>1. ToldToRun(j)' = ToldToRun(j)
      BY <1>0, <1>5, <2>3, ToldNothing DEF FilterStep
    <3> QED BY <1>2, <2>1, <3>1
  <2> QED BY <2>2, <2>3
<1>6. ASSUME NEW i \in Inputs, NEW Q, PauseStep(i, Q) PROVE Fine(j)
  <2>1. /\ ~flb_input_buf_paused(i) /\ Tell(Q, {}) /\ senders \subseteq senders'
        /\ j \in Q => \/ j = i /\ (Hits(i) \/ Held(i))
                      \/ i = Em /\ j \in senders /\ Hits(i)
    BY <1>6 DEF PauseStep
  <2>2. flb_input_buf_paused(j) => flb_input_buf_paused(j)'
    BY <1>6, <2>1, LimitsHit
  <2>3. Em # None /\ flb_input_buf_paused(Em) => flb_input_buf_paused(Em)'
    BY <1>3, <1>6, <2>1, LimitsHit
  <2>4. Hits(i) => flb_input_buf_paused(i)'
    BY <1>6, LimitsHit
  <2>5. CASE j \in Q
    BY <2>1, <2>3, <2>4, <2>5 DEF Held, FlowInputs
  <2>6. CASE j \notin Q
    <3>1. ToldToRun(j)' = ToldToRun(j)
      BY <1>0, <2>1, <2>6, ToldNothing
    <3> QED BY <1>2, <2>1, <2>2, <2>3, <3>1
  <2> QED BY <2>5, <2>6
<1>7. ASSUME NEW i \in Inputs, ResumeStep(i) PROVE Fine(j)
  <2> DEFINE Leaves == LeavesMem(i, chunks') \/ LeavesStorage(i, chunks')
  <2>1. PICK R : R = (IF Leaves THEN Resumes(i) ELSE {}) /\ Tell({}, R)
    BY <1>7 DEF ResumeStep, set_limits
  <2>2. \A l \in Inputs : l # i \/ ~Leaves => (flb_input_buf_paused(l)' <=> flb_input_buf_paused(l))
    BY <1>7, LimitsLeft
  <2>3. senders' = senders
    BY <1>7 DEF ResumeStep
  <2> HIDE DEF Leaves
  <2>4. CASE j \in R
    BY <1>0, <1>1, <2>1, <2>4, ToldResume
  <2>5. CASE j \notin R
    <3>1. ToldToRun(j)' = ToldToRun(j)
      BY <1>0, <2>1, <2>5, ToldNothing
    <3>2. flb_input_buf_paused(j) => flb_input_buf_paused(j)'
      BY <2>1, <2>2, <2>5 DEF Resumes
    <3>3. HeldBy(j) => flb_input_buf_paused(Em)'
      BY <1>3, <2>1, <2>2, <2>5 DEF Resumes
    <3> QED BY <1>2, <2>3, <3>1, <3>2, <3>3
  <2> QED BY <2>4, <2>5
<1>8. CASE StopIngestion
  BY <1>8 DEF StopIngestion
<1>9. ASSUME NEW i \in Inputs, ThreadTold(i) PROVE Fine(j)
  <2>1. ToldToRun(j) => ToldToRun(j)'
    BY <1>0, <1>1, <1>9, ToldRead
  <2>2. UNCHANGED <<status, senders>>
    BY <1>9 DEF ThreadTold
  <2> QED BY <1>2, <2>1, <2>2 DEF status, flb_input_buf_paused
<1> QED BY <1>0, <1>4, <1>5, <1>6, <1>7, <1>8, <1>9, NextShape

\* No plugin is left paused by flb_input_pause without a limit of its own or of
\* its emitter that holds it.
THEOREM FlowPausedForALimit == ASSUME FlowInputs PROVE Spec => []PausedForALimit
<1>1. Init => Base /\ PausedForALimit
  BY InitBase DEF Init, PausedForALimit, ToldToRun
<1>2. Base /\ PausedForALimit /\ [Next]_vars => Base' /\ PausedForALimit'
  BY BaseStep, HeldStep
<1> QED BY <1>1, <1>2, PTL DEF Spec

-----------------------------------------------------------------------------
(* Bytes and files as sets.                                                *)

LEMMA ChunkFields ==
  ASSUME NEW s \in Seq(Chunk), NEW k \in DOMAIN s
  PROVE  /\ s[k] \in Chunk /\ s[k].size \in Nat /\ s[k].task \in Tasks /\ s[k].up \in BOOLEAN
         /\ s[k] = [size |-> s[k].size, task |-> s[k].task, up |-> s[k].up]
<1>1. s[k] \in Chunk
  BY LenProperties, ElementOfSeq
<1> QED BY <1>1 DEF Chunk

LEMMA MappedIn ==
  ASSUME NEW s, NEW K
  PROVE  /\ \A p \in Mapped(s, K) :
              p = <<p[1], p[2]>> /\ p[1] \in K /\ s[p[1]].up /\ p[2] \in 1..s[p[1]].size
         /\ \A k \in K : \A b \in 1..s[k].size : s[k].up => <<k, b>> \in Mapped(s, K)
BY DEF Mapped

LEMMA DomainFinite ==
  ASSUME NEW s \in Seq(Chunk) PROVE IsFiniteSet(DOMAIN s)
BY LenProperties, FS_Interval

LEMMA MappedFinite ==
  ASSUME NEW s \in Seq(Chunk), NEW K, K \subseteq DOMAIN s
  PROVE  IsFiniteSet(Mapped(s, K)) /\ Cardinality(Mapped(s, K)) \in Nat
<1> DEFINE U == {l \in K : s[l].up}
           Bytes(k) == {k} \X (1..s[k].size)
           f == [k \in U |-> Bytes(k)]
           B == {Bytes(k) : k \in U}
<1>1. IsFiniteSet(U)
  BY DomainFinite, FS_Subset
<1>2. f \in Surjection(U, B)
  BY DEF Surjection
<1>3. IsFiniteSet(B)
  <2> HIDE DEF U, B, f
  <2> QED BY <1>1, <1>2, FS_Surjection
<1>4. ASSUME NEW T \in B PROVE IsFiniteSet(T)
  <2>1. PICK k \in U : T = {k} \X (1..s[k].size)
    OBVIOUS
  <2>2. s[k].size \in Nat
    BY ChunkFields
  <2>3. IsFiniteSet({k})
    BY FS_Singleton
  <2>4. \A n \in Nat : IsFiniteSet(1..n)
    BY FS_Interval
  <2> QED BY <2>1, <2>2, <2>3, <2>4, FS_Product
<1>5. Mapped(s, K) = UNION B
  BY DEF Mapped
<1> HIDE DEF B
<1>6. IsFiniteSet(Mapped(s, K))
  BY <1>3, <1>4, <1>5, FS_UNION
<1> QED BY <1>6, FS_CardinalityType

LEMMA UpBytesNat ==
  ASSUME NEW s \in Seq(Chunk) PROVE UpBytes(s) \in Nat
BY MappedFinite DEF UpBytes

LEMMA UpBytesEmpty == UpBytes(<<>>) = 0
<1>1. DOMAIN <<>> = {}
  OBVIOUS
<1>2. Mapped(<<>>, {}) = {}
  BY DEF Mapped
<1> QED BY <1>1, <1>2, FS_EmptySet DEF UpBytes

\* Fewer chunks, or smaller ones, have fewer bytes.
LEMMA MappedInj ==
  ASSUME NEW s \in Seq(Chunk), NEW t \in Seq(Chunk), NEW L, L \subseteq DOMAIN s,
         NEW K, K \subseteq DOMAIN t, NEW g \in [K -> L],
         \A x, y \in K : g[x] = g[y] => x = y,
         \A x \in K : t[x].up => s[g[x]].up /\ t[x].size <= s[g[x]].size
  PROVE  Cardinality(Mapped(t, K)) <= Cardinality(Mapped(s, L))
<1> DEFINE S == Mapped(t, K)
           T == Mapped(s, L)
           h == [p \in S |-> <<g[p[1]], p[2]>>]
<1>1. ASSUME NEW p \in S PROVE h[p] \in T
  <2>1. p[1] \in K /\ t[p[1]].up /\ p[2] \in 1..t[p[1]].size
    BY MappedIn
  <2>2. /\ g[p[1]] \in L /\ s[g[p[1]]].up /\ t[p[1]].size <= s[g[p[1]]].size
        /\ t[p[1]].size \in Nat /\ s[g[p[1]]].size \in Nat
    BY <2>1, ChunkFields
  <2>3. p[2] \in 1..s[g[p[1]]].size
    BY <2>1, <2>2
  <2> QED BY <2>2, <2>3, MappedIn
<1>2. ASSUME NEW p \in S, NEW q \in S, h[p] = h[q] PROVE p = q
  <2>1. /\ p = <<p[1], p[2]>> /\ p[1] \in K
        /\ q = <<q[1], q[2]>> /\ q[1] \in K
    BY MappedIn
  <2>2. g[p[1]] = g[q[1]] /\ p[2] = q[2]
    BY <1>2
  <2>3. p[1] = q[1]
    BY <2>1, <2>2
  <2> QED BY <2>1, <2>2, <2>3
<1>3. h \in Injection(S, T)
  BY <1>1, <1>2 DEF Injection, IsInjective
<1>4. IsFiniteSet(T)
  BY MappedFinite
<1> HIDE DEF S, T, h
<1>5. Cardinality(S) <= Cardinality(T)
  BY <1>3, <1>4, FS_Injection
<1> QED BY <1>5 DEF S, T

\* The bytes of two disjoint sets of chunks add up.
LEMMA MappedSplit ==
  ASSUME NEW s \in Seq(Chunk), NEW K, NEW L, K \subseteq DOMAIN s, L = DOMAIN s \ K
  PROVE  UpBytes(s) = Cardinality(Mapped(s, K)) + Cardinality(Mapped(s, L))
<1> DEFINE A == Mapped(s, K)
           B == Mapped(s, L)
<1>1. Mapped(s, DOMAIN s) = A \cup B
  BY DEF Mapped
<1>2. A \cap B = {}
  BY MappedIn
<1>3. /\ IsFiniteSet(A) /\ Cardinality(A) \in Nat
      /\ IsFiniteSet(B) /\ Cardinality(B) \in Nat
  BY MappedFinite
<1>4. UpBytes(s) = Cardinality(A \cup B)
  BY <1>1 DEF UpBytes
<1> HIDE DEF A, B
<1>5. Cardinality(A \cup B) = Cardinality(A) + Cardinality(B) - Cardinality(A \cap B)
  BY <1>3, FS_Union
<1>6. Cardinality(A \cap B) = 0
  BY <1>2, FS_EmptySet
<1>7. UpBytes(s) = Cardinality(A) + Cardinality(B)
  BY <1>3, <1>4, <1>5, <1>6
<1> QED BY <1>7 DEF A, B

\* Bytes m + 1 to m + n of chunk k are new.
LEMMA MappedMore ==
  ASSUME NEW s \in Seq(Chunk), NEW t \in Seq(Chunk), NEW k, NEW m \in Nat, NEW n \in Nat,
         Mapped(t, DOMAIN t) \subseteq Mapped(s, DOMAIN s) \cup ({k} \X ((m + 1)..(m + n)))
  PROVE  UpBytes(t) <= UpBytes(s) + n
<1> DEFINE S == Mapped(s, DOMAIN s)
           R == {k} \X ((m + 1)..(m + n))
<1>1. IsFiniteSet(S) /\ Cardinality(S) \in Nat
  BY MappedFinite
<1>2. IsFiniteSet(R) /\ Cardinality(R) = n
  <2>1. IsFiniteSet((m + 1)..(m + n)) /\ Cardinality((m + 1)..(m + n)) = n
    BY FS_Interval
  <2>2. IsFiniteSet({k}) /\ Cardinality({k}) = 1
    BY FS_Singleton
  <2>3. IsFiniteSet(R) /\ Cardinality(R) = 1 * n
    BY <2>1, <2>2, FS_Product
  <2> QED BY <2>3
<1> HIDE DEF S, R
<1>3. Cardinality(S \cap R) \in Nat
  BY <1>1, FS_Intersection, FS_CardinalityType
<1>4. IsFiniteSet(S \cup R) /\ Cardinality(S \cup R) = Cardinality(S) + n - Cardinality(S \cap R)
  BY <1>1, <1>2, FS_Union
<1>5. Cardinality(S \cup R) <= Cardinality(S) + n
  BY <1>1, <1>3, <1>4
<1>6. Cardinality(Mapped(t, DOMAIN t)) <= Cardinality(S \cup R)
  BY <1>4, FS_Subset DEF S, R
<1>7. Cardinality(Mapped(t, DOMAIN t)) \in Nat /\ Cardinality(S \cup R) \in Nat
  BY <1>4, MappedFinite, FS_CardinalityType
<1>8. UpBytes(t) = Cardinality(Mapped(t, DOMAIN t)) /\ UpBytes(s) = Cardinality(S)
  BY DEF UpBytes, S
<1> QED BY <1>1, <1>5, <1>6, <1>7, <1>8

-----------------------------------------------------------------------------
(* Numbers in order.                                                       *)

LEMMA NatMin ==
  ASSUME NEW T, T \subseteq Nat, T # {}
  PROVE  \E x \in T : \A y \in T : x <= y
<1>1. PICK x \in T : \A y \in T : ~(<<y, x>> \in OpToRel(<, Nat))
  BY NatLessThanWellFounded, WFMin, Zenon
<1>2. \A y \in T : ~(y < x)
  BY <1>1 DEF OpToRel
<1> QED BY <1>2

LEMMA NatMax ==
  ASSUME NEW n \in Nat, NEW T, T \subseteq 1..n, T # {}
  PROVE  \E x \in T : \A y \in T : y <= x
<1> DEFINE B == {m \in Nat : \A y \in T : y <= m}
<1>1. n \in B
  OBVIOUS
<1>2. PICK x \in B : \A m \in B : x <= m
  <2>1. B \subseteq Nat /\ B # {}
    BY <1>1
  <2> HIDE DEF B
  <2> QED BY <2>1, NatMin
<1>3. x \in T
  <2> SUFFICES ASSUME x \notin T PROVE FALSE
    OBVIOUS
  <2>1. x \in Nat /\ \A y \in T : y <= x /\ y \in Nat /\ y # x /\ 1 <= y
    BY <1>2
  <2>2. x - 1 \in Nat
    <3>1. PICK y \in T : TRUE
      OBVIOUS
    <3>2. y \in Nat /\ 1 <= y /\ y <= x
      BY <2>1
    <3> QED BY <2>1, <3>2
  <2>3. \A y \in T : y <= x - 1
    BY <2>1
  <2>4. x - 1 \in B
    BY <2>2, <2>3
  <2> QED BY <1>2, <2>1, <2>4
<1> QED BY <1>2, <1>3

Ascending(f, K) ==
  f \in [1..Cardinality(K) -> K] /\ \A x, y \in DOMAIN f : x < y => f[x] < f[y]

\* Every set of positive numbers below a bound can be put in order; the bound
\* is extended by one number at a time.
LEMMA InOrderExists ==
  ASSUME NEW N \in Nat, NEW K \in SUBSET (1..N)
  PROVE  \E f : Ascending(f, K)
<1> DEFINE Fine(n) == \A J \in SUBSET (1..n) : \E f : Ascending(f, J)
           Bad == {n \in Nat : ~Fine(n)}
<1> SUFFICES ASSUME Bad # {} PROVE FALSE
  OBVIOUS
<1>1. PICK n \in Bad : \A m \in Bad : n <= m
  <2>1. Bad \subseteq Nat /\ Bad # {}
    OBVIOUS
  <2> HIDE DEF Bad
  <2> QED BY <2>1, NatMin
<1>2. PICK J \in SUBSET (1..n) : ~\E f : Ascending(f, J)
  BY <1>1
<1>3. n \in Nat /\ n # 0
  <2>1. ASSUME n = 0 PROVE FALSE
    <3>1. J = {}
      BY <1>2, <2>1
    <3>2. Cardinality(J) = 0
      BY <3>1, FS_EmptySet
    <3>3. Ascending(<<>>, J)
      BY <3>1, <3>2 DEF Ascending
    <3> QED BY <1>2, <3>3
  <2> QED BY <1>1, <2>1
<1>4. n - 1 \in Nat /\ n - 1 \notin Bad
  BY <1>1, <1>3
<1>5. Fine(n - 1)
  BY <1>4
<1> DEFINE I == J \ {n}
           c == Cardinality(I)
<1>6. I \in SUBSET (1..(n - 1))
  BY <1>2, <1>3
<1>7. PICK f : Ascending(f, I)
  BY <1>5, <1>6
<1>8. n \in J
  <2>1. ASSUME n \notin J PROVE FALSE
    <3>1. J = I
      BY <2>1
    <3> QED BY <1>2, <1>7, <3>1
  <2> QED BY <2>1
<1>9. c \in Nat /\ Cardinality(J) = c + 1
  <2>1. IsFiniteSet(I)
    <3>1. IsFiniteSet(1..(n - 1))
      BY <1>4, FS_Interval
    <3> QED BY <1>6, <3>1, FS_Subset
  <2>2. J = I \cup {n} /\ n \notin I
    BY <1>8
  <2> HIDE DEF I
  <2> QED BY <2>1, <2>2, FS_AddElement, FS_CardinalityType
<1> DEFINE g == [x \in 1..(c + 1) |-> IF x = c + 1 THEN n ELSE f[x]]
<1>10. f \in [1..c -> I] /\ \A x, y \in 1..c : x < y => f[x] < f[y]
  BY <1>7 DEF Ascending
<1>11. Ascending(g, J)
  <2>1. \A k \in I : k \in J /\ k \in Nat /\ k < n
    BY <1>3, <1>6
  <2>2. \A x \in 1..c : f[x] \in J /\ f[x] \in Nat /\ f[x] < n
    BY <1>10, <2>1
  <2> HIDE DEF I, c
  <2>3. g \in [1..(c + 1) -> J]
    BY <1>8, <1>9, <2>2
  <2>4. ASSUME NEW x \in 1..(c + 1), NEW y \in 1..(c + 1), x < y PROVE g[x] < g[y]
    <3>1. x \in 1..c /\ g[x] = f[x]
      BY <1>9, <2>4
    <3>2. CASE y = c + 1
      BY <2>2, <3>1, <3>2
    <3>3. CASE y # c + 1
      BY <1>9, <1>10, <2>4, <3>1, <3>3
    <3> QED BY <3>2, <3>3
  <2> QED BY <1>9, <2>3, <2>4 DEF Ascending
<1> QED BY <1>2, <1>11

\* InOrder(K) enumerates K.
LEMMA InOrderFacts ==
  ASSUME NEW N \in Nat, NEW K \in SUBSET (1..N)
  PROVE  /\ Cardinality(K) \in Nat /\ InOrder(K) \in [1..Cardinality(K) -> K]
         /\ \A x, y \in 1..Cardinality(K) : InOrder(K)[x] = InOrder(K)[y] => x = y
         /\ \A k \in K : \E x \in 1..Cardinality(K) : InOrder(K)[x] = k
<1> DEFINE c == Cardinality(K)
           f == InOrder(K)
<1>1. IsFiniteSet(K) /\ c \in Nat
  <2>1. IsFiniteSet(1..N)
    BY FS_Interval
  <2> QED BY <2>1, FS_Subset, FS_CardinalityType
<1>2. f \in [1..c -> K] /\ \A x, y \in 1..c : x < y => f[x] < f[y]
  <2>1. PICK g : Ascending(g, K)
    BY InOrderExists
  <2>2. g \in [1..Cardinality(K) -> K] /\ \A x, y \in DOMAIN g : x < y => g[x] < g[y]
    BY <2>1 DEF Ascending
  <2>3. /\ f \in [1..Cardinality(K) -> K]
        /\ \A x, y \in DOMAIN f : x < y => f[x] < f[y]
    BY <2>2 DEF InOrder
  <2> QED BY <2>3
<1> HIDE DEF f, c
<1>3. ASSUME NEW x \in 1..c, NEW y \in 1..c, f[x] = f[y] PROVE x = y
  <2>0. K \subseteq Int
    OBVIOUS
  <2>1. f[x] \in Int /\ f[y] \in Int /\ (x < y => f[x] < f[y]) /\ (y < x => f[y] < f[x])
    BY <1>2, <2>0
  <2>2. ~(x < y) /\ ~(y < x)
    BY <1>3, <2>1
  <2> QED BY <1>1, <2>2
<1>4. f \in Injection(1..c, K)
  BY <1>2, <1>3 DEF Injection, IsInjective
<1>5. Cardinality(1..c) = c
  BY <1>1, FS_Interval
<1>6. f \in Surjection(1..c, K)
  BY <1>1, <1>4, <1>5, FS_Injection DEF c
<1>7. \A k \in K : \E x \in 1..c : f[x] = k
  BY <1>6 DEF Surjection
<1> QED BY <1>1, <1>2, <1>3, <1>7 DEF f, c

-----------------------------------------------------------------------------
(* The operators on the chunks of an input.                                *)

\* The chunks without the kth one.
LEMMA RemoveAtFacts ==
  ASSUME NEW s \in Seq(Chunk), NEW k \in DOMAIN s
  PROVE  /\ RemoveAt(s, k) \in Seq(Chunk) /\ Len(RemoveAt(s, k)) = Len(s) - 1
         /\ \A x \in 1..(Len(s) - 1) : RemoveAt(s, k)[x] = s[IF x < k THEN x ELSE x + 1]
<1> DEFINE n == Len(s)
           a == SubSeq(s, 1, k - 1)
           b == SubSeq(s, k + 1, n)
<1>1. n \in Nat /\ k \in 1..n /\ \A x \in 1..n : s[x] \in Chunk
  BY LenProperties, ElementOfSeq
<1>2. a \in Seq(Chunk) /\ Len(a) = k - 1 /\ \A x \in 1..(k - 1) : a[x] = s[x]
  <2>1. \A x \in 1..(k - 1) : s[x] \in Chunk
    BY <1>1
  <2> QED BY <1>1, <2>1, SubSeqProperties
<1>3. /\ b \in Seq(Chunk) /\ Len(b) = n - k
      /\ \A x \in 1..(n - k) : b[x] = s[k + x]
  <2>1. \A x \in (k + 1)..n : s[x] \in Chunk
    BY <1>1
  <2>2. /\ b \in Seq(Chunk) /\ Len(b) = IF k + 1 <= n THEN n - (k + 1) + 1 ELSE 0
        /\ \A x \in 1..(n - (k + 1) + 1) : b[x] = s[k + 1 + x - 1]
    BY <1>1, <2>1, SubSeqProperties
  <2> HIDE DEF b, n
  <2> QED BY <1>1, <2>2
<1>4. /\ a \o b \in Seq(Chunk) /\ Len(a \o b) = Len(a) + Len(b)
      /\ \A x \in 1..(Len(a) + Len(b)) :
           (a \o b)[x] = IF x <= Len(a) THEN a[x] ELSE b[x - Len(a)]
  BY <1>2, <1>3, ConcatProperties
<1>5. RemoveAt(s, k) = a \o b
  BY DEF RemoveAt
<1> HIDE DEF a, b, n
<1>6. Len(a) + Len(b) = n - 1
  BY <1>1, <1>2, <1>3
<1>7. ASSUME NEW x \in 1..(n - 1) PROVE (a \o b)[x] = s[IF x < k THEN x ELSE x + 1]
  <2>1. CASE x < k
    BY <1>1, <1>2, <1>4, <1>6, <2>1
  <2>2. CASE ~(x < k)
    <3>1. x - (k - 1) \in 1..(n - k) /\ k + (x - (k - 1)) = x + 1 /\ ~(x <= Len(a))
      BY <1>1, <1>2, <2>2
    <3>2. (a \o b)[x] = b[x - (k - 1)]
      BY <1>2, <1>4, <1>6, <3>1
    <3> QED BY <1>3, <2>2, <3>1, <3>2
  <2> QED BY <2>1, <2>2
<1> QED BY <1>4, <1>5, <1>6, <1>7 DEF n

\* Chunks that come from those of s, no two from the same one.
ComeFrom(t, s, g) ==
  /\ t \in Seq(Chunk) /\ g \in [DOMAIN t -> DOMAIN s]
  /\ \A x, y \in DOMAIN t : g[x] = g[y] => x = y

WithoutOne(t, s, k, g) ==
  ComeFrom(t, s, g) /\ \A x \in DOMAIN t : g[x] # k /\ t[x] = s[g[x]]

LEMMA RemoveAtFrom ==
  ASSUME NEW s \in Seq(Chunk), NEW k \in DOMAIN s
  PROVE  \E g : WithoutOne(RemoveAt(s, k), s, k, g)
<1> DEFINE t == RemoveAt(s, k)
           n == Len(s)
           g == [x \in 1..(n - 1) |-> IF x < k THEN x ELSE x + 1]
<1>1. n \in Nat /\ DOMAIN s = 1..n /\ k \in 1..n
  BY LenProperties
<1>2. /\ t \in Seq(Chunk) /\ DOMAIN t = 1..(n - 1)
      /\ \A x \in 1..(n - 1) : t[x] = s[IF x < k THEN x ELSE x + 1]
  BY RemoveAtFacts, LenProperties
<1> HIDE DEF t, n
<1>3. g \in [DOMAIN t -> DOMAIN s]
  BY <1>1, <1>2
<1>4. \A x, y \in DOMAIN t : g[x] = g[y] => x = y
  BY <1>1, <1>2
<1>5. \A x \in DOMAIN t : g[x] # k /\ t[x] = s[g[x]]
  BY <1>1, <1>2
<1>6. WithoutOne(t, s, k, g)
  BY <1>2, <1>3, <1>4, <1>5 DEF WithoutOne, ComeFrom
<1> QED BY <1>6 DEF t

\* Chunks that come from s and are neither mapped anew nor larger.
LEMMA FromBytes ==
  ASSUME NEW s \in Seq(Chunk), NEW t, NEW g, ComeFrom(t, s, g),
         \A x \in DOMAIN t : t[x].up => s[g[x]].up /\ t[x].size <= s[g[x]].size
  PROVE  UpBytes(t) <= UpBytes(s)
BY MappedInj DEF ComeFrom, UpBytes

LEMMA FromSame ==
  ASSUME NEW s \in Seq(Chunk), NEW t, NEW g, ComeFrom(t, s, g),
         \A x \in DOMAIN t : t[x] = s[g[x]]
  PROVE  UpBytes(t) <= UpBytes(s)
<1>1. \A x \in DOMAIN t : t[x].up => s[g[x]].up /\ t[x].size <= s[g[x]].size
  BY ChunkFields DEF ComeFrom
<1> QED BY <1>1, FromBytes

-----------------------------------------------------------------------------
(* Releasing chunks of a memory ring buffer.                               *)

\* f numbers the chunks K of s that t has.
Enumerates(f, t, s, K) ==
  /\ t \in Seq(Chunk) /\ f \in [DOMAIN t -> K]
  /\ \A x, y \in DOMAIN t : f[x] = f[y] => x = y
  /\ \A j \in K : \E x \in DOMAIN t : f[x] = j
  /\ \A x \in DOMAIN t : t[x] = s[f[x]]

LEMMA KeptFacts ==
  ASSUME NEW s \in Seq(Chunk), NEW k \in 0..Len(s)
  PROVE  \E f : Enumerates(f, Kept(s, k), s, DOMAIN s \ Released(s, k))
<1> DEFINE K == DOMAIN s \ Released(s, k)
           f == InOrder(K)
           c == Cardinality(K)
           t == Kept(s, k)
<1>1. Len(s) \in Nat /\ DOMAIN s = 1..Len(s) /\ K \in SUBSET (1..Len(s))
  BY LenProperties
<1>2. t = [x \in DOMAIN f |-> s[f[x]]]
  BY DEF Kept
<1>3. \A j \in K : s[j] \in Chunk
  BY ChunkFields
<1> HIDE DEF K
<1>4. /\ c \in Nat /\ f \in [1..c -> K] /\ \A x, y \in 1..c : f[x] = f[y] => x = y
      /\ \A j \in K : \E x \in 1..c : f[x] = j
  BY <1>1, InOrderFacts
<1> HIDE DEF f, c, t
<1>5. t \in [1..c -> Chunk]
  BY <1>2, <1>3, <1>4
<1>6. t \in Seq(Chunk)
  BY <1>4, <1>5, SeqDef
<1>7. DOMAIN t = 1..c /\ \A x \in DOMAIN t : t[x] = s[f[x]]
  BY <1>2, <1>4
<1>8. Enumerates(f, t, s, K)
  BY <1>4, <1>6, <1>7 DEF Enumerates
<1> QED BY <1>8 DEF t, K

\* What is kept are the bytes of the chunks that are not released.
LEMMA KeptBytes ==
  ASSUME NEW s \in Seq(Chunk), NEW k \in 0..Len(s)
  PROVE  UpBytes(Kept(s, k)) = Cardinality(Mapped(s, DOMAIN s \ Released(s, k)))
<1> DEFINE K == DOMAIN s \ Released(s, k)
           t == Kept(s, k)
<1>1. PICK f : Enumerates(f, t, s, K)
  BY KeptFacts
<1>2. K \subseteq DOMAIN s
  OBVIOUS
<1> HIDE DEF K, t
<1> DEFINE g == [j \in K |-> CHOOSE x \in DOMAIN t : f[x] = j]
<1>3. Cardinality(Mapped(t, DOMAIN t)) <= Cardinality(Mapped(s, K))
  <2>1. \A x \in DOMAIN t : t[x].up => s[f[x]].up /\ t[x].size <= s[f[x]].size
    BY <1>1, ChunkFields DEF Enumerates
  <2> QED BY <1>1, <1>2, <2>1, MappedInj DEF Enumerates
<1>4. \A j \in K : g[j] \in DOMAIN t /\ f[g[j]] = j
  BY <1>1 DEF Enumerates
<1>5. Cardinality(Mapped(s, K)) <= Cardinality(Mapped(t, DOMAIN t))
  <2>1. g \in [K -> DOMAIN t] /\ \A x, y \in K : g[x] = g[y] => x = y
    BY <1>4
  <2> HIDE DEF g
  <2>2. \A j \in K : s[j].up => t[g[j]].up /\ s[j].size <= t[g[j]].size
    BY <1>1, <1>2, <1>4, ChunkFields DEF Enumerates
  <2>3. t \in Seq(Chunk)
    BY <1>1 DEF Enumerates
  <2> QED BY <1>2, <2>1, <2>2, <2>3, MappedInj
<1>6. Cardinality(Mapped(s, K)) \in Nat /\ Cardinality(Mapped(t, DOMAIN t)) \in Nat
  BY <1>1, <1>2, MappedFinite DEF Enumerates
<1>7. UpBytes(t) = Cardinality(Mapped(s, K))
  BY <1>3, <1>5, <1>6 DEF UpBytes
<1> QED BY <1>7 DEF t, K

\* The bytes of what is released are gone; and releasing more keeps less.
LEMMA KeptLess ==
  ASSUME NEW s \in Seq(Chunk), NEW k \in 0..Len(s)
  PROVE  /\ UpBytes(Kept(s, k)) \in Nat
         /\ UpBytes(Kept(s, k)) + Cardinality(Mapped(s, Released(s, k))) = UpBytes(s)
         /\ UpBytes(Kept(s, k)) <= UpBytes(s)
<1> DEFINE R == Released(s, k)
           K == DOMAIN s \ R
<1>1. R \subseteq DOMAIN s
  BY LenProperties DEF Released
<1> HIDE DEF R
<1>2. UpBytes(s) = Cardinality(Mapped(s, R)) + Cardinality(Mapped(s, K))
  BY <1>1, MappedSplit
<1>3. Cardinality(Mapped(s, R)) \in Nat /\ Cardinality(Mapped(s, K)) \in Nat
  BY <1>1, MappedFinite
<1>4. UpBytes(Kept(s, k)) = Cardinality(Mapped(s, K))
  BY KeptBytes DEF R
<1>5. UpBytes(Kept(s, k)) \in Nat
  BY <1>3, <1>4
<1> QED BY <1>2, <1>3, <1>4, <1>5 DEF R

LEMMA KeptMonotone ==
  ASSUME NEW s \in Seq(Chunk), NEW k \in 0..Len(s), NEW j \in 0..k
  PROVE  UpBytes(Kept(s, k)) <= UpBytes(Kept(s, j))
<1> DEFINE K == DOMAIN s \ Released(s, k)
           J == DOMAIN s \ Released(s, j)
<1>1. Len(s) \in Nat /\ DOMAIN s = 1..Len(s) /\ j \in 0..Len(s) /\ j <= k /\ k \in Nat
  BY LenProperties
<1>2. K \subseteq J /\ J \subseteq DOMAIN s
  BY <1>1 DEF Released
<1>3. UpBytes(Kept(s, k)) = Cardinality(Mapped(s, K)) /\ UpBytes(Kept(s, j)) = Cardinality(Mapped(s, J))
  BY <1>1, KeptBytes
<1> HIDE DEF K, J
<1>4. Mapped(s, K) \subseteq Mapped(s, J)
  BY <1>2 DEF Mapped
<1>5. IsFiniteSet(Mapped(s, J))
  BY <1>2, MappedFinite
<1>6. Cardinality(Mapped(s, K)) <= Cardinality(Mapped(s, J))
  BY <1>4, <1>5, FS_Subset
<1> QED BY <1>3, <1>6

-----------------------------------------------------------------------------
(* Mapped files.                                                           *)

AllChunks == [Inputs -> Seq(Chunk)]

LEMMA UpFilesIn ==
  ASSUME NEW cs
  PROVE  /\ \A p \in UpFiles(cs) :
              /\ p = <<p[1], p[2]>> /\ p[1] \in Inputs /\ Kind[p[1]] = "fs"
              /\ p[2] \in DOMAIN cs[p[1]] /\ cs[p[1]][p[2]].up
         /\ \A i \in Inputs : \A k \in DOMAIN cs[i] :
              Kind[i] = "fs" /\ cs[i][k].up => <<i, k>> \in UpFiles(cs)
BY DEF UpFiles

LEMMA UpFilesFinite ==
  ASSUME FlowInputs, NEW cs \in AllChunks
  PROVE  IsFiniteSet(UpFiles(cs)) /\ TotalUp(cs) \in Nat
<1> DEFINE F == {j \in Inputs : Kind[j] = "fs"}
           Files(i) == {i} \X {k \in DOMAIN cs[i] : cs[i][k].up}
           f == [i \in F |-> Files(i)]
           B == {Files(i) : i \in F}
<1>1. IsFiniteSet(F)
  BY FS_Subset DEF FlowInputs
<1>2. f \in Surjection(F, B)
  BY DEF Surjection
<1>3. IsFiniteSet(B)
  <2> HIDE DEF F, B, f
  <2> QED BY <1>1, <1>2, FS_Surjection
<1>4. ASSUME NEW T \in B PROVE IsFiniteSet(T)
  <2>1. PICK i \in F : T = {i} \X {k \in DOMAIN cs[i] : cs[i][k].up}
    OBVIOUS
  <2>2. IsFiniteSet({i})
    BY FS_Singleton
  <2>3. cs[i] \in Seq(Chunk)
    BY DEF AllChunks
  <2>4. IsFiniteSet(DOMAIN cs[i])
    BY <2>3, DomainFinite
  <2>5. IsFiniteSet({k \in DOMAIN cs[i] : cs[i][k].up})
    BY <2>4, FS_Subset
  <2> QED BY <2>1, <2>2, <2>5, FS_Product
<1>5. UpFiles(cs) = UNION B
  BY DEF UpFiles
<1> HIDE DEF B
<1>6. IsFiniteSet(UpFiles(cs))
  BY <1>3, <1>4, <1>5, FS_UNION
<1> QED BY <1>6, FS_CardinalityType DEF TotalUp

\* i has the chunks t in place of its own.
With(cs, i, t) == [cs EXCEPT ![i] = t]

LEMMA WithFacts ==
  ASSUME NEW cs \in AllChunks, NEW i \in Inputs, NEW t \in Seq(Chunk)
  PROVE  /\ With(cs, i, t) \in AllChunks /\ With(cs, i, t)[i] = t
         /\ \A j \in Inputs \ {i} : With(cs, i, t)[j] = cs[j]
BY DEF With, AllChunks

\* The files of an input that come from its files; X are files of it that do
\* not come again.
LEMMA FilesFrom ==
  ASSUME FlowInputs, NEW cs \in AllChunks, NEW i \in Inputs, NEW t, NEW g,
         ComeFrom(t, cs[i], g), \A x \in DOMAIN t : t[x].up => cs[i][g[x]].up,
         NEW k, \A x \in DOMAIN t : g[x] # k
  PROVE  TotalUp(With(cs, i, t)) <= Cardinality(UpFiles(cs) \ {<<i, k>>})
<1> DEFINE ds == With(cs, i, t)
           S == UpFiles(ds)
           T == UpFiles(cs) \ {<<i, k>>}
           h == [p \in S |-> IF p[1] = i THEN <<i, g[p[2]]>> ELSE p]
<1>1. /\ t \in Seq(Chunk) /\ g \in [DOMAIN t -> DOMAIN cs[i]]
      /\ \A x, y \in DOMAIN t : g[x] = g[y] => x = y
  BY DEF ComeFrom
<1>2. ds \in AllChunks /\ ds[i] = t /\ \A j \in Inputs \ {i} : ds[j] = cs[j]
  BY <1>1, WithFacts
<1> HIDE DEF ds
<1>3. ASSUME NEW p \in S
      PROVE  /\ p = <<p[1], p[2]>> /\ h[p] \in T
             /\ p[1] = i => h[p] = <<i, g[p[2]]>> /\ p[2] \in DOMAIN t
             /\ p[1] # i => h[p] = p
  <2>1. /\ p = <<p[1], p[2]>> /\ p[1] \in Inputs /\ Kind[p[1]] = "fs"
        /\ p[2] \in DOMAIN ds[p[1]] /\ ds[p[1]][p[2]].up
    BY UpFilesIn
  <2>2. CASE p[1] = i
    <3>1. p[2] \in DOMAIN t /\ cs[i][g[p[2]]].up /\ g[p[2]] \in DOMAIN cs[i] /\ g[p[2]] # k
      BY <1>1, <1>2, <2>1, <2>2
    <3>2. <<i, g[p[2]]>> \in T
      BY <2>1, <2>2, <3>1, UpFilesIn
    <3> QED BY <2>1, <2>2, <3>1, <3>2
  <2>3. CASE p[1] # i
    <3>1. <<p[1], p[2]>> \in UpFiles(cs)
      BY <1>2, <2>1, <2>3, UpFilesIn
    <3> QED BY <2>1, <2>3, <3>1
  <2> QED BY <2>2, <2>3
<1>4. ASSUME NEW p \in S, NEW q \in S, h[p] = h[q] PROVE p = q
  <2>1. CASE p[1] = i /\ q[1] = i
    <3>1. g[p[2]] = g[q[2]]
      BY <1>3, <1>4, <2>1
    <3>2. p[2] \in DOMAIN t /\ q[2] \in DOMAIN t
      BY <1>3, <2>1
    <3>3. p = <<p[1], p[2]>> /\ q = <<q[1], q[2]>>
      BY <1>3
    <3>4. p[2] = q[2]
      BY <1>1, <3>1, <3>2
    <3> QED BY <2>1, <3>3, <3>4
  <2>2. CASE ~(p[1] = i /\ q[1] = i)
    BY <1>3, <1>4, <2>2
  <2> QED BY <2>1, <2>2
<1>5. h \in Injection(S, T)
  BY <1>3, <1>4 DEF Injection, IsInjective
<1>6. IsFiniteSet(T)
  BY UpFilesFinite, FS_Difference
<1> HIDE DEF S, T, h
<1>7. Cardinality(S) <= Cardinality(T)
  BY <1>5, <1>6, FS_Injection
<1> QED BY <1>7 DEF S, T, ds, TotalUp

\* At most the file of one chunk is mapped anew.
LEMMA FilesMore ==
  ASSUME FlowInputs, NEW cs \in AllChunks, NEW i \in Inputs, NEW t \in Seq(Chunk), NEW z,
         \A x \in DOMAIN t : t[x].up /\ x # z => x \in DOMAIN cs[i] /\ cs[i][x].up
  PROVE  /\ TotalUp(With(cs, i, t)) <= TotalUp(cs) + 1
         /\ (z \in DOMAIN t /\ t[z].up => z \in DOMAIN cs[i] /\ cs[i][z].up) =>
              TotalUp(With(cs, i, t)) <= TotalUp(cs)
<1> DEFINE ds == With(cs, i, t)
           S == UpFiles(ds)
           T == UpFiles(cs)
<1>1. ds \in AllChunks /\ ds[i] = t /\ \A j \in Inputs \ {i} : ds[j] = cs[j]
  BY WithFacts
<1>2. /\ IsFiniteSet(T) /\ Cardinality(T) \in Nat /\ IsFiniteSet(S) /\ Cardinality(S) \in Nat
      /\ TotalUp(cs) = Cardinality(T) /\ TotalUp(ds) = Cardinality(S)
  BY <1>1, UpFilesFinite DEF TotalUp
<1> HIDE DEF ds
<1>3. S \subseteq T \cup {<<i, z>>}
  <2> SUFFICES ASSUME NEW p \in S, p # <<i, z>> PROVE p \in T
    OBVIOUS
  <2>1. /\ p = <<p[1], p[2]>> /\ p[1] \in Inputs /\ Kind[p[1]] = "fs"
        /\ p[2] \in DOMAIN ds[p[1]] /\ ds[p[1]][p[2]].up
    BY UpFilesIn
  <2>2. p[2] \in DOMAIN cs[p[1]] /\ cs[p[1]][p[2]].up
    BY <1>1, <2>1
  <2> QED BY <2>1, <2>2, UpFilesIn
<1>4. (z \in DOMAIN t /\ t[z].up => z \in DOMAIN cs[i] /\ cs[i][z].up) => S \subseteq T
  <2> SUFFICES ASSUME z \in DOMAIN t /\ t[z].up => z \in DOMAIN cs[i] /\ cs[i][z].up,
                      NEW p \in S
               PROVE  p \in T
    OBVIOUS
  <2>1. /\ p = <<p[1], p[2]>> /\ p[1] \in Inputs /\ Kind[p[1]] = "fs"
        /\ p[2] \in DOMAIN ds[p[1]] /\ ds[p[1]][p[2]].up
    BY UpFilesIn
  <2>2. p[2] \in DOMAIN cs[p[1]] /\ cs[p[1]][p[2]].up
    BY <1>1, <2>1
  <2> QED BY <2>1, <2>2, UpFilesIn
<1> HIDE DEF S, T
<1>5. IsFiniteSet(T \cup {<<i, z>>}) /\ Cardinality(T \cup {<<i, z>>}) <= Cardinality(T) + 1
  <2>1. PICK p : p = <<i, z>>
    OBVIOUS
  <2>2. /\ IsFiniteSet(T \cup {p})
        /\ Cardinality(T \cup {p}) = IF p \in T THEN Cardinality(T) ELSE Cardinality(T) + 1
    BY <1>2, FS_AddElement, Zenon
  <2>3. Cardinality(T \cup {p}) <= Cardinality(T) + 1
    BY <1>2, <2>2
  <2> QED BY <2>1, <2>2, <2>3, Zenon
<1>6. Cardinality(S) <= Cardinality(T \cup {<<i, z>>})
  BY <1>3, <1>5, FS_Subset
<1>7. Cardinality(T \cup {<<i, z>>}) \in Nat
  BY <1>5, FS_CardinalityType
<1>8. S \subseteq T => Cardinality(S) <= Cardinality(T)
  BY <1>2, FS_Subset
<1>9. Cardinality(S) <= Cardinality(T) + 1
  BY <1>2, <1>5, <1>6, <1>7
<1> QED BY <1>2, <1>4, <1>8, <1>9 DEF ds

\* An input that buffers in memory has no files.
LEMMA FilesElse ==
  ASSUME FlowInputs, NEW cs \in AllChunks, NEW i \in Inputs, Kind[i] # "fs", NEW t \in Seq(Chunk)
  PROVE  TotalUp(With(cs, i, t)) = TotalUp(cs)
<1> DEFINE ds == With(cs, i, t)
<1>1. \A j \in Inputs \ {i} : ds[j] = cs[j]
  BY WithFacts
<1> HIDE DEF ds
<1>2. \A j \in Inputs : Kind[j] = "fs" => ds[j] = cs[j]
  BY <1>1
<1>3. UpFiles(ds) = UpFiles(cs)
  BY <1>2 DEF UpFiles
<1> QED BY <1>3 DEF TotalUp, ds

-----------------------------------------------------------------------------
(* What the chunks of an input have in common with what is counted.        *)

\* What is in memory is mapped, and so is a file that some output flushes.
UpRule(i, t) == \A k \in DOMAIN t : Kind[i] # "fs" \/ t[k].task = "users" => t[k].up

Within(i, t) == Limit[i] > 0 => \E n \in Sizes : UpBytes(t) <= Limit[i] - 1 + n
Below(i, t) == Limit[i] > 0 => UpBytes(t) < Limit[i]

\* The count of an input that buffers in memory may be stale, and then it is
\* too large.
Good(i, t, m) ==
  /\ t \in Seq(Chunk) /\ m \in Nat /\ UpRule(i, t)
  /\ Kind[i] # "fs" => UpBytes(t) <= m /\ Within(i, t)

Counts ==
  /\ chunks \in AllChunks /\ mem_chunks_size \in [Inputs -> Nat]
  /\ \A i \in Inputs :
       /\ Good(i, chunks[i], mem_chunks_size[i])
       /\ Kind[i] = "mem" /\ mem_buf_status[i] = "running" => Below(i, chunks[i])
  /\ TotalUp(chunks) <= MaxUp

\* A step that changes chunks changes those of one input i.
CountStep(i, t, m) ==
  /\ chunks' = With(chunks, i, t) /\ mem_chunks_size' = [mem_chunks_size EXCEPT ![i] = m]
  /\ Good(i, t, m) /\ TotalUp(With(chunks, i, t)) <= MaxUp
  /\ Kind[i] = "mem" /\ mem_buf_status'[i] = "running" => Below(i, t)
  /\ is_ingestion_active' /\ flb_input_buf_paused(i)' => t # <<>> \/ i \in stranded'
  /\ \A j \in Inputs \ {i} : flb_input_buf_paused(j)' <=> flb_input_buf_paused(j)
  /\ \A j \in Inputs \ {i} : mem_buf_status'[j] = mem_buf_status[j]
  /\ UNCHANGED is_ingestion_active

Still ==
  /\ UNCHANGED <<chunks, mem_chunks_size, status>>
  /\ is_ingestion_active' => is_ingestion_active

LEMMA CountStepInv ==
  ASSUME Counts, PausedHasChunk, stranded \subseteq stranded',
         NEW i \in Inputs, NEW t, NEW m, CountStep(i, t, m)
  PROVE  Counts' /\ PausedHasChunk'
<1>1. /\ t \in Seq(Chunk) /\ m \in Nat /\ chunks' = With(chunks, i, t)
      /\ mem_chunks_size' = [mem_chunks_size EXCEPT ![i] = m] /\ chunks \in AllChunks
      /\ mem_chunks_size \in [Inputs -> Nat]
  BY DEF CountStep, Good, Counts
<1>2. chunks' \in AllChunks /\ chunks'[i] = t /\ \A j \in Inputs \ {i} : chunks'[j] = chunks[j]
  BY <1>1, WithFacts
<1>3. /\ mem_chunks_size' \in [Inputs -> Nat] /\ mem_chunks_size'[i] = m
      /\ \A j \in Inputs \ {i} : mem_chunks_size'[j] = mem_chunks_size[j]
  BY <1>1
<1>4. TotalUp(chunks') <= MaxUp
  BY <1>1 DEF CountStep
<1>5. ASSUME NEW j \in Inputs
      PROVE  /\ Good(j, chunks'[j], mem_chunks_size'[j])
             /\ Kind[j] = "mem" /\ mem_buf_status'[j] = "running" => Below(j, chunks'[j])
             /\ is_ingestion_active' /\ flb_input_buf_paused(j)' =>
                  chunks'[j] # <<>> \/ j \in stranded'
  <2>1. CASE j = i
    BY <1>2, <1>3, <2>1 DEF CountStep
  <2>2. CASE j # i
    <3>1. /\ Good(j, chunks[j], mem_chunks_size[j])
          /\ Kind[j] = "mem" /\ mem_buf_status[j] = "running" => Below(j, chunks[j])
      BY DEF Counts
    <3>2. is_ingestion_active /\ flb_input_buf_paused(j) => chunks[j] # <<>> \/ j \in stranded
      BY DEF PausedHasChunk
    <3> QED BY <1>2, <1>3, <2>2, <3>1, <3>2 DEF CountStep
  <2> QED BY <2>1, <2>2
<1>6. Counts'
  BY <1>2, <1>3, <1>4, <1>5 DEF Counts, Good, UpRule, Within, Below, TotalUp, UpFiles, UpBytes, Mapped
<1>7. PausedHasChunk'
  BY <1>5 DEF PausedHasChunk
<1> QED BY <1>6, <1>7

\* Fewer bytes are within the limits too.
LEMMA WithinLess ==
  ASSUME FlowInputs, FlowBounds, NEW i \in Inputs,
         NEW s \in Seq(Chunk), NEW t \in Seq(Chunk), UpBytes(t) <= UpBytes(s)
  PROVE  (Within(i, s) => Within(i, t)) /\ (Below(i, s) => Below(i, t))
<1>1. UpBytes(s) \in Nat /\ UpBytes(t) \in Nat /\ Limit[i] \in Nat /\ Sizes \subseteq Nat
  BY UpBytesNat DEF FlowInputs, FlowBounds
<1>2. ASSUME Within(i, s) PROVE Within(i, t)
  <2> SUFFICES ASSUME Limit[i] > 0 PROVE \E n \in Sizes : UpBytes(t) <= Limit[i] - 1 + n
    BY DEF Within
  <2>1. PICK n \in Sizes : UpBytes(s) <= Limit[i] - 1 + n
    BY <1>2 DEF Within
  <2>2. UpBytes(t) <= Limit[i] - 1 + n
    BY <1>1, <2>1
  <2> QED BY <2>2
<1>3. ASSUME Below(i, s) PROVE Below(i, t)
  BY <1>1, <1>3 DEF Below
<1> QED BY <1>2, <1>3

\* No bytes more, and a count that is large enough.
LEMMA GoodLess ==
  ASSUME FlowInputs, FlowBounds, NEW i \in Inputs, NEW s, NEW l, Good(i, s, l),
         NEW t \in Seq(Chunk), NEW m \in Nat, UpRule(i, t),
         Kind[i] # "fs" => UpBytes(t) <= UpBytes(s) /\ UpBytes(t) <= m
  PROVE  Good(i, t, m) /\ (Kind[i] # "fs" /\ Below(i, s) => Below(i, t))
<1>1. s \in Seq(Chunk) /\ (Kind[i] # "fs" => Within(i, s))
  BY DEF Good
<1>2. Kind[i] # "fs" => Within(i, t) /\ (Below(i, s) => Below(i, t))
  BY <1>1, WithinLess
<1> QED BY <1>2 DEF Good

\* One chunk is replaced.
LEMMA ExceptChunk ==
  ASSUME NEW s \in Seq(Chunk), NEW k \in DOMAIN s, NEW e \in Chunk
  PROVE  LET t == [s EXCEPT ![k] = e] IN
         /\ t \in Seq(Chunk) /\ DOMAIN t = DOMAIN s /\ t # <<>> /\ t[k] = e
         /\ \A x \in DOMAIN s : x # k => t[x] = s[x]
<1> DEFINE t == [s EXCEPT ![k] = e]
<1>1. k \in 1..Len(s) /\ DOMAIN s = 1..Len(s)
  BY LenProperties
<1>2. t \in Seq(Chunk)
  BY <1>1, ExceptSeq
<1>3. DOMAIN t = DOMAIN s /\ t[k] = e /\ \A x \in DOMAIN s : x # k => t[x] = s[x]
  OBVIOUS
<1>4. t # <<>>
  <2>1. DOMAIN t # {} /\ DOMAIN <<>> = {}
    BY <1>3
  <2> QED BY <2>1
<1> QED BY <1>2, <1>3, <1>4

LEMMA ExceptBytes ==
  ASSUME NEW s \in Seq(Chunk), NEW k \in DOMAIN s, NEW e \in Chunk,
         e.up => s[k].up /\ e.size = s[k].size
  PROVE  UpBytes([s EXCEPT ![k] = e]) <= UpBytes(s)
<1> DEFINE t == [s EXCEPT ![k] = e]
           g == [x \in DOMAIN s |-> x]
<1>1. /\ t \in Seq(Chunk) /\ DOMAIN t = DOMAIN s /\ t[k] = e
      /\ \A x \in DOMAIN s : x # k => t[x] = s[x]
  BY ExceptChunk
<1> HIDE DEF t
<1>2. ComeFrom(t, s, g)
  BY <1>1 DEF ComeFrom
<1>3. \A x \in DOMAIN t : t[x].up => s[g[x]].up /\ t[x].size <= s[g[x]].size
  BY <1>1, ChunkFields
<1> HIDE DEF g
<1>4. UpBytes(t) <= UpBytes(s)
  BY <1>2, <1>3, FromBytes
<1> QED BY <1>4 DEF t

-----------------------------------------------------------------------------
(* The tasks.                                                              *)

LEMMA TaskUp ==
  ASSUME NEW c \in Chunk, NEW a \in Tasks, NEW up \in BOOLEAN
  PROVE  [[c EXCEPT !.task = a] EXCEPT !.up = up] = [size |-> c.size, task |-> a, up |-> up]
<1> DEFINE d == [c EXCEPT !.task = a]
<1>1. d = [size |-> c.size, task |-> a, up |-> c.up]
  BY DEF Chunk
<1>2. d \in Chunk /\ d.size = c.size /\ d.task = a
  BY <1>1 DEF Chunk
<1> HIDE DEF d
<1>3. [d EXCEPT !.up = up] = [size |-> d.size, task |-> d.task, up |-> up]
  BY <1>2 DEF Chunk
<1> QED BY <1>2, <1>3 DEF d

LEMMA SetTaskFacts ==
  ASSUME chunks \in AllChunks, NEW i \in Inputs, NEW k \in DOMAIN chunks[i], NEW a \in Tasks,
         NEW up \in BOOLEAN, SetTask(i, k, a, up), NEW e,
         e = [size |-> chunks[i][k].size, task |-> a, up |-> up]
  PROVE  chunks' = With(chunks, i, [chunks[i] EXCEPT ![k] = e]) /\ e \in Chunk
<1>1. chunks[i] \in Seq(Chunk)
  BY DEF AllChunks
<1>2. /\ chunks[i][k].size \in Nat
      /\ chunks[i][k] = [size |-> chunks[i][k].size, task |-> chunks[i][k].task, up |-> chunks[i][k].up]
  BY <1>1, ChunkFields
<1>3. e \in Chunk
  BY <1>2 DEF Chunk
<1>4. chunks' = With(chunks, i, [chunks[i] EXCEPT ![k] = e])
  <2> DEFINE r == [[chunks[i][k] EXCEPT !.task = a] EXCEPT !.up = up]
             b == [chunks EXCEPT ![i][k].task = a]
  <2>1. r = e
    <3>1. \A c \in Chunk :
            [[c EXCEPT !.task = a] EXCEPT !.up = up] = [size |-> c.size, task |-> a, up |-> up]
      BY TaskUp
    <3>2. chunks[i][k] \in Chunk
      BY <1>1, ChunkFields
    <3> QED BY <3>1, <3>2, Zenon
  <2>2. b = [chunks EXCEPT ![i] = [chunks[i] EXCEPT ![k] = [chunks[i][k] EXCEPT !.task = a]]]
    BY DEF AllChunks
  <2>3. chunks' = [b EXCEPT ![i] = [b[i] EXCEPT ![k] = [b[i][k] EXCEPT !.up = up]]]
    BY <2>2 DEF SetTask, AllChunks
  <2>4. /\ b[i] = [chunks[i] EXCEPT ![k] = [chunks[i][k] EXCEPT !.task = a]]
        /\ b[i][k] = [chunks[i][k] EXCEPT !.task = a]
    BY <1>1, <2>2 DEF AllChunks
  <2> QED BY <2>1, <2>2, <2>3, <2>4 DEF With, AllChunks
<1> QED BY <1>3, <1>4

LEMMA FlushCounts ==
  ASSUME FlowInputs, FlowBounds, Counts, PausedHasChunk, NEW i \in Inputs, NEW k, Flush(i, k)
  PROVE  \E t, m : CountStep(i, t, m)
<1> DEFINE s == chunks[i]
           e == [size |-> s[k].size, task |-> "users", up |-> TRUE]
           t == [s EXCEPT ![k] = e]
           m == mem_chunks_size[i]
<1>1. /\ k \in DOMAIN s /\ CanUp(i, k) /\ SetTask(i, k, "users", TRUE)
      /\ UNCHANGED <<mem_chunks_size, mem_buf_status, storage_buf_status, is_ingestion_active>>
  BY DEF Flush, status
<1>2. /\ chunks \in AllChunks /\ s \in Seq(Chunk) /\ mem_chunks_size \in [Inputs -> Nat]
      /\ Good(i, s, m) /\ (Kind[i] = "mem" /\ mem_buf_status[i] = "running" => Below(i, s))
      /\ TotalUp(chunks) <= MaxUp
  BY DEF Counts, AllChunks
<1>3. chunks' = With(chunks, i, t) /\ e \in Chunk
  BY <1>1, <1>2, SetTaskFacts DEF Tasks
<1>4. /\ t \in Seq(Chunk) /\ DOMAIN t = DOMAIN s /\ t # <<>> /\ t[k] = e
      /\ \A x \in DOMAIN s : x # k => t[x] = s[x]
  BY <1>1, <1>2, <1>3, ExceptChunk
<1>5. Kind[i] # "fs" => UpBytes(t) <= UpBytes(s)
  BY <1>1, <1>2, <1>3, ExceptBytes DEF Good, UpRule
<1>6. TotalUp(With(chunks, i, t)) <= MaxUp
  <2>1. \A x \in DOMAIN t : t[x].up /\ x # k => x \in DOMAIN chunks[i] /\ chunks[i][x].up
    BY <1>4
  <2> HIDE DEF t
  <2>2. /\ TotalUp(With(chunks, i, t)) <= TotalUp(chunks) + 1
        /\ (k \in DOMAIN t /\ t[k].up => k \in DOMAIN chunks[i] /\ chunks[i][k].up) =>
             TotalUp(With(chunks, i, t)) <= TotalUp(chunks)
    BY <1>2, <1>4, <2>1, FilesMore
  <2>3. TotalUp(With(chunks, i, t)) \in Nat /\ TotalUp(chunks) \in Nat /\ MaxUp \in Nat
    BY <1>2, <1>4, UpFilesFinite, WithFacts DEF FlowBounds
  <2>4. CASE chunks[i][k].up
    <3>1. TotalUp(With(chunks, i, t)) <= TotalUp(chunks)
      BY <1>1, <2>2, <2>4
    <3> QED BY <1>2, <2>3, <3>1
  <2>5. CASE TotalUp(chunks) < MaxUp
    BY <2>2, <2>3, <2>5
  <2> QED BY <1>1, <2>4, <2>5 DEF CanUp
<1>7. UpRule(i, t)
  BY <1>2, <1>4 DEF UpRule, Good
<1>8. UpBytes(s) \in Nat /\ UpBytes(t) \in Nat /\ m \in Nat
  BY <1>2, <1>4, UpBytesNat
<1> HIDE DEF t, m
<1>9. UpBytes(s) <= m \/ Kind[i] = "fs"
  BY <1>2 DEF Good
<1>10. Good(i, t, m) /\ (Kind[i] = "mem" /\ mem_buf_status'[i] = "running" => Below(i, t))
  BY <1>1, <1>2, <1>4, <1>5, <1>7, <1>8, <1>9, GoodLess
<1>11. mem_chunks_size' = [mem_chunks_size EXCEPT ![i] = m]
  BY <1>1, <1>2 DEF m
<1>12. CountStep(i, t, m)
  BY <1>1, <1>3, <1>4, <1>6, <1>10, <1>11 DEF CountStep, flb_input_buf_paused
<1> QED BY <1>12

LEMMA RetryCounts ==
  ASSUME FlowInputs, FlowBounds, Counts, PausedHasChunk, NEW i \in Inputs, NEW k, Retry(i, k)
  PROVE  \E t, m : CountStep(i, t, m)
<1> DEFINE s == chunks[i]
           over == is_mem_overlimit(i, UpBytes(s))
<1>1. /\ k \in DOMAIN s /\ s[k].task = "users"
      /\ UNCHANGED <<mem_buf_status, storage_buf_status, is_ingestion_active>>
      /\ mem_chunks_size' = [mem_chunks_size EXCEPT ![i] = UpBytes(IF over THEN chunks'[i] ELSE s)]
  BY DEF Retry, status
<1>2. PICK one \in BOOLEAN : SetTask(i, k, "idle", Kind[i] = "fs" => ~(one \/ over))
  BY DEF Retry
<1> DEFINE up == Kind[i] = "fs" => ~(one \/ over)
           e == [size |-> s[k].size, task |-> "idle", up |-> up]
           t == [s EXCEPT ![k] = e]
           m == UpBytes(IF over THEN t ELSE s)
<1>3. /\ chunks \in AllChunks /\ s \in Seq(Chunk) /\ mem_chunks_size \in [Inputs -> Nat]
      /\ Good(i, s, mem_chunks_size[i])
      /\ (Kind[i] = "mem" /\ mem_buf_status[i] = "running" => Below(i, s))
      /\ TotalUp(chunks) <= MaxUp
  BY DEF Counts, AllChunks
<1>4. chunks' = With(chunks, i, t) /\ e \in Chunk
  <2>1. up \in BOOLEAN /\ "idle" \in Tasks
    BY DEF Tasks
  <2>2. PICK b \in BOOLEAN : b = up
    BY <2>1
  <2>3. SetTask(i, k, "idle", b) /\ e = [size |-> chunks[i][k].size, task |-> "idle", up |-> b]
    BY <1>2, <2>2
  <2> HIDE DEF e, up
  <2> QED BY <1>1, <1>3, <2>1, <2>3, SetTaskFacts
<1>5. s[k].up /\ e.size = s[k].size
  BY <1>1, <1>3 DEF Good, UpRule
<1>6. Kind[i] # "fs" => e.up
  OBVIOUS
<1>7. e.task = "idle"
  OBVIOUS
<1> HIDE DEF e
<1>8. /\ t \in Seq(Chunk) /\ DOMAIN t = DOMAIN s /\ t # <<>> /\ t[k] = e
      /\ \A x \in DOMAIN s : x # k => t[x] = s[x]
  BY <1>1, <1>3, <1>4, ExceptChunk
<1>9. UpBytes(t) <= UpBytes(s)
  BY <1>1, <1>3, <1>4, <1>5, ExceptBytes
<1> HIDE DEF t
<1>10. TotalUp(With(chunks, i, t)) <= MaxUp
  <2>1. \A x \in DOMAIN t : t[x].up /\ x # k => x \in DOMAIN chunks[i] /\ chunks[i][x].up
    BY <1>8
  <2>2. TotalUp(With(chunks, i, t)) <= TotalUp(chunks)
    BY <1>1, <1>3, <1>5, <1>8, <2>1, FilesMore
  <2>3. TotalUp(With(chunks, i, t)) \in Nat /\ TotalUp(chunks) \in Nat /\ MaxUp \in Nat
    BY <1>3, <1>8, UpFilesFinite, WithFacts DEF FlowBounds
  <2> QED BY <1>3, <2>2, <2>3
<1>11. UpRule(i, t)
  BY <1>3, <1>6, <1>7, <1>8 DEF UpRule, Good
<1>12. UpBytes(s) \in Nat /\ UpBytes(t) \in Nat
  BY <1>3, <1>8, UpBytesNat
<1> HIDE DEF s, over
<1>13. m \in Nat /\ UpBytes(t) <= m
  BY <1>9, <1>12
<1>14. mem_chunks_size' = [mem_chunks_size EXCEPT ![i] = m]
  <2>1. chunks'[i] = t
    BY <1>3, <1>4, <1>8, WithFacts
  <2> QED BY <1>1, <2>1
<1> HIDE DEF m
<1>15. Good(i, t, m) /\ (Kind[i] = "mem" /\ mem_buf_status'[i] = "running" => Below(i, t))
  BY <1>1, <1>3, <1>8, <1>9, <1>11, <1>13, GoodLess
<1>16. CountStep(i, t, m)
  BY <1>1, <1>4, <1>8, <1>10, <1>14, <1>15 DEF CountStep, flb_input_buf_paused
<1> QED BY <1>16

\* A chunk is destroyed together with its task.
LEMMA DestroyCounts ==
  ASSUME FlowInputs, FlowBounds, Base, Counts, NEW i \in Inputs, NEW k \in DOMAIN chunks[i],
         chunks' = [chunks EXCEPT ![i] = RemoveAt(@, k)], set_limits(i, chunks'),
         UNCHANGED is_ingestion_active,
         \/ chunks[i][k].task = "users"
         \/ chunks'[i] = <<>> /\ flb_input_buf_paused(i)' => i \in stranded'
  PROVE  \E t, m : CountStep(i, t, m)
<1> DEFINE s == chunks[i]
           t == RemoveAt(s, k)
           m == UpBytes(t)
<1>1. k \in DOMAIN s /\ chunks' = With(chunks, i, t)
  BY DEF With
<1>2. /\ chunks \in AllChunks /\ s \in Seq(Chunk) /\ mem_chunks_size \in [Inputs -> Nat]
      /\ Good(i, s, mem_chunks_size[i])
      /\ (Kind[i] = "mem" /\ mem_buf_status[i] = "running" => Below(i, s))
      /\ TotalUp(chunks) <= MaxUp
  BY DEF Counts, AllChunks
<1>3. PICK g : WithoutOne(t, s, k, g)
  BY <1>1, <1>2, RemoveAtFrom
<1>4. /\ t \in Seq(Chunk) /\ g \in [DOMAIN t -> DOMAIN s]
      /\ ComeFrom(t, s, g) /\ \A x \in DOMAIN t : g[x] # k /\ t[x] = s[g[x]]
  BY <1>3 DEF ComeFrom, WithoutOne
<1> HIDE DEF t
<1>5. UpBytes(t) <= UpBytes(s) /\ UpBytes(s) \in Nat /\ m \in Nat
  BY <1>2, <1>4, FromSame, UpBytesNat
<1>6. UpRule(i, t)
  BY <1>2, <1>4 DEF UpRule, Good
<1>7. /\ TotalUp(With(chunks, i, t)) <= MaxUp
      /\ Kind[i] = "fs" /\ s[k].task = "users" => TotalUp(With(chunks, i, t)) < MaxUp
  <2> DEFINE T == UpFiles(chunks)
             p == <<i, k>>
  <2>1. TotalUp(With(chunks, i, t)) <= Cardinality(T \ {p})
    BY <1>2, <1>4, FilesFrom
  <2>2. /\ TotalUp(With(chunks, i, t)) \in Nat /\ IsFiniteSet(T) /\ Cardinality(T) \in Nat
        /\ TotalUp(chunks) = Cardinality(T) /\ MaxUp \in Nat
    BY <1>2, <1>4, UpFilesFinite, WithFacts DEF FlowBounds, TotalUp
  <2>3. Kind[i] = "fs" /\ s[k].task = "users" => p \in T
    <3>1. s[k].task = "users" => s[k].up
      BY <1>1, <1>2 DEF Good, UpRule
    <3> QED BY <1>1, <3>1, UpFilesIn
  <2> HIDE DEF T, p
  <2>4. Cardinality(T \ {p}) = IF p \in T THEN Cardinality(T) - 1 ELSE Cardinality(T)
    BY <2>2, FS_RemoveElement
  <2> QED BY <1>2, <2>1, <2>2, <2>3, <2>4
<1>8. /\ mem_chunks_size' = [mem_chunks_size EXCEPT ![i] = m]
      /\ mem_buf_status' = [mem_buf_status EXCEPT ![i] =
                              IF LeavesMem(i, chunks') THEN "running" ELSE @]
      /\ storage_buf_status' = [storage_buf_status EXCEPT ![i] =
                                  IF LeavesStorage(i, chunks') THEN "running" ELSE @]
      /\ chunks'[i] = t
  <2>1. With(chunks, i, t)[i] = t
    BY <1>2, <1>4, WithFacts
  <2>2. chunks'[i] = t
    BY ONLY <1>1, <2>1
  <2> QED BY <1>1, <2>2 DEF set_limits
<1>9. /\ mem_buf_status \in [Inputs -> {"running", "paused"}]
      /\ storage_buf_status \in [Inputs -> {"running", "paused"}]
  BY DEF Base, Types
<1>10. Good(i, t, m) /\ (Kind[i] = "mem" /\ Below(i, s) => Below(i, t))
  BY <1>2, <1>4, <1>5, <1>6, GoodLess
<1>11. Kind[i] = "mem" /\ mem_buf_status'[i] = "running" => Below(i, t)
  <2>1. CASE LeavesMem(i, chunks')
    BY <1>5, <1>8, <2>1 DEF LeavesMem, is_mem_overlimit, Below, FlowInputs
  <2>2. CASE ~LeavesMem(i, chunks')
    BY <1>2, <1>8, <1>9, <1>10, <2>2
  <2> QED BY <2>1, <2>2
<1>12. ASSUME is_ingestion_active', t = <<>>, s[k].task = "users"
       PROVE  ~flb_input_buf_paused(i)'
  <2>1. is_ingestion_active
    BY <1>12
  <2>2. ~is_mem_overlimit(i, UpBytes(chunks'[i]))
    BY <1>8, <1>12, UpBytesEmpty DEF is_mem_overlimit
  <2>3. ~is_storage_overlimit(i, chunks')
    <3>1. Kind[i] = "fs" => TotalUp(chunks') < MaxUp
      BY <1>1, <1>7, <1>12
    <3>2. TotalUp(chunks') \in Nat /\ MaxUp \in Nat
      BY <1>1, <1>2, <1>4, WithFacts, UpFilesFinite DEF FlowBounds
    <3> QED BY <3>1, <3>2 DEF is_storage_overlimit
  <2>4. mem_buf_status'[i] = "running"
    BY <1>8, <1>9, <2>1, <2>2 DEF LeavesMem
  <2>5. storage_buf_status'[i] = "running"
    BY <1>8, <1>9, <2>1, <2>3 DEF LeavesStorage
  <2> QED BY <2>4, <2>5 DEF flb_input_buf_paused
<1>13. \A j \in Inputs \ {i} : /\ mem_buf_status'[j] = mem_buf_status[j]
                               /\ storage_buf_status'[j] = storage_buf_status[j]
  BY <1>8, <1>9
<1>14. is_ingestion_active' /\ flb_input_buf_paused(i)' => t # <<>> \/ i \in stranded'
  BY <1>8, <1>12
<1> HIDE DEF m
<1>15. CountStep(i, t, m)
  BY <1>1, <1>7, <1>8, <1>10, <1>11, <1>13, <1>14 DEF CountStep, flb_input_buf_paused
<1> QED BY <1>15

LEMMA TaskEndsCounts ==
  ASSUME FlowInputs, FlowBounds, Base, Counts, PausedHasChunk, NEW i \in Inputs, NEW k, TaskEnds(i, k)
  PROVE  \E t, m : CountStep(i, t, m)
BY DestroyCounts DEF TaskEnds

\* An append destroys a chunk of any input: one without a task is not counted
\* out, and an input that is left paused without a chunk is stranded.
LEMMA ReleaseCounts ==
  ASSUME FlowInputs, FlowBounds, Base, Counts, NEW i \in Inputs, NEW j \in Inputs, NEW k,
         Release(i, j, k)
  PROVE  \E t, m : CountStep(j, t, m)
<1>1. /\ k \in DOMAIN chunks[j] /\ chunks' = [chunks EXCEPT ![j] = RemoveAt(@, k)]
      /\ UNCHANGED is_ingestion_active
      /\ chunks'[j] = <<>> /\ flb_input_buf_paused(j)' => j \in stranded'
  BY DEF Release
<1>2. CASE chunks[j][k].task = "idle"
  BY <1>1, <1>2, DestroyCounts DEF Release
<1>3. CASE chunks[j][k].task # "idle"
  <2> DEFINE s == chunks[j]
             t == RemoveAt(s, k)
             m == mem_chunks_size[j]
  <2>1. UNCHANGED <<mem_chunks_size, mem_buf_status, storage_buf_status>>
    BY <1>3 DEF Release, status
  <2>2. /\ chunks \in AllChunks /\ s \in Seq(Chunk) /\ m \in Nat
        /\ mem_chunks_size' = [mem_chunks_size EXCEPT ![j] = m]
        /\ Good(j, s, m)
        /\ (Kind[j] = "mem" /\ mem_buf_status[j] = "running" => Below(j, s))
        /\ TotalUp(chunks) <= MaxUp
    BY <2>1 DEF Counts, AllChunks
  <2>3. PICK g : WithoutOne(t, s, k, g)
    BY <1>1, <2>2, RemoveAtFrom
  <2>4. /\ t \in Seq(Chunk) /\ g \in [DOMAIN t -> DOMAIN s]
        /\ ComeFrom(t, s, g) /\ \A x \in DOMAIN t : g[x] # k /\ t[x] = s[g[x]]
    BY <2>3 DEF ComeFrom, WithoutOne
  <2>5. chunks' = With(chunks, j, t)
    BY <1>1 DEF With
  <2> HIDE DEF t, m
  <2>6. UpBytes(t) <= UpBytes(s) /\ UpBytes(s) \in Nat /\ UpBytes(t) \in Nat
    BY <2>2, <2>4, FromSame, UpBytesNat
  <2>7. UpRule(j, t)
    BY <2>2, <2>4 DEF UpRule, Good
  <2>8. TotalUp(With(chunks, j, t)) <= MaxUp
    <3> DEFINE T == UpFiles(chunks)
               p == <<j, k>>
    <3>1. TotalUp(With(chunks, j, t)) <= Cardinality(T \ {p})
      BY <2>2, <2>4, FilesFrom
    <3>2. /\ TotalUp(With(chunks, j, t)) \in Nat /\ IsFiniteSet(T) /\ Cardinality(T) \in Nat
          /\ TotalUp(chunks) = Cardinality(T) /\ MaxUp \in Nat
      BY <2>2, <2>4, UpFilesFinite, WithFacts DEF FlowBounds, TotalUp
    <3> HIDE DEF T, p
    <3>3. Cardinality(T \ {p}) = IF p \in T THEN Cardinality(T) - 1 ELSE Cardinality(T)
      BY <3>2, FS_RemoveElement
    <3> QED BY <2>2, <3>1, <3>2, <3>3
  <2>9. UpBytes(t) <= m \/ Kind[j] = "fs"
    BY <2>2, <2>6 DEF Good
  <2>10. Good(j, t, m) /\ (Kind[j] = "mem" /\ Below(j, s) => Below(j, t))
    BY <2>2, <2>4, <2>6, <2>7, <2>9, GoodLess
  <2>11. chunks'[j] = t
    BY <2>2, <2>4, <2>5, WithFacts
  <2>12. CountStep(j, t, m)
    BY <1>1, <2>1, <2>2, <2>5, <2>8, <2>10, <2>11 DEF CountStep, flb_input_buf_paused
  <2> QED BY <2>12
<1> QED BY <1>2, <1>3


-----------------------------------------------------------------------------
(* The appends.                                                            *)

LEMMA KeptRule ==
  ASSUME NEW i \in Inputs, Kind[i] # "fs", NEW s \in Seq(Chunk), NEW k \in 0..Len(s), UpRule(i, s)
  PROVE  Kept(s, k) \in Seq(Chunk) /\ UpRule(i, Kept(s, k))
<1> DEFINE K == DOMAIN s \ Released(s, k)
           t == Kept(s, k)
<1>1. PICK f : Enumerates(f, t, s, K)
  BY KeptFacts
<1>2. K \subseteq DOMAIN s
  OBVIOUS
<1> HIDE DEF K, t
<1>3. t \in Seq(Chunk) /\ UpRule(i, t)
  BY <1>1, <1>2 DEF Enumerates, UpRule
<1> QED BY <1>3 DEF t

\* What flb_task_destroy counts is not less than what is left at the end.
LEMMA CountedEnough ==
  ASSUME FlowInputs, NEW i \in Inputs, NEW s \in Seq(Chunk), NEW k \in 0..Len(s),
         mem_chunks_size[i] \in Nat, UpBytes(s) <= mem_chunks_size[i]
  PROVE  CountedAfter(i, s, k) \in Nat /\ UpBytes(Kept(s, k)) <= CountedAfter(i, s, k)
<1> DEFINE idle == {j \in 1..k : s[j].task = "idle"}
           last == CHOOSE j \in idle : \A l \in idle : l <= j
<1>1. k \in Nat /\ Len(s) \in Nat /\ UpBytes(s) \in Nat
  BY LenProperties, UpBytesNat
<1>2. UpBytes(Kept(s, k)) \in Nat /\ UpBytes(Kept(s, k)) <= UpBytes(s)
  BY KeptLess
<1>3. CASE idle = {}
  <2>1. CountedAfter(i, s, k) = mem_chunks_size[i]
    BY <1>3 DEF CountedAfter
  <2> QED BY <1>1, <1>2, <2>1
<1>4. CASE idle # {}
  <2>1. CountedAfter(i, s, k) = UpBytes(Kept(s, last))
    BY <1>4 DEF CountedAfter
  <2>2. idle \subseteq 1..k
    OBVIOUS
  <2> HIDE DEF idle
  <2>3. \E x \in idle : \A y \in idle : y <= x
    BY <1>1, <1>4, <2>2, NatMax
  <2>4. last \in idle
    BY <2>3
  <2> HIDE DEF last
  <2>5. last \in 0..k /\ last \in 0..Len(s)
    BY <1>1, <2>2, <2>4
  <2>6. UpBytes(Kept(s, k)) <= UpBytes(Kept(s, last)) /\ UpBytes(Kept(s, last)) \in Nat
    BY <2>5, KeptMonotone, KeptLess
  <2> QED BY <2>1, <2>6
<1> QED BY <1>3, <1>4

LEMMA NoRoomCounts ==
  ASSUME FlowInputs, FlowBounds, Base, Counts, PausedHasChunk, NEW i \in Inputs, NEW n,
         AppendNoRoom(i, n)
  PROVE  \E t, m : CountStep(i, t, m)
<1> DEFINE s == chunks[i]
           t == Kept(s, Len(s))
           m == CountedAfter(i, s, Len(s))
<1>1. /\ Kind[i] = "memrb" /\ chunks' = With(chunks, i, t)
      /\ mem_chunks_size' = [mem_chunks_size EXCEPT ![i] = m]
      /\ UNCHANGED <<mem_buf_status, storage_buf_status, is_ingestion_active>>
  BY DEF AppendNoRoom, With, status
<1>2. /\ chunks \in AllChunks /\ s \in Seq(Chunk) /\ mem_chunks_size[i] \in Nat
      /\ Good(i, s, mem_chunks_size[i]) /\ TotalUp(chunks) <= MaxUp
  BY DEF Counts, AllChunks
<1>3. Len(s) \in 0..Len(s)
  BY <1>2, LenProperties
<1>4. UpRule(i, s) /\ UpBytes(s) <= mem_chunks_size[i]
  BY <1>1, <1>2 DEF Good
<1>5. t \in Seq(Chunk) /\ UpRule(i, t)
  BY <1>1, <1>2, <1>3, <1>4, KeptRule
<1>6. m \in Nat /\ UpBytes(t) <= m
  BY <1>2, <1>3, <1>4, CountedEnough
<1>7. UpBytes(t) <= UpBytes(s)
  BY <1>2, <1>3, KeptLess
<1> HIDE DEF t, m
<1>8. Good(i, t, m)
  BY <1>2, <1>5, <1>6, <1>7, GoodLess
<1>9. TotalUp(With(chunks, i, t)) <= MaxUp
  BY <1>1, <1>2, <1>5, FilesElse
<1>10. ~flb_input_buf_paused(i)'
  BY <1>1 DEF Base, OneLimit, flb_input_buf_paused
<1>11. CountStep(i, t, m)
  BY <1>1, <1>8, <1>9, <1>10 DEF CountStep, flb_input_buf_paused
<1> QED BY <1>11

\* There is room for n bytes more, up to one append over the limit.
RoomFor(i, r, n) == Limit[i] > 0 => \E l \in Sizes : UpBytes(r) + n <= Limit[i] - 1 + l

LEMMA RoomFacts ==
  ASSUME FlowInputs, FlowBounds, Base, Counts, NEW i \in Inputs, NEW n \in Sizes,
         HasRoom(i, n), ~flb_input_buf_paused(i)
  PROVE  /\ Room(i, n) \in Seq(Chunk) /\ UpRule(i, Room(i, n))
         /\ Kind[i] # "memrb" => Room(i, n) = chunks[i]
         /\ UpBytes(Room(i, n)) <= UpBytes(chunks[i])
         /\ Kind[i] # "fs" => RoomFor(i, Room(i, n), n)
<1> DEFINE s == chunks[i]
           over == Kind[i] = "memrb" /\ is_mem_overlimit(i, mem_chunks_size[i])
<1>1. /\ s \in Seq(Chunk) /\ mem_chunks_size[i] \in Nat /\ Good(i, s, mem_chunks_size[i])
      /\ Kind[i] = "mem" => Below(i, s)
      /\ UpBytes(s) \in Nat /\ Limit[i] \in Nat /\ Sizes \subseteq Nat /\ n \in Nat
  <2>1. /\ s \in Seq(Chunk) /\ mem_chunks_size[i] \in Nat /\ Good(i, s, mem_chunks_size[i])
        /\ Kind[i] = "mem" /\ mem_buf_status[i] = "running" => Below(i, s)
    BY DEF Counts, AllChunks
  <2>2. mem_buf_status[i] = "running"
    BY DEF Base, Types, flb_input_buf_paused
  <2> QED BY <2>1, <2>2, UpBytesNat DEF FlowInputs, FlowBounds
<1>2. UpRule(i, s) /\ (Kind[i] # "fs" => UpBytes(s) <= mem_chunks_size[i] /\ Within(i, s))
  BY <1>1 DEF Good
<1>3. CASE ~over
  <2>1. Room(i, n) = s
    BY <1>3 DEF Room
  <2>2. ASSUME Kind[i] # "fs", Limit[i] > 0 PROVE \E l \in Sizes : UpBytes(s) + n <= Limit[i] - 1 + l
    <3>1. UpBytes(s) < Limit[i]
      <4>1. CASE Kind[i] = "mem"
        BY <1>1, <2>2, <4>1 DEF Below
      <4>2. CASE Kind[i] = "memrb"
        BY <1>1, <1>2, <1>3, <2>2, <4>2 DEF is_mem_overlimit
      <4> QED BY <2>2, <4>1, <4>2 DEF FlowInputs
    <3>2. UpBytes(s) + n <= Limit[i] - 1 + n
      BY <1>1, <3>1
    <3> QED BY <3>2
  <2>3. UpBytes(s) <= UpBytes(s)
    BY <1>1
  <2> QED BY <1>1, <1>2, <2>1, <2>2, <2>3 DEF RoomFor
<1>4. CASE over
  <2> DEFINE E == Enough(s, n)
             k == LastReleased(s, n)
  <2>1. E # {} /\ Room(i, n) = Kept(s, k) /\ E \subseteq 1..Len(s) /\ Len(s) \in Nat
    BY <1>1, <1>4, LenProperties DEF HasRoom, Room, Enough
  <2>2. k \in E
    <3>1. k = CHOOSE x \in E : \A y \in E : x <= y
      BY <2>1 DEF LastReleased
    <3> HIDE DEF E, k
    <3>2. \E x \in E : \A y \in E : x <= y
      <4>1. E \subseteq Nat
        BY <2>1
      <4> QED BY <2>1, <4>1, NatMin
    <3> QED BY <3>1, <3>2
  <2>3. k \in 0..Len(s) /\ Cardinality(Mapped(s, Released(s, k))) >= n
    BY <2>1, <2>2 DEF Enough
  <2> HIDE DEF k
  <2>4. Kept(s, k) \in Seq(Chunk) /\ UpRule(i, Kept(s, k))
    BY <1>1, <1>2, <1>4, <2>3, KeptRule
  <2> DEFINE b == Cardinality(Mapped(s, Released(s, k)))
  <2>5. /\ UpBytes(Kept(s, k)) \in Nat /\ UpBytes(Kept(s, k)) + b = UpBytes(s)
        /\ UpBytes(Kept(s, k)) <= UpBytes(s)
    BY <1>1, <2>3, KeptLess
  <2>6. b \in Nat
    <3>1. Released(s, k) \subseteq DOMAIN s
      BY <1>1, <2>3, LenProperties DEF Released
    <3> QED BY <1>1, <3>1, MappedFinite
  <2>7. b >= n
    BY <2>3
  <2> HIDE DEF b
  <2>8. UpBytes(Kept(s, k)) + n <= UpBytes(s)
    BY <1>1, <2>5, <2>6, <2>7
  <2>9. ASSUME Limit[i] > 0 PROVE \E l \in Sizes : UpBytes(Kept(s, k)) + n <= Limit[i] - 1 + l
    <3>1. PICK l \in Sizes : UpBytes(s) <= Limit[i] - 1 + l
      BY <1>2, <1>4, <2>9 DEF Within
    <3>2. Limit[i] \in Nat /\ l \in Nat /\ n \in Nat /\ UpBytes(s) \in Nat
      BY <1>1 DEF FlowInputs, FlowBounds
    <3>3. UpBytes(Kept(s, k)) + n <= Limit[i] - 1 + l
      BY ONLY <2>5, <2>8, <3>1, <3>2
    <3> QED BY <3>3
  <2> QED BY <1>4, <2>1, <2>4, <2>5, <2>9 DEF RoomFor
<1> QED BY <1>3, <1>4

LEMMA FilteredCounts ==
  ASSUME FlowInputs, FlowBounds, Base, Counts, PausedHasChunk, NEW i \in Inputs, NEW n \in Sizes,
         NEW P, AppendFiltered(i, n, P)
  PROVE  \E t, m : CountStep(i, t, m)
<1> DEFINE s == chunks[i]
           t == Room(i, n)
           m == UpBytes(t)
<1>1. /\ HasRoom(i, n) /\ ~flb_input_buf_paused(i) /\ chunks' = With(chunks, i, t)
      /\ mem_chunks_size' = [mem_chunks_size EXCEPT ![i] = UpBytes(chunks'[i])]
      /\ UNCHANGED <<mem_buf_status, storage_buf_status, is_ingestion_active>>
  BY DEF AppendFiltered, With, status
<1>2. /\ chunks \in AllChunks /\ s \in Seq(Chunk) /\ Good(i, s, mem_chunks_size[i])
      /\ TotalUp(chunks) <= MaxUp
      /\ Kind[i] = "mem" /\ mem_buf_status[i] = "running" => Below(i, s)
  BY DEF Counts, AllChunks
<1>3. /\ t \in Seq(Chunk) /\ UpRule(i, t) /\ UpBytes(t) <= UpBytes(s)
      /\ Kind[i] # "memrb" => t = s
  BY <1>1, RoomFacts
<1> HIDE DEF t
<1>4. m \in Nat /\ UpBytes(t) <= m
  BY <1>3, UpBytesNat
<1>5. Good(i, t, m) /\ (Kind[i] = "mem" /\ mem_buf_status'[i] = "running" => Below(i, t))
  BY <1>1, <1>2, <1>3, <1>4, GoodLess
<1>6. TotalUp(With(chunks, i, t)) <= MaxUp
  <2>1. CASE Kind[i] = "fs"
    <3>1. With(chunks, i, t) = chunks
      BY <1>2, <1>3, <2>1 DEF With, AllChunks
    <3> QED BY <1>2, <3>1
  <2>2. CASE Kind[i] # "fs"
    BY <1>2, <1>3, <2>2, FilesElse
  <2> QED BY <2>1, <2>2
<1>7. mem_chunks_size' = [mem_chunks_size EXCEPT ![i] = m]
  <2>1. chunks'[i] = t
    BY <1>1, <1>2, <1>3, WithFacts
  <2> QED BY <1>1, <2>1
<1> HIDE DEF m
<1>8. CountStep(i, t, m)
  BY <1>1, <1>5, <1>6, <1>7 DEF CountStep, flb_input_buf_paused
<1> QED BY <1>8

\* What is written: a new chunk, or n bytes more in an old one.
Written(i, n, r, s) ==
  /\ s \in Seq(Chunk) /\ s # <<>> /\ UpRule(i, s) /\ UpBytes(s) <= UpBytes(r) + n
  /\ TotalUp(With(chunks, i, s)) <= MaxUp

LEMMA NewChunkFacts ==
  ASSUME FlowInputs, FlowBounds, Counts, NEW i \in Inputs, NEW n \in Sizes, NEW r \in Seq(Chunk),
         UpRule(i, r), Kind[i] # "memrb" => r = chunks[i]
  PROVE  \A e \in NewChunks(i, n) : Written(i, n, r, Append(r, e))
<1> TAKE e \in NewChunks(i, n)
<1> DEFINE z == Len(r) + 1
           s == Append(r, e)
<1>1. /\ n \in Nat /\ e \in Chunk /\ e.size = n /\ e.task = "none"
      /\ e.up => (Kind[i] = "fs" => TotalUp(chunks) < MaxUp)
      /\ Kind[i] # "fs" => e.up
  BY DEF FlowBounds, NewChunks, Chunk, Tasks
<1>2. /\ s \in Seq(Chunk) /\ s # <<>> /\ Len(s) = Len(r) + 1 /\ Len(r) \in Nat
      /\ DOMAIN r = 1..Len(r) /\ DOMAIN s = 1..Len(s)
      /\ \A x \in 1..Len(r) : s[x] = r[x]
      /\ s[Len(r) + 1] = e
  BY <1>1, AppendProperties, LenProperties
<1>3. DOMAIN s = DOMAIN r \cup {z} /\ s[z] = e /\ \A x \in DOMAIN r : s[x] = r[x]
  BY <1>2
<1> HIDE DEF s, z
<1>4. UpRule(i, s)
  BY <1>1, <1>3 DEF UpRule
<1>5. UpBytes(s) <= UpBytes(r) + n
  <2>1. Mapped(s, DOMAIN s) \subseteq Mapped(r, DOMAIN r) \cup ({z} \X (1..n))
    <3> SUFFICES ASSUME NEW p \in Mapped(s, DOMAIN s) PROVE p \in Mapped(r, DOMAIN r) \cup ({z} \X (1..n))
      OBVIOUS
    <3>1. p = <<p[1], p[2]>> /\ p[1] \in DOMAIN s /\ s[p[1]].up /\ p[2] \in 1..s[p[1]].size
      BY MappedIn
    <3>2. CASE p[1] \in DOMAIN r
      <4>1. <<p[1], p[2]>> \in Mapped(r, DOMAIN r)
        BY <1>3, <3>1, <3>2, MappedIn
      <4> QED BY <3>1, <4>1
    <3>3. CASE p[1] = z
      BY <1>1, <1>3, <3>1, <3>3
    <3> QED BY <1>3, <3>1, <3>2, <3>3
  <2>2. 1..n = (0 + 1)..(0 + n) /\ 0 \in Nat
    BY <1>1
  <2> QED BY <1>1, <1>2, <2>1, <2>2, MappedMore
<1>6. TotalUp(With(chunks, i, s)) <= MaxUp
  <2>0. chunks \in AllChunks /\ TotalUp(chunks) <= MaxUp
    BY DEF Counts
  <2>1. CASE Kind[i] # "fs"
    BY <1>2, <2>0, <2>1, FilesElse
  <2>2. CASE Kind[i] = "fs"
    <3>1. \A x \in DOMAIN s : s[x].up /\ x # z => x \in DOMAIN chunks[i] /\ chunks[i][x].up
      BY <1>3, <2>2
    <3>2. /\ TotalUp(With(chunks, i, s)) <= TotalUp(chunks) + 1
          /\ (z \in DOMAIN s /\ s[z].up => z \in DOMAIN chunks[i] /\ chunks[i][z].up) =>
               TotalUp(With(chunks, i, s)) <= TotalUp(chunks)
      BY <1>2, <2>0, <3>1, FilesMore
    <3>3. TotalUp(With(chunks, i, s)) \in Nat /\ TotalUp(chunks) \in Nat /\ MaxUp \in Nat
      BY <1>2, <2>0, UpFilesFinite, WithFacts DEF FlowBounds
    <3>4. CASE TotalUp(chunks) < MaxUp
      BY <3>2, <3>3, <3>4
    <3>5. CASE ~(TotalUp(chunks) < MaxUp)
      <4>1. TotalUp(With(chunks, i, s)) <= TotalUp(chunks)
        BY <1>1, <1>3, <2>2, <3>2, <3>5
      <4> QED BY <2>0, <3>3, <4>1
    <3> QED BY <3>4, <3>5
  <2> QED BY <2>1, <2>2
<1>7. Written(i, n, r, s)
  BY <1>2, <1>4, <1>5, <1>6 DEF Written
<1> QED BY <1>7 DEF s

\* Chunk k is replaced by one that is not mapped anew.
LEMMA ExceptFiles ==
  ASSUME FlowInputs, FlowBounds, chunks \in AllChunks, NEW i \in Inputs,
         NEW r \in Seq(Chunk), NEW k \in DOMAIN r, NEW e \in Chunk, e.up => r[k].up,
         TotalUp(With(chunks, i, r)) <= MaxUp
  PROVE  TotalUp(With(chunks, i, [r EXCEPT ![k] = e])) <= MaxUp
<1> DEFINE s == [r EXCEPT ![k] = e]
           cs == With(chunks, i, r)
<1>1. /\ s \in Seq(Chunk) /\ DOMAIN s = DOMAIN r /\ s[k] = e
      /\ \A x \in DOMAIN r : x # k => s[x] = r[x]
  BY ExceptChunk
<1>2. cs \in AllChunks /\ cs[i] = r /\ With(cs, i, s) = With(chunks, i, s)
  BY DEF With, AllChunks
<1>3. TotalUp(cs) <= MaxUp
  OBVIOUS
<1> HIDE DEF s, cs
<1>4. /\ \A x \in DOMAIN s : s[x].up /\ x # k => x \in DOMAIN cs[i] /\ cs[i][x].up
      /\ k \in DOMAIN s /\ s[k].up => k \in DOMAIN cs[i] /\ cs[i][k].up
  BY <1>1, <1>2
<1>5. TotalUp(With(cs, i, s)) <= TotalUp(cs)
  BY <1>1, <1>2, <1>4, FilesMore
<1>6. TotalUp(With(cs, i, s)) \in Nat /\ TotalUp(cs) \in Nat /\ MaxUp \in Nat
  BY <1>1, <1>2, UpFilesFinite, WithFacts DEF FlowBounds
<1>7. TotalUp(With(cs, i, s)) <= MaxUp
  BY <1>3, <1>5, <1>6
<1> QED BY <1>2, <1>7 DEF s

LEMMA WriteFacts ==
  ASSUME FlowInputs, FlowBounds, Counts, NEW i \in Inputs, NEW n \in Sizes, NEW r \in Seq(Chunk),
         UpRule(i, r), Kind[i] # "memrb" => r = chunks[i],
         NEW k \in DOMAIN r, NEW s, s = Write(r, k, n)
  PROVE  Written(i, n, r, s)
<1> DEFINE e == [size |-> r[k].size + n, task |-> r[k].task, up |-> r[k].up]
           b == r[k].size
<1>1. n \in Nat /\ b \in Nat /\ r[k] \in Chunk /\ r[k].task \in Tasks /\ r[k].up \in BOOLEAN
  BY ChunkFields DEF FlowBounds
<1>2. e \in Chunk /\ e.size = b + n /\ e.task = r[k].task /\ e.up = r[k].up
  BY <1>1 DEF Chunk
<1>3. s = [r EXCEPT ![k] = e]
  <2>1. s = [r EXCEPT ![k] = [r[k] EXCEPT !.size = b + n]]
    BY DEF Write
  <2>2. \A c \in Chunk : \A l \in Nat : [c EXCEPT !.size = l] = [size |-> l, task |-> c.task, up |-> c.up]
    BY DEF Chunk
  <2>3. b + n \in Nat
    BY <1>1
  <2>4. [r[k] EXCEPT !.size = b + n] = e
    BY <1>1, <2>2, <2>3, Zenon
  <2> QED BY <2>1, <2>4, Zenon
<1> HIDE DEF e, b
<1>4. /\ s \in Seq(Chunk) /\ s # <<>> /\ DOMAIN s = DOMAIN r /\ s[k] = e
      /\ \A x \in DOMAIN r : x # k => s[x] = r[x]
  BY <1>2, <1>3, ExceptChunk
<1>5. UpRule(i, s)
  BY <1>2, <1>4 DEF UpRule
<1>6. UpBytes(s) <= UpBytes(r) + n
  <2>1. Mapped(s, DOMAIN s) \subseteq Mapped(r, DOMAIN r) \cup ({k} \X ((b + 1)..(b + n)))
    <3> SUFFICES ASSUME NEW p \in Mapped(s, DOMAIN s)
                 PROVE  p \in Mapped(r, DOMAIN r) \cup ({k} \X ((b + 1)..(b + n)))
      OBVIOUS
    <3>1. p = <<p[1], p[2]>> /\ p[1] \in DOMAIN r /\ s[p[1]].up /\ p[2] \in 1..s[p[1]].size
      BY <1>4, MappedIn
    <3>2. CASE p[1] # k \/ p[2] <= b
      <4>1. r[p[1]].up
        BY <1>2, <1>4, <3>1
      <4>2. p[2] \in 1..r[p[1]].size
        BY <1>1, <1>2, <1>4, <3>1, <3>2 DEF b
      <4>3. <<p[1], p[2]>> \in Mapped(r, DOMAIN r)
        BY <3>1, <4>1, <4>2, MappedIn
      <4> QED BY <3>1, <4>3
    <3>3. CASE p[1] = k /\ ~(p[2] <= b)
      <4>1. p[2] \in (b + 1)..(b + n)
        BY <1>1, <1>2, <1>4, <3>1, <3>3
      <4> QED BY <3>1, <3>3, <4>1
    <3> QED BY <3>2, <3>3
  <2> QED BY <1>1, <1>4, <2>1, MappedMore
<1>7. TotalUp(With(chunks, i, s)) <= MaxUp
  <2>0. chunks \in AllChunks /\ TotalUp(chunks) <= MaxUp
    BY DEF Counts
  <2>1. CASE Kind[i] # "fs"
    BY <1>4, <2>0, <2>1, FilesElse
  <2>2. CASE Kind[i] = "fs"
    <3>1. With(chunks, i, r) = chunks
      BY <2>0, <2>2 DEF With, AllChunks
    <3>2. TotalUp(With(chunks, i, r)) <= MaxUp
      BY <2>0, <3>1
    <3>3. TotalUp(With(chunks, i, [r EXCEPT ![k] = e])) <= MaxUp
      BY <1>2, <2>0, <3>2, ExceptFiles
    <3> QED BY <1>3, <3>3, Zenon
  <2> QED BY <2>1, <2>2
<1> QED BY <1>4, <1>5, <1>6, <1>7 DEF Written

\* A file that is put down has no task.
LEMMA MayGoDownFacts ==
  ASSUME FlowInputs, FlowBounds, Counts, NEW i \in Inputs, NEW s \in Seq(Chunk), s # <<>>,
         UpRule(i, s), TotalUp(With(chunks, i, s)) <= MaxUp, NEW t \in MayGoDown(i, s)
  PROVE  /\ t \in Seq(Chunk) /\ t # <<>> /\ UpRule(i, t) /\ TotalUp(With(chunks, i, t)) <= MaxUp
         /\ Kind[i] # "fs" => t = s
<1>1. CASE t = s
  BY <1>1
<1>2. CASE t # s
  <2>1. PICK k \in 1..Len(s) : /\ Kind[i] = "fs" /\ s[k].task = "none"
                               /\ t = [s EXCEPT ![k].up = FALSE]
    BY <1>2 DEF MayGoDown
  <2> DEFINE e == [size |-> s[k].size, task |-> s[k].task, up |-> FALSE]
  <2>2. k \in DOMAIN s /\ s[k] \in Chunk /\ s[k].size \in Nat /\ s[k].task \in Tasks
    BY LenProperties, ChunkFields
  <2>3. e \in Chunk /\ e.task = "none" /\ e.up = FALSE
    BY <2>1, <2>2 DEF Chunk
  <2>4. t = [s EXCEPT ![k] = e]
    <3>1. t = [s EXCEPT ![k] = [s[k] EXCEPT !.up = FALSE]]
      BY <2>1
    <3>2. \A c \in Chunk : \A u \in BOOLEAN :
            [c EXCEPT !.up = u] = [size |-> c.size, task |-> c.task, up |-> u]
      BY ONLY SMTT(30) DEF Chunk
    <3>3. FALSE \in BOOLEAN
      OBVIOUS
    <3>4. [s[k] EXCEPT !.up = FALSE] = e
      BY <2>2, <3>2, <3>3, Zenon
    <3> QED BY <3>1, <3>4, Zenon
  <2> HIDE DEF e
  <2>5. /\ t \in Seq(Chunk) /\ t # <<>> /\ DOMAIN t = DOMAIN s /\ t[k] = e
        /\ \A x \in DOMAIN s : x # k => t[x] = s[x]
    BY <2>2, <2>3, <2>4, ExceptChunk
  <2>6. UpRule(i, t)
    BY <2>1, <2>3, <2>5 DEF UpRule
  <2>7. TotalUp(With(chunks, i, t)) <= MaxUp
    <3>1. chunks \in AllChunks /\ (e.up => s[k].up)
      BY <2>3 DEF Counts
    <3> QED BY <2>2, <2>3, <2>4, <3>1, ExceptFiles
  <2> QED BY <2>1, <2>5, <2>6, <2>7
<1> QED BY <1>1, <1>2

LEMMA WrittenCounts ==
  ASSUME FlowInputs, FlowBounds, Base, Counts, PausedHasChunk, NEW i \in Inputs, NEW n \in Sizes,
         NEW P, AppendWritten(i, n, P)
  PROVE  \E t, m : CountStep(i, t, m)
<1> DEFINE r == Room(i, n)
<1>1. /\ HasRoom(i, n) /\ ~flb_input_buf_paused(i) /\ UNCHANGED is_ingestion_active
      /\ storage_buf_status' = [storage_buf_status EXCEPT ![i] =
                                  IF HitsStorage(i, chunks') THEN "paused" ELSE @]
      /\ mem_buf_status' = [mem_buf_status EXCEPT ![i] =
                              IF HitsMem(i, chunks') THEN "paused" ELSE @]
  BY DEF AppendWritten
<1>2. PICK s \in Targets(i, r, n) : \E t \in MayGoDown(i, s) :
        /\ chunks' = With(chunks, i, t)
        /\ mem_chunks_size' = [mem_chunks_size EXCEPT ![i] = UpBytes(s)]
  BY DEF AppendWritten, With
<1>3. PICK t \in MayGoDown(i, s) :
        /\ chunks' = With(chunks, i, t)
        /\ mem_chunks_size' = [mem_chunks_size EXCEPT ![i] = UpBytes(s)]
  BY <1>2
<1>4. /\ r \in Seq(Chunk) /\ UpRule(i, r) /\ (Kind[i] # "memrb" => r = chunks[i])
      /\ Kind[i] # "fs" => RoomFor(i, r, n)
  BY <1>1, RoomFacts
<1> HIDE DEF r
<1>5. Written(i, n, r, s)
  <2>1. CASE \E e \in NewChunks(i, n) : s = Append(r, e)
    BY <1>4, <2>1, NewChunkFacts
  <2>2. ASSUME NEW k \in 1..Len(r), s = Write(r, k, n)
        PROVE  Written(i, n, r, s)
    <3>1. k \in DOMAIN r
      BY <1>4, LenProperties
    <3> QED BY <1>4, <2>2, <3>1, WriteFacts
  <2>3. \/ \E e \in NewChunks(i, n) : s = Append(r, e)
        \/ \E k \in 1..Len(r) : s = Write(r, k, n)
    BY DEF Targets
  <2> QED BY <2>1, <2>2, <2>3
<1>6. /\ t \in Seq(Chunk) /\ t # <<>> /\ UpRule(i, t) /\ TotalUp(With(chunks, i, t)) <= MaxUp
      /\ Kind[i] # "fs" => t = s
  BY <1>5, MayGoDownFacts DEF Written
<1>7. UpBytes(s) \in Nat /\ UpBytes(r) \in Nat /\ n \in Nat /\ Limit[i] \in Nat /\ Sizes \subseteq Nat
  BY <1>4, <1>5, UpBytesNat DEF Written, FlowInputs, FlowBounds
<1>8. Good(i, t, UpBytes(s))
  <2>1. CASE Kind[i] = "fs"
    BY <1>6, <1>7, <2>1 DEF Good
  <2>2. CASE Kind[i] # "fs"
    <3>1. Within(i, t)
      <4> SUFFICES ASSUME Limit[i] > 0 PROVE \E l \in Sizes : UpBytes(t) <= Limit[i] - 1 + l
        BY DEF Within
      <4>1. PICK l \in Sizes : UpBytes(r) + n <= Limit[i] - 1 + l
        BY <1>4, <2>2 DEF RoomFor
      <4>2. UpBytes(s) <= Limit[i] - 1 + l
        BY <1>5, <1>7, <4>1 DEF Written
      <4> QED BY <1>6, <2>2, <4>2
    <3>2. UpBytes(t) <= UpBytes(s)
      BY <1>6, <1>7, <2>2
    <3> QED BY <1>6, <1>7, <3>1, <3>2 DEF Good
  <2> QED BY <2>1, <2>2
<1>9. chunks'[i] = t
  BY <1>3, <1>6, WithFacts DEF Counts
<1>10. /\ mem_buf_status \in [Inputs -> {"running", "paused"}]
       /\ storage_buf_status \in [Inputs -> {"running", "paused"}]
  BY DEF Base, Types
<1>11. Kind[i] = "mem" /\ mem_buf_status'[i] = "running" => Below(i, t)
  <2> SUFFICES ASSUME Kind[i] = "mem", mem_buf_status'[i] = "running", Limit[i] > 0
               PROVE  UpBytes(t) < Limit[i]
    BY DEF Below
  <2>1. ~HitsMem(i, chunks')
    BY <1>1, <1>10
  <2>2. ~(UpBytes(t) >= Limit[i])
    BY <1>9, <2>1 DEF HitsMem, is_mem_overlimit
  <2>3. UpBytes(t) \in Nat
    BY <1>6, UpBytesNat
  <2> QED BY <1>7, <2>2, <2>3
<1>12. \A j \in Inputs \ {i} : /\ mem_buf_status'[j] = mem_buf_status[j]
                               /\ storage_buf_status'[j] = storage_buf_status[j]
  BY <1>1, <1>10
<1>13. CountStep(i, t, UpBytes(s))
  BY <1>1, <1>3, <1>6, <1>8, <1>11, <1>12 DEF CountStep, flb_input_buf_paused
<1> QED BY <1>13

-----------------------------------------------------------------------------
(* The invariant, and what follows from it.                                *)

RoomTypes == releasing \in Inputs \cup {None} /\ stranded \subseteq Inputs
FlowInv == Base /\ Counts /\ PausedHasChunk /\ ring \in [Inputs -> Nat] /\ RoomTypes

\* What is stranded stays so.
LEMMA RoomStep ==
  ASSUME RoomTypes, [Next]_vars
  PROVE  RoomTypes' /\ stranded \subseteq stranded'
<1> USE DEF RoomTypes, room
<1>1. CASE UNCHANGED vars
  BY <1>1 DEF vars
<1>2. CASE Ingest
  <2>1. ASSUME NEW i, NEW rg, AppendRaw(i, rg) PROVE releasing' = None /\ stranded' = stranded
    BY <2>1 DEF AppendRaw
  <2>2. \/ releasing' = None /\ stranded' = stranded
        \/ \E i \in Inputs : CollectThread(i)
    BY <1>2, <2>1, Zenon DEF Ingest, Collect, CollectRing, CollectEmitter
  <2> QED BY <2>2 DEF CollectThread
<1>3. CASE Engine
  BY <1>3 DEF Engine, Flush, Retry, TaskEnds, Release
<1>4. CASE StopIngestion \/ \E i \in Inputs : ThreadTold(i)
  BY <1>4 DEF StopIngestion, ThreadTold
<1> QED BY <1>1, <1>2, <1>3, <1>4 DEF Next

LEMMA StillInv ==
  ASSUME Counts, PausedHasChunk, stranded \subseteq stranded', Still
  PROVE  Counts' /\ PausedHasChunk'
<1>1. /\ UNCHANGED <<chunks, mem_chunks_size, mem_buf_status, storage_buf_status>>
      /\ is_ingestion_active' => is_ingestion_active
  BY DEF Still, status
<1>2. Counts'
  BY <1>1 DEF Counts
<1>3. PausedHasChunk'
  BY <1>1 DEF PausedHasChunk, flb_input_buf_paused
<1> QED BY <1>2, <1>3

LEMMA AppendCounts ==
  ASSUME FlowInputs, FlowBounds, FlowInv, NEW i \in Inputs,
         NEW rg \in [Inputs -> Nat], AppendRaw(i, rg)
  PROVE  /\ Still \/ \E t, m : CountStep(i, t, m)
         /\ ring' \in [Inputs -> Nat]
<1> USE DEF FlowInv
<1>1. PICK n \in Sizes :
        \/ (AppendNoRoom(i, n) \/ AppendRefused(i, n)) /\ ring' = rg
        \/ /\ AppendFiltered(i, n, {}) \/ AppendWritten(i, n, {})
           /\ ring' = rg /\ UNCHANGED senders
        \/ /\ Em # None /\ i # Em /\ rg[Em] < MaxRing
           /\ AppendFiltered(i, n, EmitPauses(i)) \/ AppendWritten(i, n, EmitPauses(i))
           /\ Emit(i, rg)
  BY DEF AppendRaw
<1>2. ring' \in [Inputs -> Nat]
  <2>1. CASE ring' = rg
    BY <2>1
  <2>2. CASE Em # None /\ Emit(i, rg)
    <3>1. Em \in Inputs
      BY <2>2 DEF FlowInputs
    <3>2. CASE flb_input_buf_paused(Em)
      BY <2>2, <3>1, <3>2 DEF Emit
    <3>3. CASE ~flb_input_buf_paused(Em)
      <4>1. ring' = [rg EXCEPT ![Em] = rg[Em] + 1]
        BY <2>2, <3>3 DEF Emit
      <4> QED BY <3>1, <4>1
    <3> QED BY <3>2, <3>3
  <2> QED BY <1>1, <2>1, <2>2
<1>3. CASE AppendNoRoom(i, n)
  BY <1>2, <1>3, NoRoomCounts
<1>4. CASE AppendRefused(i, n)
  BY <1>2, <1>4 DEF AppendRefused, Still
<1>5. CASE \E P : AppendFiltered(i, n, P)
  BY <1>2, <1>5, FilteredCounts
<1>6. CASE \E P : AppendWritten(i, n, P)
  BY <1>2, <1>6, WrittenCounts
<1> QED BY <1>1, <1>3, <1>4, <1>5, <1>6

LEMMA FlowInvStep ==
  ASSUME FlowInputs, FlowBounds, FlowInv, [Next]_vars
  PROVE  FlowInv'
<1> USE DEF FlowInv
<1>1. Base' /\ RoomTypes' /\ stranded \subseteq stranded'
  BY BaseStep, RoomStep
<1> DEFINE Fine == Counts' /\ PausedHasChunk' /\ ring' \in [Inputs -> Nat]
<1> SUFFICES Fine
  BY <1>1
<1>2. ASSUME Still, ring' \in [Inputs -> Nat] PROVE Fine
  BY <1>1, <1>2, StillInv
<1>3. ASSUME NEW i \in Inputs, NEW rg \in [Inputs -> Nat], AppendRaw(i, rg) PROVE Fine
  <2>1. (Still \/ \E t, m : CountStep(i, t, m)) /\ ring' \in [Inputs -> Nat]
    BY <1>3, AppendCounts
  <2> QED BY <1>1, <1>2, <2>1, CountStepInv
<1>4. CASE UNCHANGED vars
  BY <1>2, <1>4 DEF vars, Still
<1>5. ASSUME NEW i \in Inputs, Collect(i) PROVE Fine
  BY <1>3, <1>5 DEF Collect
<1>6. ASSUME NEW i \in Inputs, CollectThread(i) PROVE Fine
  <2>1. ring' \in [Inputs -> Nat] /\ Still
    BY <1>6 DEF CollectThread, Still
  <2> QED BY <1>2, <2>1
<1>7. ASSUME NEW i \in Inputs, ring[i] > 0, AppendRaw(i, [ring EXCEPT ![i] = @ - 1]) PROVE Fine
  <2>1. [ring EXCEPT ![i] = @ - 1] \in [Inputs -> Nat]
    BY <1>7
  <2> QED BY <1>3, <1>7, <2>1
<1>8. ASSUME NEW i \in Inputs, CollectRing(i) PROVE Fine
  BY <1>7, <1>8 DEF CollectRing, CollectsRing
<1>9. CASE CollectEmitter
  <2>1. Em \in Inputs
    BY <1>9 DEF CollectEmitter, CollectsEmitter, FlowInputs
  <2> QED BY <1>7, <1>9, <2>1 DEF CollectEmitter, CollectsEmitter
<1>10. ASSUME NEW i \in Inputs, NEW k, Flush(i, k) \/ Retry(i, k) \/ TaskEnds(i, k) PROVE Fine
  <2>1. \E t, m : CountStep(i, t, m)
    BY <1>10, FlushCounts, RetryCounts, TaskEndsCounts
  <2>2. ring' = ring
    BY <1>10 DEF Flush, Retry, TaskEnds
  <2> QED BY <1>1, <2>1, <2>2, CountStepInv
<1>10a. ASSUME NEW i \in Inputs, NEW j \in Inputs, NEW k, Release(i, j, k) PROVE Fine
  <2>1. (\E t, m : CountStep(j, t, m)) /\ ring' = ring
    BY <1>10a, ReleaseCounts DEF Release
  <2> QED BY <1>1, <2>1, CountStepInv
<1>11. CASE StopIngestion
  <2>1. Still /\ ring' = ring
    BY <1>11 DEF StopIngestion, Still
  <2> QED BY <1>2, <2>1
<1>12. ASSUME NEW i \in Inputs, ThreadTold(i) PROVE Fine
  <2>1. Still /\ ring' = ring
    BY <1>12 DEF ThreadTold, Still
  <2> QED BY <1>2, <2>1
<1> QED BY <1>4, <1>5, <1>6, <1>8, <1>9, <1>10, <1>10a, <1>11, <1>12 DEF Next, Ingest, Engine

LEMMA InitCounts ==
  ASSUME FlowInputs, FlowBounds, Init PROVE FlowInv
<1>1. Base
  BY InitBase
<1>2. chunks = [i \in Inputs |-> <<>>] /\ mem_chunks_size = [i \in Inputs |-> 0]
      /\ ring = [i \in Inputs |-> 0]
  BY DEF Init
<1>3. chunks \in AllChunks /\ mem_chunks_size \in [Inputs -> Nat] /\ ring \in [Inputs -> Nat]
  BY <1>2 DEF AllChunks
<1>4. ASSUME NEW i \in Inputs
      PROVE  /\ Good(i, chunks[i], mem_chunks_size[i]) /\ Below(i, chunks[i])
             /\ ~flb_input_buf_paused(i)
  <2>1. chunks[i] = <<>> /\ mem_chunks_size[i] = 0 /\ UpBytes(chunks[i]) = 0 /\ Limit[i] \in Nat
    BY <1>2, UpBytesEmpty DEF FlowInputs
  <2>2. Below(i, chunks[i])
    BY <2>1 DEF Below
  <2>3. Within(i, chunks[i])
    <3>1. PICK n \in Sizes : n \in Nat
      BY DEF FlowBounds
    <3>2. Limit[i] > 0 => UpBytes(chunks[i]) <= Limit[i] - 1 + n
      BY <2>1, <3>1
    <3> QED BY <3>2 DEF Within
  <2>4. UpRule(i, <<>>) /\ <<>> \in Seq(Chunk)
    BY DEF UpRule
  <2>5. ~flb_input_buf_paused(i)
    BY DEF Init, flb_input_buf_paused
  <2> QED BY <2>1, <2>2, <2>3, <2>4, <2>5 DEF Good
<1>5. TotalUp(chunks) <= MaxUp
  <2>1. UpFiles(chunks) = {}
    <3>1. \A i \in Inputs : DOMAIN chunks[i] = {}
      BY <1>2
    <3> QED BY <3>1, UpFilesIn
  <2> QED BY <2>1, FS_EmptySet DEF TotalUp, FlowBounds
<1>6. Counts
  BY <1>3, <1>4, <1>5 DEF Counts
<1>7. PausedHasChunk
  BY <1>4 DEF PausedHasChunk
<1>8. RoomTypes
  BY DEF Init, RoomTypes
<1> QED BY <1>1, <1>3, <1>6, <1>7, <1>8 DEF FlowInv

LEMMA FlowInvariant == ASSUME FlowInputs, FlowBounds PROVE Spec => []FlowInv
<1>1. Init => FlowInv
  BY InitCounts
<1>2. FlowInv /\ [Next]_vars => FlowInv'
  BY FlowInvStep
<1> QED BY <1>1, <1>2, PTL DEF Spec

\* The type invariant; that the count of the bytes in use is a number rests on
\* the number of bytes of a chunk.
THEOREM FlowTypeOK == ASSUME FlowInputs, FlowBounds PROVE Spec => []TypeOK
<1>1. FlowInv => TypeOK
  BY DEF FlowInv, Base, Types, Counts, AllChunks, RoomTypes, TypeOK
<1> QED BY <1>1, FlowInvariant, PTL

\* With or without threads and emitters, flb_input_chunk_protect and
\* memrb_input_chunk_release_space keep an input that buffers in memory within
\* one append of mem_buf_limit.
THEOREM FlowMemLimitHeld == ASSUME FlowInputs, FlowBounds PROVE Spec => []MemLimitHeld
<1>1. FlowInv => MemLimitHeld
  BY DEF FlowInv, Counts, Good, Within, MemLimitHeld
<1> QED BY <1>1, FlowInvariant, PTL

\* flb_task_destroy never leaves a paused input without a chunk, whichever
\* inputs the mapped files belong to, so that flb_input_chunk_set_limits is
\* called for it again; only the release of its last chunk by another append
\* does.
THEOREM FlowPausedHasChunk == ASSUME FlowInputs, FlowBounds PROVE Spec => []PausedHasChunk
<1>1. FlowInv => PausedHasChunk
  BY DEF FlowInv
<1> QED BY <1>1, FlowInvariant, PTL
=============================================================================
