-------------------------- MODULE FlbUpstreamProofs --------------------------
(***************************************************************************)
(* Proofs about FlbUpstream, for any number of connections and coroutines, *)
(* with or without keepalive, limit and timeouts.                          *)
(***************************************************************************)
EXTENDS FlbUpstream, TLAPS

\* The connection of a coroutine is not freed under it: it is in use, or its
\* destruction waits for the busy flag.
HeldIsBusy ==
  \A k \in Coros : conn[k] # None =>
    queue[conn[k]] \in {"busy", "destroy"} /\ busy[conn[k]]

\* What is in the destroy queue is known neither to the loop nor the kernel.
Closed ==
  \A c \in Conns : queue[c] = "destroy" =>
    ~open[c] /\ event[c] = "none" /\ waiter[c] = None

\* Only registered events are queued.
Registered == \A c \in ready : event[c] # "none"

\* A connection resumes only a coroutine that waits for it.
WaiterWaits ==
  \A c \in Conns : waiter[c] # None =>
    at[waiter[c]] \in {"connect", "io"} /\ conn[waiter[c]] = c

\* The timeout of the operation a coroutine may start next is set.
Armed ==
  \A k \in Coros :
    /\ at[k] = "hold" => armed[conn[k]] = Timer("io")
    /\ at[k] = "dns" => armed[conn[k]] = Timer("connect")

\* During a lookup there is no socket yet, and the connection stays in the
\* busy queue unless it is given up.
LookupGoesOn ==
  \A k \in Coros : at[k] = "dns" =>
    /\ event[conn[k]] = "none"
    /\ ~error[conn[k]] => queue[conn[k]] = "busy"

IInv ==
  /\ TypeOK
  /\ NoDangling
  /\ AvailableIsUsable
  /\ WaiterIsReached
  /\ NothingLost
  /\ HeldIsBusy
  /\ Closed
  /\ Registered
  /\ WaiterWaits
  /\ Armed
  /\ LookupGoesOn

\* A connection somebody waits for is busy and its event resumes.
LEMMA WaitedFor ==
  ASSUME IInv
  PROVE  \A x \in Conns : waiter[x] # None =>
           queue[x] = "busy" /\ open[x] /\ event[x] = "thread"
BY DEF IInv, TypeOK, WaiterWaits, WaiterIsReached

-----------------------------------------------------------------------------
(* Connecting.                                                             *)

\* A coroutine gets a new connection while the available ones are dropped, or
\* goes on with the connection it has.
Begins(k, c, S) ==
  \/ at[k] = "idle" /\ queue[c] = None /\ S = Available
  \/ at[k] \in {"dns", "connect"} /\ conn[k] = c /\ S = {}

\* Nobody else has the connection, and nobody the dropped ones.
LEMMA OthersApart ==
  ASSUME IInv, NEW k \in Coros, NEW c \in Conns, NEW S, Begins(k, c, S)
  PROVE  /\ \A j \in Coros : j # k => conn[j] # c
         /\ \A j \in Coros : conn[j] \notin S
         /\ \A x \in S : queue[x] = "av"
         /\ S \subseteq Conns /\ c \notin S
         /\ queue[c] \in {None, "busy", "destroy"}
BY UpstreamConfig DEF IInv, TypeOK, NoDangling, AvailableIsUsable, HeldIsBusy, Begins,
   Available, Allocated

\* One lemma per way a connect goes on.
LEMMA LooksUpKeeps ==
  ASSUME IInv, NEW k \in Coros, NEW c \in Conns, NEW S,
         Begins(k, c, S), ConnectLooksUp(k, c, S), Connecting(c, TRUE),
         at[k] = "idle", UNCHANGED <<saved, error, down>>
  PROVE  IInv'
<1>1. \A x \in Conns : waiter[x] # None => queue[x] = "busy" /\ event[x] = "thread"
  BY WaitedFor
<1>2. /\ \A j \in Coros : j # k => conn[j] # c
      /\ \A j \in Coros : conn[j] \notin S
      /\ \A x \in S : queue[x] = "av"
      /\ S \subseteq Conns /\ c \notin S
      /\ queue[c] \in {None, "busy", "destroy"}
  BY OthersApart
<1>3. TypeOK'
  BY UpstreamConfig, <1>1, <1>2 DEF IInv, TypeOK, Timer, Begins,
       ConnectLooksUp, Connecting, Place, Moves
<1>4. NoDangling'
  BY UpstreamConfig, <1>1, <1>2 DEF IInv, TypeOK, NoDangling, Allocated,
       Begins, ConnectLooksUp, Connecting, Place, Moves
<1>5. AvailableIsUsable'
  BY UpstreamConfig, <1>1, <1>2 DEF IInv, TypeOK, AvailableIsUsable,
       Available, Begins, ConnectLooksUp, Connecting, Place, Moves
<1>6. WaiterIsReached'
  BY UpstreamConfig, <1>1, <1>2 DEF IInv, TypeOK, WaiterIsReached, Timer,
       Begins, ConnectLooksUp, Connecting, Place, Moves
<1>7. NothingLost'
  BY UpstreamConfig, <1>1, <1>2 DEF IInv, TypeOK, AvailableIsUsable,
       NothingLost, HeldIsBusy, Closed, Available, Allocated, Begins,
       ConnectLooksUp, Connecting, Place, Moves
<1>8. HeldIsBusy'
  BY DEF IInv, TypeOK, HeldIsBusy, Begins, ConnectLooksUp, Connecting,
       Place, Moves
<1>9. Closed'
  BY UpstreamConfig, <1>1, <1>2 DEF IInv, TypeOK, Closed, Begins,
       ConnectLooksUp, Connecting, Place, Moves
<1>10. Registered'
  BY DEF IInv, TypeOK, Registered, Begins, ConnectLooksUp, Connecting,
       Place, Moves
<1>11. WaiterWaits'
  BY DEF IInv, TypeOK, WaiterWaits, Begins, ConnectLooksUp, Connecting,
       Place, Moves
<1>12. Armed'
  BY UpstreamConfig, <1>1, <1>2 DEF IInv, TypeOK, Armed, Timer, Begins,
       ConnectLooksUp, Connecting, Place, Moves
<1>13. LookupGoesOn'
  BY UpstreamConfig, <1>1, <1>2 DEF IInv, TypeOK, LookupGoesOn, Begins,
       ConnectLooksUp, Connecting, Place, Moves
<1> QED
  BY <1>3, <1>4, <1>5, <1>6, <1>7, <1>8, <1>9, <1>10, <1>11, <1>12, <1>13 DEF IInv

LEMMA YieldsKeeps ==
  ASSUME IInv, NEW k \in Coros, NEW c \in Conns, NEW S,
         Begins(k, c, S), ConnectYields(k, c, S), Connecting(c, TRUE),
         UNCHANGED <<saved, error, down>>
  PROVE  IInv'
<1>1. \A x \in Conns : waiter[x] # None => queue[x] = "busy" /\ event[x] = "thread"
  BY WaitedFor
<1>2. /\ \A j \in Coros : j # k => conn[j] # c
      /\ \A j \in Coros : conn[j] \notin S
      /\ \A x \in S : queue[x] = "av"
      /\ S \subseteq Conns /\ c \notin S
      /\ queue[c] \in {None, "busy", "destroy"}
  BY OthersApart
<1>3. TypeOK'
  BY UpstreamConfig, <1>1, <1>2 DEF IInv, TypeOK, Timer, Begins,
       ConnectYields, Connecting, Place, Moves
<1>4. NoDangling'
  BY UpstreamConfig, <1>1, <1>2 DEF IInv, TypeOK, NoDangling, Allocated,
       Begins, ConnectYields, Connecting, Place, Moves
<1>5. AvailableIsUsable'
  BY UpstreamConfig, <1>1, <1>2 DEF IInv, TypeOK, AvailableIsUsable,
       Available, Begins, ConnectYields, Connecting, Place, Moves
<1>6. WaiterIsReached'
  <2>1. \A j \in Coros : j # k /\ at[j] \in {"connect", "io"} =>
          /\ at'[j] = at[j] /\ conn'[j] = conn[j] /\ waiter'[conn[j]] = waiter[conn[j]]
          /\ queue'[conn[j]] = queue[conn[j]] /\ open'[conn[j]] = open[conn[j]]
          /\ event'[conn[j]] = event[conn[j]] /\ armed'[conn[j]] = armed[conn[j]]
    BY UpstreamConfig, <1>1, <1>2 DEF IInv, TypeOK, WaiterIsReached, Timer,
         Begins, ConnectYields, Connecting, Place, Moves
  <2>2. /\ at'[k] = "connect" /\ conn'[k] = c /\ waiter'[c] = k
    BY DEF IInv, TypeOK, WaiterIsReached, Timer, Begins, ConnectYields,
         Connecting, Place, Moves
  <2>3. queue'[c] = "busy" /\ open'[c] /\ event'[c] = "thread"
    BY UpstreamConfig, <1>1, <1>2 DEF IInv, TypeOK, WaiterIsReached, Timer,
         Begins, ConnectYields, Connecting, Place, Moves
  <2>4. armed'[c] = Timer("connect")
    BY DEF IInv, TypeOK, WaiterIsReached, Timer, Begins, ConnectYields,
         Connecting, Place, Moves
  <2> QED
    BY UpstreamConfig, <1>1, <1>2, <2>1, <2>2, <2>3, <2>4 DEF IInv, TypeOK,
         WaiterIsReached, Timer, Begins, ConnectYields, Connecting, Place,
         Moves
<1>7. NothingLost'
  BY UpstreamConfig, <1>1, <1>2 DEF IInv, TypeOK, AvailableIsUsable,
       NothingLost, HeldIsBusy, Closed, Available, Allocated, Begins,
       ConnectYields, Connecting, Place, Moves
<1>8. HeldIsBusy'
  BY DEF IInv, TypeOK, HeldIsBusy, Begins, ConnectYields, Connecting, Place,
       Moves
<1>9. Closed'
  BY UpstreamConfig, <1>1, <1>2 DEF IInv, TypeOK, Closed, Begins,
       ConnectYields, Connecting, Place, Moves
<1>10. Registered'
  BY DEF IInv, TypeOK, Registered, Begins, ConnectYields, Connecting, Place,
       Moves
<1>11. WaiterWaits'
  BY DEF IInv, TypeOK, WaiterWaits, Begins, ConnectYields, Connecting,
       Place, Moves
<1>12. Armed'
  BY UpstreamConfig, <1>1, <1>2 DEF IInv, TypeOK, Armed, Timer, Begins,
       ConnectYields, Connecting, Place, Moves
<1>13. LookupGoesOn'
  BY UpstreamConfig, <1>1, <1>2 DEF IInv, TypeOK, LookupGoesOn, Begins,
       ConnectYields, Connecting, Place, Moves
<1> QED
  BY <1>3, <1>4, <1>5, <1>6, <1>7, <1>8, <1>9, <1>10, <1>11, <1>12, <1>13 DEF IInv

LEMMA EndsKeeps ==
  ASSUME IInv, NEW k \in Coros, NEW c \in Conns, NEW S,
         Begins(k, c, S), ConnectEnds(k, c, S), UNCHANGED <<saved, error, down>>
  PROVE  IInv'
<1>1. \A x \in Conns : waiter[x] # None => queue[x] = "busy" /\ event[x] = "thread"
  BY WaitedFor
<1>2. /\ \A j \in Coros : j # k => conn[j] # c
      /\ \A j \in Coros : conn[j] \notin S
      /\ \A x \in S : queue[x] = "av"
      /\ S \subseteq Conns /\ c \notin S
      /\ queue[c] \in {None, "busy", "destroy"}
  BY OthersApart
<1>3. TypeOK'
  BY UpstreamConfig, <1>1, <1>2 DEF IInv, TypeOK, Timer, Begins,
       ConnectEnds, Place, Moves
<1>4. NoDangling'
  BY UpstreamConfig, <1>1, <1>2 DEF IInv, TypeOK, NoDangling, Allocated,
       Begins, ConnectEnds, Place, Moves
<1>5. AvailableIsUsable'
  BY UpstreamConfig, <1>1, <1>2 DEF IInv, TypeOK, AvailableIsUsable,
       Available, Begins, ConnectEnds, Place, Moves
<1>6. WaiterIsReached'
  BY UpstreamConfig, <1>1, <1>2 DEF IInv, TypeOK, WaiterIsReached, Timer,
       Begins, ConnectEnds, Place, Moves
<1>7. NothingLost'
  BY UpstreamConfig, <1>1, <1>2 DEF IInv, TypeOK, AvailableIsUsable,
       NothingLost, HeldIsBusy, Closed, Available, Allocated, Begins,
       ConnectEnds, Place, Moves
<1>8. HeldIsBusy'
  BY DEF IInv, TypeOK, HeldIsBusy, Begins, ConnectEnds, Place, Moves
<1>9. Closed'
  BY UpstreamConfig, <1>1, <1>2 DEF IInv, TypeOK, Closed, Begins,
       ConnectEnds, Place, Moves
<1>10. Registered'
  BY DEF IInv, TypeOK, Registered, Begins, ConnectEnds, Place, Moves
<1>11. WaiterWaits'
  BY DEF IInv, TypeOK, WaiterWaits, Begins, ConnectEnds, Place, Moves
<1>12. Armed'
  BY UpstreamConfig, <1>1, <1>2 DEF IInv, TypeOK, Armed, Timer, Begins,
       ConnectEnds, Place, Moves
<1>13. LookupGoesOn'
  BY UpstreamConfig, <1>1, <1>2 DEF IInv, TypeOK, LookupGoesOn, Begins,
       ConnectEnds, Place, Moves
<1> QED
  BY <1>3, <1>4, <1>5, <1>6, <1>7, <1>8, <1>9, <1>10, <1>11, <1>12, <1>13 DEF IInv

LEMMA FailsKeeps ==
  ASSUME IInv, NEW k \in Coros, NEW c \in Conns, NEW S,
         Begins(k, c, S), ConnectFails(k, c, S), UNCHANGED <<saved, error, down>>
  PROVE  IInv'
<1>1. \A x \in Conns : waiter[x] # None => queue[x] = "busy" /\ event[x] = "thread"
  BY WaitedFor
<1>2. /\ \A j \in Coros : j # k => conn[j] # c
      /\ \A j \in Coros : conn[j] \notin S
      /\ \A x \in S : queue[x] = "av"
      /\ S \subseteq Conns /\ c \notin S
      /\ queue[c] \in {None, "busy", "destroy"}
  BY OthersApart
<1>3. TypeOK'
  BY DEF IInv, TypeOK, Timer, Begins, ConnectFails, Place, Moves
<1>4. NoDangling'
  BY UpstreamConfig, <1>1, <1>2 DEF IInv, TypeOK, NoDangling, Allocated,
       Begins, ConnectFails, Place, Moves
<1>5. AvailableIsUsable'
  BY UpstreamConfig, <1>1, <1>2 DEF IInv, TypeOK, AvailableIsUsable,
       Available, Begins, ConnectFails, Place, Moves
<1>6. WaiterIsReached'
  BY UpstreamConfig, <1>1, <1>2 DEF IInv, TypeOK, WaiterIsReached, Timer,
       Begins, ConnectFails, Place, Moves
<1>7. NothingLost'
  BY DEF IInv, TypeOK, AvailableIsUsable, NothingLost, HeldIsBusy, Closed,
       Available, Allocated, Begins, ConnectFails, Place, Moves
<1>8. HeldIsBusy'
  BY UpstreamConfig, <1>1, <1>2 DEF IInv, TypeOK, HeldIsBusy, Begins,
       ConnectFails, Place, Moves
<1>9. Closed'
  <2>1. \A x \in Conns : queue'[x] = "destroy" => ~open'[x] /\ event'[x] = "none"
    BY DEF IInv, TypeOK, Closed, Begins, ConnectFails, Place, Moves
  <2>2. \A x \in Conns : queue'[x] = "destroy" => waiter'[x] = None
    BY UpstreamConfig, <1>1, <1>2 DEF IInv, TypeOK, Closed, Begins,
         ConnectFails, Place, Moves
  <2> QED
    BY <2>1, <2>2 DEF IInv, TypeOK, Closed, Begins, ConnectFails, Place, Moves
<1>10. Registered'
  BY DEF IInv, TypeOK, Registered, Begins, ConnectFails, Place, Moves
<1>11. WaiterWaits'
  BY DEF IInv, TypeOK, WaiterWaits, Begins, ConnectFails, Place, Moves
<1>12. Armed'
  BY UpstreamConfig, <1>1, <1>2 DEF IInv, TypeOK, Armed, Timer, Begins,
       ConnectFails, Place, Moves
<1>13. LookupGoesOn'
  BY UpstreamConfig, <1>1, <1>2 DEF IInv, TypeOK, LookupGoesOn, Begins,
       ConnectFails, Place, Moves
<1> QED
  BY <1>3, <1>4, <1>5, <1>6, <1>7, <1>8, <1>9, <1>10, <1>11, <1>12, <1>13 DEF IInv

-----------------------------------------------------------------------------
(* The other operations of a coroutine.                                    *)

LEMMA GetAvailableKeeps ==
  ASSUME IInv, NEW k \in Coros, GetAvailable(k)
  PROVE  IInv'
<1>1. \A x \in Conns : waiter[x] # None => queue[x] = "busy" /\ event[x] = "thread"
  BY WaitedFor
<1>2. TypeOK'
  <2>1. queue' \in [Conns -> {None, "av", "busy", "destroy"}]
    BY DEF IInv, TypeOK, Timer, GetAvailable, Moves
  <2>2. event' \in [Conns -> {"none", "ka", "thread"}]
    BY <2>1 DEF IInv, TypeOK, Timer, GetAvailable, Moves
  <2>3. error' \in [Conns -> BOOLEAN]
    BY <2>1, <2>2 DEF IInv, TypeOK, Timer, GetAvailable, Moves
  <2>4. armed' \in [Conns -> {"none", "connect", "io"}]
    BY <2>1, <2>2, <2>3 DEF IInv, TypeOK, Timer, GetAvailable, Moves
  <2> QED
    BY UpstreamConfig, <1>1, <2>1, <2>2, <2>3, <2>4 DEF IInv, TypeOK, Timer,
         GetAvailable, Moves
<1>3. NoDangling'
  BY UpstreamConfig, <1>1 DEF IInv, TypeOK, NoDangling, Allocated,
       GetAvailable, Moves
<1>4. AvailableIsUsable'
  BY DEF IInv, TypeOK, AvailableIsUsable, Available, GetAvailable, Moves
<1>5. WaiterIsReached'
  BY DEF IInv, TypeOK, AvailableIsUsable, WaiterIsReached, HeldIsBusy,
       Closed, Available, Timer, GetAvailable, Moves
<1>6. NothingLost'
  BY UpstreamConfig, <1>1 DEF IInv, TypeOK, AvailableIsUsable, NothingLost,
       HeldIsBusy, Closed, Available, Allocated, GetAvailable, Moves
<1>7. HeldIsBusy'
  BY DEF IInv, TypeOK, AvailableIsUsable, HeldIsBusy, Closed, Available,
       GetAvailable, Moves
<1>8. Closed'
  BY UpstreamConfig, <1>1 DEF IInv, TypeOK, AvailableIsUsable, HeldIsBusy,
       Closed, Available, GetAvailable, Moves
<1>9. Registered'
  BY DEF IInv, TypeOK, Registered, GetAvailable, Moves
<1>10. WaiterWaits'
  BY DEF IInv, TypeOK, WaiterWaits, GetAvailable, Moves
<1>11. Armed'
  BY DEF IInv, TypeOK, AvailableIsUsable, HeldIsBusy, Closed, Armed,
       Available, Timer, GetAvailable, Moves
<1>12. LookupGoesOn'
  BY DEF IInv, TypeOK, AvailableIsUsable, HeldIsBusy, Closed, LookupGoesOn,
       Available, GetAvailable, Moves
<1> QED
  BY <1>2, <1>3, <1>4, <1>5, <1>6, <1>7, <1>8, <1>9, <1>10, <1>11, <1>12 DEF IInv

LEMMA GetRefusedKeeps ==
  ASSUME IInv, NEW k \in Coros, GetRefused(k)
  PROVE  IInv'
<1>1. \A x \in Conns : waiter[x] # None => queue[x] = "busy" /\ event[x] = "thread"
  BY WaitedFor
<1>2. TypeOK'
  BY DEF IInv, TypeOK, Timer, GetRefused, prepare_destroy_conn, Place, flags
<1>3. NoDangling'
  BY UpstreamConfig, <1>1 DEF IInv, TypeOK, NoDangling, Allocated,
       GetRefused, prepare_destroy_conn, Place, flags
<1>4. AvailableIsUsable'
  BY UpstreamConfig, <1>1 DEF IInv, TypeOK, AvailableIsUsable, Available,
       GetRefused, prepare_destroy_conn, Place, flags
<1>5. WaiterIsReached'
  BY DEF IInv, TypeOK, AvailableIsUsable, WaiterIsReached, HeldIsBusy,
       Closed, Available, Timer, GetRefused, prepare_destroy_conn, Place,
       flags
<1>6. NothingLost'
  BY DEF IInv, TypeOK, AvailableIsUsable, NothingLost, HeldIsBusy, Closed,
       Available, Allocated, GetRefused, prepare_destroy_conn, Place, flags
<1>7. HeldIsBusy'
  BY DEF IInv, TypeOK, HeldIsBusy, GetRefused, prepare_destroy_conn, Place,
       flags
<1>8. Closed'
  BY UpstreamConfig, <1>1 DEF IInv, TypeOK, AvailableIsUsable, HeldIsBusy,
       Closed, Available, GetRefused, prepare_destroy_conn, Place, flags
<1>9. Registered'
  BY DEF IInv, TypeOK, Registered, GetRefused, prepare_destroy_conn, Place,
       flags
<1>10. WaiterWaits'
  BY DEF IInv, TypeOK, WaiterWaits, GetRefused, prepare_destroy_conn, Place,
       flags
<1>11. Armed'
  BY DEF IInv, TypeOK, Armed, Timer, GetRefused, prepare_destroy_conn,
       Place, flags
<1>12. LookupGoesOn'
  BY DEF IInv, TypeOK, AvailableIsUsable, HeldIsBusy, Closed, LookupGoesOn,
       Available, GetRefused, prepare_destroy_conn, Place, flags
<1> QED
  BY <1>2, <1>3, <1>4, <1>5, <1>6, <1>7, <1>8, <1>9, <1>10, <1>11, <1>12 DEF IInv

LEMMA IoBlocksKeeps ==
  ASSUME IInv, NEW k \in Coros, IoBlocks(k)
  PROVE  IInv'
<1>1. \A x \in Conns : waiter[x] # None => queue[x] = "busy" /\ event[x] = "thread"
  BY WaitedFor
<1>2. TypeOK'
  BY DEF IInv, TypeOK, Timer, IoBlocks, Blocks, Place, Moves
<1>3. NoDangling'
  BY DEF IInv, TypeOK, NoDangling, Allocated, IoBlocks, Blocks, Place, Moves
<1>4. AvailableIsUsable'
  BY DEF IInv, TypeOK, AvailableIsUsable, Available, IoBlocks, Blocks,
       Place, Moves
<1>5. WaiterIsReached'
  BY DEF IInv, TypeOK, NoDangling, AvailableIsUsable, WaiterIsReached,
       HeldIsBusy, Closed, Registered, WaiterWaits, Armed, LookupGoesOn,
       Available, Allocated, Timer, IoBlocks, Blocks, Place, Moves
<1>6. NothingLost'
  BY DEF IInv, TypeOK, NothingLost, Allocated, IoBlocks, Blocks, Place,
       Moves
<1>7. HeldIsBusy'
  BY DEF IInv, TypeOK, HeldIsBusy, IoBlocks, Blocks, Place, Moves
<1>8. Closed'
  BY DEF IInv, TypeOK, Closed, IoBlocks, Blocks, Place, Moves
<1>9. Registered'
  BY DEF IInv, TypeOK, Registered, IoBlocks, Blocks, Place, Moves
<1>10. WaiterWaits'
  BY DEF IInv, TypeOK, WaiterWaits, IoBlocks, Blocks, Place, Moves
<1>11. Armed'
  BY DEF IInv, TypeOK, Armed, Timer, IoBlocks, Blocks, Place, Moves
<1>12. LookupGoesOn'
  BY DEF IInv, TypeOK, AvailableIsUsable, HeldIsBusy, Closed, LookupGoesOn,
       Available, IoBlocks, Blocks, Place, Moves
<1> QED
  BY <1>2, <1>3, <1>4, <1>5, <1>6, <1>7, <1>8, <1>9, <1>10, <1>11, <1>12 DEF IInv

LEMMA IoFailsKeeps ==
  ASSUME IInv, NEW k \in Coros, IoFails(k)
  PROVE  IInv'
<1>1. \A x \in Conns : waiter[x] # None => queue[x] = "busy" /\ event[x] = "thread"
  BY WaitedFor
<1>2. TypeOK'
  <2>1. error' \in [Conns -> BOOLEAN]
    BY DEF IInv, TypeOK, IoFails, Fails
  <2> QED
    BY <2>1 DEF IInv, TypeOK, Timer, IoFails, Fails, socket
<1>3. NoDangling'
  BY DEF IInv, TypeOK, NoDangling, Allocated, IoFails, Fails, socket
<1>4. AvailableIsUsable'
  BY DEF IInv, TypeOK, AvailableIsUsable, Available, IoFails, Fails, socket
<1>5. WaiterIsReached'
  BY DEF IInv, TypeOK, WaiterIsReached, Timer, IoFails, Fails, socket
<1>6. NothingLost'
  BY DEF IInv, TypeOK, NothingLost, Allocated, IoFails, Fails, socket
<1>7. HeldIsBusy'
  BY DEF IInv, TypeOK, HeldIsBusy, IoFails, Fails, socket
<1>8. Closed'
  BY DEF IInv, TypeOK, Closed, IoFails, Fails, socket
<1>9. Registered'
  BY DEF IInv, TypeOK, Registered, IoFails, Fails, socket
<1>10. WaiterWaits'
  BY DEF IInv, TypeOK, WaiterWaits, IoFails, Fails, socket
<1>11. Armed'
  BY DEF IInv, TypeOK, Armed, Timer, IoFails, Fails, socket
<1>12. LookupGoesOn'
  BY DEF IInv, TypeOK, LookupGoesOn, IoFails, Fails, socket
<1> QED
  BY <1>2, <1>3, <1>4, <1>5, <1>6, <1>7, <1>8, <1>9, <1>10, <1>11, <1>12 DEF IInv

LEMMA IoBlocksAgainKeeps ==
  ASSUME IInv, NEW k \in Coros, IoBlocksAgain(k)
  PROVE  IInv'
<1>1. \A x \in Conns : waiter[x] # None => queue[x] = "busy" /\ event[x] = "thread"
  BY WaitedFor
<1>2. TypeOK'
  BY DEF IInv, TypeOK, Timer, IoBlocksAgain, Blocks, Place, Moves, flags
<1>3. NoDangling'
  BY DEF IInv, TypeOK, NoDangling, Allocated, IoBlocksAgain, Blocks, Place,
       Moves, flags
<1>4. AvailableIsUsable'
  BY DEF IInv, TypeOK, AvailableIsUsable, Available, IoBlocksAgain, Blocks,
       Place, Moves, flags
<1>5. WaiterIsReached'
  BY DEF IInv, TypeOK, WaiterIsReached, Timer, IoBlocksAgain, Blocks, Place,
       Moves, flags
<1>6. NothingLost'
  BY DEF IInv, TypeOK, NothingLost, Allocated, IoBlocksAgain, Blocks, Place,
       Moves, flags
<1>7. HeldIsBusy'
  BY DEF IInv, TypeOK, HeldIsBusy, IoBlocksAgain, Blocks, Place, Moves,
       flags
<1>8. Closed'
  BY DEF IInv, TypeOK, Closed, IoBlocksAgain, Blocks, Place, Moves, flags
<1>9. Registered'
  BY DEF IInv, TypeOK, Registered, IoBlocksAgain, Blocks, Place, Moves,
       flags
<1>10. WaiterWaits'
  BY DEF IInv, TypeOK, WaiterWaits, IoBlocksAgain, Blocks, Place, Moves,
       flags
<1>11. Armed'
  BY DEF IInv, TypeOK, Armed, Timer, IoBlocksAgain, Blocks, Place, Moves,
       flags
<1>12. LookupGoesOn'
  BY DEF IInv, TypeOK, AvailableIsUsable, HeldIsBusy, Closed, LookupGoesOn,
       Available, IoBlocksAgain, Blocks, Place, Moves, flags
<1> QED
  BY <1>2, <1>3, <1>4, <1>5, <1>6, <1>7, <1>8, <1>9, <1>10, <1>11, <1>12 DEF IInv

LEMMA IoEndsKeeps ==
  ASSUME IInv, NEW k \in Coros, IoEnds(k)
  PROVE  IInv'
<1>1. \A x \in Conns : waiter[x] # None => queue[x] = "busy" /\ event[x] = "thread"
  BY WaitedFor
<1>2. TypeOK'
  <2>1. UNCHANGED error \/ error' = [error EXCEPT ![conn[k]] = TRUE]
    BY DEF IoEnds, Fails
  <2>2. error' \in [Conns -> BOOLEAN]
    BY <2>1 DEF IInv, TypeOK
  <2>3. event' \in [Conns -> {"none", "ka", "thread"}]
    BY <2>1, <2>2 DEF IInv, TypeOK, Timer, IoEnds, Resumed, Fails, Place,
         Moves
  <2>4. queue' \in [Conns -> {None, "av", "busy", "destroy"}] /\ open' \in [Conns -> BOOLEAN] /\ ready' \subseteq Conns
    BY <2>1, <2>2, <2>3 DEF IInv, TypeOK, Timer, IoEnds, Resumed, Fails,
         Place, Moves
  <2>5. waiter' \in [Conns -> Coros \cup {None}]
    BY <2>1, <2>2, <2>3, <2>4 DEF IInv, TypeOK, Timer, IoEnds, Resumed, Fails,
         Place, Moves
  <2> QED
    BY <2>1, <2>2, <2>3, <2>4, <2>5 DEF IInv, TypeOK, Timer, IoEnds, Resumed,
         Fails, Place, Moves
<1>3. NoDangling'
  BY DEF IInv, TypeOK, NoDangling, Allocated, IoEnds, Resumed, Fails, Place,
       Moves
<1>4. AvailableIsUsable'
  BY DEF IInv, TypeOK, AvailableIsUsable, Available, IoEnds, Resumed, Fails,
       Place, Moves
<1>5. WaiterIsReached'
  BY DEF IInv, TypeOK, WaiterIsReached, Timer, IoEnds, Resumed, Fails,
       Place, Moves
<1>6. NothingLost'
  BY DEF IInv, TypeOK, NothingLost, Allocated, IoEnds, Resumed, Fails,
       Place, Moves
<1>7. HeldIsBusy'
  BY DEF IInv, TypeOK, HeldIsBusy, IoEnds, Resumed, Fails, Place, Moves
<1>8. Closed'
  BY DEF IInv, TypeOK, Closed, IoEnds, Resumed, Fails, Place, Moves
<1>9. Registered'
  BY DEF IInv, TypeOK, Registered, IoEnds, Resumed, Fails, Place, Moves
<1>10. WaiterWaits'
  BY DEF IInv, TypeOK, WaiterWaits, IoEnds, Resumed, Fails, Place, Moves
<1>11. Armed'
  BY DEF IInv, TypeOK, NoDangling, AvailableIsUsable, WaiterIsReached,
       HeldIsBusy, WaiterWaits, Armed, Available, Allocated, Timer, IoEnds,
       Resumed, Fails, Place, Moves
<1>12. LookupGoesOn'
  BY DEF IInv, TypeOK, LookupGoesOn, IoEnds, Resumed, Fails, Place, Moves
<1> QED
  BY <1>2, <1>3, <1>4, <1>5, <1>6, <1>7, <1>8, <1>9, <1>10, <1>11, <1>12 DEF IInv

LEMMA ReleaseAvailableKeeps ==
  ASSUME IInv, NEW k \in Coros, ReleaseAvailable(k)
  PROVE  IInv'
<1>1. \A x \in Conns : waiter[x] # None => queue[x] = "busy" /\ event[x] = "thread"
  BY WaitedFor
<1>2. TypeOK'
  BY DEF IInv, TypeOK, Timer, ReleaseAvailable, Released, Recyclable, Place,
       Moves
<1>3. NoDangling'
  BY UpstreamConfig, <1>1 DEF IInv, TypeOK, NoDangling, Allocated,
       ReleaseAvailable, Released, Recyclable, Place, Moves
<1>4. AvailableIsUsable'
  BY UpstreamConfig, <1>1 DEF IInv, TypeOK, AvailableIsUsable, Available,
       ReleaseAvailable, Released, Recyclable, Place, Moves
<1>5. WaiterIsReached'
  BY DEF IInv, TypeOK, AvailableIsUsable, WaiterIsReached, HeldIsBusy,
       Closed, Available, Timer, ReleaseAvailable, Released, Recyclable,
       Place, Moves
<1>6. NothingLost'
  BY DEF IInv, TypeOK, NothingLost, Allocated, ReleaseAvailable, Released,
       Recyclable, Place, Moves
<1>7. HeldIsBusy'
  BY DEF IInv, TypeOK, AvailableIsUsable, HeldIsBusy, Closed, Available,
       ReleaseAvailable, Released, Recyclable, Place, Moves
<1>8. Closed'
  BY DEF IInv, TypeOK, Closed, ReleaseAvailable, Released, Recyclable,
       Place, Moves
<1>9. Registered'
  BY DEF IInv, TypeOK, Registered, ReleaseAvailable, Released, Recyclable,
       Place, Moves
<1>10. WaiterWaits'
  BY DEF IInv, TypeOK, WaiterWaits, ReleaseAvailable, Released, Recyclable,
       Place, Moves
<1>11. Armed'
  BY DEF IInv, TypeOK, Armed, Timer, ReleaseAvailable, Released, Recyclable,
       Place, Moves
<1>12. LookupGoesOn'
  BY DEF IInv, TypeOK, AvailableIsUsable, HeldIsBusy, Closed, LookupGoesOn,
       Available, ReleaseAvailable, Released, Recyclable, Place, Moves
<1> QED
  BY <1>2, <1>3, <1>4, <1>5, <1>6, <1>7, <1>8, <1>9, <1>10, <1>11, <1>12 DEF IInv

LEMMA ReleaseDestroyedKeeps ==
  ASSUME IInv, NEW k \in Coros, ReleaseDestroyed(k)
  PROVE  IInv'
<1>1. \A x \in Conns : waiter[x] # None => queue[x] = "busy" /\ event[x] = "thread"
  BY WaitedFor
<1>2. waiter[conn[k]] = None
  BY UpstreamConfig DEF IInv, TypeOK, WaiterWaits, AvailableIsUsable,
       ReleaseDestroyed
<1>3. TypeOK'
  BY DEF IInv, TypeOK, Timer, ReleaseDestroyed, Released,
       prepare_destroy_conn, Place, Moves
<1>4. NoDangling'
  BY UpstreamConfig, <1>1, <1>2 DEF IInv, TypeOK, NoDangling, Allocated,
       ReleaseDestroyed, Released, prepare_destroy_conn, Place, Moves
<1>5. AvailableIsUsable'
  BY UpstreamConfig, <1>1, <1>2 DEF IInv, TypeOK, AvailableIsUsable,
       Available, ReleaseDestroyed, Released, prepare_destroy_conn, Place,
       Moves
<1>6. WaiterIsReached'
  BY UpstreamConfig, <1>1, <1>2 DEF IInv, TypeOK, WaiterIsReached, Timer,
       ReleaseDestroyed, Released, prepare_destroy_conn, Place, Moves
<1>7. NothingLost'
  BY DEF IInv, TypeOK, NothingLost, Allocated, ReleaseDestroyed, Released,
       prepare_destroy_conn, Place, Moves
<1>8. HeldIsBusy'
  BY DEF IInv, TypeOK, AvailableIsUsable, HeldIsBusy, Closed, Available,
       ReleaseDestroyed, Released, prepare_destroy_conn, Place, Moves
<1>9. Closed'
  BY UpstreamConfig, <1>1, <1>2 DEF IInv, TypeOK, Closed, ReleaseDestroyed,
       Released, prepare_destroy_conn, Place, Moves
<1>10. Registered'
  BY DEF IInv, TypeOK, Registered, ReleaseDestroyed, Released,
       prepare_destroy_conn, Place, Moves
<1>11. WaiterWaits'
  BY DEF IInv, TypeOK, WaiterWaits, ReleaseDestroyed, Released,
       prepare_destroy_conn, Place, Moves
<1>12. Armed'
  BY DEF IInv, TypeOK, Armed, Timer, ReleaseDestroyed, Released,
       prepare_destroy_conn, Place, Moves
<1>13. LookupGoesOn'
  BY DEF IInv, TypeOK, AvailableIsUsable, HeldIsBusy, Closed, LookupGoesOn,
       Available, ReleaseDestroyed, Released, prepare_destroy_conn, Place,
       Moves
<1> QED
  BY <1>3, <1>4, <1>5, <1>6, <1>7, <1>8, <1>9, <1>10, <1>11, <1>12, <1>13 DEF IInv

-----------------------------------------------------------------------------
(* The event loop.                                                         *)

LEMMA ReportKeeps ==
  ASSUME IInv, NEW c \in Conns, Report(c)
  PROVE  IInv'
<1>1. \A x \in Conns : waiter[x] # None => queue[x] = "busy" /\ event[x] = "thread"
  BY WaitedFor
<1>2. TypeOK'
  BY DEF IInv, TypeOK, Timer, Report, flags
<1>3. NoDangling'
  BY DEF IInv, TypeOK, NoDangling, Allocated, Report, flags
<1>4. AvailableIsUsable'
  BY DEF IInv, TypeOK, AvailableIsUsable, Available, Report, flags
<1>5. WaiterIsReached'
  BY DEF IInv, TypeOK, WaiterIsReached, Timer, Report, flags
<1>6. NothingLost'
  BY DEF IInv, TypeOK, NothingLost, Allocated, Report, flags
<1>7. HeldIsBusy'
  BY DEF IInv, TypeOK, HeldIsBusy, Report, flags
<1>8. Closed'
  BY DEF IInv, TypeOK, Closed, Report, flags
<1>9. Registered'
  BY DEF IInv, TypeOK, Registered, Report, flags
<1>10. WaiterWaits'
  BY DEF IInv, TypeOK, WaiterWaits, Report, flags
<1>11. Armed'
  BY DEF IInv, TypeOK, Armed, Timer, Report, flags
<1>12. LookupGoesOn'
  BY DEF IInv, TypeOK, LookupGoesOn, Report, flags
<1> QED
  BY <1>2, <1>3, <1>4, <1>5, <1>6, <1>7, <1>8, <1>9, <1>10, <1>11, <1>12 DEF IInv

LEMMA UnservedKeeps ==
  ASSUME IInv, NEW c \in Conns, Unserved(c)
  PROVE  IInv'
<1>1. \A x \in Conns : waiter[x] # None => queue[x] = "busy" /\ event[x] = "thread"
  BY WaitedFor
<1>2. TypeOK'
  BY DEF IInv, TypeOK, Timer, Unserved, flags
<1>3. NoDangling'
  BY DEF IInv, TypeOK, NoDangling, Allocated, Unserved, flags
<1>4. AvailableIsUsable'
  BY DEF IInv, TypeOK, AvailableIsUsable, Available, Unserved, flags
<1>5. WaiterIsReached'
  BY DEF IInv, TypeOK, WaiterIsReached, Timer, Unserved, flags
<1>6. NothingLost'
  BY DEF IInv, TypeOK, NothingLost, Allocated, Unserved, flags
<1>7. HeldIsBusy'
  BY DEF IInv, TypeOK, HeldIsBusy, Unserved, flags
<1>8. Closed'
  BY DEF IInv, TypeOK, Closed, Unserved, flags
<1>9. Registered'
  BY DEF IInv, TypeOK, Registered, Unserved, flags
<1>10. WaiterWaits'
  BY DEF IInv, TypeOK, WaiterWaits, Unserved, flags
<1>11. Armed'
  BY DEF IInv, TypeOK, Armed, Timer, Unserved, flags
<1>12. LookupGoesOn'
  BY DEF IInv, TypeOK, LookupGoesOn, Unserved, flags
<1> QED
  BY <1>2, <1>3, <1>4, <1>5, <1>6, <1>7, <1>8, <1>9, <1>10, <1>11, <1>12 DEF IInv

LEMMA DroppedKeeps ==
  ASSUME IInv, NEW c \in Conns, cb_upstream_conn_ka_dropped(c)
  PROVE  IInv'
<1>1. \A x \in Conns : waiter[x] # None => queue[x] = "busy" /\ event[x] = "thread"
  BY WaitedFor
<1>2. TypeOK'
  BY DEF IInv, TypeOK, Timer, cb_upstream_conn_ka_dropped,
       prepare_destroy_conn, Place, flags
<1>3. NoDangling'
  BY UpstreamConfig, <1>1 DEF IInv, TypeOK, NoDangling, Allocated,
       cb_upstream_conn_ka_dropped, prepare_destroy_conn, Place, flags
<1>4. AvailableIsUsable'
  BY UpstreamConfig, <1>1 DEF IInv, TypeOK, AvailableIsUsable, Available,
       cb_upstream_conn_ka_dropped, prepare_destroy_conn, Place, flags
<1>5. WaiterIsReached'
  BY DEF IInv, TypeOK, WaiterIsReached, Timer, cb_upstream_conn_ka_dropped,
       prepare_destroy_conn, Place, flags
<1>6. NothingLost'
  BY UpstreamConfig, <1>1 DEF IInv, TypeOK, NoDangling, AvailableIsUsable,
       NothingLost, HeldIsBusy, Closed, Available, Allocated,
       cb_upstream_conn_ka_dropped, prepare_destroy_conn, Place, flags
<1>7. HeldIsBusy'
  BY DEF IInv, TypeOK, HeldIsBusy, cb_upstream_conn_ka_dropped,
       prepare_destroy_conn, Place, flags
<1>8. Closed'
  BY UpstreamConfig, <1>1 DEF IInv, TypeOK, Closed,
       cb_upstream_conn_ka_dropped, prepare_destroy_conn, Place, flags
<1>9. Registered'
  BY DEF IInv, TypeOK, Registered, cb_upstream_conn_ka_dropped,
       prepare_destroy_conn, Place, flags
<1>10. WaiterWaits'
  BY DEF IInv, TypeOK, WaiterWaits, cb_upstream_conn_ka_dropped,
       prepare_destroy_conn, Place, flags
<1>11. Armed'
  BY DEF IInv, TypeOK, Armed, Timer, cb_upstream_conn_ka_dropped,
       prepare_destroy_conn, Place, flags
<1>12. LookupGoesOn'
  BY DEF IInv, TypeOK, LookupGoesOn, cb_upstream_conn_ka_dropped,
       prepare_destroy_conn, Place, flags
<1> QED
  BY <1>2, <1>3, <1>4, <1>5, <1>6, <1>7, <1>8, <1>9, <1>10, <1>11, <1>12 DEF IInv

LEMMA TimeoutsKeep ==
  ASSUME IInv, NEW late, NEW old,
         flb_upstream_conn_timeouts(late, old)
  PROVE  IInv'
<1>1. \A x \in Conns : waiter[x] # None => queue[x] = "busy" /\ event[x] = "thread"
  BY WaitedFor
<1>2. TypeOK'
  BY DEF IInv, TypeOK, Timer, flb_upstream_conn_timeouts, TimedOut, Timed
<1>3. NoDangling'
  BY UpstreamConfig, <1>1 DEF IInv, TypeOK, NoDangling, Allocated,
       flb_upstream_conn_timeouts, TimedOut, Timed
<1>4. AvailableIsUsable'
  BY DEF IInv, TypeOK, AvailableIsUsable, Available,
       flb_upstream_conn_timeouts, TimedOut, Timed
<1>5. WaiterIsReached'
  BY DEF IInv, TypeOK, AvailableIsUsable, WaiterIsReached, HeldIsBusy,
       Closed, Available, Timer, flb_upstream_conn_timeouts, TimedOut, Timed
<1>6. NothingLost'
  BY DEF IInv, TypeOK, AvailableIsUsable, NothingLost, HeldIsBusy, Closed,
       Available, Allocated, flb_upstream_conn_timeouts, TimedOut, Timed
<1>7. HeldIsBusy'
  BY DEF IInv, TypeOK, HeldIsBusy, flb_upstream_conn_timeouts, TimedOut,
       Timed
<1>8. Closed'
  BY UpstreamConfig, <1>1 DEF IInv, TypeOK, AvailableIsUsable, HeldIsBusy,
       Closed, Available, flb_upstream_conn_timeouts, TimedOut, Timed
<1>9. Registered'
  BY DEF IInv, TypeOK, AvailableIsUsable, HeldIsBusy, Closed, Registered,
       Available, flb_upstream_conn_timeouts, TimedOut, Timed
<1>10. WaiterWaits'
  BY DEF IInv, TypeOK, WaiterWaits, flb_upstream_conn_timeouts, TimedOut,
       Timed
<1>11. Armed'
  BY DEF IInv, TypeOK, Armed, Timer, flb_upstream_conn_timeouts, TimedOut,
       Timed
<1>12. LookupGoesOn'
  BY DEF IInv, TypeOK, AvailableIsUsable, HeldIsBusy, Closed, LookupGoesOn,
       Available, flb_upstream_conn_timeouts, TimedOut, Timed
<1> QED
  BY <1>2, <1>3, <1>4, <1>5, <1>6, <1>7, <1>8, <1>9, <1>10, <1>11, <1>12 DEF IInv

LEMMA PendingDestroyKeeps ==
  ASSUME IInv, flb_upstream_conn_pending_destroy
  PROVE  IInv'
<1>1. \A x \in Conns : waiter[x] # None => queue[x] = "busy" /\ event[x] = "thread"
  BY WaitedFor
<1>2. TypeOK'
  BY DEF IInv, TypeOK, Timer, flb_upstream_conn_pending_destroy, Destroyable
<1>3. NoDangling'
  <2> SUFFICES ASSUME NEW x \in Conns, queue'[x] = None
               PROVE  /\ ~open'[x] /\ event'[x] = "none" /\ x \notin ready' /\ waiter'[x] = None
                      /\ \A j \in Coros : conn'[j] # x
    BY DEF NoDangling, Allocated
  <2>1. queue[x] = None \/ Destroyable(x)
    BY DEF IInv, TypeOK, flb_upstream_conn_pending_destroy
  <2>2. /\ ~open[x] /\ event[x] = "none" /\ x \notin ready /\ waiter[x] = None
        /\ \A j \in Coros : conn[j] # x
    BY UpstreamConfig, <1>1, <2>1 DEF Destroyable, IInv, NoDangling,
         Allocated, Closed, HeldIsBusy, TypeOK
  <2> QED
    BY <2>1, <2>2 DEF IInv, TypeOK, flb_upstream_conn_pending_destroy,
         Destroyable
<1>4. AvailableIsUsable'
  BY UpstreamConfig, <1>1 DEF IInv, TypeOK, AvailableIsUsable, Available,
       flb_upstream_conn_pending_destroy, Destroyable
<1>5. WaiterIsReached'
  BY DEF IInv, TypeOK, WaiterIsReached, Timer,
       flb_upstream_conn_pending_destroy, Destroyable
<1>6. NothingLost'
  BY UpstreamConfig, <1>1 DEF IInv, TypeOK, NothingLost, Allocated,
       flb_upstream_conn_pending_destroy, Destroyable
<1>7. HeldIsBusy'
  BY DEF IInv, TypeOK, HeldIsBusy, flb_upstream_conn_pending_destroy,
       Destroyable
<1>8. Closed'
  BY DEF IInv, TypeOK, Closed, flb_upstream_conn_pending_destroy,
       Destroyable
<1>9. Registered'
  BY DEF IInv, TypeOK, Registered, flb_upstream_conn_pending_destroy,
       Destroyable
<1>10. WaiterWaits'
  BY DEF IInv, TypeOK, WaiterWaits, flb_upstream_conn_pending_destroy,
       Destroyable
<1>11. Armed'
  BY DEF IInv, TypeOK, AvailableIsUsable, HeldIsBusy, Closed, Armed,
       Available, Timer, flb_upstream_conn_pending_destroy, Destroyable
<1>12. LookupGoesOn'
  BY DEF IInv, TypeOK, AvailableIsUsable, HeldIsBusy, Closed, LookupGoesOn,
       Available, flb_upstream_conn_pending_destroy, Destroyable
<1> QED
  BY <1>2, <1>3, <1>4, <1>5, <1>6, <1>7, <1>8, <1>9, <1>10, <1>11, <1>12 DEF IInv

-----------------------------------------------------------------------------
(* The actions that connect.                                               *)

LEMMA GetNewKeeps ==
  ASSUME IInv, NEW k \in Coros, GetNew(k)
  PROVE  IInv'
<1> PICK c \in Conns \ Allocated :
      \/ ConnectLooksUp(k, c, Available) /\ Connecting(c, TRUE)
      \/ ConnectYields(k, c, Available) /\ Connecting(c, TRUE)
      \/ ConnectEnds(k, c, Available)
      \/ ConnectFails(k, c, Available)
  BY DEF GetNew
<1>1. PICK S : S = Available
  OBVIOUS
<1>2. Begins(k, c, S) /\ at[k] = "idle" /\ UNCHANGED <<saved, error, down>>
  BY <1>1 DEF GetNew, Begins, Allocated
<1> QED
  BY <1>1, <1>2, LooksUpKeeps, YieldsKeeps, EndsKeeps, FailsKeeps

\* What LookedUp and ConnectResumes have in common.
GoesOn(k, c) ==
  /\ \/ ~error[c] /\ ConnectYields(k, c, {}) /\ UNCHANGED <<busy, armed>>
     \/ ~error[c] /\ ConnectEnds(k, c, {})
     \/ ConnectFails(k, c, {})
  /\ UNCHANGED <<saved, error, down>>

LEMMA GoesOnKeeps ==
  ASSUME IInv, NEW k \in Coros, NEW c \in Conns, at[k] \in {"dns", "connect"}, conn[k] = c,
         GoesOn(k, c)
  PROVE  IInv'
<1>1. Begins(k, c, {})
  BY DEF Begins
<1>2. busy = [busy EXCEPT ![c] = TRUE] /\ armed = [armed EXCEPT ![c] = Timer("connect")]
  BY UpstreamConfig DEF IInv, TypeOK, HeldIsBusy, WaiterIsReached, Armed
<1>3. UNCHANGED <<busy, armed>> => Connecting(c, TRUE)
  BY <1>2 DEF Connecting
<1> QED
  BY <1>1, <1>3, YieldsKeeps, EndsKeeps, FailsKeeps DEF GoesOn

LEMMA LookedUpKeeps ==
  ASSUME IInv, NEW k \in Coros, LookedUp(k)
  PROVE  IInv'
<1>1. PICK c \in Conns : c = conn[k]
  BY DEF IInv, TypeOK, LookedUp
<1>2. at[k] \in {"dns", "connect"} /\ GoesOn(k, c)
  BY <1>1 DEF LookedUp, GoesOn
<1> QED
  BY <1>1, <1>2, GoesOnKeeps

LEMMA ConnectResumesKeeps ==
  ASSUME IInv, NEW k \in Coros, ConnectResumes(k)
  PROVE  IInv'
<1>1. PICK c \in Conns : c = conn[k]
  BY DEF IInv, TypeOK, ConnectResumes
<1>2. at[k] \in {"dns", "connect"} /\ GoesOn(k, c)
  BY <1>1 DEF ConnectResumes, GoesOn
<1> QED
  BY <1>1, <1>2, GoesOnKeeps

-----------------------------------------------------------------------------
(* The invariant and the theorems.                                         *)

LEMMA InitHolds == Init => IInv
BY UpstreamConfig DEF Init, IInv, TypeOK, NoDangling, AvailableIsUsable, WaiterIsReached,
   NothingLost, HeldIsBusy, Closed, Registered, WaiterWaits, Armed, LookupGoesOn,
   Available, Allocated

LEMMA StutterKeeps == IInv /\ UNCHANGED vars => IInv'
BY DEF vars, socket, flags, IInv, TypeOK, NoDangling, AvailableIsUsable, WaiterIsReached,
   NothingLost, HeldIsBusy, Closed, Registered, WaiterWaits, Armed, LookupGoesOn,
   Available, Allocated

LEMMA NextKeeps == IInv /\ [Next]_vars => IInv'
<1> SUFFICES ASSUME IInv, Next PROVE IInv'
  BY StutterKeeps
<1>1. CASE \E k \in Coros :
             \/ GetAvailable(k) \/ GetRefused(k) \/ GetNew(k) \/ LookedUp(k)
             \/ ConnectResumes(k)
  BY <1>1, GetAvailableKeeps, GetRefusedKeeps, GetNewKeeps, LookedUpKeeps,
     ConnectResumesKeeps
<1>2. CASE \E k \in Coros :
             \/ IoBlocks(k) \/ IoFails(k) \/ IoBlocksAgain(k) \/ IoEnds(k)
             \/ ReleaseAvailable(k) \/ ReleaseDestroyed(k)
  BY <1>2, IoBlocksKeeps, IoFailsKeeps, IoBlocksAgainKeeps, IoEndsKeeps,
     ReleaseAvailableKeeps, ReleaseDestroyedKeeps
<1>3. CASE \E c \in Conns : Report(c) \/ Unserved(c) \/ cb_upstream_conn_ka_dropped(c)
  BY <1>3, ReportKeeps, UnservedKeeps, DroppedKeeps
<1>4. CASE \E late, old \in SUBSET Conns : flb_upstream_conn_timeouts(late, old)
  BY <1>4, TimeoutsKeep
<1>5. CASE flb_upstream_conn_pending_destroy
  BY <1>5, PendingDestroyKeeps
<1> QED
  BY <1>1, <1>2, <1>3, <1>4, <1>5 DEF Next

LEMMA InvariantHolds == Spec => []IInv
BY InitHolds, NextKeeps, PTL DEF Spec

\* Connections and coroutines keep their types, and no coroutine goes on with
\* a connection it gave back.
THEOREM UpstreamTypes == Spec => []TypeOK
<1>1. IInv => TypeOK
  BY DEF IInv
<1> QED
  BY <1>1, InvariantHolds, PTL

\* destroy_conn frees a connection only when neither a coroutine, nor the loop,
\* nor the kernel can still come back to it.
THEOREM UpstreamNoDangling == Spec => []NoDangling
<1>1. IInv => NoDangling
  BY DEF IInv
<1> QED
  BY <1>1, InvariantHolds, PTL

\* flb_upstream_conn_get hands out, from the available queue, only connections
\* that are open, without error and not in use.
THEOREM UpstreamAvailable == Spec => []AvailableIsUsable
<1>1. IInv => AvailableIsUsable
  BY DEF IInv
<1> QED
  BY <1>1, InvariantHolds, PTL

\* Whatever times out or is dropped, a suspended coroutine keeps a registered
\* event that resumes it and a place where its timeout is found.
THEOREM UpstreamWaiters == Spec => []WaiterIsReached
<1>1. IInv => WaiterIsReached
  BY DEF IInv
<1> QED
  BY <1>1, InvariantHolds, PTL

\* No connection stays in a queue that nobody empties, so none is counted
\* against net.max_worker_connections for ever.
THEOREM UpstreamNothingLost == Spec => []NothingLost
<1>1. IInv => NothingLost
  BY DEF IInv
<1> QED
  BY <1>1, InvariantHolds, PTL
=============================================================================

