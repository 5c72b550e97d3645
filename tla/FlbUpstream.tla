---------------------------- MODULE FlbUpstream ----------------------------
(***************************************************************************)
(* The connections of an upstream.  A connection is used by one coroutine, *)
(* which gives it back when it is done; with keepalive it is then made     *)
(* available to others.  While a coroutine waits for its socket, the event *)
(* loop of the same thread handles the events of other sockets, ends       *)
(* connections that time out and frees those nobody needs any more.        *)
(*                                                                         *)
(* Every thread has queues of its own, so all of this runs in one thread:  *)
(* a step is what happens between two points where a coroutine yields or   *)
(* the loop takes the next event.  Times are left out: a timeout that is   *)
(* set can be over at any time.  Available connections are looked at in    *)
(* any order; the code starts with the one that was released first.        *)
(***************************************************************************)
EXTENDS Integers, FiniteSets

CONSTANTS
  Conns,      \* names for connections
  Coros,      \* coroutines that use them
  MaxConns,   \* net.max_worker_connections, 0 for no limit
  Keepalive,  \* net.keepalive
  Timeouts,   \* which of "connect" and "io" have a timeout
  None

ASSUME UpstreamConfig ==
  /\ None \notin Conns \cup Coros \cup {"av", "busy", "destroy"}
  /\ MaxConns \in Nat /\ Keepalive \in BOOLEAN
  /\ Timeouts \subseteq {"connect", "io"}

VARIABLES
  queue,    \* "av", "busy" or "destroy", None if the connection is not allocated
  open,     \* fd is that of a socket
  event,    \* "none", "ka" (tells the idle connection's end) or "thread"
            \* (resumes the coroutine)
  ready,    \* connections whose event waits in the queue of the loop
  waiter,   \* connection->coroutine
  saved,    \* event registration to restore after the input or output
  error,    \* net_error is set
  busy, down,  \* busy_flag, shutdown_flag
  armed,    \* which timeout is set: "none", "connect" or "io"
  at, conn  \* where a coroutine is, and its connection

socket == <<queue, open, event, ready>>
flags == <<saved, error, busy, down, armed>>
vars == <<socket, waiter, flags, at, conn>>

Available == {c \in Conns : queue[c] = "av"}
Allocated == {c \in Conns : queue[c] # None}

Init ==
  /\ queue = [c \in Conns |-> None]
  /\ open = [c \in Conns |-> FALSE]
  /\ event = [c \in Conns |-> "none"]
  /\ ready = {}
  /\ waiter = [c \in Conns |-> None]
  /\ saved = [c \in Conns |-> "none"]
  /\ error = [c \in Conns |-> FALSE]
  /\ busy = [c \in Conns |-> FALSE]
  /\ down = [c \in Conns |-> FALSE]
  /\ armed = [c \in Conns |-> "none"]
  /\ at = [k \in Coros |-> "idle"]
  /\ conn = [k \in Coros |-> None]

-----------------------------------------------------------------------------
(* Parts of the handlers.                                                  *)

\* c gets a place, a socket and an event registration, while the connections
\* in S are closed and put into the destroy queue.  Changing a registration
\* takes the event out of the queue of the loop.
Place(S, c, q, o, e) ==
  /\ queue' = [x \in Conns |-> IF x \in S THEN "destroy" ELSE IF x = c THEN q ELSE queue[x]]
  /\ open' = [x \in Conns |-> x \notin S /\ IF x = c THEN o ELSE open[x]]
  /\ event' = [x \in Conns |-> IF x \in S THEN "none" ELSE IF x = c THEN e ELSE event[x]]
  /\ ready' = ready \ (S \cup {c})

prepare_destroy_conn(S) == Place(S, None, None, FALSE, "none")

Timer(t) == IF t \in Timeouts THEN t ELSE "none"

\* The coroutine goes to s and has, or gives up, the connection.
Moves(k, s, c) == at' = [at EXCEPT ![k] = s] /\ conn' = [conn EXCEPT ![k] = c]

-----------------------------------------------------------------------------
(* flb_upstream_conn_get: connect.                                         *)

\* The lookup of the name does not use the socket.
ConnectLooksUp(k, c, S) ==
  /\ Place(S, c, "busy", FALSE, "none")
  /\ Moves(k, "dns", c)
  /\ UNCHANGED waiter

\* An address is tried, or the TLS session set up.
ConnectYields(k, c, S) ==
  /\ Place(S, c, "busy", TRUE, "thread")
  /\ waiter' = [waiter EXCEPT ![c] = k]
  /\ Moves(k, "connect", c)

Connecting(c, b) ==
  /\ busy' = [busy EXCEPT ![c] = b]
  /\ armed' = [armed EXCEPT ![c] = Timer("connect")]

ConnectEnds(k, c, S) ==
  /\ Place(S, c, "busy", TRUE, "none")
  /\ waiter' = [waiter EXCEPT ![c] = None]
  /\ busy' = [busy EXCEPT ![c] = TRUE]
  /\ armed' = [armed EXCEPT ![c] = Timer("io")]
  /\ Moves(k, "hold", c)

MutConnectFails(k, c, S) ==
  /\ Place(S \cup {c}, c, "destroy", FALSE, "none")
  /\ waiter' = [waiter EXCEPT ![c] = None]
  /\ busy' = [busy EXCEPT ![c] = TRUE]
  /\ armed' = [armed EXCEPT ![c] = "none"]
  /\ Moves(k, "idle", None)
ConnectFails(k, c, S) ==
  /\ Place(S \cup {c}, c, "destroy", FALSE, "none")
  /\ waiter' = [waiter EXCEPT ![c] = None]
  /\ busy' = [busy EXCEPT ![c] = FALSE]
  /\ armed' = [armed EXCEPT ![c] = "none"]
  /\ Moves(k, "idle", None)

\* Available connections whose socket has an error are dropped on the way.
GetAvailable(k) ==
  /\ at[k] = "idle" /\ Keepalive
  /\ \E c \in Available, bad \in SUBSET Available :
       /\ c \notin bad
       /\ queue' = [x \in Conns |-> IF x \in bad THEN "destroy" ELSE IF x = c THEN "busy"
                                    ELSE queue[x]]
       /\ open' = [x \in Conns |-> open[x] /\ x \notin bad]
       /\ event' = [x \in Conns |-> IF x \in bad THEN "none" ELSE event[x]]
       /\ ready' = ready \ bad
       /\ error' = [error EXCEPT ![c] = FALSE]
       /\ busy' = [busy EXCEPT ![c] = TRUE]
       /\ armed' = [armed EXCEPT ![c] = Timer("io")]
       /\ Moves(k, "hold", c)
  /\ UNCHANGED <<waiter, saved, down>>

Full == MaxConns > 0 /\ Cardinality(Allocated) >= MaxConns

GetRefused(k) ==
  /\ at[k] = "idle" /\ Full
  /\ prepare_destroy_conn(Available)
  /\ UNCHANGED <<waiter, flags, at, conn>>

GetNew(k) ==
  /\ at[k] = "idle" /\ ~Full
  /\ \E c \in Conns \ Allocated :
       \/ ConnectLooksUp(k, c, Available) /\ Connecting(c, TRUE)
       \/ ConnectYields(k, c, Available) /\ Connecting(c, TRUE)
       \/ ConnectEnds(k, c, Available)
       \/ ConnectFails(k, c, Available)
  /\ UNCHANGED <<saved, error, down>>

\* After a timeout the connection is given up, whatever the lookup found.
LookedUp(k) ==
  /\ at[k] = "dns"
  /\ LET c == conn[k] IN
     \/ ~error[c] /\ ConnectYields(k, c, {}) /\ UNCHANGED <<busy, armed>>
     \/ ~error[c] /\ ConnectEnds(k, c, {})
     \/ ConnectFails(k, c, {})
  /\ UNCHANGED <<saved, error, down>>

\* The loop takes the event of the connection the coroutine waits for.
Resumed(k) ==
  /\ conn[k] \in ready
  /\ event[conn[k]] = "thread" /\ waiter[conn[k]] = k

ConnectResumes(k) ==
  /\ at[k] = "connect" /\ Resumed(k)
  /\ LET c == conn[k] IN
     \/ ~error[c] /\ ConnectYields(k, c, {}) /\ UNCHANGED <<busy, armed>>
     \/ ~error[c] /\ ConnectEnds(k, c, {})
     \/ ConnectFails(k, c, {})
  /\ UNCHANGED <<saved, error, down>>

-----------------------------------------------------------------------------
(* Input and output.  What succeeds at once changes nothing here.          *)

\* A socket that was shut down does not block.
Blocks(k, c) ==
  /\ open[c] /\ ~down[c]
  /\ Place({}, c, queue[c], TRUE, "thread")
  /\ waiter' = [waiter EXCEPT ![c] = k]
  /\ Moves(k, "io", c)

\* Some errors are kept in net_error; that of a closed socket is one of them.
Fails(c) ==
  \/ error' = [error EXCEPT ![c] = TRUE]
  \/ open[c] /\ UNCHANGED error

IoBlocks(k) ==
  /\ at[k] = "hold" /\ Blocks(k, conn[k])
  /\ saved' = [saved EXCEPT ![conn[k]] = event[conn[k]]]
  /\ UNCHANGED <<error, busy, down, armed>>

IoFails(k) ==
  /\ at[k] = "hold" /\ Fails(conn[k])
  /\ UNCHANGED <<socket, waiter, saved, busy, down, armed, at, conn>>

IoBlocksAgain(k) ==
  /\ at[k] = "io" /\ Resumed(k) /\ Blocks(k, conn[k])
  /\ UNCHANGED flags

\* The registration there was before is restored; a write of which the
\* first part did not block leaves its own.
IoEnds(k) ==
  /\ at[k] = "io" /\ Resumed(k)
  /\ LET c == conn[k] IN
     /\ \/ Place({}, c, queue[c], open[c], saved[c]) /\ Fails(c)
        \/ \E e \in {saved[c], "thread"} :
             Place({}, c, queue[c], open[c], e) /\ UNCHANGED error
     /\ waiter' = [waiter EXCEPT ![c] = None]
     /\ Moves(k, "hold", c)
  /\ UNCHANGED <<saved, busy, down, armed>>

-----------------------------------------------------------------------------
(* flb_upstream_conn_release.                                              *)

Released(k) ==
  /\ busy' = [busy EXCEPT ![conn[k]] = FALSE]
  /\ Moves(k, "idle", None)
  /\ UNCHANGED <<waiter, saved, error, down, armed>>

MutRecyclable(c) == Keepalive
Recyclable(c) == Keepalive /\ open[c] /\ ~error[c]

ReleaseAvailable(k) ==
  /\ at[k] = "hold" /\ Recyclable(conn[k])
  /\ Place({}, conn[k], "av", open[conn[k]], "ka")
  /\ Released(k)

\* The plugin wants no recycling, the connection cannot be recycled, was used
\* often enough, or cannot be registered.
ReleaseDestroyed(k) ==
  /\ at[k] = "hold"
  /\ prepare_destroy_conn({conn[k]})
  /\ Released(k)

-----------------------------------------------------------------------------
(* The event loop.                                                         *)

\* The socket has something to tell.
Report(c) ==
  /\ event[c] # "none" /\ c \notin ready
  /\ ready' = ready \cup {c}
  /\ UNCHANGED <<queue, open, event, waiter, flags, at, conn>>

\* The event is taken at the end of a round, or has nobody to resume.
Unserved(c) ==
  /\ c \in ready
  /\ ready' = ready \ {c}
  /\ UNCHANGED <<queue, open, event, waiter, flags, at, conn>>

cb_upstream_conn_ka_dropped(c) ==
  /\ c \in ready /\ event[c] = "ka"
  /\ prepare_destroy_conn({c})
  /\ UNCHANGED <<waiter, flags, at, conn>>

\* Connections of which the event is registered are shut down and their event
\* is put into the queue of the loop; the others are closed.
MutTimedOut(late, old) == prepare_destroy_conn(late \cup old) /\ UNCHANGED down
TimedOut(late, old) ==
  LET told == {c \in late : event[c] # "none"}
      gone == (late \ told) \cup old
  IN /\ queue' = [x \in Conns |-> IF x \in gone THEN "destroy" ELSE queue[x]]
     /\ open' = [x \in Conns |-> open[x] /\ x \notin gone]
     /\ event' = [x \in Conns |-> IF x \in gone THEN "none" ELSE event[x]]
     /\ ready' = (ready \ gone) \cup told
     /\ down' = [x \in Conns |-> down[x] \/ x \in told]

MutTimed(c) == queue[c] = "busy" /\ armed[c] = "connect"
Timed(c) == queue[c] = "busy" /\ armed[c] \in Timeouts

flb_upstream_conn_timeouts(late, old) ==
  /\ late \subseteq {c \in Conns : Timed(c)} /\ old \subseteq Available
  /\ late \cup old # {}
  /\ TimedOut(late, old)
  /\ error' = [x \in Conns |-> error[x] \/ x \in late]
  /\ UNCHANGED <<waiter, saved, busy, armed, at, conn>>

\* What the kernel and the loop know of a connection outlives it.
MutDestroyable(c) == queue[c] = "destroy" /\ c \notin ready
Destroyable(c) == queue[c] = "destroy" /\ ~busy[c] /\ c \notin ready

flb_upstream_conn_pending_destroy ==
  LET S == {c \in Conns : Destroyable(c)} IN
  /\ S # {}
  /\ queue' = [x \in Conns |-> IF x \in S THEN None ELSE queue[x]]
  /\ saved' = [x \in Conns |-> IF x \in S THEN "none" ELSE saved[x]]
  /\ error' = [x \in Conns |-> error[x] /\ x \notin S]
  /\ down' = [x \in Conns |-> down[x] /\ x \notin S]
  /\ armed' = [x \in Conns |-> IF x \in S THEN "none" ELSE armed[x]]
  /\ UNCHANGED <<open, event, ready, waiter, busy, at, conn>>

-----------------------------------------------------------------------------
Next ==
  \/ \E k \in Coros :
       \/ GetAvailable(k) \/ GetRefused(k) \/ GetNew(k) \/ LookedUp(k) \/ ConnectResumes(k)
       \/ IoBlocks(k) \/ IoFails(k) \/ IoBlocksAgain(k) \/ IoEnds(k)
       \/ ReleaseAvailable(k) \/ ReleaseDestroyed(k)
  \/ \E c \in Conns : Report(c) \/ Unserved(c) \/ cb_upstream_conn_ka_dropped(c)
  \/ \E late, old \in SUBSET Conns : flb_upstream_conn_timeouts(late, old)
  \/ flb_upstream_conn_pending_destroy

Spec == Init /\ [][Next]_vars

\* A lookup has a timeout of its own, a socket that was shut down is reported,
\* the timer for the timeouts is periodic and time passes, the loop does not
\* leave the same event for the last of a round for ever, and a plugin gives
\* a connection back once its socket is closed.
Fairness ==
  /\ \A k \in Coros : /\ WF_vars(LookedUp(k))
                      /\ SF_vars(ConnectResumes(k) \/ IoBlocksAgain(k) \/ IoEnds(k))
                      /\ WF_vars(at[k] = "hold" /\ ~open[conn[k]] /\ ReleaseDestroyed(k))
  /\ \A c \in Conns :
       /\ WF_vars(down[c] /\ Report(c))
       /\ WF_vars(\E late, old \in SUBSET Conns :
                    c \in late /\ flb_upstream_conn_timeouts(late, old))
  /\ WF_vars(flb_upstream_conn_pending_destroy)
FairSpec == Spec /\ Fairness

-----------------------------------------------------------------------------
(* Properties.                                                             *)

(* The fields of connections and coroutines have the types their comments   *)
(* state, and a coroutine has a connection exactly while it uses one: none  *)
(* goes on with what it released.                                          *)
TypeOK ==
  /\ queue \in [Conns -> {None, "av", "busy", "destroy"}]
  /\ open \in [Conns -> BOOLEAN]
  /\ event \in [Conns -> {"none", "ka", "thread"}]
  /\ ready \subseteq Conns
  /\ waiter \in [Conns -> Coros \cup {None}]
  /\ saved \in [Conns -> {"none", "ka", "thread"}]
  /\ error \in [Conns -> BOOLEAN]
  /\ busy \in [Conns -> BOOLEAN]
  /\ down \in [Conns -> BOOLEAN]
  /\ armed \in [Conns -> {"none", "connect", "io"}]
  /\ at \in [Coros -> {"idle", "dns", "connect", "hold", "io"}]
  /\ conn \in [Coros -> Conns \cup {None}]
  /\ \A k \in Coros : at[k] = "idle" <=> conn[k] = None

(* A connection is freed only when no coroutine has it or waits for it, its *)
(* socket is closed and no event of it is registered or queued: whatever    *)
(* timeouts, disconnections and releases came in between, nothing reaches   *)
(* freed memory, and no socket is lost with it.                            *)
NoDangling ==
  \A c \in Conns \ Allocated :
    /\ ~open[c] /\ event[c] = "none" /\ c \notin ready /\ waiter[c] = None
    /\ \A k \in Coros : conn[k] # c

(* A connection that is available can be handed out: its socket is open and *)
(* without an error, its end is watched for, and no coroutine still has it; *)
(* no two coroutines have the same connection.                             *)
AvailableIsUsable ==
  /\ \A c \in Available : /\ open[c] /\ ~error[c] /\ event[c] = "ka" /\ ~busy[c]
                          /\ \A k \in Coros : conn[k] # c
  /\ \A j, k \in Coros : j # k /\ conn[j] # None => conn[j] # conn[k]

(* A coroutine that waits for a socket can be reached: the socket is open,  *)
(* its event is registered and resumes that coroutine, and the connection   *)
(* is where the timeouts are looked for.                                   *)
WaiterIsReached ==
  \A k \in Coros : at[k] \in {"connect", "io"} =>
    /\ queue[conn[k]] = "busy" /\ open[conn[k]]
    /\ event[conn[k]] = "thread" /\ waiter[conn[k]] = k
    /\ armed[conn[k]] = Timer(at[k])

(* Every connection counts for max_worker_connections until it is freed; a  *)
(* busy one, or one whose destruction is put off because it is busy, has a  *)
(* coroutine that will give it back.                                       *)
NothingLost ==
  \A c \in Conns :
    queue[c] = "busy" \/ (queue[c] = "destroy" /\ busy[c]) => \E k \in Coros : conn[k] = c

(* With both timeouts set, no coroutine waits for ever for a name, a         *)
(* connection or data, however the other side behaves.                     *)
Waiting(k) == at[k] \in {"dns", "connect", "io"}
WaitEnds == \A k \in Coros : Waiting(k) ~> ~Waiting(k)

(* A connection in the destroy queue is freed in the end.                   *)
Reclaimed == \A c \in Conns : queue[c] = "destroy" ~> queue[c] = None
=============================================================================
