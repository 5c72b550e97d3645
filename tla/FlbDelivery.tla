----------------------------- MODULE FlbDelivery -----------------------------
(***************************************************************************)
(* What the delivery core promises for every chunk it accepts: each route  *)
(* of the chunk is settled once, as processed or as dropped, and the chunk *)
(* is discarded only when no route is left to settle.                      *)
(***************************************************************************)
CONSTANTS Chunks, Outputs

VARIABLES
  live,     \* live[c]: the chunk is stored
  ledger    \* ledger[c][o]: "none" (no route) | "due" | "proc" | "drop"

vars == <<live, ledger>>

Settled == {"proc", "drop"}
Due(c) == {o \in Outputs : ledger[c][o] = "due"}

Init ==
  /\ live = [c \in Chunks |-> FALSE]
  /\ ledger = [c \in Chunks |-> [o \in Outputs |-> "none"]]

Accept(c) ==
  /\ ~live[c]
  /\ live' = [live EXCEPT ![c] = TRUE]
  /\ \E R \in SUBSET Outputs :
       ledger' = [ledger EXCEPT ![c] = [o \in Outputs |-> IF o \in R THEN "due" ELSE "none"]]

\* The last settlement may discard the chunk in the same step.
Settle(c, o) ==
  /\ live[c]
  /\ ledger[c][o] = "due"
  /\ \E how \in Settled : ledger' = [ledger EXCEPT ![c][o] = how]
  /\ \/ UNCHANGED live
     \/ Due(c) = {o} /\ live' = [live EXCEPT ![c] = FALSE]

Discard(c) ==
  /\ live[c]
  /\ Due(c) = {}
  /\ live' = [live EXCEPT ![c] = FALSE]
  /\ UNCHANGED ledger

Next ==
  \E c \in Chunks :
    \/ Accept(c)
    \/ Discard(c)
    \/ \E o \in Outputs : Settle(c, o)

Spec == Init /\ [][Next]_vars
=============================================================================
