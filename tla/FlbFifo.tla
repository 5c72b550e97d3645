------------------------------- MODULE FlbFifo -------------------------------
(***************************************************************************)
(* What a threaded input expects of its ring buffer: a bounded queue.      *)
(* Records are numbered in the order in which the input's thread puts them *)
(* in, so a queue that loses, repeats, reorders or tears none of them is   *)
(* described by two counters and by the record that was taken last.        *)
(***************************************************************************)
EXTENDS Naturals

CONSTANTS Cap, Nothing

VARIABLES put, taken, out
vars == <<put, taken, out>>

Init == put = 0 /\ taken = 0 /\ out = Nothing

\* The producer adds the next record, if there is room.
Put ==
  /\ put - taken < Cap
  /\ put' = put + 1
  /\ UNCHANGED <<taken, out>>

\* The consumer takes the oldest record.
Get ==
  /\ taken < put
  /\ taken' = taken + 1
  /\ out' = taken
  /\ UNCHANGED put

Next == Put \/ Get
Spec == Init /\ [][Next]_vars
=============================================================================
