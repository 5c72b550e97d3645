--------------------------- MODULE MCFlbScheduler ---------------------------
(* The scheduler for TLC.  Retries and requests are interchangeable; the   *)
(* symmetry is used for safety only.                                       *)
EXTENDS FlbScheduler, TLC

Symmetry == Permutations(Retries) \cup Permutations(Requests)
=============================================================================
