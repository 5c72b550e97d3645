---------------------------- MODULE MCFlbStorage ----------------------------
(* Instances of FlbStorage for TLC.                                        *)
EXTENDS FlbStorage, TLC

CONSTANTS a, m, sb, o1, o2

\* Two outputs with a limit; a tag goes to both or to none.
MCPerms == Permutations(Chunks)
MCLimit == (o1 :> 3) @@ (o2 :> 2)
MCRoute == [t0 |-> {}, t1 |-> {o1, o2}]

\* One output, and every input writes to files, which the limit is meant for.
MCLimitOne == o1 :> 4
MCRouteOne == [t1 |-> {o1}]
=============================================================================
