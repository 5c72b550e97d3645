---------------------------- MODULE MCFlbEngine ----------------------------
(* Small instances of FlbEngine for TLC.                                   *)
EXTENDS FlbEngine, TLC

CONSTANTS c1, c2, c3, i1, i2, i3, oA, oB

MCInOne == [c \in Chunks |-> i1]
MCInRelease == c1 :> i2 @@ c2 :> i3 @@ c3 :> i1

MCFs == [i \in Inputs |-> "fs"]
MCRing == i1 :> {oA, oB} @@ i2 :> {oA, oB} @@ i3 :> {oB}
MCKinds == i1 :> "fs" @@ i2 :> "backlog" @@ i3 :> "memrb"

MCBoth == [i \in Inputs |-> {oA, oB}]
MCHandlesRelease == [i \in Inputs |-> IF i = i1 THEN {} ELSE {oA, oB}]

MCNoDirect == [i \in Inputs |-> {}]
MCDirectRing == [i \in Inputs |-> IF i = i3 THEN {oB} ELSE {}]

MCLimit01 == oA :> 1 @@ oB :> 0
MCLimitU == oA :> -1 @@ oB :> 1

MCIds1 == {0}
MCIds2 == {0, 1}
=============================================================================
