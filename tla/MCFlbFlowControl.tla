-------------------------- MODULE MCFlbFlowControl --------------------------
(* Instances of FlbFlowControl: a, b, c are inputs, e an emitter.          *)
EXTENDS FlbFlowControl

CONSTANTS a, b, c, e

\* A memory ring buffer and two inputs that share the mapped files.
MCKindFiles == (a :> "memrb") @@ (b :> "fs") @@ (c :> "fs")
MCLimitFiles == (a :> 1) @@ (b :> 0) @@ (c :> 2)

\* Memory and a memory ring buffer.
MCKindMemory == (a :> "mem") @@ (b :> "memrb")
MCLimitMemory == (a :> 3) @@ (b :> 3)

\* A sender in its own thread, a file input and the emitter.
MCKindLive == (a :> "mem") @@ (b :> "fs") @@ (e :> "mem")
MCLimitLive == (a :> 1) @@ (b :> 0) @@ (e :> 1)
=============================================================================
