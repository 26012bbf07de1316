-------------------------- MODULE MCIdempotencyCache --------------------------
(* A small instance of IdempotencyCache for TLC. *)
EXTENDS IdempotencyCache, TLC

CONSTANTS r1, r2, r3, r4

\* Two spellings of one key, used by a request, by its repetition in either
\* spelling, and by a request with other parameters.
MCKey   == r1 :> "lower" @@ r2 :> "lower" @@ r3 :> "upper" @@ r4 :> "upper"
MCFold  == "lower" :> "folded" @@ "upper" :> "folded"
MCPrint == r1 :> "same" @@ r2 :> "same" @@ r3 :> "same" @@ r4 :> "other"
MCKeyOf   == [r \in Request |-> MCKey[r]]
MCPrintOf == [r \in Request |-> MCPrint[r]]
=============================================================================
