---------------------------- MODULE MCEngineCore ----------------------------
(* The engine core on two requests; r2 decodes with a draft.               *)
EXTENDS EngineCore

CONSTANTS r1, r2

Prompts == (r1 :> <<0, 0, 0>>) @@ (r2 :> <<1>>)

PromptHashes == UNION {ToSet(BlockHashes(Prompts[r])) : r \in Requests}

Speculation == (r1 :> 0) @@ (r2 :> 2)

TokenLimits == (r1 :> 4) @@ (r2 :> 4)

Equal == [r \in Requests |-> 0]
=============================================================================
