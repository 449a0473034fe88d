----------------------------- MODULE MCScheduler -----------------------------
(* The scheduler on three requests over two tokens.                        *)
EXTENDS Scheduler

CONSTANTS r1, r2, r3

(* r2 is one full block, the prefix of the others.                         *)
ShortPrompts == (r1 :> <<0, 0, 0>>) @@ (r2 :> <<0, 0>>) @@ (r3 :> <<0, 0, 1, 0>>)

(* r1 and r3 are the same prompt, longer than max_model_len.               *)
LongPrompts == (r1 :> <<0, 0, 0, 0>>) @@ (r2 :> <<1>>) @@ (r3 :> <<0, 0, 0, 0>>)

(* r1 has no prefix in common with the others, which share theirs.         *)
StarvedPrompts == [r \in Requests |-> IF r = r1 THEN <<1>> ELSE <<0>>]

HashesOf(prompts) == UNION {ToSet(BlockHashes(prompts[r])) : r \in Requests}

LongHashes == HashesOf(LongPrompts)

StarvedHashes == HashesOf(StarvedPrompts)

ShortHashes == HashesOf(ShortPrompts)

NoSpec == [r \in Requests |-> 0]

Drafts == (r1 :> 0) @@ (r2 :> 2) @@ (r3 :> 3)

HighPriority == (r1 :> 0) @@ (r2 :> 1) @@ (r3 :> 0)

SamePriority == [r \in Requests |-> 0]
=============================================================================
