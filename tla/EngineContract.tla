--------------------------- MODULE EngineContract ---------------------------
(***************************************************************************)
(* What EngineCore (crates/rllm-engine/src/engine_core.rs) promises its    *)
(* owner: which requests it tracks, which of them it still works on, and   *)
(* which outputs a step may return.  Module EngineCore is shown to         *)
(* implement it; module Serving builds the engine loop and the request     *)
(* handlers on it.                                                         *)
(***************************************************************************)
EXTENDS Naturals, FiniteSets, Functions, FiniteSetsExt

CONSTANTS Requests,     \* the requests that may be added
          MaxTokens,    \* sampling_params.max_tokens of each
          MaxReturn     \* most tokens one answer can hold

VARIABLE core           \* [generated: tokens so far of every tracked request,
                        \*  active: those the scheduler still has]

EmptyCore == [generated |-> [r \in {} |-> 0], active |-> {}]

Tracked(c) == DOMAIN c.generated

AddTo(c, r) ==
    [generated |-> [q \in Tracked(c) \cup {r} |-> IF q = r THEN 0 ELSE c.generated[q]],
     active    |-> c.active \cup {r}]

Without(c, rs) ==
    [generated |-> Restrict(c.generated, Tracked(c) \ rs), active |-> c.active \ rs]

(* The limit takes effect after a token was generated, so it is never 0.   *)
Limit(r) == Max({1, MaxTokens[r]})

(* One RequestOutput: `returned` tokens, of which `counted` were looked at *)
(* before the request finished.                                            *)
Output == [returned : 0..MaxReturn, counted : 0..MaxReturn,
           finish : {"none", "stop", "length", "error"}]

Legal(c, r, o) ==
    LET total == c.generated[r] + o.counted
    IN  IF o.finish = "error" THEN o.returned = 0 /\ o.counted = 0
        ELSE /\ 1 <= o.counted /\ o.counted <= o.returned
             /\ o.finish = "none"   => total < Limit(r) /\ o.counted = o.returned
             /\ o.finish = "length" => total = Limit(r)
             /\ o.finish = "stop"   => total <= Limit(r)

(* The outputs of one step, for the requests rs: an executor failure is    *)
(* reported to all of them or to none.                                     *)
Outputs(c, rs) ==
    {outs \in [rs -> Output] :
        /\ \A r \in rs : Legal(c, r, outs[r])
        /\ \A r, q \in rs : outs[r].finish = "error" => outs[q].finish = "error"}

Finished(outs) == {r \in DOMAIN outs : outs[r].finish # "none"}

Answered(c, outs) ==
    LET live == Tracked(c) \ Finished(outs)
    IN  [generated |-> [r \in live |-> c.generated[r] +
                            (IF r \in DOMAIN outs THEN outs[r].counted ELSE 0)],
         active    |-> c.active \ Finished(outs)]

(* Requests that ran into max_model_len leave the scheduler unannounced.   *)
Retired(c, rs) == [c EXCEPT !.active = @ \ rs]

Init == core = EmptyCore

Add(r) == r \notin Tracked(core) /\ core' = AddTo(core, r)

Abort(r) == r \in Tracked(core) /\ core' = Without(core, {r})

Retire == \E rs \in SUBSET core.active : core' = Retired(core, rs)

Answer ==
    \E rs \in SUBSET core.active : \E outs \in Outputs(core, rs) :
        core' = Answered(core, outs)

Next == (\E r \in Requests : Add(r) \/ Abort(r)) \/ Retire \/ Answer

Spec == Init /\ [][Next]_core

=============================================================================
