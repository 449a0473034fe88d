----------------------------- MODULE EngineCore -----------------------------
(***************************************************************************)
(* The engine core (crates/rllm-engine/src/engine_core.rs): the scheduler, *)
(* an executor, and the record of every request, driven by one owner.      *)
(* One engine step is a whole step of the scheduler (the small actions of  *)
(* module Scheduler) followed, at phase "done", by one action here that    *)
(* runs the executor on the SchedulerOutput and processes what it returns. *)
(*                                                                         *)
(* Two executors implement the Executor trait.  UniProcExecutor asks the   *)
(* model runner (crates/rllm-worker) to build a batch, samples or verifies *)
(* one answer per sequence and advances the runner's own copy of the       *)
(* request; MultiProcExecutor only keeps generated tokens.  `runner` is    *)
(* the per-request state of whichever is in use.                           *)
(*                                                                         *)
(* Tokens are told apart only by whether they stop the request.  What the  *)
(* model computes is a choice of such tokens; the contents, the metrics    *)
(* and the text are left out.  An add_request that the executor or the     *)
(* parameter validation refuses changes nothing here.                      *)
(***************************************************************************)
EXTENDS Scheduler

CONSTANTS MaxTokens,    \* sampling_params.max_tokens of each request
          Executors     \* the executors a run considers

ASSUME EngineAssumption ==
    /\ IsFiniteSet(Requests)
    /\ MaxTokens \in [Requests -> Nat]
    /\ Executors \subseteq {"uniproc", "multiproc"}

VARIABLES engine,       \* EngineCore.requests: the number of generated tokens
          runner,       \* request_states: [computed, generated]
          executor,     \* the executor the engine was built with
          restarted     \* history: requests preempted since they were added

engineVars == <<engine, runner, executor, restarted>>

allVars == <<vars, engineVars>>

NewRunnerState == [computed |-> 0, generated |-> 0]

EngineInit ==
    /\ Init
    /\ engine = NoKeys
    /\ runner = NoKeys
    /\ executor \in Executors
    /\ restarted = {}

-----------------------------------------------------------------------------
(* Calls of the owner.                                                     *)

EngineAdd(r) ==
    /\ AddRequest(r)
    /\ runner' = Put(runner, r, NewRunnerState)
    /\ engine' = Put(engine, r, 0)
    /\ UNCHANGED <<executor, restarted>>

(* abort_request of the executors: the default of the trait does nothing.  *)
ExecutorForget(rn, rs) ==
    IF executor = "multiproc" THEN rn ELSE Restrict(rn, DOMAIN rn \ rs)

EngineAbort(r) ==
    /\ AbortRequest(r)
    /\ runner' = ExecutorForget(runner, {r})
    /\ engine' = Drop(engine, r)
    /\ restarted' = restarted \ {r}
    /\ UNCHANGED executor

EngineResetPrefixCache == ResetPrefixCacheCall /\ UNCHANGED engineVars

-----------------------------------------------------------------------------
(* The scheduler's part of a step.  The owner steps while there is work.   *)

(* A faulty test that looks only at what runs.                             *)
HasRunningWork == running # <<>>

HasWork == waiting # <<>> \/ running # <<>>

SchedulerPart ==
    /\ StepAction
    /\ phase = "idle" => HasWork
    /\ restarted' = restarted \cup ToSet(out'.preempted)
    /\ UNCHANGED <<engine, runner, executor>>

-----------------------------------------------------------------------------
(* build_tensors (model_runner.rs).                                        *)

Scheduled == out.new \o out.cached \o out.running

NumScheduled == Len(Scheduled)

Cleaned(rn) ==
    Restrict(rn, DOMAIN rn \ (ToSet(out.finished) \cup ToSet(out.preempted)))

IsPrefill(r) == r \in ToSet(out.new)

(* Sequences of the batch: a request without state, without tokens, or     *)
(* whose prompt the runner has computed already is passed over.            *)
Sequences(rn) ==
    {r \in ToSet(out.new) \cup ToSet(out.running) :
        /\ r \in DOMAIN rn
        /\ out.tokens[r] > 0
        /\ IsPrefill(r) => rn[r].computed < Len(Prompt[r])}

(* The number of tokens a sequence puts in the batch; `drafts` is the      *)
(* number of draft tokens proposed for each.                               *)
TokensPerSeq(rn, r, drafts) ==
    IF IsPrefill(r)
    THEN Min({rn[r].computed + out.tokens[r], Len(Prompt[r])}) - rn[r].computed
    ELSE 1 + drafts[r]

Positions(rn, r, drafts) ==
    rn[r].computed .. (rn[r].computed + TokensPerSeq(rn, r, drafts) - 1)

(* Faulty slots: block and offset of the position after.                   *)
SlotOfNext(table, pos) ==
    IF (pos + 1) \div BlockSize < Len(table)
    THEN table[(pos + 1) \div BlockSize + 1] * BlockSize + (pos % BlockSize)
    ELSE -1

(* compute_slot_mappings for one position.                                 *)
Slot(table, pos) ==
    IF pos \div BlockSize < Len(table)
    THEN table[pos \div BlockSize + 1] * BlockSize + (pos % BlockSize)
    ELSE -1

-----------------------------------------------------------------------------
(* Sampling and verification (uniproc.rs).  k drafts give j accepted ones  *)
(* and the token sampled at the first rejection.  A token sampled at the   *)
(* last draft's position also makes k tokens, so the bonus token is        *)
(* sampled then too: k tokens alone are never returned.                    *)
Verified(k) == IF k = 0 THEN {1} ELSE (1..(k - 1)) \cup {k + 1}

Draftable(r) == r \in ToSet(out.running) /\ executor = "uniproc"

DraftCounts == [Requests -> 0..Max({SpecTokens[r] : r \in Requests})]

(* What a sequence returns, abstracted to what the engine does with it:    *)
(* the number of tokens, and the position of the first one that stops the  *)
(* request, or 0.                                                          *)
Answer(k) == [count : Verified(k), stop : 0..(k + 1)]

Answers(seqs, drafts) ==
    {a \in [seqs -> UNION {Answer(drafts[r]) : r \in seqs}] :
        \A r \in seqs : a[r] \in Answer(drafts[r]) /\ a[r].stop <= a[r].count}

(* A faulty executor that forgets to count the prompt it has computed.     *)
AdvancedWithoutPrefill(rn, seqs, drafts, answers) ==
    [r \in DOMAIN rn |->
        IF r \notin seqs THEN rn[r]
        ELSE [computed  |-> rn[r].computed +
                  (IF IsPrefill(r) THEN 0 ELSE TokensPerSeq(rn, r, drafts)),
              generated |-> rn[r].generated + answers[r].count]]

(* Stored tokens, and tokens counted as computed: all those of the batch,  *)
(* rejected drafts included.                                               *)
Advanced(rn, seqs, drafts, answers) ==
    [r \in DOMAIN rn |->
        IF r \notin seqs THEN rn[r]
        ELSE [computed  |-> rn[r].computed + TokensPerSeq(rn, r, drafts),
              generated |-> rn[r].generated + answers[r].count]]

(* MultiProcExecutor: one token for every scheduled request it knows.      *)
MultiProcSequences(rn) == ToSet(Scheduled) \cap DOMAIN rn

StoredOnly(rn, seqs) ==
    [r \in DOMAIN rn |->
        IF r \in seqs THEN [rn[r] EXCEPT !.generated = @ + 1] ELSE rn[r]]

-----------------------------------------------------------------------------
(* Processing of the outputs.                                              *)

(* The tokens the engine counts: up to the first that stops the request or *)
(* reaches max_tokens, and at least one.                                   *)
Consumed(r, a) ==
    LET untilStop == IF a.stop > 0 THEN a.stop ELSE a.count
    IN  Max({1, Min({untilStop, Monus(MaxTokens[r], engine[r])})})

(* A faulty test that lets max_tokens be passed by one.                    *)
FinishesLate(r, a) ==
    \/ a.stop > 0 /\ Consumed(r, a) = a.stop
    \/ engine[r] + Consumed(r, a) > MaxTokens[r]

Finishes(r, a) ==
    \/ a.stop > 0 /\ Consumed(r, a) = a.stop
    \/ engine[r] + Consumed(r, a) >= MaxTokens[r]

(* scheduler.abort_request for each of ids, in that order.                 *)
WithoutAll(s, ids) ==
    LET run[i \in 0..Len(ids)] == IF i = 0 THEN s ELSE Without(run[i - 1], ids[i])
    IN  run[Len(ids)]

FreeRequests(state, ids) ==
    LET run[i \in 0..Len(ids)] == IF i = 0 THEN state ELSE FreeRequest(run[i - 1], ids[i])
    IN  run[Len(ids)]

ForgetAll(ids) ==
    /\ waiting' = WithoutAll(waiting, ids)
    /\ running' = WithoutAll(running, ids)
    /\ finished' = finished \ ToSet(ids)
    /\ requests' = Restrict(requests, DOMAIN requests \ ToSet(ids))
    /\ kv' = FreeRequests(kv, ids)
    /\ arrived' = WithoutAll(arrived, ids)

EndStep ==
    /\ phase = "done"
    /\ phase' = "idle"
    /\ out' = EmptyOutput
    /\ UNCHANGED <<paused, todo, toPreempt, best>>

(* Nothing scheduled: the executor is not called, so it does not learn of  *)
(* the requests the step finished or preempted.                            *)
StepEmpty ==
    /\ EndStep
    /\ NumScheduled = 0
    /\ UNCHANGED <<kv, requests, waiting, running, finished, arrived, engineVars>>

(* The finished outputs, in the order of the batch.                        *)
FinishedIds(seqs, answers) ==
    LET run[i \in 0..NumScheduled] ==
            IF i = 0 THEN <<>>
            ELSE IF /\ Scheduled[i] \in seqs \cap DOMAIN engine
                    /\ Finishes(Scheduled[i], answers[Scheduled[i]])
            THEN Append(run[i - 1], Scheduled[i])
            ELSE run[i - 1]
    IN  run[NumScheduled]

(* A faulty clean-up that leaves the executor its finished requests.       *)
ProcessOutputsLeaking(rn, seqs, answers) ==
    LET done == FinishedIds(seqs, answers)
    IN  /\ engine' = [r \in DOMAIN engine \ ToSet(done) |->
                        IF r \in seqs THEN engine[r] + Consumed(r, answers[r])
                        ELSE engine[r]]
        /\ ForgetAll(done)
        /\ runner' = rn
        /\ restarted' = restarted \ ToSet(done)
        /\ UNCHANGED executor

(* The requests of seqs returned answers; rn is the executor's new state.  *)
ProcessOutputs(rn, seqs, answers) ==
    LET done == FinishedIds(seqs, answers)
    IN  /\ engine' = [r \in DOMAIN engine \ ToSet(done) |->
                        IF r \in seqs THEN engine[r] + Consumed(r, answers[r])
                        ELSE engine[r]]
        /\ ForgetAll(done)
        /\ runner' = ExecutorForget(rn, ToSet(done))
        /\ restarted' = restarted \ ToSet(done)
        /\ UNCHANGED executor

StepUniProc ==
    LET rn   == Cleaned(runner)
        seqs == Sequences(rn)
    IN  /\ EndStep
        /\ NumScheduled > 0
        /\ executor = "uniproc"
        /\ \E drafts \in DraftCounts :
             /\ \A r \in Requests :
                  drafts[r] <= IF r \in seqs /\ Draftable(r) THEN SpecTokens[r] ELSE 0
             /\ \E answers \in Answers(seqs, drafts) :
                  ProcessOutputs(Advanced(rn, seqs, drafts, answers), seqs, answers)

StepMultiProc ==
    LET seqs == MultiProcSequences(runner)
    IN  /\ EndStep
        /\ NumScheduled > 0
        /\ executor = "multiproc"
        /\ \E answers \in Answers(seqs, [r \in Requests |-> 0]) :
             ProcessOutputs(StoredOnly(runner, seqs), seqs, answers)

(* The forward pass failed somewhere in the batch.  Every scheduled        *)
(* request is dropped with a final Error output, in any order (a HashSet), *)
(* whether or not its own sequence had been computed; the runner has       *)
(* cleaned up by then.                                                     *)
StepError ==
    LET affected == ToSet(Scheduled)
    IN  /\ EndStep
        /\ NumScheduled > 0
        /\ executor = "uniproc"
        /\ Sequences(Cleaned(runner)) # {}
        /\ \E ids \in SetToSeqs(affected) : ForgetAll(ids)
        /\ engine' = Restrict(engine, DOMAIN engine \ affected)
        /\ runner' = ExecutorForget(Cleaned(runner), affected)
        /\ restarted' = restarted \ affected
        /\ UNCHANGED executor

EngineStep ==
    \/ SchedulerPart
    \/ StepEmpty
    \/ StepUniProc
    \/ StepMultiProc
    \/ StepError

EngineCall ==
    \/ \E r \in Requests : EngineAdd(r)
    \/ \E r \in Requests : EngineAbort(r)
    \/ EngineResetPrefixCache

EngineNext == EngineStep \/ EngineCall

EngineSpec == EngineInit /\ [][EngineNext]_allVars

(* The engine loop (async_engine.rs) and LLMEngine's callers (sync) step   *)
(* the engine as long as it has work; nothing makes a client abort.        *)
EngineFairSpec == EngineSpec /\ WF_allVars(EngineStep)

-----------------------------------------------------------------------------

(* The engine, the scheduler and the executor know the same requests       *)
(* whatever mix of answers, errors, aborts and preemptions happened: no    *)
(* state outlives its request, and the runner lacks only requests that     *)
(* were preempted or finished by length (engine_core.rs:97-101, 147-150,   *)
(* 250-256; model_runner.rs:157-162).                                      *)
TrackedTogether ==
    /\ DOMAIN engine = DOMAIN requests
    /\ executor = "uniproc" => DOMAIN runner \subseteq DOMAIN engine
    /\ \A r \in DOMAIN engine \ DOMAIN runner : r \in restarted \cup finished

(* The requests whose positions the runner can know: those it has followed *)
(* from the start, and without rejected drafts.                            *)
Followed == {r \in DOMAIN runner \ restarted : SpecTokens[r] = 0}

(* Two independent counts agree between steps: the scheduler adds what it  *)
(* schedules, the runner what it computes (scheduler.rs:386, 518;          *)
(* uniproc.rs:387, 491-497).                                               *)
RunnerAgrees ==
    executor = "uniproc" /\ phase = "idle" =>
        \A r \in Followed \cap ToSet(running) :
            /\ runner[r].computed = requests[r].computed
            /\ runner[r].generated = engine[r]

(* The sequences of the batch about to be computed that decode.            *)
DecodeBatch ==
    IF executor = "uniproc" /\ phase = "done"
    THEN {r \in Sequences(Cleaned(runner)) : ~IsPrefill(r)}
    ELSE {}

(* A decode computes the last generated token at its own index in the      *)
(* sequence, after the whole prompt (model_runner.rs:224-243).             *)
DecodesInPlace ==
    \A r \in DecodeBatch \cap Followed :
        runner[r].computed = Len(Prompt[r]) + runner[r].generated - 1

(* Every token of a batch, drafts included, is given a slot of a block its *)
(* own request holds, and no two requests of the batch share a slot.       *)
SlotsOf(r) ==
    {Slot(out.tables[r], pos) : pos \in Positions(runner, r, SpecTokens)}

BatchSlotsPrivate ==
    executor = "uniproc" /\ phase = "done" =>
        \A r \in Sequences(Cleaned(runner)) \ restarted :
            /\ \A s \in SlotsOf(r) : s \div BlockSize \in ToSet(Table(kv, r))
            /\ \A q \in Sequences(Cleaned(runner)) \ (restarted \cup {r}) :
                  SlotsOf(r) \cap SlotsOf(q) = {}

(* Every request is eventually answered, or aborted by its client, unless  *)
(* it was preempted or ran into max_model_len: nothing else can keep it    *)
(* waiting for ever (engine_core.rs:106-274).                              *)
EventuallyAnswered ==
    \A r \in Requests :
        r \in DOMAIN engine ~>
            \/ r \notin DOMAIN engine
            \/ r \in restarted
            \/ IsFinished(r)

(* What the engine's owner can rely on: only a tracked request the         *)
(* scheduler still has is answered, with at least one token, its last      *)
(* answer is the one that reaches max_tokens or a stop token, a failure    *)
(* takes all of the batch with it, and a request that leaves the scheduler *)
(* otherwise is still tracked (engine_core.rs:103-274).                    *)
Contract ==
    INSTANCE EngineContract
    WITH MaxReturn <- Max({SpecTokens[r] : r \in Requests}) + 1,
         core <- [generated |-> engine,
                  active    |-> {r \in DOMAIN requests : ~IsFinished(r)}]

ImplementsContract == Contract!Spec

-----------------------------------------------------------------------------
(* What a test says and the code does not do.                              *)

(* "128-token prompt with budget of 64 -> needs at least 2 steps for       *)
(* prefill" (crates/rllm-bench/tests/acceptance.rs:77): a long prompt is   *)
(* split over steps, so the first decode comes after all of it.            *)
PromptComputed ==
    \A r \in DecodeBatch : runner[r].computed >= Len(Prompt[r])

=============================================================================
