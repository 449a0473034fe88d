------------------------------ MODULE Scheduler ------------------------------
(***************************************************************************)
(* The continuous-batching scheduler (crates/rllm-scheduler/src).  It owns *)
(* the KV-cache manager (kv) and is driven by one owner at a time, so      *)
(* add, abort, pause, resume and reset happen only between two steps.      *)
(*                                                                         *)
(* One call of step() is a run of small actions, one per loop iteration,   *)
(* in the order of the code:                                               *)
(*   finish -> decode -> preempt -> (admit: select -> probe* -> admit)*    *)
(*   -> done                                                               *)
(* `phase` is the position in it; nothing else can happen until it is      *)
(* "idle" again.  The caller takes the SchedulerOutput at "done".          *)
(*                                                                         *)
(* prefix_cache_admission, the statistics and the metrics only report and  *)
(* are left out.  The `None` arms of lookups in `requests` are dead code:  *)
(* NoRequestLost says that both queues hold tracked requests only.         *)
(***************************************************************************)
EXTENDS KVOps

CONSTANTS Requests,        \* request ids
          Prompt,          \* token ids of each request
          SkipCache,       \* requests with skip_reading_prefix_cache
          SpecTokens,      \* num_speculative_tokens of each request, or 0
          Priority,        \* priority of each request
          Policy,          \* "FCFS" or "Priority"
          MaxNumSeqs,      \* max_num_seqs
          MaxBudget,       \* max_num_scheduled_tokens
          MaxModelLen,     \* max_model_len
          PrefillCap       \* long_prefill_token_threshold when chunked prefill
                           \* is enabled, otherwise any larger number

ASSUME SchedulerAssumption ==
    /\ SkipCache \subseteq Requests
    /\ SpecTokens \in [Requests -> Nat]
    /\ Priority \in [Requests -> Int]
    /\ Policy \in {"FCFS", "Priority"}
    /\ {MaxNumSeqs, MaxBudget, MaxModelLen, PrefillCap} \subseteq Nat
    /\ Prompt \in [Requests -> Seq(Nat)]
    /\ \A r \in Requests : ToSet(BlockHashes(Prompt[r])) \subseteq Hashes

VARIABLES kv,         \* kv_cache_manager
          requests,   \* tracked requests: [computed, hit, status]
          waiting,    \* RequestQueue, front first
          running,    \* running: Vec<RequestId>
          finished,   \* finished: HashSet<RequestId>
          paused,
          arrived,    \* tracked requests in the order of their arrival_time
          phase,      \* position in step()
          todo,       \* what the current loop has yet to visit
          toPreempt,  \* to_preempt of schedule_running
          best,       \* best of select_waiting_request
          out         \* SchedulerOutput under construction

stepVars == <<phase, todo, toPreempt, best, out>>
vars == <<kv, requests, waiting, running, finished, paused, arrived, stepVars>>

NoRequest == "none"

Phases == {"idle", "finish", "decode", "preempt", "select", "probe", "admit", "done"}

EmptyOutput ==
    [new |-> <<>>, cached |-> <<>>, running |-> <<>>, preempted |-> <<>>,
     finished |-> <<>>, tokens |-> NoKeys, tables |-> NoKeys, budget |-> 0]

(* `hit` stands for a non-empty cached_block_ids.                          *)
NewRequest == [computed |-> 0, hit |-> FALSE, status |-> "waiting"]

IsFinished(r) == requests[r].status = "finished_length"

Init ==
    /\ kv = NewKV
    /\ requests = NoKeys
    /\ waiting = <<>> /\ running = <<>> /\ finished = {} /\ arrived = <<>>
    /\ paused = FALSE
    /\ phase = "idle" /\ todo = <<>> /\ toPreempt = <<>> /\ best = NoRequest
    /\ out = EmptyOutput

-----------------------------------------------------------------------------
(* RequestQueue (policy.rs).  Pushing a queued id keeps its place.         *)

Before(a, b, arrival) ==
    \/ Priority[a] > Priority[b]
    \/ /\ Priority[a] = Priority[b]
       /\ \E i, j \in DOMAIN arrival : arrival[i] = a /\ arrival[j] = b /\ i < j

Sorted(s, arrival) == \A i, j \in DOMAIN s : i < j => Before(s[i], s[j], arrival)

(* sort_by: the ids of a queue are distinct and so are their arrivals.     *)
SortByPriority(q, arrival) ==
    CHOOSE s \in [DOMAIN q -> ToSet(q)] : ToSet(s) = ToSet(q) /\ Sorted(s, arrival)

(* Faulty pushes: without the sort, or before everyone else.               *)
PushUnsorted(q, r, arrival) == IF r \in ToSet(q) THEN q ELSE Append(q, r)

PushFirst(q, r, arrival) == IF r \in ToSet(q) THEN q ELSE <<r>> \o q

Push(q, r, arrival) ==
    LET entries == IF r \in ToSet(q) THEN q ELSE Append(q, r)
    IN  IF Policy = "FCFS" THEN entries ELSE SortByPriority(entries, arrival)

-----------------------------------------------------------------------------
(* The calls made between steps.  Request ids are fresh in the program;    *)
(* here an id may come back once nothing tracks it any more.               *)

AddRequest(r) ==
    /\ phase = "idle"
    /\ r \notin DOMAIN requests
    /\ requests' = Put(requests, r, NewRequest)
    /\ arrived' = Append(arrived, r)
    /\ waiting' = Push(waiting, r, arrived')
    /\ UNCHANGED <<kv, running, finished, paused, stepVars>>

(* All that abort_request does; the engine also calls it for requests that *)
(* stopped by themselves.                                                  *)
Forget(r) ==
    /\ waiting' = Without(waiting, r)
    /\ running' = Without(running, r)
    /\ finished' = finished \ {r}
    /\ requests' = Drop(requests, r)
    /\ kv' = FreeRequest(kv, r)
    /\ arrived' = Without(arrived, r)

AbortRequest(r) ==
    /\ phase = "idle"
    /\ r \in DOMAIN requests
    /\ Forget(r)
    /\ UNCHANGED <<paused, stepVars>>

Pause ==
    /\ phase = "idle"
    /\ paused' = TRUE
    /\ UNCHANGED <<kv, requests, waiting, running, finished, arrived, stepVars>>

Resume ==
    /\ phase = "idle"
    /\ paused' = FALSE
    /\ UNCHANGED <<kv, requests, waiting, running, finished, arrived, stepVars>>

ResetPrefixCacheCall ==
    /\ phase = "idle"
    /\ kv' = ResetCache(kv)
    /\ UNCHANGED <<requests, waiting, running, finished, paused, arrived, stepVars>>

-----------------------------------------------------------------------------
(* step(): an empty output while paused.                                   *)

StepBegin ==
    /\ phase = "idle"
    /\ phase' = IF paused THEN "done" ELSE "finish"
    /\ out' = EmptyOutput
    /\ UNCHANGED <<kv, requests, waiting, running, finished, paused, arrived,
                   todo, toPreempt, best>>

(* process_finished: in the order of a HashMap, that is, any.  A finished  *)
(* request stays in `requests`.                                            *)
Unprocessed == {r \in DOMAIN requests : IsFinished(r)} \ ToSet(out.finished)

FinishOne(r) ==
    /\ phase = "finish"
    /\ r \in Unprocessed
    /\ running' = Without(running, r)
    /\ waiting' = Without(waiting, r)
    /\ kv' = FreeRequest(kv, r)
    /\ finished' = finished \cup {r}
    /\ out' = [out EXCEPT !.finished = Append(@, r)]
    /\ UNCHANGED <<requests, paused, arrived, phase, todo, toPreempt, best>>

FinishEnd ==
    /\ phase = "finish"
    /\ Unprocessed = {}
    /\ phase' = "decode"
    /\ todo' = running
    /\ UNCHANGED <<kv, requests, waiting, running, finished, paused, arrived,
                   toPreempt, best, out>>

-----------------------------------------------------------------------------
(* schedule_running: one token, and the drafts, for each running request.  *)

DecodeTokens(r) == 1 + SpecTokens[r]

(* A faulty block-boundary test without the drafts.                        *)
NeedsBlocksForOne(c, n) == CeilDiv(c + 1, BlockSize) > CeilDiv(c, BlockSize)

NeedsBlocks(c, n) == CeilDiv(c + n, BlockSize) > CeilDiv(c, BlockSize)

(* A faulty loop without the budget test.                                  *)
DecodingUnbudgeted(r) ==
    /\ phase = "decode"
    /\ todo # <<>> /\ r = Head(todo)
    /\ todo' = Tail(todo)

Decoding(r) ==
    /\ phase = "decode"
    /\ todo # <<>> /\ r = Head(todo)
    /\ out.budget < MaxBudget
    /\ todo' = Tail(todo)

(* A faulty length test, one token late.                                   *)
PastModelLen(r) == requests[r].computed > MaxModelLen

AtModelLen(r) == requests[r].computed >= MaxModelLen

DecodeLength(r) ==
    /\ Decoding(r)
    /\ AtModelLen(r)
    /\ requests' = [requests EXCEPT ![r].status = "finished_length"]
    /\ UNCHANGED <<kv, waiting, running, finished, paused, arrived,
                   phase, toPreempt, best, out>>

CanDecode(r) ==
    LET c == requests[r].computed
        n == DecodeTokens(r)
    IN  NeedsBlocks(c, n) => CanAllocateSlots(kv, c + n, c)

(* A faulty decode that copies the block table before it allocates.        *)
DecodeStaleTable(r) ==
    LET c == requests[r].computed
        n == DecodeTokens(r)
    IN  /\ Decoding(r)
        /\ ~AtModelLen(r)
        /\ CanDecode(r)
        /\ kv' = IF NeedsBlocks(c, n) THEN AllocateSlots(kv, r, c + n, c) ELSE kv
        /\ requests' = [requests EXCEPT ![r].computed = c + n]
        /\ out' = [out EXCEPT !.budget = @ + n,
                              !.running = Append(@, r),
                              !.tokens = Put(@, r, n),
                              !.tables = Put(@, r, Table(kv, r))]
        /\ UNCHANGED <<waiting, running, finished, paused, arrived,
                       phase, toPreempt, best>>

DecodeSchedule(r) ==
    LET c == requests[r].computed
        n == DecodeTokens(r)
    IN  /\ Decoding(r)
        /\ ~AtModelLen(r)
        /\ CanDecode(r)
        /\ kv' = IF NeedsBlocks(c, n) THEN AllocateSlots(kv, r, c + n, c) ELSE kv
        /\ requests' = [requests EXCEPT ![r].computed = c + n]
        /\ out' = [out EXCEPT !.budget = @ + n,
                              !.running = Append(@, r),
                              !.tokens = Put(@, r, n),
                              !.tables = Put(@, r, Table(kv', r))]
        /\ UNCHANGED <<waiting, running, finished, paused, arrived,
                       phase, toPreempt, best>>

(* The failed allocate_slots took and gave back every free block.          *)
DecodeFail(r) ==
    LET c == requests[r].computed
    IN  /\ Decoding(r)
        /\ ~AtModelLen(r)
        /\ ~CanDecode(r)
        /\ kv' = AllocateSlots(kv, r, c + DecodeTokens(r), c)
        /\ toPreempt' = Append(toPreempt, r)
        /\ UNCHANGED <<requests, waiting, running, finished, paused, arrived,
                       phase, best, out>>

DecodeEnd ==
    /\ phase = "decode"
    /\ todo = <<>> \/ out.budget >= MaxBudget
    /\ todo' = <<>>
    /\ phase' = "preempt"
    /\ UNCHANGED <<kv, requests, waiting, running, finished, paused, arrived,
                   toPreempt, best, out>>

(* Faulty preemptions: the request also stays in running, or keeps the     *)
(* intermediate status.                                                    *)
PreemptKeepsRunning(r) ==
    /\ phase = "preempt"
    /\ toPreempt # <<>> /\ r = Head(toPreempt)
    /\ toPreempt' = Tail(toPreempt)
    /\ kv' = FreeRequest(kv, r)
    /\ requests' = [requests EXCEPT ![r] = NewRequest]
    /\ waiting' = Push(waiting, r, arrived)
    /\ out' = [out EXCEPT !.preempted = Append(@, r)]
    /\ UNCHANGED <<running, finished, paused, arrived, phase, todo, best>>

PreemptKeepsStatus(r) ==
    /\ phase = "preempt"
    /\ toPreempt # <<>> /\ r = Head(toPreempt)
    /\ toPreempt' = Tail(toPreempt)
    /\ running' = Without(running, r)
    /\ kv' = FreeRequest(kv, r)
    /\ requests' = [requests EXCEPT ![r] = [NewRequest EXCEPT !.status = "preempted"]]
    /\ waiting' = Push(waiting, r, arrived)
    /\ out' = [out EXCEPT !.preempted = Append(@, r)]
    /\ UNCHANGED <<finished, paused, arrived, phase, todo, best>>

PreemptRequest(r) ==
    /\ phase = "preempt"
    /\ toPreempt # <<>> /\ r = Head(toPreempt)
    /\ toPreempt' = Tail(toPreempt)
    /\ running' = Without(running, r)
    /\ kv' = FreeRequest(kv, r)
    /\ requests' = [requests EXCEPT ![r] = NewRequest]
    /\ waiting' = Push(waiting, r, arrived)
    /\ out' = [out EXCEPT !.preempted = Append(@, r)]
    /\ UNCHANGED <<finished, paused, arrived, phase, todo, best>>

PreemptEnd ==
    /\ phase = "preempt"
    /\ toPreempt = <<>>
    /\ phase' = "select"
    /\ UNCHANGED <<kv, requests, waiting, running, finished, paused, arrived,
                   todo, toPreempt, best, out>>

-----------------------------------------------------------------------------
(* schedule_waiting: the head of the while loop, then the choice of the    *)
(* waiting request with the longest cached prefix.                         *)

(* A faulty limit, one request too many.                                   *)
MayAdmitOneMore ==
    waiting # <<>> /\ out.budget < MaxBudget /\ Len(running) <= MaxNumSeqs

MayAdmit ==
    waiting # <<>> /\ out.budget < MaxBudget /\ Len(running) < MaxNumSeqs

WaitingEnd ==
    /\ phase = "select"
    /\ ~MayAdmit
    /\ phase' = "done"
    /\ UNCHANGED <<kv, requests, waiting, running, finished, paused, arrived,
                   todo, toPreempt, best, out>>

SelectBegin ==
    /\ phase = "select"
    /\ MayAdmit
    /\ best' = Head(waiting)
    /\ phase' = IF EnablePrefixCaching THEN "probe" ELSE "admit"
    /\ todo' = IF EnablePrefixCaching THEN waiting ELSE <<>>
    /\ UNCHANGED <<kv, requests, waiting, running, finished, paused, arrived,
                   toPreempt, out>>

(* A lookup takes references on the blocks it finds; a request that has    *)
(* found some is not looked up again.                                      *)
Probed(r) ==
    IF ~EnablePrefixCaching \/ requests[r].hit THEN requests[r]
    ELSE LET found == ComputedBlocks(kv, Prompt[r], r \in SkipCache)
         IN  [requests[r] EXCEPT !.computed = Len(found) * BlockSize,
                                 !.hit = found # <<>>]

(* A faulty lookup that is repeated for a request that holds its hits.     *)
ProbedKVAgain(r) ==
    IF ~EnablePrefixCaching THEN kv
    ELSE GetComputedBlocks(kv, r, Prompt[r], r \in SkipCache)

ProbedKV(r) ==
    IF ~EnablePrefixCaching \/ requests[r].hit THEN kv
    ELSE GetComputedBlocks(kv, r, Prompt[r], r \in SkipCache)

(* best_cached is the number of cached tokens of `best`.                   *)
Probe(r) ==
    /\ phase = "probe"
    /\ r = Head(todo)
    /\ todo' = Tail(todo)
    /\ phase' = IF Tail(todo) = <<>> THEN "admit" ELSE "probe"
    /\ kv' = ProbedKV(r)
    /\ requests' = [requests EXCEPT ![r] = Probed(r)]
    /\ best' = IF Probed(r).computed > requests[best].computed THEN r ELSE best
    /\ UNCHANGED <<waiting, running, finished, paused, arrived, toPreempt, out>>

(* schedule_waiting looks the chosen request up once more if it has no     *)
(* cached blocks.  What it then computes:                                  *)
Cached(r) == Probed(r).computed

Remaining(r) == Monus(Len(Prompt[r]), Cached(r))

(* A faulty prefill that stops before the last token.                      *)
PrefillAllButLast(r) ==
    Min({Max({1, Remaining(r) - 1}), MaxBudget - out.budget, PrefillCap,
         Monus(MaxModelLen, Cached(r))})

PrefillTokens(r) ==
    Min({Remaining(r), MaxBudget - out.budget, PrefillCap,
         Monus(MaxModelLen, Cached(r))})

Admitting(r) ==
    /\ phase = "admit"
    /\ r = best
    /\ best' = NoRequest

Admitted(r, computed) ==
    /\ waiting' = Without(waiting, r)
    /\ running' = Append(running, r)
    /\ requests' = [requests EXCEPT ![r] = [Probed(r) EXCEPT !.status = "running",
                                                             !.computed = computed]]

(* Nothing left to prefill: to running, with no token this step.           *)
AdmitCached(r) ==
    /\ Admitting(r)
    /\ Remaining(r) = 0
    /\ kv' = ProbedKV(r)
    /\ Admitted(r, Cached(r))
    /\ out' = [out EXCEPT !.cached = Append(@, r)]
    /\ phase' = "select"
    /\ UNCHANGED <<finished, paused, arrived, todo, toPreempt>>

AdmitNew(r) ==
    LET c     == Cached(r)
        n     == PrefillTokens(r)
        slots == AllocateSlots(ProbedKV(r), r, c + n, c)
    IN  /\ Admitting(r)
        /\ n > 0
        /\ CanAllocateSlots(ProbedKV(r), c + n, c)
        /\ kv' = CacheBlocks(slots, r, c + n)
        /\ Admitted(r, c + n)
        /\ out' = [out EXCEPT !.new = Append(@, r),
                              !.tokens = Put(@, r, n),
                              !.tables = Put(@, r, Table(slots, r)),
                              !.budget = @ + n]
        /\ phase' = "select"
        /\ UNCHANGED <<finished, paused, arrived, todo, toPreempt>>

(* Both breaks: no token may be scheduled, or no block is left for them.   *)
AdmitNothing(r) ==
    /\ Admitting(r)
    /\ Remaining(r) > 0 /\ PrefillTokens(r) = 0
    /\ kv' = ProbedKV(r)
    /\ requests' = [requests EXCEPT ![r] = Probed(r)]
    /\ phase' = "done"
    /\ UNCHANGED <<waiting, running, finished, paused, arrived, todo, toPreempt, out>>

(* A faulty loop that continues after a failed allocation.                 *)
AdmitFailContinues(r) ==
    LET c == Cached(r)
        n == PrefillTokens(r)
    IN  /\ Admitting(r)
        /\ n > 0
        /\ ~CanAllocateSlots(ProbedKV(r), c + n, c)
        /\ kv' = AllocateSlots(ProbedKV(r), r, c + n, c)
        /\ requests' = [requests EXCEPT ![r] = Probed(r)]
        /\ phase' = "select"
        /\ UNCHANGED <<waiting, running, finished, paused, arrived,
                       todo, toPreempt, out>>

AdmitFail(r) ==
    LET c == Cached(r)
        n == PrefillTokens(r)
    IN  /\ Admitting(r)
        /\ n > 0
        /\ ~CanAllocateSlots(ProbedKV(r), c + n, c)
        /\ kv' = AllocateSlots(ProbedKV(r), r, c + n, c)
        /\ requests' = [requests EXCEPT ![r] = Probed(r)]
        /\ phase' = "done"
        /\ UNCHANGED <<waiting, running, finished, paused, arrived,
                       todo, toPreempt, out>>

(* The caller takes the output.                                            *)
StepReturn ==
    /\ phase = "done"
    /\ phase' = "idle"
    /\ out' = EmptyOutput
    /\ UNCHANGED <<kv, requests, waiting, running, finished, paused, arrived,
                   todo, toPreempt, best>>

-----------------------------------------------------------------------------

StepAction ==
    \/ StepBegin
    \/ \E r \in Requests : FinishOne(r)
    \/ FinishEnd
    \/ \E r \in Requests : DecodeLength(r)
    \/ \E r \in Requests : DecodeSchedule(r)
    \/ \E r \in Requests : DecodeFail(r)
    \/ DecodeEnd
    \/ \E r \in Requests : PreemptRequest(r)
    \/ PreemptEnd
    \/ WaitingEnd
    \/ SelectBegin
    \/ \E r \in Requests : Probe(r)
    \/ \E r \in Requests : AdmitCached(r)
    \/ \E r \in Requests : AdmitNew(r)
    \/ \E r \in Requests : AdmitNothing(r)
    \/ \E r \in Requests : AdmitFail(r)

OwnerCall ==
    \/ \E r \in Requests : AddRequest(r)
    \/ \E r \in Requests : AbortRequest(r)
    \/ Pause
    \/ Resume
    \/ ResetPrefixCacheCall

Next == StepAction \/ StepReturn \/ OwnerCall

Spec == Init /\ [][Next]_vars

-----------------------------------------------------------------------------

TypeOK ==
    /\ kv.pool \in Pool
    /\ DOMAIN kv.blocks \subseteq Requests
    /\ DOMAIN requests \subseteq Requests
    /\ \A r \in DOMAIN requests :
         requests[r] \in [computed : Nat, hit : BOOLEAN,
                          status : {"waiting", "running", "finished_length"}]
    /\ waiting \in Seq(Requests) /\ running \in Seq(Requests)
    /\ finished \subseteq Requests
    /\ arrived \in Seq(Requests)
    /\ paused \in BOOLEAN
    /\ phase \in Phases
    /\ todo \in Seq(Requests) /\ toPreempt \in Seq(Requests)
    /\ best \in Requests \cup {NoRequest}

(* Every tracked request is in exactly the queue its status names, once,   *)
(* at every point of a step: preemption, finishing and admission, which    *)
(* move requests between two queues, neither lose nor duplicate one        *)
(* (scheduler.rs:399-403, 479-485, 517-522, 615-641).                      *)
NoRequestLost ==
    /\ IsInjective(waiting) /\ IsInjective(running)
    /\ ToSet(waiting) = {r \in DOMAIN requests : requests[r].status = "waiting"}
    /\ ToSet(running) \subseteq DOMAIN requests \ ToSet(waiting)
    /\ \A r \in DOMAIN requests \ ToSet(waiting) : r \notin ToSet(running) => r \in finished

(* Composed with the scheduler the KV-cache manager keeps its invariants:  *)
(* a request is looked up only while it holds no block, so that no         *)
(* reference leaks when it is probed again, fails to be admitted, is       *)
(* preempted, finished or aborted (scheduler.rs:431-470, 562-601).         *)
KVConsistent == PoolOK(kv.pool) /\ RefExactOf(kv) /\ TablesDistinctOf(kv)

(* A block a request shares through the prefix cache was filled for its    *)
(* own tokens.                                                             *)
PrefixMatches == PrefixMatchesOf(kv, Prompt)

(* A running request has a slot for each token it is counted to have (and  *)
(* without speculation not one block more); a waiting one holds exactly    *)
(* the cached prefix it was counted to have; a processed finished one      *)
(* holds nothing (scheduler.rs:364-386, 506-522, 617-623, 640).            *)
SlotsCoverTokens ==
    \A r \in DOMAIN requests :
        LET held   == Len(Table(kv, r))
            needed == CeilDiv(requests[r].computed, BlockSize)
        IN  /\ r \in ToSet(running) => held >= needed
            /\ r \in ToSet(running) /\ SpecTokens[r] = 0 => held = needed
            /\ r \in ToSet(waiting) => held * BlockSize = requests[r].computed
            /\ r \in finished => held = 0

(* The blocks the tokens scheduled for r in this step are written to.      *)
Written(r) ==
    LET c == requests[r].computed
        n == out.tokens[r]
    IN  {out.tables[r][i] : i \in {j \in DOMAIN out.tables[r] :
                                     j * BlockSize > c - n /\ (j - 1) * BlockSize < c}}

(* No two requests of a batch write the same block, and a decode never     *)
(* writes a block that is cached or that another request also reads.       *)
WritesPrivate ==
    \A r \in DOMAIN out.tokens : \A b \in Written(r) :
        /\ \A s \in DOMAIN out.tokens \ {r} : b \notin Written(s)
        /\ r \in ToSet(out.running) =>
              kv.pool.hash[b] = NoHash /\ kv.pool.refCount[b] = 1

(* What a batch writes and reads is its own: the manager's accounts stay   *)
(* exact through every lookup, failed admission, preemption and abort, the *)
(* tables cover the tokens, and no two requests of a step write one block. *)
MemorySafe == KVConsistent /\ SlotsCoverTokens /\ WritesPrivate

(* What the executor is given is current: the block table copied for a     *)
(* request when it was scheduled is still its table when the step ends,    *)
(* whoever was preempted or admitted after it, and no request is scheduled *)
(* twice or both scheduled to decode and preempted.                        *)
OutputCurrent ==
    LET scheduled == out.new \o out.cached \o out.running
    IN  /\ IsInjective(scheduled)
        /\ ToSet(scheduled) \subseteq ToSet(running)
        /\ DOMAIN out.tokens = ToSet(out.new) \cup ToSet(out.running)
        /\ DOMAIN out.tables = DOMAIN out.tokens
        /\ \A r \in DOMAIN out.tables : out.tables[r] = Table(kv, r)
        /\ ToSet(out.running) \cap ToSet(out.preempted) = {}

TotalTokens(tokens, s) ==
    LET sum[i \in 0..Len(s)] == IF i = 0 THEN 0 ELSE sum[i - 1] + tokens[s[i]]
    IN  sum[Len(s)]

(* A step schedules no more tokens than the budget, and budget_used counts *)
(* exactly the scheduled ones (architecture.md:69, token_budget_respected).*)
BudgetRespected ==
    /\ out.budget <= MaxBudget
    /\ out.budget = TotalTokens(out.tokens, out.running \o out.new)

(* With speculation the last decode may exceed the budget, by no more than *)
(* its draft tokens: the check is made before they are added               *)
(* (scheduler.rs:339, 362, 387).                                           *)
BudgetOvershoot ==
    out.budget > MaxBudget =>
        /\ out.new = <<>>
        /\ out.budget - MaxBudget <= SpecTokens[Last(out.running)]

(* No request is counted to have more tokens than the model supports       *)
(* (scheduler.rs:72), whatever mix of cached prefix, prefill chunk and     *)
(* decodes made them.                                                      *)
WithinModelLen ==
    \A r \in DOMAIN requests : requests[r].computed <= MaxModelLen

(* At most max_num_seqs requests run.                                      *)
SeqsRespected == Len(running) <= MaxNumSeqs

(* The two limits of a step, whichever mix of decodes, preemptions, split  *)
(* prefills and re-admissions it made.                                     *)
LimitsRespected == BudgetRespected /\ SeqsRespected

(* The priority queue is sorted, re-queued preempted requests included;    *)
(* so, unless a cached prefix is preferred, the request admitted first is  *)
(* the one Before all others.                                              *)
QueueOrdered == Policy = "Priority" => Sorted(waiting, arrived)

-----------------------------------------------------------------------------
(* The engine loop calls step() whenever there is work, and the engine     *)
(* forgets a request that runs long enough (its max_tokens is reached), so *)
(* a request that keeps running is eventually aborted.                     *)
Fairness ==
    /\ WF_vars(StepAction \/ StepReturn)
    /\ \A r \in Requests : SF_vars(r \in ToSet(running) /\ AbortRequest(r))

FairSpec == Spec /\ Fairness

(* A call of step() ends: the loop over the waiting queue makes progress   *)
(* in every iteration, whatever it preempted before (scheduler.rs:420-538).*)
StepEnds == phase # "idle" ~> phase = "idle"

(* No request waits for ever once nobody pauses any more: preemption and   *)
(* new arrivals cannot starve it.                                          *)
EventuallyServed ==
    \A r \in Requests : r \in ToSet(waiting) ~> (r \notin ToSet(waiting) \/ paused)

=============================================================================
