# TLA+ verification of rLLM

rLLM is an LLM inference server: requests arrive over HTTP or gRPC, an engine
schedules them in batches over a paged KV cache, an executor runs the model and
the sampled tokens stream back. This directory models the system from the wire
to the pages of the cache, checks it with TLC and proves with TLAPS the safety of
the cache, the scheduler, the engine core and the serving layer, of the
containers around them, the start-up of a worker, the detokenizer, the
recognition of tool calls and the drafts of speculative decoding, for any number of
blocks, requests, limits, clients and tokens.

## 1. Inventory

| Component | State | Operations | Talks to | What is hard |
|---|---|---|---|---|
| `FreeBlockQueue`, `BlockPool` (rllm-cache/block_pool.rs) | links inside the blocks; reference counts, hashes, hash index, active counter | push, pop, remove; allocate, free, incref, copy_on_write, touch, get_cached_block, cache_block, reset | owned by KVCacheManager | pointer updates at every position, conservation, stale index entries, LRU eviction |
| `KVCacheManager` (manager.rs, prefix.rs) | pool, block table / computed tokens / hashes per request | get_computed_blocks, allocate_slots, free, cache_blocks, fork_blocks, reset | owned by Scheduler | rollback, sharing, one block off |
| `Scheduler` (rllm-scheduler) | requests, waiting queue, running list, finished set, paused, KV manager | add, abort, pause, resume, reset, step | owned by EngineCore | preemption, budgets, prefix-aware admission, fairness |
| `EngineCore` (rllm-engine) | generated tokens per request, executor, scheduler | add, abort, reset, step | async and sync engine | executor errors after scheduling, stop conditions, three copies of one request |
| Executors, model runner (rllm-executor, rllm-worker) | token state per request, positions, slots | add, abort, execute | engine | counts out of step with the scheduler, drafts |
| `AsyncEngine` | command channel, senders, watch channel | engine loop, shutdown | server tasks | lost outputs, aborts racing a step |
| Servers (rllm-server) | one handler per request, permits | authenticate, validate, submit, stream, collect, time out | async engine, tokenizer | four endpoints, timeouts without abort, disconnections |
| Sampling, beam search, drafts, grammars (rllm-sampling) | beams; matcher | processors, sample, advance, propose, verify | executor | order of processors, pruning |
| Tokenizer (rllm-tokenizer) | detokenizer buffers, pool index | push, flush, encode, render | servers | stop strings over several tokens, bytes and characters |
| Attention and cache kernels (rllm-kernels) | pages, scales | write, read, attend | model | offsets, layouts, thread barriers |
| Models, checkpoints, quantization (rllm-model, rllm-quant) | weight maps, packed words | configure, fetch, load, route, quantize, export | worker | combinations of families, formats and names |
| Worker, sizing, offload, batch queue, overlap | cache, slots, queues | initialise, profile, calibrate, put, drain | executor | limits, rounding, start-up order |

Everything from the engine core down runs under one owner at a time (`&mut
self`, in the async engine behind one mutex). Real concurrency is between the
handlers, the engine loop and the owner's commands; between the copy threads and
the threads of a kernel; and, inside one owner, between *requests*, whose
lookups, allocations, preemptions and aborts interleave on the shared pool in
orders no test enumerates. `PROJECT.json` lists the hazards line by line.

What makes the parts correct: no block is lost or owned by two; the hash index
never leads to reused memory; no request is lost between queues; engine,
scheduler and runner agree about every request; every token is written to a slot
of its own request and every head reads its own context; what the engine returns
reaches its client once and in order; only valid work is admitted; what was
packed reads back; what loads is whole; steps, answers and handlers end.

## 2. Modules

The layers of the engine, each a state machine built from the one below:

| Module | Models | Notes |
|---|---|---|
| `FreeBlockQueue` | the intrusive list, one action per method | guards are the owner's obligations, discharged by `FreeListExact` |
| `FreeQueueSpec` | the ordered list it promises | refined by `FreeBlockQueue` (`ImplementsList`) |
| `PoolOps`, `BlockPool` | each BlockPool method as a function; any call at any time | the free queue is the sequence `FreeQueueSpec` describes |
| `KVOps`, `KVCacheManager` | the manager, several pool calls per method in the code's order | invariants over pool and tables together |
| `Scheduler` | `step()` as a run of small actions, and the owner's calls | `EXTENDS KVOps`: it owns a manager |
| `EngineCore` | add, abort and `step()` with either executor and the runner's state | `EXTENDS Scheduler`: `StepReturn` becomes execute, answer, clean up |
| `EngineContract` | what the engine promises: outputs per request, at most `max_tokens`, one final output | refined by `EngineCore` (`ImplementsContract`) |
| `Frontend` | authentication, validation, conversion, tool calls, as operators | both servers |
| `Serving` | the engine loop and the handlers of the four endpoints | `EXTENDS EngineContract, Frontend`: it sees the engine only through its contract |

The functions and small objects, as operators, one per method:

| Module | Models |
|---|---|
| `Sampling` | logit processors, sampler, beam search, n-gram drafts, grammar masks |
| `Text` | streaming detokenizer, special tokens, built-in chat format |
| `Kernels`, `PagedAttention` | launches and integer arithmetic; batch metadata, layouts, cache writes, what each attention path reads, the threads of the logit sum |
| `Quant` | choice of method, INT8, FP8, MXFP4, NVFP4, GPTQ and AWQ words, both readers |
| `ModelConfig`, `Checkpoint`, `Experts` | accepted configurations; fetching, shards, tensors each family takes, export; routing and block scales |
| `Startup`, `Stores` | plans, sizing, worker, calibration, ranks; batch queue, offload store, copies, tokenizer turns |

`Parts` declares the one variable `st` with which such a part is run;
`AttentionRuns`, `ModelRuns`, `TokenRuns` and `StoreRuns` run each part step by
step (a unit of `st` per part) and state its properties; `Algorithms` joins them.
`SeqLemmas` and `KVLemmas` hold lemmas, `FreeBlockQueueProofs`, `BlockPoolProofs`
and `ServingProofs` the theorems of the module they are named after,
`EngineProofs` those of the scheduler and the engine core, `AlgorithmProofs` those
of `StoreRuns` and `TokenRuns` (the theorems of the manager, which are few, are at
the end of `KVCacheManager`; section 5); `MC*` the constants for TLC.

Definitions named "A faulty ..." are deliberately wrong variants of the operator
below them. No specification uses them; each is there to confirm that a named
property notices that bug (`mutants` in `PROJECT.json`).

Points worth knowing:

* **Step granularity.** `Scheduler::step` is one call that nothing interrupts. It
  is written as one action per loop iteration, ordered by `phase`; the owner's
  calls are enabled only at `idle`, so the granularity adds no behaviour; it lets
  the invariants be checked inside a step. In `EngineCore` the phase `done`
  continues with one of `StepEmpty`, `StepUniProc`, `StepMultiProc`, `StepError`.
* **Errors.** A failed `allocate_slots` takes every free block, evicting cached
  ones, and gives them back; so do `AllocateSlots`, `DecodeFail` and `AdmitFail`.
  `StepError` is an executor that fails after some sequences were computed: all
  scheduled requests are dropped with an error output, in any order.
* **Hashes** are collision free; the chained hash of a block is the prompt up to
  the end of that block. `cache_salt` is not used by the code's lookup either.
* **Tokens.** The engine sees how many tokens a sequence returned and which of
  them stops it. `Serving` sees numbered outputs, so that loss, repetition and
  reordering are visible.
* **Races.** HashMap and HashSet iteration is any order. Threads of a kernel
  interleave freely between barriers. A disconnection, a timeout, an abort and a
  shutdown can come at any moment the code yields.
* **Numbers.** Logits are integers read as powers of two, probabilities ratios,
  weights integers in a unit that makes scales exact, FP8 values a sign, an
  exponent and sixteenths. Attention is abstracted to the keys read, an expert to
  its identity. What a rounding error does is outside the models; so the sum of
  the probabilities reaches every draw, and the last token `random_sample` falls
  back on is not needed.
* **Arrival time** is the order of `add_request`; the code stamps `arrival_time`
  a little earlier, when the request is built. An id may be added again after it
  was forgotten, which stands for a fresh id.
* **Drafts.** The runner puts used drafts back and the executor replaces them after
  verification (`model_runner.rs:234-251`); `TokensPerSeq` counts the drafts of the
  step and leaves out where they lie in between.
* **Start-up.** The driver's answers are inputs (`env`): which of the two memory
  queries succeed, whether the cache can be allocated, whether the calibration's
  forward pass fills every layer.
* **Left out**: metrics, statistics, tracing, wire formats, and `None` arms that
  `NoRequestLost` shows to be unreachable.

## 3. Runs

| Run | Instance | Distinct states | Shows |
|---|---|---|---|
| `free_queue` | 5 blocks | 326 | links and counter, refinement of the list |
| `block_pool` | 3 usable blocks, 2 hashes, `MaxRef` 2, `MaxEntries` 3 | 10,526 | conservation, exact index, eviction order |
| `kv_manager` | 3 requests sharing a prefix, 3 usable blocks, tables of at most 2 | 30,270 | no leaked reference, no wrong prefix, across forks and failed allocations |
| `scheduler_prefix` | 3 requests, prompts of 2-4 tokens, blocks of 2, 3 usable, budget 3, 2 sequences | 169,890 | all safety properties with caching, split prefills, preemption |
| `scheduler_drafts` | priority policy, 0/2/3 draft tokens, prompts longer than the model | 47,172 | slots for drafts, bounded overshoot, sorted queue |
| `scheduler_live` | no caching, 2 usable blocks, model length 3 | 6,706 | steps end, nobody starves |
| `engine` | 2 requests (prompts of 3 and 1), one with 2 drafts, `max_tokens` 4, 3 usable blocks of 2, model length 6, both executors | 7,989 | agreement of engine, scheduler and runner; slots; answers; the contract |
| `serving` | 2 clients, one sending any of nine requests, good and bad, to any endpoint, one HTTP completion; one permit per route; a key required | 215,004 | complete answers, exact senders, valid admissions, explained orphans, handlers end |
| `algorithms` | the inputs of `MCAlgorithms` | 54,065 | the functions and small objects against reference definitions |
| `doc_*` | as above | - | three statements of docs, comments and tests the code does not meet (section 6) |

**Bounds.** `MaxRef`, `MaxEntries`, `MaxTable` and `MaxArrivals` cap counters the
code leaves open; requests and prompts are small sets. Three blocks are enough
for a list with a middle element and for three-way sharing; three requests for
one that holds, one that takes and one that waits. Prompts cross a block
boundary, end on one and end between two; the pool is smaller than two full
requests, so decodes fail, requests are preempted and admissions roll back. In
`engine` both requests together need more blocks than there are, the drafts cross
a block boundary and `max_tokens` falls inside a verified run. In `serving` two
clients are enough for one to hold the only permit of a route while the other waits, for a
command to be drained ahead of a shutdown, and for a batch to hold one finished
and one unfinished request; outputs of at most `MaxReturn` tokens and limits of
2 and 1 give answers of several outputs and of one. `serving` may stop: all
clients gone and the loop shut down is the intended end, so deadlock is not
checked there. The inputs of `algorithms` are chosen around each function's
boundaries: group sizes that do and do not divide, ties, words with every
nibble sign, stop strings that overlap themselves, characters of three bytes,
texts with nested, unclosed, fenced and unknown tool calls; draws from 0 to just
below 1; beams that may end in no, one or two ways; models of every dtype on devices
that answer both, one or none of the memory queries; pools of one to three
tokenizers, two offload slots for three keys, two layers with positive, zero and
negative scales. What part of this the proofs make independent of the inputs is in
section 5.

**Fairness.** `FairSpec` (scheduler): `step()` is called again and again, because
the engine loop steps whenever `has_work()`; a running request is eventually
aborted (strong fairness, since calls are possible only between steps): the
engine counts its tokens across preemptions and aborts at `max_tokens`.
`EngineFairSpec`: weak fairness of the engine's step only, for the same reason;
no client is assumed to abort. `ServingFairSpec`: weak fairness of the engine
loop, of every handler (tokio polls a task that is ready) and of the timeout of a
collecting handler (`tokio::time::timeout`). Nothing forces clients to arrive,
disconnect or shut the server down.

## 4. Main properties

* `WellLinked`, `ImplementsList` - the free list. `FreeListExact`,
  `HashMapExact`, `EvictionOrder` - the pool. `TablesExact`, `PrefixMatches` -
  the manager: tables, counts, queue and index agree, and a shared block was
  filled for its reader's tokens.
* `NoRequestLost`, `MemorySafe`, `OutputCurrent`, `LimitsRespected`,
  `WithinModelLen`, `BudgetOvershoot`, `QueueOrdered`, `StepEnds`,
  `EventuallyServed` - the scheduler. `MemorySafe` says that the tables of a
  batch are accounted for, cover its tokens and are written by one request each.
* `TrackedTogether`, `RunnerAgrees`, `DecodesInPlace`, `BatchSlotsPrivate` - the
  three copies of a request agree; each decode is computed at its own index and
  written into its own block.
* `EventuallyAnswered`, `ImplementsContract` - every request is answered, except
  in the two cases the code leaves open (below), and never more than it asked for.
* `AnswersComplete`, `SendersTracked`, `AdmittedValid`, `OrphansExplained`,
  `HandlersEnd` - serving: an answer that ends normally is all the engine
  produced; work nobody waits for has one of three known causes.
* `AttendsOwnContext`, `RoutedExactly`, `CodesReadBack`, `LoadedWhole`,
  `SampledAllowed`, `BeamWidthKept`, `TextExact`, `CallsAllOrNothing`,
  `StoresExact`, `CacheFits` - the functions and small objects, each against an
  independent statement of its result.

Some properties carry the condition under which the code meets them; the
conditions are cases the code handles differently, listed in section 6:

* `LimitsRespected` and `WithinModelLen` are about requests without drafts and, for
  the second, prompts within the model length; `BudgetOvershoot` is the bound with
  drafts. `QueueOrdered` is about the queue: with prefix caching, selection may
  take a request from the middle of it.
* `RunnerAgrees` and `DecodesInPlace` follow requests without drafts that were not
  preempted; `EventuallyAnswered` excuses preempted requests and those finished at
  the model length. `EventuallyServed` holds without prefix caching.
* `AnswersComplete` excuses an HTTP stream whose tokens do not decode: it ends
  normally without the text. For gRPC and collected answers, which fail then, it
  demands everything.
* `AttendsOwnContext` is about prefills and decodes of one token, not the
  verification of drafts, and asks for whole sums for power-of-two head sizes,
  read by a thread before the first one goes on to the next key. `RoutedExactly`
  asks for groups with enough experts.
* `CodesReadBack` asks for GPTQ groups that divide the inputs or straddle zero, and
  claims nothing of the E4M3 magnitudes from 480 to 511 (`CutToNaN`).
* `LoadedWhole` claims nothing of two kinds of GGUF file: Qwen2-MoE with a shared
  expert (`GateStranded`) and Llama with a quantized head of its own
  (`HeadStranded`).
* `SampledAllowed` claims nothing of a random draw of exactly 0 (`ZeroDraw`), and
  allows a token one place below the top k; the nucleus is checked where top-k does
  not cut.
* `BeamWidthKept` counts the continuations that end: up to twice the width are kept
  before these are set aside, so as many beams stay alive as can go on and find a
  place. That is fewer than the width when a beam can end by eos and by a stop token.
* `TextExact` asks, when there are stop strings, for ASCII text handed on as deltas
  (`PlainStops`), because the cut may fall inside a character otherwise and the
  cumulative mode shows what should be held back.
* `CacheFits` goes by the memory the worker saw, which is an estimate when the driver
  did not answer, and claims nothing of the cache dtype of an F32 model served as it
  is (`FloatCache`).

## 5. Proofs

Every theorem holds for all values of the constants that meet the named
assumptions, which TLC evaluates in every run. They only say what the code's types say:
counts are naturals and at least one block, one token per block and one permit
exist; prompts are finite sequences and `Hashes` contains their hashes; `NoHash`
is not a hash; requests of the engine are finitely many (a `HashMap`); a request
on the wire has the fields the conversion reads (`ProfileAssumption`); sizes of the
containers and of a device are naturals, with at least one tokenizer in a pool, one
rank in a plan and one token in a block (`ContainersTyped`, `CasesTyped`); tokens
are byte strings, a field of a tokenizer's configuration has one of the forms the
reader knows, texts, messages and tools are finite sequences, and an n-gram has at
least one token (`TextsTyped`, `CallsTyped`, `DraftsTyped`). The `Max*`
bounds of the models are arbitrary naturals in the proofs, so they hide nothing.

| Module | Theorems | Inductive invariant |
|---|---|---|
| `FreeBlockQueueProofs` | `QueueCorrect` (`WellLinked`, `LenExact`), `QueueIsList` (`ImplementsList`) | `IsList` |
| `BlockPoolProofs` | `PoolConserved` (`FreeListExact`, `ActiveExact`), `PoolIndexExact` (`HashMapExact`), `EvictsInOrder` (`EvictionOrder`) | `PoolOK` |
| `KVCacheManager` | `AccountsExact` (`TablesExact`), `CachedBlocksMatch` (`PrefixMatches`) | `KVOK` |
| `EngineProofs` (scheduler) | `QueuesKeepRequests` (`NoRequestLost`), `QueueStaysOrdered` (`QueueOrdered`), `OvershootBounded` (`BudgetOvershoot`), `MemoryStaysSafe` (`MemorySafe`), `SharedBlocksMatch` (`PrefixMatches`), `OutputStaysCurrent` (`OutputCurrent`), `SchedulerTypes` (`TypeOK`), `LimitsHold` (`LimitsRespected`), `ModelLenHolds` (`WithinModelLen`) | `ControlInv`, `MemInv` |
| `EngineProofs` (engine) | `TrackedEverywhere` (`TrackedTogether`), `ContractHolds` (`ImplementsContract`), `RunnerFollowsScheduler` (`RunnerAgrees`), `DecodesStayInPlace` (`DecodesInPlace`), `SlotsStayPrivate` (`BatchSlotsPrivate`) | `EngineInv`; with `AgreeInv` (`CountsAgree`) for the last three |
| `ServingProofs` | `SendersStayTracked`, `OnlyValidAdmitted` (`AdmittedValid`), `OrphansAreExplained`, `AnswersStayComplete` | `ServingInv` |
| `AlgorithmProofs` | `ContainersExact` (`StoresExact`), `StartedCacheFits` (`CacheFits`), `TextStaysExact` (`TextExact`), `CallsStayWhole` (`CallsAllOrNothing`), `DraftsStaySound` (a part of `SampledAllowed`) | `PartsInv`, one invariant per part |

**Free list.** `WellLinked` is local: it speaks of neighbours, and admits a
state with a second, detached cycle of blocks, in which the walk from `head` is
not the list. The refinement therefore needs `IsList`: some injective sequence
holds exactly the linked blocks in the order of the links. Each action is shown
to turn that sequence into its successor under `FreeQueueSpec`, and `Walk` to be
that sequence. `QueueCorrect` needs only its own three conjuncts: a push or
removal rewrites the links of at most two neighbours, which `WellLinked`
identifies, and the counter follows from the cardinality lemmas.

**Pool.** `PoolOK` is `TypeOK`, `FreeListExact`, `ActiveExact` and `HashMapExact`
together: the first tells that the block taken from the queue is unreferenced,
the counter follows from it by cardinality, and the index must be exact for the
block a lookup returns to be the one whose state is changed. The client
obligation in `DoCacheBlock` (no block gets a second, different hash) is
discharged by the manager's proof.

**Manager.** A method makes one pool call per block. `KVLemmas` describes the
result of such a run of calls (`Taken`, `AllocateManyEffect`, `FreeAllEffect`,
`GetCachedAll`...) by induction on its length, and then shows that each method keeps
`KVOK`. Beside what the two properties say, `KVOK` needs `SharedAlike`: two tables
that list a block list it at the same position, and their prompts are the same
while it has no label. `PrefixMatches` alone is not preserved when `cache_blocks`
labels a block that a fork shares.

**Scheduler.** `ControlInv` ties the queues, the loop variables and the output at
each `phase`: what has been visited, what still will be, which requests are in
the output with how many tokens. `MemInv` adds the cache: `KVOK` for the owned
manager; unlabelled blocks are in one table only; the table of a running request
covers the tokens counted so far, a waiting request holds exactly the prefix a
probe left it and a finished one nothing; the labelled blocks of a table are full
with tokens computed before this step; and the output holds each request's current
table. `LimitsHold` and
`ModelLenHolds` state their conditions in the theorem: `NoDrafts`, because a
decode tests the budget before it adds its drafts (the bound with drafts is
`OvershootBounded`, which has no condition) and because drafts are scheduled past
`max_model_len`; `PromptsFit`, because a prompt longer than the model is admitted.

**Engine.** `EngineInv` extends both with the three copies of a request, the
tokens generated so far (below `max_tokens` for whoever goes on), who may
still be in a batch (`LiveInv`) and when an executor may lack a request. `ContractHolds` maps the engine's generated
tokens and live requests to `EngineContract`: a scheduler action is a stutter or
retires the requests it finished by length, a step of either executor, failed or
not, is an `Answer`. The loops over
finished requests run in any order, so their effect is proved for any sequence of
distinct requests.

The last three theorems of `EngineProofs` are about a configuration, which their
hypotheses name: `NoCaching` (`enable_prefix_caching` off, the default and the checked
instance) for all, because after a cache hit the runner still starts at token 0
(section 6); `WholePrompts` for `DecodesStayInPlace`, because a prompt the limits
split is decoded before it is complete (section 6). `WholePrompts` asks only the
constants for room: `max_num_seqs` times the longest prompt, or decode with its
drafts, is within the token budget, and each prompt is within the prefill cap and
`max_model_len`. The instance of the run `engine` meets both. `AgreeInv` follows two counts that
no action updates together: at each `phase` the scheduler has counted what the
runner has computed plus what this step has given the request (`Given`); with
drafts the runner may have less, never more, which is what keeps its positions
within the table. Each scheduler action is first reduced to what it does to one
request (`Moved`: unmoved, decoded, prefilled, joined or preempted), so the
agreement is proved once per kind. That a prompt is never split follows from
`Counted`: a batch with a place left has used at most the share of the others, by
a pigeonhole argument on the running queue. Slots are private because a block
without a label is in one table (`MemInv`), and without caching no block of a
table has one (`Bare`).

**Serving.** `ServingInv` follows each request through its stages: in the command
channel, drained, in the core, in its channel, read by the handler. `AnswerOK` says
that what the client has, followed by what is in the channel, is what the engine
produced so far; `CheckedOK` what a handler has validated when it submits.
A stream some of whose tokens did not decode is in `lost`, and for those only the order
of what was sent is kept up; that such a stream ends normally only over HTTP is part of
the invariant. The theorem is about the engine's *contract*, so with `ContractHolds` it covers
the engine core too.

**Small objects.** `PartsInv` says of the one part that runs what its code keeps
up between calls; a step of another part leaves it alone. For the containers that
is: numbers in the batch queue ascend, none is above the last one given out, and no
more are pending than the largest capacity the queue has had (lowering the capacity
removes nothing); a
slot of the offload store is free or held by exactly one key, so a store that is
full refuses and never overwrites; finished copies are drained in the order of
their submission; the loads of the tokenizers differ by at most one, in the
direction of the next turn. A worker that is up has the blocks the sizing gave it (or
none, when no cache was configured), whichever queries and allocations failed on
the way, and what the sizing computes fits the memory it saw by arithmetic on floors
and products. The dtype follows by cases over the argument, the quantization plan and
the model's own, of which only the last can be one attention does not read.

`TextInv` is the invariant of a stream. What was fed is what was shown, then the
text held back, then bytes that do not make a character yet; and once anything has
been shown, no stop string is complete yet and what is held back is at least as long
as the longest of them, so one that becomes complete always begins behind what was
shown (`TextExact` alone is not inductive: it says nothing of the length held
back). Every case of `decode_token` and `flush` is shown
to keep it, for any bytes and any stop strings that meet `PlainStops`.

A chat answer is read from the last piece of the text to the first: `TaggedInv`
says of the text from a place on which pieces were taken, that they are markers, code
fences and JSON values, that the values are exactly those taken, in order, and that the rest is the
content. `Parted` carries the same through the tagged, the Python and the bare form, and
`AnswerSound` follows with the check of names that turns the whole answer back into
text. `PromptSound` follows from the layout of the prompt (`LaidOut`).

`DraftsStaySound` is the part of `SampledAllowed` about speculation: `propose` finds
the longest repetition there is, and `accept_matching_prefix` keeps all the tokens
the model would have generated and none after the first difference.

**Recursion.** Loops of the code are recursive functions on `0..n` with a value
per iteration; the lemmas about them take a least iteration at which the claim
fails (`NatMinimum`, `LeastFailure`). That such a function has the value its
equation says is itself a lemma (`LoopExists`, `TaggedExists`): the prover does not
accept it from the definition. `CASE` expressions whose guards overlap are
avoided in the modules: TLA+ leaves their value open, so what TLC evaluates is
not what a proof may use.

**Only model-checked.** The liveness properties (`StepEnds`, `EventuallyServed`,
`EventuallyAnswered`, `HandlersEnd`), which the prover's temporal backend cannot
derive from fairness and `ENABLED`. And six of the ten properties of `algorithms`:
`RoutedExactly` and `BeamWidthKept`, whose operators sort, by choosing among
permutations, so that a proof would need that a sorted one exists for any number of
experts or beams; `SampledAllowed` (but for its drafts) and `AttendsOwnContext`,
which compare folds over sets and flattened sequences (the installed provers cannot instantiate the
induction such folds need); `CodesReadBack`, about sums over words of fixed widths
and powers of two; and `LoadedWhole`, whose reference is the enumerated list of
complete checkpoints.

## 6. Where code and documentation differ

Runs with `expect: violation`, each with a finding in `PROJECT.json` that quotes
the line: a failed allocation empties the unreferenced prefix cache
(`doc_failed_allocate`); prefix-aware selection starves uncached requests
(`doc_fairness`); a prompt that is split is never finished, and its answer is
generated from the first part of it (`doc_prompt_computed`).

Cases the models reproduce in which the code does not do what a line of the
repository says; they occur in `algorithms` and are the exceptions of its properties:

| Case | The code | The line |
|---|---|---|
| `CutToNaN` | E4M3 magnitudes from 480 to 511 become NaN: overflow is told by the exponent alone | "overflow, clip to max", "max magnitude is 448" (`cache_ops.cu:40-41`) |
| `GateStranded` | a Qwen2-MoE GGUF file with a shared expert cannot load: its gate is dequantized (`gguf_loader.rs:173`) and then demanded in quantized form (`qwen.rs:961`) | "a Qwen2 or Qwen3 dense or MoE GGUF file" (`runner.rs:225-226`), `README.md:55` |
| `HeadStranded` | a Llama GGUF file with a quantized head is run with the embedding as its head (`llama.rs:266`) | "lm_head is tied with embed_tokens" (`llama.rs:271`), logged of a model whose head is not |
| `ZeroDraw` | a draw of 0 returns token 0 even when it is masked (`sampler.rs:186`) | "Mask out all tokens NOT in the allowed set." (`logits.rs:152`) |
| top-k | the threshold is the (k + 1)-th best logit (`logits.rs:27`) | "Retain only the top-k logits" (`logits.rs:15`) |
| beams | candidates are cut to twice the width before ended ones are set aside; with eos and a stop token live ones are pushed out (`beam_search.rs:222`) | "Number of live hypotheses retained after each decoding step." (`beam_search.rs:12`) |
| `FloatCache` | an F32 model gets an F32 cache (`server.rs:418`), which paged attention refuses at every pass (`layers.rs:1422`) | "F16, BF16, FP8, and INT8 paged KV cache dtypes supported by rLLM" (`docs/deepseek-support.md:24`), and `fp32` at `README.md:241` |

Further differences that the models reproduce and no run is spent on.

*Scheduler and engine.* Preemption takes the request that failed to grow whatever
its priority (`scheduler.rs:380`; `docs/architecture.md:71` says lower-priority
ones). Drafts are scheduled past `max_model_len` and past the budget
(`scheduler.rs:350`, `BudgetOvershoot`). A preempted request re-enters the FCFS
queue behind later arrivals (`policy.rs:13`). `free` keeps the hash of a cached
block (`block_pool.rs:246` says it is removed). A preempted request loses its
runner state, is skipped when it is scheduled again (`model_runner.rs:193`) and
is never answered; one finished by length gets no final output and stays tracked.
After a prefix hit the runner computes from position 0. The bonus token is also
sampled when only the last draft was rejected (`uniproc.rs:349`), computed tokens
count rejected drafts (`:387`), and the tokens returned are not cut at a stop.
`MultiProcExecutor` does not forget aborted requests. A failed executor leaves
hashed blocks that were never computed (`engine_core.rs:147`). Stop strings are
not checked by the engine. `build_attention_metadata` counts a decode with drafts
as one query token.

*Serving.* `output_receiver` "yields `Vec<RequestOutput>` for each engine step"
(`async_engine.rs:87`), but a watch channel keeps only the latest. Commands
drained ahead of a shutdown are dropped. A timed-out or disconnected request is
not aborted. An HTTP stream drops text that does not decode, and with tools ends
normally with no text at all (`server.rs:841-845`), where gRPC fails
(`grpc.rs:200-204`). A named tool choice
is parsed against all tools. Prefix caching is on by default in `README.md:249`
and off in the CLI.

*Text and sampling.* The repetition penalty counts per occurrence, the first listed
stop string wins over an earlier one, cumulative mode shows held-back text, and the cut at
`detokenizer.rs:124-126` may fall inside a character and panic.

*Kernels and models.* No barrier separates the reading of `s_data[0]` from the
next key's writes, and the halving sum loses elements when `head_dim` is not a
power of two (`paged_attention.cu:146-157`). E4M3 subnormals are decoded with the
wrong constant (`cache_ops.cu:58`).
The GPTQ kernel is told the floor of inputs per group. Without CUDA a paged
forward pass attends to the new tokens only, so a draft never verifies there. If
`top_k` exceeds the experts of the chosen groups, masked ones are taken. Numbered
shards are looked for from 0 but numbered from 1 (`loader.rs:520`); only
directories resolve, against `README.md:84`; an unknown architecture is announced
as Llama-compatible and refused; zero heads panic; a device cache that fails to
allocate leaks its earlier layers (`cache_ops.rs:597`).

## 7. Plan

The models cover the system's components, and the safety of the engine's layers and
of the objects around them is proved. What is left to TLC is named at the end of
section 5; the next step there would be a theory of sorting, which `RoutedExactly`
and `BeamWidthKept` both need.

Not modelled, and why:

* fused kernels, RoPE, norms, softmax and the other element-wise arithmetic, and
  the Hessian, Cholesky factor and error feedback of GPTQ: floating-point results
  with no discrete decision to explore;
* the `tokenizers`, Jinja and grammar libraries, HTTP, gRPC and JSON themselves:
  external, represented by their possible answers;
* response formatting, argument parsing, metrics, tracing, benchmarks: no state
  another part depends on;
* `LLMEngine` (sync): it forwards to the engine core;
* `Sequence`, `RequestStatus::can_transition_to` and `full_cache_hit_info`: no
  caller outside tests;
* worker processes: `MultiProcExecutor` is a stand-in that samples in the engine's
  own thread and talks to no process yet, and is modelled as that.
