------------------------------- MODULE Stores -------------------------------
(***************************************************************************)
(* The small containers around the engine: the batch queue                 *)
(* (crates/rllm-engine/src/batch_queue.rs), the CPU store of offloaded KV  *)
(* blocks (crates/rllm-cache/src/offload.rs), the queue of token copies    *)
(* (crates/rllm-worker/src/overlap.rs over crates/rllm-tensor/src/         *)
(* pinned.rs), the split of a batch into prefill and decode (overlap.rs)   *)
(* and the tokenizer pool (crates/rllm-tokenizer/src/pool.rs).  One        *)
(* operator per method.                                                    *)
(***************************************************************************)
EXTENDS Integers, Sequences, FiniteSets, FiniteSetsExt, SequencesExt

-----------------------------------------------------------------------------
(* BatchQueue: [pending, capacity, strategy, size, enqueued, drained].     *)

NewBatchQueue(strategy, size, capacity) ==
    [pending |-> <<>>, capacity |-> capacity, strategy |-> strategy, size |-> size,
     enqueued |-> 0, drained |-> 0]

Full(q) == Len(q.pending) >= q.capacity

Enqueue(q, r) ==
    IF Full(q) THEN q
    ELSE [q EXCEPT !.pending = Append(@, r), !.enqueued = @ + 1]

(* As many as fit: the first that does not ends it.                        *)
EnqueueAll(q, rs) ==
    LET after[i \in 0..Len(rs)] == IF i = 0 THEN q ELSE Enqueue(after[i - 1], rs[i])
    IN  after[Len(rs)]

BatchSize(q) ==
    IF q.strategy = "immediate" THEN 1 ELSE Min({q.size, Len(q.pending)})

Taken(q, n) ==
    [state |-> [q EXCEPT !.pending = SubSeq(@, n + 1, Len(@)), !.drained = @ + n],
     out   |-> SubSeq(q.pending, 1, n)]

(* Neither looks at what is pending: a capacity may be set below it.       *)
SetMaxCapacity(q, capacity) == [q EXCEPT !.capacity = capacity]

SetStrategy(q, strategy, size) == [q EXCEPT !.strategy = strategy, !.size = size]

(* drain waits for nobody, whatever the strategy.                          *)
Drain(q) == IF q.pending = <<>> THEN [state |-> q, out |-> <<>>] ELSE Taken(q, BatchSize(q))

(* drain_all, and clear, which drops them.                                 *)
DrainAll(q) == Taken(q, Len(q.pending))

RemovePending(q, r) ==
    IF r \notin ToSet(q.pending) THEN q
    ELSE [q EXCEPT !.pending = RemoveFirst(@, r), !.drained = @ + 1]

-----------------------------------------------------------------------------
(* CpuKvOffloadStore: [free, slots, storage].  A slot holds a whole block; *)
(* put refuses bytes of another size.                                      *)

NewStore(capacity) ==
    [free    |-> [i \in 1..capacity |-> capacity - i],
     slots   |-> [k \in {} |-> 0],
     storage |-> [s \in 0..(capacity - 1) |-> "zero"]]

PutFails(s, key, sized) == ~sized \/ (key \notin DOMAIN s.slots /\ s.free = <<>>)

(* A faulty put that takes a new slot for a key it already holds.          *)
PutAfresh(s, key, bytes) ==
    [free    |-> IF s.free = <<>> THEN s.free ELSE Front(s.free),
     slots   |-> [k \in DOMAIN s.slots \cup {key} |->
                    IF k = key /\ s.free # <<>> THEN Last(s.free) ELSE s.slots[k]],
     storage |-> [s.storage EXCEPT ![IF s.free = <<>> THEN s.slots[key] ELSE Last(s.free)] =
                    bytes]]

Put(s, key, bytes) ==
    LET known == key \in DOMAIN s.slots
        slot  == IF known THEN s.slots[key] ELSE Last(s.free)
    IN  [free    |-> IF known THEN s.free ELSE Front(s.free),
         slots   |-> [k \in DOMAIN s.slots \cup {key} |-> IF k = key THEN slot ELSE s.slots[k]],
         storage |-> [s.storage EXCEPT ![slot] = bytes]]

Get(s, key) == IF key \in DOMAIN s.slots THEN <<s.storage[s.slots[key]]>> ELSE <<>>

RemoveKey(s, key) ==
    IF key \notin DOMAIN s.slots THEN s
    ELSE [s EXCEPT !.free  = Append(@, s.slots[key]),
                   !.slots = [k \in DOMAIN s.slots \ {key} |-> s.slots[k]]]

Usage(s) == [used |-> Cardinality(DOMAIN s.slots), free |-> Len(s.free)]

-----------------------------------------------------------------------------
(* AsyncTokenOutputQueue: each submitted copy is done by a thread of its   *)
(* own; drain_ready waits for them from the front.                         *)

SubmitCopy(q, tokens) == Append(q, [tokens |-> tokens, done |-> FALSE])

CopyDone(q, i) == [q EXCEPT ![i].done = TRUE]

CanDrain(q) == q # <<>> /\ Head(q).done

-----------------------------------------------------------------------------
(* DualBatchOverlap::plan.  A batch is a sequence of [id, prefill, tokens].*)

NoPlan == [prefill |-> <<>>, decode |-> <<>>, prefillTokens |-> 0, decodeTokens |-> 0]

(* The plan with one more sequence.                                        *)
PlanWith(p, s) ==
    IF s.prefill
    THEN [p EXCEPT !.prefill = Append(@, s.id), !.prefillTokens = @ + s.tokens]
    ELSE [p EXCEPT !.decode = Append(@, s.id), !.decodeTokens = @ + s.tokens]

Plan(batch, enabled) ==
    LET plan[i \in 0..Len(batch)] == IF i = 0 THEN NoPlan ELSE PlanWith(plan[i - 1], batch[i])
    IN  IF ~enabled THEN NoPlan ELSE plan[Len(batch)]

-----------------------------------------------------------------------------
(* AsyncTokenizerPool: encode, decode and batch_encode take the next       *)
(* tokenizer in turn, under the lock.                                      *)

NextTokenizer(index, size) == (index + 1) % size

=============================================================================
