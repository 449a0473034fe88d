------------------------------ MODULE StoreRuns -------------------------------
(***************************************************************************)
(* The containers around the engine under any sequence of calls (Stores,   *)
(* and the scales of GpuKVCache in PagedAttention), and a worker from its  *)
(* arguments to its cache (Startup).                                       *)
(***************************************************************************)
EXTENDS Parts, Stores, Startup, PagedAttention

CONSTANTS
    QueueCases,     \* [strategy, size, capacity] of a batch queue
    MaxArrivals,    \* bound on the requests, copies and texts handed in
    OffloadKeys, OffloadBytes, OffloadSlots,
    PoolSizes,      \* numbers of tokenizers in a pool
    OverlapBatches, \* sequences of [id, prefill, tokens]
    CacheLayers,    \* layers of the cache on the device
    GivenScales,    \* scales its callers may set
    StartupCases,   \* [device, model (dtype), quant, bits, group, kv, seqs, len, shape, configured, env]
    SplitCases      \* [world, total] of the parallel plans

(* Counts and sizes are natural numbers; a pool has a tokenizer, a plan a  *)
(* rank, a block a token; and a worker starts with at least one block.     *)
ASSUME ContainersTyped ==
    /\ \A c \in QueueCases : c.strategy \in STRING /\ c.size \in Nat /\ c.capacity \in Nat
    /\ MaxArrivals \in Nat
    /\ OffloadSlots \in Nat
    /\ PoolSizes \subseteq Nat \ {0}
    /\ OverlapBatches \subseteq Seq([id : Nat, prefill : BOOLEAN, tokens : Nat])
    /\ CacheLayers \in Nat
    /\ GivenScales \subseteq Int

ASSUME CasesTyped ==
    /\ \A c \in StartupCases :
        /\ c.device \in {"cpu", "cuda"} /\ c.model \in {"F16", "BF16", "F32"}
        /\ c.configured \in BOOLEAN
        /\ c.seqs \in Nat /\ c.len \in Nat
        /\ c.shape \in [layers : Nat, blockSize : Nat \ {0}, kvHeads : Nat, headDim : Nat]
        /\ c.env.free \in Nat /\ c.env.total \in Nat /\ c.env.estimate \in Nat /\ c.env.util \in 1..100
        /\ c.env.least \in Nat \ {0} /\ c.env.kMax \in Int /\ c.env.vMax \in Int
    /\ \A c \in SplitCases : c.world \in Nat \ {0} /\ c.total \in Nat

-----------------------------------------------------------------------------
(* The batch queue.  Requests arrive numbered; room is the most that may   *)
(* be pending since the capacity was last set.                             *)

QueueStart(c) ==
    [unit |-> "queue", q |-> NewBatchQueue(c.strategy, c.size, c.capacity), next |-> 1,
     accepted |-> <<>>, out |-> <<>>, removed |-> {}, room |-> c.capacity]

Accepted(q, n) == SubSeq([i \in 1..n |-> st.next + i - 1], 1, q.enqueued - st.q.enqueued)

QueueArrive ==
    /\ st.unit = "queue"
    /\ \E n \in 1..(MaxArrivals - st.next + 1) :
        LET rs == [i \in 1..n |-> st.next + i - 1]
            q == IF n = 1 THEN Enqueue(st.q, st.next) ELSE EnqueueAll(st.q, rs)
        IN  st' = [st EXCEPT !.q = q, !.next = @ + n, !.accepted = @ \o Accepted(q, n)]

QueueDrain ==
    /\ st.unit = "queue"
    /\ \E did \in {Drain(st.q), DrainAll(st.q)} :
        st' = [st EXCEPT !.q = did.state, !.out = @ \o did.out]

QueueRemove ==
    /\ st.unit = "queue"
    /\ \E r \in 1..(st.next - 1) :
        st' = [st EXCEPT !.q = RemovePending(@, r),
                         !.removed = IF r \in ToSet(st.q.pending) THEN @ \cup {r} ELSE @]

QueueConfigure ==
    /\ st.unit = "queue"
    /\ \E c \in QueueCases :
        \/ st' = [st EXCEPT !.q = SetStrategy(@, c.strategy, c.size)]
        \/ st' = [st EXCEPT !.q = SetMaxCapacity(@, c.capacity),
                            !.room = Max({c.capacity, Len(st.q.pending)})]

(* What was handed out, and then what is pending, are the accepted ones    *)
(* that nobody withdrew, in the order of their numbers; nothing is taken   *)
(* in beyond the capacity.                                                 *)
QueueSound ==
    /\ ToSet(st.out \o st.q.pending) = ToSet(st.accepted) \ st.removed
    /\ LET kept == st.out \o st.q.pending
       IN  \A i, j \in DOMAIN kept : i < j => kept[i] < kept[j]
    /\ st.q.enqueued = Len(st.accepted)
    /\ st.q.enqueued = st.q.drained + Len(st.q.pending)
    /\ Len(st.q.pending) <= st.room

-----------------------------------------------------------------------------
(* The offload store against a map.                                        *)

OffloadStart == [unit |-> "offload", s |-> NewStore(OffloadSlots), map |-> [k \in {} |-> 0], refused |-> 0]

OffloadPut ==
    /\ st.unit = "offload"
    /\ \E k \in OffloadKeys, b \in OffloadBytes, sized \in BOOLEAN :
        IF PutFails(st.s, k, sized)
        THEN st' = [st EXCEPT !.refused = IF sized THEN Cardinality(DOMAIN st.map) ELSE @]
        ELSE st' = [st EXCEPT !.s = Put(@, k, b),
                              !.map = [x \in DOMAIN @ \cup {k} |-> IF x = k THEN b ELSE @[x]]]

OffloadRemove ==
    /\ st.unit = "offload"
    /\ \E k \in OffloadKeys :
        st' = [st EXCEPT !.s = RemoveKey(@, k), !.map = [x \in DOMAIN @ \ {k} |-> @[x]]]

OffloadSound ==
    /\ \A k \in OffloadKeys : Get(st.s, k) = IF k \in DOMAIN st.map THEN <<st.map[k]>> ELSE <<>>
    /\ Usage(st.s) = [used |-> Cardinality(DOMAIN st.map), free |-> OffloadSlots - Cardinality(DOMAIN st.map)]
    /\ st.refused \in {0, OffloadSlots}

-----------------------------------------------------------------------------
(* Copies of tokens, finished by their threads in any order; and texts     *)
(* handed to the tokenizers in turn.                                       *)

CopiesStart == [unit |-> "copies", q |-> <<>>, submitted |-> 0, drained |-> <<>>]

CopySubmit ==
    /\ st.unit = "copies" /\ st.submitted < MaxArrivals
    /\ st' = [st EXCEPT !.q = SubmitCopy(@, st.submitted + 1), !.submitted = @ + 1]

CopyFinish ==
    /\ st.unit = "copies"
    /\ \E i \in DOMAIN st.q : ~st.q[i].done /\ st' = [st EXCEPT !.q = CopyDone(@, i)]

CopyDrain ==
    /\ st.unit = "copies" /\ CanDrain(st.q)
    /\ st' = [st EXCEPT !.q = Tail(@), !.drained = Append(@, Head(st.q).tokens)]

CopiesSound ==
    st.drained \o [i \in DOMAIN st.q |-> st.q[i].tokens] = [i \in 1..st.submitted |-> i]

TurnsStart(size) == [unit |-> "turns", size |-> size, index |-> 0, load |-> [i \in 0..(size - 1) |-> 0]]

TakeTurn ==
    /\ st.unit = "turns" /\ SumFunction(st.load) < MaxArrivals
    /\ st' = [st EXCEPT !.load[st.index] = @ + 1, !.index = NextTokenizer(@, st.size)]

TurnsSound == \A i, j \in DOMAIN st.load : st.load[i] <= st.load[j] + 1

-----------------------------------------------------------------------------
(* A step's batch, split into the prefills and the decodes.                *)

SplitStart(batch) == [unit |-> "overlap", batch |-> batch, plan |-> <<>>]

SplitBatch ==
    /\ st.unit = "overlap" /\ st.plan = <<>>
    /\ st' = [st EXCEPT !.plan = <<Plan(st.batch, TRUE)>>]

TotalTokens(batch) ==
    LET sum[i \in 0..Len(batch)] == IF i = 0 THEN 0 ELSE sum[i - 1] + batch[i].tokens
    IN  sum[Len(batch)]

SplitSound ==
    st.plan # <<>> =>
        LET p == st.plan[1]
        IN  /\ \A i \in DOMAIN st.batch :
                 LET s == st.batch[i]
                 IN  s.id \in ToSet(IF s.prefill THEN p.prefill ELSE p.decode)
            /\ Len(p.prefill) + Len(p.decode) = Len(st.batch)
            /\ p.prefillTokens + p.decodeTokens = TotalTokens(st.batch)

-----------------------------------------------------------------------------
(* The scales of the cache on the device.                                  *)

ScalesStart(budget) ==
    [unit |-> "scales", c |-> NewGpuKVCache(CacheLayers, budget), dropped |-> FALSE]

ScalesSet ==
    /\ st.unit = "scales" /\ st.c.ok /\ ~st.dropped
    /\ \/ \E l \in 1..CacheLayers, k, v \in GivenScales :
            st' = [st EXCEPT !.c = SetKvScales(@, l, k, v)]
       \/ \E n \in 0..CacheLayers :
            \E ks \in [1..n -> GivenScales], vs \in [1..CacheLayers -> GivenScales] :
                st' = [st EXCEPT !.c = SetAllKvScales(@, ks, vs)]

ScalesDrop ==
    /\ st.unit = "scales" /\ st.c.ok /\ ~st.dropped
    /\ st' = [st EXCEPT !.c = DropCache(@), !.dropped = TRUE]

ScalesSound ==
    /\ \A l \in 1..CacheLayers : st.c.kScales[l] > 0 /\ st.c.vScales[l] > 0
    /\ st.c.ok => st.c.held = IF st.dropped THEN 0 ELSE 2 * CacheLayers

(* The containers keep what they are given: the batch queue hands out, in  *)
(* order, all it accepted and nobody withdrew; the offload store is a map  *)
(* that refuses only when full and loses no slot; copies are drained in    *)
(* the order they were submitted in, however their threads finish; the     *)
(* turns of the tokenizers are even; a batch is split without loss; and    *)
(* no call leaves a scale of the device cache that is not positive, and a  *)
(* cache that came up frees all it holds.                                  *)
StoresExact ==
    /\ st.unit = "queue"   => QueueSound
    /\ st.unit = "offload" => OffloadSound
    /\ st.unit = "copies"  => CopiesSound
    /\ st.unit = "turns"   => TurnsSound
    /\ st.unit = "overlap" => SplitSound
    /\ st.unit = "scales"  => ScalesSound

-----------------------------------------------------------------------------
(* From arguments to a worker with a cache.                                *)

StartupStart(c) == [unit |-> "startup", case |-> c, phase |-> "new", w |-> NewWorker(c.device), handed |-> 0]

ParsedQuant(c) == ParseQuantization(c.quant, c.bits, c.group)

CacheSpec(c) ==
    [layers |-> c.shape.layers, blockSize |-> c.shape.blockSize,
     kvHeads |-> c.shape.kvHeads, headDim |-> c.shape.headDim,
     dtype |-> CacheDtype(c.kv, ParsedQuant(c).config, c.model)]

MaxBlocksOf(c) == NumCacheBlocks(c.seqs, c.len, c.shape.blockSize)

Configs(c) ==
    IF c.configured THEN <<[spec |-> CacheSpec(c), blocks |-> MaxBlocksOf(c)]>> ELSE <<>>

StartWorker ==
    /\ st.unit = "startup" /\ st.phase = "new"
    /\ LET c == st.case
           did == Initialize(st.w, Configs(c), c.env)
       IN  IF ~ParsedQuant(c).ok \/ did = <<>> THEN st' = [st EXCEPT !.phase = "refused"]
           ELSE st' = [st EXCEPT !.phase = "up", !.w = did[1].worker, !.handed = did[1].blocks]

WorkerSleep ==
    /\ st.unit = "startup" /\ st.phase = "up"
    /\ \E level \in 1..2 : st' = [st EXCEPT !.phase = "asleep", !.w = Sleep(@, level)]

WorkerWake ==
    /\ st.unit = "startup" /\ st.phase = "asleep"
    /\ st' = [st EXCEPT !.phase = "woken", !.w = WakeUp(@)]

(* The dtypes of which PagedAttentionOp reads a cache.                     *)
PagedDtypes == {"F16", "BF16", "FP8E4M3", "FP8E5M2", "INT8"}

(* An F32 model served as it is, with the dtype of the cache left to it:   *)
(* the worker comes up, and attention refuses the cache at every pass      *)
(* (layers.rs:1422-1426).                                                  *)
FloatCache(c) == c.model = "F32" /\ ParsedQuant(c).config = <<>> /\ c.kv \notin PagedDtypes

StartupSound ==
    LET c == st.case
        spec == CacheSpec(c)
        seen == MemorySeen(c.env)
        share == (seen.total * c.env.util) \div 100
        used == seen.total - seen.free
    IN  st.phase \in {"up", "asleep", "woken"} =>
             /\ ~c.configured => st.handed = 0 /\ st.w.cache = <<>>
             /\ c.configured =>
                  /\ ~FloatCache(c) => spec.dtype \in PagedDtypes
                  /\ st.handed \in 1..MaxBlocksOf(c)
                  /\ c.device = "cuda" =>
                       /\ st.handed * BytesPerBlock(spec) + used <= share
                       /\ st.handed >= c.env.least /\ c.env.modelOnCuda
                       /\ st.handed <= BlocksFromMemory(spec, seen.total, used, 0, c.env.util)
             /\ st.w.cache # <<>> => st.w.cache[1].blocks = st.handed
             /\ Calibrates(st.w) => /\ st.w.scales # <<>>
                                      /\ st.w.scales[1].k > 0 /\ st.w.scales[1].v > 0

(* The parallel plans: who has which heads, layers and requests.           *)
SplitsStart(c) == [unit |-> "ranks", case |-> c, ranges |-> <<>>]

SplitRanks ==
    /\ st.unit = "ranks" /\ st.ranges = <<>>
    /\ st' = [st EXCEPT !.ranges = [r \in 1..st.case.world |-> ShardRange(st.case.world, r - 1, st.case.total)]]

RanksSound ==
    st.ranges # <<>> =>
        LET c == st.case
        IN  /\ UNION ToSet(st.ranges) = 0..(c.total - 1)
            /\ \A i, j \in 1..c.world :
                 /\ i # j => st.ranges[i] \cap st.ranges[j] = {}
                 /\ Cardinality(st.ranges[i]) <= Cardinality(st.ranges[j]) + 1
            /\ \A h \in 0..9 : Cardinality({r \in 0..(c.world - 1) : OwnsRequest(c.world, r, h)}) = 1
            /\ \A active \in 0..c.total : AdmitsAdapter(active, c.world, c.total) => active + 1 <= Min({c.world, c.total})
            /\ OffloadCapacity(c.total, c.world) * c.world <= c.total

(* A worker that comes up has a cache of a dtype the paged attention reads *)
(* (unless it serves an F32 model as it is), whose blocks fit, with what   *)
(* is in use already, into its share of the memory the driver reported (of *)
(* the fixed estimate, when the driver did not answer), and whose INT8     *)
(* scales are set; the scheduler gets no more blocks than it has, and none *)
(* when no cache was configured.  Every head, layer and request belongs to *)
(* exactly one rank.                                                       *)
CacheFits ==
    /\ st.unit = "startup" => StartupSound
    /\ st.unit = "ranks" => RanksSound

StoreInit ==
    \/ \E c \in QueueCases : st = QueueStart(c)
    \/ st = OffloadStart
    \/ st = CopiesStart
    \/ \E n \in PoolSizes : st = TurnsStart(n)
    \/ \E b \in OverlapBatches : st = SplitStart(b)
    \/ \E budget \in 0..(2 * CacheLayers) : st = ScalesStart(budget)
    \/ \E c \in StartupCases : st = StartupStart(c)
    \/ \E c \in SplitCases : st = SplitsStart(c)

StoreNext ==
    \/ QueueArrive \/ QueueDrain \/ QueueRemove \/ QueueConfigure
    \/ OffloadPut \/ OffloadRemove
    \/ CopySubmit \/ CopyFinish \/ CopyDrain
    \/ TakeTurn
    \/ SplitBatch
    \/ ScalesSet \/ ScalesDrop
    \/ StartWorker \/ WorkerSleep \/ WorkerWake
    \/ SplitRanks

=============================================================================
