--------------------------- MODULE AttentionRuns ----------------------------
(***************************************************************************)
(* A model over some sequences, each with a block table, which get a       *)
(* prefill and then decodes, in any batches, on one of the paths attention *)
(* can take (PagedAttention).  What is read is compared with the           *)
(* sequence's own context.                                                 *)
(***************************************************************************)
EXTENDS Parts, PagedAttention

CONSTANTS
    AttentionCases,     \* [g, path, tables, shared, scale]
    BlockCases,         \* [dim, keys] for a block of threads
    MaxContext,         \* bound on the tokens of a sequence
    MaxChunk            \* bound on the tokens of a prefill

(* The token at a position; sequences that share blocks share their        *)
(* tokens.                                                                 *)
TokenAt(c, s, p) == IF p < c.shared THEN <<0, p>> ELSE <<s, p>>

RowAt(c, s, p) == Row(TokenAt(c, s, p), c.g)

AttentionStart(c) ==
    [unit |-> "attention", case |-> c, lens |-> [s \in DOMAIN c.tables |-> 0],
     tables |-> c.tables, cache |-> NewCache(c.g),
     eager |-> [s \in DOMAIN c.tables |-> <<<<>>, <<>>>>],
     out |-> <<>>, want |-> <<>>, errors |-> {}, copied |-> FALSE]

(* The sequences of a batch, those that prefill first.                     *)
Batch(n) ==
    LET of(pre) == SetToSortSeq({s \in DOMAIN n : n[s] > 0 /\ (st.lens[s] = 0) = pre}, <)
    IN  of(TRUE) \o of(FALSE)

Described(n) ==
    [i \in 1..Len(Batch(n)) |->
        LET s == Batch(n)[i]
        IN  [len |-> st.lens[s] + n[s], tokens |-> n[s], table |-> st.tables[s],
             prefill |-> st.lens[s] = 0]]

NewRows(n) ==
    FlattenSeq([i \in 1..Len(Batch(n)) |->
        LET s == Batch(n)[i] IN [j \in 1..n[s] |-> RowAt(st.case, s, st.lens[s] + j - 1)]])

(* What the tokens of a batch must read: the keys of the positions up to   *)
(* their own, within the window, of the KV head their query head shares.   *)
Reference(n, window) ==
    LET c == st.case
        queries == FlattenSeq([i \in 1..Len(Batch(n)) |->
                        LET s == Batch(n)[i] IN [j \in 1..n[s] |-> <<s, st.lens[s] + j - 1>>]])
        first(p) == IF window = 0 THEN 0 ELSE Max({0, p + 1 - window})
    IN  [token \in 0..(Len(queries) - 1), q \in 0..(c.g.heads - 1) |->
            LET s == queries[token + 1][1]
                p == queries[token + 1][2]
            IN  [k \in 1..(p + 1 - first(p)) |->
                    RowAt(c, s, first(p) + k - 1)[(q * c.g.kvHeads) \div c.g.heads]]]

(* One pass on the path of the case.                                       *)
HostPass(n, layout, window) ==
    LET g == st.case.g
        m == BuildAttentionMetadata(Described(n), g.block)
        cache == WriteKvHost(st.cache, layout, NewRows(n), m.slots, g)
    IN  [cache |-> cache, ok |-> OracleSupports(g),
         out |-> RunHost(cache, layout, FromAttentionMetadata(m, g.block), window, g)]

PagedPass(n, mla, dtype) ==
    LET g == st.case.g
        m == BuildAttentionMetadata(Described(n), g.block)
    IN  IF mla THEN MlaForwardPaged(TRUE, st.cache, m, NewRows(n), dtype, st.case.scale, g)
        ELSE ForwardPaged(TRUE, TRUE, st.cache, m, NewRows(n), dtype, st.case.scale, g)

(* Without pages every sequence is passed on its own.                      *)
EagerPass(n, s, mla) ==
    LET rows == [j \in 1..n[s] |-> RowAt(st.case, s, st.lens[s] + j - 1)]
        positions == [j \in 1..n[s] |-> st.lens[s] + j - 1]
        one == MlaForward(st.eager[s][1], rows, positions, st.case.g)
    IN  IF mla THEN [ok |-> one.ok, caches |-> <<one.cache, one.cache>>, out |-> one.out]
        ELSE EagerModel(st.eager[s], rows, st.case.g)

(* The metadata the batch is described by, and what is wrong with it.      *)
MetadataFaults(n) ==
    LET g == st.case.g
        m == BuildAttentionMetadata(Described(n), g.block)
        w == ForDecodeWithOptions(m.seqLens, m.tables, m.maxBlocks, m.common, 2)
        widths == [i \in 1..Len(m.seqLens) |->
                    SlidingWindowRanges(w)[i][2] - SlidingWindowRanges(w)[i][1]]
        pair(s, p) == <<st.tables[s][(p \div g.block) + 1], p % g.block>>
        pairs == FlattenSeq([i \in 1..Len(Batch(n)) |->
                    LET s == Batch(n)[i] IN [j \in 1..n[s] |-> pair(s, st.lens[s] + j - 1)]])
        alone == Len(Batch(n)) = 1 /\ st.lens[Batch(n)[1]] = 0
    IN  {f \in {"error", "count", "slots", "window", "prefix", "fallback"} :
            CASE f = "error"    -> MetadataErrorOf(m, g.block) # "none"
              [] f = "count"    -> NumTokens(m) # Len(NewRows(n))
              [] f = "slots"    -> m.slots # ComputeSlots(pairs, g.block)
              [] f = "window"   -> FoldLeft(LAMBDA a, b : a + b, 0, widths) # NumWindowTokens(w)
              [] f = "prefix"   -> \E i \in 1..Len(m.tables) :
                                      SubSeq(m.tables[i], 1, m.common) # SubSeq(m.tables[1], 1, m.common)
              [] f = "fallback" -> alone /\ OracleSupports(g)
                                         /\ ForwardPagedFallback(NewRows(n), g) # Reference(n, 0)}

AttentionPaged(n) ==
    LET path == st.case.path
        did == IF path.kind = "host" THEN HostPass(n, path.layout, path.window)
               ELSE PagedPass(n, path.kind = "mla", path.dtype)
    IN  st' = [st EXCEPT !.lens = [s \in DOMAIN n |-> @[s] + n[s]], !.cache = did.cache,
                         !.out = did.out, !.errors = MetadataFaults(n) \cup (IF did.ok THEN {} ELSE {"failed"}),
                         !.want = Reference(n, IF path.kind = "host" THEN path.window ELSE 0)]

AttentionEager(n) ==
    LET s == Batch(n)[1]
        did == EagerPass(n, s, st.case.path.mla)
    IN  st' = [st EXCEPT !.lens[s] = @ + n[s], !.eager[s] = did.caches, !.out = did.out,
                         !.errors = IF did.ok THEN {} ELSE {"failed"}, !.want = Reference(n, 0)]

(* A step of the engine: a batch of prefills and single decodes.           *)
AttentionStep ==
    /\ st.unit = "attention"
    /\ \E n \in [DOMAIN st.lens -> 0..MaxChunk] :
        /\ \E s \in DOMAIN n : n[s] > 0
        /\ \A s \in DOMAIN n : /\ st.lens[s] + n[s] <= MaxContext
                               /\ st.lens[s] > 0 => n[s] <= 1
        /\ IF st.case.path.kind = "eager" THEN Len(Batch(n)) = 1 /\ AttentionEager(n)
           ELSE AttentionPaged(n)

(* A sequence is moved off a block: the block is copied and its entry in   *)
(* the table replaced.                                                     *)
AttentionCopy ==
    /\ st.unit = "attention" /\ ~st.copied /\ st.case.path.kind # "eager"
    /\ \E s \in DOMAIN st.tables, i \in 1..2, b \in 0..(st.case.g.blocks - 1) :
        /\ \A t \in DOMAIN st.tables : b \notin ToSet(st.tables[t])
        /\ st' = [st EXCEPT !.cache = CopyBlock(@, st.tables[s][i], b, st.case.g),
                            !.tables[s][i] = b, !.copied = TRUE]

-----------------------------------------------------------------------------
(* The threads of one block, in any order the barriers allow.              *)

BlockStart(c) == [unit |-> "threads", block |-> NewBlock(c.dim, c.keys)]

BlockStep ==
    /\ st.unit = "threads"
    /\ \E t \in DOMAIN st.block.threads :
        MayStep(st.block, t) /\ st' = [st EXCEPT !.block = ThreadStep(@, t)]

(* Nobody waits for ever, the first thread always reads the whole product, *)
(* and so does another as long as the first has not gone on to the next    *)
(* key; for a power of two, which the halving needs.                       *)
LogitsExact ==
    LET b == st.block
        whole(k) == {k} \X (0..(b.dim - 1))
        power == \E n \in 0..4 : b.dim = 2 ^ n
    IN  /\ \A t \in DOMAIN b.threads : b.threads[t].pc # "done" => \E u \in DOMAIN b.threads : MayStep(b, u)
        /\ power => \A k \in DOMAIN b.threads[0].logits : b.threads[0].logits[k] = whole(k)
        /\ power => \A t \in DOMAIN b.threads :
                       LET th == b.threads[t]
                       IN  th.pc = "logit" /\ MayStep(b, t) /\ b.threads[0].key = th.key
                             => b.shared[0] = whole(th.key)

(* Every pass, on every path, with every layout and cache dtype and for    *)
(* batches of prefills and decodes of one token (not the verification of   *)
(* drafts, whose metadata count one query), reads for each query head      *)
(* exactly the keys of its own sequence up to its own position, whatever   *)
(* was written by others; the metadata of the batch is accepted and        *)
(* consistent; and the threads of a kernel add up whole products as far as *)
(* its barriers reach.                                                     *)
AttendsOwnContext ==
    /\ st.unit = "attention" => st.out = st.want /\ st.errors = {}
    /\ st.unit = "threads" => LogitsExact

AttentionInit ==
    \/ \E c \in AttentionCases : st = AttentionStart(c)
    \/ \E c \in BlockCases : st = BlockStart(c)

AttentionNext == AttentionStep \/ AttentionCopy \/ BlockStep

=============================================================================
