--------------------------- MODULE PagedAttention ---------------------------
(***************************************************************************)
(* Attention over a paged KV cache: the metadata of a batch                *)
(* (crates/rllm-worker/src/model_runner.rs, crates/rllm-kernels/src/       *)
(* attention.rs and backend/metadata.rs), the cache and its writes         *)
(* (cache_ops.rs, cuda/cache_ops.cu), the reads of the host oracle         *)
(* (backend/cpu_ref.rs) and of the CUDA kernels (cuda/paged_attention.cu), *)
(* and the eager attention of crates/rllm-model/src/layers.rs they must    *)
(* agree with.                                                             *)
(*                                                                         *)
(* What attention computes is abstracted to what it reads: the output of a *)
(* query head is the sequence of the key vectors it weighs, in order.  The *)
(* value vectors are written and read at the same offsets.  A vector is a  *)
(* function from the dimension to the element stored, and an element is    *)
(* the place it comes from, <<token, head, dimension>>; a cell never       *)
(* written holds <<>>.  A geometry g is a record [heads, kvHeads, dim,     *)
(* block, blocks].                                                         *)
(***************************************************************************)
EXTENDS Kernels, Sequences, FiniteSets, FiniteSetsExt, SequencesExt, Functions

-----------------------------------------------------------------------------
(* The cache of one layer.                                                 *)

Offset(layout, b, s, h, d, g) ==
    CASE layout = "legacy" -> ((b * g.kvHeads + h) * g.dim + d) * g.block + s
      [] layout = "nhd"    -> ((b * g.block + s) * g.kvHeads + h) * g.dim + d
      [] layout = "hnd"    -> ((b * g.kvHeads + h) * g.block + s) * g.dim + d

Cells(g) == g.blocks * g.kvHeads * g.dim * g.block

NewCache(g) == [i \in 0..(Cells(g) - 1) |-> <<>>]

(* The vectors a token brings, one for each KV head.                       *)
Row(token, g) == [h \in 0..(g.kvHeads - 1) |-> [d \in 0..(g.dim - 1) |-> <<token, h, d>>]]

(* A faulty write that takes the last offset of a block for the one before.*)
WriteTokenShifted(cache, layout, row, slot, g) ==
    LET offset == IF slot % g.block = g.block - 1 /\ g.block > 1 THEN g.block - 2 ELSE slot % g.block
        cell(h, d) == Offset(layout, slot \div g.block, offset, h, d, g)
        new == [h \in DOMAIN row, d \in 0..(g.dim - 1) |-> cell(h, d)]
    IN  IF slot < 0 THEN cache
        ELSE [i \in DOMAIN cache |->
                IF \E at \in DOMAIN new : new[at] = i
                THEN LET at == CHOOSE at \in DOMAIN new : new[at] = i IN row[at[1]][at[2]]
                ELSE cache[i]]

(* A negative slot is padding; a block beyond the cache is not written.    *)
WriteToken(cache, layout, row, slot, g) ==
    LET cell(h, d) == Offset(layout, slot \div g.block, slot % g.block, h, d, g)
        new == [h \in DOMAIN row, d \in 0..(g.dim - 1) |-> cell(h, d)]
    IN  IF slot < 0 THEN cache
        ELSE [i \in DOMAIN cache |->
                IF \E at \in DOMAIN new : new[at] = i
                THEN LET at == CHOOSE at \in DOMAIN new : new[at] = i IN row[at[1]][at[2]]
                ELSE cache[i]]

WriteKvHost(cache, layout, rows, slots, g) ==
    FoldLeft(LAMBDA c, t : WriteToken(c, layout, rows[t], slots[t], g),
             cache, [t \in 1..Len(slots) |-> t])

(* What a cache of some dtype stores of an element, and what a kernel that *)
(* takes the cache to be of some dtype makes of what it finds.             *)
Encoded(row, enc) == [h \in DOMAIN row |-> [d \in DOMAIN row[h] |-> <<enc, row[h][d]>>]]

Decoded(vector, enc) ==
    [d \in DOMAIN vector |->
        IF vector[d] = <<>> THEN <<>>
        ELSE IF vector[d][1] = enc THEN vector[d][2] ELSE <<"garbage">>]

(* cache_write_kernel: the oracle's write on the kernels' own layout.      *)
WriteKvKernel(cache, rows, slots, enc, g) ==
    LET kept == [t \in 1..Len(slots) |-> IF slots[t] \div g.block >= g.blocks THEN -1 ELSE slots[t]]
    IN  WriteKvHost(cache, "legacy", [t \in 1..Len(rows) |-> Encoded(rows[t], enc)], kept, g)

CacheWriteF16(cache, rows, slots, g) == WriteKvKernel(cache, rows, slots, <<"f16">>, g)

CacheWriteFp8(cache, rows, slots, e5m2, g) == WriteKvKernel(cache, rows, slots, <<"fp8", e5m2>>, g)

CacheWriteI8(cache, rows, slots, scale, g) == WriteKvKernel(cache, rows, slots, <<"int8", scale>>, g)

CopyBlock(cache, src, dst, g) ==
    LET width == g.kvHeads * g.dim * g.block
    IN  [i \in DOMAIN cache |->
            IF i \div width = dst THEN cache[src * width + (i % width)] ELSE cache[i]]

ReadVector(cache, layout, b, s, h, g) ==
    [d \in 0..(g.dim - 1) |-> cache[Offset(layout, b, s, h, d, g)]]

-----------------------------------------------------------------------------
(* The KV head of a query head: in the kernels and in the oracle.          *)

KvHeadForQHead(q, g) == (q * g.kvHeads) \div g.heads

OracleKvHead(q, g) == q \div (g.heads \div g.kvHeads)

OracleSupports(g) == g.dim # 0 /\ g.kvHeads # 0 /\ g.heads % g.kvHeads = 0

-----------------------------------------------------------------------------
(* AttentionMetadata, and the batch it is built from: a sequence of        *)
(* records [len, tokens, table, prefill] with len the total KV length and  *)
(* tokens the new tokens of the sequence.                                  *)

CumulativeSum(s) ==
    LET sum[i \in 0..Len(s)] == IF i = 0 THEN 0 ELSE sum[i - 1] + s[i]
    IN  [i \in 1..(Len(s) + 1) |-> sum[i - 1]]

NewMetadata ==
    [seqLens |-> <<>>, qsl |-> <<0>>, tables |-> <<>>, slots |-> <<>>,
     prefill |-> 0, decode |-> 0, maxBlocks |-> 0, common |-> 0, window |-> 0]

ForDecode(lens, tables, maxBlocks) ==
    [NewMetadata EXCEPT !.seqLens = lens, !.qsl = [i \in 1..(Len(lens) + 1) |-> i - 1],
                        !.tables = tables, !.decode = Len(lens), !.maxBlocks = maxBlocks]

(* window 0 stands for None.                                               *)
ForDecodeWithOptions(lens, tables, maxBlocks, common, window) ==
    [ForDecode(lens, tables, maxBlocks) EXCEPT !.common = common, !.window = window]

ForPrefill(lens, counts, tables, maxBlocks) ==
    [NewMetadata EXCEPT !.seqLens = lens, !.qsl = CumulativeSum(counts), !.tables = tables,
                        !.prefill = Last(CumulativeSum(counts)), !.maxBlocks = maxBlocks]

NumTokens(m) == m.prefill + m.decode

(* Row major, padded with -1 and cut at max_num_blocks_per_seq.            *)
FlattenBlockTables(m) ==
    [i \in 0..(Len(m.seqLens) * m.maxBlocks - 1) |->
        LET row == m.tables[(i \div m.maxBlocks) + 1]
            col == (i % m.maxBlocks) + 1
        IN  IF col <= Len(row) THEN row[col] ELSE -1]

DetectCommonPrefixBlocks(tables) ==
    LET n(a, b) == Max({k \in 0..Min({Len(a), Len(b)}) : SubSeq(a, 1, k) = SubSeq(b, 1, k)})
    IN  IF Len(tables) < 2 THEN 0
        ELSE Min({n(tables[1], tables[i]) : i \in 2..Len(tables)})

SlidingWindowRanges(m) ==
    [i \in 1..Len(m.seqLens) |->
        IF m.window = 0 \/ m.seqLens[i] <= m.window THEN <<0, m.seqLens[i]>>
        ELSE <<m.seqLens[i] - m.window, m.seqLens[i]>>]

NumWindowTokens(m) ==
    FoldLeft(LAMBDA n, len : n + (IF m.window = 0 THEN len ELSE Min({len, m.window})),
             0, m.seqLens)

(* compute_slot_mappings: -1 past the block table.                         *)
ComputeSlotMappings(positions, table, block) ==
    [i \in 1..Len(positions) |->
        IF positions[i] \div block < Len(table)
        THEN table[(positions[i] \div block) + 1] * block + (positions[i] % block)
        ELSE -1]

NewPositions(s) == [j \in 1..s.tokens |-> s.len - s.tokens + j - 1]

BatchSlots(batch, block) ==
    FlattenSeq([i \in 1..Len(batch) |->
                    ComputeSlotMappings(NewPositions(batch[i]), batch[i].table, block)])

(* Every decoding sequence counts as one query token, whatever drafts it   *)
(* has; the slots keep the order of the batch.                             *)
BuildAttentionMetadata(batch, block) ==
    LET pre == SelectSeq(batch, LAMBDA s : s.prefill)
        dec == SelectSeq(batch, LAMBDA s : ~s.prefill)
        field(ss, F(_)) == [i \in 1..Len(ss) |-> F(ss[i])]
        Length(s) == s.len
        Table(s)  == s.table
        Count(s)  == s.tokens
        blocks == Max({0} \cup {Len(batch[i].table) : i \in 1..Len(batch)})
        slots == BatchSlots(batch, block)
        tables == field(pre \o dec, Table)
        counts == field(pre, Count) \o field(dec, LAMBDA s : 1)
    IN  CASE batch = <<>> -> NewMetadata
          [] batch # <<>> /\ pre = <<>> ->
                [ForDecode(field(dec, Length), tables, blocks) EXCEPT !.slots = slots]
          [] batch # <<>> /\ dec = <<>> ->
                [ForPrefill(field(pre, Length), field(pre, Count), tables, blocks)
                    EXCEPT !.slots = slots]
          [] pre # <<>> /\ dec # <<>> ->
                [NewMetadata EXCEPT !.seqLens = field(pre \o dec, Length),
                                    !.qsl = CumulativeSum(counts), !.tables = tables,
                                    !.slots = slots, !.decode = Len(dec),
                                    !.prefill = Last(CumulativeSum(field(pre, Count))),
                                    !.maxBlocks = blocks,
                                    !.common = DetectCommonPrefixBlocks(tables)]

-----------------------------------------------------------------------------
(* StepMetadata: the batch in CSR form, or the first error met.            *)

MetadataErrorOf(m, block) ==
    LET n == Len(m.seqLens)
        qLen(i) == m.qsl[i + 1] - m.qsl[i]
        needed(i) == Ceil(m.seqLens[i], block)
        bad(i) == CASE qLen(i) > m.seqLens[i] -> "query_longer"
                    [] qLen(i) <= m.seqLens[i] /\ Len(m.tables[i]) < needed(i) -> "few_blocks"
                    [] OTHER -> IF \E k \in 1..needed(i) : m.tables[i][k] < 0
                                THEN "negative_block" ELSE "none"
        firstBad == SelectSeq([i \in 1..n |-> bad(i)], LAMBDA e : e # "none")
    IN  IF block = 0 THEN "block_size"
        ELSE IF Len(m.qsl) # n + 1 THEN "qsl_length"
        ELSE IF Head(m.qsl) # 0 THEN "qsl_start"
        ELSE IF Len(m.tables) # n THEN "tables_length"
        ELSE IF \E i \in 1..n : qLen(i) < 0 THEN "qsl_order"
        ELSE IF firstBad # <<>> THEN Head(firstBad)
        ELSE "none"

FromAttentionMetadata(m, block) ==
    LET n == Len(m.seqLens)
        needed == [i \in 1..n |-> Ceil(m.seqLens[i], block)]
        qLens == [i \in 1..n |-> m.qsl[i + 1] - m.qsl[i]]
    IN  [base |-> m, qo |-> m.qsl, kv |-> CumulativeSum(needed),
         pages |-> FlattenSeq([i \in 1..n |-> SubSeq(m.tables[i], 1, needed[i])]),
         lastPage |-> [i \in 1..n |-> IF m.seqLens[i] = 0 THEN 0
                                      ELSE ((m.seqLens[i] - 1) % block) + 1],
         maxQ |-> Max({0} \cup ToSet(qLens)), maxKv |-> Max({0} \cup ToSet(m.seqLens)),
         pureDecode |-> \A i \in 1..n : qLens[i] = 1]

-----------------------------------------------------------------------------
(* The reads.  Each gives, for a query token of the batch and a query      *)
(* head, the vectors it weighs.                                            *)

(* run_host, with window 0 for none.                                       *)
RunHost(cache, layout, sm, window, g) ==
    [token \in 0..(Last(sm.qo) - 1), q \in 0..(g.heads - 1) |->
        LET seq == CHOOSE i \in 1..Len(sm.base.seqLens) :
                        sm.qo[i] <= token /\ token < sm.qo[i + 1]
            pos == sm.base.seqLens[seq] - (sm.qo[seq + 1] - sm.qo[seq]) + token - sm.qo[seq]
            start == IF window = 0 \/ pos + 1 <= window THEN 0 ELSE pos + 1 - window
            page(p) == sm.pages[sm.kv[seq] + (p \div g.block) + 1]
        IN  [k \in 1..(pos + 1 - start) |->
                LET p == start + k - 1
                IN  ReadVector(cache, layout, page(p), p % g.block, OracleKvHead(q, g), g)]]

(* What a kernel reads of the first n positions of the sequence of row i   *)
(* of the flat table: a negative block is skipped.                         *)
KernelReads(cache, flat, i, n, maxBlocks, q, enc, g) ==
    LET block(b) == flat[i * maxBlocks + b]
        read(b) == [k \in 1..(Min({(b + 1) * g.block, n}) - b * g.block) |->
                        Decoded(ReadVector(cache, "legacy", block(b), k - 1, KvHeadForQHead(q, g), g), enc)]
    IN  FlattenSeq([b \in 1..Ceil(n, g.block) |-> IF block(b - 1) < 0 THEN <<>> ELSE read(b - 1)])

DecodeKernel(cache, m, enc, g) ==
    [token \in 0..(Len(m.seqLens) - 1), q \in 0..(g.heads - 1) |->
        KernelReads(cache, FlattenBlockTables(m), token, m.seqLens[token + 1], m.maxBlocks, q,
                    enc, g)]

PrefillKernel(cache, m, tokens, enc, g) ==
    [token \in 0..(tokens - 1), q \in 0..(g.heads - 1) |->
        LET seq == Max({i \in 1..Len(m.seqLens) : m.qsl[i] <= token})
            position == token - m.qsl[seq]
            prefix == m.seqLens[seq] - (m.qsl[seq + 1] - m.qsl[seq])
        IN  KernelReads(cache, FlattenBlockTables(m), seq - 1, prefix + position + 1,
                        m.maxBlocks, q, enc, g)]

-----------------------------------------------------------------------------
(* A block of threads of a kernel, one for each dimension, that makes the  *)
(* logits of some keys.  A shared cell holds the set of products added up  *)
(* in it.  A thread runs on its own between two barriers: it waits until   *)
(* all have arrived as often as it has.                                    *)

NewBlock(dim, keys) ==
    [dim |-> dim, keys |-> keys, shared |-> [t \in 0..(dim - 1) |-> {}],
     threads |-> [t \in 0..(dim - 1) |->
                    [pc |-> "product", key |-> 1, stride |-> 0, arrived |-> 0, logits |-> <<>>]]]

MayStep(b, t) ==
    /\ b.threads[t].pc # "done"
    /\ \A u \in DOMAIN b.threads : b.threads[u].arrived >= b.threads[t].arrived

(* The halving sum; a stride of 0 ends it.                                 *)
Halved(th, stride) ==
    [th EXCEPT !.stride = stride, !.arrived = @ + 1, !.pc = IF stride = 0 THEN "logit" ELSE "sum"]

(* The product, a round of the sum, or the read of the logit.  No barrier  *)
(* stands between the read and the product of the next key.                *)
ThreadStep(b, t) ==
    LET th == b.threads[t]
        adds == t < th.stride /\ t + th.stride < b.dim
        read == [th EXCEPT !.logits = Append(@, b.shared[0]), !.key = @ + 1,
                           !.pc = IF th.key = b.keys THEN "done" ELSE "product"]
    IN  CASE th.pc = "product" -> [b EXCEPT !.shared[t] = {<<th.key, t>>},
                                            !.threads[t] = Halved(th, (b.dim + 1) \div 2)]
          [] th.pc = "sum"     -> [b EXCEPT !.shared[t] = IF adds THEN @ \cup b.shared[t + th.stride] ELSE @,
                                            !.threads[t] = Halved(th, th.stride \div 2)]
          [] th.pc = "logit"   -> [b EXCEPT !.threads[t] = read]

-----------------------------------------------------------------------------
(* The kernels of each cache dtype.                                        *)

DecodeF16(cache, m, g)        == DecodeKernel(cache, m, <<"f16">>, g)
DecodeFp8(cache, m, e5m2, g)  == DecodeKernel(cache, m, <<"fp8", e5m2>>, g)
DecodeI8(cache, m, scale, g)  == DecodeKernel(cache, m, <<"int8", scale>>, g)
PrefillF16(cache, m, n, g)       == PrefillKernel(cache, m, n, <<"f16">>, g)
PrefillFp8(cache, m, n, e5m2, g) == PrefillKernel(cache, m, n, <<"fp8", e5m2>>, g)
PrefillI8(cache, m, n, scale, g) == PrefillKernel(cache, m, n, <<"int8", scale>>, g)

(* PagedAttentionOp::cuda_fwd, by the dtype of the cache: the write, then  *)
(* the read; a failed write reads nothing and leaves no answer.            *)
OpF16(cache, m, rows, prefill, g) ==
    LET c == CacheWriteF16(cache, rows, m.slots, g)
    IN  [cache |-> c, out |-> IF prefill THEN PrefillF16(c, m, Len(rows), g) ELSE DecodeF16(c, m, g)]

OpFp8(cache, m, rows, prefill, e5m2, g) ==
    LET c == CacheWriteFp8(cache, rows, m.slots, e5m2, g)
    IN  [cache |-> c, out |-> IF prefill THEN PrefillFp8(c, m, Len(rows), e5m2, g)
                              ELSE DecodeFp8(c, m, e5m2, g)]

OpI8(cache, m, rows, prefill, scale, g) ==
    LET c == CacheWriteI8(cache, rows, m.slots, scale, g)
    IN  [cache |-> c, out |-> IF prefill THEN PrefillI8(c, m, Len(rows), scale, g)
                              ELSE DecodeI8(c, m, scale, g)]

PagedAttentionOp(cache, m, rows, prefill, dtype, scale, writeRc, readRc, g) ==
    LET done == CASE dtype \in {"F16", "BF16"}  -> OpF16(cache, m, rows, prefill, g)
                  [] dtype \in {"FP8E4M3", "FP8E5M2"} ->
                        OpFp8(cache, m, rows, prefill, dtype = "FP8E5M2", g)
                  [] dtype = "INT8"             -> OpI8(cache, m, rows, prefill, scale, g)
        failed(c) == [cache |-> c, ok |-> FALSE, out |-> <<>>]
    IN  IF dtype \notin {"F16", "BF16", "FP8E4M3", "FP8E5M2", "INT8"} THEN failed(cache)
        ELSE IF Launch(TRUE, writeRc) # "ok" THEN failed(cache)
        ELSE IF Launch(TRUE, readRc) # "ok" THEN failed(done.cache)
        ELSE [cache |-> done.cache, ok |-> TRUE, out |-> done.out]

(* forward_paged without CUDA attends to the batch's own tokens only.      *)
ForwardPagedFallback(rows, g) ==
    [token \in 0..(Len(rows) - 1), q \in 0..(g.heads - 1) |->
        [k \in 1..(token + 1) |-> rows[k][OracleKvHead(q, g)]]]

(* LlamaAttention::forward_paged: refused unless the gate is open.         *)
ForwardPaged(cuda, gate, cache, m, rows, dtype, scale, g) ==
    IF ~cuda THEN [cache |-> cache, ok |-> TRUE, out |-> ForwardPagedFallback(rows, g)]
    ELSE IF ~gate THEN [cache |-> cache, ok |-> FALSE, out |-> <<>>]
    ELSE PagedAttentionOp(cache, m, rows, Len(rows) > 1, dtype, scale, 0, 0, g)

(* MlaAttention::forward_paged: CUDA only, without the gate, and the       *)
(* metadata tells a prefill.                                               *)
MlaForwardPaged(cuda, cache, m, rows, dtype, scale, g) ==
    IF ~cuda THEN [cache |-> cache, ok |-> FALSE, out |-> <<>>]
    ELSE PagedAttentionOp(cache, m, rows, m.prefill > 0, dtype, scale, 0, 0, g)

-----------------------------------------------------------------------------
(* The eager attention of one sequence over its own cache, a sequence of   *)
(* rows.  The cache grows first; then a mask as wide as the new tokens     *)
(* meets weights as wide as the cache.                                     *)

RepeatKv(row, g) ==
    [q \in 0..(g.kvHeads * (g.heads \div g.kvHeads) - 1) |-> row[q \div (g.heads \div g.kvHeads)]]

CausalMask(n) == [i \in 1..n |-> {j \in 1..n : j <= i}]

EagerForward(cached, rows, g) ==
    LET all == cached \o rows
        n == Len(rows)
        shown(i) == IF n > 1 THEN CausalMask(n)[i] ELSE 1..Len(all)
    IN  IF n > 1 /\ cached # <<>> THEN [cache |-> all, ok |-> FALSE, out |-> <<>>]
        ELSE [cache |-> all, ok |-> TRUE,
              out |-> [token \in 0..(n - 1), q \in 0..(g.heads - 1) |->
                          [k \in 1..Cardinality(shown(token + 1)) |-> RepeatKv(all[k], g)[q]]]]

(* MlaAttention::forward: the mask is as wide as the cache and compares    *)
(* the index of a key with the position of the query.                      *)
MlaForward(cached, rows, positions, g) ==
    LET all == cached \o rows
    IN  [cache |-> all, ok |-> TRUE,
         out |-> [token \in 0..(Len(rows) - 1), q \in 0..(g.heads - 1) |->
                    [k \in 1..Min({Len(all), positions[token + 1] + 1}) |-> all[k][q]]]]

(* The layers in order, each with its own cache; the first that fails ends *)
(* the pass, and those before it keep what they added.                     *)
EagerModel(caches, rows, g) ==
    LET step(i) == EagerForward(caches[i], rows, g)
        failing == {i \in 1..Len(caches) : ~step(i).ok}
        last == IF failing = {} THEN Len(caches) ELSE Min(failing)
    IN  [ok |-> failing = {},
         caches |-> [i \in 1..Len(caches) |-> IF i <= last THEN step(i).cache ELSE caches[i]],
         out |-> IF failing = {} THEN step(Len(caches)).out ELSE <<>>]

-----------------------------------------------------------------------------
(* GpuKVCache: the pairs of allocations of its layers, and the INT8        *)
(* scales.  `budget' is how many allocations the device still grants;      *)
(* a refused one returns the error and frees nothing.                      *)

NewGpuKVCache(layers, budget) ==
    [ok |-> 2 * layers <= budget,
     held |-> Min({2 * layers, budget}),
     kScales |-> [l \in 1..layers |-> 1], vScales |-> [l \in 1..layers |-> 1]]

(* Scales that are not positive are ignored, each on its own.              *)
SetKvScales(c, l, k, v) ==
    [c EXCEPT !.kScales[l] = IF k > 0 THEN k ELSE @, !.vScales[l] = IF v > 0 THEN v ELSE @]

SetAllKvScales(c, ks, vs) ==
    IF Len(ks) # Len(c.kScales) \/ Len(vs) # Len(c.vScales) THEN c
    ELSE LET set[l \in 0..Len(ks)] == IF l = 0 THEN c ELSE SetKvScales(set[l - 1], l, ks[l], vs[l])
         IN  set[Len(ks)]

DropCache(c) == [c EXCEPT !.held = @ - 2 * Len(c.kScales)]

ComputeSlots(pairs, block) == [i \in 1..Len(pairs) |-> pairs[i][1] * block + pairs[i][2]]

(* Rounded and clamped; the value read back is the code times the scale.   *)
QuantizeKvI8(val, scale) == Clamp(RoundDiv(val, scale), -127, 127)

=============================================================================
