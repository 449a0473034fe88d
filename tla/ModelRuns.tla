----------------------------- MODULE ModelRuns -------------------------------
(***************************************************************************)
(* Experts are chosen and run, weights are quantized and read back,        *)
(* configurations are read and checkpoints fetched, loaded and exported    *)
(* (Experts, Quant, ModelConfig, Checkpoint), each on small inputs, and    *)
(* compared with what the inputs say.                                      *)
(***************************************************************************)
EXTENDS AttentionRuns, Experts, Checkpoint

CONSTANTS
    RouteCases,     \* [router, scores, bias, k, groups, topGroups, normalize, shared]
    QuantCases,     \* [kind, ...]
    ConfigCases,    \* [kind, hf or meta] a config.json or GGUF metadata
    FetchCases,     \* [isDir, local, repo, indexed, leaves, width, fails, answers, token, prompted]
    LoadCases       \* [family, config, file, head, cuda] a complete checkpoint

Sum(s) == FoldLeft(LAMBDA a, b : a + b, 0, s)

-----------------------------------------------------------------------------
(* Routing, for two tokens: one with the scores of the case and one with   *)
(* the scores the other way round.                                         *)

Experts == 0..3
PerGroup(c) == Cardinality(Experts) \div c.groups
Scores(c, t) == [e \in Experts |-> IF t = 1 THEN c.scores[e] ELSE c.scores[3 - e]]

(* Groups count in the last two routers, as the case says.                 *)
Limited(c) == c.router # "qwen" /\ c.topGroups < c.groups

RouteOf(c, t) ==
    CASE c.router = "qwen"  -> QwenRoute(Scores(c, t), c.k, c.normalize)
      [] c.router = "dense" -> DenseMoeRoute(Scores(c, t), c.k, c.groups, c.topGroups,
                                               c.topGroups < c.groups, c.normalize, 2)
      [] c.router = "noaux" -> NoAuxTcRoute(Scores(c, t), c.bias, c.k, c.groups, c.topGroups,
                                              c.normalize, 2)

RouteStart(c) == [unit |-> "routing", case |-> c, routes |-> <<>>, out |-> <<>>, dense |-> <<>>]

Route ==
    /\ st.unit = "routing" /\ st.routes = <<>>
    /\ LET c == st.case
       IN  /\ c.router = "noaux" => RouterAccepts(4, Cardinality(DOMAIN c.bias), c.k, c.groups, c.topGroups)
           /\ st' = [st EXCEPT !.routes = <<RouteOf(c, 1), RouteOf(c, 2)>>]

(* The matrices of the experts: three inputs, three outputs, blocks of two,*)
(* so that blocks do not divide the matrices.                              *)
Matrix(seed) == [weights |-> [i \in 0..35 |-> ((i * 7 + seed) % 5) - 2],
                 scales  |-> [i \in 0..15 |-> 1 + ((i + seed) % 3)]]
Hidden == [i \in 0..5 |-> i - 2]

RunExperts ==
    /\ st.unit = "routing" /\ st.routes # <<>> /\ st.out = <<>>
    /\ LET c == st.case
       IN  st' = [st EXCEPT
            !.out = WithShared(RunByExpert(st.routes, 4), c.shared),
            !.dense = IF c.router = "noaux" /\ ~c.normalize
                      THEN V3MoeForward(Hidden, st.routes, Matrix(1), Matrix(2), Matrix(3),
                                          4, 3, 3, 2)
                      ELSE <<>>]

(* The score a choice is made by, and the score of a group.                *)
ChoiceScore(c, t, e) == Scores(c, t)[e] + (IF c.router = "noaux" THEN c.bias[e] ELSE 0)

GroupScore(c, t, g) ==
    LET members == {e \in Experts : e \div PerGroup(c) = g}
        pairs == {p \in members \X members : p[1] < p[2]}
    IN  IF c.router = "noaux" /\ pairs # {}
        THEN Max({ChoiceScore(c, t, p[1]) + ChoiceScore(c, t, p[2]) : p \in pairs})
        ELSE Max({ChoiceScore(c, t, e) : e \in members})

(* The best experts of the best groups, each once.                         *)
ChosenWell(c, t, ids) ==
    /\ Cardinality(ToSet(ids)) = c.k
    /\ \E G \in kSubset(IF Limited(c) THEN c.topGroups ELSE c.groups, 0..(c.groups - 1)) :
        /\ Limited(c) => \A g \in G, h \in (0..(c.groups - 1)) \ G : GroupScore(c, t, g) >= GroupScore(c, t, h)
        /\ \A e \in ToSet(ids) : (e \div PerGroup(c)) \in G
        /\ \A e \in Experts \ ToSet(ids), i \in ToSet(ids) :
             (e \div PerGroup(c)) \in G => ChoiceScore(c, t, e) <= ChoiceScore(c, t, i)

WeightsAdd(c, route) ==
    c.normalize /\ c.k > 1 =>
        Sum([r \in 1..c.k |-> route.weights[r][1]])
          = route.weights[1][2] * (IF c.router = "noaux" THEN 2 ELSE 1)

(* One expert applied on its own matrices.                                 *)
ExpertOf(m, e) == [weights |-> [i \in 0..8 |-> m.weights[9 * e + i]],
                   scales  |-> [i \in 0..3 |-> m.scales[4 * e + i]]]

ApplyExpert(e, x) ==
    LET run(m, v) == BlockFp8Forward(v, ExpertOf(m, e).weights, ExpertOf(m, e).scales, 3, 3, 2)
        gate == run(Matrix(1), x)
        up == run(Matrix(2), x)
    IN  run(Matrix(3), [o \in 0..2 |-> Silu(gate[o]) * up[o]])

DenseReference(t, o) ==
    LET x == [i \in 0..2 |-> Hidden[3 * (t - 1) + i]]
        route == st.routes[t]
    IN  Sum([r \in 1..st.case.k |-> ApplyExpert(route.ids[r], x)[o] * route.weights[r][1]])

(* Whatever the scores, a token is sent to its best experts in the best    *)
(* groups (as far as those groups have enough of them), with weights that  *)
(* add up, gets the output of each exactly once whichever token shares it, *)
(* and the stacked matrices of all experts give what each expert's own     *)
(* matrix with its own block scales would.                                 *)
RoutedExactly ==
    st.unit = "routing" /\ st.out # <<>> =>
        LET c == st.case
        IN  \A t \in 1..2 :
              LET route == st.routes[t]
                  pairs == {<<route.ids[r], route.weights[r]>> : r \in 1..c.k}
                           \cup (IF c.shared THEN {<<-1, <<1, 1>>>>} ELSE {})
              IN  /\ c.k <= c.topGroups * PerGroup(c) => ChosenWell(c, t, route.ids)
                  /\ WeightsAdd(c, route)
                  /\ ToSet(st.out[t]) = pairs /\ Len(st.out[t]) = Cardinality(pairs)
                  /\ st.dense # <<>> => \A o \in 0..2 : st.dense[3 * (t - 1) + o] = DenseReference(t, o)

-----------------------------------------------------------------------------
(* Quantization: a weight is stored, then read back.                       *)

QuantStart(c) == [unit |-> "quant", case |-> c, stored |-> <<>>, back |-> <<>>]

QMax == 7               \* the largest code, and
Base == QMax + 1        \* the number of codes in the cases with packed words

(* The packed layers: codes, zeros and scales made from a seed, with the   *)
(* groups of the column order.                                             *)
GroupIndex(c) ==
    MakeGroupIndex(c.group, ColumnOrder([i \in 1..8 |-> (i * c.seed) % 5], c.actOrder))
Code(c, i, o)  == (i * c.seed + 3 * o + ((i * o) % 4)) % Base
Zero(c, g, o)  == 1 + ((g + c.seed * o) % Base)
Scale(c, g, o) == 1 + ((g * c.seed + o) % 3)
GroupCount(c) == NumGroups(GroupIndex(c))

PackedLayer(c) ==
    LET gs == GroupCount(c)
    IN  [qweight |-> PackQweight([i \in 0..7, o \in 0..7 |-> Code(c, i, o)], 8, 8, Base),
         qzeros  |-> PackQzeros([g \in 0..(gs - 1), o \in 0..7 |-> Zero(c, g, o)], gs, 8, Base),
         scales  |-> [g \in 0..(gs - 1), o \in 0..7 |-> Scale(c, g, o)]]

(* AWQ words as their own tools write them: output o at nibble order[o].   *)
AwqLayer(c) ==
    LET at(n) == (CHOOSE o \in 0..7 : AwqReverseOrder[o + 1] = n)
        word(F(_)) == Word([n \in 0..7 |-> F(at(n))], Base)
    IN  [qweight |-> [i \in 0..7, w \in {0} |-> word(LAMBDA o : Code(c, i, o))],
         qzeros  |-> [g \in 0..(7 \div c.group), w \in {0} |-> word(LAMBDA o : Zero(c, g, o) - 1)],
         scales  |-> [g \in 0..(7 \div c.group), o \in 0..7 |-> Scale(c, g, o)]]

QuantStore ==
    /\ st.unit = "quant" /\ st.stored = <<>>
    /\ LET c == st.case
       IN  \/ /\ c.kind = "int8" /\ ~Int8Refused(2, "channel", 1, 1, TRUE, TRUE, 0)
              /\ st' = [st EXCEPT !.stored = <<QuantizeWeightPerChannel(c.row)>>]
           \/ c.kind = "kv" /\ st' = [st EXCEPT !.stored = <<QuantizeKvI8(c.val, c.scale)>>]
           \/ c.kind = "fp8" /\ st' = [st EXCEPT !.stored = <<FloatToFp8(c.val, c.e5m2)>>]
           \/ /\ c.kind = "mxfp4" /\ ValidateOnlineShape(Len(c.row), c.group, TRUE)
              /\ st' = [st EXCEPT !.stored = <<QuantizeMxfp4(c.row, c.group)>>]
           \/ /\ c.kind = "nvfp4" /\ ValidateGroupSize(Len(c.row), 16)
              /\ st' = [st EXCEPT !.stored = <<QuantizeNvfp4(c.row, 16)>>]
           \/ /\ c.kind = "gptq" /\ GptqConfigOk(4, c.group, TRUE) /\ ValidateLayerDims(8, 8, 64)
              /\ st' = [st EXCEPT !.stored = <<PackedLayer(c)>>]
           \/ c.kind = "awq" /\ st' = [st EXCEPT !.stored = <<AwqLayer(c)>>]
           \/ /\ c.kind = "params"
              /\ st' = [st EXCEPT !.stored = <<[i \in 1..Len(c.row) |->
                        QuantizeValue(c.row[i], QuantParams(c.row, QMax), QMax)]>>]

QuantRead ==
    /\ st.unit = "quant" /\ st.stored # <<>> /\ st.back = <<>>
    /\ LET c == st.case
           s == st.stored[1]
           x == [i \in 0..7 |-> i - 3]
           w == DequantizeGptq(s.qweight, s.qzeros, s.scales, GroupIndex(c), 8, 8, Base)
           p == QuantParams(c.row, QMax)
       IN  \/ c.kind = "int8" /\ st' = [st EXCEPT !.back = <<DequantizeInt8(s, ChannelScale(c.row), 0)>>]
           \/ c.kind = "kv" /\ st' = [st EXCEPT !.back = <<s * c.scale>>]
           \/ c.kind = "fp8" /\ st' = [st EXCEPT !.back = <<IsNaN(s, c.e5m2), Fp8ToFloat(s, c.e5m2)>>]
           \/ c.kind = "mxfp4" /\ st' = [st EXCEPT !.back = <<DequantizeMxfp4(s, Len(c.row), c.group)>>]
           \/ c.kind = "nvfp4" /\ st' = [st EXCEPT !.back = <<DequantizeNvfp4(s, Len(c.row), 16)>>]
           \/ /\ c.kind = "gptq" /\ TriesGptqCuda(4, TRUE, TRUE, 8, 8, 8)
              /\ st' = [st EXCEPT !.back =
                    <<w, ForwardFp(x, w, 8, 8),
                      GptqGemm(x, s.qweight, s.qzeros, s.scales, GroupIndex(c), 8, 8, c.group, Base)>>]
           \/ /\ c.kind = "awq"
              /\ st' = [st EXCEPT !.back =
                    <<DequantizeAwq(s.qweight, s.qzeros, s.scales, 8, 8, c.group, Base)>>]
           \/ /\ c.kind = "params"
              /\ st' = [st EXCEPT !.back = <<[i \in 1..Len(c.row) |-> (s[i] - p.zero) * p.num], p>>]

Near(a, b, d) == a - b <= d /\ b - a <= d

(* E4M3 has no finite value for the last mantissa of the last binade: the  *)
(* encoder cuts values from 480 up to 512 to the code of NaN, although its *)
(* comment says that overflow is clipped to 448 (cache_ops.cu:40-41).      *)
CutToNaN(c) == ~c.e5m2 /\ c.val.exp = 8 /\ c.val.sixteenths >= 14

(* An FP8 value in the normal range comes back smaller by less than a step *)
(* of its binade, of the same sign; above it the largest value comes back  *)
(* and below it zero.                                                      *)
Fp8Near(c, s, back) ==
    LET v == c.val
        top == IF c.e5m2 THEN 15 ELSE 8
        low == IF c.e5m2 THEN -14 ELSE -6
        unit == 2 ^ (back[2][2] - v.exp + 4)
    IN  /\ s.neg = v.neg
        /\ ~back[1]
        /\ v.exp < low => back[2][1] = 0
        /\ v.exp > top => back[2] = IF c.e5m2 THEN <<7, 13>> ELSE <<14, 5>>
        /\ v.exp \in low..top => 16 + v.sixteenths - back[2][1] * unit \in 0..(unit - 1)

ReadBack(c, s, back) ==
    CASE c.kind = "int8" ->
           LET x == Reverse(c.row)
               scale == ChannelScale(c.row)
               dot == Sum([i \in 1..Len(x) |-> x[i] * c.row[i]])
           IN  /\ \A i \in DOMAIN c.row : Near(2 * back[1][i], 254 * c.row[i], scale)
               /\ Near(W8A8(x, c.row), 127 * 127 * dot, 128 * Len(x) * scale * scale)
      [] c.kind = "kv"    -> Near(2 * back[1], 2 * c.val, c.scale)
      [] c.kind = "fp8"   -> ~CutToNaN(c) => Fp8Near(c, s, back)
      [] c.kind = "mxfp4" ->
           \A i \in 1..Len(c.row) :
              LET scale == s.scales[(i - 1) \div c.group]
              IN  /\ Near(back[1][i], 2 * c.row[i], 2 * scale)
                  /\ \E k \in 0..16 : scale = 2 ^ DecodeE8M0(127 + k)[1]
      [] c.kind = "nvfp4" ->
           \A i \in 1..Len(c.row) : Near(back[1][i], 12 * c.row[i], 2 * s.scales[(i - 1) \div 16])
      [] c.kind = "gptq" ->
           LET g(i) == GroupIndex(c)[i]
           IN  /\ \A i \in 0..7, o \in 0..7 :
                     back[1][i, o] = (Code(c, i, o) - Zero(c, g(i), o)) * Scale(c, g(i), o)
               /\ 8 % c.group = 0 => back[2] = back[3]
      [] c.kind = "awq" ->
           \A i \in 0..7, o \in 0..7 :
              LET g == i \div c.group
              IN  back[1][i, o] = (Code(c, i, o) - (Zero(c, g, o) - 1)) * Scale(c, g, o)
      [] c.kind = "params" ->
           Min(ToSet(c.row)) <= 0 /\ Max(ToSet(c.row)) >= 0 =>
              \A i \in 1..Len(c.row) : Near(back[1][i], c.row[i] * back[2].den, back[2].num)

(* What was stored reads back: packed codes exactly, by both readers of a  *)
(* GPTQ layer when groups divide the inputs; rounded ones within half a    *)
(* step (INT8), half the widest gap of FP4, or a step (FP8, clipped to its *)
(* range but for CutToNaN, of which nothing is claimed; GPTQ, for a group  *)
(* that has values of both signs); and the product of two quantized        *)
(* vectors within what their steps allow.                                  *)
CodesReadBack ==
    st.unit = "quant" /\ st.back # <<>> => ReadBack(st.case, st.stored[1], st.back)

-----------------------------------------------------------------------------
(* Configurations.                                                         *)

ConfigStart(c) == [unit |-> "config", case |-> c, read |-> <<>>]

(* A checkpoint's config.json is read alone, or with the stricter reader   *)
(* of its family; GGUF metadata by both.                                   *)
ReadConfig ==
    /\ st.unit = "config" /\ st.read = <<>>
    /\ LET c == st.case
           refusedBy(ok, config) == IF ok THEN [outcome |-> "ok", config |-> <<config>>] ELSE Refused("error")
       IN  st' = [st EXCEPT !.read =
            CASE c.kind = "hf"   -> <<ParseHfConfig(c.hf)>>
              [] c.kind = "qwen" -> <<refusedBy(AcceptedQwen(c.hf, c.q), c.q)>>
              [] c.kind = "deepseek" ->
                   <<refusedBy(DeepseekValidate(c.d) /\ Fp8BlockSize(c.d.blocks) # <<>>, c.d)>>
              [] c.kind = "gguf" ->
                   LET core == ParseGgufConfig(c.meta)
                   IN  IF core.outcome # "ok" THEN <<core>>
                       ELSE <<core, QwenFromGguf(core.config[1], c.meta)>>]

Geometry(c) == [heads |-> c.heads, kvHeads |-> c.kvHeads, dim |-> c.headDim]

(* Every query head has its KV head; the head dimension is settled by the  *)
(* stricter reader where the family has one.                               *)
HeadsSound(c) ==
    OracleSupports(IF IndependentHeadDim(c.arch) THEN [Geometry(c) EXCEPT !.dim = 1] ELSE Geometry(c))

QwenSound(q) ==
    /\ OracleSupports([Geometry(q) EXCEPT !.dim = QwenHeadDim(q)])
    /\ IsMoe(q.arch) => q.topK[1] <= q.experts[1]

(* What the model's builder gets to see.  A GGUF file of the Llama family  *)
(* has only its head count checked.                                        *)
ConfigSound ==
    LET last == Last(st.read)
        c == last.config[1]
    IN  last.outcome = "ok" =>
          CASE st.case.kind = "hf" ->
                 /\ HeadsSound(c)
                 /\ (BuilderOf(c.arch) = "error") = (RegistryCreate(c.arch) = "unsupported")
            [] st.case.kind = "qwen" -> QwenSound(c)
            [] st.case.kind = "deepseek" ->
                 RouterAccepts(c.experts, c.experts, c.topK, c.groups, c.topGroups)
            [] st.case.kind = "gguf" /\ Len(st.read) = 2 ->
                 QwenSound(c) /\ ValidateCore(c, st.read[1].config[1])

-----------------------------------------------------------------------------
(* Fetching and finding the files of a model.                              *)

FetchStart(c) == [unit |-> "fetch", case |-> c, got |-> <<>>, shards |-> <<>>]

(* The files are fetched unless the reference is a directory.              *)
Fetch ==
    /\ st.unit = "fetch" /\ st.got = <<>>
    /\ LET c == st.case
           files == SetToSeq(FilesToDownload(c.repo, c.indexed))
           outcome == DownloadModel(c.answers, c.token, c.prompted)
       IN  st' = [st EXCEPT !.got =
            <<IF ResolveModelDir(c.isDir) = "local" THEN [ok |-> TRUE, started |-> c.local]
              ELSE IF outcome # "ok" \/ files = <<>> THEN [ok |-> FALSE, started |-> {}]
              ELSE Downloaded(files, c.width, c.fails)>>]

FindFiles ==
    /\ st.unit = "fetch" /\ st.got # <<>> /\ st.got[1].ok /\ st.shards = <<>>
    /\ LET c == st.case
           there == st.got[1].started
       IN  st' = [st EXCEPT !.shards =
            <<FindShards([index |-> c.repo.index, named |-> c.indexed, present |-> there,
                            leaves |-> c.leaves, single |-> ModelFile \in there,
                            numbered |-> there \cap (0..9)])>>]

(* A fetch that succeeds has asked for every file the repository's index   *)
(* names, and the shards that are read are all there.                      *)
FilesSound ==
    LET c == st.case
    IN  /\ st.got # <<>> /\ st.got[1].ok /\ ~c.isDir =>
              /\ st.got[1].started \cap c.fails = {}
              /\ c.repo.index => c.indexed \subseteq st.got[1].started
        /\ st.shards # <<>> /\ st.shards[1].ok =>
              /\ st.shards[1].files \subseteq st.got[1].started
              /\ c.repo.index => st.shards[1].files = c.indexed /\ c.indexed \cap c.leaves = {}

-----------------------------------------------------------------------------
(* Loading: a complete checkpoint, perhaps without one of its tensors, or  *)
(* exported first.                                                         *)

LoadStart(c) ==
    [unit |-> "load", case |-> c, file |-> c.file, lost |-> <<>>, exported |-> FALSE, built |-> <<>>]

LoseTensor ==
    /\ st.unit = "load" /\ st.built = <<>> /\ st.lost = <<>> /\ ~st.exported
    /\ \E n \in AllTensors(st.file) :
        st' = [st EXCEPT !.lost = <<n>>, !.file.plain = @ \ {n}, !.file.raw = @ \ {n},
                         !.file.gguf = @ \ {n}]

LoadModel ==
    /\ st.unit = "load" /\ st.built = <<>>
    /\ LET c == st.case
       IN  st' = [st EXCEPT !.built =
            <<CASE c.family = "llama"    -> BuildLlama(c.config.layers, st.file)
                [] c.family = "qwen"     -> BuildQwen(c.config, st.file, c.cuda)
                [] c.family = "deepseek" -> BuildDeepseek(c.config, st.file)>>]

(* quantize_model_dir_to_gptq on a float Llama.                            *)
ExportModel ==
    /\ st.unit = "load" /\ st.built = <<>> /\ ~st.exported
    /\ st.case.family = "llama" /\ st.case.file.kind = "absent"
    /\ \E includeHead \in BOOLEAN :
        LET calibrated == Calibrated(st.case.config.layers, includeHead)
            written == QuantizeWeightMap(st.file, calibrated, includeHead, TiedDetected(st.file))
            batches == BuildCalibrationBatches(<<2, 0, 9>>, 2, 4)
        IN  /\ ExportOutcome(3, batches, written, TRUE) = "written"
            /\ st' = [st EXCEPT !.file = written.map, !.exported = TRUE]

(* The tensors a model can do without, or silently reads as something      *)
(* else: an own head where it may be tied, the group index of GPTQ, and    *)
(* the inverse scale that alone tells a projection to be FP8.              *)
Dispensable(c, n) ==
    \/ <<n[1], n[2], n[3]>> = LmHead /\ (c.family = "llama" \/ c.config.tie)
    \/ n[4] = "g_idx"
    \/ n[4] = "weight_scale_inv" /\ n[2] = -1 /\ n[3] \notin {"shared.gate_proj", "shared.up_proj", "shared.down_proj"}

(* Llama looks for an own head among the float tensors only, and takes     *)
(* the embedding in place of a quantized one, although it is not tied      *)
(* (llama.rs:266-273).                                                     *)
HeadStranded(c) == c.family = "llama" /\ \E n \in c.file.gguf \cup c.file.raw : n[3] = LmHead[3]

(* The gate of a shared expert in a GGUF file is dequantized, and then     *)
(* looked for among the quantized tensors: such a Qwen2-MoE file does not  *)
(* load, although runner.rs:225-226 expects it to.                         *)
GateStranded(c) == \E n \in c.file.plain : n[3] = "shared_expert_gate" /\ c.file.kind = "gguf"

LoadSound ==
    LET c == st.case
        b == st.built[1]
    IN  st.built # <<>> =>
          /\ st.lost = <<>> /\ ~GateStranded(c) =>
                /\ b.ok
                /\ ~HeadStranded(c) => b.left = {} /\ (c.head = "own" => b.head = "own")
          /\ st.lost # <<>> /\ ~Dispensable(c, st.lost[1]) => ~b.ok
          /\ st.exported /\ b.ok => \A at \in DOMAIN b.as \ {LmHead} : b.as[at] = "gptq"

(* What is accepted can be run and what is loaded is whole: an accepted    *)
(* configuration has heads the attention supports; files are read only     *)
(* when all that the index names are there; a complete checkpoint of every *)
(* family and format, an exported one too, loads with nothing left over    *)
(* and with its own head when it has one, but for the Qwen2-MoE and Llama  *)
(* GGUF files of GateStranded and HeadStranded, of which nothing is        *)
(* claimed; and one that misses a tensor the model needs is refused.       *)
LoadedWhole ==
    /\ st.unit = "config" /\ st.read # <<>> => ConfigSound
    /\ st.unit = "fetch" => FilesSound
    /\ st.unit = "load" => LoadSound

ModelInit ==
    \/ \E c \in RouteCases : st = RouteStart(c)
    \/ \E c \in QuantCases : st = QuantStart(c)
    \/ \E c \in ConfigCases : st = ConfigStart(c)
    \/ \E c \in FetchCases : st = FetchStart(c)
    \/ \E c \in LoadCases : st = LoadStart(c)

ModelNext ==
    \/ Route \/ RunExperts
    \/ QuantStore \/ QuantRead
    \/ ReadConfig
    \/ Fetch \/ FindFiles
    \/ LoseTensor \/ LoadModel \/ ExportModel

=============================================================================
