----------------------------- MODULE Checkpoint ------------------------------
(***************************************************************************)
(* From the files of a checkpoint to a model: which files are fetched and  *)
(* read (crates/rllm-model/src/loader.rs), where their tensors go          *)
(* (loader.rs, gguf_loader.rs), which of them each family takes            *)
(* (llama.rs, qwen.rs, deepseek.rs, deepseek_v3.rs), and what the GPTQ     *)
(* exporter writes (quantize.rs).                                          *)
(*                                                                         *)
(* A tensor is named <<layer, expert, module, suffix>>, with -1 for no     *)
(* layer or no expert.  A weight map is a record [plain, raw, gguf] of     *)
(* sets of names - float tensors, raw I8 ones and GGUF ones - with the     *)
(* schema of the checkpoint, [present, schema], and the quantization kind  *)
(* of the configuration.                                                   *)
(***************************************************************************)
EXTENDS Quant, ModelConfig

At(layer, module) == <<layer, -1, module>>
AtExpert(layer, e, module) == <<layer, e, module>>
Tensor(at, suffix) == <<at[1], at[2], at[3], suffix>>
LmHead == At(-1, "lm_head")
Embedding == Tensor(At(-1, "embed_tokens"), "weight")
Norm(layer, module) == Tensor(At(layer, module), "weight")

EmptyMap(kind) ==
    [plain |-> {}, raw |-> {}, gguf |-> {}, kind |-> kind, ignored |-> {},
     present |-> FALSE, schema |-> <<>>]

AllTensors(w) == w.plain \cup w.raw \cup w.gguf

-----------------------------------------------------------------------------
(* Fetching.                                                               *)

(* resolve_model_dir: a path that is no directory is taken for a model of  *)
(* the hub.                                                                *)
ResolveModelDir(isDir) == IF isDir THEN "local" ELSE "hub"

(* download_model_from_hub: an authentication error is retried once, with  *)
(* a token from the terminal, when there was none.                         *)
DownloadModel(answer, token, prompted) ==
    CASE answer[token] = "ok" -> "ok"
      [] answer[token] = "auth" /\ token = "none" ->
            IF prompted = "none" THEN "auth" ELSE answer[prompted]
      [] OTHER -> answer[token]

(* Shards are told by their numbers, the single file and the GGUF files by *)
(* others.                                                                 *)
ModelFile == -1

(* files_to_download: the first kind of file the repository has; of the    *)
(* GGUF files the one whose quantization ranks first, or the first.        *)
FilesToDownload(repo, indexed) ==
    LET best == Min({repo.ggufs[i].rank : i \in 1..Len(repo.ggufs)})
        first == Min({i \in 1..Len(repo.ggufs) : repo.ggufs[i].rank = best})
    IN  IF repo.index THEN indexed
        ELSE IF repo.single THEN {ModelFile}
        ELSE IF repo.shards # {} THEN repo.shards
        ELSE IF repo.ggufs = <<>> THEN {}
        ELSE {repo.ggufs[first].file}

(* download_hf_files_concurrently: batches of `width' files, each joined   *)
(* before the next is begun.  The outcome is the first failure met.        *)
DownloadBatches(files, width) ==
    LET n == Min({width, Len(files)})
    IN  [b \in 1..Ceil(Len(files), n) |-> SubSeq(files, (b - 1) * n + 1, Min({b * n, Len(files)}))]

(* What is on disk when the download returns: a batch is joined in order,  *)
(* and the first failure returns while the rest of it still runs.          *)
Downloaded(files, width, fails) ==
    LET batches == DownloadBatches(files, width)
        bad == {b \in 1..Len(batches) : \E i \in 1..Len(batches[b]) : batches[b][i] \in fails}
        last == IF bad = {} THEN Len(batches) ELSE Min(bad)
    IN  [ok |-> bad = {},
         started |-> UNION {ToSet(batches[b]) : b \in 1..last}]

(* load_shard_index: the files it names, each once; a name that leaves the *)
(* directory is refused, and so is a file that is not there.               *)
LoadShardIndex(named, present, leaves) ==
    IF named \cap leaves # {} \/ ~(named \subseteq present) THEN [ok |-> FALSE, files |-> {}]
    ELSE [ok |-> TRUE, files |-> named]

(* find_safetensor_shards: the index, the single file, or the numbered     *)
(* shards, counted from 0 up to the first that is missing.                 *)
FindShards(dir) ==
    LET run == {n \in dir.numbered : \A m \in 0..n : m \in dir.numbered}
    IN  IF dir.index THEN LoadShardIndex(dir.named, dir.present, dir.leaves)
        ELSE IF dir.single THEN [ok |-> TRUE, files |-> {ModelFile}]
        ELSE [ok |-> run # {}, files |-> run]

-----------------------------------------------------------------------------
(* Where tensors go.                                                       *)

(* load_safetensors_shard: I8 tensors are kept raw.  A shard is a function *)
(* from names to dtypes; a dtype candle has not is an error.               *)
LoadShards(w, shards) ==
    LET named(D(_)) == UNION {{n \in DOMAIN shards[i] : D(shards[i][n])} : i \in 1..Len(shards)}
    IN  [ok |-> named(LAMBDA d : d = "unsupported") = {},
         map |-> [w EXCEPT !.plain = named(LAMBDA d : d # "i8"), !.raw = named(LAMBDA d : d = "i8")]]

TiedDetected(w) ==
    LET has(n) == n \in w.plain \/ n \in w.gguf
    IN  ~has(Tensor(LmHead, "weight")) /\ has(Embedding)

(* map_gguf_name_to_hf, on the modules of a layer; the others keep their   *)
(* name.                                                                   *)
GgufModule ==
    [attn_q |-> "q_proj", attn_k |-> "k_proj", attn_v |-> "v_proj", attn_output |-> "o_proj",
     attn_q_norm |-> "q_norm", attn_k_norm |-> "k_norm", ffn_gate |-> "gate_proj",
     ffn_up |-> "up_proj", ffn_down |-> "down_proj", ffn_gate_inp |-> "gate",
     ffn_gate_exps |-> "experts.gate_proj", ffn_up_exps |-> "experts.up_proj",
     ffn_down_exps |-> "experts.down_proj", ffn_gate_inp_shexp |-> "shared_expert_gate",
     ffn_gate_shexp |-> "shared.gate_proj", ffn_up_shexp |-> "shared.up_proj",
     ffn_down_shexp |-> "shared.down_proj", attn_norm |-> "input_layernorm",
     ffn_norm |-> "post_attention_layernorm", token_embd |-> "embed_tokens",
     output |-> "lm_head", output_norm |-> "norm"]

SharedMlp == {"shared.gate_proj", "shared.up_proj", "shared.down_proj"}

Projections == SharedMlp \cup
               {"q_proj", "k_proj", "v_proj", "o_proj", "gate_proj", "up_proj", "down_proj",
                "experts.gate_proj", "experts.up_proj", "experts.down_proj"}

MapGgufName(n) == Tensor(At(n.layer, GgufModule[n.module]), n.suffix)

(* load_gguf_weights: quantized projections and output stay as they are,   *)
(* everything else is dequantized.                                         *)
LoadGgufWeights(tensors) ==
    LET kept(t) == /\ t.quantized /\ t.name.suffix = "weight"
                   /\ GgufModule[t.name.module] \in Projections \cup {"lm_head"}
    IN  [EmptyMap("gguf") EXCEPT !.gguf  = {MapGgufName(t.name) : t \in {u \in tensors : kept(u)}},
                                 !.plain = {MapGgufName(t.name) : t \in {u \in tensors : ~kept(u)}}]

-----------------------------------------------------------------------------
(* Linear layers.  Each answers [ok, as, taken].                           *)

(* The tensors of a layer the way the factories look for them.  A scale or *)
(* zero point has a second spelling, which is left out.                    *)
HaveOf(w, at) ==
    {h \in {"weight", "scale", "zero", "qweight", "gguf"} :
        CASE h = "weight"  -> Tensor(at, "weight") \in w.plain
          [] h = "scale"   -> Tensor(at, "weight_scale") \in w.plain
          [] h = "zero"    -> Tensor(at, "weight_zero_point") \in w.plain
          [] h = "qweight" -> Tensor(at, "weight") \in w.raw
          [] h = "gguf"    -> Tensor(at, "weight") \in w.gguf}

TakenAs(built) ==
    CASE built \in {"int8", "packed"} -> {"weight", "weight_scale"}
      [] built = "int8_asymmetric"    -> {"weight", "weight_scale", "weight_zero_point"}
      [] OTHER                        -> {"weight"}

(* What the factory of the checkpoint makes of a layer.                    *)
BuildLinear(w, at) ==
    LET factory == FactoryFromConfig(w.kind, w.present, w.schema)
        have == HaveOf(w, at)
    IN  CASE factory = "unquantized" -> BuildUnquantized(have)
          [] factory = "gguf"        -> BuildGguf(have)
          [] factory = "int8_strict" -> BuildInt8(have, at[3] \in w.ignored, TRUE, w.schema.symmetric)
          [] factory = "int8"        -> BuildInt8(have, FALSE, FALSE, TRUE)
          [] factory = "mxfp"        -> BuildMxfp(have)
          [] factory = "nvfp"        -> BuildNvfp(have)
          [] factory = "error"       -> "error"

(* load_linear: packed words before anything the factory would look for.   *)
LoadLinear(w, at) ==
    LET packed == Tensor(at, "qweight") \in w.plain
        needed == {Tensor(at, s) : s \in {"qweight", "qzeros", "scales"}}
        index == {Tensor(at, "g_idx")} \cap w.plain
        built == BuildLinear(w, at)
    IN  IF packed
        THEN [ok |-> needed \subseteq w.plain, as |-> IF w.kind = "awq" THEN "awq" ELSE "gptq",
              taken |-> IF w.kind = "awq" THEN needed ELSE needed \cup index]
        ELSE [ok |-> built # "error", as |-> built,
              taken |-> {Tensor(at, s) : s \in TakenAs(built)}]

(* Projection::load of DeepSeek: an inverse scale means block FP8.         *)
LoadProjection(w, at) ==
    IF Tensor(at, "weight_scale_inv") \in w.plain
    THEN [ok |-> Tensor(at, "weight") \in w.plain, as |-> "block_fp8",
          taken |-> {Tensor(at, "weight"), Tensor(at, "weight_scale_inv")}]
    ELSE LoadLinear(w, at)

-----------------------------------------------------------------------------
(* The LM head of each family: its own, the embedding, or none.            *)

HasLinear(w, at) ==
    Tensor(at, "weight") \in AllTensors(w) \/ Tensor(at, "qweight") \in w.plain

(* Llama looks among the float tensors only, and never refuses.            *)
LlamaHead(w) ==
    IF {Tensor(LmHead, "qweight"), Tensor(LmHead, "weight")} \cap w.plain # {} THEN "own" ELSE "tied"

(* A faulty choice that looks where Llama does.                            *)
TiableHeadPlain(w, tie) ==
    IF {Tensor(LmHead, "qweight"), Tensor(LmHead, "weight")} \cap w.plain # {} THEN "own"
    ELSE IF tie THEN "tied" ELSE "missing"

(* Qwen and DeepSeek.                                                      *)
TiableHead(w, tie) == IF HasLinear(w, LmHead) THEN "own" ELSE IF tie THEN "tied" ELSE "missing"

-----------------------------------------------------------------------------
(* What each family takes: linear layers, and tensors.                     *)

Attention == {"q_proj", "k_proj", "v_proj", "o_proj"}
Mlp == {"gate_proj", "up_proj", "down_proj"}
LayerNorms(l) == {Norm(l, "input_layernorm"), Norm(l, "post_attention_layernorm")}
Common(layers) == {Embedding, Norm(-1, "norm")} \cup UNION {LayerNorms(l) : l \in 0..(layers - 1)}

LlamaPlan(layers) ==
    [linears |-> {At(l, m) : l \in 0..(layers - 1), m \in Attention \cup Mlp},
     tensors |-> Common(layers)]

(* The experts of a layer are packed, one tensor for each projection, or   *)
(* one MLP for each expert.                                                *)
PackedExperts(w, l) == Tensor(At(l, "experts.gate_proj"), "weight") \in w.gguf \cup w.plain

QwenPlan(q, w) ==
    LET layers == 0..(q.layers - 1)
        biased == IF ~AttentionBias(q) THEN {}
                  ELSE IF IsQwen3(q.arch) THEN Attention ELSE Attention \ {"o_proj"}
        sparse == {l \in layers : QwenSparse(q, l)}
        loose == {l \in sparse : ~PackedExperts(w, l)}
        shared == IF q.arch = "qwen2_moe" /\ q.shared > 0 THEN SharedMlp \cup {"shared_expert_gate"} ELSE {}
    IN  [linears |-> {At(l, m) : l \in layers, m \in Attention}
                     \cup {At(l, m) : l \in layers \ sparse, m \in Mlp}
                     \cup {AtExpert(l, e, m) : l \in loose, e \in 0..(OrDefault(q.experts, 0) - 1), m \in Mlp}
                     \cup {At(l, m) : l \in sparse, m \in shared},
         tensors |-> Common(q.layers)
                     \cup {Tensor(At(l, m), "bias") : l \in layers, m \in biased}
                     \cup (IF IsQwen3(q.arch) THEN {Norm(l, m) : l \in layers, m \in {"q_norm", "k_norm"}} ELSE {})
                     \cup {Norm(l, "gate") : l \in sparse},
         packed |-> {Tensor(At(l, m), "weight") : l \in sparse \ loose,
                         m \in {"experts.gate_proj", "experts.up_proj", "experts.down_proj"}}]

(* Packed experts need CUDA and quantized tensors.                         *)
PackedOk(plan, w, cuda) == plan.packed # {} => cuda /\ plan.packed \subseteq w.gguf

(* DeepSeek: compressed attention; in V3 the experts are block FP8 and the *)
(* shared ones always taken.                                               *)
DeepseekPlan(d, w) ==
    LET layers == 0..(d.layers - 1)
        sparse == {l \in layers : DeepseekSparse(d, l)}
        query == IF d.lora THEN {"q_a_proj", "q_b_proj"} ELSE {"q_proj"}
        fp8(l, e, m) == {Tensor(AtExpert(l, e, m), s) : s \in {"weight", "weight_scale_inv"}}
        shared(l, m) == {Tensor(At(l, m), s) : s \in {"weight", "weight_scale_inv"}}
    IN  [linears |-> {At(l, m) : l \in layers, m \in query \cup {"kv_a_proj", "kv_b_proj", "o_proj"}}
                     \cup {At(l, m) : l \in layers \ sparse, m \in Mlp}
                     \cup (IF d.v3 THEN {}
                           ELSE {AtExpert(l, e, m) : l \in sparse, e \in 0..(d.experts - 1), m \in Mlp}
                                \cup (IF d.shared > 0 THEN {At(l, m) : l \in sparse, m \in SharedMlp} ELSE {})),
         tensors |-> Common(d.layers)
                     \cup {Norm(l, "kv_a_layernorm") : l \in layers}
                     \cup (IF d.lora THEN {Norm(l, "q_a_layernorm") : l \in layers} ELSE {})
                     \cup {Norm(l, "gate") : l \in sparse}
                     \cup (IF ~d.v3 THEN {}
                           ELSE {Tensor(At(l, "gate"), "correction_bias") : l \in sparse}
                                \cup UNION {fp8(l, e, m) : l \in sparse, e \in 0..(d.experts - 1), m \in Mlp}
                                \cup UNION {shared(l, m) : l \in sparse, m \in SharedMlp})]

(* A head of its own is one more linear layer.                             *)
Linears(plan, head) == plan.linears \cup (IF head = "own" THEN {LmHead} ELSE {})

(* Building a model.  Names are disjoint, so the order does not matter:    *)
(* every layer and tensor is there or the first that is not is the error.  *)
(* What nobody took is only reported.  `load' is the answer for each       *)
(* linear layer.                                                           *)
Build(w, head, plan, load) ==
    LET linears == DOMAIN load
    IN  [ok |-> head # "missing" /\ plan.tensors \subseteq w.plain /\ \A at \in linears : load[at].ok,
         head |-> head,
         as |-> [at \in linears |-> load[at].as],
         quantized |-> Cardinality({at \in linears : load[at].as # "fp"}),
         left |-> AllTensors(w) \ (plan.tensors \cup UNION {load[at].taken : at \in linears})]

BuildLlama(layers, w) ==
    LET plan == LlamaPlan(layers)
        head == LlamaHead(w)
    IN  Build(w, head, plan, [at \in Linears(plan, head) |-> LoadLinear(w, at)])

BuildQwen(q, w, cuda) ==
    LET plan == QwenPlan(q, w)
        head == TiableHead(w, q.tie)
        built == Build(w, head, plan, [at \in Linears(plan, head) |-> LoadLinear(w, at)])
    IN  [built EXCEPT !.ok = @ /\ PackedOk(plan, w, cuda), !.left = @ \ plan.packed]

BuildDeepseek(d, w) ==
    IF w.gguf # {} THEN [ok |-> FALSE, head |-> "missing", as |-> <<>>, quantized |-> 0, left |-> AllTensors(w)]
    ELSE LET plan == DeepseekPlan(d, w)
             head == TiableHead(w, d.tie)
         IN  Build(w, head, plan, [at \in Linears(plan, head) |-> LoadProjection(w, at)])

-----------------------------------------------------------------------------
(* The GPTQ exporter.                                                      *)

(* collect_gptq_calibrations: the inputs of every layer are observed.      *)
Calibrated(layers, includeHead) == LlamaPlan(layers).linears \cup (IF includeHead THEN {LmHead} ELSE {})

BuildCalibrationBatches(lengths, maxSamples, maxLen) ==
    SelectSeq([i \in 1..Min({Len(lengths), maxSamples}) |-> Min({lengths[i], maxLen})],
              LAMBDA n : n > 0)

ShouldSkipOriginalWeight(n, calibrated, includeHead) ==
    /\ n[4] = "weight"
    /\ <<n[1], n[2], n[3]>> \in calibrated \cup (IF includeHead THEN {LmHead} ELSE {})

InsertQuantizedLayer(at) == {Tensor(at, s) : s \in {"qweight", "qzeros", "scales", "g_idx"}}

(* quantize_weight_map: only the float tensors are written.                *)
QuantizeWeightMap(w, calibrated, includeHead, tied) ==
    LET source(at) == IF at = LmHead /\ tied /\ Tensor(at, "weight") \notin w.plain
                      THEN Embedding ELSE Tensor(at, "weight")
    IN  [ok |-> \A at \in calibrated : source(at) \in w.plain,
         map |-> [EmptyMap("gptq") EXCEPT !.plain =
                    {n \in w.plain : ~ShouldSkipOriginalWeight(n, calibrated, includeHead)}
                    \cup UNION {InsertQuantizedLayer(at) : at \in calibrated}]]

(* quantize_model_dir_to_gptq: the first check that fails; the output      *)
(* directory is looked at only once everything is computed.                *)
ExportOutcome(prompts, batches, written, outEmpty) ==
    IF prompts = 0 THEN "no_prompt"
    ELSE IF batches = <<>> THEN "no_tokens"
    ELSE IF ~written.ok THEN "missing_weight"
    ELSE IF ~outEmpty THEN "output_exists"
    ELSE "written"

-----------------------------------------------------------------------------
(* Greedy generation.  next[tokens] is the token the model puts next, and  *)
(* a pass is the pair of its first position and its number of tokens.      *)

(* Llama, Qwen and DeepSeek differ in what they do before the first token  *)
(* is appended: Llama refuses no empty prompt (it fails on it later),      *)
(* Qwen asks nothing of the model when the prompt is long enough.          *)
Generate(family, prompt, maxTokens, next) ==
    LET steps == Max({0, maxTokens - Len(prompt)})
        grown[n \in 0..steps] ==
            IF n = 0 THEN prompt ELSE Append(grown[n - 1], next[grown[n - 1]])
        first == IF family = "qwen" /\ steps = 0 THEN <<>> ELSE <<<<0, Len(prompt)>>>>
    IN  IF prompt = <<>> THEN [ok |-> FALSE, tokens |-> <<>>, passes |-> <<>>]
        ELSE [ok |-> TRUE, tokens |-> grown[steps],
              passes |-> first \o [i \in 1..Max({0, steps - 1}) |-> <<Len(prompt) + i - 1, 1>>]]

=============================================================================
