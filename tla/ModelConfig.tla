---------------------------- MODULE ModelConfig -----------------------------
(***************************************************************************)
(* What a model's configuration must satisfy before weights are loaded:    *)
(* the Hugging Face file (crates/rllm-model/src/hf_config.rs), the GGUF    *)
(* metadata (gguf_loader.rs) and the stricter readers of the Qwen          *)
(* (qwen.rs) and DeepSeek (deepseek_v3.rs) families.                       *)
(*                                                                         *)
(* An optional value is a sequence of at most one element.  A reader       *)
(* answers [outcome, config] with outcome "ok", "error" or "panic".        *)
(***************************************************************************)
EXTENDS Integers, Sequences

LlamaFamily    == {"llama", "mistral", "deepseek"}
DeepseekFamily == {"deepseek_v2", "deepseek_v3", "deepseek_r1"}
QwenFamily     == {"qwen2", "qwen2_moe", "qwen3", "qwen3_moe"}
Supported      == LlamaFamily \cup DeepseekFamily \cup QwenFamily

IsQwen3(arch) == arch \in {"qwen3", "qwen3_moe"}
IsMoe(arch)   == arch \in {"qwen2_moe", "qwen3_moe"}

OrDefault(option, default) == IF option = <<>> THEN default ELSE option[1]

Refused(outcome) == [outcome |-> outcome, config |-> <<>>]

-----------------------------------------------------------------------------
(* config.json: [arch, modelType, hidden, heads, kvHeads, headDim, nope,   *)
(* rope].  The names of an architecture are one model value each here:     *)
(* normalize_architecture maps the spellings of a family to one.           *)

NormalizeArchitecture(name) == IF name \in Supported THEN name ELSE "unknown"

(* Whether the head dimension is free of hidden_size / heads.              *)
IndependentHeadDim(arch) == arch \in DeepseekFamily \/ IsQwen3(arch)

(* An architecture nobody knows only gets a warning.                       *)
ValidateConfig(c) ==
    /\ c.hidden > 0 /\ c.heads > 0 /\ c.kvHeads \in 1..c.heads
    /\ ~IndependentHeadDim(c.arch) => c.hidden % c.heads = 0
    /\ c.heads % c.kvHeads = 0
    /\ ~IndependentHeadDim(c.arch) => c.headDim = c.hidden \div c.heads

(* The default head dimension is computed whether it is needed or not.     *)
ParseHfConfig(hf) ==
    LET arch == NormalizeArchitecture(OrDefault(hf.arch, OrDefault(hf.modelType, "unknown")))
        native == arch \in DeepseekFamily
        hidden == OrDefault(hf.hidden, 4096)
        heads == OrDefault(hf.heads, 32)
        config == [arch |-> arch, hidden |-> hidden, heads |-> heads,
                   kvHeads |-> IF native THEN heads ELSE OrDefault(hf.kvHeads, heads),
                   headDim |-> IF native THEN OrDefault(hf.nope, 0) + OrDefault(hf.rope, 0)
                               ELSE OrDefault(hf.headDim, hidden \div heads)]
    IN  IF ~native /\ heads = 0 THEN Refused("panic")
        ELSE IF ~ValidateConfig(config) THEN Refused("error")
        ELSE [outcome |-> "ok", config |-> <<config>>]

(* GGUF metadata, with the same defaults.  Only six architectures are      *)
(* read, and nothing relates the head counts.                              *)
ParseGgufConfig(meta) ==
    LET arch == OrDefault(meta.arch, "llama")
        hidden == OrDefault(meta.hidden, 4096)
        heads == OrDefault(meta.heads, 32)
    IN  IF heads = 0 \/ arch \notin {"llama", "mistral"} \cup QwenFamily THEN Refused("error")
        ELSE [outcome |-> "ok",
              config |-> <<[arch |-> arch, hidden |-> hidden, heads |-> heads,
                            kvHeads |-> OrDefault(meta.kvHeads, heads),
                            headDim |-> OrDefault(meta.headDim, hidden \div heads)]>>]

-----------------------------------------------------------------------------
(* QwenConfig: [arch, hidden, heads, kvHeads, headDim (option), positive   *)
(* (the other sizes are not zero), plain (silu, finite and positive eps    *)
(* and theta, no scaled RoPE, no sliding window, no dropout), layers,      *)
(* experts, topK, width (options), step, mlpOnly, bias, tie,               *)
(* shared (the width of the shared expert, 0 for none)].                   *)

QwenHeadDim(q) == OrDefault(q.headDim, q.hidden \div q.heads)

(* Qwen2 projections always have a bias.                                   *)
AttentionBias(q) == ~IsQwen3(q.arch) \/ OrDefault(q.bias, FALSE)

ValidateMoe(q) ==
    /\ q.experts # <<>> /\ q.topK # <<>> /\ q.width # <<>>
    /\ q.experts[1] > 0 /\ q.topK[1] \in 1..q.experts[1] /\ q.width[1] > 0
    /\ q.step > 0
    /\ \A l \in q.mlpOnly : l < q.layers

(* In the order of the code, so that nothing is divided by a zero.         *)
ValidateFields(q) ==
    /\ q.arch \in QwenFamily
    /\ q.positive /\ q.hidden > 0 /\ q.layers > 0 /\ q.heads > 0 /\ q.kvHeads > 0
    /\ q.kvHeads <= q.heads /\ q.heads % q.kvHeads = 0
    /\ QwenHeadDim(q) > 0 /\ QwenHeadDim(q) % 2 = 0
    /\ ~IsQwen3(q.arch) => q.hidden % q.heads = 0
    /\ q.plain
    /\ IsMoe(q.arch) => ValidateMoe(q)

(* from_gguf: the sizes of the runtime configuration with the experts of   *)
(* the metadata; the embedding is tied when the file has no output.        *)
QwenFromGguf(core, meta) ==
    LET q == [arch |-> core.arch, hidden |-> core.hidden, heads |-> core.heads,
              kvHeads |-> core.kvHeads, headDim |-> <<core.headDim>>, positive |-> TRUE,
              plain |-> TRUE, layers |-> meta.layers, experts |-> meta.experts,
              topK |-> meta.topK, width |-> meta.width, step |-> 1, mlpOnly |-> {},
              bias |-> <<>>, tie |-> ~meta.hasOutput, shared |-> meta.shared]
    IN  IF core.arch \notin QwenFamily \/ ~meta.hasEps \/ ~ValidateFields(q) THEN Refused("error")
        ELSE [outcome |-> "ok", config |-> <<q>>]

(* The runtime configuration must agree with the checkpoint's.             *)
ValidateCore(q, core) ==
    /\ q.arch = core.arch /\ q.hidden = core.hidden /\ q.heads = core.heads
    /\ q.kvHeads = core.kvHeads /\ QwenHeadDim(q) = core.headDim

(* Which layers have experts.                                              *)
QwenSparse(q, layer) == IsMoe(q.arch) /\ layer \notin q.mlpOnly /\ (layer + 1) % q.step = 0

-----------------------------------------------------------------------------
(* DeepseekV3Config: [hidden, heads, freq, groups, topGroups, experts,     *)
(* topK, nope, rope, value, bias, scoring, firstDense, blocks].            *)

DeepseekValidate(d) ==
    /\ d.hidden > 0 /\ d.heads > 0
    /\ d.freq > 0
    /\ d.groups > 0 /\ d.experts % d.groups = 0
    /\ d.topGroups \in 1..d.groups
    /\ d.topK \in 1..d.experts
    /\ d.nope + d.rope > 0 /\ d.value > 0
    /\ ~d.bias
    /\ d.scoring \in {"softmax", "sigmoid"}

(* 128 when the file names none; two equal sizes; or an error.             *)
Fp8BlockSize(named) ==
    IF named = <<>> THEN <<128>>
    ELSE LET sizes == named[1]
         IN  IF Len(sizes) = 2 /\ sizes[1] > 0 /\ sizes[1] = sizes[2] THEN <<sizes[1]>> ELSE <<>>

DeepseekSparse(d, layer) == layer >= d.firstDense /\ layer % d.freq = 0

-----------------------------------------------------------------------------
(* The runner picks the builder; the registry only ever has factories that *)
(* refuse.                                                                 *)

BuilderOf(arch) ==
    CASE arch \in LlamaFamily -> "llama"
      [] arch \in DeepseekFamily -> "deepseek"
      [] arch \in QwenFamily -> "qwen"
      [] OTHER -> "error"

RegistryCreate(arch) == IF arch \in Supported THEN "factory_refuses" ELSE "unsupported"

(* Every configuration a builder gets was accepted by its readers.         *)
AcceptedQwen(hf, q) ==
    LET core == ParseHfConfig(hf)
    IN  core.outcome = "ok" /\ ValidateFields(q) /\ ValidateCore(q, core.config[1])

=============================================================================
