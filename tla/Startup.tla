------------------------------- MODULE Startup -------------------------------
(***************************************************************************)
(* From command-line arguments to a running worker: data types and         *)
(* quantization plans (crates/rllm-core/src/optimizations.rs, dtype.rs),   *)
(* cache sizing (crates/rllm-server/src/server.rs, crates/rllm-cache/src/  *)
(* spec.rs, crates/rllm-worker/src/worker.rs), the order in which the      *)
(* executor initialises the worker (crates/rllm-executor/src/uniproc.rs),  *)
(* INT8 calibration (crates/rllm-worker/src/calibration.rs), sleeping and  *)
(* the parallel plans (optimizations.rs).                                  *)
(*                                                                         *)
(* An optional value is a sequence of at most one element; a fraction of   *)
(* memory is in hundredths.                                                *)
(***************************************************************************)
EXTENDS Integers, Sequences, FiniteSets, FiniteSetsExt

BytesPerScalar(dtype) ==
    CASE dtype = "F32" -> 4
      [] dtype \in {"F16", "BF16"} -> 2
      [] dtype \in {"FP8E4M3", "FP8E5M2", "INT8", "INT4"} -> 1

OrOther(a, b) == IF a # <<>> THEN a ELSE b

-----------------------------------------------------------------------------
(* Quantization plans.                                                     *)

PlanOf(format, bits, group, kv) == [format |-> format, bits |-> bits, group |-> group, kv |-> kv]

Unquantized == PlanOf("unquantized", <<>>, <<>>, "F16")

(* The plan of a kind, before the configuration's own values.              *)
BasePlan(kind) ==
    CASE kind \in {"gptq", "awq", "int4"} -> PlanOf(kind, <<4>>, <<128>>, "F16")
      [] kind \in {"mxfp8"} -> PlanOf(kind, <<8>>, <<32>>, "FP8E4M3")
      [] kind \in {"mxfp4"} -> PlanOf(kind, <<4>>, <<32>>, "FP8E4M3")
      [] kind = "nvfp4" -> PlanOf(kind, <<4>>, <<16>>, "FP8E4M3")
      [] kind = "fp8" -> PlanOf(kind, <<8>>, <<>>, "FP8E4M3")
      [] kind = "int8" -> PlanOf(kind, <<8>>, <<>>, "INT8")
      [] kind \in {"compressed_tensors", "model_opt", "torch_ao"} ->
           PlanOf(kind, <<8>>, <<>>, "F16")
      [] kind \in {"gguf", "bits_and_bytes"} -> [Unquantized EXCEPT !.format = kind]
      [] kind = "none" -> Unquantized

PositiveGroup(p) == p.group # <<>> /\ p.group[1] > 0

(* QuantizationPlan::validate.                                             *)
ValidPlan(p) ==
    /\ p.format \in {"gptq", "awq"} =>
         p.bits \in {<<2>>, <<3>>, <<4>>, <<8>>} /\ PositiveGroup(p)
    /\ p.format = "fp8" => p.kv \in {"FP8E4M3", "FP8E5M2"}
    /\ p.format \in {"mxfp8", "int8"} => p.bits = <<8>>
    /\ p.format \in {"mxfp4", "nvfp4", "int4"} => p.bits = <<4>>
    /\ p.format \in {"mxfp8", "mxfp4", "nvfp4"} => PositiveGroup(p)

(* QuantizationPlan::from_config: an invalid one is an error.              *)
FromConfig(q) ==
    LET base == BasePlan(q.kind)
        plan == CASE q.kind \in {"gptq", "awq"} ->
                       [base EXCEPT !.group = OrOther(q.group, @), !.bits = OrOther(q.bits, @)]
                  [] q.kind = "int4" -> [base EXCEPT !.group = OrOther(q.group, @)]
                  [] q.kind = "int8" -> [base EXCEPT !.group = q.group]
                  [] OTHER -> base
    IN  IF ValidPlan(plan) THEN <<plan>> ELSE <<>>

Kinds == {"fp8", "mxfp8", "mxfp4", "nvfp4", "int8", "int4", "gptq", "awq", "gguf",
          "compressed_tensors", "model_opt", "torch_ao"}

(* parse_quantization: [ok, config]; `auto` keeps what the model says.     *)
ParseQuantization(arg, bits, group) ==
    CASE arg = "none" -> [ok |-> TRUE, config |-> <<>>]
      [] arg \notin Kinds \cup {"none"} -> [ok |-> FALSE, config |-> <<>>]
      [] arg = "int8" /\ bits # <<8>> -> [ok |-> FALSE, config |-> <<>>]
      [] OTHER -> [ok |-> TRUE, config |-> <<[kind |-> arg, group |-> group, bits |-> bits]>>]

(* The dtype of the KV cache: the argument, else the plan's (the default   *)
(* plan's when the configuration is invalid), else the model's.            *)
CacheDtype(arg, quant, modelDtype) ==
    IF arg \in {"F16", "BF16", "FP8E4M3", "FP8E5M2", "INT8"} THEN arg
    ELSE IF quant = <<>> THEN modelDtype
    ELSE OrOther(FromConfig(quant[1]), <<Unquantized>>)[1].kv

-----------------------------------------------------------------------------
(* Sizes.                                                                  *)

DivCeil(a, b) == (a + b - 1) \div b

(* num_cache_blocks: enough for every sequence at full length.             *)
NumCacheBlocks(maxSeqs, maxModelLen, blockSize) ==
    Max({maxSeqs * Max({DivCeil(maxModelLen, blockSize), 1}), 1})

BytesPerBlock(spec) ==
    2 * spec.layers * spec.blockSize * spec.kvHeads * spec.headDim * BytesPerScalar(spec.dtype)

Minus(a, b) == IF a > b THEN a - b ELSE 0

(* A faulty profile that counts the weights as free.                       *)
KvBudgetWithWeights(free, total, util) == (((total * util) \div 100) * 95) \div 100

(* What fit_kv_blocks leaves for the cache: the process's share, less what *)
(* is in use already, less the margin for activations.                     *)
KvBudget(free, total, util) ==
    (Minus((total * util) \div 100, Minus(total, free)) * 95) \div 100

(* The memory fit_kv_blocks goes by.  The driver is queried twice, first   *)
(* by determine_available_memory: env.queries says which of the two it     *)
(* answers (neither, in a build without it).  When the second fails, what  *)
(* the first found free is all there is; when both do, an estimate.        *)
MemorySeen(env) ==
    LET first == IF 1 \in env.queries THEN env.free ELSE env.estimate
    IN  IF 2 \in env.queries THEN [free |-> env.free, total |-> env.total]
        ELSE [free |-> first, total |-> first]

(* fit_kv_blocks: nothing when fewer blocks fit than the least.            *)
FitKvBlocks(spec, free, total, util, maxBlocks, least) ==
    LET bytes == BytesPerBlock(spec)
        fit   == Min({KvBudget(free, total, util) \div bytes, maxBlocks})
    IN  IF bytes = 0 THEN <<>> ELSE IF fit < least THEN <<>> ELSE <<fit>>

(* KVCacheSpec::num_blocks_from_available_memory.                          *)
BlocksFromMemory(spec, total, weights, activations, util) ==
    IF BytesPerBlock(spec) = 0 THEN 0
    ELSE Minus((total * util) \div 100, weights + activations) \div BytesPerBlock(spec)

(* int8_scale, per 127; an activation magnitude that is no finite number,  *)
(* told by -1, is an error.                                                *)
Int8Scale(absmax) ==
    IF absmax < 0 THEN <<>> ELSE IF absmax = 0 THEN <<127>> ELSE <<absmax>>

-----------------------------------------------------------------------------
(* The worker: [device, loaded, blocks (of cache_config), cache (of        *)
(* gpu_kv_cache), reported (bytes in the metric), scales].                 *)

NewWorker(device) ==
    [device |-> device, loaded |-> FALSE, blocks |-> <<>>, cache |-> <<>>,
     reported |-> 0, scales |-> <<>>]

(* load_model_weights: a CUDA worker refuses a model that landed on a CPU. *)
LoadFails(w, modelOnCuda) == w.device = "cuda" /\ ~modelOnCuda

Loaded(w) == [w EXCEPT !.loaded = TRUE]

(* initialize_kv_cache; only a build with the kernels allocates memory,    *)
(* which the device may refuse.                                            *)
AllocationFails(env) == env.cudaBuild /\ ~env.allocates

WithCache(w, blocks, spec, cudaBuild) ==
    [w EXCEPT !.blocks = <<blocks>>,
              !.reported = IF w.device = "cuda" THEN blocks * BytesPerBlock(spec) ELSE @,
              !.cache = IF cudaBuild THEN <<[blocks |-> blocks, dtype |-> spec.dtype]>> ELSE @]

(* calibrate_kv_cache: only an INT8 cache has scales to set.               *)
Calibrates(w) == w.cache # <<>> /\ w.cache[1].dtype = "INT8"

(* It needs the model, a forward pass that fills the keys and values of    *)
(* every layer, and magnitudes that are numbers.                           *)
CalibrationFails(w, env) ==
    /\ Calibrates(w)
    /\ \/ ~w.loaded \/ ~env.forwards
       \/ <<>> \in {Int8Scale(env.kMax), Int8Scale(env.vMax)}

CalibrateKvCache(w, kMax, vMax) ==
    IF ~Calibrates(w) THEN w
    ELSE [w EXCEPT !.scales = <<[k |-> Int8Scale(kMax)[1], v |-> Int8Scale(vMax)[1]]>>]

(* UniProcExecutor::initialize, of which the first configuration [spec,    *)
(* blocks] counts.  env: [modelOnCuda, cudaBuild, queries, free, total,    *)
(* estimate, util, least, allocates, forwards, kMax, vMax].  The result is *)
(* the worker and the number of blocks handed to the scheduler, or         *)
(* nothing; without a configuration there is no cache and no block.        *)
Initialize(w, configs, env) ==
    LET up     == Loaded(w)
        config == configs[1]
        seen   == MemorySeen(env)
        fitted == IF w.device = "cpu" THEN <<config.blocks>>
                  ELSE FitKvBlocks(config.spec, seen.free, seen.total, env.util, config.blocks, env.least)
        cached == WithCache(up, fitted[1], config.spec, env.cudaBuild)
    IN  IF LoadFails(w, env.modelOnCuda) THEN <<>>
        ELSE IF configs = <<>> THEN <<[worker |-> up, blocks |-> 0]>>
        ELSE IF fitted = <<>> THEN <<>>
        ELSE IF AllocationFails(env) \/ CalibrationFails(cached, env) THEN <<>>
        ELSE <<[worker |-> CalibrateKvCache(cached, env.kMax, env.vMax), blocks |-> fitted[1]]>>

(* sleep forgets the configuration, not the memory; wake_up restores       *)
(* nothing.                                                                *)
Sleep(w, level) ==
    IF level \in {1, 2} THEN [w EXCEPT !.blocks = <<>>, !.reported = 0] ELSE w

WakeUp(w) == w

-----------------------------------------------------------------------------
(* Parallel plans.                                                         *)

(* TensorParallelPlan::shard_range, PipelineParallelPlan::layer_range.     *)
ShardRange(worldSize, rank, total) ==
    LET base  == total \div worldSize
        rem   == total % worldSize
        start == rank * base + Min({rank, rem})
        len   == base + (IF rank < rem THEN 1 ELSE 0)
    IN  start..(start + len - 1)

OwnsRequest(replicas, replica, hash) == replicas > 0 /\ hash % replicas = replica

(* LoraCachePolicy::admits, CpuKvOffloadPlan::capacity_blocks.             *)
AdmitsAdapter(active, maxActive, capacity) == active < Min({maxActive, capacity})

OffloadCapacity(pinned, blockBytes) == IF blockBytes = 0 THEN 0 ELSE pinned \div blockBytes

=============================================================================
