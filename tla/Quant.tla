------------------------------- MODULE Quant --------------------------------
(***************************************************************************)
(* Weight quantization: which method a checkpoint gets                     *)
(* (crates/rllm-quant/src/schema.rs, method.rs and the factories), what    *)
(* each one stores and reads back (qtensor.rs, int8.rs, mxfp.rs, nvfp.rs), *)
(* the GPTQ quantizer (crates/rllm-model/src/gptq.rs), and the two readers *)
(* of its packed words (layers.rs and cuda/gptq.cu, cuda/awq.cu).          *)
(*                                                                         *)
(* Weights are integers in a unit fine enough for the scales to be exact;  *)
(* where a scale is a quotient, both sides are multiplied by its           *)
(* denominator.  A packed word holds Pack codes of `base' values each (16  *)
(* in the code: the base is a parameter because TLC's integers are as wide *)
(* as the word).                                                           *)
(***************************************************************************)
EXTENDS Kernels, Sequences, FiniteSets, FiniteSetsExt, SequencesExt, Functions

Pack == 8

AbsMax(row) == Max({0} \cup {Magnitude(row[i]) : i \in DOMAIN row})

-----------------------------------------------------------------------------
(* QuantSchema: [method, format, bits, strategy, symmetric, ignore], with  *)
(* "none" or 0 for an absent entry.                                        *)

IsCompressedTensorsInt8(s) == s.method = "compressed-tensors" \/ s.format = "int-quantized"

IsInt8WeightOnly(s) ==
    /\ IsCompressedTensorsInt8(s)
    /\ s.bits \in {0, 8}
    /\ s.strategy \in {"none", "channel", "tensor"}

UnsupportedInt8Strategy(s) ==
    /\ IsCompressedTensorsInt8(s)
    /\ s.bits \in {0, 8}
    /\ s.strategy \notin {"none", "channel", "tensor"}

(* factory_from_config: the schema of the checkpoint before the option.    *)
FactoryFromConfig(kind, hasSchema, s) ==
    CASE hasSchema /\ IsInt8WeightOnly(s)        -> "int8_strict"
      [] hasSchema /\ UnsupportedInt8Strategy(s) -> "error"
      [] hasSchema /\ IsCompressedTensorsInt8(s) /\ ~IsInt8WeightOnly(s)
                   /\ ~UnsupportedInt8Strategy(s) -> "error"
      [] OTHER ->
            CASE kind \in {"absent", "none", "gptq", "awq"}   -> "unquantized"
              [] kind \in {"int8", "compressed_tensors"}      -> "int8"
              [] kind \in {"mxfp8", "mxfp4"}                  -> "mxfp"
              [] kind = "nvfp4"                               -> "nvfp"
              [] kind = "gguf"                                -> "gguf"
              [] OTHER                                        -> "error"

-----------------------------------------------------------------------------
(* The factories take the tensors of one layer out of the source.  `have'  *)
(* is the set of those present: "weight", "scale", "zero" among the float  *)
(* tensors, "qweight" among the raw I8 ones, "gguf" among the GGUF ones.   *)

BuildUnquantized(have) == IF "weight" \in have THEN "fp" ELSE "error"

BuildGguf(have) == IF "gguf" \in have THEN "gguf" ELSE "error"

(* A layer the schema ignores stays as it is; without a raw tensor a       *)
(* strict factory refuses and another quantizes.                           *)
BuildInt8(have, ignored, strict, symmetric) ==
    IF ignored THEN BuildUnquantized(have)
    ELSE IF "qweight" \notin have
         THEN IF strict \/ "weight" \notin have THEN "error" ELSE "int8_online"
    ELSE IF "scale" \notin have \/ (~symmetric /\ "zero" \notin have) THEN "error"
    ELSE IF symmetric THEN "int8" ELSE "int8_asymmetric"

BuildMxfp(have) ==
    CASE "weight" \in have /\ "scale" \in have    -> "packed"
      [] "weight" \in have /\ "scale" \notin have -> "online"
      [] OTHER -> IF {"qweight", "scale"} \subseteq have THEN "packed" ELSE "error"

BuildNvfp(have) ==
    IF "weight" \in have THEN IF "scale" \in have THEN "packed" ELSE "online"
    ELSE IF {"qweight", "scale"} \subseteq have THEN "packed" ELSE "error"

-----------------------------------------------------------------------------
(* INT8, one scale for each output row: absmax / 127, or 1 for a row of    *)
(* zeros.  A code times the row's absmax is 127 times the weight it        *)
(* stands for.                                                             *)

ChannelScale(row) == IF AbsMax(row) > 0 THEN AbsMax(row) ELSE 127

QuantizeWeightPerChannel(row) ==
    [i \in DOMAIN row |-> Clamp(RoundDiv(127 * row[i], ChannelScale(row)), -127, 127)]

(* QuantTensor::dequantize, times the denominator of the scale.            *)
DequantizeInt8(codes, scale, zero) == [i \in DOMAIN codes |-> (codes[i] - zero) * scale]

(* w8a8_matmul_reference_f32 for one output: both sides quantized, the     *)
(* product is 127 * 127 times the real one.                                *)
W8A8(x, row) ==
    LET qx == QuantizeWeightPerChannel(x)
        qw == QuantizeWeightPerChannel(row)
    IN  MapThenSumSet(LAMBDA i : qx[i] * qw[i], DOMAIN x) * ChannelScale(x) * ChannelScale(row)

(* Int8Linear::new: what it refuses.                                       *)
Int8Refused(rank, strategy, scales, outs, positive, symmetric, zeros) ==
    LET count == IF strategy = "channel" THEN outs ELSE 1
    IN  \/ rank # 2
        \/ strategy \notin {"channel", "tensor"}
        \/ ~positive
        \/ ~symmetric /\ zeros = 0
        \/ scales # count
        \/ zeros # 0 /\ zeros # count

-----------------------------------------------------------------------------
(* The sixteen FP4 values, doubled, by code.                               *)
FP4Doubled == <<0, 1, 2, 3, 4, 6, 8, 12, 0, -1, -2, -3, -4, -6, -8, -12>>

(* find_closest_fp4(val / scale): the first code at the least distance.    *)
FindClosestFp4(val, scale) ==
    LET dist(c) == Magnitude(2 * val - FP4Doubled[c + 1] * scale)
        best == Min({dist(c) : c \in 0..15})
    IN  Min({c \in 0..15 : dist(c) = best})

(* The least power of two that is at least absmax / top, for an absmax     *)
(* large enough that it is not a fraction.                                 *)
PowerOfTwoScale(absmax, top) ==
    IF absmax = 0 THEN 1 ELSE 2 ^ Min({k \in 0..16 : top * 2 ^ k >= absmax})

PackPair(lo, hi) == lo + 16 * hi

UnpackPair(byte, i) == IF i % 2 = 0 THEN byte % 16 ELSE byte \div 16

ValidateOnlineShape(ins, group, packed) ==
    group # 0 /\ ins % group = 0 /\ (packed => group % 2 = 0)

GroupOf(row, g, group) == [k \in 1..group |-> row[g * group + k]]

(* Packed codes and the scale of each group.                               *)
QuantizeMxfp4(row, group) ==
    LET scale(g) == PowerOfTwoScale(AbsMax(GroupOf(row, g, group)), 6)
        code(i) == FindClosestFp4(row[i + 1], scale(i \div group))
    IN  [bytes  |-> [b \in 0..(Len(row) \div 2 - 1) |-> PackPair(code(2 * b), code(2 * b + 1))],
         scales |-> [g \in 0..(Len(row) \div group - 1) |-> scale(g)]]

(* Twice the weights.                                                      *)
DequantizeMxfp4(q, ins, group) ==
    [i \in 1..ins |->
        FP4Doubled[UnpackPair(q.bytes[(i - 1) \div 2], i - 1) + 1] * q.scales[(i - 1) \div group]]

(* NVFP4: the scale is absmax / 6, so everything is times six; the group   *)
(* is sixteen wide.                                                        *)
ValidateGroupSize(ins, group) == group = 16 /\ ins % group = 0

QuantizeNvfp4(row, group) ==
    LET scale(g) == LET m == AbsMax(GroupOf(row, g, group)) IN IF m > 0 THEN m ELSE 6
        code(i) == FindClosestFp4(6 * row[i + 1], scale(i \div group))
    IN  [bytes  |-> [b \in 0..(Len(row) \div 2 - 1) |-> PackPair(code(2 * b), code(2 * b + 1))],
         scales |-> [g \in 0..(Len(row) \div group - 1) |-> scale(g)]]

(* Twelve times the weights.                                               *)
DequantizeNvfp4(q, ins, group) ==
    [i \in 1..ins |->
        FP4Doubled[UnpackPair(q.bytes[(i - 1) \div 2], i - 1) + 1] * q.scales[(i - 1) \div group]]

(* E8M0: an exponent with bias 127; 255 is refused.                        *)
DecodeE8M0(exponent) == IF exponent = 255 THEN <<>> ELSE <<exponent - 127>>

-----------------------------------------------------------------------------
(* FP8 of the KV cache, E4M3 or E5M2.  A float is [neg, exp, sixteenths],  *)
(* (16 + sixteenths) / 16 * 2^exp, the mantissa cut to four bits; a code   *)
(* is [neg, exp, mant] with the biased exponent.                           *)

Fp8Bias(e5m2) == IF e5m2 THEN 15 ELSE 7

(* float_to_fp8: bits below the mantissa are dropped, a small value is     *)
(* flushed to zero and a large one clipped.  An E4M3 value from 480 up to  *)
(* 512 is not clipped and gets the code of NaN.                            *)
FloatToFp8(v, e5m2) ==
    LET exp == v.exp + Fp8Bias(e5m2)
        code(e, m) == [neg |-> v.neg, exp |-> e, mant |-> m]
    IN  CASE exp <= 0                                -> code(0, 0)
          [] exp >= (IF e5m2 THEN 31 ELSE 16)        -> IF e5m2 THEN code(30, 3) ELSE code(15, 6)
          [] exp \in 1..(IF e5m2 THEN 30 ELSE 15)    -> code(exp, v.sixteenths \div (IF e5m2 THEN 4 ELSE 2))

IsNaN(c, e5m2) == IF e5m2 THEN c.exp = 31 ELSE c.exp = 15 /\ c.mant = 7

(* fp8_to_float of a code that is not NaN: the magnitude m * 2^e as        *)
(* <<m, e>>.  A subnormal E4M3 code is read in units of 2^-7.              *)
Fp8ToFloat(c, e5m2) ==
    LET steps == IF e5m2 THEN 4 ELSE 8
    IN  IF c.exp = 0 THEN <<c.mant, IF e5m2 THEN -16 ELSE -7>>
        ELSE <<steps + c.mant, c.exp - Fp8Bias(e5m2) - (IF e5m2 THEN 2 ELSE 3)>>

-----------------------------------------------------------------------------
(* GPTQ.  quant_params and quantize_value on integers: the scale is        *)
(* (max - min) / qmax, so a weight is compared times qmax; a group of one  *)
(* value has scale 1.                                                      *)

GptqConfigOk(bits, group, dampValid) == bits = 4 /\ group # 0 /\ dampValid

ValidateLayerDims(ins, outs, len) ==
    ins # 0 /\ outs # 0 /\ ins % Pack = 0 /\ outs % Pack = 0 /\ len = ins * outs

(* Stable: columns of equal weight keep their order.                       *)
ColumnOrder(diag, actOrder) ==
    LET n == Len(diag)
        before(a, b) == diag[a] > diag[b] \/ (diag[a] = diag[b] /\ a < b)
    IN  IF ~actOrder THEN [i \in 1..n |-> i - 1]
        ELSE [i \in 1..n |-> (CHOOSE a \in 1..n : Cardinality({b \in 1..n : before(b, a)}) = i - 1) - 1]

(* The group of an input is that of its place in the order.                *)
MakeGroupIndex(group, order) ==
    [i \in 0..(Len(order) - 1) |-> ((CHOOSE k \in 1..Len(order) : order[k] = i) - 1) \div group]

NumGroups(gIdx) == 1 + Max({gIdx[i] : i \in DOMAIN gIdx})

QuantParams(values, qmax) ==
    LET lo == Min(ToSet(values))
        hi == Max(ToSet(values))
    IN  IF lo = hi THEN [num |-> 1, den |-> 1, zero |-> (qmax + 2) \div 2]
        ELSE [num |-> hi - lo, den |-> qmax,
              zero |-> Clamp(RoundDiv(-lo * qmax, hi - lo), 1, qmax + 1)]

QuantizeValue(value, p, qmax) == Clamp(RoundDiv(value * p.den, p.num) + p.zero, 0, qmax)

(* One word of eight codes, as the i32 the code stores.                    *)
Word(codes, base) ==
    LET u == MapThenSumSet(LAMBDA n : codes[n] * base ^ n, 0..(Pack - 1))
    IN  IF u >= base ^ Pack \div 2 THEN u - base ^ Pack ELSE u

(* A faulty reader that shifts the signed word.                            *)
NibbleSigned(word, n, base) == ((IF word < 0 THEN -word ELSE word) \div base ^ n) % base

(* The word as unsigned, then one code of it.                              *)
Nibble(word, n, base) ==
    ((IF word < 0 THEN word + base ^ Pack ELSE word) \div base ^ n) % base

(* q[input, output]; one packed row covers eight inputs.                   *)
PackQweight(q, ins, outs, base) ==
    [r \in 0..(ins \div Pack - 1), o \in 0..(outs - 1) |->
        Word([n \in 0..(Pack - 1) |-> q[r * Pack + n, o]], base)]

(* Zeros are stored less one; one packed column covers eight outputs.      *)
PackQzeros(zeros, groups, outs, base) ==
    [g \in 0..(groups - 1), c \in 0..(outs \div Pack - 1) |->
        Word([n \in 0..(Pack - 1) |->
                IF zeros[g, c * Pack + n] = 0 THEN 0 ELSE zeros[g, c * Pack + n] - 1], base)]

(* dequantize_gptq: (code - (stored zero + 1)) * scale, by input, output.  *)
DequantizeGptq(qweight, qzeros, scales, gIdx, ins, outs, base) ==
    [i \in 0..(ins - 1), o \in 0..(outs - 1) |->
        ( Nibble(qweight[i \div Pack, o], i % Pack, base)
          - (Nibble(qzeros[gIdx[i], o \div Pack], o % Pack, base) + 1) ) * scales[gIdx[i], o]]

(* gptq_gemm_f16_kernel for one row x: the kernel is told in / group_size  *)
(* groups, and a thread that meets a later one leaves its output as it is. *)
GptqGemm(x, qweight, qzeros, scales, gIdx, ins, outs, group, base) ==
    LET w == DequantizeGptq(qweight, qzeros, scales, gIdx, ins, outs, base)
    IN  [o \in 0..(outs - 1) |->
            IF \E k \in 0..(ins - 1) : gIdx[k] >= ins \div group THEN 0
            ELSE MapThenSumSet(LAMBDA k : x[k] * w[k, o], 0..(ins - 1))]

(* forward_fp on the dequantized weight.                                   *)
ForwardFp(x, w, ins, outs) ==
    [o \in 0..(outs - 1) |-> MapThenSumSet(LAMBDA k : x[k] * w[k, o], 0..(ins - 1))]

(* Whether Linear::forward launches the kernel of a GPTQ weight.           *)
TriesGptqCuda(bits, half, onDevice, ins, outs, gIdxLen) ==
    bits = 4 /\ half /\ onDevice /\ outs % 8 = 0 /\ ins % 8 = 0 /\ gIdxLen = ins

AwqReverseOrder == <<0, 4, 1, 5, 2, 6, 3, 7>>

(* dequantize_awq: the codes of a word are outputs, in AWQ's order, and    *)
(* zeros are stored as they are.                                           *)
DequantizeAwq(qweight, qzeros, scales, ins, outs, group, base) ==
    [i \in 0..(ins - 1), o \in 0..(outs - 1) |->
        LET n == AwqReverseOrder[(o % Pack) + 1]
        IN  ( Nibble(qweight[i, o \div Pack], n, base)
              - Nibble(qzeros[i \div group, o \div Pack], n, base) ) * scales[i \div group, o]]

=============================================================================
