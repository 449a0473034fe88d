---------------------------- MODULE MCAlgorithms -----------------------------
(* Small inputs for the parts of Algorithms.                               *)
EXTENDS Algorithms

-----------------------------------------------------------------------------
(* Attention: two sequences of two blocks, apart or sharing their first.   *)

MCGeometry(heads, kvHeads, dim) ==
    [heads |-> heads, kvHeads |-> kvHeads, dim |-> dim, block |-> 2, blocks |-> 5]

Apart  == <<<<3, 0>>, <<1, 4>>>>
Shared == <<<<3, 0>>, <<3, 4>>>>

OnPath(g, path, tables, shared) ==
    [g |-> g, path |-> path, tables |-> tables, shared |-> shared, scale |-> 3]

MCBlockCases == {[dim |-> d, keys |-> 2] : d \in {1, 2, 3, 4}} \cup {[dim |-> 5, keys |-> 1]}

MCAttentionCases ==
    LET grouped == MCGeometry(4, 2, 1)
        plain == MCGeometry(2, 2, 2)
        host == {[kind |-> "host", layout |-> l[1], window |-> l[2]] :
                    l \in {<<"legacy", 2>>, <<"nhd", 0>>, <<"hnd", 2>>}}
        op(ds) == {[kind |-> "op", dtype |-> d] : d \in ds}
    IN  {OnPath(grouped, p, Apart, 0) :
            p \in host \cup op({"BF16", "FP8E5M2"}) \cup {[kind |-> "eager", mla |-> FALSE]}}
        \cup {OnPath(grouped, p, Shared, 2) : p \in op({"FP8E4M3", "INT8"})}
        \cup {OnPath(plain, p, Apart, 0) :
                p \in {[kind |-> "mla", dtype |-> "F16"], [kind |-> "eager", mla |-> TRUE]}}

-----------------------------------------------------------------------------
(* Routing.                                                                *)

MCRouteCases ==
    LET balanced == {s \in [0..3 -> 1..3] : s[0] + s[1] + s[2] + s[3] = 8}
        route(r, s, k, gs, n) ==
            [router |-> r, scores |-> s, bias |-> [e \in 0..3 |-> (e % 2) * 2], k |-> k,
             groups |-> gs[1], topGroups |-> gs[2], normalize |-> n, shared |-> n]
    IN  {route("qwen", s, k, <<1, 1>>, n) : s \in balanced, k \in 1..2, n \in BOOLEAN}
        \cup {route(r, s, k, gs, n) : r \in {"dense", "noaux"}, s \in balanced, k \in 1..2,
                gs \in {<<1, 1>>, <<2, 1>>, <<4, 2>>}, n \in BOOLEAN}

-----------------------------------------------------------------------------
(* Quantization.                                                           *)

MCQuantCases ==
    {[kind |-> "int8", row |-> r] : r \in [1..3 -> {-90, -3, 0, 2}]}
    \cup {[kind |-> "kv", val |-> v, scale |-> s] : v \in -20..20, s \in {1, 3}}
    \cup {[kind |-> "fp8", e5m2 |-> f, val |-> [neg |-> n, exp |-> x, sixteenths |-> m]] :
            f \in BOOLEAN, n \in BOOLEAN, x \in -16..16, m \in {0, 1, 7, 13, 14, 15}}
    \cup {[kind |-> "mxfp4", row |-> r, group |-> g] : r \in [1..4 -> {-24, 0, 7}], g \in {2, 4}}
    \cup {[kind |-> "nvfp4", row |-> [i \in 1..16 |-> ((i * s) % 11) - 6]] : s \in 0..4}
    \cup {[kind |-> "gptq", group |-> g, seed |-> s, actOrder |-> a] :
            g \in {2, 3, 8}, s \in 1..3, a \in BOOLEAN}
    \cup {[kind |-> "awq", group |-> g, seed |-> s] : g \in {2, 4, 8}, s \in 1..3}
    \cup {[kind |-> "params", row |-> r] : r \in [1..3 -> {-9, -4, 0, 3}]}

-----------------------------------------------------------------------------
(* Configurations.                                                         *)

Hf(arch, hidden, heads, kvHeads, headDim) ==
    [arch |-> arch, modelType |-> <<"llama">>, hidden |-> hidden, heads |-> heads,
     kvHeads |-> kvHeads, headDim |-> headDim, nope |-> <<4>>, rope |-> <<2>>]

Qwen(arch, kvHeads, headDim, experts, topK) ==
    [arch |-> arch, hidden |-> 8, heads |-> 4, kvHeads |-> kvHeads, headDim |-> headDim,
     positive |-> TRUE, plain |-> TRUE, layers |-> 2, experts |-> experts, topK |-> topK,
     width |-> <<4>>, step |-> 1, mlpOnly |-> {}, bias |-> <<>>, tie |-> FALSE,
     shared |-> 0]

MCConfigCases ==
    {[kind |-> "hf", hf |-> Hf(a, h, n, kv, d)] :
        a \in {<<"llama">>, <<"qwen3">>, <<"deepseek_v3">>, <<"gpt">>, <<>>}, h \in {<<>>, <<8>>, <<0>>},
        n \in {<<>>, <<4>>, <<0>>, <<3>>}, kv \in {<<>>, <<2>>, <<3>>}, d \in {<<>>, <<2>>}}
    \cup {[kind |-> "qwen", hf |-> Hf(<<a>>, <<8>>, <<4>>, <<2>>, <<2>>), q |-> Qwen(a, kv, d, <<4>>, k)] :
            a \in {"qwen2", "qwen3_moe"}, kv \in 1..3, d \in {<<>>, <<2>>, <<3>>}, k \in {<<>>, <<2>>, <<5>>}}
    \cup {[kind |-> "gguf",
           meta |-> [arch |-> a, hidden |-> <<8>>, heads |-> n, kvHeads |-> kv, headDim |-> d, layers |-> 2,
                     experts |-> e, topK |-> k, width |-> <<4>>, hasOutput |-> TRUE, hasEps |-> eps,
                     shared |-> 0]] :
            a \in {<<"llama">>, <<"qwen2">>, <<"qwen3_moe">>, <<"gemma">>}, n \in {<<4>>, <<0>>, <<3>>},
            kv \in {<<>>, <<2>>}, d \in {<<>>, <<2>>}, e \in {<<>>, <<4>>}, k \in {<<2>>, <<5>>}, eps \in BOOLEAN}
    \cup {[kind |-> "deepseek",
           d |-> [hidden |-> 8, heads |-> 4, freq |-> f, groups |-> g, topGroups |-> tg, experts |-> 4,
                  topK |-> k, nope |-> 4, rope |-> 2, value |-> 2, bias |-> FALSE, scoring |-> sc,
                  firstDense |-> 1, blocks |-> b]] :
            f \in 0..1, g \in 0..3, tg \in 0..2, k \in {0, 2, 5}, sc \in {"softmax", "tanh"},
            b \in {<<>>, <<(<<128, 128>>)>>, <<(<<128, 64>>)>>}}

-----------------------------------------------------------------------------
(* Fetching.                                                               *)

MCFetchCases ==
    LET repo(index, single, shards, ggufs) ==
            [index |-> index, single |-> single, shards |-> shards, ggufs |-> ggufs]
        ggufs == <<[file |-> 100, rank |-> 3], [file |-> 101, rank |-> 1], [file |-> 102, rank |-> 1]>>
        repos == {repo(TRUE, FALSE, {1, 2}, <<>>), repo(FALSE, TRUE, {}, <<>>),
                  repo(FALSE, FALSE, {0, 1}, <<>>), repo(FALSE, FALSE, {}, ggufs), repo(FALSE, FALSE, {}, <<>>)}
        fetch(dir, local, r, leaves, width, fails, answers, prompted) ==
            [isDir |-> dir, local |-> local, repo |-> r, indexed |-> {1, 2}, leaves |-> leaves,
             width |-> width, fails |-> fails, answers |-> answers, token |-> "none", prompted |-> prompted]
        open == [none |-> "ok", given |-> "ok"]
        gated == [none |-> "auth", given |-> "ok"]
    IN  {fetch(FALSE, {}, r, {}, w, f, a, p) : r \in repos, w \in 1..2, f \in {{}, {2}},
                a \in {open, gated}, p \in {"none", "given"}}
        \cup {fetch(TRUE, l, r, v, 1, {}, open, "none") : l \in SUBSET {0, 1, 2}, r \in repos, v \in {{}, {2}}}

-----------------------------------------------------------------------------
(* Checkpoints, as their tools name the tensors.                           *)

Weights(linears, suffixes) == {<<at[1], at[2], at[3], s>> : at \in linears, s \in suffixes}

(* Two shards: the layers, and the rest.                                   *)
File(kind, plain, raw) ==
    LET shard(layered) == [n \in {m \in plain \cup raw : (m[1] >= 0) = layered} |->
                              IF n \in raw THEN "i8" ELSE "f16"]
    IN  LoadShards(EmptyMap(kind), <<shard(TRUE), shard(FALSE)>>).map

(* A GGUF file has its own names, and quantizes its linear layers.         *)
GgufFile(linears, others) ==
    LET own(module) == CHOOSE m \in DOMAIN GgufModule : GgufModule[m] = module
        tensor(n, q) == [name |-> [layer |-> n[1], module |-> own(n[3]), suffix |-> n[4]], quantized |-> q]
    IN  LoadGgufWeights({tensor(n, TRUE) : n \in linears} \cup {tensor(n, FALSE) : n \in others})

Int8File(plain, raw) ==
    [File("absent", plain, raw) EXCEPT !.ignored = {"lm_head"}, !.present = TRUE,
        !.schema = [method |-> "compressed-tensors", format |-> "int-quantized", bits |-> 8,
                    strategy |-> "channel", symmetric |-> TRUE]]

(* A checkpoint of some format, with the linear layers and other tensors   *)
(* of a model and perhaps its own head.                                    *)
InFormat(form, linears, others, head) ==
    LET own(s) == IF head = "own" THEN {<<-1, -1, "lm_head", s>>} ELSE {}
        rest == others \cup own("weight")
    IN  CASE form = "fp"   -> File("absent", rest \cup Weights(linears, {"weight"}), {})
          [] form = "gptq" -> File("gptq", rest \cup Weights(linears, {"qweight", "qzeros", "scales", "g_idx"}), {})
          [] form = "awq"  -> File("awq", rest \cup Weights(linears, {"qweight", "qzeros", "scales"}), {})
          [] form = "int8" -> Int8File(rest \cup Weights(linears, {"weight_scale"}), Weights(linears, {"weight"}))
          [] form = "gguf" -> GgufFile(Weights(linears, {"weight"}) \cup own("weight"), others)
          [] form = "fp8"  -> File("absent", rest \cup Weights(linears, {"weight", "weight_scale_inv"}), {})

Base3(layers) ==
    {<<-1, -1, "embed_tokens", "weight">>, <<-1, -1, "norm", "weight">>}
    \cup {<<l, -1, n, "weight">> : l \in 0..(layers - 1), n \in {"input_layernorm", "post_attention_layernorm"}}

In(layers, modules) == {<<l, -1, m>> : l \in layers, m \in modules}
QKVO == {"q_proj", "k_proj", "v_proj", "o_proj"}
MLP == {"gate_proj", "up_proj", "down_proj"}

LlamaCases ==
    {[family |-> "llama", config |-> [layers |-> 1], head |-> h, cuda |-> FALSE,
      file |-> InFormat(f, In({0}, QKVO \cup MLP), Base3(1), h)] :
        f \in {"fp", "gptq", "awq", "int8", "gguf"}, h \in {"own", "tied"}}

(* Qwen2, dense, with biases; Qwen3 with experts after a dense layer;      *)
(* Qwen2 with experts, one of them shared.                                 *)
QwenCases ==
    LET dense(tie) == [Qwen("qwen2", 2, <<>>, <<>>, <<>>) EXCEPT !.layers = 1, !.tie = tie]
        sparse == [Qwen("qwen3_moe", 2, <<2>>, <<2>>, <<1>>) EXCEPT !.mlpOnly = {0}]
        gated == [Qwen("qwen2_moe", 2, <<>>, <<2>>, <<1>>) EXCEPT !.layers = 1, !.shared = 4]
        shared == In({0}, {"shared.gate_proj", "shared.up_proj", "shared.down_proj", "shared_expert_gate"})
        biases == Weights(In({0}, {"q_proj", "k_proj", "v_proj"}), {"bias"})
        norms == Weights(In(0..1, {"q_norm", "k_norm"}), {"weight"})
        gate(l) == {<<l, -1, "gate", "weight">>}
        experts(l) == {<<l, e, m>> : e \in 0..1, m \in MLP}
        packed(l) == In({l}, {"experts.gate_proj", "experts.up_proj", "experts.down_proj"})
        common == In(0..1, QKVO) \cup In({0}, MLP)
        case(q, f, linears, others, h) ==
            [family |-> "qwen", config |-> q, head |-> h, cuda |-> TRUE, file |-> InFormat(f, linears, others, h)]
    IN  {case(dense(h = "tied"), f, In({0}, QKVO \cup MLP), Base3(1) \cup biases, h) :
            f \in {"fp", "gptq", "int8", "gguf"}, h \in {"own", "tied"}}
        \cup {case(sparse, f, common \cup experts(1), Base3(2) \cup norms \cup gate(1), "own") : f \in {"fp", "awq"}}
        \cup {case(sparse, "gguf", common \cup packed(1), Base3(2) \cup norms \cup gate(1), "own")}
        \cup {case(gated, "fp", In({0}, QKVO) \cup experts(0) \cup shared, Base3(1) \cup biases \cup gate(0), "own"),
              case(gated, "gguf", In({0}, QKVO) \cup packed(0) \cup shared, Base3(1) \cup biases \cup gate(0), "own")}

DeepseekCases ==
    LET d(v3, lora) == [layers |-> 2, lora |-> lora, v3 |-> v3, shared |-> 1, tie |-> FALSE, firstDense |-> 1,
                        freq |-> 1, experts |-> 2]
        attention(q) == In(0..1, q \cup {"kv_a_proj", "kv_b_proj", "o_proj"}) \cup In({0}, MLP)
        shared == In({1}, {"shared.gate_proj", "shared.up_proj", "shared.down_proj"})
        experts == {<<1, e, m>> : e \in 0..1, m \in MLP}
        norms == Base3(2) \cup Weights(In(0..1, {"kv_a_layernorm"}), {"weight"}) \cup {<<1, -1, "gate", "weight">>}
        lora == Weights(In(0..1, {"q_a_layernorm"}), {"weight"}) \cup {<<1, -1, "gate", "correction_bias">>}
        case(cfg, f, linears, others) ==
            [family |-> "deepseek", config |-> cfg, head |-> "own", cuda |-> TRUE, file |-> InFormat(f, linears, others, "own")]
    IN  {case(d(FALSE, FALSE), f, attention({"q_proj"}) \cup experts \cup shared, norms) : f \in {"fp", "gptq"}}
        \cup {case(d(TRUE, TRUE), "fp8", attention({"q_a_proj", "q_b_proj"}) \cup experts \cup shared, norms \cup lora)}

MCLoadCases == LlamaCases \cup QwenCases \cup DeepseekCases

-----------------------------------------------------------------------------
(* Sampling: four tokens, the last of them unknown to the grammar.         *)

MCSampleCases ==
    LET none == [t \in {} |-> 0]
        in(l) == [logits |-> l, context |-> <<0, 1, 0>>, generated |-> 1, eos |-> 2, badWords |-> {},
                  inverse |-> 1, topK |-> 0, topP |-> 10, minP |-> 0, repetition |-> FALSE, frequency |-> 0,
                  presence |-> 0, bias |-> none, allowed |-> {}, minTokens |-> 0]
        variants(i) ==
            { [i EXCEPT !.inverse = 0, !.repetition = TRUE, !.badWords = {<<0, 3>>, <<1>>}],
              [i EXCEPT !.inverse = 2, !.topK = 2],
              [i EXCEPT !.topK = 1, !.frequency = 1, !.allowed = {0, 1, 2}, !.minTokens = 2],
              [i EXCEPT !.topP = 6, !.minTokens = 2, !.bias = [t \in {2} |-> 3]],
              [i EXCEPT !.topP = 3, !.presence = 2],
              [i EXCEPT !.minP = 1, !.allowed = {1, 3}],
              [i EXCEPT !.topK = 2, !.topP = 6, !.minP = 2, !.badWords = {<<3>>}] }
        logits == [0..3 -> {0, 2, 3}]
    IN  {[in |-> i, grammar |-> <<>>] : i \in UNION {variants(in(l)) : l \in logits}}
        \cup {[in |-> [in(l) EXCEPT !.topP = 6], grammar |-> <<g>>] :
                l \in {m \in logits : m[3] = 2}, g \in {{}, {0}, {1, 2}}}

MCDraftCases ==
    {[context |-> c, minN |-> 1, maxN |-> n, limit |-> k, target |-> t] :
        c \in UNION {[1..len -> 0..1] : len \in 1..5}, n \in {1, 3}, k \in {0, 2}, t \in {<<0, 1>>, <<1>>}}

MCGrowCases ==
    {[family |-> f, prompt |-> p, maxTokens |-> n] :
        f \in {"llama", "qwen", "deepseek"}, p \in {<<>>, <<1>>, <<1, 0, 2>>}, n \in {0, 3, 5}}

MCBeamLogits == {[t \in 0..3 |-> s[t + 1]] : s \in {<<0, 0, 1, 1>>, <<1, 0, 0, 0>>, <<0, 2, 1, 0>>, <<1, 1, 1, 1>>}}

MCBeamCases ==
    LET sampling == [logits |-> <<>>, context |-> <<>>, generated |-> 0, eos |-> 2, badWords |-> {},
                     inverse |-> 1, topK |-> 0, topP |-> 10, minP |-> 0, repetition |-> FALSE, frequency |-> 0,
                     presence |-> 0, bias |-> [t \in {} |-> 0], allowed |-> {}, minTokens |-> 0]
        beam(len, byLength, early, ignore, stop, least) ==
            [width |-> 2, maxTokens |-> len, byLength |-> byLength, early |-> early, ignoreEos |-> ignore,
             stop |-> stop, prompt |-> <<0>>, sampling |-> [sampling EXCEPT !.minTokens = least], asks |-> {}]
    IN  {beam(3, FALSE, FALSE, FALSE, {}, 0), beam(2, FALSE, TRUE, FALSE, {}, 0),
         beam(2, FALSE, FALSE, TRUE, {1}, 1), beam(2, TRUE, TRUE, FALSE, {}, 1),
         beam(3, FALSE, FALSE, FALSE, {3}, 0),
         [beam(2, FALSE, FALSE, FALSE, {}, 0) EXCEPT !.asks = {"best_of"}]}

-----------------------------------------------------------------------------
(* Text: `a', `b' and `ab'; or characters of one, two and three bytes.     *)

MCTextCases ==
    LET a == 97
        b == 98
        letters == <<<<a>>, <<b>>, <<a, b>>>>
        wide == <<<<a>>, <<195, 169>>, <<226, 130, 172>>>>
        text(mode, stops, ids, eos, least, alphabet) ==
            [mode |-> mode, stops |-> stops, stopIds |-> ids, eos |-> eos, minTokens |-> least, alphabet |-> alphabet]
    IN  {text("delta", s, <<>>, <<>>, 0, letters) : s \in {<<<<a, b>>>>, <<<<b, b, a>>>>, <<<<b, b>>, <<a, a>>>>, <<<<b, a, b>>, <<b>>>>}}
        \cup {text(m, <<>>, <<3>>, <<2>>, 3, wide) : m \in {"delta", "cumulative", "final"}}

MCVocabCases ==
    LET string(t) == [kind |-> "string", value |-> t]
        vocab(tokens) == [t \in tokens |-> CASE t = "</s>" -> 2 [] t = "<|eot_id|>" -> 3 [] t = "stop" -> 4 [] t = "<s>" -> 1]
    IN  {[vocab |-> vocab(v), eos |-> e, bos |-> b] :
            v \in SUBSET {"</s>", "<|eot_id|>", "stop", "<s>"},
            e \in {string("stop"), [kind |-> "object", content |-> <<"</s>">>], [kind |-> "absent"],
                   [kind |-> "array", items |-> <<string("stop"), [kind |-> "object", content |-> <<>>], string("<|eot_id|>")>>]},
            b \in {string("stop"), [kind |-> "absent"]}}

-----------------------------------------------------------------------------
(* Chat turns over two tools, f and g.                                     *)

MCCallCases ==
    LET name(id) == [id |-> id, len |-> 1, clean |-> TRUE]
        tool(id) == [type |-> "function", name |-> name(id), parameters |-> "object"]
        raw(id, args) == [name |-> <<name(id)>>, arguments |-> args]
        json(shape, calls) == [kind |-> "json", value |-> [shape |-> shape, calls |-> calls]]
        known == json("object", <<raw("f", "object")>>)
        two == json("array", <<raw("g", "encoded"), raw("f", "absent")>>)
        strange == json("array", <<raw("f", "object"), raw("h", "object")>>)
        mark(kind) == [kind |-> kind]
        pieces == {mark("prose"), mark("open"), mark("close"), mark("python"), known, strange}
        fenced == {mark("prose"), mark("fence"), mark("python"), known}
        texts == UNION {[1..n -> pieces] : n \in 0..3} \cup UNION {[1..n -> fenced] : n \in 1..4}
                 \cup {<<mark("open"), j, mark("close")>> \o <<mark("open"), k, l, mark("close")>> :
                            j, k, l \in {known, two, strange, json("scalar", <<>>)}}
        said(role, content, calls) == [role |-> role, content |-> content, calls |-> calls, call_id |-> <<>>]
        call == [id |-> "1", type |-> "function", name |-> name("f"), arguments |-> "encoded"]
        history == <<said("user", <<"hi">>, <<>>), said("assistant", <<>>, <<(<<call>>)>>)>>
        choice(mode) == [mode |-> mode, type |-> "function", name |-> name("g")]
        req(tools, mode) == [tools |-> tools, choice |-> choice(mode), messages |-> history]
        both == <<(<<tool("f"), tool("g")>>)>>
    IN  {[text |-> t, req |-> r] : t \in texts,
            r \in {req(both, "unset"), req(both, "named"), req(both, "none"), req(<<>>, "unset"), req(<<>>, "required")}}

-----------------------------------------------------------------------------
(* Containers and start-up.                                                *)

MCQueueCases ==
    {[strategy |-> "immediate", size |-> 1, capacity |-> 2], [strategy |-> "sized", size |-> 2, capacity |-> 3]}

(* Batches of at most two sequences, each with its place as its id.        *)
MCOverlapBatches ==
    {[i \in DOMAIN b |-> [id |-> i, prefill |-> b[i][1], tokens |-> b[i][2]]] :
        b \in UNION {[1..n -> BOOLEAN \X (1..2)] : n \in 0..2}}

MCGivenScales == {-1, 0, 3}

MCEnv(d, on, f, u, m) ==
    [modelOnCuda |-> on, cudaBuild |-> d = "cuda", queries |-> {1, 2}, free |-> f, total |-> 1000,
     estimate |-> 800, util |-> u, least |-> 3, allocates |-> TRUE, forwards |-> TRUE, kMax |-> m, vMax |-> 5]

MCStartup(d, q, b, k, env) ==
    [device |-> d, model |-> "F16", quant |-> q, bits |-> b, group |-> <<>>, kv |-> k, seqs |-> 2, len |-> 5,
     shape |-> [layers |-> 2, blockSize |-> 2, kvHeads |-> 1, headDim |-> 2], configured |-> TRUE, env |-> env]

(* All arguments on a driver that answers; and, for each of a few, every   *)
(* dtype of the model and every way the start can go wrong.                *)
MCStartupCases ==
    {MCStartup(d, q, b, k, MCEnv(d, on, f, u, m)) :
        d \in {"cpu", "cuda"}, q \in {"none", "fp8", "int8", "gptq", "mxfp4", "other"}, b \in {<<>>, <<8>>},
        k \in {"auto", "F16", "INT8"}, on \in BOOLEAN, f \in {300, 650, 1000}, u \in {50, 90}, m \in {-1, 0, 4}}
    \cup
    {[MCStartup(d, q, <<8>>, k, [MCEnv(d, TRUE, f, 50, 4) EXCEPT !.queries = asked, !.cudaBuild = built])
        EXCEPT !.model = t] :
        d \in {"cpu", "cuda"}, q \in {"none", "fp8"}, k \in {"auto", "INT8"}, f \in {300, 650},
        asked \in SUBSET {1, 2}, built \in BOOLEAN, t \in {"F16", "BF16", "F32"}}
    \cup
    {[MCStartup(d, "none", <<>>, k, [MCEnv(d, on, 650, 90, 4) EXCEPT !.allocates = got, !.forwards = ran,
                                                                     !.cudaBuild = built])
        EXCEPT !.configured = given] :
        d \in {"cpu", "cuda"}, k \in {"auto", "INT8"}, on \in BOOLEAN, got \in BOOLEAN, ran \in BOOLEAN,
        built \in BOOLEAN, given \in BOOLEAN}

MCSplitCases == {[world |-> w, total |-> t] : w \in 1..4, t \in 0..7}

=============================================================================
