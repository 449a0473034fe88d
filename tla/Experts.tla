------------------------------- MODULE Experts -------------------------------
(***************************************************************************)
(* Mixture of experts: how a token chooses its experts and what it gets    *)
(* from each, in the three routers (crates/rllm-model/src/qwen.rs,         *)
(* deepseek.rs, deepseek_v3.rs), and the block-scaled FP8 matrices of      *)
(* DeepSeek V3.                                                            *)
(*                                                                         *)
(* Experts are 0..n-1 and a score is an integer: softmax and sigmoid keep  *)
(* the order of the logits, and only the order chooses.  A weight is a     *)
(* fraction <<numerator, denominator>>.  What an expert computes is left   *)
(* out of the routing: a token's output is the sequence of the experts     *)
(* added to it, each with its weight, in the order they are added.         *)
(***************************************************************************)
EXTENDS Kernels, Sequences, FiniteSets, FiniteSetsExt, SequencesExt, Functions

NoScore == -100000

(* arg_sort_last_dim(false) then narrow: the indices of the k greatest;    *)
(* of equal ones the lower index first.                                    *)
TopK(f, k) ==
    LET before(a, b) == f[a] > f[b] \/ (f[a] = f[b] /\ a < b)
        at(r) == CHOOSE i \in DOMAIN f : Cardinality({j \in DOMAIN f : before(j, i)}) = r - 1
    IN  [r \in 1..k |-> at(r)]

SumOver(f, ids) == FoldLeft(LAMBDA acc, i : acc + f[i], 0, ids)

Normalized(scores, ids) == [r \in 1..Len(ids) |-> <<scores[ids[r]], SumOver(scores, ids)>>]

Scaled(scores, ids, scale) == [r \in 1..Len(ids) |-> <<scores[ids[r]] * scale, 1>>]

-----------------------------------------------------------------------------
(* The routers: the experts of a token and the weight of each.             *)

QwenRoute(p, k, normalize) ==
    LET ids == TopK(p, k)
    IN  [ids |-> ids, weights |-> IF normalize /\ k > 1 THEN Normalized(p, ids) ELSE Scaled(p, ids, 1)]

(* A faulty mask that takes the experts of a group to be interleaved.      *)
MaskGroupsInterleaved(scores, chosen, perGroup) ==
    [e \in DOMAIN scores |->
        IF (e % (Cardinality(DOMAIN scores) \div perGroup)) \in ToSet(chosen) THEN scores[e] ELSE NoScore]

(* The experts of the chosen groups keep their score, the others get       *)
(* minus infinity.                                                         *)
MaskGroups(scores, chosen, perGroup) ==
    [e \in DOMAIN scores |-> IF (e \div perGroup) \in ToSet(chosen) THEN scores[e] ELSE NoScore]

InGroup(g, perGroup) == [i \in 1..perGroup |-> g * perGroup + i - 1]

(* DenseMoe: a group counts as its best expert, when groups are limited;   *)
(* weights are normalized or else scaled.                                  *)
DenseMoeRoute(p, k, groups, topGroups, limited, normalize, scale) ==
    LET perGroup == Cardinality(DOMAIN p) \div groups
        best == [g \in 0..(groups - 1) |-> Max({p[e] : e \in ToSet(InGroup(g, perGroup))})]
        selection == IF limited THEN MaskGroups(p, TopK(best, topGroups), perGroup) ELSE p
        ids == TopK(selection, k)
    IN  [ids |-> ids,
         weights |-> IF normalize /\ k > 1 THEN Normalized(p, ids) ELSE Scaled(p, ids, scale)]

(* What NoAuxTcRouter::new accepts.                                        *)
RouterAccepts(experts, biases, k, groups, topGroups) ==
    /\ biases = experts
    /\ groups # 0 /\ experts % groups = 0
    /\ k \in 1..experts
    /\ topGroups \in 1..groups

(* NoAuxTcRouter: the corrected scores choose, a group counts as the sum   *)
(* of its two best, and the raw scores weigh.                              *)
NoAuxTcRoute(raw, bias, k, groups, topGroups, normalize, scale) ==
    LET perGroup == Cardinality(DOMAIN raw) \div groups
        corrected == [e \in DOMAIN raw |-> raw[e] + bias[e]]
        inGroup(g) == [e \in ToSet(InGroup(g, perGroup)) |-> corrected[e]]
        score == [g \in 0..(groups - 1) |->
                    SumOver(corrected, TopK(inGroup(g), Min({2, perGroup})))]
        ids == TopK(MaskGroups(corrected, TopK(score, topGroups), perGroup), k)
        weights == IF normalize /\ k > 1 THEN Normalized(raw, ids) ELSE Scaled(raw, ids, 1)
    IN  [ids |-> ids, weights |-> [r \in 1..k |-> <<weights[r][1] * scale, weights[r][2]>>]]

-----------------------------------------------------------------------------
(* The two ways the chosen experts are run.  routes is a sequence, by      *)
(* token, of what a router answers.                                        *)

(* Expert by expert: the tokens routed to it are gathered, run together    *)
(* and added back where they came from.                                    *)
RunByExpert(routes, n) ==
    LET pairs == [i \in 1..(Len(routes) * Len(routes[1].ids)) |->
                    <<((i - 1) \div Len(routes[1].ids)) + 1, ((i - 1) % Len(routes[1].ids)) + 1>>]
        gathered(e) == SelectSeq(pairs, LAMBDA p : routes[p[1]].ids[p[2]] = e)
        add(out, e) ==
            FoldLeft(LAMBDA o, p : [o EXCEPT ![p[1]] = Append(@, <<e, routes[p[1]].weights[p[2]]>>)],
                     out, gathered(e))
    IN  FoldLeft(add, [t \in 1..Len(routes) |-> <<>>], [e \in 1..n |-> e - 1])

(* The shared expert is added to every token, after the others; the gate   *)
(* Qwen2 weighs it with is left out.                                       *)
WithShared(out, shared) ==
    [t \in 1..Len(out) |-> IF shared THEN Append(out[t], <<-1, <<1, 1>>>>) ELSE out[t]]

-----------------------------------------------------------------------------
(* Block-scaled FP8 matrices, row major, with one scale for each block of  *)
(* `block' by `block' elements.                                            *)

(* BlockFp8Linear::forward_reference: the scales are repeated to the size  *)
(* of the matrix.                                                          *)
BlockFp8Forward(x, weight, scales, outs, ins, block) ==
    LET inBlocks == Ceil(ins, block)
        scale(o, c) == scales[(o \div block) * inBlocks + (c \div block)]
    IN  [o \in 0..(outs - 1) |->
            MapThenSumSet(LAMBDA c : x[c] * weight[o * ins + c] * scale(o, c), 0..(ins - 1))]

ScaleIndex(expert, o, c, outs, ins, block) ==
    expert * Ceil(outs, block) * Ceil(ins, block) + (o \div block) * Ceil(ins, block) + (c \div block)

(* SelectedBlockFp8Experts::forward_reference on stacked experts, with the *)
(* input flat: one row for each token when it is shared by the routes, one *)
(* for each route otherwise.  An unknown expert is an error.               *)
SelectedForward(input, ids, weights, scales, experts, outs, ins, block, shared) ==
    LET k == Len(ids[1])
        value(i) ==
            LET o == i % outs
                route == (i \div outs) % k
                token == i \div (outs * k)
                expert == ids[token + 1][route + 1]
                row == IF shared THEN token ELSE token * k + route
            IN  MapThenSumSet(LAMBDA c : input[row * ins + c]
                                           * weights[(expert * outs + o) * ins + c]
                                           * scales[ScaleIndex(expert, o, c, outs, ins, block)],
                              0..(ins - 1))
    IN  IF \E t \in 1..Len(ids), r \in 1..k : ids[t][r] >= experts THEN [ok |-> FALSE, out |-> <<>>]
        ELSE [ok |-> TRUE, out |-> [i \in 0..(Len(ids) * k * outs - 1) |-> value(i)]]

(* SiLU, as an integer function of the same sign for positive arguments.   *)
Silu(x) == IF x > 0 THEN x ELSE 0

(* DeepseekV3Moe::forward on flat hidden states, with integer weights: the *)
(* gated product is laid out by route, so its rows are not shared.         *)
V3MoeForward(hidden, routes, gate, up, down, experts, width, inner, block) ==
    LET ids == [t \in 1..Len(routes) |-> routes[t].ids]
        k == Len(ids[1])
        wide(m) == SelectedForward(hidden, ids, m.weights, m.scales, experts, inner, width, block, TRUE).out
        g == wide(gate)
        u == wide(up)
        mid == [i \in DOMAIN g |-> Silu(g[i]) * u[i]]
        routed == SelectedForward(mid, ids, down.weights, down.scales, experts, width, inner, block, FALSE).out
    IN  [i \in 0..(Len(routes) * width - 1) |->
            LET t == i \div width
            IN  MapThenSumSet(LAMBDA r : routed[(t * k + r) * width + (i % width)]
                                           * routes[t + 1].weights[r + 1][1], 0..(k - 1))]

=============================================================================
