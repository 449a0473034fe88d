------------------------------ MODULE Sampling ------------------------------
(***************************************************************************)
(* Token selection (crates/rllm-sampling): the logit processors            *)
(* (logits.rs), the sampler (sampler.rs), beam search (beam_search.rs),    *)
(* the n-gram proposer and its verification (speculative.rs), top          *)
(* log-probabilities (logprobs.rs) and grammar masks (structured.rs).      *)
(*                                                                         *)
(* Logits are functions from token ids 0..V-1 to integers or NegInf, read  *)
(* as logarithms to base 2, so that exp(x) is 2^x and probabilities are    *)
(* ratios of integers; p is in tenths and a random draw in sixteenths.     *)
(***************************************************************************)
EXTENDS Integers, Sequences, FiniteSets, FiniteSetsExt, SequencesExt

NegInf == -1000

Add(x, y) == IF x = NegInf THEN NegInf ELSE x + y

Finite(l) == {t \in DOMAIN l : l[t] # NegInf}

MaxLogit(l) == Max({l[t] : t \in DOMAIN l})

MaskAll(l, tokens) == [t \in DOMAIN l |-> IF t \in tokens THEN NegInf ELSE l[t]]

(* Tokens by falling logit.  Where the code's sort is unstable, the order  *)
(* of equal logits by rising id stands for any.                            *)
Ranked(l, tokens) ==
    SetToSortSeq(tokens, LAMBDA a, b : l[a] > l[b] \/ (l[a] = l[b] /\ a < b))

(* The mass of a token, in units of the smallest one.                      *)
Mass(l, t) == IF l[t] = NegInf THEN 0 ELSE 2^(l[t] - Min({l[q] : q \in Finite(l)}))

TotalMass(l, tokens) == FoldSet(LAMBDA t, acc : acc + Mass(l, t), 0, tokens)

-----------------------------------------------------------------------------
(* Logit processors.                                                       *)

(* inverse is 1 / temperature; a temperature of 0 or 1 changes nothing.    *)
ApplyTemperature(l, inverse) ==
    [t \in DOMAIN l |-> IF l[t] = NegInf \/ inverse = 0 THEN l[t] ELSE l[t] * inverse]

(* The threshold is the logit at index k of the falling order, which is    *)
(* the (k+1)-th largest.                                                   *)
ApplyTopK(l, k) ==
    IF k <= 0 \/ k >= Cardinality(DOMAIN l) THEN l
    ELSE LET threshold == l[Ranked(l, DOMAIN l)[k + 1]]
         IN  MaskAll(l, {t \in DOMAIN l : l[t] < threshold})

ApplyTopP(l, p) ==
    LET order  == Ranked(l, Finite(l))
        upTo(i) == TotalMass(l, {order[j] : j \in 1..i})
        enough == {i \in DOMAIN order : 10 * upTo(i) >= p * TotalMass(l, Finite(l))}
        cutoff == IF enough = {} THEN Len(order) ELSE Min(enough)
    IN  IF p >= 10 \/ p <= 0 \/ order = <<>> THEN l
        ELSE MaskAll(l, {order[j] : j \in (cutoff + 1)..Len(order)})

(* min_p = 2^-m.                                                           *)
ApplyMinP(l, m) ==
    IF Finite(l) = {} THEN l
    ELSE MaskAll(l, {t \in DOMAIN l : l[t] < MaxLogit(l) - m})

(* Once for every occurrence in the context, by a penalty of 2.            *)
ApplyRepetitionPenalty(l, context) ==
    FoldLeft(LAMBDA acc, t :
                IF t \notin DOMAIN acc \/ acc[t] = NegInf THEN acc
                ELSE [acc EXCEPT ![t] = IF @ > 0 THEN @ \div 2 ELSE 2 * @],
             l, context)

Count(context, t) == Cardinality({i \in DOMAIN context : context[i] = t})

ApplyFrequencyPenalty(l, context, penalty) ==
    [t \in DOMAIN l |-> Add(l[t], -(penalty * Count(context, t)))]

ApplyPresencePenalty(l, context, penalty) ==
    [t \in DOMAIN l |-> IF Count(context, t) > 0 THEN Add(l[t], -penalty) ELSE l[t]]

ApplyLogitBias(l, bias) ==
    [t \in DOMAIN l |-> IF t \in DOMAIN bias THEN Add(l[t], bias[t]) ELSE l[t]]

ApplyAllowedTokenIds(l, allowed) ==
    IF allowed = {} THEN l ELSE MaskAll(l, DOMAIN l \ allowed)

ApplyEosSuppression(l, eos, generated, minTokens) ==
    IF generated < minTokens THEN MaskAll(l, {eos}) ELSE l

EndsWith(s, suffix) ==
    Len(suffix) <= Len(s) /\ SubSeq(s, Len(s) - Len(suffix) + 1, Len(s)) = suffix

(* The last tokens of the bad words whose other tokens end the context.    *)
BadTokens(in) ==
    {Last(w) : w \in {v \in in.badWords : v # <<>> /\ EndsWith(in.context, Front(v))}}

(* prepare_logits.  in: [logits, context, generated, eos, badWords,        *)
(* inverse, topK, topP, minP, repetition, frequency, presence, bias,       *)
(* allowed, minTokens].                                                    *)
Truncated(l, in) ==
    LET k == IF in.topK > 0 THEN ApplyTopK(l, in.topK) ELSE l
        p == IF in.topP < 10 THEN ApplyTopP(k, in.topP) ELSE k
    IN  IF in.minP > 0 THEN ApplyMinP(p, in.minP) ELSE p

Penalized(l, in) ==
    LET r == IF in.repetition THEN ApplyRepetitionPenalty(l, in.context) ELSE l
    IN  ApplyPresencePenalty(ApplyFrequencyPenalty(r, in.context, in.frequency),
                             in.context, in.presence)

(* A faulty order: truncated first, so that a mask can take everything.    *)
PrepareTruncatedFirst(in, temperature, truncation) ==
    LET cut  == IF truncation THEN Truncated(in.logits, in) ELSE in.logits
        pen  == Penalized(ApplyLogitBias(cut, in.bias), in)
        bad  == MaskAll(pen, BadTokens(in))
    IN  ApplyEosSuppression(ApplyAllowedTokenIds(bad, in.allowed), in.eos,
                            in.generated, in.minTokens)

PrepareLogits(in, temperature, truncation) ==
    LET pen  == Penalized(ApplyLogitBias(in.logits, in.bias), in)
        bad  == MaskAll(pen, BadTokens(in))
        mask == ApplyEosSuppression(ApplyAllowedTokenIds(bad, in.allowed), in.eos,
                                    in.generated, in.minTokens)
        warm == IF temperature THEN ApplyTemperature(mask, in.inverse) ELSE mask
    IN  IF truncation THEN Truncated(warm, in) ELSE warm

-----------------------------------------------------------------------------
(* The sampler.                                                            *)

(* max_by keeps the last of equal elements.                                *)
GreedySample(l) == Max({t \in DOMAIN l : l[t] = MaxLogit(l)})

(* The first token whose cumulative probability reaches draw / 16.         *)
RandomSample(l, draw) ==
    LET upTo(t) == TotalMass(l, {q \in DOMAIN l : q <= t})
        reached == {t \in DOMAIN l : 16 * upTo(t) >= draw * TotalMass(l, DOMAIN l)}
    IN  IF Finite(l) = {} \/ reached = {} THEN Max(DOMAIN l) ELSE Min(reached)

(* A temperature of 0 is told by inverse = 0.                              *)
IsGreedy(in) == in.inverse = 0 \/ in.topK = 1

Sample(in, draw) ==
    LET greedy == IsGreedy(in)
        l      == PrepareLogits(in, ~greedy, ~greedy)
    IN  IF greedy THEN GreedySample(l) ELSE RandomSample(l, draw)

-----------------------------------------------------------------------------
(* Beam search.  A hypothesis is [tokens, num, den, finish]: its           *)
(* probability is num / den, so that nothing is rounded.  cfg: [width,     *)
(* maxTokens, byLength, early, ignoreEos, stop, prompt, sampling, asks]:   *)
(* sampling is an input of prepare_logits, and asks the parameters beam    *)
(* search cannot serve (n, best_of, stop strings, structured outputs,      *)
(* speculation) or that are not valid.                                     *)

Root == [tokens |-> <<>>, num |-> 1, den |-> 1, finish |-> "none"]

NewBeams == [active |-> <<Root>>, parents |-> <<>>, completed |-> <<>>, finished |-> FALSE]

(* The logits of one beam: the sampler's processors, and no stop token     *)
(* before min_tokens.                                                      *)
Processed(beam, l, cfg) ==
    LET in == [cfg.sampling EXCEPT !.logits = l, !.context = cfg.prompt \o beam.tokens,
                                   !.generated = Len(beam.tokens)]
    IN  MaskAll(PrepareLogits(in, TRUE, TRUE),
                IF Len(beam.tokens) < in.minTokens THEN cfg.stop ELSE {})

(* top_logprobs.                                                           *)
Expansions(beam, parent, l, limit) ==
    LET order == Ranked(l, Finite(l))
    IN  [i \in 1..Min({limit, Len(order)}) |->
            [beam   |-> [tokens |-> Append(beam.tokens, order[i]),
                         num    |-> beam.num * Mass(l, order[i]),
                         den    |-> beam.den * TotalMass(l, DOMAIN l),
                         finish |-> "none"],
             parent |-> parent, token |-> order[i]]]

(* compare_candidates.                                                     *)
Before(a, b) ==
    LET x == a.beam.num * b.beam.den
        y == b.beam.num * a.beam.den
    IN  \/ x > y
        \/ x = y /\ a.parent < b.parent
        \/ x = y /\ a.parent = b.parent /\ a.token < b.token

FinishReason(cand, cfg) ==
    IF cand.token = cfg.sampling.eos /\ ~cfg.ignoreEos THEN "eos"
    ELSE IF cand.token \in cfg.stop THEN "stop"
    ELSE IF Len(cand.beam.tokens) >= cfg.maxTokens THEN "length"
    ELSE "none"

(* At the first place where they differ, or where the first one ends.      *)
LexLess(s, t) ==
    \E n \in 0..Min({Len(s), Len(t) - 1}) :
        /\ SubSeq(s, 1, n) = SubSeq(t, 1, n)
        /\ n = Len(s) \/ s[n + 1] < t[n + 1]

(* Scores log(p) / length^penalty, for a penalty of 0 or 1: the logarithms *)
(* compare as the probabilities to the power of the other's length.        *)
Weight(beam, cfg) == IF cfg.byLength THEN Max({1, Len(beam.tokens)}) ELSE 1

Better(a, b, cfg) ==
    LET x == a.num^Weight(b, cfg) * b.den^Weight(a, cfg)
        y == b.num^Weight(a, cfg) * a.den^Weight(b, cfg)
    IN  x > y \/ (x = y /\ LexLess(a.tokens, b.tokens))

SortFinal(beams, cfg) == SortSeq(beams, LAMBDA a, b : Better(a, b, cfg))

Upto(s, n) == SubSeq(s, 1, Min({n, Len(s)}))

(* advance returns an error, and nothing has changed, when the search is   *)
(* over, for such parameters, for a wrong number of rows, or for a row     *)
(* without a token or a candidate.                                         *)
AdvanceFails(bs, logits, cfg) ==
    \/ bs.finished
    \/ cfg.asks # {}
    \/ Len(logits) # Len(bs.active)
    \/ \E i \in DOMAIN bs.active : DOMAIN logits[i] = {}
    \/ \E i \in DOMAIN bs.active : Finite(Processed(bs.active[i], logits[i], cfg)) = {}

(* The candidates of a step, best first, twice as many as beams are kept.  *)
Candidates(bs, logits, cfg) ==
    LET all == FlattenSeq([i \in DOMAIN bs.active |->
                   Expansions(bs.active[i], i, Processed(bs.active[i], logits[i], cfg),
                              2 * cfg.width)])
    IN  Upto(SortSeq(all, Before), 2 * cfg.width)

Completed(bs, cands, cfg) ==
    LET done == SelectSeq(cands, LAMBDA c : FinishReason(c, cfg) # "none")
    IN  Upto(SortFinal(bs.completed \o
                [i \in DOMAIN done |->
                    [done[i].beam EXCEPT !.finish = FinishReason(done[i], cfg)]], cfg),
             cfg.width)

Surviving(cands, cfg) ==
    Upto(SelectSeq(cands, LAMBDA c : FinishReason(c, cfg) = "none"), cfg.width)

Pruned(bs, cands, cfg) ==
    LET live == Surviving(cands, cfg)
        comp == Completed(bs, cands, cfg)
    IN  [active    |-> [i \in DOMAIN live |-> live[i].beam],
         parents   |-> [i \in DOMAIN live |-> live[i].parent],
         completed |-> comp,
         finished  |-> live = <<>> \/ (cfg.early /\ Len(comp) >= cfg.width)]

(* A faulty step that lets finished hypotheses use up the width.           *)
AdvanceNarrow(bs, logits, cfg) ==
    Pruned(bs, Upto(Candidates(bs, logits, cfg), cfg.width), cfg)

(* BeamSearch::advance.                                                    *)
Advance(bs, logits, cfg) == Pruned(bs, Candidates(bs, logits, cfg), cfg)

BestBeams(bs, cfg) ==
    LET pool == IF Len(bs.completed) < cfg.width
                THEN bs.completed \o bs.active ELSE bs.completed
    IN  Upto(SortFinal(pool, cfg), cfg.width)

-----------------------------------------------------------------------------
(* Speculation.                                                            *)

(* NGramProposer::propose: after the last earlier occurrence of the        *)
(* longest suffix that occurs earlier.                                     *)
Propose(context, minN, maxN, limit) ==
    LET len  == Len(context)
        at(n) == {s \in 0..(len - n - 1) :
                    SubSeq(context, s + 1, s + n) = SubSeq(context, len - n + 1, len)}
        ns   == {n \in minN..Min({maxN, len - 1}) : at(n) # {}}
    IN  IF limit = 0 \/ len <= minN \/ ns = {} THEN <<>>
        ELSE LET n == Max(ns)
                 from == Max(at(n)) + n
             IN  SubSeq(context, from + 1, Min({from + limit, len}))

AcceptMatchingPrefix(draft, target) ==
    LET agree == {n \in 0..Min({Len(draft), Len(target)}) :
                    SubSeq(draft, 1, n) = SubSeq(target, 1, n)}
    IN  SubSeq(draft, 1, Max(agree))

-----------------------------------------------------------------------------
(* Grammar masks.  The matcher is external: what it allows next is a set   *)
(* of tokens, handed over as words of a bit mask.                          *)

WordBits == 32

BitmaskOf(allowed, vocab) ==
    [w \in 0..((vocab - 1) \div WordBits) |->
        {b \in 0..(WordBits - 1) : w * WordBits + b \in allowed}]

(* mask_logits: logits past the tokenizer's vocabulary are left alone, and *)
(* an empty choice is an error.                                            *)
MaskLogits(l, words, vocab) ==
    MaskAll(l, {t \in 0..(vocab - 1) : (t % WordBits) \notin words[t \div WordBits]})

MaskFails(l, words, vocab) ==
    \/ Cardinality(DOMAIN l) < vocab
    \/ \A t \in 0..(vocab - 1) : MaskLogits(l, words, vocab)[t] = NegInf

=============================================================================
