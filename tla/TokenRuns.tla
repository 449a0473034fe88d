------------------------------ MODULE TokenRuns -------------------------------
(***************************************************************************)
(* Tokens are chosen, proposed and generated, searched for with beams,     *)
(* turned into text and scanned for tool calls (Sampling, Text, Frontend,  *)
(* and Generate of Checkpoint), each on small inputs.                      *)
(***************************************************************************)
EXTENDS Parts, Sampling, Text, Frontend, Checkpoint

CONSTANTS
    SampleCases,    \* [in, grammar] for every draw in 0..15
    DraftCases,     \* [context, minN, maxN, limit, target]
    GrowCases,      \* [family, prompt, maxTokens]
    BeamCases,      \* configurations of a beam search
    BeamLogits,     \* the logits a model may answer for a beam
    TextCases,      \* [mode, stops, stopIds, eos, minTokens, alphabet]
    MaxTokens,      \* bound on the tokens of a text
    CallCases,      \* [text, req]
    VocabCases      \* [vocab, eos, bos] with fields of a tokenizer configuration

Bytes == 0..255

(* A field of tokenizer_config.json that is not a list.                    *)
IsField(f) ==
    /\ f.kind = "string" => f.value \in STRING
    /\ f.kind = "object" => f.content \in Seq(STRING)

(* Texts are bytes.                                                        *)
ASSUME TextsTyped ==
    /\ \A c \in TextCases :
        /\ c.mode \in {"delta", "cumulative", "final"}
        /\ c.minTokens \in Nat
        /\ c.stops \in Seq(Seq(Bytes))
        /\ c.alphabet \in Seq(Seq(Bytes))
    /\ \A c \in VocabCases :
        IF c.eos.kind = "array"
        THEN Len(c.eos.items) \in Nat /\ \A i \in 1..Len(c.eos.items) : IsField(c.eos.items[i])
        ELSE IsField(c.eos)

(* Texts, messages and tools are sequences; the tools may be left out.     *)
ASSUME CallsTyped ==
    \A c \in CallCases :
        /\ c.text \in Seq(ToSet(c.text))
        /\ c.req.messages \in Seq(ToSet(c.req.messages))
        /\ \A i \in DOMAIN c.req.messages : "role" \in DOMAIN c.req.messages[i]
        /\ \/ c.req.tools = <<>>
           \/ /\ c.req.tools = <<c.req.tools[1]>>
              /\ c.req.tools[1] \in Seq(ToSet(c.req.tools[1]))

(* Tokens are numbers; an n-gram has a token, as NGramProposer::new asks.  *)
ASSUME DraftsTyped ==
    \A c \in DraftCases :
        /\ c.context \in Seq(Nat) /\ c.target \in Seq(Nat)
        /\ c.minN \in Nat \ {0} /\ c.maxN \in Nat /\ c.minN <= c.maxN /\ c.limit \in Nat

-----------------------------------------------------------------------------
(* One token of one request: the grammar's mask, then the sampler.         *)

SampleStart(c) == [unit |-> "sample", case |-> c, draw |-> 0, token |-> <<>>, failed |-> FALSE]

GrammarVocab == 3       \* the tokenizer knows one token less than the logits

(* What the sampler is given.                                              *)
Constrained(c) ==
    IF c.grammar = <<>> THEN c.in
    ELSE [c.in EXCEPT !.logits =
            MaskLogits(@, BitmaskOf(c.grammar[1], GrammarVocab), GrammarVocab)]

GrammarFails(c) ==
    c.grammar # <<>> /\ MaskFails(c.in.logits, BitmaskOf(c.grammar[1], GrammarVocab), GrammarVocab)

SampleToken ==
    /\ st.unit = "sample" /\ st.token = <<>> /\ ~st.failed
    /\ \/ GrammarFails(st.case) /\ st' = [st EXCEPT !.failed = TRUE]
       \/ /\ ~GrammarFails(st.case)
          /\ \E draw \in 0..15 : st' = [st EXCEPT !.draw = draw,
                                                  !.token = <<Sample(Constrained(st.case), draw)>>]

(* The tokens that nothing forbids.                                        *)
Legal(c) ==
    {t \in DOMAIN c.in.logits :
        /\ c.in.logits[t] # NegInf
        /\ c.in.allowed # {} => t \in c.in.allowed
        /\ c.in.generated < c.in.minTokens => t # c.in.eos
        /\ \A w \in c.in.badWords : ~EndsWith(Append(c.in.context, t), w)
        /\ c.grammar # <<>> => t \in c.grammar[1] \/ t >= GrammarVocab}

(* The logit of a legal token once penalties and bias are applied: by the  *)
(* number of times it is in the context.                                   *)
Adjusted(c, t) ==
    LET n == Len(SelectSeq(c.in.context, LAMBDA u : u = t))
        biased == c.in.logits[t] + (IF t \in DOMAIN c.in.bias THEN c.in.bias[t] ELSE 0)
        halved[k \in 0..n] ==
            IF k = 0 THEN biased
            ELSE IF halved[k - 1] > 0 THEN halved[k - 1] \div 2 ELSE 2 * halved[k - 1]
    IN  (IF c.in.repetition THEN halved[n] ELSE biased)
        - n * c.in.frequency - (IF n > 0 THEN c.in.presence ELSE 0)

Pow2Sum(c, tokens) ==
    FoldSet(LAMBDA t, acc : acc + 2 ^ (8 + Adjusted(c, t) * Max({1, c.in.inverse})), 0, tokens)

(* The legal tokens with a larger logit.                                   *)
BetterThan(c, token) == {t \in Legal(c) : Adjusted(c, t) > Adjusted(c, token)}

TopKCuts(c) == c.in.topK \in 1..(Cardinality(DOMAIN c.in.logits) - 1)

(* A random draw of exactly 0 takes the first token, of whatever mass,     *)
(* although masked tokens should be out (logits.rs:152).                   *)
ZeroDraw == ~IsGreedy(st.case.in) /\ st.draw = 0

(* A token is legal whenever one is; it is a best one when greedy, and     *)
(* otherwise at most one place below the top k, in the nucleus and not too *)
(* far below the best.                                                     *)
TokenAllowed(c, token) ==
    LET legal == Legal(c)
        better == BetterThan(c, token)
    IN  legal # {} =>
          /\ token \in legal
          /\ IsGreedy(c.in) => better = {}
          /\ TopKCuts(c) => Cardinality(better) <= c.in.topK
          /\ ~IsGreedy(c.in) /\ ~TopKCuts(c) /\ c.in.topP \in 1..9 =>
                10 * Pow2Sum(c, better) < c.in.topP * Pow2Sum(c, legal)
          /\ ~IsGreedy(c.in) /\ c.in.minP > 0 =>
                \A t \in better : (Adjusted(c, t) - Adjusted(c, token)) * c.in.inverse <= c.in.minP

-----------------------------------------------------------------------------
(* A draft and its verification, and greedy generation.                    *)

DraftStart(c) == [unit |-> "draft", case |-> c, draft |-> <<>>, accepted |-> <<>>, phase |-> 0]

ProposeDraft ==
    /\ st.unit = "draft" /\ st.phase = 0
    /\ st' = [st EXCEPT !.phase = 1,
                        !.draft = Propose(st.case.context, st.case.minN, st.case.maxN, st.case.limit)]

VerifyDraft ==
    /\ st.unit = "draft" /\ st.phase = 1
    /\ st' = [st EXCEPT !.phase = 2, !.accepted = AcceptMatchingPrefix(st.draft, st.case.target)]

(* A draft is there when the end of the context has occurred before, and   *)
(* then it is what followed an occurrence as long as any; what is accepted *)
(* is what the model would have generated, up to the first difference.     *)
DraftSound ==
    LET c == st.case
        n == Len(c.context)
        repeats(k, at) == at + k < n /\ SubSeq(c.context, at + 1, at + k) = SubSeq(c.context, n - k + 1, n)
        found == {f \in (c.minN..c.maxN) \X (0..n) : f[1] < n /\ repeats(f[1], f[2])}
    IN  /\ st.phase > 0 => (st.draft # <<>>) = (found # {} /\ c.limit > 0)
        /\ st.phase > 0 /\ st.draft # <<>> =>
             \E f \in found :
                /\ \A h \in found : h[1] <= f[1]
                /\ \A i \in 1..Len(st.draft) : st.draft[i] = c.context[f[2] + f[1] + i]
                /\ Len(st.draft) <= c.limit
        /\ st.phase = 2 =>
             /\ IsPrefix(st.accepted, st.draft) /\ IsPrefix(st.accepted, c.target)
             /\ LET m == Len(st.accepted) + 1
                IN  m <= Len(st.draft) /\ m <= Len(c.target) => st.draft[m] # c.target[m]

GrowStart(c) == [unit |-> "grow", case |-> c, did |-> <<>>]

NextToken == [tokens \in Seq(Nat) |-> (FoldLeft(LAMBDA a, b : a + b, 1, tokens)) % 3]

GrowPrompt ==
    /\ st.unit = "grow" /\ st.did = <<>>
    /\ st' = [st EXCEPT !.did = <<Generate(st.case.family, st.case.prompt, st.case.maxTokens, NextToken)>>]

(* Every position but the last is passed to the model exactly once, in     *)
(* order, so that its cache has each token in its place.                   *)
GrownSound ==
    LET c == st.case
        did == st.did[1]
        covered == FlattenSeq([i \in 1..Len(did.passes) |->
                        [k \in 1..did.passes[i][2] |-> did.passes[i][1] + k - 1]])
        grew == Len(did.tokens) > Len(c.prompt)
    IN  st.did # <<>> /\ did.ok =>
          /\ IsPrefix(c.prompt, did.tokens)
          /\ Len(did.tokens) = Max({Len(c.prompt), c.maxTokens})
          /\ \A i \in DOMAIN covered : covered[i] = i - 1
          /\ grew => Len(covered) = Len(did.tokens) - 1
          /\ \A i \in (Len(c.prompt) + 1)..Len(did.tokens) :
                did.tokens[i] = NextToken[SubSeq(did.tokens, 1, i - 1)]

(* The token of a request, the drafts of the proposer and the tokens of a  *)
(* generation are ones the request and the model allow (sampler.rs:53-190; *)
(* speculative.rs).  Nothing is claimed of ZeroDraw, and top-k is allowed  *)
(* one token more than its comment says (logits.rs:15).                    *)
SampledAllowed ==
    /\ st.unit = "sample" /\ st.token # <<>> /\ ~ZeroDraw => TokenAllowed(st.case, st.token[1])
    /\ st.unit = "draft" => DraftSound
    /\ st.unit = "grow" => GrownSound

-----------------------------------------------------------------------------
(* Beam search, with any logits at every step.                             *)

BeamStart(c) == [unit |-> "beams", case |-> c, bs |-> NewBeams, before |-> <<>>, logits |-> <<>>]

AdvanceBeams ==
    /\ st.unit = "beams" /\ ~st.bs.finished
    /\ \E logits \in [DOMAIN st.bs.active -> BeamLogits] :
        /\ ~AdvanceFails(st.bs, logits, st.case)
        /\ st' = [st EXCEPT !.bs = Advance(@, logits, st.case), !.before = <<st.bs>>,
                            !.logits = logits]

(* The continuations of the beams, and those that finish one.              *)
Continuations ==
    LET old == st.before[1].active
    IN  UNION {{<<i, t>> : t \in Finite(Processed(old[i], st.logits[i], st.case))} : i \in DOMAIN old}

Closing ==
    {c \in Continuations :
        LET tokens == Append(st.before[1].active[c[1]].tokens, c[2])
        IN  FinishReason([beam |-> [tokens |-> tokens], token |-> c[2]], st.case) # "none"}

(* The beams that could go on, up to the width.                            *)
LiveBeams == Min({st.case.width, Cardinality(Continuations \ Closing)})

(* Twice the width of continuations are kept before the finished ones are  *)
(* set aside, so that these cost the others a place only past the width    *)
(* (with an eos and a stop token they may, and fewer hypotheses live than  *)
(* beam_search.rs:12 says): so many beams stay active, each the child of   *)
(* its recorded parent and none twice; and the answers are at most as many *)
(* as the width, the best first, each ended for a reason it meets.         *)
BeamWidthKept ==
    st.unit = "beams" /\ st.before # <<>> =>
        LET c == st.case
            old == st.before[1].active
            now == st.bs.active
            best == BestBeams(st.bs, c)
            unused == Max({0, 2 * c.width - Cardinality(Closing)})
        IN  /\ Len(now) \in Min({LiveBeams, unused})..LiveBeams
            /\ \A i \in DOMAIN now : Front(now[i].tokens) = old[st.bs.parents[i]].tokens
            /\ Cardinality({now[i].tokens : i \in DOMAIN now}) = Len(now)
            /\ Len(best) = Min({c.width, Len(st.bs.completed) + Len(now)})
            /\ \A i \in 1..(Len(best) - 1) : ~Better(best[i + 1], best[i], c)
            /\ \A i \in DOMAIN st.bs.completed :
                 LET b == st.bs.completed[i]
                 IN  CASE b.finish = "eos"  -> Last(b.tokens) = c.sampling.eos /\ Len(b.tokens) > c.sampling.minTokens
                       [] b.finish = "stop" -> Last(b.tokens) \in c.stop /\ Len(b.tokens) > c.sampling.minTokens
                       [] b.finish = "length" -> Len(b.tokens) = c.maxTokens

-----------------------------------------------------------------------------
(* A stream of tokens through the detokenizer.  A token's id is its place  *)
(* in the alphabet.                                                        *)

TextStart(c) ==
    [unit |-> "text", case |-> c, d |-> NewDetokenizer(c.mode, c.stops, c.stopIds, c.eos, c.minTokens),
     ids |-> <<>>, fed |-> <<>>, shown |-> <<>>, ended |-> "no"]

Shown(mode, shown, out) ==
    IF out = <<>> THEN shown ELSE IF mode = "delta" THEN shown \o out[1] ELSE out[1]

FeedToken ==
    /\ st.unit = "text" /\ st.ended = "no" /\ Len(st.ids) < MaxTokens
    /\ \E id \in DOMAIN st.case.alphabet :
        LET asked == CheckStopToken(st.d, id)
            bytes == st.case.alphabet[id]
            did == DecodeToken(asked.state, bytes)
            fed == st.fed \o bytes
            hit == st.case.mode # "final" /\ \E k \in DOMAIN st.case.stops : Occurrences(fed, st.case.stops[k]) # {}
        IN  IF asked.result # "continue"
            THEN st' = [st EXCEPT !.d = asked.state, !.ids = Append(@, id), !.ended = "token"]
            ELSE st' = [st EXCEPT !.d = did.state, !.ids = Append(@, id), !.fed = fed,
                                  !.shown = Shown(st.case.mode, @, did.out),
                                  !.ended = IF hit THEN "stop" ELSE "no"]

FlushText ==
    /\ st.unit = "text" /\ st.ended \in {"no", "token"}
    /\ LET did == Flush(st.d)
       IN  st' = [st EXCEPT !.d = did.state, !.ended = "flushed",
                            !.shown = Shown(st.case.mode, @, <<did.out>>)]

(* The special tokens of a tokenizer.                                      *)
VocabStart(c) == [unit |-> "vocab", case |-> c, ids |-> <<>>]

ReadVocab ==
    /\ st.unit = "vocab" /\ st.ids = <<>>
    /\ LET eos == TokenValues(st.case.eos)
       IN  st' = [st EXCEPT !.ids = <<[eos  |-> EosId(st.case.vocab, eos),
                                      stop |-> StopIds(st.case.vocab, eos),
                                      bos  |-> BosId(st.case.vocab, TokenValue(st.case.bos))]>>]

(* Stop strings are looked for in ASCII text handed on as deltas: in other *)
(* text the detokenizer may cut inside a character, and the cumulative     *)
(* mode shows what it should hold back.                                    *)
PlainStops(c) == c.stops # <<>> => c.mode = "delta" /\ c.alphabet \in Seq(Seq(0..127))

StopsInFed == {k \in DOMAIN st.case.stops : Occurrences(st.fed, st.case.stops[k]) # {}}

(* What a reader of the stream has seen is always what was generated: all  *)
(* of it once flushed, all before the stop string once one is complete,    *)
(* and until then all but what is held back.  No cut falls inside a        *)
(* character, and a stop token counts from the token after min_tokens.     *)
(* Every token a tokenizer's configuration calls an end of sequence is     *)
(* among its stop tokens, once.                                            *)
TextExact ==
    /\ st.unit = "vocab" /\ st.ids # <<>> =>
        LET ids == st.ids[1]
            named == ToSet(TokenValues(st.case.eos)) \cap DOMAIN st.case.vocab
        IN  /\ ToSet(ids.eos) \cup {st.case.vocab[t] : t \in named} \subseteq ToSet(ids.stop)
            /\ Cardinality(ToSet(ids.stop)) = Len(ids.stop)
            /\ named # {} => ids.eos # <<>>
    /\ st.unit = "text" /\ PlainStops(st.case) =>
        /\ ~st.d.panicked
        /\ st.ended = "flushed" => st.shown = st.fed
        /\ st.ended = "stop" =>
             st.shown = SubSeq(st.fed, 1, Min(Occurrences(st.fed, st.case.stops[Min(StopsInFed)])))
        /\ st.ended = "no" /\ st.case.mode = "delta" => st.shown \o st.d.buffer \o st.d.partial = st.fed
        /\ LET stopping == {i \in DOMAIN st.ids :
                              /\ i > st.case.minTokens
                              /\ <<st.ids[i]>> = st.case.eos \/ st.ids[i] \in ToSet(st.case.stopIds)}
           IN  st.ended = "token" <=> stopping # {} /\ st.ended # "flushed"

-----------------------------------------------------------------------------
(* A chat turn: what the template is given and what the answer is read as. *)

CallStart(c) == [unit |-> "calls", case |-> c, prompt |-> <<>>, answer |-> <<>>]

RenderTurn ==
    /\ st.unit = "calls" /\ st.prompt = <<>>
    /\ ValidToolCallRequest(st.case.req)
    /\ st' = [st EXCEPT !.prompt =
                <<RenderFallback(MessagesForTemplate(st.case.req), ToolsForTemplate(st.case.req), TRUE)>>]

ReadAnswer ==
    /\ st.unit = "calls" /\ st.prompt # <<>> /\ st.answer = <<>>
    /\ st' = [st EXCEPT !.answer = <<ParseChatOutput(st.case.text, ResponseTools(st.case.req))>>]

(* The calls of the JSON values at the places in `at`.                     *)
CallsAt(text, at) ==
    LET json == Selected(text, {i \in at : text[i].kind = "json"})
    IN  RawCalls([i \in DOMAIN json |-> json[i].value])

(* The pieces in `taken` became the calls and the others the content.      *)
TakenApart(text, got, taken) ==
    /\ \A i \in taken : text[i].kind \in {"open", "close", "python", "fence", "json"}
    /\ got.calls = CallsAt(text, taken)
    /\ got.content = Selected(text, DOMAIN text \ taken)

(* The prompt has every message once, in order, and the tools the choice   *)
(* leaves, if any, before the turn of the assistant.                       *)
PromptSound(req, parts) ==
    LET at(part) == {i \in DOMAIN parts : parts[i].part = part}
        told     == Selected(parts, at("message"))
    IN  /\ Len(told) = Len(req.messages)
        /\ \A i \in DOMAIN told : told[i].role = req.messages[i].role
        /\ parts[Len(parts)].part = "assistant"
        /\ (at("tools") = {}) = (ChoiceForTemplate(req) \in {<<>>, <<"none">>})
        /\ req.choice.mode = "named" =>
             \A i \in at("tools") : Names(parts[i].tools) = {req.choice.name}

(* Either the answer is the text as it was generated, or what is left of   *)
(* the text is the content and what was taken out of it are the markers    *)
(* and the calls, all of them, in order, each to a tool of the request,    *)
(* with no call left open.                                                 *)
AnswerSound(c, got) ==
    \/ got = NoCalls(c.text)
    \/ /\ \E taken \in SUBSET DOMAIN c.text : TakenApart(c.text, got, taken)
       /\ got.calls # <<>>
       /\ \A i \in DOMAIN got.calls : got.calls[i].name[1] \in Names(c.req.tools[1])
       /\ \A i \in DOMAIN got.content : got.content[i].kind # "open"

(* A model that may call tools is told what it may call and what was said, *)
(* and of its answer either every call is recognised or none is: no part   *)
(* of the text is lost or shown twice.                                     *)
CallsAllOrNothing ==
    st.unit = "calls" =>
        /\ st.prompt # <<>> => PromptSound(st.case.req, st.prompt[1])
        /\ st.answer # <<>> => AnswerSound(st.case, st.answer[1])

TokenInit ==
    \/ \E c \in SampleCases : st = SampleStart(c)
    \/ \E c \in DraftCases : st = DraftStart(c)
    \/ \E c \in GrowCases : st = GrowStart(c)
    \/ \E c \in BeamCases : st = BeamStart(c)
    \/ \E c \in TextCases : st = TextStart(c)
    \/ \E c \in CallCases : st = CallStart(c)
    \/ \E c \in VocabCases : st = VocabStart(c)

TokenNext ==
    \/ SampleToken
    \/ ProposeDraft \/ VerifyDraft
    \/ GrowPrompt
    \/ AdvanceBeams
    \/ FeedToken \/ FlushText
    \/ RenderTurn \/ ReadAnswer
    \/ ReadVocab

=============================================================================
