-------------------------------- MODULE Text --------------------------------
(***************************************************************************)
(* Text on its way in and out (crates/rllm-tokenizer): the streaming       *)
(* detokenizer with its stop strings (detokenizer.rs), the special tokens  *)
(* read from a tokenizer configuration (tokenizer.rs) and the prompt       *)
(* rendered without a model's own chat template (chat_template.rs).        *)
(*                                                                         *)
(* Text is a sequence of bytes, because the detokenizer cuts by bytes.     *)
(* Token texts are valid UTF-8, so a lossy conversion is the identity.     *)
(***************************************************************************)
EXTENDS Integers, Sequences, FiniteSets, FiniteSetsExt, SequencesExt

IsContinuation(b) == b \in 128..191

SequenceLength(first) ==
    CASE first < 128 -> 1 [] first \in 128..223 -> 2
      [] first \in 224..239 -> 3 [] OTHER -> 4

(* is_clean_utf8_boundary.                                                 *)
CleanEnd(bytes) == bytes = <<>> \/ Last(bytes) \notin 128..247

(* find_safe_utf8_boundary: the end of the last complete character.        *)
SafeEnd(bytes) ==
    LET starts == {i \in DOMAIN bytes : ~IsContinuation(bytes[i])}
        i      == Max(starts)
    IN  CASE starts = {} -> 0
          [] starts # {} /\ bytes[i] < 128 -> i
          [] OTHER -> IF Len(bytes) - i + 1 >= SequenceLength(bytes[i])
                      THEN Len(bytes) ELSE i - 1

(* decode_utf8_partial: the text, and the bytes kept for the next call.    *)
DecodePartial(partial, bytes) ==
    LET all == partial \o bytes
    IN  IF partial = <<>> /\ CleanEnd(bytes) THEN [text |-> bytes, partial |-> <<>>]
        ELSE [text    |-> SubSeq(all, 1, SafeEnd(all)),
              partial |-> SubSeq(all, SafeEnd(all) + 1, Len(all))]

(* Where `pattern` occurs in `text`, as the number of bytes before it.     *)
Occurrences(text, pattern) ==
    {i \in 0..(Len(text) - Len(pattern)) : SubSeq(text, i + 1, i + Len(pattern)) = pattern}

(* Slicing a String at i panics inside a character.                        *)
OnBoundary(text, i) == i = Len(text) \/ ~IsContinuation(text[i + 1])

-----------------------------------------------------------------------------
(* StreamingDetokenizer.  d: [partial, buffer, cumulative, count, mode,    *)
(* stops, stopIds, eos, minTokens, panicked].  An emitted text is a        *)
(* sequence of at most one element.                                        *)

NewDetokenizer(mode, stops, stopIds, eos, minTokens) ==
    [partial |-> <<>>, buffer |-> <<>>, cumulative |-> <<>>, count |-> 0, mode |-> mode,
     stops |-> stops, stopIds |-> stopIds, eos |-> eos, minTokens |-> minTokens,
     panicked |-> FALSE]

(* check_stop_token counts the token it is asked about.                    *)
CheckStopToken(d, token) ==
    [state  |-> [d EXCEPT !.count = @ + 1],
     result |-> IF d.count + 1 <= d.minTokens THEN "continue"
                ELSE IF <<token>> = d.eos THEN "eos"
                ELSE IF token \in ToSet(d.stopIds) THEN "token"
                ELSE "continue"]

Emit(d, delta) ==
    [state |-> d, out |-> IF d.mode = "delta" THEN <<delta>> ELSE <<d.cumulative>>]

Matching(d) == {k \in DOMAIN d.stops : Occurrences(d.buffer, d.stops[k]) # {}}

(* The first listed stop string that occurs; everything before its first   *)
(* occurrence is emitted and the rest dropped.                             *)
AtStop(d) ==
    LET stop == d.stops[Min(Matching(d))]
        cut  == Min(Occurrences(d.buffer, stop))
        last == Max(Occurrences(d.cumulative, stop))
    IN  [state |-> [d EXCEPT !.buffer = <<>>],
         out   |-> <<IF d.mode = "delta" THEN SubSeq(d.buffer, 1, cut)
                     ELSE SubSeq(d.cumulative, 1, last)>>]

LongestStop(d) == Max({Len(d.stops[k]) : k \in DOMAIN d.stops})

(* A faulty detokenizer that keeps one byte less than a stop needs.        *)
HeldBackShort(d) == LongestStop(d) - 2

(* How much is held back: it may be the beginning of a stop string.        *)
HeldBack(d) == LongestStop(d)

BeforeStop(d) ==
    LET safe == Len(d.buffer) - HeldBack(d)
    IN  IF safe <= 0 THEN [state |-> d, out |-> <<>>]
        ELSE IF ~OnBoundary(d.buffer, safe)
        THEN [state |-> [d EXCEPT !.panicked = TRUE], out |-> <<>>]
        ELSE Emit([d EXCEPT !.buffer = SubSeq(@, safe + 1, Len(@))],
                  SubSeq(d.buffer, 1, safe))

(* decode_token.                                                           *)
DecodeToken(d, bytes) ==
    LET got  == DecodePartial(d.partial, bytes)
        more == [d EXCEPT !.partial = got.partial, !.cumulative = @ \o got.text]
        held == [more EXCEPT !.buffer = @ \o got.text]
    IN  CASE d.mode = "final" -> [state |-> more, out |-> <<>>]
          [] d.mode # "final" /\ d.stops = <<>> -> Emit(more, got.text)
          [] OTHER -> IF Matching(held) # {} THEN AtStop(held) ELSE BeforeStop(held)

(* flush: what is held back, or all of the text.                           *)
Flush(d) ==
    IF d.mode = "delta"
    THEN [state |-> [d EXCEPT !.partial = <<>>, !.buffer = <<>>,
                              !.cumulative = @ \o d.partial],
          out   |-> d.buffer \o d.partial]
    ELSE [state |-> [d EXCEPT !.partial = <<>>, !.buffer = <<>>, !.cumulative = <<>>],
          out   |-> d.cumulative \o d.partial]

-----------------------------------------------------------------------------
(* Special tokens.  `vocab` maps the tokens the tokenizer knows to ids.    *)

Ids(vocab, tokens) ==
    LET known[i \in 0..Len(tokens)] ==
            IF i = 0 THEN <<>>
            ELSE IF tokens[i] \in DOMAIN vocab THEN Append(known[i - 1], vocab[tokens[i]])
            ELSE known[i - 1]
    IN  known[Len(tokens)]

FirstId(vocab, tokens) == SubSeq(Ids(vocab, tokens), 1, Min({1, Len(Ids(vocab, tokens))}))

WithoutRepeats(s) ==
    LET kept[i \in 0..Len(s)] ==
            IF i = 0 THEN <<>>
            ELSE IF s[i] \in ToSet(kept[i - 1]) THEN kept[i - 1] ELSE Append(kept[i - 1], s[i])
    IN  kept[Len(s)]

(* Tokenizer::build.  The end of sequence is the first configured token    *)
(* that exists, else a well-known one; every one of them stops generation. *)
EosId(vocab, eosTokens) ==
    FirstId(vocab, eosTokens \o <<"</s>", "<|end_of_text|>", "<|eot_id|>">>)

StopIds(vocab, eosTokens) ==
    WithoutRepeats(Ids(vocab,
        eosTokens \o <<"</s>", "<|end_of_text|>", "<|eom_id|>", "<|eot_id|>">>))

BosId(vocab, bosToken) == FirstId(vocab, bosToken \o <<"<s>", "<|begin_of_text|>">>)

(* load_config_from_dir: a field is a string, an object with `content`, or *)
(* (eos_token) a list of these; chat_template may be an object whose       *)
(* `default` counts.                                                       *)
TokenValue(field) ==
    CASE field.kind = "string" -> <<field.value>>
      [] field.kind = "object" -> field.content
      [] OTHER -> <<>>

TokenValues(field) ==
    LET read[i \in 0..Len(field.items)] ==
            IF i = 0 THEN <<>> ELSE read[i - 1] \o TokenValue(field.items[i])
    IN  IF field.kind = "array" THEN read[Len(field.items)] ELSE TokenValue(field)

-----------------------------------------------------------------------------
(* render_chat_template_fallback_with_tools: the parts of the prompt.      *)

RenderFallback(messages, tools, addGenerationPrompt) ==
    (IF tools = <<>> THEN <<>> ELSE <<[part |-> "tools", tools |-> tools[1]]>>)
    \o [i \in DOMAIN messages |->
          [part |-> "message", role |-> messages[i].role,
           content |-> IF messages[i].content = <<>> THEN "" ELSE messages[i].content[1]]]
    \o (IF addGenerationPrompt THEN <<[part |-> "assistant"]>> ELSE <<>>)

=============================================================================
