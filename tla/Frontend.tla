------------------------------ MODULE Frontend ------------------------------
(***************************************************************************)
(* The pure part of the two front ends: authentication (auth.rs, grpc.rs), *)
(* validation and conversion of requests (openai.rs, grpc.rs), sampling    *)
(* parameters (crates/rllm-core/src/request.rs), and the recognition of    *)
(* tool calls in generated text (openai.rs).                               *)
(*                                                                         *)
(* An optional field is a sequence of at most one element.  Real-valued    *)
(* parameters are in tenths.  A name is told apart by its identity, its    *)
(* length and whether its characters are allowed; JSON text by whether it  *)
(* parses and to what kind of value.                                       *)
(***************************************************************************)
EXTENDS Integers, Sequences, FiniteSets, SequencesExt

IsSome(opt) == opt # <<>>

OrElse(opt, default) == IF IsSome(opt) THEN opt[1] ELSE default

-----------------------------------------------------------------------------
(* Sampling parameters.                                                    *)

(* A structured-output constraint: the fields set, the value of            *)
(* json_object, and whether the text or the choices are empty or oversize. *)
ValidStructured(s) ==
    /\ Cardinality(s.fields) = 1
    /\ "json_object" \in s.fields => s.json_object
    /\ s.fields \cap {"xml", "regex", "grammar", "choice"} # {} => s.size # "empty"
    /\ s.size # "huge"

(* request_structured_outputs: response_format stands in for the field.    *)
StructuredOf(req) ==
    IF IsSome(req.structured) THEN req.structured
    ELSE CASE req.format = <<"json_object">> ->
                <<[fields |-> {"json_object"}, json_object |-> TRUE, size |-> "ok"]>>
           [] req.format = <<"json_schema">> ->
                <<[fields |-> {"json"}, json_object |-> FALSE, size |-> "ok"]>>
           [] OTHER -> <<>>

(* chat_request_to_sampling_params, completion_request_to_sampling_params. *)
SamplingParams(req) ==
    [n           |-> OrElse(req.n, 1),
     temperature |-> OrElse(req.temperature, 10),
     presence    |-> OrElse(req.presence, 0),
     frequency   |-> OrElse(req.frequency, 0),
     top_p       |-> OrElse(req.top_p, 10),
     max_tokens  |-> OrElse(req.max_tokens, 16),
     stop        |-> req.stop,
     structured  |-> StructuredOf(req)]

(* SamplingParams::validate.  The fields no front end sets keep defaults   *)
(* that satisfy it.                                                        *)
ValidParams(p) ==
    /\ p.n # 0
    /\ p.temperature >= 0
    /\ p.presence \in 0..20
    /\ p.frequency \in 0..20
    /\ p.top_p \in 0..10
    /\ ~(p.temperature = 0 /\ p.n > 1)
    /\ IsSome(p.structured) =>
         /\ ValidStructured(p.structured[1])
         /\ p.n = 1
         /\ p.stop = {}

-----------------------------------------------------------------------------
(* Tools and messages.                                                     *)

ValidFunctionName(name) == name.len \in 1..64 /\ name.clean

ValidToolCall(call) ==
    /\ call.id # ""
    /\ call.type = "function"
    /\ ValidFunctionName(call.name)
    /\ call.arguments # "text"

(* validate_tool_message.                                                  *)
ValidMessage(m) ==
    CASE m.role \in {"system", "user"} ->
           IsSome(m.content) /\ ~IsSome(m.calls) /\ ~IsSome(m.call_id)
      [] m.role = "assistant" ->
           /\ IsSome(m.content) \/ OrElse(m.calls, <<>>) # <<>>
           /\ ~IsSome(m.call_id)
           /\ \A i \in DOMAIN OrElse(m.calls, <<>>) : ValidToolCall(m.calls[1][i])
      [] m.role = "tool" ->
           IsSome(m.content) /\ OrElse(m.call_id, "") # "" /\ ~IsSome(m.calls)
      [] OTHER -> FALSE

Names(tools) == {tools[i].name : i \in DOMAIN tools}

ValidTool(tool) ==
    /\ tool.type = "function"
    /\ ValidFunctionName(tool.name)
    /\ tool.parameters \in {"absent", "object"}

MaxTools == 128

ValidChoice(choice, tools) ==
    CASE choice.mode \in {"unset", "none"} -> TRUE
      [] choice.mode \in {"auto", "required"} -> tools # <<>>
      [] choice.mode = "named" ->
           /\ choice.type = "function"
           /\ ValidFunctionName(choice.name)
           /\ choice.name \in Names(tools)

(* validate_tool_call_request.                                             *)
ValidToolCallRequest(req) ==
    LET tools == OrElse(req.tools, <<>>)
    IN  /\ req.tools # <<(<<>>)>>
        /\ Len(tools) <= MaxTools
        /\ \A i \in DOMAIN tools : ValidTool(tools[i])
        /\ Cardinality(Names(tools)) = Len(tools)
        /\ ValidChoice(req.choice, tools)
        /\ \A i \in DOMAIN req.messages : ValidMessage(req.messages[i])

(* The elements of s at the places in `at`, in order.                      *)
Selected(s, at) ==
    LET kept[i \in 0..Len(s)] ==
            IF i = 0 THEN <<>> ELSE IF i \in at THEN Append(kept[i - 1], s[i]) ELSE kept[i - 1]
    IN  kept[Len(s)]

(* tools_for_chat_template: the tools the model is shown.                  *)
ToolsForTemplate(req) ==
    IF ~IsSome(req.tools) \/ req.choice.mode = "none" THEN <<>>
    ELSE <<Selected(req.tools[1],
               {i \in DOMAIN req.tools[1] :
                   req.choice.mode = "named" => req.tools[1][i].name = req.choice.name})>>

(* messages_for_chat_template: the arguments of calls become JSON values.  *)
MessagesForTemplate(req) ==
    [i \in DOMAIN req.messages |->
        [req.messages[i] EXCEPT !.calls =
            IF ~IsSome(@) THEN @
            ELSE <<[j \in DOMAIN @[1] |-> [@[1][j] EXCEPT !.arguments = "object"]]>>]]

(* tool_choice_for_chat_template.                                          *)
ChoiceForTemplate(req) ==
    IF ~IsSome(req.tools) THEN <<>>
    ELSE <<(IF req.choice.mode = "unset" THEN "auto" ELSE req.choice.mode)>>

(* The tools calls are recognised against in the answer.                   *)
ResponseTools(req) == IF req.choice.mode = "none" THEN <<>> ELSE req.tools

-----------------------------------------------------------------------------
(* Tool calls in generated text.  A text is a sequence of pieces: prose,   *)
(* the markers "open" and "close" (<tool_call>, </tool_call>), "python"    *)
(* (<|python_tag|>) and "fence" (of a code block), and JSON values.  A     *)
(* JSON value is a sequence of raw calls under an array, an object with    *)
(* `tool_calls`, or one object; anything else is a "scalar".               *)

IsKind(text, i, kind) == i \in DOMAIN text /\ text[i].kind = kind

(* The first piece of that kind at or after i, or 0.                       *)
FindFrom(text, i, kind) ==
    LET at == {j \in i..Len(text) : IsKind(text, j, kind)}
    IN  IF at = {} THEN 0 ELSE CHOOSE j \in at : \A k \in at : j <= k

(* parse_json_sequence: at least one value and nothing but values.         *)
ParseJson(pieces) ==
    IF pieces # <<>> /\ \A i \in DOMAIN pieces : pieces[i].kind = "json"
    THEN <<[i \in DOMAIN pieces |-> pieces[i].value]>>
    ELSE <<>>

(* The values between tags from piece i on, and what is outside of them.   *)
TaggedValues(text) ==
    LET from[i \in 1..(Len(text) + 1)] ==
          LET open  == FindFrom(text, i, "open")
              close == FindFrom(text, open + 1, "close")
          IN  IF open = 0
              THEN <<[values |-> <<>>, content |-> SubSeq(text, i, Len(text))]>>
              ELSE IF close = 0 THEN <<>>
              ELSE LET body == ParseJson(SubSeq(text, open + 1, close - 1))
                       rest == from[close + 1]
                   IN  IF body = <<>> \/ rest = <<>> THEN <<>>
                       ELSE <<[values  |-> body[1] \o rest[1].values,
                               content |-> SubSeq(text, i, open - 1) \o rest[1].content]>>
    IN  from[1]

(* tool_call_json_values; of a text without tags strip_json_code_fence     *)
(* takes the fence before it and, then, one after it.                      *)
ToolCallValues(text) ==
    LET python == FindFrom(text, 1, "python")
        fenced == python = 0 /\ IsKind(text, 1, "fence")
        first  == IF fenced THEN 2 ELSE python + 1
        last   == IF fenced /\ Len(text) > 1 /\ IsKind(text, Len(text), "fence")
                  THEN Len(text) - 1 ELSE Len(text)
        after  == ParseJson(SubSeq(text, first, last))
    IN  IF FindFrom(text, 1, "open") > 0 THEN TaggedValues(text)
        ELSE IF after = <<>> THEN <<>>
        ELSE <<[values |-> after[1], content |-> SubSeq(text, 1, python - 1)]>>

(* values_to_tool_calls, normalize_tool_call.                              *)
RawCalls(values) == FlattenSeq([i \in DOMAIN values |-> values[i].calls])

Normal(raw) == IsSome(raw.name) /\ raw.arguments \in {"absent", "object", "encoded"}

NoCalls(text) == [content |-> text, calls |-> <<>>]

(* A faulty parser that leaves out the calls it does not know.             *)
ParseChatOutputFiltering(text, tools) ==
    LET found == ToolCallValues(text)
        raw   == IF found = <<>> THEN <<>> ELSE RawCalls(found[1].values)
        known == SelectSeq(raw, LAMBDA c : /\ Normal(c)
                                           /\ c.name[1] \in Names(OrElse(tools, <<>>)))
    IN  IF known = <<>> THEN NoCalls(text)
        ELSE [content |-> found[1].content, calls |-> known]

(* parse_chat_output: all of the calls, or the text as it is.              *)
ParseChatOutput(text, tools) ==
    LET found == ToolCallValues(text)
        raw   == IF found = <<>> THEN <<>> ELSE RawCalls(found[1].values)
    IN  IF /\ OrElse(tools, <<>>) # <<>>
           /\ found # <<>>
           /\ \A i \in DOMAIN found[1].values : found[1].values[i].shape # "scalar"
           /\ raw # <<>>
           /\ \A i \in DOMAIN raw : Normal(raw[i]) /\ raw[i].name[1] \in Names(tools[1])
        THEN [content |-> found[1].content, calls |-> raw]
        ELSE NoCalls(text)

-----------------------------------------------------------------------------
(* The order of the checks.  A request is [endpoint, stream, key, ...].    *)

IsHttp(req) == req.endpoint \in {"http_chat", "http_text"}

IsChat(req) == req.endpoint \in {"http_chat", "grpc_chat"}

(* Only the completions handler of HTTP ignores `stream`.                  *)
Streams(req) == req.stream /\ req.endpoint # "http_text"

Authorized(req) ==
    req.key \in (IF IsHttp(req) THEN {"bearer"} ELSE {"bearer", "x-api-key"})

(* proto_to_chat_request: what a protobuf message can fail to say.  An     *)
(* empty list of tools is no list.                                         *)
FromProto(req) ==
    [req EXCEPT !.tools = IF @ = <<(<<>>)>> THEN <<>> ELSE @,
                !.structured = <<>>, !.format = <<>>]

MaxPrompts == 16

(* What a handler refuses before it looks for a model.  With the feature,  *)
(* the grammar compiler must take the constraint (req.compiles): external. *)
RefusedEarly(req, maxMessages, structuredFeature) ==
    \/ /\ IsHttp(req)
       /\ \/ IsSome(req.structured) /\ IsSome(req.format)
          \/ ~ValidParams(SamplingParams(req))
          \/ IsSome(StructuredOf(req)) /\ ~(structuredFeature /\ req.compiles)
    \/ req.endpoint = "http_chat" /\ ~ValidToolCallRequest(req)
    \/ req.endpoint = "http_text" /\ req.prompts > MaxPrompts
    \/ req.endpoint = "grpc_chat" /\ req.malformed
    \/ IsChat(req) /\ Len(req.messages) \notin 1..maxMessages

(* A faulty gRPC handler that forgets the tools.                           *)
RefusedLateParamsOnly(req) == ~IsHttp(req) /\ ~ValidParams(SamplingParams(FromProto(req)))

(* What the gRPC handlers only refuse once there is one: run_chat_completion,  *)
(* start_chat_stream, stream_completion, run_text_completion.              *)
RefusedLate(req) ==
    /\ ~IsHttp(req)
    /\ \/ req.endpoint = "grpc_chat" /\ ~ValidToolCallRequest(FromProto(req))
       \/ ~ValidParams(SamplingParams(FromProto(req)))

=============================================================================
