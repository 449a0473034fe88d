------------------------------ MODULE MCServing -----------------------------
(* Two clients, each sending any of a few requests to any endpoint.        *)
EXTENDS Serving

CONSTANTS r1, r2

TokenLimits == (r1 :> 2) @@ (r2 :> 1)

Name == [id |-> "f", len |-> 1, clean |-> TRUE]

Tool == [type |-> "function", name |-> Name, parameters |-> "object"]

User == [role |-> "user", content |-> <<"text">>, call_id |-> <<>>, calls |-> <<>>]

Plain ==
    [endpoint |-> "http_chat", stream |-> FALSE, key |-> "bearer",
     n |-> <<>>, temperature |-> <<>>, presence |-> <<>>, frequency |-> <<>>,
     top_p |-> <<>>, max_tokens |-> <<2>>, stop |-> {},
     structured |-> <<>>, format |-> <<>>, compiles |-> TRUE, malformed |-> FALSE,
     messages |-> <<User>>, prompts |-> 1, tools |-> <<>>,
     choice |-> [mode |-> "unset", type |-> "function", name |-> Name]]

Unknown == [mode |-> "named", type |-> "function",
            name |-> [id |-> "g", len |-> 1, clean |-> TRUE]]

Good ==
    {[Plain EXCEPT !.stream = TRUE],
     [Plain EXCEPT !.stream = TRUE, !.tools = <<(<<Tool>>)>>],
     [Plain EXCEPT !.endpoint = "grpc_chat", !.key = "x-api-key", !.stream = TRUE,
                   !.tools = <<(<<Tool>>)>>]}

Bad ==
    {[Plain EXCEPT !.key = "x-api-key"],
     [Plain EXCEPT !.messages = <<>>],
     [Plain EXCEPT !.format = <<"json_schema">>, !.compiles = FALSE],
     [Plain EXCEPT !.endpoint = "grpc_chat", !.tools = <<(<<Tool>>)>>, !.choice = Unknown],
     [Plain EXCEPT !.endpoint = "grpc_text", !.n = <<0>>]}

(* The second client's completion is collected although it asks for a      *)
(* stream; the first may compete with it for the one place of the route.   *)
Completion == [Plain EXCEPT !.endpoint = "http_text", !.stream = TRUE]

Clients == (r1 :> Good \cup Bad \cup {[Completion EXCEPT !.format = <<"json_schema">>]}) @@
           (r2 :> {Completion})
=============================================================================
