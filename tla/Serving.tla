------------------------------- MODULE Serving ------------------------------
(***************************************************************************)
(* The asynchronous engine (crates/rllm-engine/src/async_engine.rs) and    *)
(* the HTTP and gRPC handlers on top of it (crates/rllm-server).           *)
(*                                                                         *)
(* The engine loop is one task: it takes commands from an unbounded        *)
(* channel, steps the engine core (module EngineContract) and sends each   *)
(* output to the channel of its request.  A handler is one task per        *)
(* request: it validates, waits for the tokenizer, submits, and then       *)
(* either streams the outputs or collects them under a timeout.  A client  *)
(* may go away, and an embedding program may abort and shut down, at any   *)
(* moment.                                                                 *)
(*                                                                         *)
(* An output is its number and its finish reason: the text is told apart   *)
(* only by which outputs reached the client, in which order.               *)
(***************************************************************************)
EXTENDS EngineContract, Frontend

CONSTANTS Profiles,             \* what each client may ask for
          MaxMessages,          \* max_input_messages
          MaxConcurrent,        \* max_concurrent_requests
          KeyRequired,          \* an API key is configured
          StructuredFeature,    \* built with structured-outputs
          Runtimes              \* whether a model is loaded: the cases to consider

ASSUME ServingAssumption ==
    /\ MaxMessages \in Nat /\ MaxConcurrent \in Nat \ {0}
    /\ KeyRequired \in BOOLEAN /\ StructuredFeature \in BOOLEAN
    /\ Runtimes \subseteq BOOLEAN

(* The fields of a request the conversion from protobuf touches or keeps.  *)
ASSUME ProfileAssumption ==
    \A r \in Requests : \A p \in Profiles[r] :
        /\ {"endpoint", "key", "messages", "tools", "structured", "format", "compiles"} \subseteq DOMAIN p
        /\ p.endpoint \in {"http_chat", "http_text", "grpc_chat", "grpc_text"}

VARIABLES runtime,      \* AppState.runtime is set
          cmds,         \* the command channel
          drained,      \* the commands the loop took for this round
          loop,         \* where the engine loop is
          senders,      \* the requests whose sender the loop holds
          latest,       \* the watch channel: the requests of the last batch
          chan,         \* the outputs sent to each handler, not yet received
          emitted,      \* history: number of outputs the engine produced
          pc,           \* where each handler is
          req,          \* the request it serves
          held,         \* outputs collected, or buffered for tool calls
          sent,         \* outputs whose text went to the client
          reply,        \* how the handler ended
          lost          \* history: requests that lost text to a failed decode

handlerVars == <<pc, req, held, sent, reply, lost>>
loopVars == <<drained, loop, senders, latest, emitted>>
serving == <<core, runtime, cmds, loopVars, chan, handlerVars>>

Waiting == {"streaming", "collecting"}

NoRequest == [endpoint |-> "none"]

ServingInit ==
    /\ Init
    /\ runtime \in Runtimes
    /\ cmds = <<>> /\ drained = <<>>
    /\ loop = "check"
    /\ senders = {} /\ latest = {}
    /\ chan = [r \in Requests |-> <<>>]
    /\ emitted = [r \in Requests |-> 0]
    /\ pc = [r \in Requests |-> "idle"]
    /\ req = [r \in Requests |-> NoRequest]
    /\ held = [r \in Requests |-> <<>>]
    /\ sent = [r \in Requests |-> <<>>]
    /\ reply = [r \in Requests |-> "none"]
    /\ lost = {}

-----------------------------------------------------------------------------
(* AsyncLLMEngine: a call sends a command unless the loop has returned.    *)

Command(op, r) == [op |-> op, r |-> r]

Send(cmd) == loop # "stopped" /\ cmds' = Append(cmds, cmd)

Pending(op, r) == Command(op, r) \in ToSet(cmds \o drained)

Submitted(s) == {s[i].r : i \in {j \in DOMAIN s : s[j].op \in {"add", "stream"}}}

AddRequestCall(r) ==
    /\ pc[r] = "idle"
    /\ Send(Command("add", r))
    /\ pc' = [pc EXCEPT ![r] = "ended"]
    /\ reply' = [reply EXCEPT ![r] = "submitted"]
    /\ UNCHANGED <<core, runtime, loopVars, chan, req, held, sent, lost>>

(* Bound: a request is aborted once it was submitted, and by one command   *)
(* at a time; the engine ignores an abort of anything else.                *)
AbortCall(r) ==
    /\ ~Pending("abort", r)
    /\ r \in Submitted(cmds \o drained) \cup Tracked(core)
    /\ Send(Command("abort", r))
    /\ UNCHANGED <<core, runtime, loopVars, chan, handlerVars>>

(* The request of a shutdown means nothing.                                *)
Shutdown == Command("shutdown", CHOOSE r \in Requests : TRUE)

ShutdownCall ==
    /\ Shutdown \notin ToSet(cmds \o drained)
    /\ Send(Shutdown)
    /\ UNCHANGED <<core, runtime, loopVars, chan, handlerVars>>

-----------------------------------------------------------------------------
(* engine_loop.                                                            *)

(* A faulty abort that keeps the sender.                                   *)
ApplyKeepingSender(state, cmd, refused) ==
    IF cmd.op = "abort" THEN [state EXCEPT !.core = Without(@, {cmd.r})]
    ELSE IF cmd.r \in refused THEN state
    ELSE [core    |-> AddTo(state.core, cmd.r),
          senders |-> state.senders \cup (IF cmd.op = "stream" THEN {cmd.r} ELSE {})]

(* One command, applied to [core, senders].  The engine may refuse a       *)
(* request, in which case its sender is dropped.                           *)
Apply(state, cmd, refused) ==
    IF cmd.op = "abort"
    THEN [core |-> Without(state.core, {cmd.r}), senders |-> state.senders \ {cmd.r}]
    ELSE IF cmd.r \in refused THEN state
    ELSE [core    |-> AddTo(state.core, cmd.r),
          senders |-> state.senders \cup (IF cmd.op = "stream" THEN {cmd.r} ELSE {})]

(* The commands of one round, in their order.                              *)
ApplyAll(state, s, refused) ==
    LET after[i \in 0..Len(s)] ==
          IF i = 0 THEN state ELSE Apply(after[i - 1], s[i], refused)
    IN  after[Len(s)]

(* The loop returns: the engine, the commands and every sender are gone.   *)
Return ==
    /\ loop' = "stopped"
    /\ core' = EmptyCore
    /\ cmds' = <<>> /\ drained' = <<>> /\ senders' = {}
    /\ UNCHANGED <<runtime, latest, emitted, chan, handlerVars>>

(* Without work the loop waits for one command.                            *)
LoopRecv ==
    /\ loop = "check" /\ core.active = {} /\ cmds # <<>>
    /\ IF Head(cmds).op = "shutdown" THEN Return
       ELSE /\ \E refused \in SUBSET Submitted(<<Head(cmds)>>) :
                 LET after == Apply([core |-> core, senders |-> senders], Head(cmds), refused)
                 IN  core' = after.core /\ senders' = after.senders
            /\ cmds' = Tail(cmds)
            /\ loop' = "drain"
            /\ UNCHANGED <<runtime, drained, latest, emitted, chan, handlerVars>>

LoopBusy ==
    /\ loop = "check" /\ core.active # {}
    /\ loop' = "drain"
    /\ UNCHANGED <<core, runtime, cmds, drained, senders, latest, emitted, chan, handlerVars>>

(* Every queued command is taken; a shutdown among them loses the others.  *)
LoopDrain ==
    /\ loop = "drain"
    /\ IF \E i \in DOMAIN cmds : cmds[i].op = "shutdown" THEN Return
       ELSE /\ drained' = cmds
            /\ cmds' = <<>>
            /\ loop' = "apply"
            /\ UNCHANGED <<core, runtime, senders, latest, emitted, chan, handlerVars>>

(* The outputs of a step go to the senders still held; the senders of the  *)
(* finished requests are dropped afterwards.                               *)
Number(r, outs) == [k |-> emitted[r] + 1, finish |-> outs[r].finish]

(* A faulty loop that drops the senders of finished requests first.        *)
DeliverUnfinished(outs, held_) ==
    /\ chan' = [r \in Requests |->
                  IF r \in DOMAIN outs \cap (held_ \ Finished(outs)) /\ pc[r] \in Waiting
                  THEN Append(chan[r], Number(r, outs)) ELSE chan[r]]
    /\ senders' = held_ \ Finished(outs)

Deliver(outs, held_) ==
    /\ chan' = [r \in Requests |->
                  IF r \in DOMAIN outs \cap held_ /\ pc[r] \in Waiting
                  THEN Append(chan[r], Number(r, outs)) ELSE chan[r]]
    /\ senders' = held_ \ Finished(outs)

(* Under the lock: apply what was drained, step once if there is work.     *)
LoopApply ==
    /\ loop = "apply"
    /\ \E refused \in SUBSET Submitted(drained) :
         LET after == ApplyAll([core |-> core, senders |-> senders], drained, refused)
         IN  \E rs \in SUBSET after.core.active :
             \E quiet \in SUBSET (after.core.active \ rs) :
             \E outs \in Outputs(after.core, rs) :
                /\ core' = Retired(Answered(after.core, outs), quiet)
                /\ Deliver(outs, after.senders)
                /\ emitted' = [r \in Requests |->
                                 IF r \in rs THEN emitted[r] + 1 ELSE emitted[r]]
                /\ latest' = IF rs = {} THEN latest ELSE rs
    /\ drained' = <<>>
    /\ loop' = "check"
    /\ UNCHANGED <<runtime, cmds, handlerVars>>

(* The waiting loop finds its channel closed: whoever could call the       *)
(* engine has dropped it.  A handler holds it to its end.                  *)
HandlesDropped ==
    /\ loop = "check" /\ core.active = {} /\ cmds = <<>>
    /\ \A r \in Requests : pc[r] \in {"idle", "ended"}
    /\ Return

EngineLoop == LoopRecv \/ LoopBusy \/ LoopDrain \/ LoopApply

-----------------------------------------------------------------------------
(* Handlers.                                                               *)

(* The handler's own buffer and receiver are dropped with it.              *)
End(r, how) ==
    /\ pc' = [pc EXCEPT ![r] = "ended"]
    /\ reply' = [reply EXCEPT ![r] = how]
    /\ chan' = [chan EXCEPT ![r] = <<>>]

(* Authentication comes before the concurrency limit.                      *)
Arrive(r, p) ==
    /\ pc[r] = "idle"
    /\ req' = [req EXCEPT ![r] = p]
    /\ IF KeyRequired /\ ~Authorized(p) THEN End(r, "unauthorized")
       ELSE pc' = [pc EXCEPT ![r] = "queued"] /\ UNCHANGED <<reply, chan>>
    /\ UNCHANGED <<core, runtime, cmds, loopVars, held, sent, lost>>

(* tower's limit, for each route its own: a permit is held until the       *)
(* response is returned, which for a stream is before its first chunk.     *)
(* gRPC has no limit.                                                      *)
Permits(endpoint) ==
    {r \in Requests : pc[r] \in {"encoding", "collecting"} /\ req[r].endpoint = endpoint}

Handle(r) ==
    /\ pc[r] = "queued"
    /\ IsHttp(req[r]) => Cardinality(Permits(req[r].endpoint)) < MaxConcurrent
    /\ IF RefusedEarly(req[r], MaxMessages, StructuredFeature) THEN End(r, "bad_request")
       ELSE IF ~runtime THEN End(r, "placeholder")
       ELSE pc' = [pc EXCEPT ![r] = "encoding"] /\ UNCHANGED <<reply, chan>>
    /\ UNCHANGED <<core, runtime, cmds, loopVars, req, held, sent, lost>>

(* A gRPC completion that is not a stream reports every error as internal. *)
LateStatus(r) ==
    IF req[r].endpoint = "grpc_text" /\ ~req[r].stream THEN "internal" ELSE "bad_request"

(* After the tokenizer: the prompt is submitted, or the handler gives up.  *)
Submit(r) ==
    /\ pc[r] = "encoding"
    /\ IF RefusedLate(req[r]) THEN End(r, LateStatus(r)) /\ UNCHANGED cmds
       ELSE IF loop = "stopped" THEN End(r, "internal") /\ UNCHANGED cmds
       ELSE /\ Send(Command("stream", r))
            /\ pc' = [pc EXCEPT ![r] = IF Streams(req[r]) THEN "streaming" ELSE "collecting"]
            /\ UNCHANGED <<reply, chan>>
    /\ UNCHANGED <<core, runtime, loopVars, req, held, sent, lost>>

TokenizerFails(r) ==
    /\ pc[r] = "encoding"
    /\ End(r, "internal")
    /\ UNCHANGED <<core, runtime, cmds, loopVars, req, held, sent, lost>>

(* The next output, taken from the channel.                                *)
Take(r) ==
    /\ chan[r] # <<>>
    /\ UNCHANGED <<core, runtime, cmds, loopVars, req>>

Buffered(r) == pc[r] = "streaming" /\ IsChat(req[r]) /\ OrElse(ResponseTools(req[r]), <<>>) # <<>>

EndOrGoOn(r, o) ==
    IF o.finish # "none" THEN End(r, "ok")
    ELSE chan' = [chan EXCEPT ![r] = Tail(@)] /\ UNCHANGED <<pc, reply>>

(* A chunk per output.                                                     *)
StreamChunk(r) ==
    /\ pc[r] = "streaming" /\ ~Buffered(r) /\ Take(r)
    /\ sent' = [sent EXCEPT ![r] = Append(@, Head(chan[r]).k)]
    /\ EndOrGoOn(r, Head(chan[r]))
    /\ UNCHANGED <<held, lost>>

(* A token list that does not decode: HTTP goes on without the text, gRPC  *)
(* fails the stream.  An error output has no tokens to decode.             *)
StreamDecodeFails(r) ==
    LET o == Head(chan[r])
    IN  /\ pc[r] = "streaming" /\ ~Buffered(r) /\ Take(r)
        /\ o.finish # "error"
        /\ lost' = lost \cup {r}
        /\ IF IsHttp(req[r]) THEN EndOrGoOn(r, o) ELSE End(r, "internal")
        /\ UNCHANGED <<held, sent>>

(* With tools nothing is decoded or sent before the last output.           *)
StreamBuffer(r) ==
    LET o   == Head(chan[r])
        all == Append(held[r], o.k)
    IN  /\ Buffered(r) /\ Take(r)
        /\ held' = [held EXCEPT ![r] = all]
        /\ sent' = IF o.finish # "none" THEN [sent EXCEPT ![r] = all] ELSE sent
        /\ EndOrGoOn(r, o)
        /\ UNCHANGED lost

(* What was buffered does not decode: HTTP ends as if the text were empty, *)
(* gRPC fails the stream.                                                  *)
BufferDecodeFails(r) ==
    LET o == Head(chan[r])
    IN  /\ Buffered(r) /\ Take(r)
        /\ o.finish # "none"
        /\ held' = [held EXCEPT ![r] = Append(@, o.k)]
        /\ lost' = lost \cup {r}
        /\ End(r, IF IsHttp(req[r]) THEN "ok" ELSE "internal")
        /\ UNCHANGED sent

(* submit_and_collect.                                                     *)
Collect(r) ==
    LET o   == Head(chan[r])
        all == Append(held[r], o.k)
    IN  /\ pc[r] = "collecting" /\ Take(r)
        /\ held' = [held EXCEPT ![r] = all]
        /\ CASE o.finish = "error" -> End(r, "internal") /\ UNCHANGED sent
             [] o.finish = "none"  -> EndOrGoOn(r, o) /\ UNCHANGED sent
             [] OTHER -> \/ End(r, "ok") /\ sent' = [sent EXCEPT ![r] = all]
                         \/ End(r, "internal") /\ UNCHANGED sent
        /\ UNCHANGED lost

(* No sender is left and the channel is empty.                             *)
SenderGone(r) == r \notin senders /\ ~Pending("stream", r)

(* A faulty handler that takes an empty channel for a closed one.          *)
ClosedWhenEmpty(r) ==
    /\ pc[r] \in Waiting /\ chan[r] = <<>>
    /\ End(r, IF pc[r] = "streaming" THEN "truncated" ELSE "internal")
    /\ UNCHANGED <<core, runtime, cmds, loopVars, req, held, sent, lost>>

Closed(r) ==
    /\ pc[r] \in Waiting /\ chan[r] = <<>> /\ SenderGone(r)
    /\ End(r, IF pc[r] = "streaming" THEN "truncated" ELSE "internal")
    /\ UNCHANGED <<core, runtime, cmds, loopVars, req, held, sent, lost>>

(* A faulty handler without a timeout.                                     *)
NeverTimeout(r) == FALSE /\ UNCHANGED serving

(* The request is not aborted: the engine goes on with it.                 *)
Timeout(r) ==
    /\ pc[r] = "collecting"
    /\ End(r, "timeout")
    /\ UNCHANGED <<core, runtime, cmds, loopVars, req, held, sent, lost>>

Disconnect(r) ==
    /\ pc[r] \in {"queued", "encoding"} \cup Waiting
    /\ End(r, "disconnected")
    /\ UNCHANGED <<core, runtime, cmds, loopVars, req, held, sent, lost>>

HandlerStep(r) ==
    \/ Handle(r) \/ Submit(r) \/ TokenizerFails(r)
    \/ StreamChunk(r) \/ StreamDecodeFails(r)
    \/ StreamBuffer(r) \/ BufferDecodeFails(r)
    \/ Collect(r) \/ Closed(r)

ServingNext ==
    \/ EngineLoop
    \/ ShutdownCall \/ HandlesDropped
    \/ \E r \in Requests :
         \/ HandlerStep(r) \/ Timeout(r) \/ Disconnect(r)
         \/ AddRequestCall(r) \/ AbortCall(r)
         \/ \E p \in Profiles[r] : Arrive(r, p)

ServingSpec == ServingInit /\ [][ServingNext]_serving

(* The loop and the handlers are tasks the runtime keeps polling, and a    *)
(* timer fires.  Nothing obliges clients, embedding programs, or the       *)
(* engine core to answer.                                                  *)
ServingFairSpec ==
    /\ ServingSpec
    /\ WF_serving(EngineLoop)
    /\ \A r \in Requests : WF_serving(HandlerStep(r)) /\ WF_serving(Timeout(r))

-----------------------------------------------------------------------------

(* The outputs a waiting handler has taken from its channel.               *)
Received(r) == IF pc[r] = "collecting" \/ Buffered(r) THEN held[r] ELSE sent[r]

UpTo(n) == [i \in 1..n |-> i]

(* Nothing is lost, repeated or reordered between the engine and a         *)
(* handler, and an answer that ends normally holds every output the engine *)
(* produced, the last one included.  The one exception is an HTTP stream   *)
(* whose tokens do not decode: it goes on, or with tools ends, without the *)
(* text and still ends normally, where gRPC and a collected answer fail    *)
(* (async_engine.rs:189-200; server.rs:800-895, 1103-1122;                 *)
(* grpc.rs:166-250).                                                       *)
AnswersComplete ==
    \A r \in Requests :
        /\ pc[r] \in Waiting /\ r \notin lost =>
             Received(r) \o [i \in DOMAIN chan[r] |-> chan[r][i].k] = UpTo(emitted[r])
        /\ reply[r] = "ok" =>
             /\ r \notin lost => sent[r] = UpTo(emitted[r])
             /\ r \in lost => IsHttp(req[r]) /\ Streams(req[r])
             /\ \A i, j \in DOMAIN sent[r] : i < j => sent[r][i] < sent[r][j]
             /\ r \notin Tracked(core)

(* The loop holds a sender exactly for the streamed requests the engine    *)
(* tracks: neither finishing, aborting, refusing nor failing leaves one    *)
(* behind, or takes one away early (async_engine.rs:129-141, 171-203).     *)
SendersTracked ==
    senders = {r \in Tracked(core) : reply[r] # "submitted"}

(* The engine works only on what an authorised and valid request asked     *)
(* for, whichever of the four endpoints it came through and however late   *)
(* that endpoint checks (server.rs:615-750, 961-1005; grpc.rs:87-116,      *)
(* 425-503).                                                               *)
AdmittedValid ==
    \A r \in Submitted(cmds \o drained) \cup Tracked(core) :
        reply[r] # "submitted" =>
            LET q == IF IsHttp(req[r]) THEN req[r] ELSE FromProto(req[r])
            IN  /\ KeyRequired => Authorized(q)
                /\ ValidParams(SamplingParams(q))
                /\ IsSome(StructuredOf(q)) => StructuredFeature /\ q.compiles
                /\ IsChat(q) => /\ Len(q.messages) \in 1..MaxMessages
                                /\ ValidToolCallRequest(q)

(* Work nobody waits for is what timeouts, disconnections and failed       *)
(* decodes left behind: they do not abort the request                      *)
(* (server.rs:1122-1124).  No other path leaves the engine working for a   *)
(* handler that has ended.                                                 *)
OrphansExplained ==
    \A r \in Tracked(core) :
        pc[r] = "ended" =>
            \/ reply[r] \in {"submitted", "timeout", "disconnected"}
            \/ reply[r] = "internal" /\ r \in lost

(* Every handler ends: one that has not started streaming always, because  *)
(* collecting is timed; a stream, once the engine has let go of its        *)
(* request by finishing, aborting or refusing it or by shutting down.      *)
HandlersEnd ==
    \A r \in Requests :
        /\ pc[r] \in {"queued", "encoding", "collecting"} ~> pc[r] \in {"streaming", "ended"}
        /\ pc[r] = "streaming" /\ SenderGone(r) ~> pc[r] = "ended"

=============================================================================
