---------------------------- MODULE ServingProofs ---------------------------
(***************************************************************************)
(* Proofs of the safety invariants of Serving for any number of clients,   *)
(* any requests they send and any answers the engine core may give.        *)
(*                                                                         *)
(* The four properties are proved together: each needs the others.  That a *)
(* handler which ended normally leaves no work behind needs that its last  *)
(* output is the last in its channel and was produced when the engine let  *)
(* go of the request; that no output is missed needs that the loop holds a *)
(* sender for every request of a waiting handler the engine works on; and  *)
(* both need that a request is submitted at most once, which is why a      *)
(* pending command must find its request new (RequestOK).                  *)
(***************************************************************************)
EXTENDS Serving, SeqLemmas

-----------------------------------------------------------------------------
(* The inductive invariant.                                                *)

Work == {Command(op, r) : op \in {"add", "stream", "abort"}, r \in Requests}

Replies == {"none", "submitted", "unauthorized", "bad_request", "placeholder", "internal",
            "ok", "truncated", "timeout", "disconnected"}

Finishes == {"none", "stop", "length", "error"}

CoreOK(c) ==
    /\ c = [generated |-> c.generated, active |-> c.active]
    /\ Tracked(c) \subseteq Requests
    /\ c.active \subseteq Tracked(c)

ServingTypes ==
    /\ CoreOK(core)
    /\ cmds \in Seq(Work \cup {Shutdown})
    /\ drained \in Seq(Work)
    /\ chan \in [Requests -> Seq([k : Nat, finish : Finishes])]
    /\ emitted \in [Requests -> Nat]
    /\ pc \in [Requests -> {"idle", "queued", "encoding", "streaming", "collecting", "ended"}]
    /\ DOMAIN req = Requests
    /\ held \in [Requests -> Seq(Nat)]
    /\ sent \in [Requests -> Seq(Nat)]
    /\ reply \in [Requests -> Replies]
    /\ lost \subseteq Requests

IsSubmission(cmd) == cmd.op \in {"add", "stream"}

(* A request is submitted by at most one command.                          *)
SubmittedOnce(s) ==
    \A i, j \in DOMAIN s :
        IsSubmission(s[i]) /\ IsSubmission(s[j]) /\ s[i].r = s[j].r => i = j

(* What a command promises about the handler that sent it.                 *)
CommandOK(cmd) ==
    /\ cmd.op = "add" => reply[cmd.r] = "submitted"
    /\ cmd.op = "stream" => reply[cmd.r] # "submitted"

CommandsOK ==
    /\ SubmittedOnce(cmds)
    /\ Submitted(cmds) \cap Submitted(drained) = {}
    /\ \A i \in DOMAIN cmds : CommandOK(cmds[i])
    /\ \A i \in DOMAIN drained : CommandOK(drained[i])

InFlight(r) == r \in Submitted(cmds) \/ r \in Submitted(drained)

InEngine(r) == InFlight(r) \/ r \in Tracked(core)

(* Nothing was produced for the request.                                   *)
Untouched(r) ==
    chan[r] = <<>> /\ emitted[r] = 0 /\ held[r] = <<>> /\ sent[r] = <<>> /\ r \notin lost

Increasing(s) == \A i, j \in DOMAIN s : i < j => s[i] < s[j]

(* The outputs taken so far, and those still in the channel, are numbered  *)
(* in the order the engine produced them.                                  *)
NumbersOK(r) ==
    LET taken == emitted[r] - Len(chan[r])
    IN  /\ taken \in Nat
        /\ Increasing(Received(r))
        /\ \A i \in DOMAIN Received(r) : Received(r)[i] <= taken
        /\ r \notin lost => Received(r) = UpTo(taken)
        /\ \A j \in DOMAIN chan[r] : chan[r][j].k = taken + j

KeyOK(q) == KeyRequired => Authorized(q)

Admitted(r) ==
    LET q == IF IsHttp(req[r]) THEN req[r] ELSE FromProto(req[r])
    IN  /\ KeyOK(q)
        /\ ValidParams(SamplingParams(q))
        /\ IsSome(StructuredOf(q)) => StructuredFeature /\ q.compiles
        /\ IsChat(q) => /\ Len(q.messages) \in 1..MaxMessages
                        /\ ValidToolCallRequest(q)

(* What the handler has checked so far.                                    *)
CheckedOK(r) ==
    /\ pc[r] \in {"queued", "encoding"} => req[r] \in Profiles[r] /\ KeyOK(req[r])
    /\ pc[r] = "encoding" => ~RefusedEarly(req[r], MaxMessages, StructuredFeature)
    /\ pc[r] \in Waiting => Admitted(r)
    /\ InEngine(r) /\ reply[r] # "submitted" => Admitted(r)

Excused(r) ==
    \/ reply[r] \in {"submitted", "timeout", "disconnected"}
    \/ reply[r] = "internal" /\ r \in lost

RequestOK(r) ==
    /\ pc[r] \notin Waiting \cup {"ended"} => ~InEngine(r) /\ Untouched(r)
    /\ pc[r] # "ended" <=> reply[r] = "none"
    /\ InFlight(r) => r \notin Tracked(core) /\ Untouched(r)
    /\ pc[r] = "ended" => chan[r] = <<>>
    /\ InEngine(r) /\ pc[r] = "ended" => Excused(r)
    /\ \A i \in DOMAIN chan[r] :
          chan[r][i].finish # "none" => i = Len(chan[r]) /\ r \notin Tracked(core)

(* A loss a handler goes on after, or ends normally with.                  *)
LossOK(r) == r \in lost => IsHttp(req[r]) /\ Streams(req[r])

StreamOK(r) ==
    /\ pc[r] = "streaming" => Streams(req[r])
    /\ r \in lost => IsHttp(req[r]) /\ pc[r] = "streaming"
    /\ Buffered(r) => sent[r] = <<>>

AnswerOK(r) ==
    /\ pc[r] \in Waiting => NumbersOK(r) /\ StreamOK(r)
    /\ reply[r] = "ok" => /\ r \notin lost => sent[r] = UpTo(emitted[r])
                          /\ Increasing(sent[r])
                          /\ LossOK(r)

ServingInv ==
    /\ ServingTypes
    /\ CommandsOK
    /\ SendersTracked
    /\ \A r \in Requests : RequestOK(r)
    /\ \A r \in Requests : CheckedOK(r)
    /\ \A r \in Requests : AnswerOK(r)

-----------------------------------------------------------------------------
(* Submissions among commands.                                             *)

LEMMA SubmittedMember ==
    ASSUME NEW s, NEW r
    PROVE  r \in Submitted(s) <=> \E i \in DOMAIN s : IsSubmission(s[i]) /\ s[i].r = r
BY DEF Submitted, IsSubmission

LEMMA SubmittedEmpty == Submitted(<<>>) = {}
BY DEF Submitted

LEMMA SubmittedConcat ==
    ASSUME NEW S, NEW s \in Seq(S), NEW t \in Seq(S)
    PROVE  Submitted(s \o t) = Submitted(s) \cup Submitted(t)
<1> DEFINE u == s \o t
           m == Len(s)
           n == Len(t)
<1>1. /\ u \in Seq(S) /\ Len(u) = m + n /\ m \in Nat /\ n \in Nat
      /\ \A i \in 1..(m + n) : u[i] = IF i <= m THEN s[i] ELSE t[i - m]
  BY ConcatProperties, LenProperties
<1>2. DOMAIN u = 1..(m + n) /\ DOMAIN s = 1..m /\ DOMAIN t = 1..n
  BY <1>1
<1> HIDE DEF u, m, n
<1>3. ASSUME NEW r, r \in Submitted(u)
      PROVE  r \in Submitted(s) \cup Submitted(t)
  <2>1. PICK i \in 1..(m + n) : IsSubmission(u[i]) /\ u[i].r = r
    BY <1>2, <1>3, SubmittedMember
  <2>2. CASE i <= m
    <3>1. i \in DOMAIN s /\ u[i] = s[i]
      BY <1>1, <1>2, <2>1, <2>2
    <3> QED
      BY <2>1, <3>1, SubmittedMember
  <2>3. CASE ~(i <= m)
    <3>1. i - m \in DOMAIN t /\ u[i] = t[i - m]
      BY <1>1, <1>2, <2>1, <2>3
    <3> QED
      BY <2>1, <3>1, SubmittedMember
  <2> QED
    BY <2>2, <2>3
<1>4. ASSUME NEW r, r \in Submitted(s)
      PROVE  r \in Submitted(u)
  <2>1. PICK i \in 1..m : IsSubmission(s[i]) /\ s[i].r = r
    BY <1>2, <1>4, SubmittedMember
  <2>2. i \in DOMAIN u /\ u[i] = s[i]
    BY <1>1, <1>2, <2>1
  <2> QED
    BY <2>1, <2>2, SubmittedMember
<1>5. ASSUME NEW r, r \in Submitted(t)
      PROVE  r \in Submitted(u)
  <2>1. PICK i \in 1..n : IsSubmission(t[i]) /\ t[i].r = r
    BY <1>2, <1>5, SubmittedMember
  <2>2. m + i \in 1..(m + n) /\ ~(m + i <= m) /\ (m + i) - m = i
    BY <1>1, <2>1
  <2>3. m + i \in DOMAIN u /\ u[m + i] = t[i]
    BY <1>1, <1>2, <2>2
  <2> QED
    BY <2>1, <2>3, SubmittedMember
<1> QED
  BY <1>3, <1>4, <1>5 DEF u

(* A command at the end of a list.                                         *)
LEMMA SubmittedAppend ==
    ASSUME NEW S, NEW s \in Seq(S), NEW cmd \in S
    PROVE  /\ \A r : r \in Submitted(Append(s, cmd)) <=>
                     r \in Submitted(s) \/ (IsSubmission(cmd) /\ cmd.r = r)
           /\ SubmittedOnce(s) /\ (IsSubmission(cmd) => cmd.r \notin Submitted(s)) =>
                SubmittedOnce(Append(s, cmd))
<1> DEFINE u == Append(s, cmd)
           n == Len(s)
<1>1. u \in Seq(S) /\ Len(u) = n + 1 /\ u[n + 1] = cmd /\ n \in Nat /\ \A i \in 1..n : u[i] = s[i]
  BY AppendProperties, LenProperties
<1>2. DOMAIN u = 1..(n + 1) /\ DOMAIN s = 1..n
  BY <1>1
<1> HIDE DEF u, n
<1>3. \A i \in DOMAIN u : i \in DOMAIN s \/ i = n + 1
  BY <1>1, <1>2
<1>4. \A i \in DOMAIN s : i \in DOMAIN u /\ u[i] = s[i]
  BY <1>1, <1>2
<1>5. n + 1 \in DOMAIN u /\ n + 1 \notin DOMAIN s
  BY <1>1, <1>2
<1>6. \A r : r \in Submitted(u) <=> r \in Submitted(s) \/ (IsSubmission(cmd) /\ cmd.r = r)
  <2> SUFFICES ASSUME NEW r
               PROVE  r \in Submitted(u) <=> r \in Submitted(s) \/ (IsSubmission(cmd) /\ cmd.r = r)
    OBVIOUS
  <2>1. r \in Submitted(u) <=> \E i \in DOMAIN u : IsSubmission(u[i]) /\ u[i].r = r
    BY SubmittedMember
  <2>2. r \in Submitted(s) <=> \E i \in DOMAIN s : IsSubmission(s[i]) /\ s[i].r = r
    BY SubmittedMember
  <2> QED
    BY <1>1, <1>3, <1>4, <1>5, <2>1, <2>2
<1>7. ASSUME SubmittedOnce(s), IsSubmission(cmd) => cmd.r \notin Submitted(s)
      PROVE  SubmittedOnce(u)
  <2> SUFFICES ASSUME NEW i \in DOMAIN u, NEW j \in DOMAIN u,
                      IsSubmission(u[i]), IsSubmission(u[j]), u[i].r = u[j].r
               PROVE  i = j
    BY DEF SubmittedOnce
  <2>1. CASE i \in DOMAIN s /\ j \in DOMAIN s
    BY <1>4, <1>7, <2>1 DEF SubmittedOnce
  <2>2. \A k \in DOMAIN s : IsSubmission(s[k]) => s[k].r \in Submitted(s)
    BY SubmittedMember
  <2>3. CASE i \in DOMAIN s /\ j = n + 1
    BY <1>1, <1>4, <1>7, <2>2, <2>3
  <2>4. CASE i = n + 1 /\ j \in DOMAIN s
    BY <1>1, <1>4, <1>7, <2>2, <2>4
  <2> QED
    BY <1>3, <2>1, <2>3, <2>4
<1> QED
  BY <1>6, <1>7 DEF u

(* The first command of a list, and the others.                            *)
LEMMA SubmittedTail ==
    ASSUME NEW S, NEW s \in Seq(S), s # <<>>
    PROVE  /\ Head(s) \in S /\ Tail(s) \in Seq(S)
           /\ \A r : r \in Submitted(s) <=>
                     r \in Submitted(Tail(s)) \/ (IsSubmission(Head(s)) /\ Head(s).r = r)
           /\ \A i \in DOMAIN Tail(s) : i + 1 \in DOMAIN s /\ Tail(s)[i] = s[i + 1]
           /\ 1 \in DOMAIN s /\ Head(s) = s[1]
           /\ SubmittedOnce(s) =>
                /\ SubmittedOnce(Tail(s))
                /\ IsSubmission(Head(s)) => Head(s).r \notin Submitted(Tail(s))
<1> DEFINE u == Tail(s)
           n == Len(s)
           h == Head(s)
<1>1. /\ h \in S /\ h = s[1] /\ u \in Seq(S) /\ Len(u) = n - 1 /\ n \in Nat
      /\ \A i \in 1..(n - 1) : u[i] = s[i + 1]
  BY HeadTailProperties, LenProperties
<1>2. DOMAIN u = 1..(n - 1) /\ DOMAIN s = 1..n
  BY <1>1
<1>a. n # 0
  BY EmptySeq
<1> HIDE DEF u, n, h
<1>3. 1 \in DOMAIN s
  BY <1>1, <1>2, <1>a
<1>4. \A i \in DOMAIN u : i + 1 \in DOMAIN s /\ u[i] = s[i + 1] /\ i + 1 # 1 /\ i \in Int
  BY <1>1, <1>2
<1>5. \A i \in DOMAIN s : i # 1 => \E j \in DOMAIN u : i = j + 1
  <2> SUFFICES ASSUME NEW i \in DOMAIN s, i # 1
               PROVE  \E j \in DOMAIN u : i = j + 1
    OBVIOUS
  <2>1. i - 1 \in DOMAIN u /\ i = (i - 1) + 1
    BY <1>1, <1>2
  <2> QED
    BY <2>1
<1>6. \A r : r \in Submitted(s) <=> r \in Submitted(u) \/ (IsSubmission(h) /\ h.r = r)
  <2> SUFFICES ASSUME NEW r
               PROVE  r \in Submitted(s) <=> r \in Submitted(u) \/ (IsSubmission(h) /\ h.r = r)
    OBVIOUS
  <2>1. r \in Submitted(u) <=> \E i \in DOMAIN u : IsSubmission(u[i]) /\ u[i].r = r
    BY SubmittedMember
  <2>2. r \in Submitted(s) <=> \E i \in DOMAIN s : IsSubmission(s[i]) /\ s[i].r = r
    BY SubmittedMember
  <2> QED
    BY <1>1, <1>3, <1>4, <1>5, <2>1, <2>2
<1>7. ASSUME SubmittedOnce(s)
      PROVE  SubmittedOnce(u) /\ (IsSubmission(h) => h.r \notin Submitted(u))
  <2>1. SubmittedOnce(u)
    <3> SUFFICES ASSUME NEW i \in DOMAIN u, NEW j \in DOMAIN u,
                        IsSubmission(u[i]), IsSubmission(u[j]), u[i].r = u[j].r
                 PROVE  i = j
      BY DEF SubmittedOnce
    <3>1. i + 1 = j + 1
      BY <1>4, <1>7 DEF SubmittedOnce
    <3> QED
      BY <1>4, <3>1
  <2>2. ASSUME IsSubmission(h), h.r \in Submitted(u)
        PROVE  FALSE
    <3>1. PICK i \in DOMAIN u : IsSubmission(u[i]) /\ u[i].r = h.r
      BY <2>2, SubmittedMember
    <3> QED
      BY <1>1, <1>3, <1>4, <1>7, <2>2, <3>1 DEF SubmittedOnce
  <2> QED
    BY <2>1, <2>2
<1> QED
  BY <1>1, <1>3, <1>4, <1>6, <1>7 DEF u, h

-----------------------------------------------------------------------------
(* Applying commands to the engine core.                                   *)

(* A state of the core and the senders in which exactly the streamed       *)
(* requests have a sender, and no request outside of base is tracked.      *)
ApplyOK(state, base) ==
    /\ state = [core |-> state.core, senders |-> state.senders]
    /\ CoreOK(state.core)
    /\ state.senders = {r \in Tracked(state.core) : reply[r] # "submitted"}
    /\ Tracked(state.core) \subseteq base

LEMMA ApplyStep ==
    ASSUME NEW state, NEW base, ApplyOK(state, base),
           NEW cmd \in Work, CommandOK(cmd), IsSubmission(cmd) => cmd.r \in base,
           NEW refused
    PROVE  ApplyOK(Apply(state, cmd, refused), base)
<1> DEFINE c == state.core
           r == cmd.r
<1>1. /\ cmd.op \in {"add", "stream", "abort"} /\ r \in Requests
      /\ c = [generated |-> c.generated, active |-> c.active]
      /\ Tracked(c) \subseteq Requests /\ c.active \subseteq Tracked(c)
      /\ state.senders = {q \in Tracked(c) : reply[q] # "submitted"}
      /\ Tracked(c) \subseteq base
  BY DEF Work, Command, ApplyOK, CoreOK
<1> DEFINE a == AddTo(c, r)
           w == Without(c, {r})
<1>2. CoreOK(a) /\ Tracked(a) = Tracked(c) \cup {r}
  BY <1>1 DEF CoreOK, AddTo, Tracked
<1>3. CoreOK(w) /\ Tracked(w) = Tracked(c) \ {r}
  BY <1>1 DEF CoreOK, Without, Tracked, Restrict
<1>4. CASE cmd.op = "abort"
  <2>1. Apply(state, cmd, refused) = [core |-> w, senders |-> state.senders \ {r}]
    BY <1>4 DEF Apply
  <2> QED
    BY <1>1, <1>3, <2>1 DEF ApplyOK
<1>5. CASE cmd.op # "abort" /\ r \in refused
  <2>1. Apply(state, cmd, refused) = state
    BY <1>1, <1>5 DEF Apply
  <2> QED
    BY <2>1
<1>6. CASE cmd.op = "add" /\ r \notin refused
  <2>2. Apply(state, cmd, refused) = [core |-> a, senders |-> state.senders]
    BY <1>6 DEF Apply
  <2>3. reply[r] = "submitted" /\ r \in base
    BY <1>6 DEF CommandOK, IsSubmission
  <2> QED
    BY <1>1, <1>2, <2>2, <2>3 DEF ApplyOK
<1>7. CASE cmd.op = "stream" /\ r \notin refused
  <2>1. Apply(state, cmd, refused) = [core |-> a, senders |-> state.senders \cup {r}]
    BY <1>7 DEF Apply
  <2>2. reply[r] # "submitted" /\ r \in base
    BY <1>7 DEF CommandOK, IsSubmission
  <2> QED
    BY <1>1, <1>2, <2>1, <2>2 DEF ApplyOK
<1> QED
  BY <1>1, <1>4, <1>5, <1>6, <1>7

(* The states a list of commands goes through.                             *)
IsRound(f, state, s, refused, n) ==
    f = [i \in 0..n |-> IF i = 0 THEN state ELSE Apply(f[i - 1], s[i], refused)]

LEMMA RoundExists ==
    ASSUME NEW state, NEW s, NEW refused, NEW n \in Nat
    PROVE  \E f : IsRound(f, state, s, refused, n)
<1> DEFINE T == {k \in Nat : ~ \E f : IsRound(f, state, s, refused, k)}
<1> SUFFICES ASSUME T # {} PROVE FALSE
  OBVIOUS
<1>1. PICK k \in T : \A j \in T : k <= j
  <2> HIDE DEF T
  <2>1. T \subseteq Nat
    BY DEF T
  <2> QED
    BY <2>1, NatMinimum
<1>2. CASE k = 0
  <2> DEFINE f == [i \in 0..0 |-> state]
  <2>1. IsRound(f, state, s, refused, 0)
    BY DEF IsRound
  <2> QED
    BY <1>1, <1>2, <2>1
<1>3. CASE k > 0
  <2>1. k - 1 \in Nat /\ k - 1 \notin T
    BY <1>1, <1>3
  <2>2. PICK g : IsRound(g, state, s, refused, k - 1)
    BY <2>1
  <2> DEFINE f == [i \in 0..k |-> IF i = k THEN Apply(g[k - 1], s[k], refused) ELSE g[i]]
  <2>3. \A i \in 0..(k - 1) : g[i] = IF i = 0 THEN state ELSE Apply(g[i - 1], s[i], refused)
    BY <2>1, <2>2 DEF IsRound
  <2>4. \A i \in 0..k : f[i] = IF i = 0 THEN state ELSE Apply(f[i - 1], s[i], refused)
    BY <1>3, <2>1, <2>3
  <2>5. IsRound(f, state, s, refused, k)
    BY <2>4 DEF IsRound
  <2> QED
    BY <1>1, <2>5
<1> QED
  BY <1>1, <1>2, <1>3

LEMMA ApplyAllStep ==
    ASSUME NEW state, NEW base, ApplyOK(state, base),
           NEW s \in Seq(Work), \A i \in DOMAIN s : CommandOK(s[i]),
           Submitted(s) \subseteq base, NEW refused
    PROVE  ApplyOK(ApplyAll(state, s, refused), base)
<1> DEFINE n == Len(s)
           Rec(f) == f = [i \in 0..n |-> IF i = 0 THEN state ELSE Apply(f[i - 1], s[i], refused)]
           after == CHOOSE f : Rec(f)
<1>1. n \in Nat /\ DOMAIN s = 1..n /\ \A i \in 1..n : s[i] \in Work
  BY LenProperties
<1>2. PICK f : IsRound(f, state, s, refused, n)
  BY <1>1, RoundExists
<1>3. Rec(after)
  <2>1. Rec(f)
    BY <1>2 DEF IsRound
  <2> HIDE DEF Rec
  <2> QED
    BY <2>1
<1>4. ApplyAll(state, s, refused) = after[n]
  BY DEF ApplyAll
<1> HIDE DEF after
<1>5. after[0] = state /\ \A i \in 1..n : after[i] = Apply(after[i - 1], s[i], refused)
  BY <1>1, <1>3
<1> DEFINE T == {i \in 0..n : ~ApplyOK(after[i], base)}
<1>6. T = {}
  <2> SUFFICES ASSUME T # {} PROVE FALSE
    OBVIOUS
  <2>1. PICK k \in T : \A j \in T : k <= j
    <3>1. T \subseteq Nat
      BY <1>1
    <3> HIDE DEF T
    <3> QED
      BY <3>1, NatMinimum
  <2>2. k # 0
    BY <1>5, <2>1
  <2>3. k \in 1..n /\ k - 1 \in 0..n /\ k - 1 \notin T
    BY <1>1, <2>1, <2>2
  <2>4. ApplyOK(after[k - 1], base)
    BY <2>3
  <2>5. s[k] \in Work /\ CommandOK(s[k]) /\ (IsSubmission(s[k]) => s[k].r \in base)
    BY <1>1, <2>3, SubmittedMember
  <2>6. ApplyOK(after[k], base)
    BY <1>5, <2>3, <2>4, <2>5, ApplyStep
  <2> QED
    BY <2>1, <2>6
<1> QED
  BY <1>1, <1>4, <1>6

-----------------------------------------------------------------------------
(* Steps that concern one handler.                                         *)

(* Nothing about handler q changes.                                        *)
SameFor(q) ==
    /\ pc'[q] = pc[q] /\ req'[q] = req[q] /\ held'[q] = held[q] /\ sent'[q] = sent[q]
    /\ reply'[q] = reply[q] /\ chan'[q] = chan[q] /\ emitted'[q] = emitted[q]
    /\ q \in lost' <=> q \in lost

HandlerOK(q) == RequestOK(q) /\ CheckedOK(q) /\ AnswerOK(q)

(* A handler nothing happens to stays as it was; the engine may have let   *)
(* go of its request.                                                      *)
LEMMA OthersKeep ==
    ASSUME NEW q, HandlerOK(q), SameFor(q),
           InFlight(q)' => InFlight(q),
           q \in Tracked(core)' => q \in Tracked(core)
    PROVE  HandlerOK(q)'
<1>1. /\ Received(q)' = Received(q)
      /\ Untouched(q)' <=> Untouched(q)
      /\ Excused(q)' <=> Excused(q)
      /\ Admitted(q)' <=> Admitted(q)
  BY DEF SameFor, Received, Buffered, Untouched, Excused, Admitted
<1>2. InEngine(q)' => InEngine(q)
  BY DEF InEngine
<1>3. RequestOK(q)'
  BY <1>1, <1>2 DEF HandlerOK, RequestOK, SameFor
<1>4. CheckedOK(q)'
  BY <1>1, <1>2 DEF HandlerOK, CheckedOK, SameFor
<1>5. NumbersOK(q)' <=> NumbersOK(q)
  BY <1>1 DEF NumbersOK, SameFor
<1>a. (StreamOK(q)' <=> StreamOK(q)) /\ (LossOK(q)' <=> LossOK(q))
  BY DEF StreamOK, LossOK, Buffered, SameFor
<1>6. AnswerOK(q)'
  BY <1>5, <1>a DEF HandlerOK, AnswerOK, SameFor
<1> QED
  BY <1>3, <1>4, <1>6 DEF HandlerOK

(* A step of handler r that sends no command.                              *)
Local(r) ==
    /\ UNCHANGED <<core, cmds, drained, senders, emitted>>
    /\ \A q \in Requests : q # r => SameFor(q)

LEMMA CommandTarget ==
    ASSUME NEW cmd \in Work \cup {Shutdown}, IsSubmission(cmd) \/ cmd.op # "shutdown"
    PROVE  cmd \in Work /\ cmd.r \in Requests /\ cmd.op \in {"add", "stream", "abort"}
BY DEF Work, Shutdown, Command, IsSubmission

LEMMA LocalStep ==
    ASSUME ServingInv, NEW r \in Requests, Local(r), ServingTypes', HandlerOK(r)',
           reply[r] # "submitted", reply'[r] # "submitted"
    PROVE  ServingInv'
<1>1. \A q \in Requests : reply'[q] = "submitted" <=> reply[q] = "submitted"
  BY DEF Local, SameFor
<1>2. CommandsOK'
  <2>1. \A i \in DOMAIN cmds : CommandOK(cmds[i])'
    <3> SUFFICES ASSUME NEW i \in DOMAIN cmds
                 PROVE  CommandOK(cmds[i])'
      OBVIOUS
    <3>1. cmds[i] \in Work \cup {Shutdown} /\ cmds' = cmds /\ CommandOK(cmds[i])
      BY DEF ServingInv, ServingTypes, CommandsOK, Local
    <3>2. IsSubmission(cmds[i]) => cmds[i].r \in Requests
      BY <3>1, CommandTarget
    <3> QED
      BY <1>1, <3>1, <3>2 DEF CommandOK, IsSubmission
  <2>2. \A i \in DOMAIN drained : CommandOK(drained[i])'
    <3> SUFFICES ASSUME NEW i \in DOMAIN drained
                 PROVE  CommandOK(drained[i])'
      OBVIOUS
    <3>1. drained[i] \in Work \cup {Shutdown} /\ drained' = drained /\ CommandOK(drained[i])
      BY DEF ServingInv, ServingTypes, CommandsOK, Local
    <3>2. IsSubmission(drained[i]) => drained[i].r \in Requests
      BY <3>1, CommandTarget
    <3> QED
      BY <1>1, <3>1, <3>2 DEF CommandOK, IsSubmission
  <2> QED
    BY <2>1, <2>2 DEF ServingInv, CommandsOK, Local
<1>3. SendersTracked'
  <2>1. senders' = senders /\ core' = core /\ Tracked(core) \subseteq Requests
    BY DEF ServingInv, ServingTypes, CoreOK, Local
  <2> QED
    BY <1>1, <2>1 DEF ServingInv, SendersTracked
<1>4. ASSUME NEW q \in Requests, q # r
      PROVE  HandlerOK(q)'
  <2>1. HandlerOK(q) /\ SameFor(q) /\ UNCHANGED <<core, cmds, drained>>
    BY <1>4 DEF ServingInv, HandlerOK, Local
  <2>2. (InFlight(q)' => InFlight(q)) /\ (q \in Tracked(core)' => q \in Tracked(core))
    BY <2>1 DEF InFlight
  <2> QED
    BY <2>1, <2>2, OthersKeep
<1> QED
  BY <1>2, <1>3, <1>4 DEF ServingInv, HandlerOK

(* A handler that ends otherwise than normally, and is excused if the      *)
(* engine still has its request.                                           *)
LEMMA EndsEarly ==
    ASSUME ServingInv, NEW r \in Requests, NEW how \in Replies \ {"none", "ok", "submitted"},
           End(r, how), pc[r] # "ended", UNCHANGED <<core, cmds, drained, senders, emitted>>,
           \A q \in Requests : q # r => /\ req'[q] = req[q] /\ held'[q] = held[q]
                                        /\ sent'[q] = sent[q] /\ (q \in lost' <=> q \in lost),
           DOMAIN req' = Requests, held' \in [Requests -> Seq(Nat)], sent' \in [Requests -> Seq(Nat)],
           lost' \subseteq Requests,
           InEngine(r) => /\ req'[r] = req[r]
                          /\ how \in {"timeout", "disconnected"} \/ (how = "internal" /\ r \in lost'),
           InFlight(r) => held'[r] = held[r] /\ sent'[r] = sent[r] /\ (r \in lost' <=> r \in lost)
    PROVE  ServingInv'
<1>1. ServingTypes /\ RequestOK(r) /\ CheckedOK(r)
  BY DEF ServingInv
<1>2. /\ pc'[r] = "ended" /\ reply'[r] = how /\ chan'[r] = <<>>
      /\ \A q \in Requests : q # r => pc'[q] = pc[q] /\ reply'[q] = reply[q] /\ chan'[q] = chan[q]
  BY <1>1 DEF End, ServingTypes
<1>3. ServingTypes'
  <2>1. pc' \in [Requests -> {"idle", "queued", "encoding", "streaming", "collecting", "ended"}]
    BY <1>1 DEF End, ServingTypes
  <2>2. reply' \in [Requests -> Replies]
    BY <1>1 DEF End, ServingTypes
  <2>3. chan' \in [Requests -> Seq([k : Nat, finish : Finishes])]
    <3>1. <<>> \in Seq([k : Nat, finish : Finishes])
      OBVIOUS
    <3> QED
      BY <1>1, <3>1 DEF End, ServingTypes
  <2> QED
    BY <1>1, <2>1, <2>2, <2>3 DEF ServingTypes
<1>4. (InFlight(r)' <=> InFlight(r)) /\ (InEngine(r)' <=> InEngine(r))
  BY DEF InFlight, InEngine
<1>5. reply[r] = "none"
  BY <1>1 DEF RequestOK
<1>6. RequestOK(r)'
  <2>1. InEngine(r)' => Excused(r)'
    BY <1>2, <1>4 DEF Excused
  <2>2. InFlight(r)' => r \notin Tracked(core)' /\ Untouched(r)'
    BY <1>1, <1>2, <1>4 DEF RequestOK, Untouched
  <2>3. DOMAIN chan'[r] = {}
    BY <1>2
  <2> QED
    BY <1>2, <2>1, <2>2, <2>3 DEF RequestOK
<1>7. CheckedOK(r)'
  <2>1. InEngine(r)' => Admitted(r)'
    <3> SUFFICES ASSUME InEngine(r)
                 PROVE  Admitted(r)'
      BY <1>4
    <3>1. Admitted(r) /\ req'[r] = req[r]
      BY <1>1, <1>5 DEF CheckedOK
    <3> QED
      BY <3>1 DEF Admitted
  <2> QED
    BY <1>2, <2>1 DEF CheckedOK, Waiting
<1>8. AnswerOK(r)'
  BY <1>2 DEF AnswerOK, Waiting
<1>9. Local(r)
  BY <1>2 DEF Local, SameFor
<1> QED
  BY <1>2, <1>3, <1>5, <1>6, <1>7, <1>8, <1>9, LocalStep DEF HandlerOK

-----------------------------------------------------------------------------
(* Taking an output.                                                       *)

LEMMA UpToSeq ==
    ASSUME NEW n \in Nat
    PROVE  /\ UpTo(n) \in Seq(Nat) /\ Len(UpTo(n)) = n
           /\ DOMAIN UpTo(n) = 1..n /\ \A i \in 1..n : UpTo(n)[i] = i
           /\ Increasing(UpTo(n))
<1>1. UpTo(n) \in [1..n -> Nat]
  BY DEF UpTo
<1>2. UpTo(n) \in Seq(Nat) /\ Len(UpTo(n)) = n
  BY <1>1
<1> QED
  BY <1>2 DEF UpTo, Increasing

(* The next number at the end of an increasing list.                       *)
LEMMA AppendNext ==
    ASSUME NEW s \in Seq(Nat), NEW n \in Nat, Increasing(s), \A i \in DOMAIN s : s[i] <= n
    PROVE  /\ Append(s, n + 1) \in Seq(Nat)
           /\ Increasing(Append(s, n + 1))
           /\ \A i \in DOMAIN Append(s, n + 1) : Append(s, n + 1)[i] <= n + 1
           /\ s = UpTo(n) => Append(s, n + 1) = UpTo(n + 1)
<1> DEFINE u == Append(s, n + 1)
           m == Len(s)
<1>1. /\ u \in Seq(Nat) /\ Len(u) = m + 1 /\ u[m + 1] = n + 1 /\ m \in Nat
      /\ \A i \in 1..m : u[i] = s[i]
  BY AppendProperties, LenProperties
<1>2. DOMAIN u = 1..(m + 1) /\ DOMAIN s = 1..m /\ \A i \in 1..m : s[i] \in Nat
  BY <1>1
<1> HIDE DEF u, m
<1>3. \A i \in DOMAIN u : i \in 1..m \/ i = m + 1
  BY <1>1, <1>2
<1>4. \A i \in DOMAIN u : u[i] <= n + 1
  BY <1>1, <1>2, <1>3
<1>5. Increasing(u)
  <2> SUFFICES ASSUME NEW i \in DOMAIN u, NEW j \in DOMAIN u, i < j
               PROVE  u[i] < u[j]
    BY DEF Increasing
  <2>1. i \in 1..m
    BY <1>1, <1>2, <1>3
  <2>2. CASE j \in 1..m
    BY <1>1, <1>2, <2>1, <2>2 DEF Increasing
  <2>3. CASE j = m + 1
    <3>1. s[i] <= n /\ s[i] \in Nat /\ u[i] = s[i]
      BY <1>1, <1>2, <2>1
    <3> QED
      BY <1>1, <2>3, <3>1
  <2> QED
    BY <1>3, <2>2, <2>3
<1>6. ASSUME s = UpTo(n)
      PROVE  u = UpTo(n + 1)
  <2>1. m = n /\ \A i \in 1..n : s[i] = i
    BY <1>6, UpToSeq DEF m
  <2>2. \A i \in 1..(n + 1) : u[i] = i
    BY <1>1, <1>2, <1>3, <2>1
  <2>3. UpTo(n + 1) \in Seq(Nat) /\ Len(UpTo(n + 1)) = n + 1 /\ \A i \in 1..(n + 1) : UpTo(n + 1)[i] = i
    BY UpToSeq
  <2> QED
    BY <1>1, <2>1, <2>2, <2>3, SeqEqual
<1> QED
  BY <1>1, <1>4, <1>5, <1>6 DEF u

(* The first output of a channel: it is the next in number, and when it    *)
(* ends the request it is the only one left and the engine is done.        *)
LEMMA FirstOutput ==
    ASSUME ServingInv, NEW r \in Requests, pc[r] \in Waiting, chan[r] # <<>>
    PROVE  /\ Head(chan[r]).k = emitted[r] - Len(chan[r]) + 1
           /\ Head(chan[r]) \in [k : Nat, finish : Finishes]
           /\ Tail(chan[r]) \in Seq([k : Nat, finish : Finishes])
           /\ Len(chan[r]) \in Nat \ {0}
           /\ Len(Tail(chan[r])) = Len(chan[r]) - 1
           /\ \A i \in DOMAIN Tail(chan[r]) : /\ i \in Nat
                                              /\ i + 1 \in DOMAIN chan[r]
                                              /\ Tail(chan[r])[i] = chan[r][i + 1]
           /\ ~InFlight(r)
           /\ Head(chan[r]).finish # "none" => Len(chan[r]) = 1 /\ ~InEngine(r)
<1>1. /\ chan[r] \in Seq([k : Nat, finish : Finishes]) /\ RequestOK(r) /\ NumbersOK(r)
      /\ emitted[r] \in Nat
  BY DEF ServingInv, ServingTypes, AnswerOK
<1> DEFINE c == chan[r]
           S == [k : Nat, finish : Finishes]
<1>2. c \in Seq(S) /\ c # <<>>
  BY <1>1
<1> HIDE DEF c, S
<1>3. /\ Head(c) \in S /\ Head(c) = c[1] /\ Tail(c) \in Seq(S) /\ Len(Tail(c)) = Len(c) - 1
      /\ \A i \in 1..Len(Tail(c)) : Tail(c)[i] = c[i + 1]
  BY <1>2, HeadTailProperties
<1>4. Len(c) \in Nat \ {0} /\ DOMAIN c = 1..Len(c) /\ DOMAIN Tail(c) = 1..(Len(c) - 1)
  BY <1>2, <1>3, EmptySeq, LenProperties
<1>5. 1 \in DOMAIN c /\ \A i \in DOMAIN Tail(c) : i \in Nat /\ i + 1 \in DOMAIN c /\ Tail(c)[i] = c[i + 1]
  BY <1>3, <1>4
<1>6. c[1].k = emitted[r] - Len(c) + 1
  BY <1>1, <1>5 DEF NumbersOK, c
<1>7. ~InFlight(r)
  BY <1>1, <1>2 DEF RequestOK, Untouched, c
<1>8. c[1].finish # "none" => Len(c) = 1 /\ ~InEngine(r)
  BY <1>1, <1>5, <1>7 DEF RequestOK, InEngine, c
<1> QED
  BY <1>3, <1>4, <1>5, <1>6, <1>7, <1>8 DEF c, S

LEMMA ReceivedSeq ==
    ASSUME ServingTypes, NEW r \in Requests
    PROVE  Received(r) \in Seq(Nat)
BY DEF ServingTypes, Received

(* What the handler does with the output: nothing of it is lost, or the    *)
(* loss is on record.                                                      *)
Takes(r, before, after, k) ==
    \/ after = Append(before, k) /\ (r \in lost' <=> r \in lost)
    \/ after = before /\ r \in lost'

LEMMA TakenNumbers ==
    ASSUME ServingInv, NEW r \in Requests, pc[r] \in Waiting, chan[r] # <<>>,
           NEW after, Takes(r, Received(r), after, Head(chan[r]).k)
    PROVE  /\ emitted[r] - Len(chan[r]) + 1 \in Nat
           /\ Increasing(after)
           /\ \A i \in DOMAIN after : after[i] <= emitted[r] - Len(chan[r]) + 1
           /\ r \notin lost' => after = UpTo(emitted[r] - Len(chan[r]) + 1)
<1> DEFINE n == emitted[r] - Len(chan[r])
           s == Received(r)
<1>1. /\ n \in Nat /\ Increasing(s) /\ (\A i \in DOMAIN s : s[i] <= n)
      /\ r \notin lost => s = UpTo(n)
  BY DEF ServingInv, AnswerOK, NumbersOK
<1>2. s \in Seq(Nat)
  BY ReceivedSeq DEF ServingInv
<1>3. Head(chan[r]).k = n + 1
  BY FirstOutput
<1>a. Takes(r, s, after, n + 1)
  BY <1>3
<1> HIDE DEF n, s
<1>4. CASE after = Append(s, n + 1) /\ (r \in lost' <=> r \in lost)
  BY <1>1, <1>2, <1>4, AppendNext DEF n
<1>5. CASE after = s /\ r \in lost'
  <2>1. \A i \in DOMAIN s : s[i] \in Nat
    BY <1>2
  <2>2. \A i \in DOMAIN s : s[i] <= n + 1
    BY <1>1, <2>1
  <2> QED
    BY <1>1, <1>5, <2>2 DEF n
<1> QED
  BY <1>a, <1>4, <1>5 DEF Takes

(* What taking an output leaves alone, and the types of what it changes.   *)
TakeFrame(r) ==
    /\ UNCHANGED <<core, cmds, drained, senders, emitted, req>>
    /\ held' \in [Requests -> Seq(Nat)] /\ sent' \in [Requests -> Seq(Nat)]
    /\ lost' \subseteq Requests
    /\ \A q \in Requests : q # r => /\ held'[q] = held[q] /\ sent'[q] = sent[q]
                                    /\ (q \in lost' <=> q \in lost)

(* A handler that waits for more.                                          *)
LEMMA GoesOn ==
    ASSUME ServingInv, NEW r \in Requests, pc[r] \in Waiting, chan[r] # <<>>,
           TakeFrame(r), UNCHANGED <<pc, reply>>,
           chan' = [chan EXCEPT ![r] = Tail(@)], StreamOK(r)',
           Takes(r, Received(r), Received(r)', Head(chan[r]).k)
    PROVE  ServingInv'
<1> DEFINE n == emitted[r] - Len(chan[r])
<1>1. ServingTypes /\ RequestOK(r) /\ CheckedOK(r) /\ AnswerOK(r)
  BY DEF ServingInv
<1>2. /\ chan'[r] = Tail(chan[r]) /\ \A q \in Requests : q # r => chan'[q] = chan[q]
      /\ chan' \in [Requests -> Seq([k : Nat, finish : Finishes])]
  BY <1>1, FirstOutput DEF ServingTypes
<1>3. ServingTypes'
  BY <1>1, <1>2 DEF ServingTypes, TakeFrame
<1>4. (InFlight(r)' <=> InFlight(r)) /\ (InEngine(r)' <=> InEngine(r)) /\ ~InFlight(r)
  BY FirstOutput DEF InFlight, InEngine, TakeFrame
<1>5. pc'[r] = pc[r] /\ reply'[r] = reply[r] /\ pc[r] # "ended" /\ reply[r] = "none"
  BY <1>1 DEF RequestOK, Waiting
<1>6. /\ Len(chan[r]) \in Nat \ {0} /\ Len(chan'[r]) = Len(chan[r]) - 1
      /\ \A i \in DOMAIN chan'[r] : /\ i \in Nat /\ i + 1 \in DOMAIN chan[r]
                                    /\ chan'[r][i] = chan[r][i + 1]
  BY <1>2, FirstOutput
<1>7. RequestOK(r)'
  <2>1. ASSUME NEW i \in DOMAIN chan'[r], chan'[r][i].finish # "none"
        PROVE  i = Len(chan'[r]) /\ r \notin Tracked(core)'
    <3>1. i \in Nat /\ i + 1 = Len(chan[r]) /\ r \notin Tracked(core)
      BY <1>1, <1>6, <2>1 DEF RequestOK
    <3> QED
      BY <1>6, <3>1 DEF TakeFrame
  <2> QED
    BY <1>4, <1>5, <2>1 DEF RequestOK, Waiting
<1>8. CheckedOK(r)'
  <2>1. Admitted(r)' <=> Admitted(r)
    BY DEF Admitted, TakeFrame
  <2> QED
    BY <1>1, <1>4, <1>5, <2>1 DEF CheckedOK, TakeFrame
<1>9. AnswerOK(r)'
  <2>1. /\ n + 1 \in Nat /\ Increasing(Received(r)')
        /\ \A i \in DOMAIN Received(r)' : Received(r)'[i] <= n + 1
        /\ r \notin lost' => Received(r)' = UpTo(n + 1)
    BY TakenNumbers
  <2>2. emitted'[r] = emitted[r] /\ emitted[r] \in Nat
    BY <1>1 DEF TakeFrame, ServingTypes
  <2>3. emitted'[r] - Len(chan'[r]) = n + 1
    BY <1>6, <2>2
  <2>4. \A j \in DOMAIN chan'[r] : chan'[r][j].k = (n + 1) + j
    <3> SUFFICES ASSUME NEW j \in DOMAIN chan'[r]
                 PROVE  chan'[r][j].k = (n + 1) + j
      OBVIOUS
    <3>1. j \in Nat /\ chan'[r][j].k = n + (j + 1)
      BY <1>1, <1>6 DEF AnswerOK, NumbersOK
    <3>2. n \in Int
      BY <1>6, <2>2
    <3> QED
      BY <3>1, <3>2
  <2>5. NumbersOK(r)'
    <3> HIDE DEF n
    <3> QED
      BY <2>1, <2>3, <2>4 DEF NumbersOK, Increasing
  <2> QED
    BY <1>5, <2>5 DEF AnswerOK
<1>10. Local(r)
  BY <1>2, <1>5 DEF Local, SameFor, TakeFrame
<1> QED
  BY <1>3, <1>5, <1>7, <1>8, <1>9, <1>10, LocalStep DEF HandlerOK

(* A handler that ends normally: with the last output.                     *)
LEMMA EndsOk ==
    ASSUME ServingInv, NEW r \in Requests, pc[r] \in Waiting, chan[r] # <<>>,
           TakeFrame(r), Head(chan[r]).finish # "none", End(r, "ok"), LossOK(r)',
           \/ Takes(r, Received(r), sent'[r], Head(chan[r]).k)
           \/ sent'[r] = <<>> /\ r \in lost'
    PROVE  ServingInv'
<1>1. ServingTypes /\ RequestOK(r)
  BY DEF ServingInv
<1>2. /\ pc'[r] = "ended" /\ reply'[r] = "ok" /\ chan'[r] = <<>>
      /\ \A q \in Requests : q # r => pc'[q] = pc[q] /\ reply'[q] = reply[q] /\ chan'[q] = chan[q]
  BY <1>1 DEF End, ServingTypes
<1>3. ServingTypes'
  <2>1. pc' \in [Requests -> {"idle", "queued", "encoding", "streaming", "collecting", "ended"}]
    BY <1>1 DEF End, ServingTypes
  <2>2. reply' \in [Requests -> Replies]
    BY <1>1 DEF End, ServingTypes, Replies
  <2>3. chan' \in [Requests -> Seq([k : Nat, finish : Finishes])]
    <3>1. <<>> \in Seq([k : Nat, finish : Finishes])
      OBVIOUS
    <3> QED
      BY <1>1, <3>1 DEF End, ServingTypes
  <2> QED
    BY <1>1, <2>1, <2>2, <2>3 DEF ServingTypes, TakeFrame
<1>4. ~InFlight(r)' /\ ~InEngine(r)'
  BY FirstOutput DEF InFlight, InEngine, TakeFrame
<1>5. reply[r] = "none"
  BY <1>1 DEF RequestOK, Waiting
<1>6. RequestOK(r)' /\ CheckedOK(r)'
  <2>1. DOMAIN chan'[r] = {}
    BY <1>2
  <2> QED
    BY <1>2, <1>4, <2>1 DEF RequestOK, CheckedOK, Waiting
<1>7. AnswerOK(r)'
  <2>1. emitted'[r] = emitted[r] /\ emitted[r] \in Nat /\ Len(chan[r]) = 1
    BY <1>1, FirstOutput DEF TakeFrame, ServingTypes
  <2>2. Increasing(sent'[r]) /\ (r \notin lost' => sent'[r] = UpTo(emitted[r] - Len(chan[r]) + 1))
    <3>1. CASE Takes(r, Received(r), sent'[r], Head(chan[r]).k)
      BY <3>1, TakenNumbers
    <3>2. CASE sent'[r] = <<>> /\ r \in lost'
      BY <3>2 DEF Increasing
    <3> QED
      BY <3>1, <3>2
  <2>3. emitted[r] - Len(chan[r]) + 1 = emitted'[r]
    BY <2>1
  <2> QED
    BY <1>2, <2>2, <2>3 DEF AnswerOK, Waiting, Increasing
<1>8. Local(r)
  BY <1>2 DEF Local, SameFor, TakeFrame
<1> QED
  BY <1>2, <1>3, <1>5, <1>6, <1>7, <1>8, LocalStep DEF HandlerOK

-----------------------------------------------------------------------------
(* The handlers' steps.                                                    *)

(* A handler that takes its first steps has nothing anywhere.              *)
LEMMA BeforeSubmit ==
    ASSUME ServingInv, NEW r \in Requests, pc[r] \in {"idle", "queued", "encoding"}
    PROVE  ~InEngine(r) /\ ~InFlight(r) /\ Untouched(r) /\ reply[r] = "none" /\ pc[r] # "ended"
<1>1. RequestOK(r)
  BY DEF ServingInv
<1> QED
  BY <1>1 DEF RequestOK, Waiting, InEngine

(* A handler that goes on to its next check.                               *)
LEMMA MovesOn ==
    ASSUME ServingInv, NEW r \in Requests, pc[r] \in {"idle", "queued", "encoding"},
           NEW to \in {"queued", "encoding"}, pc' = [pc EXCEPT ![r] = to],
           UNCHANGED <<core, cmds, drained, senders, emitted, chan, held, sent, reply, lost>>,
           DOMAIN req' = Requests, \A q \in Requests : q # r => req'[q] = req[q],
           req'[r] \in Profiles[r], KeyOK(req'[r]),
           to = "encoding" => ~RefusedEarly(req'[r], MaxMessages, StructuredFeature)
    PROVE  ServingInv'
<1>1. ServingTypes
  BY DEF ServingInv
<1>2. pc'[r] = to /\ \A q \in Requests : q # r => pc'[q] = pc[q]
  BY <1>1 DEF ServingTypes
<1>3. ServingTypes'
  BY <1>1 DEF ServingTypes
<1>4. ~InEngine(r) /\ ~InFlight(r) /\ Untouched(r) /\ reply[r] = "none"
  BY BeforeSubmit
<1>5. ~InEngine(r)' /\ ~InFlight(r)' /\ Untouched(r)' /\ reply'[r] = "none"
  BY <1>4 DEF InEngine, InFlight, Untouched
<1>6. RequestOK(r)'
  <2>1. DOMAIN chan'[r] = {}
    BY <1>5 DEF Untouched
  <2> QED
    BY <1>2, <1>5, <2>1 DEF RequestOK
<1>7. CheckedOK(r)'
  BY <1>2, <1>5 DEF CheckedOK, Waiting
<1>8. AnswerOK(r)'
  BY <1>2, <1>5 DEF AnswerOK, Waiting
<1>9. Local(r)
  BY <1>2 DEF Local, SameFor
<1> QED
  BY <1>3, <1>4, <1>5, <1>6, <1>7, <1>8, <1>9, LocalStep DEF HandlerOK

LEMMA ArriveStep ==
    ASSUME ServingInv, NEW r \in Requests, NEW p \in Profiles[r], Arrive(r, p)
    PROVE  ServingInv'
<1>1. ServingTypes
  BY DEF ServingInv
<1>2. /\ pc[r] = "idle" /\ DOMAIN req' = Requests /\ req'[r] = p
      /\ \A q \in Requests : q # r => req'[q] = req[q]
      /\ UNCHANGED <<core, cmds, drained, senders, emitted, held, sent, lost>>
  BY <1>1 DEF Arrive, ServingTypes, loopVars
<1>3. ~InEngine(r) /\ ~InFlight(r) /\ pc[r] # "ended"
  BY <1>2, BeforeSubmit
<1>4. CASE KeyRequired /\ ~Authorized(p)
  <2>1. End(r, "unauthorized") /\ "unauthorized" \in Replies \ {"none", "ok", "submitted"}
    BY <1>4 DEF Arrive, Replies
  <2>2. /\ held' \in [Requests -> Seq(Nat)] /\ sent' \in [Requests -> Seq(Nat)]
        /\ lost' \subseteq Requests
        /\ \A q \in Requests : q # r => /\ req'[q] = req[q] /\ held'[q] = held[q]
                                        /\ sent'[q] = sent[q] /\ (q \in lost' <=> q \in lost)
    BY <1>1, <1>2 DEF ServingTypes
  <2> QED
    BY <1>2, <1>3, <2>1, <2>2, EndsEarly
<1>5. CASE ~(KeyRequired /\ ~Authorized(p))
  <2>1. pc' = [pc EXCEPT ![r] = "queued"] /\ UNCHANGED <<reply, chan>>
    BY <1>5 DEF Arrive
  <2>2. KeyOK(req'[r]) /\ req'[r] \in Profiles[r]
    BY <1>2, <1>5 DEF KeyOK
  <2> QED
    BY <1>2, <2>1, <2>2, MovesOn
<1> QED
  BY <1>4, <1>5

(* Handlers that end early without touching what they collected.           *)
LEMMA GivesUp ==
    ASSUME ServingInv, NEW r \in Requests, NEW how \in Replies \ {"none", "ok", "submitted"},
           End(r, how), pc[r] # "ended",
           UNCHANGED <<core, cmds, drained, senders, emitted, req, held, sent, lost>>,
           InEngine(r) => how \in {"timeout", "disconnected"}
    PROVE  ServingInv'
<1>1. ServingTypes
  BY DEF ServingInv
<1>2. /\ DOMAIN req' = Requests
      /\ held' \in [Requests -> Seq(Nat)] /\ sent' \in [Requests -> Seq(Nat)]
      /\ lost' \subseteq Requests
      /\ \A q \in Requests : q # r => /\ req'[q] = req[q] /\ held'[q] = held[q]
                                      /\ sent'[q] = sent[q] /\ (q \in lost' <=> q \in lost)
      /\ req'[r] = req[r] /\ held'[r] = held[r] /\ sent'[r] = sent[r]
      /\ (r \in lost' <=> r \in lost)
  BY <1>1 DEF ServingTypes
<1>3. UNCHANGED <<core, cmds, drained, senders, emitted>>
  OBVIOUS
<1> QED
  BY <1>2, <1>3, EndsEarly

LEMMA HandleStep ==
    ASSUME ServingInv, NEW r \in Requests, Handle(r)
    PROVE  ServingInv'
<1>1. /\ pc[r] = "queued"
      /\ UNCHANGED <<core, cmds, drained, senders, emitted, req, held, sent, lost>>
  BY DEF Handle, loopVars
<1>2. ~InEngine(r) /\ pc[r] # "ended" /\ req[r] \in Profiles[r] /\ KeyOK(req[r]) /\ DOMAIN req = Requests
  BY <1>1, BeforeSubmit DEF ServingInv, CheckedOK, ServingTypes
<1>3. CASE End(r, "bad_request")
  BY <1>1, <1>2, <1>3, GivesUp DEF Replies
<1>4. CASE End(r, "placeholder")
  BY <1>1, <1>2, <1>4, GivesUp DEF Replies
<1>5. CASE /\ ~RefusedEarly(req[r], MaxMessages, StructuredFeature)
           /\ pc' = [pc EXCEPT ![r] = "encoding"] /\ UNCHANGED <<reply, chan>>
  <2>1. ~RefusedEarly(req'[r], MaxMessages, StructuredFeature) /\ KeyOK(req'[r]) /\ req'[r] \in Profiles[r]
    BY <1>1, <1>2, <1>5
  <2>2. DOMAIN req' = Requests /\ \A q \in Requests : q # r => req'[q] = req[q]
    BY <1>1, <1>2
  <2> QED
    BY <1>1, <1>5, <2>1, <2>2, MovesOn
<1> QED
  BY <1>3, <1>4, <1>5 DEF Handle

LEMMA GivingUpSteps ==
    ASSUME ServingInv, NEW r \in Requests,
           TokenizerFails(r) \/ Closed(r) \/ Timeout(r) \/ Disconnect(r)
    PROVE  ServingInv'
<1>1. /\ pc[r] # "ended"
      /\ UNCHANGED <<core, cmds, drained, senders, emitted, req, held, sent, lost>>
  BY DEF TokenizerFails, Closed, Timeout, Disconnect, loopVars, Waiting
<1>2. CASE TokenizerFails(r)
  <2>1. ~InEngine(r) /\ End(r, "internal")
    BY <1>2, BeforeSubmit DEF TokenizerFails
  <2> QED
    BY <1>1, <2>1, GivesUp DEF Replies
<1>3. CASE Timeout(r)
  BY <1>1, <1>3, GivesUp DEF Replies, Timeout
<1>4. CASE Disconnect(r)
  BY <1>1, <1>4, GivesUp DEF Replies, Disconnect
<1>5. CASE Closed(r)
  <2>1. PICK how \in {"truncated", "internal"} : End(r, how)
    BY <1>5 DEF Closed
  <2>2. reply[r] = "none"
    BY <1>1 DEF ServingInv, RequestOK
  <2>3. r \notin Tracked(core)
    BY <1>5, <2>2 DEF Closed, SenderGone, ServingInv, SendersTracked
  <2>4. ~InFlight(r)
    <3> DEFINE s == cmds \o drained
    <3>1. /\ cmds \in Seq(Work \cup {Shutdown}) /\ drained \in Seq(Work \cup {Shutdown})
          /\ CommandsOK
      BY DEF ServingInv, ServingTypes
    <3>2. Command("stream", r) \notin ToSet(s)
      BY <1>5 DEF Closed, SenderGone, Pending
    <3>3. ASSUME NEW cmd \in Work \cup {Shutdown}, CommandOK(cmd), IsSubmission(cmd), cmd.r = r
          PROVE  cmd = Command("stream", r)
      BY <2>2, <3>3, CommandTarget DEF CommandOK, Work, Command, IsSubmission
    <3>4. ASSUME r \in Submitted(cmds)
          PROVE  FALSE
      <4>1. PICK i \in DOMAIN cmds : IsSubmission(cmds[i]) /\ cmds[i].r = r
        BY <3>4, SubmittedMember
      <4>2. cmds[i] = Command("stream", r)
        BY <3>1, <3>3, <4>1 DEF CommandsOK
      <4>3. i \in DOMAIN s /\ s[i] = cmds[i]
        BY <3>1, ConcatProperties
      <4> QED
        BY <3>2, <4>2, <4>3 DEF ToSet
    <3>5. ASSUME r \in Submitted(drained)
          PROVE  FALSE
      <4>1. PICK i \in DOMAIN drained : IsSubmission(drained[i]) /\ drained[i].r = r
        BY <3>5, SubmittedMember
      <4>2. drained[i] = Command("stream", r)
        BY <3>1, <3>3, <4>1 DEF CommandsOK
      <4>3. Len(cmds) + i \in DOMAIN s /\ s[Len(cmds) + i] = drained[i]
        BY <3>1, ConcatProperties
      <4> QED
        BY <3>2, <4>2, <4>3 DEF ToSet
    <3> QED
      BY <3>4, <3>5 DEF InFlight
  <2> QED
    BY <1>1, <2>1, <2>3, <2>4, GivesUp DEF Replies, InEngine
<1> QED
  BY <1>2, <1>3, <1>4, <1>5

(* EndOrGoOn, once the received outputs are those the handler had plus     *)
(* the one it took, or the loss is on record.                              *)
LEMMA EndOrGoOnStep ==
    ASSUME ServingInv, NEW r \in Requests, pc[r] \in Waiting, chan[r] # <<>>,
           TakeFrame(r), EndOrGoOn(r, Head(chan[r])),
           Head(chan[r]).finish = "none" /\ pc' = pc =>
               Takes(r, Received(r), Received(r)', Head(chan[r]).k) /\ StreamOK(r)',
           Head(chan[r]).finish # "none" =>
               Takes(r, Received(r), sent'[r], Head(chan[r]).k) /\ LossOK(r)'
    PROVE  ServingInv'
<1>1. CASE Head(chan[r]).finish = "none"
  <2>1. chan' = [chan EXCEPT ![r] = Tail(@)] /\ UNCHANGED <<pc, reply>>
    BY <1>1 DEF EndOrGoOn
  <2>2. Takes(r, Received(r), Received(r)', Head(chan[r]).k) /\ StreamOK(r)'
    BY <1>1, <2>1
  <2> QED
    BY <2>1, <2>2, GoesOn
<1>2. CASE Head(chan[r]).finish # "none"
  <2>1. End(r, "ok")
    BY <1>2 DEF EndOrGoOn
  <2> QED
    BY <1>2, <2>1, EndsOk
<1> QED
  BY <1>1, <1>2

(* A step that loses nothing, or a stream over HTTP that does.             *)
LEMMA LossStays ==
    ASSUME ServingInv, NEW r \in Requests, pc[r] \in Waiting, req' = req,
           \/ r \in lost' <=> r \in lost
           \/ pc[r] = "streaming" /\ IsHttp(req[r])
    PROVE  /\ LossOK(r)'
           /\ pc' = pc /\ (Buffered(r) => sent'[r] = sent[r]) => StreamOK(r)'
<1>1. StreamOK(r)
  BY DEF ServingInv, AnswerOK
<1> QED
  BY <1>1 DEF StreamOK, LossOK, Buffered

LEMMA StreamChunkStep ==
    ASSUME ServingInv, NEW r \in Requests, StreamChunk(r)
    PROVE  ServingInv'
<1> DEFINE o == Head(chan[r])
<1>1. ServingTypes
  BY DEF ServingInv
<1>2. /\ pc[r] = "streaming" /\ pc[r] \in Waiting /\ ~Buffered(r) /\ chan[r] # <<>>
      /\ UNCHANGED <<core, cmds, drained, senders, emitted, req, held, lost>>
      /\ EndOrGoOn(r, o)
      /\ sent' = [sent EXCEPT ![r] = Append(@, o.k)]
  BY DEF StreamChunk, Take, loopVars, Waiting
<1>3. o \in [k : Nat, finish : Finishes]
  BY <1>2, FirstOutput
<1>a. o.k \in Nat /\ sent[r] \in Seq(Nat) /\ DOMAIN sent = Requests
  BY <1>1, <1>3 DEF ServingTypes
<1> HIDE DEF o
<1>4. sent'[r] = Append(sent[r], o.k) /\ \A q \in Requests : q # r => sent'[q] = sent[q]
  BY <1>2, <1>a
<1>5. sent' \in [Requests -> Seq(Nat)]
  <2>1. Append(sent[r], o.k) \in Seq(Nat)
    BY <1>a
  <2> QED
    BY <1>1, <1>2, <2>1 DEF ServingTypes
<1>6. TakeFrame(r)
  BY <1>1, <1>2, <1>4, <1>5 DEF TakeFrame, ServingTypes
<1>7. Received(r) = sent[r]
  BY <1>2 DEF Received
<1>8. Takes(r, Received(r), sent'[r], o.k)
  BY <1>2, <1>4, <1>7 DEF Takes
<1>9. pc' = pc => Received(r)' = sent'[r]
  BY <1>2 DEF Received, Buffered
<1>10. LossOK(r)' /\ (pc' = pc => StreamOK(r)')
  BY <1>2, LossStays
<1> QED
  BY <1>2, <1>6, <1>8, <1>9, <1>10, EndOrGoOnStep DEF o

LEMMA StreamDecodeFailsStep ==
    ASSUME ServingInv, NEW r \in Requests, StreamDecodeFails(r)
    PROVE  ServingInv'
<1> DEFINE o == Head(chan[r])
<1>1. ServingTypes
  BY DEF ServingInv
<1>2. /\ pc[r] = "streaming" /\ pc[r] \in Waiting /\ ~Buffered(r) /\ chan[r] # <<>>
      /\ UNCHANGED <<core, cmds, drained, senders, emitted, req, held, sent>>
      /\ lost' = lost \cup {r}
      /\ IF IsHttp(req[r]) THEN EndOrGoOn(r, o) ELSE End(r, "internal")
  BY DEF StreamDecodeFails, Take, loopVars, Waiting
<1> HIDE DEF o
<1>3. TakeFrame(r)
  BY <1>1, <1>2 DEF TakeFrame, ServingTypes
<1>4. Received(r) = sent[r]
  BY <1>2 DEF Received
<1>5. \A k : Takes(r, Received(r), sent'[r], k)
  BY <1>2, <1>4 DEF Takes
<1>6. pc' = pc => Received(r)' = sent'[r]
  BY <1>2 DEF Received, Buffered
<1>7. CASE IsHttp(req[r]) /\ EndOrGoOn(r, o)
  <2>1. LossOK(r)' /\ (pc' = pc => StreamOK(r)')
    BY <1>2, <1>7, LossStays
  <2> QED
    BY <1>2, <1>3, <1>5, <1>6, <1>7, <2>1, EndOrGoOnStep DEF o
<1>8. CASE End(r, "internal")
  <2>1. ~InFlight(r)
    BY <1>2, FirstOutput
  <2>2. /\ "internal" \in Replies \ {"none", "ok", "submitted"} /\ pc[r] # "ended"
        /\ DOMAIN req' = Requests /\ r \in lost' /\ req'[r] = req[r]
    BY <1>1, <1>2 DEF Replies, ServingTypes
  <2>3. /\ held' \in [Requests -> Seq(Nat)] /\ sent' \in [Requests -> Seq(Nat)]
        /\ lost' \subseteq Requests
        /\ UNCHANGED <<core, cmds, drained, senders, emitted>>
        /\ \A q \in Requests : q # r => /\ req'[q] = req[q] /\ held'[q] = held[q]
                                        /\ sent'[q] = sent[q] /\ (q \in lost' <=> q \in lost)
    BY <1>2, <1>3 DEF TakeFrame
  <2> QED
    BY <1>8, <2>1, <2>2, <2>3, EndsEarly
<1> QED
  BY <1>2, <1>7, <1>8

LEMMA StreamBufferStep ==
    ASSUME ServingInv, NEW r \in Requests, StreamBuffer(r)
    PROVE  ServingInv'
<1> DEFINE o == Head(chan[r])
           all == Append(held[r], o.k)
<1>1. ServingTypes
  BY DEF ServingInv
<1>2. /\ Buffered(r) /\ pc[r] \in Waiting /\ chan[r] # <<>>
      /\ UNCHANGED <<core, cmds, drained, senders, emitted, req, lost>>
      /\ EndOrGoOn(r, o)
      /\ held' = [held EXCEPT ![r] = all]
      /\ sent' = IF o.finish # "none" THEN [sent EXCEPT ![r] = all] ELSE sent
  BY DEF StreamBuffer, Buffered, Take, loopVars, Waiting
<1>3. o \in [k : Nat, finish : Finishes]
  BY <1>2, FirstOutput
<1>a. o.k \in Nat /\ held[r] \in Seq(Nat) /\ DOMAIN held = Requests /\ DOMAIN sent = Requests
  BY <1>1, <1>3 DEF ServingTypes
<1> HIDE DEF o
<1>b. all \in Seq(Nat)
  BY <1>a
<1>c. Received(r) = held[r]
  BY <1>2 DEF Received
<1>d. \A k : all = Append(held[r], o.k)
  OBVIOUS
<1> HIDE DEF all
<1>4. held'[r] = all /\ (o.finish # "none" => sent'[r] = all)
      /\ \A q \in Requests : q # r => held'[q] = held[q] /\ sent'[q] = sent[q]
  BY <1>2, <1>a
<1>5. held' \in [Requests -> Seq(Nat)] /\ sent' \in [Requests -> Seq(Nat)]
  BY <1>1, <1>2, <1>b DEF ServingTypes
<1>6. TakeFrame(r)
  BY <1>1, <1>2, <1>4, <1>5 DEF TakeFrame, ServingTypes
<1>8. Takes(r, Received(r), all, o.k)
  BY <1>2, <1>c, <1>d DEF Takes
<1>9. pc' = pc => Received(r)' = all
  BY <1>2, <1>4 DEF Received, Buffered
<1>10. LossOK(r)' /\ (pc' = pc /\ o.finish = "none" => StreamOK(r)')
  BY <1>2, LossStays
<1> QED
  BY <1>2, <1>4, <1>6, <1>8, <1>9, <1>10, EndOrGoOnStep DEF o

LEMMA BufferDecodeFailsStep ==
    ASSUME ServingInv, NEW r \in Requests, BufferDecodeFails(r)
    PROVE  ServingInv'
<1> DEFINE o == Head(chan[r])
           all == Append(held[r], o.k)
<1>1. ServingTypes
  BY DEF ServingInv
<1>2. /\ Buffered(r) /\ pc[r] = "streaming" /\ pc[r] \in Waiting /\ chan[r] # <<>>
      /\ UNCHANGED <<core, cmds, drained, senders, emitted, req, sent>>
      /\ held' = [held EXCEPT ![r] = all] /\ o.finish # "none"
      /\ lost' = lost \cup {r}
      /\ End(r, IF IsHttp(req[r]) THEN "ok" ELSE "internal")
  BY DEF BufferDecodeFails, Buffered, Take, loopVars, Waiting
<1>3. o \in [k : Nat, finish : Finishes] /\ ~InFlight(r)
  BY <1>2, FirstOutput
<1>a. o.k \in Nat /\ held[r] \in Seq(Nat) /\ DOMAIN held = Requests
  BY <1>1, <1>3 DEF ServingTypes
<1> HIDE DEF o
<1>b. all \in Seq(Nat)
  BY <1>a
<1> HIDE DEF all
<1>4. held' \in [Requests -> Seq(Nat)] /\ \A q \in Requests : q # r => held'[q] = held[q]
  BY <1>1, <1>2, <1>b DEF ServingTypes
<1>5. TakeFrame(r)
  BY <1>1, <1>2, <1>4 DEF TakeFrame, ServingTypes
<1>6. CASE IsHttp(req[r])
  <2>1. sent'[r] = <<>> /\ r \in lost' /\ LossOK(r)'
    BY <1>2, <1>6, LossStays DEF ServingInv, AnswerOK, StreamOK
  <2>2. End(r, "ok")
    BY <1>2, <1>6
  <2> QED
    BY <1>2, <1>5, <2>1, <2>2, EndsOk DEF o
<1>7. CASE ~IsHttp(req[r])
  <2>1. End(r, "internal")
    BY <1>2, <1>7
  <2>2. /\ "internal" \in Replies \ {"none", "ok", "submitted"} /\ pc[r] # "ended"
        /\ DOMAIN req' = Requests /\ r \in lost' /\ req'[r] = req[r]
    BY <1>1, <1>2 DEF Replies, ServingTypes
  <2>3. /\ held' \in [Requests -> Seq(Nat)] /\ sent' \in [Requests -> Seq(Nat)]
        /\ lost' \subseteq Requests
        /\ UNCHANGED <<core, cmds, drained, senders, emitted>>
        /\ \A q \in Requests : q # r => /\ req'[q] = req[q] /\ held'[q] = held[q]
                                        /\ sent'[q] = sent[q] /\ (q \in lost' <=> q \in lost)
    BY <1>2, <1>5 DEF TakeFrame
  <2> QED
    BY <1>3, <2>1, <2>2, <2>3, EndsEarly
<1> QED
  BY <1>6, <1>7

LEMMA CollectStep ==
    ASSUME ServingInv, NEW r \in Requests, Collect(r)
    PROVE  ServingInv'
<1> DEFINE o == Head(chan[r])
           all == Append(held[r], o.k)
<1>1. ServingTypes
  BY DEF ServingInv
<1>2. /\ pc[r] = "collecting" /\ pc[r] \in Waiting /\ chan[r] # <<>>
      /\ UNCHANGED <<core, cmds, drained, senders, emitted, req, lost>>
      /\ held' = [held EXCEPT ![r] = all]
  BY DEF Collect, Take, loopVars, Waiting
<1>e. \/ o.finish = "none" /\ EndOrGoOn(r, o) /\ sent' = sent
      \/ o.finish # "none" /\ End(r, "ok") /\ sent' = [sent EXCEPT ![r] = all]
      \/ o.finish # "none" /\ End(r, "internal") /\ sent' = sent
  BY DEF Collect
<1>3. o \in [k : Nat, finish : Finishes] /\ ~InFlight(r) /\ (o.finish # "none" => ~InEngine(r))
  BY <1>2, FirstOutput
<1>a. o.k \in Nat /\ held[r] \in Seq(Nat) /\ DOMAIN held = Requests /\ DOMAIN sent = Requests
  BY <1>1, <1>3 DEF ServingTypes
<1> HIDE DEF o
<1>b. all \in Seq(Nat)
  BY <1>a
<1>c. Received(r) = held[r]
  BY <1>2 DEF Received
<1>d. all = Append(held[r], o.k)
  OBVIOUS
<1> HIDE DEF all
<1>4. held'[r] = all /\ \A q \in Requests : q # r => held'[q] = held[q] /\ sent'[q] = sent[q]
  BY <1>2, <1>a, <1>e
<1>5. held' \in [Requests -> Seq(Nat)] /\ sent' \in [Requests -> Seq(Nat)]
  BY <1>1, <1>2, <1>b, <1>e DEF ServingTypes
<1>6. TakeFrame(r)
  BY <1>1, <1>2, <1>4, <1>5 DEF TakeFrame, ServingTypes
<1>7. Takes(r, Received(r), all, o.k)
  BY <1>2, <1>c, <1>d DEF Takes
<1>f. LossOK(r)' /\ (pc' = pc /\ sent' = sent => StreamOK(r)')
  BY <1>2, LossStays
<1>8. CASE o.finish = "none" /\ EndOrGoOn(r, o) /\ sent' = sent
  <2>1. pc' = pc => Received(r)' = all
    BY <1>2, <1>4 DEF Received
  <2> QED
    BY <1>2, <1>6, <1>7, <1>8, <1>f, <2>1, EndOrGoOnStep DEF o
<1>9. CASE o.finish # "none" /\ End(r, "ok") /\ sent' = [sent EXCEPT ![r] = all]
  <2>1. sent'[r] = all
    BY <1>a, <1>9
  <2> QED
    BY <1>2, <1>6, <1>7, <1>9, <1>f, <2>1, EndsOk DEF o
<1>10. CASE o.finish # "none" /\ End(r, "internal") /\ sent' = sent
  <2>1. ~InEngine(r) /\ ~InFlight(r)
    BY <1>3, <1>10
  <2>2. "internal" \in Replies \ {"none", "ok", "submitted"} /\ pc[r] # "ended" /\ DOMAIN req' = Requests
    BY <1>1, <1>2 DEF Replies, ServingTypes
  <2>3. /\ held' \in [Requests -> Seq(Nat)] /\ sent' \in [Requests -> Seq(Nat)]
        /\ lost' \subseteq Requests
        /\ UNCHANGED <<core, cmds, drained, senders, emitted>>
        /\ \A q \in Requests : q # r => /\ req'[q] = req[q] /\ held'[q] = held[q]
                                        /\ sent'[q] = sent[q] /\ (q \in lost' <=> q \in lost)
    BY <1>2, <1>6 DEF TakeFrame
  <2> QED
    BY <1>10, <2>1, <2>2, <2>3, EndsEarly
<1> QED
  BY <1>e, <1>8, <1>9, <1>10

-----------------------------------------------------------------------------
(* Sending commands.                                                       *)

LEMMA SendStep ==
    ASSUME ServingInv, NEW cmd \in Work \cup {Shutdown}, cmds' = Append(cmds, cmd),
           drained' = drained, CommandOK(cmd)',
           IsSubmission(cmd) => ~InFlight(cmd.r),
           \A q \in Requests : InFlight(q) => (reply'[q] = "submitted" <=> reply[q] = "submitted")
    PROVE  /\ cmds' \in Seq(Work \cup {Shutdown})
           /\ CommandsOK'
           /\ \A q : InFlight(q)' <=> InFlight(q) \/ (IsSubmission(cmd) /\ cmd.r = q)
<1> DEFINE S == Work \cup {Shutdown}
<1>1. cmds \in Seq(S) /\ drained \in Seq(S) /\ CommandsOK
  BY DEF ServingInv, ServingTypes
<1>a. cmd \in S
  OBVIOUS
<1> HIDE DEF S
<1>2. /\ \A q : q \in Submitted(Append(cmds, cmd)) <=>
                q \in Submitted(cmds) \/ (IsSubmission(cmd) /\ cmd.r = q)
      /\ SubmittedOnce(cmds) /\ (IsSubmission(cmd) => cmd.r \notin Submitted(cmds)) =>
           SubmittedOnce(Append(cmds, cmd))
  BY <1>1, <1>a, SubmittedAppend
<1>3. \A q : InFlight(q)' <=> InFlight(q) \/ (IsSubmission(cmd) /\ cmd.r = q)
  BY <1>2 DEF InFlight
<1>4. SubmittedOnce(cmds')
  BY <1>1, <1>2 DEF InFlight, CommandsOK
<1>5. Submitted(cmds') \cap Submitted(drained') = {}
  BY <1>1, <1>2 DEF InFlight, CommandsOK
<1> DEFINE AfterOK(c) == /\ c.op = "add" => reply'[c.r] = "submitted"
                         /\ c.op = "stream" => reply'[c.r] # "submitted"
<1>6. ASSUME NEW c \in S, CommandOK(c), IsSubmission(c) => InFlight(c.r)
      PROVE  AfterOK(c)
  <2>1. IsSubmission(c) => c.r \in Requests
    BY <1>6, CommandTarget DEF S
  <2> QED
    BY <1>6, <2>1 DEF CommandOK, IsSubmission
<1>b. AfterOK(cmd)
  BY DEF CommandOK
<1> HIDE DEF AfterOK
<1>7. \A i \in DOMAIN drained : AfterOK(drained[i])
  <2> SUFFICES ASSUME NEW i \in DOMAIN drained
               PROVE  AfterOK(drained[i])
    OBVIOUS
  <2>1. drained[i] \in S /\ CommandOK(drained[i])
    BY <1>1 DEF CommandsOK
  <2>2. IsSubmission(drained[i]) => InFlight(drained[i].r)
    BY SubmittedMember DEF InFlight
  <2> QED
    BY <1>6, <2>1, <2>2
<1>8. \A i \in DOMAIN cmds' : AfterOK(cmds'[i])
  <2> SUFFICES ASSUME NEW i \in DOMAIN cmds'
               PROVE  AfterOK(cmds'[i])
    OBVIOUS
  <2>1. (i \in DOMAIN cmds /\ cmds'[i] = cmds[i]) \/ cmds'[i] = cmd
    BY <1>1, <1>a, AppendProperties
  <2>2. CASE i \in DOMAIN cmds /\ cmds'[i] = cmds[i]
    <3>1. cmds[i] \in S /\ CommandOK(cmds[i])
      BY <1>1, <2>2 DEF CommandsOK
    <3>2. IsSubmission(cmds[i]) => InFlight(cmds[i].r)
      BY <2>2, SubmittedMember DEF InFlight
    <3> QED
      BY <1>6, <2>2, <3>1, <3>2
  <2>3. CASE cmds'[i] = cmd
    BY <1>b, <2>3
  <2> QED
    BY <2>1, <2>2, <2>3
<1>9. CommandsOK'
  BY <1>4, <1>5, <1>7, <1>8 DEF CommandsOK, CommandOK, AfterOK, SubmittedOnce
<1>10. cmds' \in Seq(S)
  BY <1>1, <1>a, AppendProperties
<1> QED
  BY <1>3, <1>9, <1>10 DEF S

(* An abort or a shutdown.                                                 *)
LEMMA NoticeStep ==
    ASSUME ServingInv, NEW cmd \in Work \cup {Shutdown}, cmd.op \in {"abort", "shutdown"},
           cmds' = Append(cmds, cmd),
           UNCHANGED <<core, runtime, loopVars, chan, handlerVars>>
    PROVE  ServingInv'
<1>1. UNCHANGED <<core, drained, senders, emitted, chan, pc, req, held, sent, reply, lost>>
  BY DEF loopVars, handlerVars
<1>2. ~IsSubmission(cmd) /\ CommandOK(cmd)'
  BY DEF IsSubmission, CommandOK
<1>3. \A q \in Requests : InFlight(q) => (reply'[q] = "submitted" <=> reply[q] = "submitted")
  BY <1>1
<1>4. /\ cmds' \in Seq(Work \cup {Shutdown}) /\ CommandsOK'
      /\ \A q : InFlight(q)' <=> InFlight(q)
  BY <1>1, <1>2, <1>3, SendStep
<1>5. ServingTypes'
  BY <1>1, <1>4 DEF ServingInv, ServingTypes
<1>6. SendersTracked'
  BY <1>1 DEF ServingInv, SendersTracked
<1>7. ASSUME NEW q \in Requests
      PROVE  HandlerOK(q)'
  <2>1. HandlerOK(q) /\ SameFor(q) /\ (q \in Tracked(core)' => q \in Tracked(core))
    BY <1>1 DEF ServingInv, HandlerOK, SameFor
  <2> QED
    BY <1>4, <2>1, OthersKeep
<1> QED
  BY <1>4, <1>5, <1>6, <1>7 DEF ServingInv, HandlerOK

LEMMA NoticeSteps ==
    ASSUME ServingInv, ShutdownCall \/ \E r \in Requests : AbortCall(r)
    PROVE  ServingInv'
<1>1. CASE ShutdownCall
  <2>1. Shutdown \in Work \cup {Shutdown} /\ Shutdown.op \in {"abort", "shutdown"}
    BY DEF Shutdown, Command
  <2>2. cmds' = Append(cmds, Shutdown) /\ UNCHANGED <<core, runtime, loopVars, chan, handlerVars>>
    BY <1>1 DEF ShutdownCall, Send
  <2> QED
    BY <2>1, <2>2, NoticeStep
<1>2. ASSUME NEW r \in Requests, AbortCall(r)
      PROVE  ServingInv'
  <2> DEFINE cmd == Command("abort", r)
  <2>1. cmd \in Work \cup {Shutdown} /\ cmd.op \in {"abort", "shutdown"}
    BY DEF Work, Command
  <2>2. cmds' = Append(cmds, cmd) /\ UNCHANGED <<core, runtime, loopVars, chan, handlerVars>>
    BY <1>2 DEF AbortCall, Send
  <2> HIDE DEF cmd
  <2> QED
    BY <2>1, <2>2, NoticeStep
<1> QED
  BY <1>1, <1>2

(* A submission by a handler, or by an embedding program.                  *)
LEMMA SubmissionStep ==
    ASSUME ServingInv, NEW r \in Requests, pc[r] \in {"idle", "encoding"},
           NEW op \in {"add", "stream"}, cmds' = Append(cmds, Command(op, r)),
           UNCHANGED <<core, drained, senders, emitted, chan, req, held, sent, lost>>,
           NEW to, pc' = [pc EXCEPT ![r] = to],
           \/ op = "add" /\ to = "ended" /\ reply' = [reply EXCEPT ![r] = "submitted"]
           \/ /\ op = "stream" /\ to \in Waiting /\ reply' = reply /\ Admitted(r)
              /\ to = "streaming" => Streams(req[r])
    PROVE  ServingInv'
<1> DEFINE cmd == Command(op, r)
<1>1. ServingTypes
  BY DEF ServingInv
<1>2. ~InEngine(r) /\ ~InFlight(r) /\ Untouched(r) /\ reply[r] = "none"
  BY BeforeSubmit
<1>3. cmd \in Work \cup {Shutdown} /\ cmd.op = op /\ cmd.r = r /\ IsSubmission(cmd)
  BY DEF Work, Command, IsSubmission
<1>4. pc'[r] = to /\ \A q \in Requests : q # r => pc'[q] = pc[q] /\ reply'[q] = reply[q]
  BY <1>1 DEF ServingTypes
<1>5. (op = "add" => reply'[r] = "submitted") /\ (op = "stream" => reply'[r] = "none")
  BY <1>1, <1>2 DEF ServingTypes
<1>6. CommandOK(cmd)'
  BY <1>3, <1>5 DEF CommandOK
<1>7. \A q \in Requests : InFlight(q) => (reply'[q] = "submitted" <=> reply[q] = "submitted")
  BY <1>2, <1>4
<1>b. cmds' = Append(cmds, cmd) /\ drained' = drained
  OBVIOUS
<1> HIDE DEF cmd
<1>8. /\ cmds' \in Seq(Work \cup {Shutdown}) /\ CommandsOK'
      /\ \A q : InFlight(q)' <=> InFlight(q) \/ (IsSubmission(cmd) /\ cmd.r = q)
  BY <1>2, <1>3, <1>6, <1>7, <1>b, SendStep
<1>9. ServingTypes'
  <2>1. pc' \in [Requests -> {"idle", "queued", "encoding", "streaming", "collecting", "ended"}]
    BY <1>1 DEF ServingTypes, Waiting
  <2>2. reply' \in [Requests -> Replies]
    BY <1>1 DEF ServingTypes, Replies
  <2> QED
    BY <1>1, <1>8, <2>1, <2>2 DEF ServingTypes
<1>10. r \notin Tracked(core) /\ Tracked(core) \subseteq Requests
  BY <1>1, <1>2 DEF InEngine, ServingTypes, CoreOK
<1>11. SendersTracked'
  BY <1>4, <1>10 DEF ServingInv, SendersTracked
<1>12. ASSUME NEW q \in Requests, q # r
       PROVE  HandlerOK(q)'
  <2>1. HandlerOK(q) /\ SameFor(q) /\ (q \in Tracked(core)' => q \in Tracked(core))
    BY <1>4, <1>12 DEF ServingInv, HandlerOK, SameFor
  <2>2. InFlight(q)' => InFlight(q)
    BY <1>3, <1>8, <1>12
  <2> QED
    BY <2>1, <2>2, OthersKeep
<1>13. Untouched(r)'
  BY <1>2 DEF Untouched
<1>14. RequestOK(r)'
  <2>1. DOMAIN chan'[r] = {}
    BY <1>13 DEF Untouched
  <2>2. pc'[r] \in Waiting \cup {"ended"} /\ (pc'[r] = "ended" => Excused(r)')
    BY <1>4, <1>5 DEF Excused, Waiting
  <2>3. pc'[r] # "ended" <=> reply'[r] = "none"
    BY <1>4, <1>5 DEF Waiting
  <2>4. r \notin Tracked(core)' /\ chan'[r] = <<>>
    BY <1>10, <1>13 DEF Untouched
  <2> QED
    BY <1>13, <2>1, <2>2, <2>3, <2>4 DEF RequestOK
<1>15. CheckedOK(r)'
  <2>1. op = "stream" => Admitted(r)'
    BY DEF Admitted
  <2>2. pc'[r] \notin {"queued", "encoding"}
    BY <1>4 DEF Waiting
  <2> QED
    BY <1>4, <1>5, <2>1, <2>2 DEF CheckedOK, Waiting
<1>16. AnswerOK(r)'
  <2>0. chan'[r] = <<>> /\ emitted'[r] = 0 /\ held'[r] = <<>> /\ sent'[r] = <<>>
    BY <1>13 DEF Untouched
  <2>1. Received(r)' = <<>> /\ emitted'[r] - Len(chan'[r]) = 0 /\ DOMAIN chan'[r] = {}
    <3>1. Received(r)' = <<>>
      BY <2>0 DEF Received
    <3>2. Len(chan'[r]) = 0
      BY <2>0
    <3>3. DOMAIN chan'[r] = {}
      BY <2>0
    <3>4. emitted'[r] - Len(chan'[r]) = 0
      <4>1. 0 - 0 = 0
        OBVIOUS
      <4> QED
        BY <2>0, <3>2, <4>1, Zenon
    <3> QED
      BY <3>1, <3>3, <3>4
  <2>2. UpTo(0) = <<>>
    BY UpToSeq, EmptySeq
  <2>3. NumbersOK(r)'
    BY <2>1, <2>2 DEF NumbersOK, Increasing
  <2>4. pc'[r] \in Waiting => StreamOK(r)'
    BY <1>4, <1>13, <2>0 DEF StreamOK, Untouched, Waiting
  <2> QED
    BY <1>5, <2>3, <2>4 DEF AnswerOK
<1> QED
  BY <1>8, <1>9, <1>11, <1>12, <1>14, <1>15, <1>16 DEF ServingInv, HandlerOK

(* What the four endpoints have checked between them when they submit.     *)
LEMMA ChecksAdmit ==
    ASSUME NEW r \in Requests, req[r] \in Profiles[r], KeyOK(req[r]),
           ~RefusedEarly(req[r], MaxMessages, StructuredFeature), ~RefusedLate(req[r])
    PROVE  Admitted(r)
<1> DEFINE p == req[r]
           q == FromProto(p)
<1>1. /\ {"endpoint", "key", "messages", "tools", "structured", "format", "compiles"} \subseteq DOMAIN p
      /\ p.endpoint \in {"http_chat", "http_text", "grpc_chat", "grpc_text"}
  BY ProfileAssumption
<1>2. CASE IsHttp(p)
  <2>1. ValidParams(SamplingParams(p))
    BY <1>2 DEF RefusedEarly
  <2>2. IsChat(p) => Len(p.messages) \in 1..MaxMessages /\ ValidToolCallRequest(p)
    BY <1>2 DEF RefusedEarly, IsChat, IsHttp
  <2>3. IsSome(StructuredOf(p)) => StructuredFeature /\ p.compiles
    BY <1>2 DEF RefusedEarly
  <2> QED
    BY <1>2, <2>1, <2>2, <2>3 DEF Admitted
<1>3. CASE ~IsHttp(p)
  <2>1. /\ q.endpoint = p.endpoint /\ q.key = p.key /\ q.messages = p.messages
        /\ q.structured = <<>> /\ q.format = <<>>
    BY <1>1 DEF FromProto
  <2>2. ValidParams(SamplingParams(q)) /\ KeyOK(q)
    BY <1>3, <2>1 DEF RefusedLate, KeyOK, Authorized, IsHttp
  <2>3. IsChat(q) => Len(q.messages) \in 1..MaxMessages /\ ValidToolCallRequest(q)
    BY <1>3, <2>1 DEF RefusedLate, RefusedEarly, IsChat, IsHttp
  <2>4. ~IsSome(StructuredOf(q))
    BY <2>1 DEF StructuredOf, IsSome
  <2> QED
    BY <1>3, <2>2, <2>3, <2>4 DEF Admitted
<1> QED
  BY <1>2, <1>3

LEMMA SubmitSteps ==
    ASSUME ServingInv, NEW r \in Requests, Submit(r) \/ AddRequestCall(r)
    PROVE  ServingInv'
<1>1. CASE AddRequestCall(r)
  <2>1. /\ pc[r] = "idle" /\ cmds' = Append(cmds, Command("add", r))
        /\ UNCHANGED <<core, drained, senders, emitted, chan, req, held, sent, lost>>
        /\ pc' = [pc EXCEPT ![r] = "ended"] /\ reply' = [reply EXCEPT ![r] = "submitted"]
    BY <1>1 DEF AddRequestCall, Send, loopVars
  <2> QED
    BY <2>1, SubmissionStep
<1>2. CASE Submit(r)
  <2>1. /\ pc[r] = "encoding"
        /\ UNCHANGED <<core, drained, senders, emitted, req, held, sent, lost>>
    BY <1>2 DEF Submit, loopVars
  <2>2. ~InEngine(r) /\ pc[r] # "ended"
    BY <2>1, BeforeSubmit
  <2>3. CASE RefusedLate(req[r])
    <3>1. End(r, LateStatus(r)) /\ cmds' = cmds
      BY <1>2, <2>3 DEF Submit
    <3>2. LateStatus(r) \in Replies \ {"none", "ok", "submitted"}
      BY DEF LateStatus, Replies
    <3> QED
      BY <2>1, <2>2, <3>1, <3>2, GivesUp
  <2>4. CASE ~RefusedLate(req[r]) /\ loop = "stopped"
    <3>1. End(r, "internal") /\ cmds' = cmds
      BY <1>2, <2>4 DEF Submit
    <3> QED
      BY <2>1, <2>2, <3>1, GivesUp DEF Replies
  <2>5. CASE ~RefusedLate(req[r]) /\ loop # "stopped"
    <3>1. /\ cmds' = Append(cmds, Command("stream", r)) /\ UNCHANGED <<reply, chan>>
          /\ \E to \in Waiting : /\ pc' = [pc EXCEPT ![r] = to]
                                 /\ to = "streaming" => Streams(req[r])
      BY <1>2, <2>5 DEF Submit, Send, Waiting
    <3>2. PICK to \in Waiting : /\ pc' = [pc EXCEPT ![r] = to]
                                /\ to = "streaming" => Streams(req[r])
      BY <3>1
    <3>3. Admitted(r)
      <4>1. CheckedOK(r)
        BY DEF ServingInv
      <4> QED
        BY <2>1, <2>5, <4>1, ChecksAdmit DEF CheckedOK
    <3> QED
      BY <2>1, <3>1, <3>2, <3>3, SubmissionStep
  <2> QED
    BY <2>3, <2>4, <2>5
<1> QED
  BY <1>1, <1>2

-----------------------------------------------------------------------------
(* The engine loop.                                                        *)

(* A round of the loop moves requests only from the commands into the      *)
(* engine, and out of it.                                                  *)
Progresses(q) ==
    /\ InEngine(q)' => InEngine(q)
    /\ InFlight(q)' => InFlight(q) /\ q \notin Tracked(core)'

LEMMA LoopKeeps ==
    ASSUME NEW q, HandlerOK(q), SameFor(q), Progresses(q)
    PROVE  HandlerOK(q)'
<1>1. /\ Received(q)' = Received(q)
      /\ Untouched(q)' <=> Untouched(q)
      /\ Excused(q)' <=> Excused(q)
      /\ Admitted(q)' <=> Admitted(q)
  BY DEF SameFor, Received, Buffered, Untouched, Excused, Admitted
<1>2. RequestOK(q)'
  <2>1. RequestOK(q)
    BY DEF HandlerOK
  <2>2. ASSUME NEW i \in DOMAIN chan'[q], chan'[q][i].finish # "none"
        PROVE  i = Len(chan'[q]) /\ q \notin Tracked(core)'
    <3>1. chan'[q] = chan[q] /\ i \in DOMAIN chan[q] /\ chan[q][i].finish # "none"
      BY <2>2 DEF SameFor
    <3>2. i = Len(chan[q]) /\ q \notin Tracked(core)
      BY <2>1, <3>1 DEF RequestOK
    <3>3. ~InFlight(q)
      <4>1. chan[q] # <<>>
        BY <3>1
      <4> QED
        BY <2>1, <4>1 DEF RequestOK, Untouched
    <3> QED
      BY <3>1, <3>2, <3>3 DEF Progresses, InEngine
  <2>3. pc'[q] \notin Waiting \cup {"ended"} => ~InEngine(q)' /\ Untouched(q)'
    BY <1>1, <2>1 DEF RequestOK, SameFor, Progresses
  <2>4. InFlight(q)' => q \notin Tracked(core)' /\ Untouched(q)'
    BY <1>1, <2>1 DEF RequestOK, Progresses
  <2>5. InEngine(q)' /\ pc'[q] = "ended" => Excused(q)'
    BY <1>1, <2>1 DEF RequestOK, SameFor, Progresses
  <2>6. (pc'[q] # "ended" <=> reply'[q] = "none") /\ (pc'[q] = "ended" => chan'[q] = <<>>)
    BY <2>1 DEF RequestOK, SameFor
  <2> QED
    BY <2>2, <2>3, <2>4, <2>5, <2>6 DEF RequestOK
<1>4. CheckedOK(q)'
  BY <1>1 DEF HandlerOK, CheckedOK, SameFor, Progresses
<1>5. NumbersOK(q)' <=> NumbersOK(q)
  BY <1>1 DEF NumbersOK, SameFor
<1>a. (StreamOK(q)' <=> StreamOK(q)) /\ (LossOK(q)' <=> LossOK(q))
  BY DEF StreamOK, LossOK, Buffered, SameFor
<1>6. AnswerOK(q)'
  BY <1>5, <1>a DEF HandlerOK, AnswerOK, SameFor
<1> QED
  BY <1>2, <1>4, <1>6 DEF HandlerOK

(* A round without outputs.                                                *)
LEMMA QuietStep ==
    ASSUME ServingInv, UNCHANGED <<emitted, chan, handlerVars>>,
           CoreOK(core)', cmds' \in Seq(Work \cup {Shutdown}), drained' \in Seq(Work),
           CommandsOK', SendersTracked', \A q \in Requests : Progresses(q)
    PROVE  ServingInv'
<1>1. UNCHANGED <<emitted, chan, pc, req, held, sent, reply, lost>>
  BY DEF handlerVars
<1>2. ServingTypes'
  BY <1>1 DEF ServingInv, ServingTypes
<1>3. ASSUME NEW q \in Requests
      PROVE  HandlerOK(q)'
  <2>1. HandlerOK(q) /\ SameFor(q)
    BY <1>1 DEF ServingInv, HandlerOK, SameFor
  <2> QED
    BY <2>1, LoopKeeps
<1> QED
  BY <1>2, <1>3 DEF ServingInv, HandlerOK

LEMMA ReturnStep ==
    ASSUME ServingInv, Return
    PROVE  ServingInv'
<1>1. /\ core' = EmptyCore /\ cmds' = <<>> /\ drained' = <<>> /\ senders' = {}
      /\ UNCHANGED <<emitted, chan, handlerVars>>
  BY DEF Return
<1>2. Tracked(core)' = {} /\ CoreOK(core)'
  BY <1>1 DEF EmptyCore, Tracked, CoreOK
<1>3. Submitted(cmds') = {} /\ Submitted(drained') = {}
  BY <1>1, SubmittedEmpty
<1>4. cmds' \in Seq(Work \cup {Shutdown}) /\ drained' \in Seq(Work)
  BY <1>1
<1>5. CommandsOK'
  <2>1. DOMAIN cmds' = {} /\ DOMAIN drained' = {}
    BY <1>1
  <2> QED
    BY <1>3, <2>1 DEF CommandsOK, SubmittedOnce
<1>6. SendersTracked'
  BY <1>1, <1>2 DEF SendersTracked
<1>7. \A q \in Requests : Progresses(q)
  BY <1>2, <1>3 DEF Progresses, InEngine, InFlight
<1> QED
  BY <1>1, <1>2, <1>4, <1>5, <1>6, <1>7, QuietStep

LEMMA LoopRecvStep ==
    ASSUME ServingInv, LoopRecv
    PROVE  ServingInv'
<1> DEFINE S == Work \cup {Shutdown}
           cmd == Head(cmds)
<1>1. cmds \in Seq(S) /\ drained \in Seq(Work) /\ CommandsOK /\ CoreOK(core) /\ cmds # <<>>
  BY DEF ServingInv, ServingTypes, LoopRecv
<1>2. CASE cmd.op = "shutdown"
  BY <1>2, ReturnStep DEF LoopRecv
<1>3. CASE cmd.op # "shutdown"
  <2>1. PICK refused \in SUBSET Submitted(<<cmd>>) :
            LET after == Apply([core |-> core, senders |-> senders], cmd, refused)
            IN  core' = after.core /\ senders' = after.senders
    BY <1>3 DEF LoopRecv
  <2>2. /\ cmds' = Tail(cmds) /\ drained' = drained
        /\ UNCHANGED <<emitted, chan, handlerVars>> /\ reply' = reply
    BY <1>3 DEF LoopRecv, handlerVars
  <2> DEFINE state == [core |-> core, senders |-> senders]
             after == Apply(state, cmd, refused)
  <2>3. core' = after.core /\ senders' = after.senders
    BY <2>1
  <2> HIDE DEF S, cmd
  <2>4. /\ cmd \in S /\ Tail(cmds) \in Seq(S)
        /\ \A q : q \in Submitted(cmds) <=> q \in Submitted(Tail(cmds)) \/ (IsSubmission(cmd) /\ cmd.r = q)
        /\ \A i \in DOMAIN Tail(cmds) : i + 1 \in DOMAIN cmds /\ Tail(cmds)[i] = cmds[i + 1]
        /\ 1 \in DOMAIN cmds /\ cmd = cmds[1]
        /\ SubmittedOnce(Tail(cmds)) /\ (IsSubmission(cmd) => cmd.r \notin Submitted(Tail(cmds)))
    BY <1>1, SubmittedTail DEF CommandsOK, cmd
  <2>5. cmd \in Work /\ CommandOK(cmd) /\ (IsSubmission(cmd) => InFlight(cmd.r))
    BY <1>1, <1>3, <2>4, CommandTarget DEF CommandsOK, InFlight, S
  <2> DEFINE base == Tracked(core) \cup (IF IsSubmission(cmd) THEN {cmd.r} ELSE {})
  <2>6. ApplyOK(state, base)
    BY <1>1 DEF ApplyOK, ServingInv, SendersTracked
  <2>7. IsSubmission(cmd) => cmd.r \in base
    OBVIOUS
  <2> HIDE DEF state
  <2>8. ApplyOK(after, base)
    <3> HIDE DEF base
    <3> QED
      BY <2>5, <2>6, <2>7, ApplyStep
  <2> HIDE DEF after
  <2>9. CoreOK(core)' /\ Tracked(core)' \subseteq base
    BY <2>3, <2>8 DEF ApplyOK
  <2>10. SendersTracked'
    BY <2>2, <2>3, <2>8 DEF ApplyOK, SendersTracked
  <2>11. CommandsOK'
    <3>1. SubmittedOnce(cmds') /\ Submitted(cmds') \cap Submitted(drained') = {}
      BY <1>1, <2>2, <2>4 DEF CommandsOK
    <3>2. \A i \in DOMAIN cmds' : /\ cmds'[i].op = "add" => reply'[cmds'[i].r] = "submitted"
                                  /\ cmds'[i].op = "stream" => reply'[cmds'[i].r] # "submitted"
      BY <1>1, <2>2, <2>4 DEF CommandsOK, CommandOK
    <3>3. \A i \in DOMAIN drained' : /\ drained'[i].op = "add" => reply'[drained'[i].r] = "submitted"
                                     /\ drained'[i].op = "stream" => reply'[drained'[i].r] # "submitted"
      BY <1>1, <2>2 DEF CommandsOK, CommandOK
    <3> QED
      BY <3>1, <3>2, <3>3 DEF CommandsOK, CommandOK, SubmittedOnce
  <2>12. ASSUME NEW q \in Requests
         PROVE  Progresses(q)
    <3>1. RequestOK(q)
      BY DEF ServingInv
    <3>2. InFlight(q)' => InFlight(q) /\ (IsSubmission(cmd) => cmd.r # q)
      BY <1>1, <2>2, <2>4 DEF InFlight, CommandsOK
    <3>3. q \in Tracked(core)' => q \in Tracked(core) \/ (IsSubmission(cmd) /\ cmd.r = q)
      BY <2>9
    <3> QED
      BY <2>5, <3>1, <3>2, <3>3 DEF Progresses, InEngine, RequestOK
  <2>13. cmds' \in Seq(S) /\ drained' \in Seq(Work)
    BY <1>1, <2>2, <2>4
  <2> QED
    BY <2>2, <2>9, <2>10, <2>11, <2>12, <2>13, QuietStep DEF S
<1> QED
  BY <1>2, <1>3

LEMMA LoopDrainStep ==
    ASSUME ServingInv, LoopDrain
    PROVE  ServingInv'
<1>1. CASE \E i \in DOMAIN cmds : cmds[i].op = "shutdown"
  BY <1>1, ReturnStep DEF LoopDrain
<1>2. CASE ~ \E i \in DOMAIN cmds : cmds[i].op = "shutdown"
  <2>1. /\ drained' = cmds /\ cmds' = <<>> /\ core' = core /\ senders' = senders
        /\ UNCHANGED <<emitted, chan, handlerVars>> /\ reply' = reply
    BY <1>2 DEF LoopDrain, handlerVars
  <2>2. cmds \in Seq(Work \cup {Shutdown}) /\ CommandsOK /\ CoreOK(core)
    BY DEF ServingInv, ServingTypes
  <2>3. \A i \in DOMAIN cmds : cmds[i] \in Work
    <3> SUFFICES ASSUME NEW i \in DOMAIN cmds
                 PROVE  cmds[i] \in Work
      OBVIOUS
    <3>1. cmds[i] \in Work \cup {Shutdown} /\ cmds[i].op # "shutdown"
      BY <1>2, <2>2
    <3> QED
      BY <3>1, CommandTarget
  <2>4. cmds' \in Seq(Work \cup {Shutdown}) /\ drained' \in Seq(Work)
    <3>1. cmds \in Seq(Work)
      BY <2>2, <2>3
    <3> QED
      BY <2>1, <3>1
  <2>5. Submitted(cmds') = {} /\ Submitted(drained') = Submitted(cmds)
    BY <2>1, SubmittedEmpty
  <2>6. CommandsOK'
    <3>1. DOMAIN cmds' = {}
      BY <2>1
    <3>2. \A i \in DOMAIN drained' : /\ drained'[i].op = "add" => reply'[drained'[i].r] = "submitted"
                                     /\ drained'[i].op = "stream" => reply'[drained'[i].r] # "submitted"
      BY <2>1, <2>2 DEF CommandsOK, CommandOK
    <3> QED
      BY <2>5, <3>1, <3>2 DEF CommandsOK, CommandOK, SubmittedOnce
  <2>7. SendersTracked' /\ CoreOK(core)'
    BY <2>1, <2>2 DEF ServingInv, SendersTracked
  <2>8. ASSUME NEW q \in Requests
        PROVE  Progresses(q)
    <3>1. RequestOK(q)
      BY DEF ServingInv
    <3>2. InFlight(q)' => InFlight(q)
      BY <2>5 DEF InFlight
    <3> QED
      BY <2>1, <3>1, <3>2 DEF Progresses, InEngine, RequestOK
  <2> QED
    BY <2>1, <2>4, <2>6, <2>7, <2>8, QuietStep
<1> QED
  BY <1>1, <1>2

LEMMA LoopBusyStep ==
    ASSUME ServingInv, LoopBusy \/ UNCHANGED serving
    PROVE  ServingInv'
<1>1. /\ UNCHANGED <<core, cmds, drained, senders, emitted, chan, handlerVars>>
      /\ reply' = reply
  BY DEF LoopBusy, serving, loopVars, handlerVars
<1>2. CommandsOK /\ CoreOK(core) /\ cmds \in Seq(Work \cup {Shutdown}) /\ drained \in Seq(Work)
  BY DEF ServingInv, ServingTypes
<1>3. CommandsOK'
  BY <1>1, <1>2 DEF CommandsOK, CommandOK, SubmittedOnce
<1>4. SendersTracked'
  BY <1>1 DEF ServingInv, SendersTracked
<1>5. \A q \in Requests : Progresses(q)
  BY <1>1 DEF ServingInv, RequestOK, Progresses, InEngine, InFlight
<1> QED
  BY <1>1, <1>2, <1>3, <1>4, <1>5, QuietStep

(* What a step of the engine core leaves of it.                            *)
LEMMA AnsweredCore ==
    ASSUME NEW c, CoreOK(c), NEW rs \in SUBSET c.active, NEW outs \in Outputs(c, rs), NEW quiet
    PROVE  /\ CoreOK(Retired(Answered(c, outs), quiet))
           /\ Tracked(Retired(Answered(c, outs), quiet)) = Tracked(c) \ Finished(outs)
           /\ DOMAIN outs = rs
           /\ \A r \in rs : outs[r].finish \in Finishes
           /\ Finished(outs) = {r \in rs : outs[r].finish # "none"}
<1>1. outs \in [rs -> Output]
  BY DEF Outputs
<1>2. DOMAIN outs = rs /\ \A r \in rs : outs[r].finish \in Finishes
  BY <1>1 DEF Output, Finishes
<1>3. Finished(outs) = {r \in rs : outs[r].finish # "none"}
  BY <1>2 DEF Finished
<1> DEFINE d == Answered(c, outs)
           e == Retired(d, quiet)
<1>4. /\ d = [generated |-> d.generated, active |-> d.active]
      /\ DOMAIN d.generated = Tracked(c) \ Finished(outs)
      /\ d.active = c.active \ Finished(outs)
  BY DEF Answered
<1> HIDE DEF d
<1>5. e = [generated |-> d.generated, active |-> d.active \ quiet]
  BY <1>4 DEF Retired
<1> HIDE DEF e
<1>6. e.generated = d.generated /\ e.active = d.active \ quiet
  BY <1>5
<1>7. Tracked(e) = Tracked(c) \ Finished(outs)
  BY <1>4, <1>6 DEF Tracked
<1>8. CoreOK(e)
  BY <1>4, <1>5, <1>6, <1>7 DEF CoreOK
<1> QED
  BY <1>2, <1>3, <1>7, <1>8 DEF d, e

(* What a round with outputs means for one request: gone or stays in the   *)
(* engine, and gets at most one output, which a waiting handler receives.  *)
Emits(q, rs, outs) ==
    /\ q \in rs => InEngine(q) /\ (outs[q].finish # "none" => q \notin Tracked(core)')
    /\ emitted'[q] = IF q \in rs THEN emitted[q] + 1 ELSE emitted[q]
    /\ chan'[q] = IF q \in rs /\ pc[q] \in Waiting
                  THEN Append(chan[q], [k |-> emitted[q] + 1, finish |-> outs[q].finish])
                  ELSE chan[q]

LEMMA EmitsKeeps ==
    ASSUME ServingInv, NEW q \in Requests, NEW rs, NEW outs, Emits(q, rs, outs),
           Progresses(q), InFlight(q)' => q \notin rs,
           UNCHANGED <<pc, req, held, sent, reply, lost>>,
           q \in rs => outs[q].finish \in Finishes
    PROVE  HandlerOK(q)'
<1>1. HandlerOK(q) /\ ServingTypes
  BY DEF ServingInv, HandlerOK
<1>2. CASE q \notin rs
  <2>1. SameFor(q)
    BY <1>2 DEF SameFor, Emits
  <2> QED
    BY <1>1, <2>1, LoopKeeps
<1>3. CASE q \in rs
  <2>1. /\ RequestOK(q) /\ CheckedOK(q) /\ AnswerOK(q) /\ InEngine(q) /\ emitted'[q] = emitted[q] + 1
        /\ ~InFlight(q)' /\ emitted[q] \in Nat
    BY <1>1, <1>3 DEF HandlerOK, Emits, ServingTypes
  <2>2. Excused(q)' <=> Excused(q)
    BY DEF Excused
  <2>3. Admitted(q)' <=> Admitted(q)
    BY DEF Admitted
  <2>4. CheckedOK(q)'
    BY <2>1, <2>3 DEF CheckedOK
  <2>5. CASE pc[q] \notin Waiting
    <3>1. pc[q] = "ended" /\ Excused(q) /\ chan'[q] = chan[q] /\ chan[q] = <<>>
      BY <2>1, <2>5 DEF RequestOK, Emits
    <3>2. reply[q] # "ok"
      BY <3>1 DEF Excused
    <3>3. RequestOK(q)'
      <4>1. DOMAIN chan'[q] = {}
        BY <3>1
      <4> QED
        BY <2>1, <2>2, <3>1, <4>1 DEF RequestOK
    <3>4. AnswerOK(q)'
      BY <2>5, <3>2 DEF AnswerOK
    <3> QED
      BY <2>4, <3>3, <3>4 DEF HandlerOK
  <2>6. CASE pc[q] \in Waiting
    <3> DEFINE o == [k |-> emitted[q] + 1, finish |-> outs[q].finish]
               c == chan[q]
               d == chan'[q]
               S == [k : Nat, finish : Finishes]
    <3>1. d = Append(c, o) /\ o.k = emitted[q] + 1 /\ o.finish = outs[q].finish
      BY <1>3, <2>6 DEF Emits
    <3>2. c \in Seq(S) /\ o \in S
      <4>1. c \in Seq(S)
        BY <1>1 DEF ServingTypes
      <4>2. outs[q].finish \in Finishes
        BY <1>3
      <4>3. emitted[q] + 1 \in Nat
        BY <2>1
      <4>4. o \in S
        <5> HIDE DEF Emits
        <5> QED
          BY ONLY <4>2, <4>3
      <4> QED
        BY <4>1, <4>4
    <3>a. /\ \A i \in DOMAIN c : c[i].finish # "none" => q \notin Tracked(core)
          /\ InFlight(q) => c = <<>>
          /\ q \in Tracked(core) \/ InFlight(q)
          /\ o.finish # "none" => q \notin Tracked(core)'
          /\ \A j \in DOMAIN c : c[j].k = (emitted[q] - Len(c)) + j
      BY <1>3, <2>1, <2>6, <3>1 DEF RequestOK, Untouched, InEngine, Emits, AnswerOK, NumbersOK
    <3> HIDE DEF o, c, d, S
    <3>3. /\ Len(c) \in Nat /\ DOMAIN c = 1..Len(c) /\ Len(d) = Len(c) + 1 /\ DOMAIN d = 1..(Len(c) + 1)
          /\ d[Len(c) + 1] = o /\ \A i \in 1..Len(c) : d[i] = c[i]
      <4>1. Append(c, o) \in Seq(S) /\ Len(Append(c, o)) = Len(c) + 1 /\ Len(c) \in Nat
        BY <3>2, AppendProperties, LenProperties
      <4> QED
        BY <3>1, <3>2, <4>1, AppendProperties, LenProperties
    <3>4. \A i \in DOMAIN d : i \in DOMAIN c \/ i = Len(c) + 1
      BY <3>3
    <3>5. \A i \in DOMAIN c : c[i].finish = "none"
      BY <3>a
    <3>6. ASSUME NEW i \in DOMAIN d, d[i].finish # "none"
          PROVE  i = Len(d) /\ q \notin Tracked(core)'
      BY <3>3, <3>4, <3>5, <3>6, <3>a
    <3>7. RequestOK(q)'
      <4>1. pc[q] # "ended" /\ reply[q] = "none"
        BY <2>1, <2>6 DEF RequestOK, Waiting
      <4> QED
        BY <2>1, <2>6, <3>6, <4>1 DEF RequestOK, d
    <3>8. NumbersOK(q)'
      <4>1. Received(q)' = Received(q)
        BY DEF Received, Buffered
      <4>2. emitted'[q] - Len(d) = emitted[q] - Len(c)
        BY <2>1, <3>3
      <4>3. ASSUME NEW j \in DOMAIN d
            PROVE  d[j].k = (emitted[q] - Len(c)) + j
        <5>1. CASE j \in DOMAIN c
          BY <3>3, <3>a, <5>1
        <5>2. CASE j = Len(c) + 1
          <6>1. (emitted[q] - Len(c)) + (Len(c) + 1) = emitted[q] + 1
            BY <2>1, <3>3
          <6> QED
            BY <3>1, <3>3, <5>2, <6>1
        <5> QED
          BY <3>4, <5>1, <5>2
      <4>4. NumbersOK(q)
        BY <2>1, <2>6 DEF AnswerOK
      <4>5. /\ emitted[q] - Len(c) \in Nat /\ Increasing(Received(q))
            /\ \A i \in DOMAIN Received(q) : Received(q)[i] <= emitted[q] - Len(c)
            /\ q \notin lost => Received(q) = UpTo(emitted[q] - Len(c))
        BY <4>4 DEF NumbersOK, c
      <4>6. \A j \in DOMAIN d : d[j].k = (emitted'[q] - Len(d)) + j
        BY <4>2, <4>3
      <4>7. /\ emitted'[q] - Len(d) \in Nat /\ Increasing(Received(q)')
            /\ \A i \in DOMAIN Received(q)' : Received(q)'[i] <= emitted'[q] - Len(d)
            /\ q \notin lost' => Received(q)' = UpTo(emitted'[q] - Len(d))
        BY <4>1, <4>2, <4>5
      <4> QED
        BY <4>6, <4>7 DEF NumbersOK, Increasing, d
    <3>9. AnswerOK(q)'
      <4>1. reply[q] # "ok"
        BY <2>1, <2>6 DEF RequestOK, Waiting
      <4>2. StreamOK(q)'
        BY <2>1, <2>6 DEF AnswerOK, StreamOK, Buffered
      <4> QED
        BY <3>8, <4>1, <4>2 DEF AnswerOK
    <3> QED
      BY <2>4, <3>7, <3>9 DEF HandlerOK
  <2> QED
    BY <2>5, <2>6
<1> QED
  BY <1>2, <1>3

LEMMA LoopApplyStep ==
    ASSUME ServingInv, LoopApply
    PROVE  ServingInv'
<1> DEFINE state == [core |-> core, senders |-> senders]
<1>1. ServingTypes /\ CommandsOK /\ CoreOK(core) /\ drained \in Seq(Work)
  BY DEF ServingInv, ServingTypes
<1>2. /\ drained' = <<>> /\ cmds' = cmds
      /\ UNCHANGED <<pc, req, held, sent, reply, lost>>
  BY DEF LoopApply, handlerVars
<1>3. PICK refused \in SUBSET Submitted(drained) :
        LET after == ApplyAll(state, drained, refused)
        IN  \E rs \in SUBSET after.core.active :
            \E quiet \in SUBSET (after.core.active \ rs) :
            \E outs \in Outputs(after.core, rs) :
               /\ core' = Retired(Answered(after.core, outs), quiet)
               /\ Deliver(outs, after.senders)
               /\ emitted' = [r \in Requests |-> IF r \in rs THEN emitted[r] + 1 ELSE emitted[r]]
  BY DEF LoopApply
<1> DEFINE after == ApplyAll(state, drained, refused)
           c == after.core
<1>4. PICK rs \in SUBSET c.active : \E quiet \in SUBSET (c.active \ rs) :
        \E outs \in Outputs(c, rs) :
               /\ core' = Retired(Answered(c, outs), quiet)
               /\ Deliver(outs, after.senders)
               /\ emitted' = [r \in Requests |-> IF r \in rs THEN emitted[r] + 1 ELSE emitted[r]]
  BY <1>3
<1>5. PICK quiet \in SUBSET (c.active \ rs) : \E outs \in Outputs(c, rs) :
               /\ core' = Retired(Answered(c, outs), quiet)
               /\ Deliver(outs, after.senders)
               /\ emitted' = [r \in Requests |-> IF r \in rs THEN emitted[r] + 1 ELSE emitted[r]]
  BY <1>4
<1>6. PICK outs \in Outputs(c, rs) :
               /\ core' = Retired(Answered(c, outs), quiet)
               /\ Deliver(outs, after.senders)
               /\ emitted' = [r \in Requests |-> IF r \in rs THEN emitted[r] + 1 ELSE emitted[r]]
  BY <1>5
<1> DEFINE base == Tracked(core) \cup Submitted(drained)
<1>7. ApplyOK(state, base)
  BY <1>1 DEF ApplyOK, ServingInv, SendersTracked
<1>8. ApplyOK(after, base)
  <2>1. Submitted(drained) \subseteq base
    OBVIOUS
  <2>2. \A i \in DOMAIN drained : CommandOK(drained[i])
    BY <1>1 DEF CommandsOK
  <2> HIDE DEF base, state
  <2> QED
    BY <1>1, <1>7, <2>1, <2>2, ApplyAllStep
<1> HIDE DEF state, after
<1>9. /\ CoreOK(c) /\ Tracked(c) \subseteq base /\ rs \subseteq Tracked(c)
      /\ after.senders = {r \in Tracked(c) : reply[r] # "submitted"}
      /\ Tracked(c) \subseteq Requests
  BY <1>8 DEF ApplyOK, CoreOK
<1>10. /\ CoreOK(core') /\ Tracked(core') = Tracked(c) \ Finished(outs) /\ DOMAIN outs = rs
       /\ (\A r \in rs : outs[r].finish \in Finishes)
       /\ Finished(outs) = {r \in rs : outs[r].finish # "none"}
  BY <1>6, <1>9, AnsweredCore
<1>11. SendersTracked'
  BY <1>2, <1>6, <1>9, <1>10 DEF SendersTracked, Deliver
<1>12. CommandsOK'
  <2>1. Submitted(drained') = {} /\ DOMAIN drained' = {}
    BY <1>2, SubmittedEmpty
  <2>2. \A i \in DOMAIN cmds' : /\ cmds'[i].op = "add" => reply'[cmds'[i].r] = "submitted"
                                /\ cmds'[i].op = "stream" => reply'[cmds'[i].r] # "submitted"
    BY <1>1, <1>2 DEF CommandsOK, CommandOK
  <2>3. SubmittedOnce(cmds')
    BY <1>1, <1>2 DEF CommandsOK
  <2> QED
    BY <2>1, <2>2, <2>3 DEF CommandsOK, CommandOK, SubmittedOnce
<1>13. ASSUME NEW q \in Requests
       PROVE  /\ Progresses(q) /\ (InFlight(q)' => q \notin rs)
              /\ Emits(q, rs, outs) /\ (q \in rs => outs[q].finish \in Finishes)
  <2>1. RequestOK(q)
    BY DEF ServingInv
  <2>2. InFlight(q)' <=> q \in Submitted(cmds)
    BY <1>2, SubmittedEmpty DEF InFlight
  <2>3. q \in Tracked(c) => InEngine(q) /\ q \notin Submitted(cmds)
    BY <1>1, <1>9, <2>1 DEF InEngine, InFlight, RequestOK, CommandsOK
  <2>4. InFlight(q)' => InFlight(q) /\ q \notin Tracked(c)
    BY <2>2, <2>3 DEF InFlight
  <2>5. q \in Tracked(core)' => q \in Tracked(c)
    BY <1>10
  <2>6. Progresses(q)
    BY <2>3, <2>4, <2>5 DEF Progresses, InEngine
  <2>7. emitted'[q] = IF q \in rs THEN emitted[q] + 1 ELSE emitted[q]
    BY <1>6
  <2>8. q \in rs => InEngine(q) /\ (outs[q].finish # "none" => q \notin Tracked(core)')
    BY <1>9, <1>10, <2>3
  <2>9. pc[q] \in Waiting => reply[q] # "submitted"
    BY <2>1 DEF RequestOK, Waiting
  <2>10. chan'[q] = IF q \in rs \cap after.senders /\ pc[q] \in Waiting
                    THEN Append(chan[q], Number(q, outs)) ELSE chan[q]
    BY <1>6, <1>10 DEF Deliver
  <2>11. q \in rs /\ pc[q] \in Waiting => q \in after.senders
    BY <1>9, <2>9
  <2>12. Emits(q, rs, outs)
    BY <2>7, <2>8, <2>10, <2>11 DEF Emits, Number
  <2> QED
    BY <1>9, <1>10, <2>4, <2>6, <2>12
<1>14. ASSUME NEW q \in Requests
       PROVE  HandlerOK(q)'
  BY <1>2, <1>13, EmitsKeeps
<1>15. ServingTypes'
  <2>1. emitted' \in [Requests -> Nat]
    BY <1>1, <1>6 DEF ServingTypes
  <2>2. chan' \in [Requests -> Seq([k : Nat, finish : Finishes])]
    <3>1. chan' = [r \in Requests |-> chan'[r]]
      BY <1>6 DEF Deliver
    <3>2. ASSUME NEW q \in Requests
          PROVE  chan'[q] \in Seq([k : Nat, finish : Finishes])
      <4> DEFINE o == [k |-> emitted[q] + 1, finish |-> outs[q].finish]
                 S == [k : Nat, finish : Finishes]
      <4>1. chan[q] \in Seq(S) /\ emitted[q] \in Nat
        BY <1>1 DEF ServingTypes
      <4>2. q \in rs => o \in S
        BY <1>10, <4>1
      <4>3. chan'[q] = IF q \in rs /\ pc[q] \in Waiting THEN Append(chan[q], o) ELSE chan[q]
        BY <1>13 DEF Emits
      <4> HIDE DEF o, S
      <4>4. chan'[q] \in Seq(S)
        BY <4>1, <4>2, <4>3, AppendProperties
      <4> QED
        BY <4>4 DEF S
    <3> QED
      BY <3>1, <3>2
  <2>3. drained' \in Seq(Work)
    BY <1>2
  <2> QED
    BY <1>1, <1>2, <1>10, <2>1, <2>2, <2>3 DEF ServingTypes
<1> QED
  BY <1>11, <1>12, <1>14, <1>15 DEF ServingInv, HandlerOK

-----------------------------------------------------------------------------
(* The theorems.                                                           *)

LEMMA InitServing == ServingInit => ServingInv
<1> SUFFICES ASSUME ServingInit PROVE ServingInv
  OBVIOUS
<1>1. core = EmptyCore /\ cmds = <<>> /\ drained = <<>> /\ senders = {} /\ lost = {}
  BY DEF ServingInit, Init
<1>2. CoreOK(core) /\ Tracked(core) = {}
  BY <1>1 DEF EmptyCore, Tracked, CoreOK
<1>3. ServingTypes
  BY <1>1, <1>2 DEF ServingInit, ServingTypes, Replies
<1>4. Submitted(cmds) = {} /\ Submitted(drained) = {}
  BY <1>1, SubmittedEmpty
<1>5. CommandsOK
  <2>1. DOMAIN cmds = {} /\ DOMAIN drained = {}
    BY <1>1
  <2> QED
    BY <1>4, <2>1 DEF CommandsOK, SubmittedOnce
<1>6. SendersTracked
  BY <1>1, <1>2 DEF SendersTracked
<1>7. ASSUME NEW r \in Requests
      PROVE  HandlerOK(r)
  <2>1. ~InFlight(r) /\ ~InEngine(r)
    BY <1>2, <1>4 DEF InFlight, InEngine
  <2>2. pc[r] = "idle" /\ reply[r] = "none" /\ Untouched(r)
    BY <1>1 DEF ServingInit, Untouched
  <2>3. DOMAIN chan[r] = {} /\ chan[r] = <<>>
    BY <2>2 DEF Untouched
  <2> QED
    BY <2>1, <2>2, <2>3 DEF HandlerOK, RequestOK, CheckedOK, AnswerOK, Waiting
<1> QED
  BY <1>3, <1>5, <1>6, <1>7 DEF ServingInv, HandlerOK

LEMMA NextServing == ServingInv /\ [ServingNext]_serving => ServingInv'
<1> SUFFICES ASSUME ServingInv, [ServingNext]_serving PROVE ServingInv'
  OBVIOUS
<1>1. CASE EngineLoop
  BY <1>1, LoopRecvStep, LoopBusyStep, LoopDrainStep, LoopApplyStep DEF EngineLoop
<1>2. CASE ShutdownCall \/ \E r \in Requests : AbortCall(r)
  BY <1>2, NoticeSteps
<1>a. CASE HandlesDropped
  BY <1>a, ReturnStep DEF HandlesDropped
<1>3. ASSUME NEW r \in Requests, HandlerStep(r)
      PROVE  ServingInv'
  BY <1>3, HandleStep, SubmitSteps, GivingUpSteps, StreamChunkStep, StreamDecodeFailsStep,
     StreamBufferStep, BufferDecodeFailsStep, CollectStep DEF HandlerStep
<1>4. ASSUME NEW r \in Requests, Timeout(r) \/ Disconnect(r)
      PROVE  ServingInv'
  BY <1>4, GivingUpSteps
<1>5. ASSUME NEW r \in Requests, AddRequestCall(r)
      PROVE  ServingInv'
  BY <1>5, SubmitSteps
<1>6. ASSUME NEW r \in Requests, NEW p \in Profiles[r], Arrive(r, p)
      PROVE  ServingInv'
  BY <1>6, ArriveStep
<1>7. CASE UNCHANGED serving
  BY <1>7, LoopBusyStep
<1> QED
  BY <1>1, <1>2, <1>a, <1>3, <1>4, <1>5, <1>6, <1>7 DEF ServingNext

(* Commands, channels, senders, handlers and the engine core stay in step  *)
(* (async_engine.rs:120-215; server.rs:615-1124; grpc.rs:87-503).          *)
THEOREM ServingInvariant == ServingSpec => []ServingInv
<1>1. ServingInit => ServingInv
  BY InitServing
<1>2. ServingInv /\ [ServingNext]_serving => ServingInv'
  BY NextServing
<1> QED
  BY <1>1, <1>2, PTL DEF ServingSpec

(* The loop holds a sender exactly for the streamed requests the engine    *)
(* tracks (async_engine.rs:129-141, 171-203).                              *)
THEOREM SendersStayTracked == ServingSpec => []SendersTracked
<1>1. ServingInv => SendersTracked
  BY DEF ServingInv
<1> QED
  BY <1>1, ServingInvariant, PTL

LEMMA InvAdmits == ServingInv => AdmittedValid
<1> SUFFICES ASSUME ServingInv,
                    NEW r \in Submitted(cmds \o drained) \cup Tracked(core),
                    reply[r] # "submitted"
             PROVE  Admitted(r)
  BY DEF AdmittedValid, Admitted, KeyOK
<1>1. /\ cmds \in Seq(Work \cup {Shutdown}) /\ drained \in Seq(Work \cup {Shutdown})
      /\ Tracked(core) \subseteq Requests
  BY DEF ServingInv, ServingTypes, CoreOK
<1>2. InEngine(r)
  BY <1>1, SubmittedConcat DEF InEngine, InFlight
<1>3. r \in Requests
  <2>1. CASE r \in Tracked(core)
    BY <1>1, <2>1
  <2>2. CASE r \in Submitted(cmds)
    <3>1. PICK i \in DOMAIN cmds : IsSubmission(cmds[i]) /\ cmds[i].r = r
      BY <2>2, SubmittedMember
    <3>2. cmds[i] \in Work \cup {Shutdown}
      BY <1>1
    <3> QED
      BY <3>1, <3>2, CommandTarget
  <2>3. CASE r \in Submitted(drained)
    <3>1. PICK i \in DOMAIN drained : IsSubmission(drained[i]) /\ drained[i].r = r
      BY <2>3, SubmittedMember
    <3>2. drained[i] \in Work \cup {Shutdown}
      BY <1>1
    <3> QED
      BY <3>1, <3>2, CommandTarget
  <2> QED
    BY <1>2, <2>1, <2>2, <2>3 DEF InEngine, InFlight
<1> QED
  BY <1>2, <1>3 DEF ServingInv, CheckedOK

(* Whatever the endpoint, only an authorised and valid request reaches the *)
(* engine (server.rs:615-750, 961-1005; grpc.rs:87-116, 425-503).          *)
THEOREM OnlyValidAdmitted == ServingSpec => []AdmittedValid
<1>1. ServingInv => AdmittedValid
  BY InvAdmits
<1> QED
  BY <1>1, ServingInvariant, PTL

(* Work nobody waits for is what timeouts, disconnections and failed       *)
(* decodes left behind (server.rs:1122-1124).                              *)
THEOREM OrphansAreExplained == ServingSpec => []OrphansExplained
<1>1. ServingInv => OrphansExplained
  BY DEF ServingInv, ServingTypes, CoreOK, RequestOK, InEngine, Excused, OrphansExplained
<1> QED
  BY <1>1, ServingInvariant, PTL

LEMMA InvComplete == ServingInv => AnswersComplete
<1> SUFFICES ASSUME ServingInv, NEW r \in Requests
             PROVE  /\ pc[r] \in Waiting /\ r \notin lost =>
                         Received(r) \o [i \in DOMAIN chan[r] |-> chan[r][i].k] = UpTo(emitted[r])
                    /\ reply[r] = "ok" =>
                         /\ r \notin lost => sent[r] = UpTo(emitted[r])
                         /\ r \in lost => IsHttp(req[r]) /\ Streams(req[r])
                         /\ \A i, j \in DOMAIN sent[r] : i < j => sent[r][i] < sent[r][j]
                         /\ r \notin Tracked(core)
  BY DEF AnswersComplete
<1>1. ServingTypes /\ RequestOK(r) /\ AnswerOK(r)
  BY DEF ServingInv
<1>2. ASSUME reply[r] = "ok"
      PROVE  /\ r \notin lost => sent[r] = UpTo(emitted[r])
             /\ r \in lost => IsHttp(req[r]) /\ Streams(req[r])
             /\ \A i, j \in DOMAIN sent[r] : i < j => sent[r][i] < sent[r][j]
             /\ r \notin Tracked(core)
  BY <1>1, <1>2 DEF AnswerOK, LossOK, Increasing, RequestOK, InEngine, Excused
<1>3. ASSUME pc[r] \in Waiting, r \notin lost
      PROVE  Received(r) \o [i \in DOMAIN chan[r] |-> chan[r][i].k] = UpTo(emitted[r])
  <2> DEFINE c == chan[r]
             n == emitted[r]
             m == n - Len(c)
             ks == [i \in DOMAIN c |-> c[i].k]
             s == Received(r)
             u == s \o ks
  <2>1. m \in Nat /\ s = UpTo(m) /\ (\A j \in DOMAIN c : c[j].k = m + j) /\ n \in Nat
        /\ c \in Seq([k : Nat, finish : Finishes])
    BY <1>1, <1>3 DEF AnswerOK, NumbersOK, ServingTypes
  <2>a. Len(c) \in Nat /\ DOMAIN c = 1..Len(c) /\ m + Len(c) = n
    BY <2>1, LenProperties
  <2> HIDE DEF c, n, m, s
  <2>2. ks \in Seq(Nat) /\ Len(ks) = Len(c) /\ \A j \in 1..Len(c) : ks[j] = m + j
    <3>0. \A j \in 1..Len(c) : c[j].k = m + j /\ m + j \in Nat
      BY <2>1, <2>a
    <3>1. ks \in [1..Len(c) -> Nat] /\ \A j \in 1..Len(c) : ks[j] = m + j
      BY <2>a, <3>0
    <3> QED
      BY <2>a, <3>1
  <2>3. s \in Seq(Nat) /\ Len(s) = m /\ \A i \in 1..m : s[i] = i
    BY <2>1, UpToSeq
  <2> HIDE DEF ks
  <2>4. /\ u \in Seq(Nat) /\ Len(u) = m + Len(c)
        /\ \A i \in 1..(m + Len(c)) : u[i] = IF i <= m THEN s[i] ELSE ks[i - m]
    <3>1. /\ u \in Seq(Nat) /\ Len(u) = Len(s) + Len(ks)
          /\ \A i \in 1..(Len(s) + Len(ks)) : u[i] = IF i <= Len(s) THEN s[i] ELSE ks[i - Len(s)]
      BY ONLY <2>2, <2>3, ConcatProperties
    <3> HIDE DEF u
    <3> QED
      BY ONLY <2>2, <2>3, <3>1
  <2> HIDE DEF u
  <2>5. \A i \in 1..n : u[i] = i
    <3> SUFFICES ASSUME NEW i \in 1..n
                 PROVE  u[i] = i
      OBVIOUS
    <3>1. CASE i <= m
      BY <2>1, <2>3, <2>4, <2>a, <3>1
    <3>2. CASE ~(i <= m)
      <4>1. i - m \in 1..Len(c) /\ m + (i - m) = i
        BY <2>1, <2>a, <3>2
      <4> QED
        BY <2>2, <2>4, <2>a, <3>2, <4>1
    <3> QED
      BY <3>1, <3>2
  <2>6. UpTo(n) \in Seq(Nat) /\ Len(UpTo(n)) = n /\ \A i \in 1..n : UpTo(n)[i] = i
    BY <2>1, UpToSeq
  <2>7. u = UpTo(n)
    <3>1. Len(u) = n
      BY <2>4, <2>a
    <3> QED
      BY <2>4, <2>5, <2>6, <3>1, SeqEqual
  <2> QED
    BY <2>7 DEF u, ks, s, n, c
<1> QED
  BY <1>2, <1>3

(* Nothing is lost, repeated or reordered between the engine and a         *)
(* handler, and an answer that ends normally is complete, but for an HTTP  *)
(* stream that could not decode its tokens                                 *)
(* (async_engine.rs:189-200; server.rs:800-895, 1103-1122;                 *)
(* grpc.rs:166-250).                                                       *)
THEOREM AnswersStayComplete == ServingSpec => []AnswersComplete
<1>1. ServingInv => AnswersComplete
  BY InvComplete
<1> QED
  BY <1>1, ServingInvariant, PTL

=============================================================================
