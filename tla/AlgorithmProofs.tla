-------------------------- MODULE AlgorithmProofs --------------------------
(***************************************************************************)
(* The small objects of the system under every sequence of calls: the      *)
(* containers around the engine, a worker from its arguments to its cache, *)
(* the parallel plans, the detokenizer under every stream of tokens, the   *)
(* special tokens of a tokenizer, the tool calls of a chat turn and the    *)
(* drafts of a speculation, for every size, capacity and case the          *)
(* assumptions of StoreRuns and TokenRuns admit.  The loops of the code    *)
(* are recursive functions in the model; LoopExists gives them a value and *)
(* LeastFailure (SeqLemmas) takes a fact from one round to the next.       *)
(***************************************************************************)
EXTENDS Algorithms, SeqLemmas, FiniteSetTheorems

-----------------------------------------------------------------------------
(* The other parts leave these alone.                                      *)
ProvedUnits == {"queue", "offload", "copies", "turns", "overlap", "scales", "startup", "ranks",
                "text", "vocab", "calls", "draft"}

LEMMA AttentionElsewhere ==
    ASSUME "unit" \in DOMAIN st, AttentionNext
    PROVE  st.unit \notin ProvedUnits /\ st'.unit = st.unit /\ "unit" \in DOMAIN st'
<1>1. CASE AttentionStep
  BY <1>1 DEF ProvedUnits, AttentionStep, AttentionPaged, AttentionEager
<1>2. CASE AttentionCopy
  BY <1>2 DEF ProvedUnits, AttentionCopy
<1>3. CASE BlockStep
  BY <1>3 DEF ProvedUnits, BlockStep
<1> QED
  BY <1>1, <1>2, <1>3 DEF AttentionNext

LEMMA ModelElsewhere ==
    ASSUME "unit" \in DOMAIN st, ModelNext
    PROVE  st.unit \notin ProvedUnits /\ st'.unit = st.unit /\ "unit" \in DOMAIN st'
<1>1. CASE Route \/ RunExperts
  BY <1>1 DEF ProvedUnits, Route, RunExperts
<1>2. CASE QuantStore
  BY <1>2 DEF ProvedUnits, QuantStore
<1>3. CASE QuantRead
  BY <1>3 DEF ProvedUnits, QuantRead
<1>4. CASE ReadConfig
  BY <1>4 DEF ProvedUnits, ReadConfig
<1>5. CASE Fetch \/ FindFiles
  BY <1>5 DEF ProvedUnits, Fetch, FindFiles
<1>6. CASE LoseTensor
  BY <1>6 DEF ProvedUnits, LoseTensor
<1>7. CASE LoadModel \/ ExportModel
  BY <1>7 DEF ProvedUnits, LoadModel, ExportModel
<1> QED
  BY <1>1, <1>2, <1>3, <1>4, <1>5, <1>6, <1>7 DEF ModelNext

LEMMA TokenElsewhere ==
    ASSUME "unit" \in DOMAIN st, TokenNext, ~(FeedToken \/ FlushText \/ ReadVocab),
           ~(RenderTurn \/ ReadAnswer \/ ProposeDraft \/ VerifyDraft)
    PROVE  st.unit \notin ProvedUnits /\ st'.unit = st.unit /\ "unit" \in DOMAIN st'
<1>1. CASE SampleToken
  BY <1>1 DEF ProvedUnits, SampleToken
<1>2. CASE GrowPrompt
  BY <1>2 DEF ProvedUnits, GrowPrompt
<1>3. CASE AdvanceBeams
  BY <1>3 DEF ProvedUnits, AdvanceBeams
<1> QED
  BY <1>1, <1>2, <1>3 DEF TokenNext

-----------------------------------------------------------------------------
(* Loops.                                                                  *)

(* One round of a loop over the items given.                               *)
Round(x, c) ==
    IF c.op = "enqueue" THEN Enqueue(x, c.item)
    ELSE IF c.op = "plan" THEN PlanWith(x, c.item)
    ELSE IF c.op = "scales" THEN SetKvScales(x, c.item.l, c.item.k, c.item.v)
    ELSE IF c.op = "append" THEN Append(x, c.item)
    ELSE IF c.op = "fresh" THEN IF c.item \in ToSet(x) THEN x ELSE Append(x, c.item)
    ELSE IF c.op = "concat" THEN x \o c.item
    ELSE IF c.op = "skip" THEN x
    ELSE x + c.item

IsLoop(f, x, rounds, n) ==
    f = [i \in 0..n |-> IF i = 0 THEN x ELSE Round(f[i - 1], rounds[i])]

LEMMA LoopExists ==
    ASSUME NEW x, NEW rounds, NEW n \in Nat
    PROVE  \E f : IsLoop(f, x, rounds, n)
<1> DEFINE H == {k \in 0..n : \E f : IsLoop(f, x, rounds, k)}
<1>1. 0 \in H
  <2> DEFINE f == [i \in 0..0 |-> x]
  <2>1. IsLoop(f, x, rounds, 0)
    BY DEF IsLoop
  <2> QED
    BY <2>1
<1>2. ASSUME NEW k \in 1..n, k - 1 \in H
      PROVE  k \in H
  <2>1. PICK g : IsLoop(g, x, rounds, k - 1)
    BY <1>2
  <2> DEFINE f == [i \in 0..k |-> IF i = k THEN Round(g[k - 1], rounds[k]) ELSE g[i]]
  <2>2. \A i \in 0..(k - 1) : g[i] = IF i = 0 THEN x ELSE Round(g[i - 1], rounds[i])
    BY <2>1 DEF IsLoop
  <2>3. \A i \in 0..k : f[i] = IF i = 0 THEN x ELSE Round(f[i - 1], rounds[i])
    BY <2>2
  <2>4. IsLoop(f, x, rounds, k)
    BY <2>3 DEF IsLoop
  <2> QED
    BY <2>4
<1>3. H \subseteq 0..n
  OBVIOUS
<1> HIDE DEF H
<1>4. H = 0..n
  BY <1>1, <1>2, <1>3, LeastFailure
<1> QED
  BY <1>4 DEF H

-----------------------------------------------------------------------------
(* Sequences of numbers in increasing order.                               *)

Increasing(s) == \A i, j \in DOMAIN s : i < j => s[i] < s[j]

LEMMA ConcatElements ==
    ASSUME NEW V, NEW s \in Seq(V), NEW t \in Seq(V)
    PROVE  ToSet(s \o t) = ToSet(s) \cup ToSet(t)
<1> DEFINE u == s \o t
           m == Len(s)
           n == Len(t)
<1>1. /\ u \in Seq(V) /\ Len(u) = m + n /\ m \in Nat /\ n \in Nat
      /\ \A i \in 1..(m + n) : u[i] = IF i <= m THEN s[i] ELSE t[i - m]
  BY ConcatProperties, LenProperties
<1>2. DOMAIN u = 1..(m + n) /\ DOMAIN s = 1..m /\ DOMAIN t = 1..n
  BY <1>1, LenProperties
<1> HIDE DEF u, m, n
<1>3. ToSet(u) \subseteq ToSet(s) \cup ToSet(t)
  <2> SUFFICES ASSUME NEW i \in 1..(m + n) PROVE u[i] \in ToSet(s) \cup ToSet(t)
    BY <1>2 DEF ToSet
  <2>1. CASE i <= m
    BY <1>1, <1>2, <2>1 DEF ToSet
  <2>2. CASE i > m
    <3>1. i - m \in 1..n /\ u[i] = t[i - m]
      BY <1>1, <2>2
    <3> QED
      BY <1>2, <3>1 DEF ToSet
  <2> QED
    BY <1>1, <2>1, <2>2
<1>4. ToSet(s) \subseteq ToSet(u)
  <2> SUFFICES ASSUME NEW i \in 1..m PROVE s[i] \in ToSet(u)
    BY <1>2 DEF ToSet
  <2>1. i \in 1..(m + n) /\ u[i] = s[i]
    BY <1>1
  <2> QED
    BY <1>2, <2>1 DEF ToSet
<1>5. ToSet(t) \subseteq ToSet(u)
  <2> SUFFICES ASSUME NEW i \in 1..n PROVE t[i] \in ToSet(u)
    BY <1>2 DEF ToSet
  <2>1. i + m \in 1..(m + n) /\ u[i + m] = t[i]
    BY <1>1
  <2> QED
    BY <1>2, <2>1 DEF ToSet
<1> QED
  BY <1>3, <1>4, <1>5 DEF u

LEMMA ConcatIncreasing ==
    ASSUME NEW s \in Seq(Nat), NEW t \in Seq(Nat), Increasing(s), Increasing(t),
           \A a \in ToSet(s), b \in ToSet(t) : a < b
    PROVE  Increasing(s \o t)
<1> DEFINE u == s \o t
           m == Len(s)
           n == Len(t)
<1>1. /\ u \in Seq(Nat) /\ Len(u) = m + n /\ m \in Nat /\ n \in Nat
      /\ \A i \in 1..(m + n) : u[i] = IF i <= m THEN s[i] ELSE t[i - m]
  BY ConcatProperties, LenProperties
<1>2. DOMAIN u = 1..(m + n) /\ DOMAIN s = 1..m /\ DOMAIN t = 1..n
  BY <1>1, LenProperties
<1>3. \A i \in 1..m, j \in 1..n : s[i] < t[j]
  BY <1>2 DEF ToSet
<1> HIDE DEF u, m, n
<1>4. ASSUME NEW i \in 1..(m + n), NEW j \in 1..(m + n), i < j
      PROVE  u[i] < u[j]
  <2>1. CASE j <= m
    <3>1. i \in 1..m /\ j \in 1..m /\ u[i] = s[i] /\ u[j] = s[j]
      BY <1>1, <1>4, <2>1
    <3> QED
      BY <1>2, <1>4, <3>1 DEF Increasing
  <2>2. CASE i <= m /\ j > m
    <3>1. i \in 1..m /\ j - m \in 1..n /\ u[i] = s[i] /\ u[j] = t[j - m]
      BY <1>1, <2>2
    <3> QED
      BY <1>3, <3>1
  <2>3. CASE i > m
    <3>0. m \in Nat /\ n \in Nat
      BY <1>1
    <3>1. i - m \in 1..n /\ j - m \in 1..n /\ i - m < j - m /\ ~(i <= m) /\ ~(j <= m)
      BY <1>4, <2>3, <3>0
    <3>2. u[i] = t[i - m] /\ u[j] = t[j - m]
      BY <1>1, <3>1
    <3> QED
      BY <1>2, <3>1, <3>2 DEF Increasing
  <2> QED
    BY <1>1, <2>1, <2>2, <2>3
<1>5. Increasing(u)
  BY <1>2, <1>4 DEF Increasing
<1> QED
  BY <1>5 DEF u

-----------------------------------------------------------------------------
(* The batch queue.                                                        *)

Queues == [pending : Seq(Nat), capacity : Nat, strategy : STRING, size : Nat,
           enqueued : Nat, drained : Nat]

QueueStates == [unit : {"queue"}, q : Queues, next : Nat, accepted : Seq(Nat),
                out : Seq(Nat), removed : SUBSET Nat, room : Nat]

(* Handed out or pending are the accepted ones that nobody withdrew;       *)
(* numbers are given in the order of arrival, so that the order kept is    *)
(* the order of the numbers.                                               *)
KeptIs(out, pending, accepted, removed, next) ==
    /\ ToSet(out \o pending) = ToSet(accepted) \ removed
    /\ Increasing(out \o pending)
    /\ ToSet(accepted) \subseteq 1..(next - 1)
    /\ removed \subseteq 1..(next - 1)

Counts(q, accepted, room) ==
    /\ q.enqueued = Len(accepted)
    /\ q.enqueued = q.drained + Len(q.pending)
    /\ Len(q.pending) <= room /\ q.capacity <= room

QueueInv(s) ==
    /\ s \in QueueStates
    /\ KeptIs(s.out, s.q.pending, s.accepted, s.removed, s.next)
    /\ Counts(s.q, s.accepted, s.room)
    /\ s.next >= 1

LEMMA QueueStartOK ==
    ASSUME NEW c \in QueueCases
    PROVE  QueueInv(QueueStart(c))
<1>1. c.size \in Nat /\ c.capacity \in Nat /\ c.strategy \in STRING
  BY ContainersTyped
<1> DEFINE s == QueueStart(c)
<1>2. s \in QueueStates
  BY <1>1 DEF QueueStart, QueueStates, Queues, NewBatchQueue
<1>3. s.q.pending = <<>> /\ s.out = <<>> /\ s.accepted = <<>> /\ s.removed = {} /\ s.q.enqueued = 0
      /\ s.q.drained = 0 /\ s.next = 1 /\ s.q.capacity \in Nat /\ s.room = s.q.capacity
  BY <1>1 DEF QueueStart, NewBatchQueue
<1> HIDE DEF s
<1>4. <<>> \o <<>> = <<>> /\ ToSet(<<>>) = {} /\ Increasing(<<>>) /\ Len(<<>>) = 0
  BY DEF ToSet, Increasing
<1>5. KeptIs(<<>>, <<>>, <<>>, {}, 1) /\ Counts(s.q, <<>>, s.room)
  BY <1>3, <1>4 DEF KeptIs, Counts
<1>6. QueueInv(s)
  BY <1>2, <1>3, <1>5 DEF QueueInv
<1> QED
  BY <1>6 DEF s

(* The queue after the first k of some requests.                           *)
Grown(q, rs, k) ==
    [q EXCEPT !.pending = @ \o SubSeq(rs, 1, k), !.enqueued = @ + k]

GrownBy(g, q, rs, new, k) ==
    /\ g \in Queues
    /\ g.pending = q.pending \o new /\ g.enqueued = q.enqueued + k
    /\ g.drained = q.drained /\ g.capacity = q.capacity
    /\ new \in Seq(Nat) /\ Len(new) = k
    /\ \A i \in 1..k : new[i] = rs[i]
    /\ Len(g.pending) = Len(q.pending) + k

LEMMA GrownFields ==
    ASSUME NEW q \in Queues, NEW rs \in Seq(Nat), NEW k \in 0..Len(rs)
    PROVE  GrownBy(Grown(q, rs, k), q, rs, SubSeq(rs, 1, k), k)
<1> DEFINE new == SubSeq(rs, 1, k)
<1>0. Len(rs) \in Nat /\ k \in Nat /\ \A i \in 1..k : rs[i] \in Nat
  OBVIOUS
<1>1. new \in Seq(Nat) /\ Len(new) = k /\ \A i \in 1..k : new[i] = rs[i]
  BY <1>0, SubSeqProperties
<1> HIDE DEF new
<1>2. q.pending \in Seq(Nat) /\ q.enqueued \in Nat
  BY DEF Queues
<1>3. q.pending \o new \in Seq(Nat) /\ Len(q.pending \o new) = Len(q.pending) + k
  BY <1>1, <1>2, ConcatProperties
<1>4. Grown(q, rs, k) = [q EXCEPT !.pending = q.pending \o new, !.enqueued = q.enqueued + k]
  BY DEF Grown, new
<1>5. q.enqueued + k \in Nat
  BY <1>0, <1>2
<1> DEFINE g == [q EXCEPT !.pending = q.pending \o new, !.enqueued = q.enqueued + k]
<1>6. /\ g \in Queues /\ g.pending = q.pending \o new /\ g.enqueued = q.enqueued + k
      /\ g.drained = q.drained /\ g.capacity = q.capacity
  BY <1>3, <1>5 DEF Queues
<1> HIDE DEF g
<1> QED
  BY <1>1, <1>3, <1>4, <1>6 DEF g, new, GrownBy

LEMMA EnqueueOne ==
    ASSUME NEW q \in Queues, NEW rs \in Seq(Nat), NEW k \in 1..Len(rs),
           ~Full(Grown(q, rs, k - 1))
    PROVE  /\ Enqueue(Grown(q, rs, k - 1), rs[k]) = Grown(q, rs, k)
           /\ Len(q.pending) + k <= q.capacity
<1> DEFINE g == Grown(q, rs, k - 1)
           s == SubSeq(rs, 1, k - 1)
           t == SubSeq(rs, 1, k)
<1>0. k - 1 \in 0..Len(rs) /\ k \in 0..Len(rs) /\ rs[k] \in Nat /\ Len(rs) \in Nat /\ k \in Nat
  OBVIOUS
<1>1. /\ g \in Queues /\ g.pending = q.pending \o s /\ g.enqueued = q.enqueued + (k - 1)
      /\ g.capacity = q.capacity /\ s \in Seq(Nat) /\ Len(g.pending) = Len(q.pending) + (k - 1)
  <2>1. GrownBy(g, q, rs, s, k - 1)
    BY <1>0, GrownFields
  <2> HIDE DEF g, s
  <2> QED
    BY <2>1 DEF GrownBy
<1>2. t = Append(s, rs[k])
  <2>1. t = s \o <<rs[k]>>
    BY <1>0, SubSeqRecursiveSecond
  <2>2. Append(s, rs[k]) = s \o <<rs[k]>>
    BY <1>0, <1>1, AppendIsConcat
  <2> QED
    BY <2>1, <2>2
<1>3. q.pending \in Seq(Nat) /\ q.enqueued \in Nat /\ q.capacity \in Nat
  BY DEF Queues
<1> HIDE DEF s, t
<1>4. q.pending \o t = Append(q.pending \o s, rs[k])
  <2>1. s \in Seq(Nat) /\ rs[k] \in Nat /\ q.pending \in Seq(Nat)
    BY <1>0, <1>1, <1>3
  <2>2. \A a, b \in Seq(Nat) : \A r \in Nat : a \o Append(b, r) = Append(a \o b, r)
    BY ConcatAppend, SMTT(60)
  <2>3. q.pending \o Append(s, rs[k]) = Append(q.pending \o s, rs[k])
    BY <2>1, <2>2
  <2> QED
    BY <1>2, <2>3
<1>5. g = [q EXCEPT !.pending = q.pending \o s, !.enqueued = q.enqueued + (k - 1)]
  BY DEF Grown, s
<1>6. Grown(q, rs, k) = [q EXCEPT !.pending = q.pending \o t, !.enqueued = q.enqueued + k]
  BY DEF Grown, t
<1>7. [g EXCEPT !.pending = Append(g.pending, rs[k]), !.enqueued = g.enqueued + 1] = Grown(q, rs, k)
  <2>1. g.enqueued + 1 = q.enqueued + k
    BY <1>0, <1>1, <1>3
  <2>2. Append(g.pending, rs[k]) = q.pending \o t
    BY <1>1, <1>4
  <2> DEFINE p == q.pending \o t
             e == q.enqueued + k
             p0 == q.pending \o s
             e0 == q.enqueued + (k - 1)
  <2>3. \A a, b, c, d : [[q EXCEPT !.pending = a, !.enqueued = b] EXCEPT !.pending = c, !.enqueued = d]
                      = [q EXCEPT !.pending = c, !.enqueued = d]
    BY DEF Queues
  <2> QED
    BY <1>5, <1>6, <2>1, <2>2, <2>3
<1>8. Enqueue(g, rs[k]) = [g EXCEPT !.pending = Append(g.pending, rs[k]), !.enqueued = g.enqueued + 1]
  BY DEF Enqueue
<1>9. Len(q.pending) + k <= q.capacity
  <2>1. ~(Len(g.pending) >= g.capacity)
    BY DEF Full
  <2>2. Len(q.pending) \in Nat
    BY <1>3
  <2> QED
    BY <1>0, <1>1, <1>3, <2>1, <2>2
<1> QED
  BY <1>7, <1>8, <1>9

(* A burst is taken in up to the capacity, or not at all.                  *)
LEMMA EnqueueBurst ==
    ASSUME NEW q \in Queues, NEW rs \in Seq(Nat), NEW room \in Nat,
           Len(q.pending) <= room, q.capacity <= room
    PROVE  \E k \in 0..Len(rs) :
              EnqueueAll(q, rs) = Grown(q, rs, k) /\ Len(q.pending) + k <= room
<1> DEFINE n == Len(rs)
           rounds == [i \in 1..n |-> [op |-> "enqueue", item |-> rs[i]]]
           Rec(f) == f = [i \in 0..n |-> IF i = 0 THEN q ELSE Enqueue(f[i - 1], rs[i])]
           run == CHOOSE f : Rec(f)
<1>0. n \in Nat
  OBVIOUS
<1>1. \A i \in 1..n : \A x : Round(x, rounds[i]) = Enqueue(x, rs[i])
  BY DEF Round
<1>2. PICK f : IsLoop(f, q, rounds, n)
  BY <1>0, LoopExists
<1>3. Rec(f)
  <2>1. f = [i \in 0..n |-> IF i = 0 THEN q ELSE Round(f[i - 1], rounds[i])]
    BY <1>2 DEF IsLoop
  <2>2. \A i \in 0..n : i # 0 => i \in 1..n
    BY <1>0
  <2> HIDE DEF rounds, n
  <2>3. \A i \in 0..n : f[i] = IF i = 0 THEN q ELSE Enqueue(f[i - 1], rs[i])
    BY <1>1, <2>1, <2>2
  <2> QED
    BY <2>1, <2>3
<1>4. Rec(run)
  <2> HIDE DEF Rec
  <2> QED
    BY <1>3
<1>5. EnqueueAll(q, rs) = run[n]
  BY DEF EnqueueAll
<1>6. run[0] = q /\ \A i \in 1..n : run[i] = Enqueue(run[i - 1], rs[i])
  <2> HIDE DEF run
  <2> QED
    BY <1>0, <1>4, SMTT(60)
<1> HIDE DEF run, n
<1> DEFINE TakenIn(i) == \E k \in 0..i : /\ run[i] = Grown(q, rs, k) /\ Len(q.pending) + k <= room
                                         /\ k = i \/ Full(Grown(q, rs, k))
           H == {i \in 0..n : TakenIn(i)}
<1>7. 0 \in H
  <2>1. q = Grown(q, rs, 0)
    <3>1. SubSeq(rs, 1, 0) = <<>>
      BY SubSeqEmpty
    <3>2. q.pending \in Seq(Nat) /\ q.pending \o <<>> = q.pending /\ q.enqueued + 0 = q.enqueued
      BY ConcatEmptySeq DEF Queues
    <3>3. q = [q EXCEPT !.pending = q.pending, !.enqueued = q.enqueued]
      BY DEF Queues
    <3> QED
      BY <3>1, <3>2, <3>3 DEF Grown
  <2>2. Len(q.pending) + 0 <= room
    BY DEF Queues
  <2> QED
    BY <1>0, <1>6, <2>1, <2>2
<1>8. ASSUME NEW i \in 1..n, i - 1 \in H
      PROVE  i \in H
  <2>0. n = Len(rs) /\ i \in 0..n /\ i - 1 \in 0..n /\ n \in Nat
    BY <1>0 DEF n
  <2>1. PICK k \in 0..(i - 1) : /\ run[i - 1] = Grown(q, rs, k) /\ Len(q.pending) + k <= room
                                /\ k = i - 1 \/ Full(Grown(q, rs, k))
    BY <1>8
  <2>2. run[i] = Enqueue(Grown(q, rs, k), rs[i])
    BY <1>6, <2>1
  <2>3. CASE Full(Grown(q, rs, k))
    <3>1. Enqueue(Grown(q, rs, k), rs[i]) = Grown(q, rs, k)
      BY <2>3 DEF Enqueue
    <3>2. k \in 0..i
      BY <2>0
    <3> QED
      BY <2>0, <2>1, <2>2, <2>3, <3>1, <3>2
  <2>4. CASE ~Full(Grown(q, rs, k))
    <3>1. k = i - 1 /\ i \in 1..Len(rs)
      BY <2>0, <2>1, <2>4
    <3>2. ~Full(Grown(q, rs, i - 1))
      BY <2>4, <3>1
    <3>3. Enqueue(Grown(q, rs, i - 1), rs[i]) = Grown(q, rs, i) /\ Len(q.pending) + i <= q.capacity
      BY <3>1, <3>2, EnqueueOne
    <3>4. i \in 0..i
      BY <2>0
    <3>5. Len(q.pending) \in Nat /\ q.capacity \in Nat
      BY DEF Queues
    <3>6. Len(q.pending) + i <= room
      BY <2>0, <3>3, <3>5
    <3> QED
      BY <2>0, <2>2, <3>1, <3>3, <3>4, <3>6
  <2> QED
    BY <2>3, <2>4
<1>9. H \subseteq 0..n
  OBVIOUS
<1> HIDE DEF H
<1>10. H = 0..n
  BY <1>0, <1>7, <1>8, <1>9, LeastFailure
<1>11. TakenIn(n)
  BY <1>0, <1>10 DEF H
<1> QED
  BY <1>5, <1>11 DEF n

LEMMA ConcatThree ==
    \A a, b, c \in Seq(Nat) : (a \o b) \o c = a \o (b \o c)
OBVIOUS

(* What is kept when a burst of the next numbers is taken in.              *)
NumberedFrom(new, m, n) == Len(new) <= n /\ \A i \in 1..Len(new) : new[i] = m + i - 1

LEMMA KeptGrows ==
    ASSUME NEW out \in Seq(Nat), NEW p \in Seq(Nat), NEW acc \in Seq(Nat), NEW new \in Seq(Nat),
           NEW gone, NEW m \in Nat, NEW n \in Nat, m >= 1,
           KeptIs(out, p, acc, gone, m), NumberedFrom(new, m, n)
    PROVE  KeptIs(out, p \o new, acc \o new, gone, m + n)
<1> USE DEF KeptIs, NumberedFrom
<1> DEFINE kept == out \o p
           all == acc \o new
<1>1. all \in Seq(Nat) /\ Len(all) = Len(acc) + Len(new) /\ kept \in Seq(Nat)
  BY ConcatProperties
<1>2. ToSet(all) = ToSet(acc) \cup ToSet(new)
  BY ConcatElements
<1>3. out \o (p \o new) = kept \o new
  BY ConcatThree
<1>4. Len(new) \in Nat /\ DOMAIN new = 1..Len(new)
  BY LenProperties
<1>5. \A i \in 1..Len(new) : new[i] \in m..(m + n - 1)
  <2> DEFINE h == Len(new)
  <2>1. \A i \in 1..h : m + i - 1 \in m..(m + n - 1)
    BY <1>4
  <2> QED
    BY <2>1
<1>6. ToSet(new) \subseteq m..(m + n - 1)
  BY <1>4, <1>5 DEF ToSet
<1>61. ToSet(kept) \subseteq 1..(m - 1) /\ ToSet(kept) = ToSet(acc) \ gone /\ Increasing(kept)
       /\ gone \subseteq 1..(m - 1) /\ ToSet(acc) \subseteq 1..(m - 1)
       /\ \A i \in 1..Len(new) : new[i] = m + i - 1
  OBVIOUS
<1> HIDE DEF kept, all, KeptIs, NumberedFrom
<1>7. ToSet(kept \o new) = ToSet(kept) \cup ToSet(new)
  BY <1>1, ConcatElements
<1>8. Increasing(new)
  <2> SUFFICES ASSUME NEW i \in 1..Len(new), NEW j \in 1..Len(new), i < j PROVE new[i] < new[j]
    BY <1>4 DEF Increasing
  <2> DEFINE h == Len(new)
  <2>1. m + i - 1 < m + j - 1
    BY <1>4
  <2> QED
    BY <1>61, <2>1
<1>9. ToSet(kept) \subseteq 1..(m - 1) /\ ToSet(kept) = ToSet(acc) \ gone /\ Increasing(kept)
  BY <1>61
<1>10. \A a \in 1..(m - 1), b \in m..(m + n - 1) : a < b
  OBVIOUS
<1>11. \A a \in ToSet(kept), b \in ToSet(new) : a < b
  BY <1>6, <1>9, <1>10
<1>12. Increasing(kept \o new)
  BY <1>1, <1>8, <1>9, <1>11, ConcatIncreasing
<1>13. 1..(m - 1) \subseteq 1..(m + n - 1) /\ m..(m + n - 1) \subseteq 1..(m + n - 1)
       /\ (1..(m - 1)) \cap (m..(m + n - 1)) = {}
  OBVIOUS
<1>14. ToSet(kept \o new) = ToSet(all) \ gone
  BY <1>2, <1>6, <1>7, <1>9, <1>13, <1>61
<1>15. ToSet(all) \subseteq 1..(m + n - 1) /\ gone \subseteq 1..(m + n - 1)
  BY <1>2, <1>6, <1>13, <1>61
<1> QED
  BY <1>3, <1>12, <1>14, <1>15 DEF all, KeptIs

(* What is kept when one of the pending requests is withdrawn.             *)
LEMMA KeptShrinks ==
    ASSUME NEW out \in Seq(Nat), NEW p \in Seq(Nat), NEW i \in 1..Len(p), Increasing(out \o p)
    PROVE  /\ ToSet(out \o RemoveAt(p, i)) = ToSet(out \o p) \ {p[i]}
           /\ Increasing(out \o RemoveAt(p, i))
<1> DEFINE q == RemoveAt(p, i)
           m == Len(out)
           h == Len(p)
           u == out \o p
           v == out \o q
<1>1. q \in Seq(Nat) /\ Len(q) = h - 1 /\ \A k \in 1..(h - 1) : q[k] = IF k < i THEN p[k] ELSE p[k + 1]
  BY RemoveAtProperties
<1>2. m \in Nat /\ h \in Nat /\ i \in 1..h /\ h - 1 \in Nat
  OBVIOUS
<1>3. /\ u \in Seq(Nat) /\ Len(u) = m + h
      /\ \A k \in 1..(m + h) : u[k] = IF k <= m THEN out[k] ELSE p[k - m]
  BY ConcatProperties
<1> HIDE DEF q
<1>4. /\ v \in Seq(Nat) /\ Len(v) = m + (h - 1)
      /\ \A k \in 1..(m + (h - 1)) : v[k] = IF k <= m THEN out[k] ELSE q[k - m]
  <2>1. q \in Seq(Nat) /\ Len(q) = h - 1
    BY <1>1
  <2>2. /\ v \in Seq(Nat) /\ Len(v) = m + Len(q)
        /\ \A k \in 1..(m + Len(q)) : v[k] = IF k <= m THEN out[k] ELSE q[k - m]
    BY <2>1, ConcatProperties
  <2> HIDE DEF v, m, h
  <2> QED
    BY <2>1, <2>2
<1>5. DOMAIN u = 1..(m + h) /\ DOMAIN v = 1..(m + (h - 1))
  BY <1>3, <1>4, LenProperties
<1> HIDE DEF u, v, m, h
<1>6. ASSUME NEW k \in 1..(m + (h - 1))
      PROVE  v[k] = u[IF k < m + i THEN k ELSE k + 1]
  <2>1. CASE k <= m
    <3>1. k \in 1..(m + h) /\ k < m + i
      BY <1>2, <2>1
    <3> QED
      BY <1>3, <1>4, <2>1, <3>1
  <2>2. CASE k > m /\ k < m + i
    <3>1. k \in 1..(m + h) /\ ~(k <= m) /\ k - m \in 1..(h - 1) /\ k - m < i
      BY <1>2, <2>2
    <3>2. v[k] = q[k - m] /\ q[k - m] = p[k - m] /\ u[k] = p[k - m]
      BY <1>1, <1>3, <1>4, <3>1
    <3> QED
      BY <2>2, <3>2
  <2>3. CASE k > m /\ ~(k < m + i)
    <3>1. k + 1 \in 1..(m + h) /\ ~(k <= m) /\ ~(k + 1 <= m) /\ k - m \in 1..(h - 1) /\ ~(k - m < i)
          /\ (k + 1) - m = (k - m) + 1
      BY <1>2, <2>3
    <3>2. v[k] = q[k - m] /\ q[k - m] = p[(k - m) + 1] /\ u[k + 1] = p[(k + 1) - m]
      BY <1>1, <1>3, <1>4, <3>1
    <3> QED
      BY <2>3, <3>1, <3>2
  <2> QED
    BY <1>2, <2>1, <2>2, <2>3
<1>7. m + i \in 1..(m + h) /\ u[m + i] = p[i]
  <2>1. m + i \in 1..(m + h) /\ ~(m + i <= m) /\ (m + i) - m = i
    BY <1>2
  <2> QED
    BY <1>3, <2>1
<1> DEFINE at(k) == IF k < m + i THEN k ELSE k + 1
<1>8. \A k \in 1..(m + (h - 1)) : at(k) \in 1..(m + h) /\ at(k) # m + i
  BY <1>2
<1>9. \A k, l \in 1..(m + (h - 1)) : k < l => at(k) < at(l)
  BY <1>2
<1>10. \A j \in 1..(m + h) : j # m + i => \E k \in 1..(m + (h - 1)) : at(k) = j
  <2> SUFFICES ASSUME NEW j \in 1..(m + h), j # m + i
               PROVE  \E k \in 1..(m + (h - 1)) : at(k) = j
    OBVIOUS
  <2>1. CASE j < m + i
    <3>1. j \in 1..(m + (h - 1)) /\ at(j) = j
      BY <1>2, <2>1
    <3> QED
      BY <3>1
  <2>2. CASE j > m + i
    <3>1. j - 1 \in 1..(m + (h - 1)) /\ at(j - 1) = j
      BY <1>2, <2>2
    <3> QED
      BY <3>1
  <2> QED
    BY <1>2, <2>1, <2>2
<1>11. \A k \in 1..(m + (h - 1)) : v[k] = u[at(k)]
  BY <1>6
<1> HIDE DEF at
<1>12. \A j, k \in 1..(m + h) : j # k => u[j] # u[k]
  <2>1. \A j, k \in 1..(m + h) : j < k => u[j] < u[k]
    BY <1>5 DEF Increasing, u
  <2>2. \A j \in 1..(m + h) : u[j] \in Nat
    BY <1>3, <1>5, ElementOfSeq
  <2> QED
    BY <1>2, <2>1, <2>2
<1>13. Increasing(v)
  <2>1. \A j, k \in 1..(m + h) : j < k => u[j] < u[k]
    BY <1>5 DEF Increasing, u
  <2> QED
    BY <1>5, <1>8, <1>9, <1>11, <2>1 DEF Increasing
<1>14. ToSet(v) = ToSet(u) \ {p[i]}
  <2>1. ToSet(v) = {v[k] : k \in 1..(m + (h - 1))} /\ ToSet(u) = {u[k] : k \in 1..(m + h)}
    BY <1>5 DEF ToSet
  <2>2. \A k \in 1..(m + (h - 1)) : v[k] \in ToSet(u) /\ v[k] # p[i]
    BY <1>7, <1>8, <1>11, <1>12, <2>1
  <2>3. \A j \in 1..(m + h) : u[j] # p[i] => u[j] \in ToSet(v)
    BY <1>7, <1>10, <1>11, <2>1
  <2> QED
    BY <2>1, <2>2, <2>3
<1> QED
  BY <1>13, <1>14 DEF q, u, v

(* What a burst of n requests, numbered from m on, does to the queue.      *)
Numbers(m, n) == [i \in 1..n |-> m + i - 1]

Burst(q, m, n) == IF n = 1 THEN Enqueue(q, m) ELSE EnqueueAll(q, Numbers(m, n))

LEMMA BurstGrows ==
    ASSUME NEW q \in Queues, NEW m \in Nat, m >= 1, NEW n \in Nat, n >= 1,
           NEW room \in Nat, Len(q.pending) <= room, q.capacity <= room
    PROVE  \E k \in 0..n : Burst(q, m, n) = Grown(q, Numbers(m, n), k) /\ Len(q.pending) + k <= room
<1> DEFINE rs == Numbers(m, n)
<1>2. q.pending \in Seq(Nat) /\ q.enqueued \in Nat /\ q.capacity \in Nat /\ Len(q.pending) \in Nat
  BY DEF Queues
<1>4. rs \in Seq(Nat) /\ Len(rs) = n /\ \A i \in 1..n : rs[i] = m + i - 1
  <2>1. \A i \in 1..n : m + i - 1 \in Nat
    OBVIOUS
  <2>2. rs \in [1..n -> Nat]
    BY <2>1 DEF Numbers
  <2> QED
    BY <2>2, SeqDef DEF Numbers
<1> HIDE DEF rs
<1>5. CASE n = 1
  <2>1. Burst(q, m, n) = Enqueue(q, m) /\ rs[1] = m /\ 1 \in 1..Len(rs) /\ 0 = 1 - 1
    BY <1>2, <1>4, <1>5 DEF Burst
  <2>2. Grown(q, rs, 0) = q
    <3>1. SubSeq(rs, 1, 0) = <<>>
      BY SubSeqEmpty
    <3>2. q.pending \o <<>> = q.pending /\ q.enqueued + 0 = q.enqueued
      BY <1>2, ConcatEmptySeq
    <3>3. q = [q EXCEPT !.pending = q.pending, !.enqueued = q.enqueued]
      BY DEF Queues
    <3> QED
      BY <3>1, <3>2, <3>3 DEF Grown
  <2>3. CASE Full(q)
    <3>1. Burst(q, m, n) = q
      BY <2>1, <2>3 DEF Enqueue
    <3>2. 0 \in 0..n /\ Len(q.pending) + 0 <= room
      BY <1>2
    <3> QED
      BY <2>2, <3>1, <3>2 DEF rs
  <2>4. CASE ~Full(q)
    <3>1. ~Full(Grown(q, rs, 1 - 1)) /\ Grown(q, rs, 1 - 1) = q
      BY <2>1, <2>2, <2>4
    <3>2. Enqueue(Grown(q, rs, 1 - 1), rs[1]) = Grown(q, rs, 1) /\ Len(q.pending) + 1 <= q.capacity
      BY <1>2, <1>4, <2>1, <3>1, EnqueueOne
    <3>3. 1 \in 0..n
      BY <1>5
    <3>4. Len(q.pending) + 1 <= room
      BY <1>2, <3>2
    <3> QED
      BY <2>1, <3>1, <3>2, <3>3, <3>4 DEF rs
  <2> QED
    BY <2>3, <2>4
<1>6. CASE n # 1
  <2>1. Burst(q, m, n) = EnqueueAll(q, rs)
    BY <1>6 DEF Burst, rs
  <2>2. \E k \in 0..Len(rs) : EnqueueAll(q, rs) = Grown(q, rs, k) /\ Len(q.pending) + k <= room
    BY <1>4, EnqueueBurst
  <2> QED
    BY <1>4, <2>1, <2>2 DEF rs
<1> QED
  BY <1>5, <1>6

(* The queue g after a burst: q with new at its end.                       *)
BurstIs(g, q, new, m, n, room) ==
    /\ g \in Queues /\ g.pending = q.pending \o new
    /\ g.enqueued = q.enqueued + Len(new) /\ g.drained = q.drained
    /\ SubSeq(Numbers(m, n), 1, g.enqueued - q.enqueued) = new
    /\ Len(g.pending) = Len(q.pending) + Len(new)
    /\ Len(g.pending) <= room /\ g.capacity <= room

LEMMA BurstTaken ==
    ASSUME NEW q \in Queues, NEW m \in Nat, m >= 1, NEW n \in Nat, n >= 1,
           NEW room \in Nat, Len(q.pending) <= room, q.capacity <= room
    PROVE  \E new \in Seq(Nat) : BurstIs(Burst(q, m, n), q, new, m, n, room) /\ NumberedFrom(new, m, n)
<1> DEFINE rs == Numbers(m, n)
<1>1. rs \in Seq(Nat) /\ Len(rs) = n /\ \A i \in 1..n : rs[i] = m + i - 1
  <2>1. \A i \in 1..n : m + i - 1 \in Nat
    OBVIOUS
  <2>2. rs \in [1..n -> Nat]
    BY <2>1 DEF Numbers
  <2> QED
    BY <2>2, SeqDef DEF Numbers
<1>2. PICK k \in 0..n : Burst(q, m, n) = Grown(q, rs, k) /\ Len(q.pending) + k <= room
  BY BurstGrows
<1> HIDE DEF rs
<1> DEFINE new == SubSeq(rs, 1, k)
           g == Grown(q, rs, k)
<1>3. k \in 0..Len(rs) /\ rs \in Seq(Nat) /\ q.enqueued \in Nat /\ k \in Nat
  BY <1>1 DEF Queues
<1>4. GrownBy(g, q, rs, new, k)
  BY <1>3, GrownFields
<1>5. g.enqueued - q.enqueued = k
  <2>1. g.enqueued = q.enqueued + k
    BY <1>4 DEF GrownBy
  <2> QED
    BY <1>3, <2>1
<1>6. SubSeq(rs, 1, g.enqueued - q.enqueued) = new
  BY <1>5
<1> HIDE DEF new, g
<1>7. \A i \in 1..k : i \in 1..n
  BY <1>3
<1>8. NumberedFrom(new, m, n)
  BY <1>1, <1>3, <1>4, <1>7 DEF GrownBy, NumberedFrom
<1>9. Len(g.pending) <= room /\ g.capacity <= room
  BY <1>2, <1>3, <1>4 DEF GrownBy
<1>10. Burst(q, m, n) = g
  BY <1>2 DEF g
<1>11. BurstIs(g, q, new, m, n, room) /\ new \in Seq(Nat)
  BY <1>4, <1>6, <1>9 DEF rs, BurstIs, GrownBy
<1> QED
  BY <1>8, <1>10, <1>11

LEMMA BurstCounts ==
    ASSUME NEW q \in Queues, NEW acc \in Seq(Nat), NEW new \in Seq(Nat), NEW m, NEW n, NEW g, NEW room,
           Counts(q, acc, room), BurstIs(g, q, new, m, n, room)
    PROVE  Counts(g, acc \o new, room)
<1>1. Len(acc \o new) = Len(acc) + Len(new) /\ Len(new) \in Nat /\ Len(acc) \in Nat
  BY ConcatProperties
<1>2. q.enqueued \in Nat /\ q.drained \in Nat /\ Len(q.pending) \in Nat
  BY DEF Queues
<1> DEFINE all == acc \o new
<1> HIDE DEF all
<1>3. Len(all) = Len(acc) + Len(new)
  BY <1>1 DEF all
<1>4. /\ g.enqueued = q.enqueued + Len(new) /\ g.drained = q.drained
      /\ Len(g.pending) = Len(q.pending) + Len(new) /\ Len(g.pending) <= room /\ g.capacity <= room
  BY DEF BurstIs
<1>5. q.enqueued = Len(acc) /\ q.enqueued = q.drained + Len(q.pending)
  BY DEF Counts
<1>6. g.enqueued = Len(all)
  BY <1>3, <1>4, <1>5
<1>7. g.enqueued = g.drained + Len(g.pending)
  BY <1>1, <1>2, <1>4, <1>5
<1>8. Counts(g, all, room)
  BY <1>4, <1>6, <1>7 DEF Counts
<1> QED
  BY <1>8 DEF all

LEMMA ArriveOK ==
    ASSUME QueueInv(st), QueueArrive
    PROVE  QueueInv(st')
<1>1. PICK n \in 1..(MaxArrivals - st.next + 1) :
        st' = [st EXCEPT !.q = Burst(st.q, st.next, n), !.next = st.next + n,
                         !.accepted = st.accepted \o Accepted(Burst(st.q, st.next, n), n)]
  BY DEF QueueArrive, Burst, Numbers
<1> DEFINE q == st.q
           p == q.pending
           out == st.out
           acc == st.accepted
           gone == st.removed
           m == st.next
           room == st.room
<1>2. /\ st \in QueueStates /\ q \in Queues /\ m \in Nat /\ m >= 1
      /\ acc \in Seq(Nat) /\ out \in Seq(Nat) /\ p \in Seq(Nat)
      /\ KeptIs(out, p, acc, gone, m) /\ Counts(q, acc, room) /\ room \in Nat
  BY DEF QueueInv, QueueStates, Queues
<1>3. n \in Nat /\ n >= 1
  BY <1>2, ContainersTyped
<1> DEFINE g == Burst(q, m, n)
<1>4. PICK new \in Seq(Nat) : BurstIs(g, q, new, m, n, room) /\ NumberedFrom(new, m, n)
  <2> HIDE DEF q, m, room
  <2>1. Len(q.pending) <= room /\ q.capacity <= room
    BY <1>2 DEF Counts
  <2> QED
    BY <1>2, <1>3, <2>1, BurstTaken
<1>5. Accepted(g, n) = new
  BY <1>4 DEF Accepted, Numbers, BurstIs
<1> DEFINE all == acc \o new
<1>6. st' = [st EXCEPT !.q = g, !.next = m + n, !.accepted = all]
  BY <1>1, <1>5
<1> HIDE DEF g, q, p, out, acc, gone, m, room
<1>7. KeptIs(out, p \o new, all, gone, m + n)
  BY <1>2, <1>3, <1>4, KeptGrows
<1>8. Counts(g, all, room)
  BY <1>2, <1>4, BurstCounts
<1>9. all \in Seq(Nat) /\ m + n \in Nat /\ m + n >= 1
  BY <1>2, <1>3, ConcatProperties
<1>10. g \in Queues /\ g.pending = p \o new
  BY <1>4 DEF BurstIs, p
<1> HIDE DEF all
<1>11. /\ st' \in QueueStates /\ st'.q = g /\ st'.next = m + n /\ st'.out = out
       /\ st'.accepted = all /\ st'.removed = gone /\ st'.room = room
  BY <1>2, <1>6, <1>9, <1>10 DEF QueueStates, out, gone, room
<1> QED
  BY <1>7, <1>8, <1>9, <1>10, <1>11 DEF QueueInv

LEMMA MinPair ==
    ASSUME NEW a \in Nat, NEW b \in Nat
    PROVE  Min({a, b}) = IF a <= b THEN a ELSE b
<1>1. Min({a, b}) \in {a, b} /\ \A y \in {a, b} : Min({a, b}) <= y
  <2>1. \E x \in {a, b} : \A y \in {a, b} : x <= y
    <3>1. a <= b \/ b <= a
      OBVIOUS
    <3> QED
      BY <3>1
  <2> QED
    BY <2>1 DEF Min
<1> QED
  BY <1>1

LEMMA MaxPair ==
    ASSUME NEW a \in Nat, NEW b \in Nat
    PROVE  Max({a, b}) = IF a <= b THEN b ELSE a
<1>1. Max({a, b}) \in {a, b} /\ \A y \in {a, b} : Max({a, b}) >= y
  <2>1. \E x \in {a, b} : \A y \in {a, b} : x >= y
    <3>1. a <= b \/ b <= a
      OBVIOUS
    <3> QED
      BY <3>1
  <2> QED
    BY <2>1 DEF Max
<1> QED
  BY <1>1

(* Taking a batch from the front loses nothing and keeps the order.        *)
LEMMA SplitFront ==
    ASSUME NEW out \in Seq(Nat), NEW p \in Seq(Nat), NEW n \in 0..Len(p)
    PROVE  /\ SubSeq(p, 1, n) \in Seq(Nat) /\ SubSeq(p, n + 1, Len(p)) \in Seq(Nat)
           /\ Len(SubSeq(p, n + 1, Len(p))) = Len(p) - n
           /\ out \o SubSeq(p, 1, n) \in Seq(Nat)
           /\ (out \o SubSeq(p, 1, n)) \o SubSeq(p, n + 1, Len(p)) = out \o p
<1> DEFINE a == SubSeq(p, 1, n)
           b == SubSeq(p, n + 1, Len(p))
           h == Len(p)
<1>0. h \in Nat /\ n \in Nat /\ n <= h /\ DOMAIN p = 1..h /\ \A i \in 1..h : p[i] \in Nat
  BY LenProperties, ElementOfSeq
<1>1. a \in Seq(Nat) /\ Len(a) = n /\ \A i \in 1..n : a[i] = p[i]
  <2>1. \A i \in 1..n : p[i] \in Nat
    BY <1>0
  <2> QED
    BY <1>0, <2>1, SubSeqProperties
<1>2. b \in Seq(Nat) /\ Len(b) = h - n /\ \A i \in 1..(h - n) : b[i] = p[n + i]
  <2> HIDE DEF h
  <2>1. \A i \in (n + 1)..h : p[i] \in Nat
    <3>1. \A i \in (n + 1)..h : i \in 1..h
      BY <1>0
    <3> QED
      BY <1>0, <3>1
  <2>2. n + 1 \in Nat /\ h \in Nat /\ (IF n + 1 <= h THEN h - (n + 1) + 1 ELSE 0) = h - n
    BY <1>0
  <2>3. b \in Seq(Nat) /\ Len(b) = h - n /\ \A i \in 1..(h - n) : b[i] = p[(n + 1) + i - 1]
    <3>1. \A i \in 1..(h - n) : (n + 1) + i - 1 \in 1..h
      BY <1>0
    <3>2. n + 1 \in Int /\ h \in Int /\ h - (n + 1) + 1 = h - n
      BY <1>0
    <3>3. /\ SubSeq(p, n + 1, h) \in Seq(Nat)
          /\ Len(SubSeq(p, n + 1, h)) = IF n + 1 <= h THEN h - (n + 1) + 1 ELSE 0
          /\ \A i \in 1..(h - (n + 1) + 1) : SubSeq(p, n + 1, h)[i] = p[(n + 1) + i - 1]
      BY <2>1, <3>2, SubSeqProperties
    <3>4. b = SubSeq(p, n + 1, h)
      BY DEF b, h
    <3> QED
      BY <2>2, <3>2, <3>3, <3>4
  <2>4. \A i \in 1..(h - n) : (n + 1) + i - 1 = n + i
    BY <1>0
  <2> QED
    BY <2>3, <2>4
<1> HIDE DEF a, b
<1>3. a \o b = p
  <2> DEFINE c == a \o b
  <2>1. c \in Seq(Nat) /\ Len(c) = Len(a) + Len(b)
        /\ \A i \in 1..(Len(a) + Len(b)) : c[i] = IF i <= Len(a) THEN a[i] ELSE b[i - Len(a)]
    BY <1>1, <1>2, ConcatProperties
  <2>2. Len(c) = h /\ \A i \in 1..h : c[i] = IF i <= n THEN a[i] ELSE b[i - n]
    <3>1. n + (h - n) = h
      BY <1>0
    <3> QED
      BY <1>1, <1>2, <2>1, <3>1
  <2> HIDE DEF c
  <2>3. ASSUME NEW i \in 1..h PROVE c[i] = p[i]
    <3>1. CASE i <= n
      <4>1. i \in 1..n
        BY <1>0, <3>1
      <4> QED
        BY <1>1, <2>2, <3>1, <4>1
    <3>2. CASE ~(i <= n)
      <4>1. i - n \in 1..(h - n) /\ n + (i - n) = i
        BY <1>0, <3>2
      <4> QED
        BY <1>2, <2>2, <3>2, <4>1
    <3> QED
      BY <3>1, <3>2
  <2>4. c = p
    BY <1>0, <2>1, <2>2, <2>3, SeqEqual
  <2> QED
    BY <2>4 DEF c
<1>4. (out \o a) \o b = out \o (a \o b)
  BY <1>1, <1>2, ConcatThree
<1>5. out \o a \in Seq(Nat)
  BY <1>1, ConcatProperties
<1> QED
  BY <1>1, <1>2, <1>3, <1>4, <1>5 DEF a, b, h

LEMMA TakenOK ==
    ASSUME NEW s, QueueInv(s), NEW n \in 0..Len(s.q.pending), NEW t,
           t = [s EXCEPT !.q = Taken(s.q, n).state, !.out = s.out \o Taken(s.q, n).out]
    PROVE  QueueInv(t)
<1> DEFINE q == s.q
           p == q.pending
           out == s.out
           front == SubSeq(p, 1, n)
           rest == SubSeq(p, n + 1, Len(p))
<1>1. /\ s \in QueueStates /\ q \in Queues /\ out \in Seq(Nat) /\ p \in Seq(Nat)
      /\ KeptIs(out, p, s.accepted, s.removed, s.next) /\ Counts(q, s.accepted, s.room) /\ s.next >= 1
  BY DEF QueueInv, QueueStates, Queues
<1>2. n \in 0..Len(p) /\ Len(p) \in Nat /\ n \in Nat
  BY <1>1
<1> DEFINE g == [q EXCEPT !.pending = rest, !.drained = q.drained + n]
<1>3. Taken(q, n).state = g /\ Taken(q, n).out = front
  BY DEF Taken
<1>4. t = [s EXCEPT !.q = g, !.out = out \o front]
  BY <1>3
<1> HIDE DEF q, p, out
<1>5. /\ front \in Seq(Nat) /\ rest \in Seq(Nat) /\ Len(rest) = Len(p) - n
      /\ out \o front \in Seq(Nat) /\ (out \o front) \o rest = out \o p
  BY <1>1, <1>2, SplitFront
<1>6. q.drained \in Nat /\ q.enqueued = q.drained + Len(p) /\ Len(p) <= s.room /\ s.room \in Nat
      /\ q.enqueued = Len(s.accepted) /\ q.capacity <= s.room
  BY <1>1 DEF Counts, Queues, QueueStates, p
<1> HIDE DEF front, rest
<1>7. g \in Queues /\ g.pending = rest /\ g.drained = q.drained + n /\ g.enqueued = q.enqueued /\ g.capacity = q.capacity
  <2>1. q.drained + n \in Nat
    BY <1>2, <1>6
  <2> DEFINE d == q.drained + n
  <2> HIDE DEF g, d
  <2>2. g = [q EXCEPT !.pending = rest, !.drained = d] /\ d \in Nat /\ q \in Queues /\ rest \in Seq(Nat)
    BY <1>1, <1>5, <2>1 DEF g, d
  <2>3. g \in Queues /\ g.pending = rest /\ g.drained = d /\ g.enqueued = q.enqueued /\ g.capacity = q.capacity
    BY <2>2 DEF Queues
  <2> QED
    BY <2>3 DEF d
<1> DEFINE o == out \o front
<1> HIDE DEF g, o
<1>8. /\ t \in QueueStates /\ t.q = g /\ t.next = s.next /\ t.out = o
      /\ t.accepted = s.accepted /\ t.removed = s.removed /\ t.room = s.room
  <2>1. o \in Seq(Nat)
    BY <1>5 DEF o
  <2>2. t = [s EXCEPT !.q = g, !.out = o]
    BY <1>4 DEF o
  <2> QED
    BY <1>1, <1>7, <2>1, <2>2 DEF QueueStates
<1>9. KeptIs(o, rest, s.accepted, s.removed, s.next)
  BY <1>1, <1>5 DEF KeptIs, o
<1>10. q.enqueued = (q.drained + n) + (Len(p) - n) /\ Len(p) - n <= s.room
  BY <1>2, <1>6
<1>11. Counts(g, s.accepted, s.room)
  BY <1>5, <1>6, <1>7, <1>10 DEF Counts
<1> QED
  BY <1>1, <1>7, <1>8, <1>9, <1>11 DEF QueueInv

LEMMA DrainOK ==
    ASSUME QueueInv(st), QueueDrain
    PROVE  QueueInv(st')
<1> DEFINE p == st.q.pending
<1>1. PICK did \in {Drain(st.q), DrainAll(st.q)} :
        st' = [st EXCEPT !.q = did.state, !.out = st.out \o did.out]
  BY DEF QueueDrain
<1>2. st \in QueueStates /\ st.q \in Queues /\ p \in Seq(Nat) /\ st.q.size \in Nat /\ Len(p) \in Nat
      /\ st.out \in Seq(Nat)
  BY DEF QueueInv, QueueStates, Queues
<1>3. CASE p = <<>> /\ did = Drain(st.q)
  <2>1. did.state = st.q /\ did.out = <<>>
    BY <1>3 DEF Drain
  <2>2. st' = [st EXCEPT !.q = st.q, !.out = st.out]
    BY <1>1, <1>2, <2>1, ConcatEmptySeq
  <2>3. st' = st
    BY <1>2, <2>2 DEF QueueStates
  <2> QED
    BY <2>3
<1>4. CASE p # <<>> /\ did = Drain(st.q)
  <2>1. did = Taken(st.q, BatchSize(st.q))
    BY <1>4 DEF Drain
  <2>2. Len(p) >= 1
    BY <1>2, <1>4, EmptySeq
  <2>3. BatchSize(st.q) \in 0..Len(p)
    <3>1. Min({st.q.size, Len(p)}) = IF st.q.size <= Len(p) THEN st.q.size ELSE Len(p)
      BY <1>2, MinPair
    <3>2. BatchSize(st.q) = IF st.q.strategy = "immediate" THEN 1 ELSE Min({st.q.size, Len(p)})
      BY DEF BatchSize
    <3> DEFINE h == Len(p)
               z == st.q.size
               m == Min({z, h})
    <3>3. h \in Nat /\ z \in Nat /\ h >= 1 /\ m = IF z <= h THEN z ELSE h
      BY <1>2, <2>2, <3>1
    <3>4. BatchSize(st.q) = 1 \/ BatchSize(st.q) = m
      BY <3>2
    <3> HIDE DEF h, z, m
    <3>5. 1 \in 0..h /\ m \in 0..h
      BY <3>3
    <3> QED
      BY <3>4, <3>5 DEF h
  <2> QED
    BY <1>1, <2>1, <2>3, TakenOK
<1>5. CASE did = DrainAll(st.q)
  <2>1. did = Taken(st.q, Len(p)) /\ Len(p) \in 0..Len(p)
    BY <1>2, <1>5 DEF DrainAll
  <2> QED
    BY <1>1, <2>1, TakenOK
<1> QED
  BY <1>1, <1>3, <1>4, <1>5

LEMMA FirstOf ==
    ASSUME NEW p \in Seq(Nat), NEW r \in ToSet(p)
    PROVE  \E i \in 1..Len(p) : p[i] = r /\ RemoveFirst(p, r) = RemoveAt(p, i)
<1> DEFINE I == {i \in 1..Len(p) : p[i] = r}
<1>1. DOMAIN p = 1..Len(p) /\ Len(p) \in Nat
  BY LenProperties
<1>2. I # {} /\ I \subseteq Nat
  BY <1>1 DEF ToSet
<1>3. Min(I) \in I
  BY <1>2, MinMember
<1>4. RemoveFirst(p, r) = RemoveAt(p, Min(I))
  BY <1>2 DEF RemoveFirst, SelectInSeq
<1> QED
  BY <1>3, <1>4

LEMMA WithdrawnOK ==
    ASSUME NEW s, QueueInv(s), NEW r \in ToSet(s.q.pending), NEW t, r < s.next, r \in Nat, r >= 1,
           t = [s EXCEPT !.q = RemovePending(s.q, r), !.removed = s.removed \cup {r}]
    PROVE  QueueInv(t)
<1> DEFINE q == s.q
           p == q.pending
           out == s.out
           gone == s.removed
           rest == RemoveFirst(p, r)
<1>1. /\ s \in QueueStates /\ q \in Queues /\ out \in Seq(Nat) /\ p \in Seq(Nat)
      /\ KeptIs(out, p, s.accepted, gone, s.next) /\ Counts(q, s.accepted, s.room) /\ s.next >= 1
      /\ s.next \in Nat /\ gone \subseteq Nat /\ r \in ToSet(p)
  BY DEF QueueInv, QueueStates, Queues
<1> DEFINE g == [q EXCEPT !.pending = rest, !.drained = q.drained + 1]
<1>2. RemovePending(q, r) = g
  BY <1>1 DEF RemovePending
<1>3. t = [s EXCEPT !.q = g, !.removed = gone \cup {r}]
  BY <1>2
<1> HIDE DEF q, p, out, gone
<1>4. PICK i \in 1..Len(p) : p[i] = r /\ rest = RemoveAt(p, i)
  BY <1>1, FirstOf
<1> HIDE DEF rest
<1>5. Len(p) \in Nat /\ rest \in Seq(Nat) /\ Len(rest) = Len(p) - 1
  <2>1. p \in Seq(Nat) /\ i \in 1..Len(p)
    BY <1>1
  <2>2. RemoveAt(p, i) \in Seq(Nat) /\ Len(RemoveAt(p, i)) = Len(p) - 1
    BY <2>1, RemoveAtProperties
  <2> QED
    BY <1>4, <2>1, <2>2
<1>6. ToSet(out \o p) = ToSet(s.accepted) \ gone /\ Increasing(out \o p) /\ gone \subseteq 1..(s.next - 1)
      /\ ToSet(s.accepted) \subseteq 1..(s.next - 1)
  BY <1>1 DEF KeptIs
<1>7. ToSet(out \o rest) = ToSet(out \o p) \ {r} /\ Increasing(out \o rest)
  BY <1>1, <1>4, <1>6, KeptShrinks
<1>8. r \in 1..(s.next - 1)
  BY <1>1
<1>9. KeptIs(out, rest, s.accepted, gone \cup {r}, s.next)
  BY <1>6, <1>7, <1>8 DEF KeptIs
<1>10. q.drained \in Nat /\ q.enqueued = q.drained + Len(p) /\ Len(p) <= s.room /\ s.room \in Nat
      /\ q.enqueued = Len(s.accepted) /\ q.capacity <= s.room
  BY <1>1 DEF Counts, Queues, QueueStates, p
<1>11. g \in Queues /\ g.pending = rest /\ g.drained = q.drained + 1 /\ g.enqueued = q.enqueued /\ g.capacity = q.capacity
  <2>1. q.drained + 1 \in Nat
    BY <1>10
  <2> DEFINE d == q.drained + 1
  <2> HIDE DEF g, d
  <2>2. g = [q EXCEPT !.pending = rest, !.drained = d] /\ d \in Nat /\ q \in Queues /\ rest \in Seq(Nat)
    BY <1>1, <1>5, <2>1 DEF g, d
  <2>3. g \in Queues /\ g.pending = rest /\ g.drained = d /\ g.enqueued = q.enqueued /\ g.capacity = q.capacity
    BY <2>2 DEF Queues
  <2> QED
    BY <2>3 DEF d
<1> HIDE DEF g
<1>12. q.enqueued = (q.drained + 1) + (Len(p) - 1) /\ Len(p) - 1 <= s.room
  BY <1>5, <1>10, SMTT(60)
<1>13. Counts(g, s.accepted, s.room)
  BY <1>5, <1>10, <1>11, <1>12 DEF Counts
<1>14. /\ t \in QueueStates /\ t.q = g /\ t.next = s.next /\ t.out = out
       /\ t.accepted = s.accepted /\ t.removed = gone \cup {r} /\ t.room = s.room
  <2>1. gone \cup {r} \in SUBSET Nat
    BY <1>1
  <2> QED
    BY <1>1, <1>3, <1>11, <2>1 DEF QueueStates, out
<1> QED
  BY <1>1, <1>9, <1>11, <1>13, <1>14 DEF QueueInv

LEMMA RemoveOK ==
    ASSUME QueueInv(st), QueueRemove
    PROVE  QueueInv(st')
<1>1. PICK r \in 1..(st.next - 1) :
        st' = [st EXCEPT !.q = RemovePending(st.q, r),
                         !.removed = IF r \in ToSet(st.q.pending) THEN st.removed \cup {r} ELSE st.removed]
  BY DEF QueueRemove
<1>2. st \in QueueStates /\ st.next \in Nat
  BY DEF QueueInv, QueueStates
<1>3. CASE r \in ToSet(st.q.pending)
  <2>1. r \in Nat /\ r < st.next /\ r >= 1
    BY <1>2
  <2> QED
    BY <1>1, <1>3, <2>1, WithdrawnOK
<1>4. CASE r \notin ToSet(st.q.pending)
  <2>1. st' = [st EXCEPT !.q = st.q, !.removed = st.removed]
    BY <1>1, <1>4 DEF RemovePending
  <2>2. st' = st
    BY <1>2, <2>1 DEF QueueStates
  <2> QED
    BY <2>2
<1> QED
  BY <1>3, <1>4

LEMMA ConfigureOK ==
    ASSUME QueueInv(st), QueueConfigure
    PROVE  QueueInv(st')
<1> DEFINE q == st.q
           p == q.pending
<1>1. PICK c \in QueueCases :
        \/ st' = [st EXCEPT !.q = SetStrategy(q, c.strategy, c.size)]
        \/ st' = [st EXCEPT !.q = SetMaxCapacity(q, c.capacity), !.room = Max({c.capacity, Len(p)})]
  BY DEF QueueConfigure
<1>2. /\ st \in QueueStates /\ q \in Queues /\ p \in Seq(Nat) /\ Len(p) \in Nat
      /\ KeptIs(st.out, p, st.accepted, st.removed, st.next) /\ Counts(q, st.accepted, st.room) /\ st.next >= 1
  BY DEF QueueInv, QueueStates, Queues
<1>3. c.size \in Nat /\ c.capacity \in Nat /\ c.strategy \in STRING
  BY ContainersTyped
<1> HIDE DEF q, p
<1>4. CASE st' = [st EXCEPT !.q = SetStrategy(q, c.strategy, c.size)]
  <2> DEFINE g == SetStrategy(q, c.strategy, c.size)
  <2>1. /\ g \in Queues /\ g.pending = q.pending /\ g.enqueued = q.enqueued /\ g.drained = q.drained
        /\ g.capacity = q.capacity
    BY <1>2, <1>3 DEF SetStrategy, Queues
  <2> HIDE DEF g
  <2>2. /\ st' \in QueueStates /\ st'.q = g /\ st'.next = st.next /\ st'.out = st.out
        /\ st'.accepted = st.accepted /\ st'.removed = st.removed /\ st'.room = st.room
    BY <1>2, <1>4, <2>1 DEF QueueStates, g
  <2>3. Counts(g, st.accepted, st.room)
    BY <1>2, <2>1 DEF Counts
  <2> QED
    BY <1>2, <2>1, <2>2, <2>3 DEF QueueInv, p
<1>5. CASE st' = [st EXCEPT !.q = SetMaxCapacity(q, c.capacity), !.room = Max({c.capacity, Len(p)})]
  <2> DEFINE g == SetMaxCapacity(q, c.capacity)
             room == Max({c.capacity, Len(p)})
  <2>1. /\ g \in Queues /\ g.pending = q.pending /\ g.enqueued = q.enqueued /\ g.drained = q.drained
        /\ g.capacity = c.capacity
    BY <1>2, <1>3 DEF SetMaxCapacity, Queues
  <2>2. room = IF c.capacity <= Len(p) THEN Len(p) ELSE c.capacity
    BY <1>2, <1>3, MaxPair
  <2> HIDE DEF g, room
  <2>3. room \in Nat /\ Len(p) <= room /\ c.capacity <= room
    BY <1>2, <1>3, <2>2
  <2>4. /\ st' \in QueueStates /\ st'.q = g /\ st'.next = st.next /\ st'.out = st.out
        /\ st'.accepted = st.accepted /\ st'.removed = st.removed /\ st'.room = room
    BY <1>2, <1>5, <2>1, <2>3 DEF QueueStates, g, room
  <2>5. Counts(g, st.accepted, room)
    BY <1>2, <2>1, <2>3 DEF Counts, p
  <2> QED
    BY <1>2, <2>1, <2>4, <2>5 DEF QueueInv, p
<1> QED
  BY <1>1, <1>4, <1>5

LEMMA QueueInvSound ==
    ASSUME QueueInv(st)
    PROVE  QueueSound
<1>1. /\ ToSet(st.out \o st.q.pending) = ToSet(st.accepted) \ st.removed
      /\ Increasing(st.out \o st.q.pending)
      /\ st.q.enqueued = Len(st.accepted)
      /\ st.q.enqueued = st.q.drained + Len(st.q.pending)
      /\ Len(st.q.pending) <= st.room
  BY DEF QueueInv, KeptIs, Counts
<1> QED
  BY <1>1 DEF QueueSound, Increasing

-----------------------------------------------------------------------------
(* The copies: drained are the first, in order, and in the queue the rest. *)

Copies == Seq([tokens : Nat, done : BOOLEAN])

CopyStates == [unit : {"copies"}, q : Copies, submitted : Nat, drained : Seq(Nat)]

InTurn(q, drained, submitted) ==
    /\ \A i \in 1..Len(drained) : drained[i] = i
    /\ \A i \in 1..Len(q) : q[i].tokens = Len(drained) + i
    /\ submitted = Len(drained) + Len(q)

CopiesInv(s) == s \in CopyStates /\ InTurn(s.q, s.drained, s.submitted)

LEMMA CopiesStartOK == CopiesInv(CopiesStart)
BY DEF CopiesStart, CopiesInv, CopyStates, Copies, InTurn

LEMMA CopySubmitOK ==
    ASSUME CopiesInv(st), CopySubmit
    PROVE  CopiesInv(st')
<1> DEFINE q == st.q
           d == st.drained
           n == st.submitted
           c == [tokens |-> n + 1, done |-> FALSE]
           p == Append(q, c)
<1>1. st \in CopyStates /\ q \in Copies /\ d \in Seq(Nat) /\ n \in Nat /\ InTurn(q, d, n)
  BY DEF CopiesInv, CopyStates
<1>2. st' = [st EXCEPT !.q = p, !.submitted = n + 1]
  BY DEF CopySubmit, SubmitCopy
<1> HIDE DEF q, d, n
<1>3. c \in [tokens : Nat, done : BOOLEAN] /\ c.tokens = n + 1
  BY <1>1
<1> HIDE DEF c
<1>4. /\ p \in Copies /\ Len(p) = Len(q) + 1 /\ Len(q) \in Nat /\ Len(d) \in Nat
      /\ \A i \in 1..Len(q) : p[i] = q[i]
      /\ p[Len(q) + 1] = c
  BY <1>1, <1>3, AppendProperties DEF Copies
<1> HIDE DEF p
<1>5. InTurn(p, d, n + 1)
  <2>1. (\A i \in 1..Len(d) : d[i] = i) /\ (\A i \in 1..Len(q) : q[i].tokens = Len(d) + i) /\ n = Len(d) + Len(q)
    BY <1>1 DEF InTurn
  <2>2. ASSUME NEW i \in 1..Len(p) PROVE p[i].tokens = Len(d) + i
    <3>1. CASE i = Len(q) + 1
      <4>1. n + 1 = Len(d) + i
        BY <1>4, <2>1, <3>1
      <4> QED
        BY <1>3, <1>4, <3>1, <4>1
    <3>2. CASE i # Len(q) + 1
      <4>1. i \in 1..Len(q)
        BY <1>4, <3>2
      <4> QED
        BY <1>4, <2>1, <4>1
    <3> QED
      BY <3>1, <3>2
  <2>3. n + 1 = Len(d) + Len(p)
    BY <1>4, <2>1
  <2> QED
    BY <2>1, <2>2, <2>3 DEF InTurn
<1>6. st' \in CopyStates /\ st'.q = p /\ st'.drained = d /\ st'.submitted = n + 1
  <2>1. n + 1 \in Nat
    BY <1>1
  <2> QED
    BY <1>1, <1>2, <1>4, <2>1 DEF CopyStates, d
<1> QED
  BY <1>5, <1>6 DEF CopiesInv

LEMMA CopyFinishOK ==
    ASSUME CopiesInv(st), CopyFinish
    PROVE  CopiesInv(st')
<1> DEFINE q == st.q
           d == st.drained
<1>1. st \in CopyStates /\ q \in Copies /\ d \in Seq(Nat) /\ InTurn(q, d, st.submitted)
  BY DEF CopiesInv, CopyStates
<1>2. PICK i \in DOMAIN q : st' = [st EXCEPT !.q = CopyDone(q, i)]
  BY DEF CopyFinish
<1> DEFINE p == CopyDone(q, i)
<1> HIDE DEF q, d
<1>3. DOMAIN q = 1..Len(q) /\ Len(q) \in Nat
  BY <1>1, LenProperties DEF Copies
<1>4. p = [q EXCEPT ![i] = [q[i] EXCEPT !.done = TRUE]] /\ q[i] \in [tokens : Nat, done : BOOLEAN]
  BY <1>1, <1>3, ElementOfSeq DEF CopyDone, Copies
<1> DEFINE c == [q[i] EXCEPT !.done = TRUE]
<1>5. c \in [tokens : Nat, done : BOOLEAN] /\ c.tokens = q[i].tokens
  BY <1>4
<1> HIDE DEF c, p
<1>6. p = [q EXCEPT ![i] = c]
  BY <1>4 DEF c
<1>7. p \in Copies /\ Len(p) = Len(q)
  BY <1>1, <1>5, <1>6, ExceptSeq DEF Copies
<1>8. \A j \in 1..Len(q) : p[j].tokens = q[j].tokens
  BY <1>3, <1>5, <1>6
<1>9. InTurn(p, d, st.submitted)
  BY <1>1, <1>7, <1>8 DEF InTurn
<1>10. st' \in CopyStates /\ st'.q = p /\ st'.drained = d /\ st'.submitted = st.submitted
  BY <1>1, <1>2, <1>7 DEF CopyStates, p, d
<1> QED
  BY <1>9, <1>10 DEF CopiesInv

LEMMA CopyDrainOK ==
    ASSUME CopiesInv(st), CopyDrain
    PROVE  CopiesInv(st')
<1> DEFINE q == st.q
           d == st.drained
           n == st.submitted
           p == Tail(q)
           e == Append(d, Head(q).tokens)
<1>1. st \in CopyStates /\ q \in Copies /\ d \in Seq(Nat) /\ n \in Nat /\ InTurn(q, d, n) /\ q # <<>>
  BY DEF CopiesInv, CopyStates, CopyDrain, CanDrain
<1>2. st' = [st EXCEPT !.q = p, !.drained = e]
  BY DEF CopyDrain
<1> HIDE DEF q, d, n
<1>3. /\ p \in Copies /\ Len(p) = Len(q) - 1 /\ Len(q) \in Nat /\ Len(q) >= 1 /\ Len(d) \in Nat
      /\ \A i \in 1..Len(p) : p[i] = q[i + 1]
  BY <1>1, HeadTailProperties, EmptySeq, LenProperties DEF Copies
<1>4. Head(q) = q[1] /\ Head(q).tokens \in Nat
  <2>1. Head(q) = q[1]
    <3>1. \A a \in Seq([tokens : Nat, done : BOOLEAN]) : a # <<>> => Head(a) = a[1]
      OBVIOUS
    <3> QED
      BY <1>1, <3>1 DEF Copies
  <2>2. q \in Seq([tokens : Nat, done : BOOLEAN]) /\ 1 \in 1..Len(q)
    BY <1>1, <1>3 DEF Copies
  <2>3. q[1] \in [tokens : Nat, done : BOOLEAN]
    BY <2>2, ElementOfSeq
  <2> QED
    BY <2>1, <2>3
<1>5. (\A i \in 1..Len(d) : d[i] = i) /\ (\A i \in 1..Len(q) : q[i].tokens = Len(d) + i) /\ n = Len(d) + Len(q)
  BY <1>1 DEF InTurn
<1>6. Head(q).tokens = Len(d) + 1
  BY <1>3, <1>4, <1>5
<1>7. e = Append(d, Len(d) + 1) /\ Len(d) + 1 \in Nat
  BY <1>3, <1>6
<1>8. /\ e \in Seq(Nat) /\ Len(e) = Len(d) + 1
      /\ \A i \in 1..Len(d) : e[i] = d[i]
      /\ e[Len(d) + 1] = Len(d) + 1
  BY <1>1, <1>7, AppendProperties
<1> HIDE DEF p, e
<1>9. InTurn(p, e, n)
  <2>1. ASSUME NEW i \in 1..Len(e) PROVE e[i] = i
    <3>1. i = Len(d) + 1 \/ i \in 1..Len(d)
      BY <1>3, <1>8
    <3> QED
      BY <1>5, <1>8, <3>1
  <2>2. ASSUME NEW i \in 1..Len(p) PROVE p[i].tokens = Len(e) + i
    <3>1. i + 1 \in 1..Len(q) /\ Len(d) + (i + 1) = Len(e) + i
      BY <1>3, <1>8
    <3> QED
      BY <1>3, <1>5, <3>1
  <2>3. n = Len(e) + Len(p)
    BY <1>3, <1>5, <1>8
  <2> QED
    BY <2>1, <2>2, <2>3 DEF InTurn
<1>10. st' \in CopyStates /\ st'.q = p /\ st'.drained = e /\ st'.submitted = n
  BY <1>1, <1>2, <1>3, <1>8 DEF CopyStates, n
<1> QED
  BY <1>9, <1>10 DEF CopiesInv

LEMMA CopiesInvSound ==
    ASSUME CopiesInv(st)
    PROVE  CopiesSound
<1> DEFINE q == st.q
           d == st.drained
           n == st.submitted
           w == [i \in DOMAIN q |-> q[i].tokens]
           u == d \o w
           v == [i \in 1..n |-> i]
<1>1. q \in Copies /\ d \in Seq(Nat) /\ n \in Nat /\ InTurn(q, d, n)
  BY DEF CopiesInv, CopyStates
<1> HIDE DEF q, d, n
<1>2. DOMAIN q = 1..Len(q) /\ Len(q) \in Nat /\ Len(d) \in Nat
  BY <1>1, LenProperties DEF Copies
<1>3. (\A i \in 1..Len(d) : d[i] = i) /\ (\A i \in 1..Len(q) : q[i].tokens = Len(d) + i) /\ n = Len(d) + Len(q)
  BY <1>1 DEF InTurn
<1>4. w = [i \in 1..Len(q) |-> Len(d) + i]
  BY <1>2, <1>3
<1>5. w \in Seq(Nat) /\ Len(w) = Len(q) /\ \A i \in 1..Len(q) : w[i] = Len(d) + i
  <2>1. \A i \in 1..Len(q) : Len(d) + i \in Nat
    BY <1>2
  <2>2. w \in [1..Len(q) -> Nat]
    BY <1>4, <2>1
  <2> HIDE DEF w
  <2> QED
    BY <1>2, <1>4, <2>2, SeqDef
<1>6. v \in Seq(Nat) /\ Len(v) = n /\ \A i \in 1..n : v[i] = i
  <2>1. v \in [1..n -> Nat]
    BY <1>1
  <2> QED
    BY <1>1, <2>1, SeqDef
<1> HIDE DEF w, v
<1>7. u \in Seq(Nat) /\ Len(u) = Len(d) + Len(w)
      /\ \A i \in 1..(Len(d) + Len(w)) : u[i] = IF i <= Len(d) THEN d[i] ELSE w[i - Len(d)]
  BY <1>1, <1>5, ConcatProperties
<1> HIDE DEF u
<1>8. ASSUME NEW i \in 1..n PROVE u[i] = v[i]
  <2>1. i \in 1..(Len(d) + Len(w))
    BY <1>3, <1>5
  <2>2. CASE i <= Len(d)
    <3>1. i \in 1..Len(d)
      BY <1>2, <2>2
    <3> QED
      BY <1>3, <1>6, <1>7, <2>1, <2>2, <3>1
  <2>3. CASE ~(i <= Len(d))
    <3>1. i - Len(d) \in 1..Len(q) /\ Len(d) + (i - Len(d)) = i
      BY <1>1, <1>2, <1>3, <2>3
    <3>2. u[i] = w[i - Len(d)]
      BY <1>7, <2>1, <2>3
    <3> QED
      BY <1>5, <1>6, <3>1, <3>2
  <2> QED
    BY <2>2, <2>3
<1>9. Len(u) = n
  BY <1>3, <1>5, <1>7
<1>10. u = v
  BY <1>6, <1>7, <1>8, <1>9, SeqEqual
<1> QED
  BY <1>10 DEF CopiesSound, u, v, w, q, d, n

-----------------------------------------------------------------------------
(* The tokenizers: those before the index have had one text more.          *)

TurnsTaken(load, index, size, base) ==
    \A i \in 0..(size - 1) : load[i] = IF i < index THEN base + 1 ELSE base

TurnsInv(s) ==
    /\ s = [unit |-> "turns", size |-> s.size, index |-> s.index, load |-> s.load]
    /\ s.size \in Nat \ {0} /\ s.index \in 0..(s.size - 1)
    /\ s.load \in [0..(s.size - 1) -> Nat]
    /\ \E base \in Nat : TurnsTaken(s.load, s.index, s.size, base)

LEMMA TurnsStartOK ==
    ASSUME NEW n \in PoolSizes
    PROVE  TurnsInv(TurnsStart(n))
<1>1. n \in Nat \ {0}
  BY ContainersTyped
<1> DEFINE load == [i \in 0..(n - 1) |-> 0]
<1>2. load \in [0..(n - 1) -> Nat] /\ 0 \in 0..(n - 1) /\ TurnsTaken(load, 0, n, 0)
  BY <1>1 DEF TurnsTaken
<1>3. TurnsStart(n) = [unit |-> "turns", size |-> n, index |-> 0, load |-> load]
  BY DEF TurnsStart
<1> HIDE DEF load
<1> QED
  BY <1>1, <1>2, <1>3 DEF TurnsInv

LEMMA Turn ==
    ASSUME NEW n \in Nat \ {0}, NEW x \in 0..(n - 1)
    PROVE  (x + 1) % n = IF x = n - 1 THEN 0 ELSE x + 1
<1>1. CASE x = n - 1
  <2>1. x + 1 = n
    BY <1>1
  <2>2. n % n = 0
    OBVIOUS
  <2> QED
    BY <1>1, <2>1, <2>2
<1>2. CASE x # n - 1
  <2>1. x + 1 \in 0..(n - 1)
    BY <1>2
  <2>2. (x + 1) % n = x + 1
    BY <2>1
  <2> QED
    BY <1>2, <2>2
<1> QED
  BY <1>1, <1>2

LEMMA TakeTurnOK ==
    ASSUME TurnsInv(st), TakeTurn
    PROVE  TurnsInv(st')
<1> DEFINE n == st.size
           x == st.index
           load == st.load
           y == IF x = n - 1 THEN 0 ELSE x + 1
           more == [load EXCEPT ![x] = load[x] + 1]
<1>1. /\ st = [unit |-> "turns", size |-> n, index |-> x, load |-> load]
      /\ n \in Nat \ {0} /\ x \in 0..(n - 1) /\ load \in [0..(n - 1) -> Nat]
  BY DEF TurnsInv
<1>2. PICK base \in Nat : TurnsTaken(load, x, n, base)
  BY DEF TurnsInv
<1>3. st' = [st EXCEPT !.load = more, !.index = (x + 1) % n]
  BY DEF TakeTurn, NextTokenizer
<1> HIDE DEF n, x, load
<1>4. st' = [unit |-> "turns", size |-> n, index |-> y, load |-> more]
  <2>1. (x + 1) % n = y
    BY <1>1, Turn
  <2> HIDE DEF y, more
  <2> QED
    BY <1>1, <1>3, <2>1
<1>5. y \in 0..(n - 1) /\ more \in [0..(n - 1) -> Nat]
  BY <1>1
<1>6. \E b \in Nat : TurnsTaken(more, y, n, b)
  <2>1. \A i \in 0..(n - 1) : load[i] = IF i < x THEN base + 1 ELSE base
    BY <1>2 DEF TurnsTaken
  <2>2. \A i \in 0..(n - 1) : more[i] = IF i < x + 1 THEN base + 1 ELSE base
    BY <1>1, <2>1
  <2>3. CASE x = n - 1
    <3>1. \A i \in 0..(n - 1) : i < x + 1 /\ ~(i < y)
      BY <1>1, <2>3
    <3>2. TurnsTaken(more, y, n, base + 1) /\ base + 1 \in Nat
      BY <2>2, <3>1 DEF TurnsTaken
    <3> QED
      BY <3>2
  <2>4. CASE x # n - 1
    <3>1. y = x + 1
      BY <2>4
    <3>2. TurnsTaken(more, y, n, base)
      BY <2>2, <3>1 DEF TurnsTaken
    <3> QED
      BY <3>2
  <2> QED
    BY <2>3, <2>4
<1> HIDE DEF y, more
<1> QED
  BY <1>1, <1>4, <1>5, <1>6 DEF TurnsInv

LEMMA TurnsInvSound ==
    ASSUME TurnsInv(st)
    PROVE  TurnsSound
<1>1. PICK base \in Nat : TurnsTaken(st.load, st.index, st.size, base)
  BY DEF TurnsInv
<1>2. DOMAIN st.load = 0..(st.size - 1)
  BY DEF TurnsInv
<1>3. \A i \in DOMAIN st.load : st.load[i] = base \/ st.load[i] = base + 1
  BY <1>1, <1>2 DEF TurnsTaken
<1> QED
  BY <1>3 DEF TurnsSound

-----------------------------------------------------------------------------
(* The offload store.  Every slot is free or holds the block of one key.   *)

Slots == 0..(OffloadSlots - 1)

StoreIs(s, map) ==
    LET free == s.free
        slots == s.slots
        keys == DOMAIN map
    IN  /\ free \in Seq(Nat) /\ IsInjective(free)
        /\ DOMAIN slots = keys /\ DOMAIN s.storage = Slots
        /\ \A k \in keys : /\ slots[k] \in Slots /\ slots[k] \notin ToSet(free)
                           /\ s.storage[slots[k]] = map[k]
        /\ \A k, l \in keys : slots[k] = slots[l] => k = l
        /\ ToSet(free) \subseteq Slots
        /\ IsFiniteSet(keys) /\ Len(free) + Cardinality(keys) = OffloadSlots

OffloadInv(s) ==
    /\ s = [unit |-> "offload", s |-> s.s, map |-> s.map, refused |-> s.refused]
    /\ s.s = [free |-> s.s.free, slots |-> s.s.slots, storage |-> s.s.storage]
    /\ StoreIs(s.s, s.map)
    /\ s.refused \in {0, OffloadSlots}

LEMMA OffloadStartOK == OffloadInv(OffloadStart)
<1> DEFINE n == OffloadSlots
           free == [i \in 1..n |-> n - i]
           none == [k \in {} |-> 0]
           zero == [i \in 0..(n - 1) |-> "zero"]
           s == [free |-> free, slots |-> none, storage |-> zero]
<1>1. n \in Nat
  BY ContainersTyped
<1>2. free \in [1..n -> Nat] /\ free \in Seq(Nat) /\ Len(free) = n
  <2>1. \A i \in 1..n : n - i \in Nat
    BY <1>1
  <2>2. free \in [1..n -> Nat]
    BY <2>1
  <2> QED
    BY <1>1, <2>2, SeqDef
<1>3. IsInjective(free)
  <2>1. \A i, j \in 1..n : free[i] = free[j] => i = j
    BY <1>1
  <2>2. DOMAIN free = 1..n
    OBVIOUS
  <2> HIDE DEF free
  <2> QED
    BY <2>1, <2>2 DEF IsInjective
<1>4. ToSet(free) \subseteq Slots
  <2>1. \A i \in 1..n : free[i] \in 0..(n - 1)
    BY <1>1
  <2> QED
    BY <2>1 DEF ToSet, Slots
<1>5. DOMAIN none = {} /\ IsFiniteSet({}) /\ Cardinality({}) = 0
  BY FS_EmptySet
<1>6. DOMAIN zero = Slots
  BY DEF Slots
<1>7. OffloadStart = [unit |-> "offload", s |-> s, map |-> none, refused |-> 0]
  BY DEF OffloadStart, NewStore
<1>8. s.free = free /\ s.slots = none /\ s.storage = zero
  OBVIOUS
<1> HIDE DEF free, none, zero, s
<1>9. StoreIs(s, none)
  <2>1. Len(free) + 0 = OffloadSlots
    BY <1>1, <1>2
  <2> QED
    BY <1>2, <1>3, <1>4, <1>5, <1>6, <1>8, <2>1 DEF StoreIs
<1> QED
  BY <1>7, <1>8, <1>9 DEF OffloadInv, s

(* Taking the last of the free slots.                                      *)
LEMMA FrontLast ==
    ASSUME NEW f \in Seq(Nat), f # <<>>, IsInjective(f)
    PROVE  /\ Front(f) \in Seq(Nat) /\ IsInjective(Front(f))
           /\ Len(Front(f)) = Len(f) - 1
           /\ ToSet(Front(f)) = ToSet(f) \ {Last(f)}
           /\ Last(f) \in ToSet(f)
<1> DEFINE n == Len(f)
           g == SubSeq(f, 1, n - 1)
<1>1. n \in Nat /\ n >= 1 /\ DOMAIN f = 1..n /\ \A i \in 1..n : f[i] \in Nat
  BY EmptySeq, LenProperties, ElementOfSeq
<1>2. Front(f) = g /\ Last(f) = f[n]
  BY DEF Front, Last
<1> HIDE DEF n
<1>3. g \in Seq(Nat) /\ Len(g) = n - 1 /\ \A i \in 1..(n - 1) : g[i] = f[i]
  <2>1. 1 \in Int /\ n - 1 \in Int /\ (n - 1) - 1 + 1 = n - 1 /\ (IF 1 <= n - 1 THEN (n - 1) - 1 + 1 ELSE 0) = n - 1
    BY <1>1
  <2>2. \A i \in 1..(n - 1) : f[i] \in Nat /\ 1 + i - 1 = i
    BY <1>1
  <2>3. /\ SubSeq(f, 1, n - 1) \in Seq(Nat)
        /\ Len(SubSeq(f, 1, n - 1)) = IF 1 <= n - 1 THEN (n - 1) - 1 + 1 ELSE 0
        /\ \A i \in 1..((n - 1) - 1 + 1) : SubSeq(f, 1, n - 1)[i] = f[1 + i - 1]
    BY <2>1, <2>2, SubSeqProperties
  <2> QED
    BY <2>1, <2>2, <2>3
<1> HIDE DEF g
<1>4. DOMAIN g = 1..(n - 1)
  BY <1>3, LenProperties
<1>5. \A i \in 1..(n - 1) : i \in 1..n /\ i # n
  BY <1>1
<1>6. \A i, j \in 1..n : f[i] = f[j] => i = j
  BY <1>1 DEF IsInjective
<1>7. IsInjective(g)
  BY <1>3, <1>4, <1>5, <1>6 DEF IsInjective
<1>8. \A i \in 1..n : i = n \/ i \in 1..(n - 1)
  BY <1>1
<1>9. n \in 1..n
  BY <1>1
<1>10. ToSet(g) = ToSet(f) \ {f[n]}
  BY <1>1, <1>3, <1>4, <1>5, <1>6, <1>8, <1>9, SMTT(60) DEF ToSet
<1>11. f[n] \in ToSet(f)
  BY <1>1, <1>9 DEF ToSet
<1> QED
  BY <1>2, <1>3, <1>7, <1>10, <1>11 DEF n

(* map with a key set.                                                     *)
With(map, key, x) == [k \in DOMAIN map \cup {key} |-> IF k = key THEN x ELSE map[k]]

LEMMA PutKnown ==
    ASSUME NEW s, NEW map, StoreIs(s, map), NEW key \in DOMAIN map, NEW b, NEW t,
           t = [free |-> s.free, slots |-> With(s.slots, key, s.slots[key]),
                storage |-> [s.storage EXCEPT ![s.slots[key]] = b]]
    PROVE  StoreIs(t, With(map, key, b))
<1> DEFINE keys == DOMAIN map
           free == s.free
           slots == s.slots
           more == With(map, key, b)
           held == [s.storage EXCEPT ![slots[key]] = b]
<1>1. /\ free \in Seq(Nat) /\ IsInjective(free)
      /\ DOMAIN slots = keys /\ DOMAIN s.storage = Slots
      /\ \A k \in keys : /\ slots[k] \in Slots /\ slots[k] \notin ToSet(free)
                         /\ s.storage[slots[k]] = map[k]
      /\ \A k, l \in keys : slots[k] = slots[l] => k = l
      /\ ToSet(free) \subseteq Slots
      /\ IsFiniteSet(keys) /\ Len(free) + Cardinality(keys) = OffloadSlots
  BY DEF StoreIs
<1>2. keys \cup {key} = keys
  OBVIOUS
<1> DEFINE at == With(slots, key, slots[key])
<1>3. DOMAIN at = keys /\ \A k \in keys : at[k] = slots[k]
  BY <1>1, <1>2 DEF With
<1>4. DOMAIN more = keys /\ more[key] = b /\ \A k \in keys : k # key => more[k] = map[k]
  BY <1>2 DEF With
<1>5. t.free = free /\ t.slots = at /\ t.storage = held
  OBVIOUS
<1>6. DOMAIN held = Slots /\ held[slots[key]] = b
      /\ \A k \in keys : k # key => held[slots[k]] = s.storage[slots[k]]
  BY <1>1
<1> HIDE DEF free, slots, more, held, at
<1>7. \A k \in keys : held[at[k]] = more[k]
  BY <1>1, <1>3, <1>4, <1>6
<1>8. StoreIs(t, more)
  BY <1>1, <1>3, <1>4, <1>5, <1>6, <1>7 DEF StoreIs
<1> QED
  BY <1>8 DEF more

LEMMA PutNew ==
    ASSUME NEW s, NEW map, StoreIs(s, map), NEW key, key \notin DOMAIN map, NEW b, NEW t,
           s.free # <<>>,
           t = [free |-> Front(s.free), slots |-> With(s.slots, key, Last(s.free)),
                storage |-> [s.storage EXCEPT ![Last(s.free)] = b]]
    PROVE  StoreIs(t, With(map, key, b))
<1> DEFINE keys == DOMAIN map
           free == s.free
           slots == s.slots
           slot == Last(free)
           rest == Front(free)
           more == With(map, key, b)
           at == With(slots, key, slot)
           held == [s.storage EXCEPT ![slot] = b]
           now == keys \cup {key}
<1>1. /\ free \in Seq(Nat) /\ IsInjective(free)
      /\ DOMAIN slots = keys /\ DOMAIN s.storage = Slots
      /\ \A k \in keys : /\ slots[k] \in Slots /\ slots[k] \notin ToSet(free)
                         /\ s.storage[slots[k]] = map[k]
      /\ \A k, l \in keys : slots[k] = slots[l] => k = l
      /\ ToSet(free) \subseteq Slots
      /\ IsFiniteSet(keys) /\ Len(free) + Cardinality(keys) = OffloadSlots
  BY DEF StoreIs
<1>2. t.free = rest /\ t.slots = at /\ t.storage = held
  OBVIOUS
<1>3. free # <<>>
  OBVIOUS
<1>4. DOMAIN at = now /\ at[key] = slot /\ \A k \in keys : at[k] = slots[k]
  BY <1>1 DEF With
<1>5. DOMAIN more = now /\ more[key] = b /\ \A k \in keys : more[k] = map[k]
  BY DEF With
<1> HIDE DEF free, at, more, rest, slot
<1>6. /\ rest \in Seq(Nat) /\ IsInjective(rest) /\ Len(rest) = Len(free) - 1
      /\ ToSet(rest) = ToSet(free) \ {slot} /\ slot \in ToSet(free)
  BY <1>1, <1>3, FrontLast DEF rest, slot
<1>7. DOMAIN held = Slots /\ held[slot] = b /\ \A k \in keys : held[slots[k]] = s.storage[slots[k]]
  BY <1>1, <1>6
<1> HIDE DEF held, slots
<1>8. \A k \in now : /\ at[k] \in Slots /\ at[k] \notin ToSet(rest)
                     /\ held[at[k]] = more[k]
  BY <1>1, <1>4, <1>5, <1>6, <1>7
<1>9. \A k, l \in now : at[k] = at[l] => k = l
  BY <1>1, <1>4, <1>6
<1>10. IsFiniteSet(now) /\ Cardinality(now) = Cardinality(keys) + 1
  BY <1>1, FS_AddElement
<1>11. Len(rest) + Cardinality(now) = OffloadSlots
  <2>1. Len(free) \in Nat /\ Cardinality(keys) \in Nat
    BY <1>1, FS_CardinalityType
  <2> QED
    BY <1>1, <1>6, <1>10, <2>1
<1>12. StoreIs(t, more)
  BY <1>1, <1>2, <1>4, <1>5, <1>6, <1>7, <1>8, <1>9, <1>10, <1>11 DEF StoreIs
<1> QED
  BY <1>12 DEF more

LEMMA OffloadPutOK ==
    ASSUME OffloadInv(st), OffloadPut
    PROVE  OffloadInv(st')
<1> DEFINE s == st.s
           map == st.map
           none == st.refused
<1>1. PICK k \in OffloadKeys, b \in OffloadBytes, sized \in BOOLEAN :
        IF PutFails(s, k, sized)
        THEN st' = [st EXCEPT !.refused = IF sized THEN Cardinality(DOMAIN map) ELSE none]
        ELSE st' = [st EXCEPT !.s = Put(s, k, b), !.map = With(map, k, b)]
  BY DEF OffloadPut, With
<1>2. /\ st = [unit |-> "offload", s |-> s, map |-> map, refused |-> none]
      /\ s = [free |-> s.free, slots |-> s.slots, storage |-> s.storage]
      /\ StoreIs(s, map) /\ none \in {0, OffloadSlots}
  BY DEF OffloadInv
<1>3. DOMAIN s.slots = DOMAIN map /\ s.free \in Seq(Nat)
      /\ IsFiniteSet(DOMAIN map) /\ Len(s.free) + Cardinality(DOMAIN map) = OffloadSlots
  BY <1>2 DEF StoreIs
<1> HIDE DEF s, map, none
<1>4. CASE PutFails(s, k, sized)
  <2> DEFINE r == IF sized THEN Cardinality(DOMAIN map) ELSE none
  <2>1. st' = [unit |-> "offload", s |-> s, map |-> map, refused |-> r]
    BY <1>1, <1>2, <1>4
  <2>2. r \in {0, OffloadSlots}
    <3>1. CASE sized
      <4>1. s.free = <<>>
        BY <1>4, <3>1 DEF PutFails
      <4>2. Cardinality(DOMAIN map) \in Nat /\ Len(s.free) = 0
        BY <1>3, <4>1, FS_CardinalityType
      <4>3. Cardinality(DOMAIN map) = OffloadSlots
        BY <1>3, <4>2
      <4> QED
        BY <3>1, <4>3
    <3>2. CASE ~sized
      BY <1>2, <3>2
    <3> QED
      BY <3>1, <3>2
  <2> HIDE DEF r
  <2> QED
    BY <1>2, <2>1, <2>2 DEF OffloadInv
<1>5. CASE ~PutFails(s, k, sized)
  <2> DEFINE t == Put(s, k, b)
             more == With(map, k, b)
  <2>0. st' = [st EXCEPT !.s = t, !.map = more]
    BY <1>1, <1>5
  <2>1. st' = [unit |-> "offload", s |-> t, map |-> more, refused |-> none]
    <3> HIDE DEF t, more
    <3> QED
      BY <1>2, <2>0
  <2>2. t = [free |-> t.free, slots |-> t.slots, storage |-> t.storage]
    BY DEF Put
  <2>3. StoreIs(t, more)
    <3>1. CASE k \in DOMAIN map
      <4>1. t = [free |-> s.free, slots |-> With(s.slots, k, s.slots[k]),
                 storage |-> [s.storage EXCEPT ![s.slots[k]] = b]]
        BY <1>3, <3>1 DEF Put, With
      <4> HIDE DEF t
      <4> QED
        BY <1>2, <3>1, <4>1, PutKnown
    <3>2. CASE k \notin DOMAIN map
      <4>1. t = [free |-> Front(s.free), slots |-> With(s.slots, k, Last(s.free)),
                 storage |-> [s.storage EXCEPT ![Last(s.free)] = b]]
        BY <1>3, <3>2 DEF Put, With
      <4>2. s.free # <<>>
        BY <1>3, <1>5, <3>2 DEF PutFails
      <4> HIDE DEF t
      <4> QED
        BY <1>2, <3>2, <4>1, <4>2, PutNew
    <3> QED
      BY <3>1, <3>2
  <2> HIDE DEF t, more
  <2> QED
    BY <1>2, <2>1, <2>2, <2>3 DEF OffloadInv
<1> QED
  BY <1>4, <1>5

LEMMA DropKey ==
    ASSUME NEW s, NEW map, StoreIs(s, map), NEW key \in DOMAIN map, NEW t,
           t = [free |-> Append(s.free, s.slots[key]),
                slots |-> [k \in DOMAIN s.slots \ {key} |-> s.slots[k]], storage |-> s.storage]
    PROVE  StoreIs(t, [k \in DOMAIN map \ {key} |-> map[k]])
<1> DEFINE keys == DOMAIN map
           free == s.free
           slots == s.slots
           slot == slots[key]
           all == Append(free, slot)
           now == keys \ {key}
           fewer == [k \in now |-> map[k]]
           at == [k \in DOMAIN slots \ {key} |-> slots[k]]
<1>1. /\ free \in Seq(Nat) /\ IsInjective(free)
      /\ DOMAIN slots = keys /\ DOMAIN s.storage = Slots
      /\ \A k \in keys : /\ slots[k] \in Slots /\ slots[k] \notin ToSet(free)
                         /\ s.storage[slots[k]] = map[k]
      /\ \A k, l \in keys : slots[k] = slots[l] => k = l
      /\ ToSet(free) \subseteq Slots
      /\ IsFiniteSet(keys) /\ Len(free) + Cardinality(keys) = OffloadSlots
  BY DEF StoreIs
<1>2. t.free = all /\ t.slots = at /\ t.storage = s.storage
  OBVIOUS
<1>3. DOMAIN at = now /\ \A k \in now : at[k] = slots[k]
  BY <1>1
<1>4. DOMAIN fewer = now /\ \A k \in now : fewer[k] = map[k]
  OBVIOUS
<1>5. slot \in Slots /\ slot \notin ToSet(free) /\ slot \in Nat
  BY <1>1 DEF Slots
<1> HIDE DEF at, fewer, slot, free
<1>6. /\ all \in Seq(Nat) /\ Len(all) = Len(free) + 1 /\ IsInjective(all)
      /\ ToSet(all) = ToSet(free) \cup {slot}
  BY <1>1, <1>5, AppendDistinct
<1> HIDE DEF all
<1>7. \A k \in now : at[k] \in Slots /\ at[k] \notin ToSet(all) /\ s.storage[at[k]] = fewer[k]
  BY <1>1, <1>3, <1>4, <1>6 DEF slot
<1> HIDE DEF slots
<1>8. \A k, l \in now : at[k] = at[l] => k = l
  BY <1>1, <1>3
<1>9. IsFiniteSet(now) /\ Cardinality(now) = Cardinality(keys) - 1
  BY <1>1, FS_RemoveElement
<1>10. Len(all) + Cardinality(now) = OffloadSlots
  <2>1. Len(free) \in Nat /\ Cardinality(keys) \in Nat
    BY <1>1, FS_CardinalityType
  <2> QED
    BY <1>1, <1>6, <1>9, <2>1
<1>11. ToSet(all) \subseteq Slots
  BY <1>1, <1>5, <1>6
<1>12. StoreIs(t, fewer)
  BY <1>1, <1>2, <1>3, <1>4, <1>6, <1>7, <1>8, <1>9, <1>10, <1>11 DEF StoreIs
<1> QED
  BY <1>12 DEF fewer

LEMMA OffloadRemoveOK ==
    ASSUME OffloadInv(st), OffloadRemove
    PROVE  OffloadInv(st')
<1> DEFINE s == st.s
           map == st.map
           none == st.refused
<1>1. PICK k \in OffloadKeys :
        st' = [st EXCEPT !.s = RemoveKey(s, k), !.map = [x \in DOMAIN map \ {k} |-> map[x]]]
  BY DEF OffloadRemove
<1>2. /\ st = [unit |-> "offload", s |-> s, map |-> map, refused |-> none]
      /\ s = [free |-> s.free, slots |-> s.slots, storage |-> s.storage]
      /\ StoreIs(s, map) /\ none \in {0, OffloadSlots}
  BY DEF OffloadInv
<1> DEFINE t == RemoveKey(s, k)
           fewer == [x \in DOMAIN map \ {k} |-> map[x]]
<1> HIDE DEF s, map, none
<1>3. DOMAIN s.slots = DOMAIN map
  BY <1>2 DEF StoreIs
<1>4. st' = [unit |-> "offload", s |-> t, map |-> fewer, refused |-> none]
  <2> HIDE DEF t, fewer
  <2>1. st' = [st EXCEPT !.s = t, !.map = fewer]
    BY <1>1 DEF t, fewer
  <2> QED
    BY <1>2, <2>1
<1>5. CASE k \in DOMAIN map
  <2>1. t = [free |-> Append(s.free, s.slots[k]),
             slots |-> [x \in DOMAIN s.slots \ {k} |-> s.slots[x]], storage |-> s.storage]
    BY <1>2, <1>3, <1>5 DEF RemoveKey
  <2> HIDE DEF t
  <2>2. StoreIs(t, fewer)
    BY <1>2, <1>5, <2>1, DropKey
  <2>3. t = [free |-> t.free, slots |-> t.slots, storage |-> t.storage]
    BY <2>1
  <2> HIDE DEF fewer
  <2> QED
    BY <1>2, <1>4, <2>2, <2>3 DEF OffloadInv
<1>6. CASE k \notin DOMAIN map
  <2>1. t = s
    BY <1>3, <1>6 DEF RemoveKey
  <2>2. DOMAIN fewer = DOMAIN map /\ \A x \in DOMAIN map : fewer[x] = map[x]
    BY <1>6
  <2> HIDE DEF fewer, t
  <2>3. StoreIs(s, fewer)
    BY <1>2, <2>2 DEF StoreIs
  <2> QED
    BY <1>2, <1>4, <2>1, <2>3 DEF OffloadInv
<1> QED
  BY <1>5, <1>6

LEMMA OffloadInvSound ==
    ASSUME OffloadInv(st)
    PROVE  OffloadSound
<1> DEFINE s == st.s
           map == st.map
<1>1. StoreIs(s, map) /\ st.refused \in {0, OffloadSlots}
  BY DEF OffloadInv
<1>2. /\ DOMAIN s.slots = DOMAIN map /\ s.free \in Seq(Nat)
      /\ \A k \in DOMAIN map : s.storage[s.slots[k]] = map[k]
      /\ IsFiniteSet(DOMAIN map) /\ Len(s.free) + Cardinality(DOMAIN map) = OffloadSlots
  BY <1>1 DEF StoreIs
<1> HIDE DEF s, map
<1>3. \A k \in OffloadKeys : Get(s, k) = IF k \in DOMAIN map THEN <<map[k]>> ELSE <<>>
  BY <1>2 DEF Get
<1>4. Cardinality(DOMAIN map) \in Nat /\ Len(s.free) \in Nat /\ OffloadSlots \in Nat
  BY <1>2, FS_CardinalityType, ContainersTyped
<1>5. Len(s.free) = OffloadSlots - Cardinality(DOMAIN map)
  BY <1>2, <1>4
<1>6. Usage(s) = [used |-> Cardinality(DOMAIN map), free |-> OffloadSlots - Cardinality(DOMAIN map)]
  <2>1. Usage(s) = [used |-> Cardinality(DOMAIN s.slots), free |-> Len(s.free)]
    BY DEF Usage
  <2> QED
    BY <1>2, <1>5, <2>1
<1> QED
  BY <1>1, <1>3, <1>6 DEF OffloadSound, s, map

-----------------------------------------------------------------------------
(* A batch split.                                                          *)

Entries == [id : Nat, prefill : BOOLEAN, tokens : Nat]

SplitPlans == [prefill : Seq(Nat), decode : Seq(Nat), prefillTokens : Nat, decodeTokens : Nat]

(* The sequences of the first i entries are in the plan p, and their       *)
(* tokens counted, total of them.                                          *)
Planned(p, batch, i, total) ==
    /\ p \in SplitPlans
    /\ \A j \in 1..i : batch[j].id \in ToSet(IF batch[j].prefill THEN p.prefill ELSE p.decode)
    /\ Len(p.prefill) + Len(p.decode) = i
    /\ p.prefillTokens + p.decodeTokens = total

LEMMA PlanOne ==
    ASSUME NEW batch, NEW p, NEW i \in Nat, NEW total \in Nat, Planned(p, batch, i, total),
           batch[i + 1] \in Entries
    PROVE  Planned(PlanWith(p, batch[i + 1]), batch, i + 1, total + batch[i + 1].tokens)
<1> DEFINE e == batch[i + 1]
           g == PlanWith(p, e)
           id == e.id
           tok == e.tokens
           pre == p.prefill
           dec == p.decode
           x == p.prefillTokens
           y == p.decodeTokens
<1>1. id \in Nat /\ tok \in Nat /\ e.prefill \in BOOLEAN
  BY DEF Entries
<1>2. /\ p \in SplitPlans /\ pre \in Seq(Nat) /\ dec \in Seq(Nat)
      /\ x \in Nat /\ y \in Nat
      /\ \A j \in 1..i : batch[j].id \in ToSet(IF batch[j].prefill THEN pre ELSE dec)
      /\ Len(pre) + Len(dec) = i
      /\ x + y = total
      /\ Len(pre) \in Nat /\ Len(dec) \in Nat
  BY DEF Planned, SplitPlans
<1>3. \A j \in 1..(i + 1) : j = i + 1 \/ j \in 1..i
  OBVIOUS
<1>4. CASE e.prefill
  <2> DEFINE a == Append(pre, id)
             n == x + tok
  <2>1. g = [p EXCEPT !.prefill = a, !.prefillTokens = n]
    BY <1>4 DEF PlanWith
  <2>2. e.id = id /\ e.tokens = tok /\ e = batch[i + 1]
    OBVIOUS
  <2>3. pre = p.prefill /\ dec = p.decode /\ x = p.prefillTokens /\ y = p.decodeTokens
    OBVIOUS
  <2> HIDE DEF e, g, id, tok, pre, dec, x, y
  <2>4. a \in Seq(Nat) /\ ToSet(a) = ToSet(pre) \cup {id}
    BY <1>1, <1>2, AppendElements
  <2>5. Len(a) = Len(pre) + 1 /\ n \in Nat
    BY <1>1, <1>2, AppendProperties
  <2>6. n + y = total + tok
    BY <1>1, <1>2
  <2> HIDE DEF a, n
  <2>7. g \in SplitPlans /\ g.prefill = a /\ g.decode = dec /\ g.prefillTokens = n /\ g.decodeTokens = y
    BY <1>2, <2>1, <2>3, <2>4, <2>5 DEF SplitPlans
  <2>8. ASSUME NEW j \in 1..(i + 1)
        PROVE  batch[j].id \in ToSet(IF batch[j].prefill THEN a ELSE dec)
    <3>1. CASE j = i + 1
      BY <1>4, <2>2, <2>4, <3>1
    <3>2. CASE j \in 1..i
      BY <1>2, <2>4, <3>2
    <3> QED
      BY <1>3, <3>1, <3>2
  <2>9. Len(a) + Len(dec) = i + 1
    BY <1>2, <2>5
  <2> QED
    BY <2>2, <2>6, <2>7, <2>8, <2>9 DEF Planned, g
<1>5. CASE ~e.prefill
  <2> DEFINE a == Append(dec, id)
             n == y + tok
  <2>1. g = [p EXCEPT !.decode = a, !.decodeTokens = n]
    BY <1>5 DEF PlanWith
  <2>2. e.id = id /\ e.tokens = tok /\ e = batch[i + 1]
    OBVIOUS
  <2>3. pre = p.prefill /\ dec = p.decode /\ x = p.prefillTokens /\ y = p.decodeTokens
    OBVIOUS
  <2> HIDE DEF e, g, id, tok, pre, dec, x, y
  <2>4. a \in Seq(Nat) /\ ToSet(a) = ToSet(dec) \cup {id}
    BY <1>1, <1>2, AppendElements
  <2>5. Len(a) = Len(dec) + 1 /\ n \in Nat
    BY <1>1, <1>2, AppendProperties
  <2>6. x + n = total + tok
    BY <1>1, <1>2
  <2> HIDE DEF a, n
  <2>7. g \in SplitPlans /\ g.prefill = pre /\ g.decode = a /\ g.prefillTokens = x /\ g.decodeTokens = n
    BY <1>2, <2>1, <2>3, <2>4, <2>5 DEF SplitPlans
  <2>8. ASSUME NEW j \in 1..(i + 1)
        PROVE  batch[j].id \in ToSet(IF batch[j].prefill THEN pre ELSE a)
    <3>1. CASE j = i + 1
      BY <1>5, <2>2, <2>4, <3>1
    <3>2. CASE j \in 1..i
      BY <1>2, <2>4, <3>2
    <3> QED
      BY <1>3, <3>1, <3>2
  <2>9. Len(pre) + Len(a) = i + 1
    <3>1. Len(pre) + Len(dec) = i /\ Len(pre) \in Nat /\ Len(dec) \in Nat
      BY <1>2
    <3> QED
      BY <2>5, <3>1
  <2> QED
    BY <2>2, <2>6, <2>7, <2>8, <2>9 DEF Planned, g
<1> QED
  BY <1>4, <1>5

(* The loop of the plan, as a function of the entries taken.               *)
LEMMA PlanLoop ==
    ASSUME NEW batch \in Seq(Entries)
    PROVE  \E f : /\ Plan(batch, TRUE) = f[Len(batch)] /\ f[0] = NoPlan
                  /\ \A i \in 1..Len(batch) : f[i] = PlanWith(f[i - 1], batch[i])
<1> DEFINE n == Len(batch)
           rounds == [i \in 1..n |-> [op |-> "plan", item |-> batch[i]]]
           Rec(f) == f = [i \in 0..n |-> IF i = 0 THEN NoPlan ELSE PlanWith(f[i - 1], batch[i])]
           run == CHOOSE f : Rec(f)
<1>0. n \in Nat
  OBVIOUS
<1>1. \A i \in 1..n : \A x : Round(x, rounds[i]) = PlanWith(x, batch[i])
  BY DEF Round
<1>2. PICK f : IsLoop(f, NoPlan, rounds, n)
  BY <1>0, LoopExists
<1>3. Rec(f)
  <2>1. f = [i \in 0..n |-> IF i = 0 THEN NoPlan ELSE Round(f[i - 1], rounds[i])]
    BY <1>2 DEF IsLoop
  <2>2. \A i \in 0..n : i # 0 => i \in 1..n
    BY <1>0
  <2> HIDE DEF rounds, n
  <2>3. \A i \in 0..n : f[i] = IF i = 0 THEN NoPlan ELSE PlanWith(f[i - 1], batch[i])
    BY <1>1, <2>1, <2>2
  <2> QED
    BY <2>1, <2>3
<1>4. Rec(run)
  <2> HIDE DEF Rec
  <2> QED
    BY <1>3
<1>5. Plan(batch, TRUE) = run[n]
  BY DEF Plan
<1>6. run[0] = NoPlan /\ \A i \in 1..n : run[i] = PlanWith(run[i - 1], batch[i])
  <2> HIDE DEF run
  <2> QED
    BY <1>0, <1>4
<1> HIDE DEF run
<1> QED
  BY <1>5, <1>6

LEMMA TokensLoop ==
    ASSUME NEW batch \in Seq(Entries)
    PROVE  \E f : /\ TotalTokens(batch) = f[Len(batch)] /\ f[0] = 0
                  /\ \A i \in 1..Len(batch) : f[i] = f[i - 1] + batch[i].tokens
<1> DEFINE n == Len(batch)
           rounds == [i \in 1..n |-> [op |-> "add", item |-> batch[i].tokens]]
           Rec(f) == f = [i \in 0..n |-> IF i = 0 THEN 0 ELSE f[i - 1] + batch[i].tokens]
           run == CHOOSE f : Rec(f)
<1>0. n \in Nat
  OBVIOUS
<1>1. \A i \in 1..n : \A x : Round(x, rounds[i]) = x + batch[i].tokens
  BY DEF Round
<1>2. PICK f : IsLoop(f, 0, rounds, n)
  BY <1>0, LoopExists
<1>3. Rec(f)
  <2>1. f = [i \in 0..n |-> IF i = 0 THEN 0 ELSE Round(f[i - 1], rounds[i])]
    BY <1>2 DEF IsLoop
  <2>2. \A i \in 0..n : i # 0 => i \in 1..n
    BY <1>0
  <2> HIDE DEF rounds, n
  <2>3. \A i \in 0..n : f[i] = IF i = 0 THEN 0 ELSE f[i - 1] + batch[i].tokens
    BY <1>1, <2>1, <2>2
  <2> QED
    BY <2>1, <2>3
<1>4. Rec(run)
  <2> HIDE DEF Rec
  <2> QED
    BY <1>3
<1>5. TotalTokens(batch) = run[n]
  BY DEF TotalTokens
<1>6. run[0] = 0 /\ \A i \in 1..n : run[i] = run[i - 1] + batch[i].tokens
  <2> HIDE DEF run
  <2> QED
    BY <1>0, <1>4
<1> HIDE DEF run
<1> QED
  BY <1>5, <1>6

LEMMA PlanWhole ==
    ASSUME NEW batch \in Seq(Entries)
    PROVE  Planned(Plan(batch, TRUE), batch, Len(batch), TotalTokens(batch))
<1> DEFINE n == Len(batch)
<1>0. n \in Nat /\ \A i \in 1..n : batch[i] \in Entries
  BY LenProperties, ElementOfSeq
<1>1. PICK f : /\ Plan(batch, TRUE) = f[n] /\ f[0] = NoPlan
               /\ \A i \in 1..n : f[i] = PlanWith(f[i - 1], batch[i])
  BY PlanLoop
<1>2. PICK g : /\ TotalTokens(batch) = g[n] /\ g[0] = 0
               /\ \A i \in 1..n : g[i] = g[i - 1] + batch[i].tokens
  BY TokensLoop
<1> HIDE DEF n
<1> DEFINE H == {i \in 0..n : g[i] \in Nat /\ Planned(f[i], batch, i, g[i])}
<1>3. 0 \in H
  <2>1. NoPlan \in SplitPlans /\ NoPlan.prefill = <<>> /\ NoPlan.decode = <<>>
        /\ NoPlan.prefillTokens = 0 /\ NoPlan.decodeTokens = 0
    BY DEF NoPlan, SplitPlans
  <2>2. Planned(NoPlan, batch, 0, 0)
    BY <2>1 DEF Planned
  <2> QED
    BY <1>0, <1>1, <1>2, <2>2
<1>4. ASSUME NEW i \in 1..n, i - 1 \in H
      PROVE  i \in H
  <2> DEFINE h == i - 1
             x == f[h]
             y == g[h]
  <2>1. h \in Nat /\ i = h + 1 /\ y \in Nat /\ Planned(x, batch, h, y) /\ batch[i] \in Entries /\ i \in 0..n
    BY <1>0, <1>4
  <2>2. f[i] = PlanWith(x, batch[i]) /\ g[i] = y + batch[i].tokens
    BY <1>1, <1>2
  <2>3. batch[h + 1] \in Entries
    BY <2>1
  <2> HIDE DEF h, x, y
  <2>4. Planned(PlanWith(x, batch[h + 1]), batch, h + 1, y + batch[h + 1].tokens)
    BY <2>1, <2>3, PlanOne
  <2>5. y + batch[i].tokens \in Nat
    BY <2>1 DEF Entries
  <2> QED
    BY <2>1, <2>2, <2>4, <2>5
<1>5. H \subseteq 0..n
  OBVIOUS
<1> HIDE DEF H
<1>6. H = 0..n
  BY <1>0, <1>3, <1>4, <1>5, LeastFailure
<1>7. n \in H
  BY <1>0, <1>6
<1> QED
  BY <1>1, <1>2, <1>7 DEF H, n

SplitInv(s) ==
    /\ s = [unit |-> "overlap", batch |-> s.batch, plan |-> s.plan]
    /\ s.batch \in Seq(Entries)
    /\ s.plan = <<>> \/ s.plan = <<Plan(s.batch, TRUE)>>

LEMMA SplitStartOK ==
    ASSUME NEW b \in OverlapBatches
    PROVE  SplitInv(SplitStart(b))
BY ContainersTyped DEF SplitInv, SplitStart, Entries

LEMMA SplitBatchOK ==
    ASSUME SplitInv(st), SplitBatch
    PROVE  SplitInv(st')
<1> DEFINE b == st.batch
           p == <<Plan(b, TRUE)>>
           e == st.plan
<1>1. st = [unit |-> "overlap", batch |-> b, plan |-> e] /\ b \in Seq(Entries)
  BY DEF SplitInv
<1>2. st' = [st EXCEPT !.plan = p]
  BY DEF SplitBatch
<1> HIDE DEF b, p, e
<1>3. st' = [unit |-> "overlap", batch |-> b, plan |-> p]
  BY <1>1, <1>2
<1>4. st'.batch = b /\ st'.plan = p
  BY <1>3
<1>5. p = <<Plan(b, TRUE)>>
  BY DEF p
<1> QED
  BY <1>1, <1>3, <1>4, <1>5 DEF SplitInv

LEMMA SplitInvSound ==
    ASSUME SplitInv(st)
    PROVE  SplitSound
<1> SUFFICES ASSUME st.plan # <<>> PROVE SplitSound
  BY DEF SplitSound
<1> DEFINE b == st.batch
           p == Plan(b, TRUE)
<1>1. b \in Seq(Entries) /\ st.plan = <<p>> /\ DOMAIN b = 1..Len(b)
  BY LenProperties DEF SplitInv
<1>2. st.plan[1] = p
  BY <1>1
<1>3. Planned(p, b, Len(b), TotalTokens(b))
  BY <1>1, PlanWhole
<1> HIDE DEF b, p
<1>4. \A i \in DOMAIN b : b[i].id \in ToSet(IF b[i].prefill THEN p.prefill ELSE p.decode)
  BY <1>1, <1>3 DEF Planned
<1>5. Len(p.prefill) + Len(p.decode) = Len(b) /\ p.prefillTokens + p.decodeTokens = TotalTokens(b)
  BY <1>3 DEF Planned
<1> QED
  BY <1>2, <1>4, <1>5 DEF SplitSound, b

-----------------------------------------------------------------------------
(* The scales of the cache on the device.                                  *)

Scales == [1..CacheLayers -> Nat \ {0}]

ScaledCaches == [ok : BOOLEAN, held : Int, kScales : Scales, vScales : Scales]

ScalesInv(s) ==
    /\ s = [unit |-> "scales", c |-> s.c, dropped |-> s.dropped]
    /\ s.c \in ScaledCaches /\ s.dropped \in BOOLEAN
    /\ s.c.ok => s.c.held = IF s.dropped THEN 0 ELSE 2 * CacheLayers

LEMMA ScalesStartOK ==
    ASSUME NEW budget \in 0..(2 * CacheLayers)
    PROVE  ScalesInv(ScalesStart(budget))
<1> DEFINE n == CacheLayers
           m == Min({2 * n, budget})
           ones == [l \in 1..n |-> 1]
           c == [ok |-> 2 * n <= budget, held |-> m, kScales |-> ones, vScales |-> ones]
<1>1. n \in Nat /\ 2 * n \in Nat /\ budget \in Nat
  BY ContainersTyped
<1>2. m = Min({2 * n, budget})
  BY DEF Min, Min
<1>3. Min({2 * n, budget}) \in {2 * n, budget} /\ \A y \in {2 * n, budget} : Min({2 * n, budget}) <= y
  <2>1. \E x \in {2 * n, budget} : \A y \in {2 * n, budget} : x <= y
    <3>1. 2 * n <= budget \/ budget <= 2 * n
      BY <1>1
    <3>2. 2 * n <= 2 * n /\ budget <= budget
      BY <1>1
    <3> QED
      BY <3>1, <3>2
  <2> QED
    BY <2>1 DEF Min
<1>4. m \in Int /\ (2 * n <= budget => m = 2 * n)
  BY <1>1, <1>2, <1>3
<1>5. ones \in Scales
  BY DEF Scales
<1>6. ScalesStart(budget) = [unit |-> "scales", c |-> c, dropped |-> FALSE]
  BY DEF ScalesStart, NewGpuKVCache
<1> HIDE DEF m, ones, n
<1>7. c \in ScaledCaches /\ (c.ok => c.held = 2 * n)
  <2> DEFINE ok == 2 * n <= budget
  <2>1. ok \in BOOLEAN
    OBVIOUS
  <2> HIDE DEF ok
  <2> QED
    BY <1>4, <1>5, <2>1 DEF ScaledCaches, ok
<1> HIDE DEF c
<1> QED
  BY <1>6, <1>7 DEF ScalesInv, n

LEMMA SetOneOK ==
    ASSUME NEW c \in ScaledCaches, NEW l \in 1..CacheLayers, NEW k \in Int, NEW v \in Int
    PROVE  LET d == SetKvScales(c, l, k, v)
           IN  d \in ScaledCaches /\ d.ok = c.ok /\ d.held = c.held
<1> DEFINE x == IF k > 0 THEN k ELSE c.kScales[l]
           y == IF v > 0 THEN v ELSE c.vScales[l]
           a == [c.kScales EXCEPT ![l] = x]
           b == [c.vScales EXCEPT ![l] = y]
<1>1. SetKvScales(c, l, k, v) = [c EXCEPT !.kScales = a, !.vScales = b]
  BY DEF SetKvScales
<1>2. c.kScales \in Scales /\ c.vScales \in Scales
  BY DEF ScaledCaches
<1>3. x \in Nat \ {0} /\ y \in Nat \ {0}
  <2> DEFINE f == c.kScales
             g == c.vScales
  <2>1. f[l] \in Nat \ {0} /\ g[l] \in Nat \ {0}
    BY <1>2 DEF Scales
  <2> HIDE DEF f, g
  <2>2. x = (IF k > 0 THEN k ELSE f[l]) /\ y = IF v > 0 THEN v ELSE g[l]
    BY DEF f, g
  <2> HIDE DEF x, y
  <2> QED
    BY <2>1, <2>2
<1> HIDE DEF x, y
<1>4. a \in Scales /\ b \in Scales
  BY <1>2, <1>3 DEF Scales
<1> HIDE DEF a, b
<1> DEFINE d == [c EXCEPT !.kScales = a, !.vScales = b]
<1>5. d \in ScaledCaches /\ d.ok = c.ok /\ d.held = c.held
  BY <1>4 DEF ScaledCaches
<1> QED
  BY <1>1, <1>5

ScalesGiven(c, ks, vs) ==
    Len(ks) \in Nat /\ Len(ks) = Len(c.kScales) /\ Len(vs) = Len(c.vScales)

ScalesRun(f, c, ks, vs) ==
    /\ SetAllKvScales(c, ks, vs) = f[Len(ks)] /\ f[0] = c
    /\ \A i \in 1..Len(ks) : f[i] = SetKvScales(f[i - 1], i, ks[i], vs[i])

LEMMA SetAllLoop ==
    ASSUME NEW c, NEW ks, NEW vs, ScalesGiven(c, ks, vs)
    PROVE  \E f : ScalesRun(f, c, ks, vs)
<1> DEFINE n == Len(ks)
           rounds == [i \in 1..n |-> [op |-> "scales", item |-> [l |-> i, k |-> ks[i], v |-> vs[i]]]]
           Rec(f) == f = [l \in 0..n |-> IF l = 0 THEN c ELSE SetKvScales(f[l - 1], l, ks[l], vs[l])]
           run == CHOOSE f : Rec(f)
<1>0. n \in Nat /\ Len(ks) = Len(c.kScales) /\ Len(vs) = Len(c.vScales)
  BY DEF ScalesGiven
<1>1. \A i \in 1..n : \A x : Round(x, rounds[i]) = SetKvScales(x, i, ks[i], vs[i])
  BY DEF Round
<1>2. PICK f : IsLoop(f, c, rounds, n)
  BY <1>0, LoopExists
<1>3. Rec(f)
  <2>1. f = [i \in 0..n |-> IF i = 0 THEN c ELSE Round(f[i - 1], rounds[i])]
    BY <1>2 DEF IsLoop
  <2>2. \A i \in 0..n : i # 0 => i \in 1..n
    BY <1>0
  <2> HIDE DEF rounds, n
  <2>3. \A i \in 0..n : f[i] = IF i = 0 THEN c ELSE SetKvScales(f[i - 1], i, ks[i], vs[i])
    BY <1>1, <2>1, <2>2
  <2> QED
    BY <2>1, <2>3
<1>4. Rec(run)
  <2> HIDE DEF Rec
  <2> QED
    BY <1>3
<1>5. SetAllKvScales(c, ks, vs) = run[n]
  BY <1>0 DEF SetAllKvScales
<1>6. run[0] = c /\ \A i \in 1..n : run[i] = SetKvScales(run[i - 1], i, ks[i], vs[i])
  <2> HIDE DEF run, n
  <2>1. \A i \in 0..n : run[i] = IF i = 0 THEN c ELSE SetKvScales(run[i - 1], i, ks[i], vs[i])
    BY <1>4
  <2>2. 0 \in 0..n /\ \A i \in 1..n : i \in 0..n /\ i # 0
    BY <1>0
  <2> QED
    BY <2>1, <2>2
<1> HIDE DEF run
<1> QED
  BY <1>5, <1>6 DEF ScalesRun

LEMMA SetAllOK ==
    ASSUME NEW c \in ScaledCaches, NEW n \in 0..CacheLayers,
           NEW ks \in [1..n -> Int], NEW vs \in [1..CacheLayers -> Int]
    PROVE  LET d == SetAllKvScales(c, ks, vs)
           IN  d \in ScaledCaches /\ d.ok = c.ok /\ d.held = c.held
<1>0. CacheLayers \in Nat /\ n \in Nat
  BY ContainersTyped
<1>1. /\ Len(ks) = n /\ Len(vs) = CacheLayers
      /\ Len(c.kScales) = CacheLayers /\ Len(c.vScales) = CacheLayers
  <2>1. ks \in Seq(Int) /\ vs \in Seq(Int) /\ c.kScales \in Seq(Nat) /\ c.vScales \in Seq(Nat)
    BY <1>0, SeqDef DEF ScaledCaches, Scales
  <2>2. c.kScales \in [1..CacheLayers -> Nat \ {0}] /\ c.vScales \in [1..CacheLayers -> Nat \ {0}]
    BY DEF ScaledCaches, Scales
  <2> QED
    BY <1>0, <2>1, <2>2, LenProperties
<1>2. CASE n # CacheLayers
  BY <1>1, <1>2 DEF SetAllKvScales
<1>3. CASE n = CacheLayers
  <2>1. PICK f : /\ SetAllKvScales(c, ks, vs) = f[n] /\ f[0] = c
                 /\ \A i \in 1..n : f[i] = SetKvScales(f[i - 1], i, ks[i], vs[i])
    <3>1. ScalesGiven(c, ks, vs)
      BY <1>0, <1>1, <1>3 DEF ScalesGiven
    <3>2. PICK f : ScalesRun(f, c, ks, vs)
      BY <3>1, SetAllLoop
    <3> QED
      BY <1>1, <3>2 DEF ScalesRun
  <2> DEFINE Good(x) == x \in ScaledCaches /\ x.ok = c.ok /\ x.held = c.held
             H == {i \in 0..n : Good(f[i])}
  <2>2. 0 \in H
    BY <1>0, <2>1
  <2>3. ASSUME NEW i \in 1..n, i - 1 \in H
        PROVE  i \in H
    <3> DEFINE x == f[i - 1]
               k == ks[i]
               v == vs[i]
               d == SetKvScales(x, i, k, v)
    <3>1. x \in ScaledCaches /\ x.ok = c.ok /\ x.held = c.held /\ i \in 1..CacheLayers /\ k \in Int /\ v \in Int
      BY <1>3, <2>3
    <3>2. f[i] = d
      BY <2>1
    <3> HIDE DEF x, k, v
    <3>3. d \in ScaledCaches /\ d.ok = x.ok /\ d.held = x.held
      BY <3>1, SetOneOK
    <3>4. i \in 0..n
      BY <1>0
    <3> HIDE DEF d
    <3> QED
      BY <3>1, <3>2, <3>3, <3>4
  <2>4. H \subseteq 0..n
    OBVIOUS
  <2> HIDE DEF H
  <2>5. H = 0..n
    BY <1>0, <2>2, <2>3, <2>4, LeastFailure
  <2>6. Good(f[n])
    BY <1>0, <2>5 DEF H
  <2> QED
    BY <2>1, <2>6
<1> QED
  BY <1>2, <1>3

LEMMA ScalesWith ==
    ASSUME NEW s, ScalesInv(s), NEW d \in ScaledCaches, d.ok = s.c.ok, d.held = s.c.held,
           NEW t, t = [s EXCEPT !.c = d]
    PROVE  ScalesInv(t)
<1> DEFINE x == s.dropped
           c == s.c
<1>1. s = [unit |-> "scales", c |-> c, dropped |-> x] /\ x \in BOOLEAN
      /\ (c.ok => c.held = IF x THEN 0 ELSE 2 * CacheLayers) /\ d.ok = c.ok /\ d.held = c.held
  BY DEF ScalesInv
<1> HIDE DEF x, c
<1>2. t = [unit |-> "scales", c |-> d, dropped |-> x]
  BY <1>1
<1>3. t.c = d /\ t.dropped = x
  BY <1>2
<1> QED
  BY <1>1, <1>2, <1>3 DEF ScalesInv

LEMMA ScalesSetOK ==
    ASSUME ScalesInv(st), ScalesSet
    PROVE  ScalesInv(st')
<1>0. st.c \in ScaledCaches /\ GivenScales \subseteq Int
  BY ContainersTyped DEF ScalesInv
<1>1. ASSUME NEW l \in 1..CacheLayers, NEW k \in GivenScales, NEW v \in GivenScales,
             st' = [st EXCEPT !.c = SetKvScales(st.c, l, k, v)]
      PROVE  ScalesInv(st')
  <2> DEFINE d == SetKvScales(st.c, l, k, v)
  <2>1. d \in ScaledCaches /\ d.ok = st.c.ok /\ d.held = st.c.held
    BY <1>0, SetOneOK
  <2>2. st' = [st EXCEPT !.c = d]
    BY <1>1
  <2> HIDE DEF d
  <2> QED
    BY <2>1, <2>2, ScalesWith
<1>2. ASSUME NEW n \in 0..CacheLayers,
             NEW ks \in [1..n -> GivenScales], NEW vs \in [1..CacheLayers -> GivenScales],
             st' = [st EXCEPT !.c = SetAllKvScales(st.c, ks, vs)]
      PROVE  ScalesInv(st')
  <2> DEFINE d == SetAllKvScales(st.c, ks, vs)
  <2>1. ks \in [1..n -> Int] /\ vs \in [1..CacheLayers -> Int]
    BY <1>0
  <2>2. d \in ScaledCaches /\ d.ok = st.c.ok /\ d.held = st.c.held
    BY <1>0, <2>1, SetAllOK
  <2>3. st' = [st EXCEPT !.c = d]
    BY <1>2
  <2> HIDE DEF d
  <2> QED
    BY <2>2, <2>3, ScalesWith
<1> QED
  BY <1>1, <1>2 DEF ScalesSet

LEMMA ScalesDropOK ==
    ASSUME ScalesInv(st), ScalesDrop
    PROVE  ScalesInv(st')
<1> DEFINE c == st.c
           x == st.dropped
           z == c.held - 2 * Len(c.kScales)
           d == [c EXCEPT !.held = z]
<1>1. st = [unit |-> "scales", c |-> c, dropped |-> x] /\ c \in ScaledCaches
      /\ c.held = 2 * CacheLayers /\ c.ok
  BY DEF ScalesInv, ScalesDrop
<1>2. st' = [st EXCEPT !.c = d, !.dropped = TRUE]
  BY DEF ScalesDrop, DropCache
<1>3. CacheLayers \in Nat
  BY ContainersTyped
<1> HIDE DEF c, x
<1>4. Len(c.kScales) = CacheLayers
  <2>1. c.kScales \in [1..CacheLayers -> Nat \ {0}]
    BY <1>1 DEF ScaledCaches, Scales
  <2>2. c.kScales \in Seq(Nat \ {0})
    BY <1>3, <2>1, SeqDef
  <2> QED
    BY <1>3, <2>1, <2>2, LenProperties
<1>5. z = 0
  BY <1>1, <1>3, <1>4
<1> HIDE DEF z
<1>6. d \in ScaledCaches /\ d.held = 0
  BY <1>1, <1>5 DEF ScaledCaches
<1> HIDE DEF d
<1>7. st' = [unit |-> "scales", c |-> d, dropped |-> TRUE]
  BY <1>1, <1>2
<1>8. st'.c = d /\ st'.dropped = TRUE
  BY <1>7
<1> QED
  BY <1>6, <1>7, <1>8 DEF ScalesInv

LEMMA ScalesInvSound ==
    ASSUME ScalesInv(st)
    PROVE  ScalesSound
<1>1. st.c.kScales \in Scales /\ st.c.vScales \in Scales
  BY DEF ScalesInv, ScaledCaches
<1>2. \A l \in 1..CacheLayers : st.c.kScales[l] > 0 /\ st.c.vScales[l] > 0
  <2> DEFINE a == st.c.kScales
             b == st.c.vScales
  <2>1. a \in Scales /\ b \in Scales
    BY <1>1
  <2> HIDE DEF a, b
  <2>2. \A l \in 1..CacheLayers : a[l] > 0 /\ b[l] > 0
    BY <2>1 DEF Scales
  <2> QED
    BY <2>2 DEF a, b
<1>3. st.c.ok => st.c.held = IF st.dropped THEN 0 ELSE 2 * CacheLayers
  BY DEF ScalesInv
<1> QED
  BY <1>2, <1>3 DEF ScalesSound

-----------------------------------------------------------------------------
(* The parallel plans.                                                     *)

ShardStart(w, t, r) == r * (t \div w) + (IF r <= t % w THEN r ELSE t % w)

LEMMA Division ==
    ASSUME NEW w \in Nat \ {0}, NEW t \in Nat
    PROVE  /\ t \div w \in Nat /\ t % w \in 0..(w - 1)
           /\ (t \div w) * w \in Nat /\ w * (t \div w) = (t \div w) * w
           /\ t = (t \div w) * w + (t % w)
<1> DEFINE b == t \div w
           m == t % w
<1>1. b \in Nat /\ m \in 0..(w - 1)
  OBVIOUS
<1>2. t = w * b + m
  OBVIOUS
<1> HIDE DEF b, m
<1>3. w * b = b * w /\ b * w \in Nat
  BY <1>1
<1> QED
  BY <1>1, <1>2, <1>3 DEF b, m

LEMMA ShardIs ==
    ASSUME NEW w \in Nat \ {0}, NEW t \in Nat, NEW r \in Nat
    PROVE  /\ ShardRange(w, r, t) = ShardStart(w, t, r)..(ShardStart(w, t, r + 1) - 1)
           /\ ShardStart(w, t, r) \in Nat /\ ShardStart(w, t, r + 1) \in Nat
           /\ ShardStart(w, t, r + 1) - ShardStart(w, t, r) \in {t \div w, t \div w + 1}
<1> DEFINE b == t \div w
           m == t % w
           p == r * b
           i == IF r <= m THEN r ELSE m
           l == b + (IF r < m THEN 1 ELSE 0)
<1>1. b \in Nat /\ m \in Nat /\ m < w
  BY Division
<1>2. Min({r, m}) = i
  <2>1. Min({r, m}) = Min({r, m})
    BY DEF Min, Min
  <2> QED
    BY <1>1, <2>1, MinPair
<1>3. ShardRange(w, r, t) = (p + Min({r, m}))..((p + Min({r, m})) + l - 1)
  BY DEF ShardRange
<1>4. ShardStart(w, t, r) = p + i /\ ShardStart(w, t, r + 1) = (r + 1) * b + (IF r + 1 <= m THEN r + 1 ELSE m)
  BY DEF ShardStart
<1> HIDE DEF b, m
<1>5. p \in Nat /\ (r + 1) * b = p + b
  BY <1>1
<1> HIDE DEF p
<1>6. (p + b) + (IF r + 1 <= m THEN r + 1 ELSE m) = (p + i) + l /\ p + i \in Nat /\ (p + i) + l \in Nat
      /\ l \in {b, b + 1} /\ i \in Nat
  BY <1>1, <1>5
<1> HIDE DEF i, l
<1>7. l \in Nat
  BY <1>1, <1>6
<1>8. ((p + i) + l) - (p + i) = l
  BY <1>6, <1>7
<1> DEFINE s == p + i
           e == s + l
<1>9. ShardStart(w, t, r) = s /\ ShardStart(w, t, r + 1) = e
  BY <1>4, <1>5, <1>6
<1>10. ShardRange(w, r, t) = s..(e - 1)
  <2> DEFINE mi == Min({r, m})
  <2>1. mi = i /\ ShardRange(w, r, t) = (p + mi)..((p + mi) + l - 1)
    BY <1>2, <1>3
  <2> HIDE DEF mi
  <2>2. p + mi = s /\ (p + mi) + l - 1 = e - 1
    BY <1>5, <1>6, <1>7, <2>1
  <2> HIDE DEF s, e
  <2>3. ShardRange(w, r, t) = s..((p + mi) + l - 1)
    BY <2>1, <2>2, Zenon
  <2> QED
    BY <2>2, <2>3, Zenon
<1>11. s \in Nat /\ e \in Nat /\ e - s \in {b, b + 1}
  BY <1>6, <1>8
<1> HIDE DEF s, e
<1> QED
  BY <1>9, <1>10, <1>11 DEF b

LEMMA ShardEnds ==
    ASSUME NEW w \in Nat \ {0}, NEW t \in Nat
    PROVE  ShardStart(w, t, 0) = 0 /\ ShardStart(w, t, w) = t
<1> DEFINE b == t \div w
           m == t % w
<1>1. b \in Nat /\ m \in Nat /\ m < w /\ w * b + m = t
  BY Division
<1>2. ShardStart(w, t, 0) = 0 * b + (IF 0 <= m THEN 0 ELSE m)
      /\ ShardStart(w, t, w) = w * b + (IF w <= m THEN w ELSE m)
  BY DEF ShardStart
<1> HIDE DEF b, m
<1>3. 0 * b = 0 /\ 0 <= m /\ ~(w <= m)
  BY <1>1
<1> QED
  BY <1>1, <1>2, <1>3

LEMMA ShardOrder ==
    ASSUME NEW w \in Nat \ {0}, NEW t \in Nat, NEW r \in Nat, NEW q \in Nat, r < q
    PROVE  ShardStart(w, t, r + 1) <= ShardStart(w, t, q)
<1> DEFINE b == t \div w
           m == t % w
           x == r * b
           y == q * b
<1>1. b \in Nat /\ m \in Nat
  BY Division
<1>2. ShardStart(w, t, r + 1) = (r + 1) * b + (IF r + 1 <= m THEN r + 1 ELSE m)
      /\ ShardStart(w, t, q) = y + (IF q <= m THEN q ELSE m)
  BY DEF ShardStart
<1> HIDE DEF b, m
<1>3. x \in Nat /\ y \in Nat /\ (r + 1) * b = x + b /\ x + b <= y
  BY <1>1, Products
<1> HIDE DEF x, y
<1>4. (x + b) + (IF r + 1 <= m THEN r + 1 ELSE m) <= y + (IF q <= m THEN q ELSE m)
  BY <1>1, <1>3
<1> QED
  BY <1>2, <1>3, <1>4

(* Every number below t is in the range of some rank.                      *)
LEMMA ShardCovers ==
    ASSUME NEW w \in Nat \ {0}, NEW t \in Nat, NEW x \in 0..(t - 1)
    PROVE  \E r \in 0..(w - 1) : ShardStart(w, t, r) <= x /\ x < ShardStart(w, t, r + 1)
<1> DEFINE V == {r \in Nat : r <= w /\ x < ShardStart(w, t, r)}
<1>1. w \in V
  <2>1. ShardStart(w, t, w) = t /\ x < t /\ w \in Nat /\ w <= w
    BY ShardEnds
  <2> QED
    BY <2>1
<1>2. V \subseteq Nat /\ V # {}
  BY <1>1
<1>3. PICK q \in V : \A y \in V : q <= y
  <2> HIDE DEF V
  <2> QED
    BY <1>2, NatMinimum
<1>4. q \in Nat /\ q <= w /\ x < ShardStart(w, t, q)
  OBVIOUS
<1>5. q # 0
  <2>1. ShardStart(w, t, 0) = 0
    BY ShardEnds
  <2>2. ~(x < 0)
    OBVIOUS
  <2> QED
    BY <1>4, <2>1, <2>2
<1> DEFINE r == q - 1
<1>6. r \in 0..(w - 1) /\ r + 1 = q /\ r \in Nat /\ r <= w /\ ~(q <= r)
  BY <1>4, <1>5
<1>7. ~(x < ShardStart(w, t, r))
  BY <1>3, <1>6
<1>8. ShardStart(w, t, r) \in Nat
  BY <1>6, ShardIs
<1>9. ShardStart(w, t, r) <= x
  BY <1>7, <1>8
<1> QED
  BY <1>4, <1>6, <1>9

RankRanges(w, t) == [r \in 1..w |-> ShardRange(w, r - 1, t)]

RanksInv(s) ==
    /\ s = [unit |-> "ranks", case |-> s.case, ranges |-> s.ranges]
    /\ s.case.world \in Nat \ {0} /\ s.case.total \in Nat
    /\ s.ranges = <<>> \/ s.ranges = RankRanges(s.case.world, s.case.total)

LEMMA SplitsStartOK ==
    ASSUME NEW c \in SplitCases
    PROVE  RanksInv(SplitsStart(c))
BY CasesTyped DEF RanksInv, SplitsStart

LEMMA SplitRanksOK ==
    ASSUME RanksInv(st), SplitRanks
    PROVE  RanksInv(st')
<1> DEFINE c == st.case
           e == st.ranges
           p == RankRanges(c.world, c.total)
<1>1. st = [unit |-> "ranks", case |-> c, ranges |-> e] /\ c.world \in Nat \ {0} /\ c.total \in Nat
  BY DEF RanksInv
<1>2. st' = [st EXCEPT !.ranges = p]
  BY DEF SplitRanks, RankRanges
<1> HIDE DEF c, p, e
<1>3. st' = [unit |-> "ranks", case |-> c, ranges |-> p]
  BY <1>1, <1>2
<1>4. st'.case = c /\ st'.ranges = p
  BY <1>3
<1>5. p = RankRanges(c.world, c.total)
  BY DEF p
<1> QED
  BY <1>1, <1>3, <1>4, <1>5 DEF RanksInv

LEMMA RangeOf ==
    ASSUME NEW w \in Nat \ {0}, NEW t \in Nat, NEW i \in 1..w
    PROVE  /\ RankRanges(w, t)[i] = ShardStart(w, t, i - 1)..(ShardStart(w, t, i) - 1)
           /\ ShardStart(w, t, i - 1) \in Nat /\ ShardStart(w, t, i) \in Nat
           /\ ShardStart(w, t, i) - ShardStart(w, t, i - 1) \in {t \div w, t \div w + 1}
<1> DEFINE r == i - 1
<1>1. r \in Nat /\ r + 1 = i
  OBVIOUS
<1>2. RankRanges(w, t)[i] = ShardRange(w, r, t)
  BY DEF RankRanges
<1> HIDE DEF r
<1>3. /\ ShardRange(w, r, t) = ShardStart(w, t, r)..(ShardStart(w, t, r + 1) - 1)
      /\ ShardStart(w, t, r) \in Nat /\ ShardStart(w, t, r + 1) \in Nat
      /\ ShardStart(w, t, r + 1) - ShardStart(w, t, r) \in {t \div w, t \div w + 1}
  BY <1>1, ShardIs
<1> QED
  BY <1>1, <1>2, <1>3 DEF r

LEMMA RangesCover ==
    ASSUME NEW w \in Nat \ {0}, NEW t \in Nat
    PROVE  UNION ToSet(RankRanges(w, t)) = 0..(t - 1)
<1> DEFINE f == RankRanges(w, t)
<1>1. DOMAIN f = 1..w
  BY DEF RankRanges
<1>2. ASSUME NEW i \in 1..w PROVE f[i] \subseteq 0..(t - 1)
  <2> DEFINE a == ShardStart(w, t, i - 1)
             b == ShardStart(w, t, i)
  <2>1. f[i] = a..(b - 1) /\ a \in Nat /\ b \in Nat
    BY RangeOf
  <2>2. b <= t
    <3>1. CASE i = w
      BY <3>1, ShardEnds
    <3>2. CASE i # w
      <4>1. i \in Nat /\ w \in Nat /\ i < w /\ i - 1 \in Nat /\ i - 1 < w /\ (i - 1) + 1 = i
        BY <3>2
      <4>2. ShardStart(w, t, (i - 1) + 1) <= ShardStart(w, t, w)
        BY <4>1, ShardOrder
      <4> QED
        BY <4>1, <4>2, ShardEnds
    <3> QED
      BY <3>1, <3>2
  <2> HIDE DEF a, b, f
  <2> QED
    BY <2>1, <2>2
<1>3. ASSUME NEW x \in 0..(t - 1) PROVE \E i \in 1..w : x \in f[i]
  <2>1. PICK r \in 0..(w - 1) : ShardStart(w, t, r) <= x /\ x < ShardStart(w, t, r + 1)
    BY ShardCovers
  <2> DEFINE i == r + 1
  <2>2. i \in 1..w /\ i - 1 = r
    OBVIOUS
  <2>3. f[i] = ShardStart(w, t, i - 1)..(ShardStart(w, t, i) - 1)
        /\ ShardStart(w, t, i - 1) \in Nat /\ ShardStart(w, t, i) \in Nat
    BY <2>2, RangeOf
  <2> DEFINE a == ShardStart(w, t, i - 1)
             b == ShardStart(w, t, i)
  <2>4. a <= x /\ x < b
    BY <2>1, <2>2
  <2> HIDE DEF a, b, f
  <2>5. x \in a..(b - 1)
    BY <2>3, <2>4 DEF a, b
  <2> QED
    BY <2>2, <2>3, <2>5 DEF a, b
<1> HIDE DEF f
<1>4. UNION ToSet(f) = 0..(t - 1)
  BY <1>1, <1>2, <1>3 DEF ToSet
<1> QED
  BY <1>4 DEF f

LEMMA RangesDisjoint ==
    ASSUME NEW w \in Nat \ {0}, NEW t \in Nat, NEW i \in 1..w, NEW j \in 1..w, i < j
    PROVE  RankRanges(w, t)[i] \cap RankRanges(w, t)[j] = {}
<1> DEFINE f == RankRanges(w, t)
           a == ShardStart(w, t, i - 1)
           b == ShardStart(w, t, i)
           c == ShardStart(w, t, j - 1)
           d == ShardStart(w, t, j)
<1>1. f[i] = a..(b - 1) /\ a \in Nat /\ b \in Nat
  BY RangeOf
<1>2. f[j] = c..(d - 1) /\ c \in Nat /\ d \in Nat
  BY RangeOf
<1>3. b <= c
  <2>1. CASE i = j - 1
    BY <1>1, <2>1
  <2>2. CASE i # j - 1
    <3>1. i - 1 \in Nat /\ j - 1 \in Nat /\ i - 1 < j - 1 /\ (i - 1) + 1 = i
      BY <2>2
    <3>2. ShardStart(w, t, (i - 1) + 1) <= ShardStart(w, t, j - 1)
      BY <3>1, ShardOrder
    <3> QED
      BY <3>1, <3>2
  <2> QED
    BY <2>1, <2>2
<1> HIDE DEF a, b, c, d, f
<1>4. f[i] \cap f[j] = {}
  BY <1>1, <1>2, <1>3
<1> QED
  BY <1>4 DEF f

LEMMA RangeSize ==
    ASSUME NEW w \in Nat \ {0}, NEW t \in Nat, NEW i \in 1..w
    PROVE  Cardinality(RankRanges(w, t)[i]) \in {t \div w, t \div w + 1}
<1> DEFINE f == RankRanges(w, t)
           a == ShardStart(w, t, i - 1)
           b == ShardStart(w, t, i)
           q == t \div w
<1>1. f[i] = a..(b - 1) /\ a \in Nat /\ b \in Nat /\ b - a \in {q, q + 1}
  BY RangeOf
<1>2. q \in Nat
  BY Division
<1> HIDE DEF a, b, f, q
<1>3. Cardinality(a..(b - 1)) = IF a > b - 1 THEN 0 ELSE (b - 1) - a + 1
  <2>1. a \in Int /\ b - 1 \in Int
    BY <1>1
  <2> QED
    BY <2>1, FS_Interval
<1>4. (IF a > b - 1 THEN 0 ELSE (b - 1) - a + 1) = b - a
  BY <1>1, <1>2
<1> QED
  BY <1>1, <1>3, <1>4 DEF f, q

LEMMA OneOwner ==
    ASSUME NEW w \in Nat \ {0}, NEW h \in Nat
    PROVE  Cardinality({r \in 0..(w - 1) : OwnsRequest(w, r, h)}) = 1
<1>1. h % w \in 0..(w - 1) /\ w > 0
  BY Division
<1> DEFINE x == h % w
<1>2. {r \in 0..(w - 1) : OwnsRequest(w, r, h)} = {x}
  BY <1>1 DEF OwnsRequest
<1> HIDE DEF x
<1>3. Cardinality({x}) = 1
  BY FS_Singleton
<1> QED
  BY <1>2, <1>3

LEMMA RanksInvSound ==
    ASSUME RanksInv(st)
    PROVE  RanksSound
<1> SUFFICES ASSUME st.ranges # <<>> PROVE RanksSound
  BY DEF RanksSound
<1> DEFINE c == st.case
           w == c.world
           t == c.total
           f == st.ranges
<1>1. w \in Nat \ {0} /\ t \in Nat /\ f = RankRanges(w, t)
  BY DEF RanksInv
<1> HIDE DEF w, t, f
<1>2. UNION ToSet(f) = 0..(t - 1)
  BY <1>1, RangesCover
<1>3. ASSUME NEW i \in 1..w, NEW j \in 1..w
      PROVE  /\ i # j => f[i] \cap f[j] = {}
             /\ Cardinality(f[i]) <= Cardinality(f[j]) + 1
  <2>1. i # j => f[i] \cap f[j] = {}
    <3>1. i < j \/ j < i \/ i = j
      BY <1>1
    <3>2. i < j => f[i] \cap f[j] = {}
      BY <1>1, RangesDisjoint
    <3>3. j < i => f[j] \cap f[i] = {}
      BY <1>1, RangesDisjoint
    <3> QED
      BY <3>1, <3>2, <3>3
  <2>2. Cardinality(f[i]) \in {t \div w, t \div w + 1} /\ Cardinality(f[j]) \in {t \div w, t \div w + 1}
    BY <1>1, RangeSize
  <2>3. t \div w \in Nat
    BY <1>1, Division
  <2> QED
    BY <2>1, <2>2, <2>3
<1>4. ASSUME NEW h \in 0..9 PROVE Cardinality({r \in 0..(w - 1) : OwnsRequest(w, r, h)}) = 1
  <2>1. h \in Nat
    OBVIOUS
  <2> QED
    BY <1>1, <2>1, OneOwner, Zenon
<1>5. \A active \in 0..t : AdmitsAdapter(active, w, t) => active + 1 <= Min({w, t})
  <2>1. Min({w, t}) = Min({w, t})
    BY DEF Min, Min
  <2>2. Min({w, t}) \in Nat
    BY <1>1, MinPair
  <2> DEFINE z == Min({w, t})
  <2> HIDE DEF z
  <2>3. \A active \in 0..t : active < z => active + 1 <= z
    BY <1>1, <2>2 DEF z
  <2> QED
    BY <2>1, <2>3 DEF AdmitsAdapter, z
<1>6. OffloadCapacity(t, w) * w <= t
  <2>1. OffloadCapacity(t, w) = t \div w
    BY <1>1 DEF OffloadCapacity
  <2>2. t = (t \div w) * w + (t % w) /\ (t \div w) * w \in Nat /\ t % w \in Nat
    <3>1. t = (t \div w) * w + (t % w) /\ (t \div w) * w \in Nat /\ t % w \in 0..(w - 1)
      BY <1>1, Division, Zenon
    <3>2. \A x \in 0..(w - 1) : x \in Nat
      BY <1>1
    <3> QED
      BY <3>1, <3>2, Zenon
  <2> QED
    BY <1>1, <2>1, <2>2
<1> QED
  BY <1>2, <1>3, <1>4, <1>5, <1>6 DEF RanksSound, w, t, f

-----------------------------------------------------------------------------
(* Start-up.                                                               *)

(* A plan, whatever its other values, caches in a dtype the cache knows.   *)
LEMMA BasePlanKv ==
    ASSUME NEW kind \in Kinds
    PROVE  \E f, b, g : \E kv \in PagedDtypes : BasePlan(kind) = PlanOf(f, b, g, kv)
<1> DEFINE Known == \E f, b, g : \E kv \in PagedDtypes : BasePlan(kind) = PlanOf(f, b, g, kv)
<1>0. "F16" \in PagedDtypes /\ "FP8E4M3" \in PagedDtypes /\ "INT8" \in PagedDtypes
  BY DEF PagedDtypes
<1>1. CASE kind \in {"gptq", "awq", "int4"}
  <2>1. BasePlan(kind) = PlanOf(kind, <<4>>, <<128>>, "F16")
    BY <1>1 DEF BasePlan
  <2> QED
    BY <1>0, <2>1
<1>2. CASE kind = "mxfp8"
  <2>1. BasePlan(kind) = PlanOf(kind, <<8>>, <<32>>, "FP8E4M3")
    BY <1>2 DEF BasePlan
  <2> QED
    BY <1>0, <2>1
<1>3. CASE kind = "mxfp4"
  <2>1. BasePlan(kind) = PlanOf(kind, <<4>>, <<32>>, "FP8E4M3")
    BY <1>3 DEF BasePlan
  <2> QED
    BY <1>0, <2>1
<1>4. CASE kind = "nvfp4"
  <2>1. BasePlan(kind) = PlanOf(kind, <<4>>, <<16>>, "FP8E4M3")
    BY <1>4 DEF BasePlan
  <2> QED
    BY <1>0, <2>1
<1>5. CASE kind = "fp8"
  <2>1. BasePlan(kind) = PlanOf(kind, <<8>>, <<>>, "FP8E4M3")
    BY <1>5 DEF BasePlan
  <2> QED
    BY <1>0, <2>1
<1>6. CASE kind = "int8"
  <2>1. BasePlan(kind) = PlanOf(kind, <<8>>, <<>>, "INT8")
    BY <1>6 DEF BasePlan
  <2> QED
    BY <1>0, <2>1
<1>7. CASE kind \in {"compressed_tensors", "model_opt", "torch_ao"}
  <2>1. BasePlan(kind) = PlanOf(kind, <<8>>, <<>>, "F16")
    BY <1>7 DEF BasePlan
  <2> QED
    BY <1>0, <2>1
<1>8. CASE kind = "gguf"
  <2>1. BasePlan(kind) = [Unquantized EXCEPT !.format = kind]
    BY <1>8 DEF BasePlan
  <2>2. BasePlan(kind) = PlanOf(kind, <<>>, <<>>, "F16")
    BY <2>1 DEF Unquantized, PlanOf
  <2> QED
    BY <1>0, <2>2
<1>9. kind \in {"gptq", "awq", "int4"} \/ kind = "mxfp8" \/ kind = "mxfp4" \/ kind = "nvfp4" \/ kind = "fp8"
      \/ kind = "int8" \/ kind \in {"compressed_tensors", "model_opt", "torch_ao"} \/ kind = "gguf"
  BY DEF Kinds
<1> QED
  BY <1>1, <1>2, <1>3, <1>4, <1>5, <1>6, <1>7, <1>8, <1>9

LEMMA FromConfigKv ==
    ASSUME NEW q, q.kind \in Kinds
    PROVE  OrOther(FromConfig(q), <<Unquantized>>)[1].kv \in PagedDtypes
<1> DEFINE base == BasePlan(q.kind)
           plan == CASE q.kind \in {"gptq", "awq"} ->
                          [base EXCEPT !.group = OrOther(q.group, base.group), !.bits = OrOther(q.bits, base.bits)]
                     [] q.kind = "int4" -> [base EXCEPT !.group = OrOther(q.group, base.group)]
                     [] q.kind = "int8" -> [base EXCEPT !.group = q.group]
                     [] OTHER -> base
<1>1. PICK f, b, g : \E kv \in PagedDtypes : base = PlanOf(f, b, g, kv)
  BY BasePlanKv
<1>2. PICK kv \in PagedDtypes : base = [format |-> f, bits |-> b, group |-> g, kv |-> kv]
  BY <1>1 DEF PlanOf
<1>3. FromConfig(q) = IF ValidPlan(plan) THEN <<plan>> ELSE <<>>
  BY DEF FromConfig
<1> HIDE DEF base
<1>4. plan.kv = kv
  <2>1. CASE q.kind \in {"gptq", "awq"}
    BY <1>2, <2>1
  <2>2. CASE q.kind = "int4"
    BY <1>2, <2>2
  <2>3. CASE q.kind = "int8"
    BY <1>2, <2>3
  <2>4. CASE q.kind \notin {"gptq", "awq"} /\ q.kind # "int4" /\ q.kind # "int8"
    BY <1>2, <2>4
  <2> QED
    BY <2>1, <2>2, <2>3, <2>4
<1> HIDE DEF plan
<1>5. Unquantized.kv \in PagedDtypes
  BY DEF Unquantized, PlanOf, PagedDtypes
<1>6. CASE ValidPlan(plan)
  <2>1. FromConfig(q) = <<plan>>
    BY <1>3, <1>6
  <2>2. OrOther(<<plan>>, <<Unquantized>>)[1] = plan
    BY DEF OrOther
  <2> QED
    BY <1>4, <2>1, <2>2
<1>7. CASE ~ValidPlan(plan)
  <2>1. FromConfig(q) = <<>>
    BY <1>3, <1>7
  <2>2. OrOther(<<>>, <<Unquantized>>)[1] = Unquantized
    BY DEF OrOther
  <2> QED
    BY <1>5, <2>1, <2>2
<1> QED
  BY <1>6, <1>7

LEMMA CacheDtypeKnown ==
    ASSUME NEW c, ParsedQuant(c).ok, c.model \in {"F16", "BF16", "F32"}
    PROVE  /\ CacheSpec(c).dtype \in PagedDtypes \cup {"F32"}
           /\ ~FloatCache(c) => CacheSpec(c).dtype \in PagedDtypes
<1> DEFINE q == ParsedQuant(c)
           arg == c.quant
<1>1. CASE c.kv \in PagedDtypes
  BY <1>1 DEF CacheSpec, CacheDtype, PagedDtypes
<1>2. CASE c.kv \notin PagedDtypes
  <2>1. CASE arg = "none"
    <3>1. q.config = <<>>
      BY <2>1 DEF ParsedQuant, ParseQuantization
    <3>2. CacheDtype(c.kv, q.config, c.model) = c.model
      BY <1>2, <3>1 DEF CacheDtype, PagedDtypes
    <3>3. CacheSpec(c).dtype = c.model
      BY <3>2 DEF CacheSpec
    <3>4. ~FloatCache(c) => c.model # "F32"
      BY <1>2, <3>1 DEF FloatCache
    <3> QED
      BY <3>3, <3>4 DEF PagedDtypes
  <2>2. CASE arg # "none"
    <3>1. arg \in Kinds /\ ~(arg = "int8" /\ c.bits # <<8>>)
      <4>1. CASE arg \notin Kinds \cup {"none"}
        BY <2>2, <4>1 DEF ParsedQuant, ParseQuantization
      <4>2. CASE arg \in Kinds /\ arg = "int8" /\ c.bits # <<8>>
        BY <2>2, <4>2 DEF ParsedQuant, ParseQuantization
      <4> QED
        BY <2>2, <4>1, <4>2
    <3> DEFINE e == [kind |-> arg, group |-> c.group, bits |-> c.bits]
    <3>2. q.config = <<e>>
      BY <2>2, <3>1 DEF ParsedQuant, ParseQuantization
    <3>3. e.kind \in Kinds
      BY <3>1
    <3> HIDE DEF e
    <3>4. CacheDtype(c.kv, <<e>>, c.model) = OrOther(FromConfig(e), <<Unquantized>>)[1].kv
      BY <1>2 DEF CacheDtype, PagedDtypes
    <3>5. CacheDtype(c.kv, <<e>>, c.model) \in PagedDtypes
      BY <3>3, <3>4, FromConfigKv
    <3>6. CacheSpec(c).dtype = CacheDtype(c.kv, q.config, c.model)
      BY DEF CacheSpec
    <3> QED
      BY <3>2, <3>5, <3>6
  <2> QED
    BY <2>1, <2>2
<1> QED
  BY <1>1, <1>2

Shapes == [layers : Nat, blockSize : Nat \ {0}, kvHeads : Nat, headDim : Nat]

LEMMA NatProduct ==
    ASSUME NEW a \in Nat, NEW b \in Nat
    PROVE  a * b \in Nat
OBVIOUS

LEMMA BytesNat ==
    ASSUME NEW c, c.shape \in Shapes, CacheSpec(c).dtype \in PagedDtypes \cup {"F32"}
    PROVE  BytesPerBlock(CacheSpec(c)) \in Nat
<1> DEFINE d == CacheSpec(c).dtype
           p == BytesPerScalar(d)
           l == c.shape.layers
           b == c.shape.blockSize
           k == c.shape.kvHeads
           h == c.shape.headDim
<1>1. l \in Nat /\ b \in Nat /\ k \in Nat /\ h \in Nat
  BY DEF Shapes
<1>2. p \in Nat
  BY DEF BytesPerScalar, PagedDtypes
<1>3. BytesPerBlock(CacheSpec(c)) = 2 * l * b * k * h * p
  BY DEF BytesPerBlock, CacheSpec
<1> HIDE DEF l, b, k, h, p, d
<1>4. 2 * l \in Nat
  BY <1>1
<1>5. 2 * l * b \in Nat
  BY <1>1, <1>4, NatProduct
<1>6. 2 * l * b * k \in Nat
  BY <1>1, <1>5, NatProduct
<1>7. 2 * l * b * k * h \in Nat
  BY <1>1, <1>6, NatProduct
<1>8. 2 * l * b * k * h * p \in Nat
  BY <1>2, <1>7, NatProduct
<1> QED
  BY <1>3, <1>8

LEMMA MaxBlocksPositive ==
    ASSUME NEW c, c.seqs \in Nat, c.len \in Nat, c.shape \in Shapes
    PROVE  MaxBlocksOf(c) \in Nat \ {0}
<1> DEFINE b == c.shape.blockSize
           d == DivCeil(c.len, b)
           m == Max({d, 1})
           n == c.seqs
<1>1. b \in Nat \ {0}
  BY DEF Shapes
<1>2. d \in Nat
  <2>1. d = (c.len + b - 1) \div b
    BY DEF DivCeil
  <2>2. c.len + b - 1 \in Nat
    BY <1>1
  <2> DEFINE x == c.len + b - 1
  <2> HIDE DEF x, b
  <2>3. x \div b \in Nat
    BY <1>1, <2>2, Division DEF x
  <2> QED
    BY <2>1, <2>3 DEF x, b
<1>3. \A y : Max({y, 1}) = Max({y, 1})
  BY DEF Max, Max
<1>4. MaxBlocksOf(c) = Max({n * m, 1})
  BY DEF MaxBlocksOf, NumCacheBlocks
<1> HIDE DEF d
<1>5. m \in Nat
  <2>1. Max({d, 1}) = IF d <= 1 THEN 1 ELSE d
    BY <1>2, MaxPair
  <2>2. m = Max({d, 1})
    BY <1>3
  <2>3. Max({d, 1}) \in Nat
    BY <1>2, <2>1
  <2> QED
    BY <2>2, <2>3
<1> HIDE DEF m
<1>6. n * m \in Nat
  BY <1>5, NatProduct
<1> DEFINE p == n * m
<1> HIDE DEF p
<1>7. Max({p, 1}) = IF p <= 1 THEN 1 ELSE p
  BY <1>6, MaxPair DEF p
<1>8. Max({p, 1}) \in Nat \ {0}
  BY <1>6, <1>7 DEF p
<1> QED
  BY <1>3, <1>4, <1>8 DEF p

(* x blocks of b bytes fit in y bytes just when x is at most y \div b.     *)
LEMMA FitsDivided ==
    ASSUME NEW x \in Nat, NEW b \in Nat \ {0}, NEW y \in Nat
    PROVE  x <= y \div b <=> x * b <= y
<1> DEFINE q == y \div b
           r == y % b
<1>1. q \in Nat /\ r \in Nat /\ r < b /\ y = q * b + r /\ q * b \in Nat
  BY Division
<1> HIDE DEF q, r
<1>2. x * b \in Nat
  BY NatProduct
<1>3. CASE x <= q
  <2>1. x * b <= q * b
    <3>1. CASE x = q
      BY <1>1, <3>1
    <3>2. CASE x < q
      <4>1. x * b + b <= q * b
        BY <1>1, <3>2, Products
      <4> QED
        BY <1>1, <1>2, <4>1
    <3> QED
      BY <1>1, <1>3, <3>1, <3>2
  <2> QED
    BY <1>1, <1>2, <1>3, <2>1 DEF q
<1>4. CASE ~(x <= q)
  <2>1. q < x
    BY <1>1, <1>4
  <2>2. q * b + b <= x * b
    BY <1>1, <2>1, Products
  <2>3. ~(x * b <= y)
    BY <1>1, <1>2, <2>2
  <2> QED
    BY <1>4, <2>3 DEF q
<1> QED
  BY <1>3, <1>4

(* The blocks fit_kv_blocks grants.                                        *)
LEMMA FittedFits ==
    ASSUME NEW spec, NEW bytes \in Nat, bytes = BytesPerBlock(spec),
           NEW free \in Nat, NEW total \in Nat, NEW util \in 1..100, NEW most \in Nat, NEW least \in Nat \ {0},
           FitKvBlocks(spec, free, total, util, most, least) # <<>>
    PROVE  \E n \in Nat :
              /\ FitKvBlocks(spec, free, total, util, most, least) = <<n>>
              /\ n <= most /\ n >= least
              /\ n * bytes + (total - free) <= (total * util) \div 100
              /\ n <= BlocksFromMemory(spec, total, total - free, 0, util)
<1> DEFINE share == (total * util) \div 100
           used == Minus(total, free)
           left == Minus(share, used)
           budget == (left * 95) \div 100
           q == budget \div bytes
           n == Min({q, most})
<1>1. total * util \in Nat /\ util \in Nat
  BY NatProduct
<1>2. share \in Nat
  <2> DEFINE x == total * util
  <2>1. x \in Nat
    BY <1>1
  <2> HIDE DEF x
  <2>2. x \div 100 \in Nat
    BY <2>1
  <2> QED
    BY <2>2 DEF x
<1> HIDE DEF share
<1>3. used \in Nat /\ used >= total - free
  BY DEF Minus
<1> HIDE DEF used
<1>4. left \in Nat /\ (left = 0 \/ left = share - used)
  BY <1>2, <1>3 DEF Minus
<1> HIDE DEF left
<1>5. budget \in Nat /\ budget <= left
  BY <1>4
<1> HIDE DEF budget
<1>6. bytes # 0
  BY DEF FitKvBlocks
<1>7. q \in Nat
  BY <1>5, <1>6, Division
<1>8. n = (IF q <= most THEN q ELSE most) /\ n \in Nat
  BY <1>7, MinPair
<1>9. KvBudget(free, total, util) = budget
  BY DEF KvBudget, budget, left, used, share
<1>10. Min({q, most}) = n
  BY DEF Min, Min
<1> HIDE DEF q, n
<1>11. FitKvBlocks(spec, free, total, util, most, least) = IF n < least THEN <<>> ELSE <<n>>
  BY <1>6, <1>9, <1>10 DEF FitKvBlocks, q
<1>12. ~(n < least) /\ FitKvBlocks(spec, free, total, util, most, least) = <<n>>
  BY <1>11
<1>13. n <= most /\ n <= q /\ n >= least /\ n >= 1
  BY <1>7, <1>8, <1>12
<1>14. n * bytes <= budget
  BY <1>5, <1>6, <1>8, <1>13, FitsDivided DEF q
<1> DEFINE nb == n * bytes
<1>15. nb \in Nat /\ nb >= 1
  <2>1. nb \in Nat
    BY <1>8, NatProduct
  <2>2. 0 * bytes + bytes <= n * bytes /\ 0 * bytes = 0
    BY <1>8, <1>13, Products
  <2> HIDE DEF nb
  <2>3. bytes <= nb
    BY <2>2 DEF nb
  <2> QED
    BY <1>6, <2>1, <2>3
<1>16. nb <= budget
  BY <1>14
<1> HIDE DEF nb
<1>17. left = share - used /\ nb <= left
  BY <1>4, <1>5, <1>15, <1>16
<1>18. nb + (total - free) <= share
  BY <1>2, <1>3, <1>15, <1>17
<1>19. n <= BlocksFromMemory(spec, total, total - free, 0, util)
  <2> DEFINE d == total - free
             y == Minus(share, d + 0)
  <2>1. d \in Int /\ nb <= share - d
    BY <1>2, <1>15, <1>18
  <2>2. BlocksFromMemory(spec, total, d, 0, util) = y \div bytes
    BY <1>6 DEF BlocksFromMemory, share
  <2> HIDE DEF d
  <2>3. y = share - d /\ y \in Nat /\ nb <= y
    BY <1>2, <1>15, <2>1 DEF Minus
  <2> HIDE DEF y
  <2>4. n <= y \div bytes
    BY <1>6, <1>8, <2>3, FitsDivided DEF nb
  <2> QED
    BY <2>2, <2>4 DEF d
<1> QED
  BY <1>8, <1>12, <1>13, <1>18, <1>19 DEF nb, share

(* What the scheduler was told, for a worker that is up.                   *)
Fits(c, handed) ==
    LET spec == CacheSpec(c)
        seen == MemorySeen(c.env)
        share == (seen.total * c.env.util) \div 100
        used == seen.total - seen.free
    IN  /\ ~FloatCache(c) => spec.dtype \in PagedDtypes
        /\ handed \in 1..MaxBlocksOf(c)
        /\ c.device = "cuda" => /\ handed * BytesPerBlock(spec) + used <= share
                                /\ handed >= c.env.least /\ c.env.modelOnCuda
                                /\ handed <= BlocksFromMemory(spec, seen.total, used, 0, c.env.util)

(* What was handed out matches what was configured.                        *)
Given(c, handed, cache) ==
    IF c.configured THEN Fits(c, handed) ELSE handed = 0 /\ cache = <<>>

(* The cache and the scales of a worker that is up.                        *)
HasScales(cache, scales, handed) ==
    /\ cache # <<>> => cache[1].blocks = handed
    /\ cache # <<>> /\ cache[1].dtype = "INT8" =>
         /\ scales # <<>> /\ scales[1].k > 0 /\ scales[1].v > 0

IsWorker(w) ==
    w = [device |-> w.device, loaded |-> w.loaded, blocks |-> w.blocks, cache |-> w.cache,
         reported |-> w.reported, scales |-> w.scales]

StartupInv(s) ==
    /\ s = [unit |-> "startup", case |-> s.case, phase |-> s.phase, w |-> s.w, handed |-> s.handed]
    /\ s.case \in StartupCases
    /\ IsWorker(s.w)
    /\ s.phase \in {"new", "refused", "up", "asleep", "woken"}
    /\ s.phase = "new" => s.w = NewWorker(s.case.device)
    /\ s.phase \in {"up", "asleep", "woken"} =>
         Given(s.case, s.handed, s.w.cache) /\ HasScales(s.w.cache, s.w.scales, s.handed)

LEMMA StartupStartOK ==
    ASSUME NEW c \in StartupCases
    PROVE  StartupInv(StartupStart(c))
<1> DEFINE w == NewWorker(c.device)
<1>1. IsWorker(w)
  BY DEF IsWorker, NewWorker
<1>2. StartupStart(c) = [unit |-> "startup", case |-> c, phase |-> "new", w |-> w, handed |-> 0]
  BY DEF StartupStart
<1> HIDE DEF w
<1> DEFINE s == StartupStart(c)
<1>3. s.case = c /\ s.phase = "new" /\ s.w = w /\ s.handed = 0
  BY <1>2
<1>4. s = [unit |-> "startup", case |-> s.case, phase |-> s.phase, w |-> s.w, handed |-> s.handed]
  BY <1>2
<1> HIDE DEF s
<1>5. StartupInv(s)
  BY <1>1, <1>3, <1>4 DEF StartupInv, w
<1> QED
  BY <1>5 DEF s

CaseTyped(c) ==
    /\ c.device \in {"cpu", "cuda"} /\ c.model \in {"F16", "BF16", "F32"} /\ c.configured \in BOOLEAN
    /\ c.seqs \in Nat /\ c.len \in Nat /\ c.shape \in Shapes
    /\ c.env.free \in Nat /\ c.env.total \in Nat /\ c.env.estimate \in Nat /\ c.env.util \in 1..100
    /\ c.env.least \in Nat \ {0} /\ c.env.kMax \in Int /\ c.env.vMax \in Int

LEMMA Int8ScalePositive ==
    ASSUME NEW m \in Int, Int8Scale(m) # <<>>
    PROVE  Int8Scale(m)[1] > 0
BY DEF Int8Scale

(* The worker as initialize leaves it: n blocks, and what they are in.     *)
LEMMA InitializeParts ==
    ASSUME NEW c, CaseTyped(c), ParsedQuant(c).ok, NEW did, did # <<>>,
           c.configured, did = Initialize(NewWorker(c.device), Configs(c), c.env)
    PROVE  /\ Fits(c, did[1].blocks)
           /\ IsWorker(did[1].worker)
           /\ HasScales(did[1].worker.cache, did[1].worker.scales, did[1].blocks)
<1> DEFINE w == NewWorker(c.device)
           env == c.env
           spec == CacheSpec(c)
           most == MaxBlocksOf(c)
           seen == MemorySeen(env)
           up == Loaded(w)
           fitted == IF w.device = "cpu" THEN <<most>>
                     ELSE FitKvBlocks(spec, seen.free, seen.total, env.util, most, env.least)
           cached == WithCache(up, fitted[1], spec, env.cudaBuild)
           last == CalibrateKvCache(cached, env.kMax, env.vMax)
<1>0. /\ Configs(c) # <<>> /\ Configs(c)[1].spec = spec /\ Configs(c)[1].blocks = most
  <2> DEFINE e == [spec |-> spec, blocks |-> most]
  <2>1. Configs(c) = <<e>>
    BY DEF Configs
  <2>2. e.spec = spec /\ e.blocks = most
    OBVIOUS
  <2> HIDE DEF e, spec, most
  <2> QED
    BY <2>1, <2>2
<1>1. did = IF LoadFails(w, env.modelOnCuda) THEN <<>>
            ELSE IF fitted = <<>> THEN <<>>
            ELSE IF AllocationFails(env) \/ CalibrationFails(cached, env) THEN <<>>
            ELSE <<[worker |-> last, blocks |-> fitted[1]]>>
  <2> HIDE DEF w, env, spec, most
  <2> QED
    BY <1>0 DEF Initialize, w, env
<1>2. w.device = c.device
  BY DEF NewWorker
<1> HIDE DEF cached, last, fitted, w
<1>3. /\ ~LoadFails(w, env.modelOnCuda) /\ fitted # <<>>
      /\ ~CalibrationFails(cached, env)
      /\ did = <<[worker |-> last, blocks |-> fitted[1]]>>
  BY <1>1
<1> DEFINE n == fitted[1]
<1>4. did[1].worker = last /\ did[1].blocks = n
  BY <1>3
<1>5. /\ spec.dtype \in PagedDtypes \cup {"F32"} /\ most \in Nat \ {0}
      /\ ~FloatCache(c) => spec.dtype \in PagedDtypes
  BY CacheDtypeKnown, MaxBlocksPositive DEF CaseTyped
<1>6. Fits(c, n)
  <2>1. CASE c.device = "cpu"
    <3>1. fitted = <<most>>
      BY <1>2, <2>1 DEF fitted
    <3>2. n = most
      BY <3>1
    <3>3. n \in 1..most
      BY <1>5, <3>2
    <3> QED
      BY <1>5, <2>1, <3>3 DEF Fits
  <2>2. CASE c.device = "cuda"
    <3> DEFINE fit == FitKvBlocks(spec, seen.free, seen.total, env.util, most, env.least)
               bytes == BytesPerBlock(spec)
    <3>1. fitted = fit /\ fit # <<>>
      BY <1>2, <1>3, <2>2 DEF fitted
    <3>2. bytes \in Nat
      BY <1>5, BytesNat DEF CaseTyped
    <3>3. seen.free \in Nat /\ seen.total \in Nat /\ env.util \in 1..100 /\ env.least \in Nat \ {0} /\ most \in Nat
      BY <1>5 DEF CaseTyped, MemorySeen
    <3> HIDE DEF spec, most, env, seen
    <3>4. PICK x \in Nat :
            /\ fit = <<x>>
            /\ x <= most /\ x >= env.least
            /\ x * bytes + (seen.total - seen.free) <= (seen.total * env.util) \div 100
            /\ x <= BlocksFromMemory(spec, seen.total, seen.total - seen.free, 0, env.util)
      BY <3>1, <3>2, <3>3, FittedFits
    <3>5. n = x
      BY <3>1, <3>4
    <3>6. x \in 1..most
      BY <3>3, <3>4
    <3>7. env.modelOnCuda
      BY <1>2, <1>3, <2>2 DEF LoadFails
    <3> HIDE DEF n, bytes
    <3> QED
      BY <1>5, <3>4, <3>5, <3>6, <3>7 DEF Fits, spec, most, env, bytes, seen
  <2> QED
    BY <2>1, <2>2 DEF CaseTyped
<1> HIDE DEF n
<1>7. IsWorker(cached) /\ cached.scales = <<>>
      /\ cached.cache = IF env.cudaBuild THEN <<[blocks |-> n, dtype |-> spec.dtype]>> ELSE <<>>
  <2> DEFINE r == IF up.device = "cuda" THEN n * BytesPerBlock(spec) ELSE up.reported
             k == IF env.cudaBuild THEN <<[blocks |-> n, dtype |-> spec.dtype]>> ELSE up.cache
  <2>1. up = [device |-> c.device, loaded |-> TRUE, blocks |-> <<>>, cache |-> <<>>,
              reported |-> 0, scales |-> <<>>]
    <3>1. w = [device |-> c.device, loaded |-> FALSE, blocks |-> <<>>, cache |-> <<>>,
               reported |-> 0, scales |-> <<>>]
      BY DEF NewWorker, w
    <3>2. up = [w EXCEPT !.loaded = TRUE]
      BY DEF Loaded
    <3> HIDE DEF up
    <3> QED
      BY <3>1, <3>2
  <2>2. cached = [up EXCEPT !.blocks = <<n>>, !.reported = r, !.cache = k]
    BY DEF WithCache, cached, n
  <2>3. up.cache = <<>>
    BY <2>1
  <2>4. k = IF env.cudaBuild THEN <<[blocks |-> n, dtype |-> spec.dtype]>> ELSE <<>>
    BY <2>3
  <2> HIDE DEF r, k, up
  <2>5. cached = [device |-> c.device, loaded |-> TRUE, blocks |-> <<n>>, cache |-> k,
                  reported |-> r, scales |-> <<>>]
    BY <2>1, <2>2
  <2>6. IsWorker(cached) /\ cached.scales = <<>> /\ cached.cache = k
    BY <2>5 DEF IsWorker
  <2> QED
    BY <2>4, <2>6
<1> DEFINE d == cached.cache
<1>8. d # <<>> => d[1].blocks = n
  BY <1>7
<1>9. CASE Calibrates(cached)
  <2> DEFINE a == Int8Scale(env.kMax)
             b == Int8Scale(env.vMax)
             z == <<[k |-> a[1], v |-> b[1]]>>
  <2>1. a # <<>> /\ b # <<>>
    BY <1>3, <1>9 DEF CalibrationFails
  <2>2. a[1] > 0 /\ b[1] > 0
    <3>1. env.kMax \in Int /\ env.vMax \in Int
      BY DEF CaseTyped
    <3> HIDE DEF env
    <3> QED
      BY <2>1, <3>1, Int8ScalePositive
  <2>3. last = [cached EXCEPT !.scales = z]
    BY <1>9 DEF CalibrateKvCache, last
  <2>4. z # <<>> /\ z[1].k = a[1] /\ z[1].v = b[1]
    OBVIOUS
  <2> HIDE DEF z, a, b, cached, last
  <2>5. IsWorker(last) /\ last.cache = d /\ last.scales = z
    BY <1>7, <2>3 DEF IsWorker
  <2> HIDE DEF d
  <2>6. HasScales(d, z, n)
    BY <1>8, <2>2, <2>4 DEF HasScales
  <2> QED
    BY <1>4, <1>6, <2>5, <2>6
<1>10. CASE ~Calibrates(cached)
  <2>1. last = cached
    BY <1>10 DEF CalibrateKvCache, last
  <2>2. ~(d # <<>> /\ d[1].dtype = "INT8")
    BY <1>10 DEF Calibrates
  <2>3. HasScales(d, cached.scales, n)
    BY <1>8, <2>2 DEF HasScales
  <2> QED
    BY <1>4, <1>6, <1>7, <2>1, <2>3
<1> QED
  BY <1>9, <1>10

(* A state of the same case in another phase.                              *)
LEMMA StartupNextOK ==
    ASSUME NEW s, NEW c \in StartupCases, NEW p \in {"refused", "up", "asleep", "woken"}, NEW w, NEW n,
           s = [unit |-> "startup", case |-> c, phase |-> p, w |-> w, handed |-> n],
           IsWorker(w), p = "refused" \/ (Given(c, n, w.cache) /\ HasScales(w.cache, w.scales, n))
    PROVE  StartupInv(s)
<1>1. s.case = c /\ s.phase = p /\ s.w = w /\ s.handed = n
  OBVIOUS
<1> QED
  BY <1>1 DEF StartupInv

(* Without a configuration there is no cache.                              *)
LEMMA InitializeBare ==
    ASSUME NEW c, ~c.configured, NEW did, did # <<>>,
           did = Initialize(NewWorker(c.device), Configs(c), c.env)
    PROVE  /\ did[1].blocks = 0
           /\ did[1].worker.cache = <<>>
           /\ IsWorker(did[1].worker)
           /\ HasScales(did[1].worker.cache, did[1].worker.scales, did[1].blocks)
<1> DEFINE w == NewWorker(c.device)
           up == Loaded(w)
<1>1. up = [device |-> c.device, loaded |-> TRUE, blocks |-> <<>>, cache |-> <<>>,
            reported |-> 0, scales |-> <<>>]
  <2>1. w = [device |-> c.device, loaded |-> FALSE, blocks |-> <<>>, cache |-> <<>>,
             reported |-> 0, scales |-> <<>>]
    BY DEF NewWorker
  <2>2. up = [w EXCEPT !.loaded = TRUE]
    BY DEF Loaded
  <2> HIDE DEF w, up
  <2> QED
    BY <2>1, <2>2
<1>2. Configs(c) = <<>>
  BY DEF Configs
<1> HIDE DEF w, up
<1>3. did = <<[worker |-> up, blocks |-> 0]>>
  BY <1>2 DEF Initialize, w, up
<1>4. did[1].worker = up /\ did[1].blocks = 0
  BY <1>3
<1>5. up.cache = <<>> /\ IsWorker(up)
  BY <1>1 DEF IsWorker
<1> QED
  BY <1>4, <1>5 DEF HasScales

LEMMA StartWorkerOK ==
    ASSUME StartupInv(st), StartWorker
    PROVE  StartupInv(st')
<1> DEFINE c == st.case
           w == st.w
           n == st.handed
           did == Initialize(w, Configs(c), c.env)
<1>1. st = [unit |-> "startup", case |-> c, phase |-> "new", w |-> w, handed |-> n]
      /\ c \in StartupCases /\ IsWorker(w) /\ w = NewWorker(c.device)
  BY DEF StartupInv, StartWorker
<1>2. IF ~ParsedQuant(c).ok \/ did = <<>> THEN st' = [st EXCEPT !.phase = "refused"]
      ELSE st' = [st EXCEPT !.phase = "up", !.w = did[1].worker, !.handed = did[1].blocks]
  BY DEF StartWorker
<1>3. CaseTyped(c)
  BY <1>1, CasesTyped DEF CaseTyped, Shapes
<1> HIDE DEF c, w, n
<1>4. CASE ~ParsedQuant(c).ok \/ did = <<>>
  <2>1. st' = [st EXCEPT !.phase = "refused"]
    BY <1>2, <1>4
  <2>2. st' = [unit |-> "startup", case |-> c, phase |-> "refused", w |-> w, handed |-> n]
    BY <1>1, <2>1
  <2> QED
    BY <1>1, <2>2, StartupNextOK
<1>5. CASE ParsedQuant(c).ok /\ did # <<>>
  <2> DEFINE x == did[1].worker
             m == did[1].blocks
  <2>1. st' = [st EXCEPT !.phase = "up", !.w = x, !.handed = m]
    BY <1>2, <1>5
  <2>2. did = Initialize(NewWorker(c.device), Configs(c), c.env)
    BY <1>1
  <2> HIDE DEF did
  <2>3. Given(c, m, x.cache) /\ IsWorker(x) /\ HasScales(x.cache, x.scales, m)
    <3>1. CASE c.configured
      BY <1>3, <1>5, <2>2, <3>1, InitializeParts DEF Given
    <3>2. CASE ~c.configured
      BY <1>5, <2>2, <3>2, InitializeBare DEF Given
    <3> QED
      BY <3>1, <3>2
  <2> HIDE DEF x, m
  <2>4. st' = [unit |-> "startup", case |-> c, phase |-> "up", w |-> x, handed |-> m]
    BY <1>1, <2>1
  <2> QED
    BY <1>1, <2>3, <2>4, StartupNextOK
<1> QED
  BY <1>4, <1>5

LEMMA WorkerSleepOK ==
    ASSUME StartupInv(st), WorkerSleep
    PROVE  StartupInv(st')
<1> DEFINE c == st.case
           w == st.w
           n == st.handed
<1>1. st = [unit |-> "startup", case |-> c, phase |-> "up", w |-> w, handed |-> n]
      /\ c \in StartupCases /\ IsWorker(w) /\ Given(c, n, w.cache) /\ HasScales(w.cache, w.scales, n)
  BY DEF StartupInv, WorkerSleep
<1>2. PICK level \in 1..2 : st' = [st EXCEPT !.phase = "asleep", !.w = Sleep(w, level)]
  BY DEF WorkerSleep
<1> HIDE DEF c, w, n
<1> DEFINE x == Sleep(w, level)
<1>3. x = [w EXCEPT !.blocks = <<>>, !.reported = 0]
  <2>1. level \in {1, 2}
    OBVIOUS
  <2> QED
    BY <2>1 DEF Sleep
<1> HIDE DEF x
<1>4. IsWorker(x) /\ x.cache = w.cache /\ x.scales = w.scales
  BY <1>1, <1>3 DEF IsWorker
<1>5. st' = [st EXCEPT !.phase = "asleep", !.w = x]
  BY <1>2 DEF x
<1>6. st' = [unit |-> "startup", case |-> c, phase |-> "asleep", w |-> x, handed |-> n]
  BY <1>1, <1>5
<1>7. Given(c, n, x.cache) /\ HasScales(x.cache, x.scales, n)
  BY <1>1, <1>4
<1> QED
  BY <1>1, <1>4, <1>6, <1>7, StartupNextOK

LEMMA WorkerWakeOK ==
    ASSUME StartupInv(st), WorkerWake
    PROVE  StartupInv(st')
<1> DEFINE c == st.case
           w == st.w
           n == st.handed
<1>1. st = [unit |-> "startup", case |-> c, phase |-> "asleep", w |-> w, handed |-> n]
      /\ c \in StartupCases /\ IsWorker(w) /\ Given(c, n, w.cache) /\ HasScales(w.cache, w.scales, n)
  BY DEF StartupInv, WorkerWake
<1>2. st' = [st EXCEPT !.phase = "woken", !.w = w]
  BY DEF WorkerWake, WakeUp
<1> HIDE DEF c, w, n
<1>3. st' = [unit |-> "startup", case |-> c, phase |-> "woken", w |-> w, handed |-> n]
  BY <1>1, <1>2
<1> QED
  BY <1>1, <1>3, StartupNextOK

LEMMA StartupInvSound ==
    ASSUME StartupInv(st)
    PROVE  StartupSound
<1> SUFFICES ASSUME st.phase \in {"up", "asleep", "woken"} PROVE StartupSound
  BY DEF StartupSound
<1>1. Given(st.case, st.handed, st.w.cache) /\ HasScales(st.w.cache, st.w.scales, st.handed)
  BY DEF StartupInv
<1> QED
  BY <1>1 DEF StartupSound, Given, Fits, HasScales, Calibrates

-----------------------------------------------------------------------------
(* Bytes into characters.                                                  *)

LEMMA SafeEndWithin ==
    ASSUME NEW b \in Seq(Bytes)
    PROVE  SafeEnd(b) \in 0..Len(b)
<1> DEFINE starts == {i \in DOMAIN b : ~IsContinuation(b[i])}
           m == Max(starts)
<1>1. DOMAIN b = 1..Len(b) /\ Len(b) \in Nat
  OBVIOUS
<1>2. starts # {} => m \in 1..Len(b)
  <2>1. starts \subseteq 1..Len(b)
    BY <1>1
  <2> HIDE DEF starts
  <2> QED
    BY <1>1, <2>1, MaxMember
<1> HIDE DEF m
<1>3. SafeEnd(b) = CASE starts = {} -> 0
                     [] starts # {} /\ b[m] < 128 -> m
                     [] OTHER -> IF Len(b) - m + 1 >= SequenceLength(b[m]) THEN Len(b) ELSE m - 1
  BY DEF SafeEnd, m
<1> HIDE DEF starts
<1>4. CASE starts = {}
  BY <1>1, <1>3, <1>4
<1>5. CASE starts # {} /\ b[m] < 128
  BY <1>1, <1>2, <1>3, <1>5
<1>6. CASE starts # {} /\ ~(b[m] < 128)
  <2>1. SafeEnd(b) \in {Len(b), m - 1}
    BY <1>3, <1>6
  <2> QED
    BY <1>1, <1>2, <1>6, <2>1
<1> QED
  BY <1>4, <1>5, <1>6

(* A part of a sequence: n elements behind the first i.                    *)
LEMMA PartOf ==
    ASSUME NEW V, NEW s \in Seq(V), NEW i \in Nat, NEW n \in Nat, i + n <= Len(s)
    PROVE  /\ SubSeq(s, i + 1, i + n) \in Seq(V) /\ Len(SubSeq(s, i + 1, i + n)) = n
           /\ \A k \in 1..n : SubSeq(s, i + 1, i + n)[k] = s[i + k]
<1> DEFINE h == Len(s)
           a == i + 1
           b == i + n
<1>1. h \in Nat /\ \A j \in 1..h : s[j] \in V
  BY LenProperties, ElementOfSeq
<1>2. a \in Int /\ b \in Int /\ b - a + 1 = n /\ (IF a <= b THEN b - a + 1 ELSE 0) = n
  OBVIOUS
<1>3. \A j \in a..b : j \in 1..h
  BY <1>1
<1>4. \A k \in 1..n : a + k - 1 = i + k
  OBVIOUS
<1> HIDE DEF a, b, h
<1>5. \A j \in a..b : s[j] \in V
  BY <1>1, <1>3
<1>6. /\ SubSeq(s, a, b) \in Seq(V)
      /\ Len(SubSeq(s, a, b)) = IF a <= b THEN b - a + 1 ELSE 0
      /\ \A k \in 1..(b - a + 1) : SubSeq(s, a, b)[k] = s[a + k - 1]
  BY <1>2, <1>5, SubSeqProperties
<1>7. /\ SubSeq(s, a, b) \in Seq(V) /\ Len(SubSeq(s, a, b)) = n
      /\ \A k \in 1..n : SubSeq(s, a, b)[k] = s[i + k]
  BY <1>2, <1>4, <1>6
<1> QED
  BY <1>7 DEF a, b

LEMMA CutInTwo ==
    ASSUME NEW V, NEW s \in Seq(V), NEW k \in 0..Len(s)
    PROVE  /\ SubSeq(s, 1, k) \in Seq(V) /\ SubSeq(s, k + 1, Len(s)) \in Seq(V)
           /\ Len(SubSeq(s, 1, k)) = k /\ Len(SubSeq(s, k + 1, Len(s))) = Len(s) - k
           /\ SubSeq(s, 1, k) \o SubSeq(s, k + 1, Len(s)) = s
<1> DEFINE a == SubSeq(s, 1, k)
           b == SubSeq(s, k + 1, Len(s))
           h == Len(s)
<1>0. h \in Nat /\ k \in Nat /\ k <= h /\ DOMAIN s = 1..h
  BY LenProperties
<1>1. a \in Seq(V) /\ Len(a) = k /\ \A i \in 1..k : a[i] = s[i]
  <2>1. 0 + 1 = 1 /\ 0 + k = k /\ 0 + k <= h /\ \A i \in 1..k : 0 + i = i
    BY <1>0
  <2>2. /\ SubSeq(s, 0 + 1, 0 + k) \in Seq(V) /\ Len(SubSeq(s, 0 + 1, 0 + k)) = k
        /\ \A i \in 1..k : SubSeq(s, 0 + 1, 0 + k)[i] = s[0 + i]
    BY <1>0, <2>1, PartOf
  <2> QED
    BY <2>1, <2>2
<1>2. b \in Seq(V) /\ Len(b) = h - k /\ \A i \in 1..(h - k) : b[i] = s[k + i]
  <2>1. k + (h - k) = h /\ h - k \in Nat /\ k + (h - k) <= h
    BY <1>0
  <2>2. /\ SubSeq(s, k + 1, k + (h - k)) \in Seq(V) /\ Len(SubSeq(s, k + 1, k + (h - k))) = h - k
        /\ \A i \in 1..(h - k) : SubSeq(s, k + 1, k + (h - k))[i] = s[k + i]
    BY <1>0, <2>1, PartOf, ZenonT(60)
  <2> QED
    BY <2>1, <2>2
<1> HIDE DEF a, b
<1>3. a \o b = s
  <2> DEFINE c == a \o b
  <2>1. c \in Seq(V) /\ Len(c) = Len(a) + Len(b)
        /\ \A i \in 1..(Len(a) + Len(b)) : c[i] = IF i <= Len(a) THEN a[i] ELSE b[i - Len(a)]
    BY <1>1, <1>2, ConcatProperties
  <2>2. Len(c) = h /\ \A i \in 1..h : c[i] = IF i <= k THEN a[i] ELSE b[i - k]
    <3>1. k + (h - k) = h
      BY <1>0
    <3> QED
      BY <1>1, <1>2, <2>1, <3>1
  <2> HIDE DEF c, h
  <2>3. \A i \in 1..h : c[i] = s[i]
    <3> TAKE i \in 1..h
    <3>1. CASE i <= k
      <4>1. i \in 1..k
        BY <1>0, <3>1
      <4> QED
        BY <1>1, <2>2, <3>1, <4>1
    <3>2. CASE ~(i <= k)
      <4>1. i - k \in 1..(h - k) /\ k + (i - k) = i
        BY <1>0, <3>2
      <4> QED
        BY <1>2, <2>2, <3>2, <4>1
    <3> QED
      BY <3>1, <3>2
  <2>4. c = s
    BY <2>1, <2>2, <2>3, SeqEqual DEF h
  <2> QED
    BY <2>4 DEF c
<1> QED
  BY <1>0, <1>1, <1>2, <1>3 DEF a, b

(* decode_utf8_partial loses no byte.                                      *)
LEMMA PartialKeeps ==
    ASSUME NEW p \in Seq(Bytes), NEW b \in Seq(Bytes), NEW got, got = DecodePartial(p, b)
    PROVE  /\ got = [text |-> got.text, partial |-> got.partial]
           /\ got.text \in Seq(Bytes) /\ got.partial \in Seq(Bytes)
           /\ got.text \o got.partial = p \o b
<1> DEFINE all == p \o b
           k == SafeEnd(all)
<1>1. all \in Seq(Bytes)
  OBVIOUS
<1>2. CASE p = <<>> /\ CleanEnd(b)
  <2>1. got = [text |-> b, partial |-> <<>>]
    BY <1>2 DEF DecodePartial
  <2>2. b \o <<>> = b /\ <<>> \o b = b /\ <<>> \in Seq(Bytes)
    OBVIOUS
  <2>3. got.text = b /\ got.partial = <<>> /\ got = [text |-> got.text, partial |-> got.partial]
    BY <2>1
  <2> QED
    BY <1>2, <2>2, <2>3
<1>3. CASE ~(p = <<>> /\ CleanEnd(b))
  <2>1. got = [text |-> SubSeq(all, 1, k), partial |-> SubSeq(all, k + 1, Len(all))]
    BY <1>3 DEF DecodePartial
  <2>2. k \in 0..Len(all)
    BY <1>1, SafeEndWithin
  <2> HIDE DEF all, k
  <2>3. /\ SubSeq(all, 1, k) \in Seq(Bytes) /\ SubSeq(all, k + 1, Len(all)) \in Seq(Bytes)
        /\ SubSeq(all, 1, k) \o SubSeq(all, k + 1, Len(all)) = all
    BY <1>1, <2>2, CutInTwo
  <2> DEFINE x == SubSeq(all, 1, k)
             y == SubSeq(all, k + 1, Len(all))
  <2>4. got = [text |-> x, partial |-> y]
    BY <2>1
  <2> HIDE DEF x, y
  <2>5. got.text = x /\ got.partial = y /\ got = [text |-> got.text, partial |-> got.partial]
    BY <2>4
  <2> QED
    BY <2>3, <2>5 DEF all, x, y
<1> QED
  BY <1>2, <1>3

Ascii == 0..127

(* ASCII text is decoded at once.                                          *)
LEMMA AsciiWhole ==
    ASSUME NEW b \in Seq(Ascii)
    PROVE  DecodePartial(<<>>, b) = [text |-> b, partial |-> <<>>]
<1>1. CASE b = <<>>
  BY <1>1 DEF DecodePartial, CleanEnd
<1>2. CASE b # <<>>
  <2>1. Last(b) \in Ascii
    <3>1. Len(b) \in 1..Len(b)
      BY <1>2, EmptySeq, LenProperties
    <3> QED
      BY <3>1, ElementOfSeq DEF Last
  <2> DEFINE x == Last(b)
  <2>2. x \notin 128..247
    <3> HIDE DEF x
    <3>1. x \in 0..127
      BY <2>1 DEF Ascii, x
    <3> QED
      BY <3>1
  <2> QED
    BY <2>2 DEF DecodePartial, CleanEnd
<1> QED
  BY <1>1, <1>2

-----------------------------------------------------------------------------
(* Where a stop string occurs.                                             *)

LEMMA OccursAt ==
    ASSUME NEW t \in Seq(Bytes), NEW p \in Seq(Bytes), NEW i
    PROVE  i \in Occurrences(t, p) <=>
              /\ i \in 0..(Len(t) - Len(p))
              /\ \A k \in 1..Len(p) : t[i + k] = p[k]
<1> SUFFICES ASSUME i \in 0..(Len(t) - Len(p))
             PROVE  SubSeq(t, i + 1, i + Len(p)) = p <=> \A k \in 1..Len(p) : t[i + k] = p[k]
  BY DEF Occurrences
<1> DEFINE u == SubSeq(t, i + 1, i + Len(p))
<1>1. /\ u \in Seq(Bytes) /\ Len(u) = Len(p)
      /\ \A k \in 1..Len(p) : u[k] = t[i + k]
  <2>1. i \in Nat /\ Len(p) \in Nat /\ Len(t) \in Nat /\ i + Len(p) <= Len(t)
    BY LenProperties
  <2> QED
    BY <2>1, PartOf
<1> HIDE DEF u
<1>2. u = p <=> \A k \in 1..Len(p) : u[k] = p[k]
  <2>1. ASSUME \A k \in 1..Len(p) : u[k] = p[k]
        PROVE  u = p
    <3>1. \A k \in 1..Len(u) : u[k] = p[k]
      BY <1>1, <2>1, Zenon
    <3> QED
      BY <1>1, <3>1, SeqEqual
  <2> QED
    BY <2>1, Zenon
<1> QED
  BY <1>1, <1>2 DEF u

LEMMA OccursBehind ==
    ASSUME NEW a \in Seq(Bytes), NEW b \in Seq(Bytes), NEW p \in Seq(Bytes), NEW i \in Nat
    PROVE  Len(a) + i \in Occurrences(a \o b, p) <=> i \in Occurrences(b, p)
<1> DEFINE u == a \o b
<1>1. /\ u \in Seq(Bytes) /\ Len(u) = Len(a) + Len(b)
      /\ \A k \in 1..Len(b) : u[Len(a) + k] = b[k]
      /\ Len(a) \in Nat /\ Len(b) \in Nat /\ Len(p) \in Nat
  OBVIOUS
<1> HIDE DEF u
<1>2. Len(a) + i \in 0..(Len(u) - Len(p)) <=> i \in 0..(Len(b) - Len(p))
  BY <1>1
<1>3. ASSUME i \in 0..(Len(b) - Len(p)), NEW k \in 1..Len(p)
      PROVE  u[(Len(a) + i) + k] = b[i + k]
  <2>1. i + k \in 1..Len(b) /\ (Len(a) + i) + k = Len(a) + (i + k)
    BY <1>1, <1>3
  <2> QED
    BY <1>1, <2>1
<1>4. Len(a) + i \in Occurrences(u, p) <=>
        /\ Len(a) + i \in 0..(Len(u) - Len(p))
        /\ \A k \in 1..Len(p) : u[(Len(a) + i) + k] = p[k]
  <2> DEFINE j == Len(a) + i
  <2> HIDE DEF j
  <2>1. j \in Occurrences(u, p) <=>
          /\ j \in 0..(Len(u) - Len(p))
          /\ \A k \in 1..Len(p) : u[j + k] = p[k]
    BY <1>1, OccursAt, ZenonT(60)
  <2> QED
    BY <2>1 DEF j
<1>5. i \in Occurrences(b, p) <=>
        i \in 0..(Len(b) - Len(p)) /\ \A k \in 1..Len(p) : b[i + k] = p[k]
  BY OccursAt
<1> QED
  BY <1>2, <1>3, <1>4, <1>5 DEF u

LEMMA OccursBefore ==
    ASSUME NEW a \in Seq(Bytes), NEW b \in Seq(Bytes), NEW p \in Seq(Bytes),
           NEW i \in Occurrences(a \o b, p), i + Len(p) <= Len(a)
    PROVE  i \in Occurrences(a, p)
<1> DEFINE u == a \o b
<1>1. /\ u \in Seq(Bytes) /\ \A k \in 1..Len(a) : u[k] = a[k]
      /\ Len(u) = Len(a) + Len(b)
      /\ Len(a) \in Nat /\ Len(b) \in Nat /\ Len(p) \in Nat
  OBVIOUS
<1> HIDE DEF u
<1>2. i \in 0..(Len(u) - Len(p)) /\ \A k \in 1..Len(p) : u[i + k] = p[k]
  <2>1. i \in Occurrences(u, p)
    BY DEF u
  <2> QED
    BY <1>1, <2>1, OccursAt
<1>3. i \in 0..(Len(a) - Len(p))
  BY <1>1, <1>2
<1>4. ASSUME NEW k \in 1..Len(p)
      PROVE  a[i + k] = p[k]
  <2>1. i + k \in 1..Len(a)
    BY <1>1, <1>3
  <2> QED
    BY <1>1, <1>2, <2>1
<1> QED
  BY <1>3, <1>4, OccursAt

(* The longest of some stop strings.                                       *)
Longest(stops) == Max({Len(stops[k]) : k \in DOMAIN stops})

LEMMA LongestBounds ==
    ASSUME NEW s \in Seq(Seq(Bytes)), s # <<>>
    PROVE  /\ Longest(s) \in Nat
           /\ \A k \in DOMAIN s : Len(s[k]) <= Longest(s)
<1> DEFINE n == Len(s)
           H == {i \in 0..n : \E b \in Nat : \A k \in 1..i : Len(s[k]) <= b}
           V == {Len(s[k]) : k \in DOMAIN s}
<1>1. n \in Nat /\ n > 0 /\ DOMAIN s = 1..n /\ \A k \in 1..n : Len(s[k]) \in Nat
  OBVIOUS
<1> HIDE DEF n
<1>2. 0 \in H
  <2>1. \A k \in 1..0 : Len(s[k]) <= 0
    OBVIOUS
  <2> QED
    BY <1>1, <2>1
<1>3. ASSUME NEW i \in 1..n, i - 1 \in H
      PROVE  i \in H
  <2>1. PICK b \in Nat : \A k \in 1..(i - 1) : Len(s[k]) <= b
    BY <1>3
  <2>0. Len(s[i]) \in Nat
    BY <1>1
  <2>2. PICK x \in Nat : b <= x /\ Len(s[i]) <= x
    <3>1. CASE b <= Len(s[i])
      BY <2>0, <3>1
    <3>2. CASE ~(b <= Len(s[i]))
      BY <2>0, <3>2
    <3> QED
      BY <3>1, <3>2
  <2>3. \A k \in 1..i : Len(s[k]) <= x
    <3> TAKE k \in 1..i
    <3>1. CASE k = i
      BY <2>2, <3>1
    <3>2. CASE k # i
      <4>1. k \in 1..(i - 1) /\ k \in 1..n
        BY <1>1, <3>2
      <4> QED
        BY <1>1, <2>1, <2>2, <4>1
    <3> QED
      BY <3>1, <3>2
  <2>4. i \in 0..n
    BY <1>1
  <2> QED
    BY <2>3, <2>4
<1>4. H \subseteq 0..n
  OBVIOUS
<1>5. H = 0..n
  <2> HIDE DEF H
  <2> QED
    BY <1>1, <1>2, <1>3, <1>4, LeastFailure
<1>6. PICK b \in Nat : \A k \in 1..n : Len(s[k]) <= b
  <2>1. n \in 0..n
    BY <1>1
  <2>2. n \in H
    BY <1>5, <2>1
  <2> QED
    BY <2>2
<1> HIDE DEF H
<1>7. V \subseteq Nat /\ V # {} /\ \A y \in V : y <= b
  <2>1. 1 \in DOMAIN s
    BY <1>1
  <2> QED
    BY <1>1, <1>6, <2>1
<1>8. Longest(s) = Max(V)
  BY DEF Longest
<1>9. \A k \in DOMAIN s : Len(s[k]) \in V
  OBVIOUS
<1> HIDE DEF V
<1>10. \E x \in V : \A y \in V : y <= x
  <2> DEFINE W == {c \in Nat : \A y \in V : y <= c}
  <2>1. W \subseteq Nat /\ W # {}
    BY <1>7
  <2> HIDE DEF W
  <2>2. PICK c \in W : \A d \in W : c <= d
    BY <2>1, NatMinimum
  <2>3. c \in Nat /\ \A y \in V : y <= c
    BY <2>2 DEF W
  <2>4. c \in V
    <3> SUFFICES ASSUME c \notin V PROVE FALSE
      OBVIOUS
    <3>1. \A y \in V : y \in Nat /\ y <= c - 1
      BY <1>7, <2>3
    <3>2. PICK y \in V : TRUE
      BY <1>7
    <3>3. c - 1 \in Nat
      BY <2>3, <3>1, <3>2
    <3>4. c - 1 \in W
      BY <3>1, <3>3 DEF W
    <3> QED
      BY <2>2, <2>3, <3>4
  <2> QED
    BY <2>3, <2>4
<1>11. Max(V) \in V /\ \A y \in V : y <= Max(V)
  <2>1. \A y \in V : \A x \in V : (y <= x) <=> (x >= y)
    BY <1>7
  <2> QED
    BY <1>10, <2>1 DEF Max
<1> QED
  BY <1>7, <1>8, <1>9, <1>11

-----------------------------------------------------------------------------
(* The detokenizer.                                                        *)

DetOf(p, b, u, n, m, s, i, e, t, f) ==
    [partial |-> p, buffer |-> b, cumulative |-> u, count |-> n, mode |-> m,
     stops |-> s, stopIds |-> i, eos |-> e, minTokens |-> t, panicked |-> f]

DetNames == {"partial", "buffer", "cumulative", "count", "mode", "stops", "stopIds", "eos",
             "minTokens", "panicked"}

Det(c, p, b, u, n) == DetOf(p, b, u, n, c.mode, c.stops, c.stopIds, c.eos, c.minTokens, FALSE)

TextState(c, d, ids, fed, shown, ended) ==
    [unit |-> "text", case |-> c, d |-> d, ids |-> ids, fed |-> fed, shown |-> shown,
     ended |-> ended]

(* The text before the first stop string that is listed, as a reader of    *)
(* all of it would see it.                                                 *)
Found(stops, fed) == {k \in DOMAIN stops : Occurrences(fed, stops[k]) # {}}
CutAt(stops, fed) == Min(Occurrences(fed, stops[Min(Found(stops, fed))]))
BeforeFirst(stops, fed) == SubSeq(fed, 1, CutAt(stops, fed))

(* Once something is shown, no stop string has been complete and what is   *)
(* held back is as long as any of them.                                    *)
Held(stops, b, fed, shown) ==
    shown # <<>> => Longest(stops) <= Len(b) /\ Found(stops, fed) = {}

(* What was fed is what is shown, held back and not yet decoded.           *)
Going(c, p, b, u, fed, shown) ==
    /\ c.mode = "delta" => (shown \o b) \o p = fed
    /\ c.mode # "delta" => u \o p = fed
    /\ c.stops = <<>> => b = <<>>
    /\ c.stops # <<>> => p = <<>> /\ b \in Seq(Ascii) /\ Held(c.stops, b, fed, shown)

Flow(c, p, b, u, fed, shown, ended) ==
    /\ ended \in {"no", "token"} => Going(c, p, b, u, fed, shown)
    /\ ended = "flushed" => shown = fed
    /\ ended = "stop" => shown = BeforeFirst(c.stops, fed)

(* The i-th token ends the text.                                           *)
Ends(c, id, i) == i > c.minTokens /\ (<<id>> = c.eos \/ id \in ToSet(c.stopIds))

Heard(c, ids, ended) ==
    /\ ended \in {"no", "stop"} => \A i \in DOMAIN ids : ~Ends(c, ids[i], i)
    /\ ended = "token" => \E i \in DOMAIN ids : Ends(c, ids[i], i)

PlainTexts == {c \in TextCases : PlainStops(c)}

TextParts(s, c, p, b, u, fed, shown, ids, ended) ==
    /\ c \in PlainTexts /\ p \in Seq(Bytes) /\ b \in Seq(Bytes) /\ u \in Seq(Bytes)
    /\ fed \in Seq(Bytes) /\ shown \in Seq(Bytes) /\ ids \in Seq(Nat)
    /\ s = TextState(c, Det(c, p, b, u, Len(ids)), ids, fed, shown, ended)
    /\ Flow(c, p, b, u, fed, shown, ended)
    /\ Heard(c, ids, ended)
    /\ ended \in {"no", "token", "stop", "flushed"}

TextInv(s) ==
    \E c, p, b, u, fed, shown, ids, ended : TextParts(s, c, p, b, u, fed, shown, ids, ended)

LEMMA TextStartOK ==
    ASSUME NEW c \in PlainTexts
    PROVE  TextInv(TextStart(c))
<1>1. TextStart(c) = TextState(c, Det(c, <<>>, <<>>, <<>>, Len(<<>>)), <<>>, <<>>, <<>>, "no")
  BY DEF TextStart, TextState, NewDetokenizer, Det, DetOf
<1>2. <<>> \in Seq(Bytes) /\ <<>> \in Seq(Nat) /\ <<>> \in Seq(Ascii) /\ <<>> \o <<>> = <<>>
  OBVIOUS
<1>3. Flow(c, <<>>, <<>>, <<>>, <<>>, <<>>, "no")
  BY <1>2 DEF Flow, Going, Held
<1>4. Heard(c, <<>>, "no")
  BY DEF Heard
<1> QED
  BY <1>1, <1>2, <1>3, <1>4 DEF TextInv, TextParts

(* What the methods change of it.                                          *)
ReadAs(d, x, y) == [d EXCEPT !.partial = x, !.cumulative = y]
Buffered(d, x) == [d EXCEPT !.buffer = x]
Counted(d, x) == [d EXCEPT !.count = x]
Emptied(d, x) == [d EXCEPT !.partial = <<>>, !.buffer = <<>>, !.cumulative = x]

LEMMA DetOfFields ==
    ASSUME NEW p, NEW b, NEW u, NEW n, NEW m, NEW s, NEW i, NEW e, NEW t, NEW f, NEW x, NEW y
    PROVE  /\ ReadAs(DetOf(p, b, u, n, m, s, i, e, t, f), x, y) = DetOf(x, b, y, n, m, s, i, e, t, f)
           /\ Buffered(DetOf(p, b, u, n, m, s, i, e, t, f), x) = DetOf(p, x, u, n, m, s, i, e, t, f)
           /\ Counted(DetOf(p, b, u, n, m, s, i, e, t, f), x) = DetOf(p, b, u, x, m, s, i, e, t, f)
           /\ Emptied(DetOf(p, b, u, n, m, s, i, e, t, f), x) = DetOf(<<>>, <<>>, x, n, m, s, i, e, t, f)
<1> DEFINE d == DetOf(p, b, u, n, m, s, i, e, t, f)
<1>0. /\ DOMAIN d = DetNames
      /\ d.partial = p /\ d.buffer = b /\ d.cumulative = u /\ d.count = n /\ d.mode = m
      /\ d.stops = s /\ d.stopIds = i /\ d.eos = e /\ d.minTokens = t /\ d.panicked = f
  BY DEF DetOf, DetNames
<1>2. [d EXCEPT !.buffer = x] = DetOf(p, x, u, n, m, s, i, e, t, f)
  BY DEF DetOf
<1>3. [d EXCEPT !.count = x] = DetOf(p, b, u, x, m, s, i, e, t, f)
  BY DEF DetOf
<1> HIDE DEF d
<1>1. [d EXCEPT !.partial = x, !.cumulative = y] = DetOf(x, b, y, n, m, s, i, e, t, f)
  <2> DEFINE h == DetOf(x, b, y, n, m, s, i, e, t, f)
  <2>1. /\ h.partial = x /\ h.buffer = b /\ h.cumulative = y /\ h.count = n /\ h.mode = m
        /\ h.stops = s /\ h.stopIds = i /\ h.eos = e /\ h.minTokens = t /\ h.panicked = f
        /\ h = [k \in DetNames |-> h[k]]
    BY DEF DetOf, DetNames
  <2> HIDE DEF h
  <2>2. [d EXCEPT !.partial = x, !.cumulative = y] = [k \in DetNames |-> IF k = "partial" THEN x ELSE IF k = "cumulative" THEN y ELSE d[k]]
    BY <1>0
  <2>3. \A k \in DetNames : (IF k = "partial" THEN x ELSE IF k = "cumulative" THEN y ELSE d[k]) = h[k]
    BY <1>0, <2>1 DEF DetNames
  <2> QED
    BY <2>1, <2>2, <2>3 DEF h
<1>4. [d EXCEPT !.partial = <<>>, !.buffer = <<>>, !.cumulative = x] = DetOf(<<>>, <<>>, x, n, m, s, i, e, t, f)
  <2> DEFINE h == DetOf(<<>>, <<>>, x, n, m, s, i, e, t, f)
  <2>1. /\ h.partial = <<>> /\ h.buffer = <<>> /\ h.cumulative = x /\ h.count = n /\ h.mode = m
        /\ h.stops = s /\ h.stopIds = i /\ h.eos = e /\ h.minTokens = t /\ h.panicked = f
        /\ h = [k \in DetNames |-> h[k]]
    BY DEF DetOf, DetNames
  <2> HIDE DEF h
  <2>2. [d EXCEPT !.partial = <<>>, !.buffer = <<>>, !.cumulative = x] = [k \in DetNames |-> IF k \in {"partial", "buffer"} THEN <<>> ELSE IF k = "cumulative" THEN x ELSE d[k]]
    BY <1>0
  <2>3. \A k \in DetNames : (IF k \in {"partial", "buffer"} THEN <<>> ELSE IF k = "cumulative" THEN x ELSE d[k]) = h[k]
    BY <1>0, <2>1 DEF DetNames
  <2> QED
    BY <2>1, <2>2, <2>3 DEF h
<1> QED
  BY <1>1, <1>2, <1>3, <1>4, Zenon DEF d, ReadAs, Buffered, Counted, Emptied

LEMMA DetIs ==
    ASSUME NEW c
    PROVE  \E m, s, i, e, t, f : \A p, b, u, n : Det(c, p, b, u, n) = DetOf(p, b, u, n, m, s, i, e, t, f)
BY DEF Det

LEMMA DetDecoded ==
    ASSUME NEW c, NEW p, NEW b, NEW u, NEW n, NEW x, NEW y
    PROVE  ReadAs(Det(c, p, b, u, n), x, y) = Det(c, x, b, y, n)
<1>1. PICK m, s, i, e, t, f : \A pp, bb, uu, nn : Det(c, pp, bb, uu, nn) = DetOf(pp, bb, uu, nn, m, s, i, e, t, f)
  BY DetIs
<1>2. ReadAs(DetOf(p, b, u, n, m, s, i, e, t, f), x, y) = DetOf(x, b, y, n, m, s, i, e, t, f)
  BY DetOfFields
<1> QED
  BY <1>1, <1>2

LEMMA DetFields ==
    ASSUME NEW c, NEW p, NEW b, NEW u, NEW n, NEW x
    PROVE  /\ Buffered(Det(c, p, b, u, n), x) = Det(c, p, x, u, n)
           /\ Counted(Det(c, p, b, u, n), x) = Det(c, p, b, u, x)
           /\ Emptied(Det(c, p, b, u, n), x) = Det(c, <<>>, <<>>, x, n)
<1>1. PICK m, s, i, e, t, f : \A pp, bb, uu, nn : Det(c, pp, bb, uu, nn) = DetOf(pp, bb, uu, nn, m, s, i, e, t, f)
  BY DetIs
<1> DEFINE d == DetOf(p, b, u, n, m, s, i, e, t, f)
<1>2. /\ ReadAs(d, x, x) = DetOf(x, b, x, n, m, s, i, e, t, f)
      /\ Buffered(d, x) = DetOf(p, x, u, n, m, s, i, e, t, f)
      /\ Counted(d, x) = DetOf(p, b, u, x, m, s, i, e, t, f)
      /\ Emptied(d, x) = DetOf(<<>>, <<>>, x, n, m, s, i, e, t, f)
  BY DetOfFields
<1> QED
  BY <1>1, <1>2

LEMMA DetReads ==
    ASSUME NEW c, NEW p, NEW b, NEW u, NEW n, NEW d, d = Det(c, p, b, u, n)
    PROVE  /\ d.partial = p /\ d.buffer = b /\ d.cumulative = u /\ d.count = n
           /\ d.mode = c.mode /\ d.stops = c.stops /\ d.stopIds = c.stopIds
           /\ d.eos = c.eos /\ d.minTokens = c.minTokens /\ d.panicked = FALSE
BY DEF Det, DetOf

(* Without stop strings.                                                   *)
LEMMA DecodePlain ==
    ASSUME NEW c, NEW p, NEW b, NEW u, NEW n, NEW bytes, NEW did,
           c.stops = <<>>, did = DecodeToken(Det(c, p, b, u, n), bytes)
    PROVE  /\ did.state = Det(c, DecodePartial(p, bytes).partial, b, u \o DecodePartial(p, bytes).text, n)
           /\ c.mode = "final" => did.out = <<>>
           /\ c.mode = "delta" => did.out = <<DecodePartial(p, bytes).text>>
           /\ c.mode # "final" /\ c.mode # "delta" => did.out = <<u \o DecodePartial(p, bytes).text>>
<1>0. PICK got : got = DecodePartial(p, bytes)
  OBVIOUS
<1> SUFFICES /\ did.state = Det(c, got.partial, b, u \o got.text, n)
             /\ c.mode = "final" => did.out = <<>>
             /\ c.mode = "delta" => did.out = <<got.text>>
             /\ c.mode # "final" /\ c.mode # "delta" => did.out = <<u \o got.text>>
  BY <1>0
<1> DEFINE d == Det(c, p, b, u, n)
           more == Det(c, got.partial, b, u \o got.text, n)
<1>1. d.partial = p /\ d.mode = c.mode /\ d.stops = c.stops /\ d.cumulative = u
  BY DEF Det, DetOf
<1>2. [d EXCEPT !.partial = got.partial, !.cumulative = @ \o got.text] = more
  <2>1. ReadAs(d, got.partial, u \o got.text) = more
    BY DetDecoded
  <2> HIDE DEF d, more
  <2> QED
    BY <1>1, <2>1 DEF ReadAs
<1>3. more.mode = c.mode /\ more.cumulative = u \o got.text
  BY DEF Det, DetOf
<1> HIDE DEF d, more
<1>4. did = CASE d.mode = "final" -> [state |-> more, out |-> <<>>]
              [] d.mode # "final" /\ d.stops = <<>> -> Emit(more, got.text)
              [] OTHER -> did
  BY <1>0, <1>1, <1>2 DEF DecodeToken, d
<1>5. CASE c.mode = "final"
  <2>1. did = [state |-> more, out |-> <<>>]
    BY <1>1, <1>4, <1>5
  <2> QED
    BY <1>5, <2>1 DEF more
<1>6. CASE c.mode # "final"
  <2>1. did = Emit(more, got.text)
    BY <1>1, <1>4, <1>6
  <2>2. did = [state |-> more, out |-> IF c.mode = "delta" THEN <<got.text>> ELSE <<u \o got.text>>]
    BY <1>3, <2>1 DEF Emit
  <2> QED
    BY <1>6, <2>2 DEF more
<1> QED
  BY <1>5, <1>6

(* With stop strings, in ASCII text.                                       *)
LEMMA DecodeHeld ==
    ASSUME NEW c, NEW b, NEW u, NEW n, NEW bytes \in Seq(Ascii), NEW held,
           c.stops # <<>>, c.mode = "delta", held = Det(c, <<>>, b \o bytes, u \o bytes, n)
    PROVE  DecodeToken(Det(c, <<>>, b, u, n), bytes) =
              IF Matching(held) # {} THEN AtStop(held) ELSE BeforeStop(held)
<1> DEFINE d == Det(c, <<>>, b, u, n)
           got == DecodePartial(<<>>, bytes)
           more == [d EXCEPT !.partial = got.partial, !.cumulative = @ \o got.text]
<1>1. got = [text |-> bytes, partial |-> <<>>]
  BY AsciiWhole
<1>2. got.text = bytes /\ got.partial = <<>>
  BY <1>1
<1>3. d.partial = <<>> /\ d.mode = "delta" /\ d.stops # <<>> /\ d.cumulative = u
  BY DEF Det, DetOf
<1> HIDE DEF got
<1>4. more = Det(c, <<>>, b, u \o bytes, n)
  <2>1. ReadAs(d, <<>>, u \o bytes) = Det(c, <<>>, b, u \o bytes, n)
    BY DetDecoded
  <2> HIDE DEF d
  <2> QED
    BY <1>2, <1>3, <2>1 DEF ReadAs
<1>5. [more EXCEPT !.buffer = @ \o got.text] = held
  <2> HIDE DEF d, more
  <2>1. more.buffer = b
    BY <1>4 DEF Det, DetOf
  <2>2. Buffered(more, b \o bytes) = held
    <3> DEFINE v == u \o bytes
               w == b \o bytes
    <3>1. more = Det(c, <<>>, b, v, n) /\ held = Det(c, <<>>, w, v, n)
      BY <1>4
    <3> HIDE DEF v, w
    <3>2. Buffered(more, w) = held
      BY <3>1, DetFields
    <3> QED
      BY <3>2 DEF w
  <2> QED
    BY <1>2, <2>1, <2>2 DEF Buffered
<1> HIDE DEF d, more
<1>6. DecodeToken(d, bytes) =
        CASE d.mode = "final" -> [state |-> more, out |-> <<>>]
          [] d.mode # "final" /\ d.stops = <<>> -> Emit(more, got.text)
          [] OTHER -> IF Matching(held) # {} THEN AtStop(held) ELSE BeforeStop(held)
  <2>1. DecodeToken(d, bytes) =
          CASE d.mode = "final" -> [state |-> more, out |-> <<>>]
            [] d.mode # "final" /\ d.stops = <<>> -> Emit(more, got.text)
            [] OTHER -> IF Matching([more EXCEPT !.buffer = @ \o got.text]) # {}
                        THEN AtStop([more EXCEPT !.buffer = @ \o got.text])
                        ELSE BeforeStop([more EXCEPT !.buffer = @ \o got.text])
    BY <1>3 DEF DecodeToken, more, got
  <2> QED
    BY <1>5, <2>1
<1> QED
  BY <1>3, <1>6 DEF d

LEMMA LeastIsMin ==
    ASSUME NEW V, V \subseteq Nat, NEW m \in V, \A y \in V : m <= y
    PROVE  Min(V) = m
<1>1. \A x, y \in V : x <= y /\ y <= x => x = y
  OBVIOUS
<1> QED
  BY <1>1 DEF Min

LEMMA ThreeParts ==
    \A a, b, c \in Seq(Bytes) : (a \o b) \o c = a \o (b \o c)
OBVIOUS

(* A stop string begins behind what is shown.                              *)
LEMMA OccursInHeld ==
    ASSUME NEW stops \in Seq(Seq(Bytes)), NEW shown \in Seq(Bytes), NEW b \in Seq(Bytes),
           NEW bytes \in Seq(Bytes), Held(stops, b, shown \o b, shown), NEW k \in DOMAIN stops,
           NEW i
    PROVE  i \in Occurrences(shown \o (b \o bytes), stops[k]) <=>
              \E j \in Occurrences(b \o bytes, stops[k]) : i = Len(shown) + j
<1> DEFINE p == stops[k]
           h == b \o bytes
           fed == shown \o b
           new == shown \o h
<1>1. p \in Seq(Bytes) /\ h \in Seq(Bytes) /\ fed \in Seq(Bytes) /\ new \in Seq(Bytes)
  OBVIOUS
<1>2. new = fed \o bytes
  BY ThreeParts
<1>3. Len(shown) \in Nat /\ Len(b) \in Nat /\ Len(fed) = Len(shown) + Len(b) /\ Len(p) \in Nat
  BY <1>1
<1>4. ASSUME NEW j \in Occurrences(h, p), i = Len(shown) + j
      PROVE  i \in Occurrences(new, p)
  <2> HIDE DEF p, h
  <2>1. j \in 0..(Len(h) - Len(p))
    BY <1>1, <1>4, OccursAt
  <2>2. j \in Nat
    BY <2>1
  <2>3. Len(shown) + j \in Occurrences(shown \o h, p)
    BY <1>1, <2>2, <1>4, OccursBehind
  <2> QED
    BY <1>4, <2>3
<1>5. ASSUME i \in Occurrences(new, p)
      PROVE  \E j \in Occurrences(h, p) : i = Len(shown) + j
  <2>1. i \in Nat
    <3>1. i \in 0..(Len(new) - Len(p))
      BY <1>1, <1>5, OccursAt
    <3> QED
      BY <3>1
  <2>2. CASE i >= Len(shown)
    <3> DEFINE j == i - Len(shown)
    <3>1. j \in Nat /\ i = Len(shown) + j
      BY <1>3, <2>1, <2>2
    <3> HIDE DEF j, p, h
    <3>2. j \in Occurrences(h, p)
      BY <1>1, <1>5, <3>1, OccursBehind
    <3> QED
      BY <3>1, <3>2
  <2>3. CASE ~(i >= Len(shown))
    <3>1. shown # <<>> /\ i < Len(shown)
      BY <1>3, <2>1, <2>3
    <3>2. Longest(stops) <= Len(b) /\ Found(stops, fed) = {}
      BY <3>1 DEF Held
    <3>3. stops # <<>>
      OBVIOUS
    <3>4. Longest(stops) \in Nat /\ Len(p) <= Longest(stops)
      BY <3>3, LongestBounds
    <3>5. i + Len(p) <= Len(fed)
      BY <1>3, <2>1, <3>1, <3>2, <3>4
    <3>6. i \in Occurrences(fed, p)
      <4>1. i \in Occurrences(fed \o bytes, p)
        BY <1>2, <1>5
      <4> HIDE DEF fed, p
      <4> QED
        BY <1>1, <3>5, <4>1, OccursBefore
    <3>7. k \in Found(stops, fed)
      BY <3>6 DEF Found
    <3> QED
      BY <3>2, <3>7
  <2> QED
    BY <2>2, <2>3
<1> QED
  BY <1>4, <1>5

LEMMA FoundInHeld ==
    ASSUME NEW stops \in Seq(Seq(Bytes)), NEW shown \in Seq(Bytes), NEW b \in Seq(Bytes),
           NEW bytes \in Seq(Bytes), Held(stops, b, shown \o b, shown)
    PROVE  Found(stops, shown \o (b \o bytes)) = Found(stops, b \o bytes)
<1> DEFINE h == b \o bytes
           new == shown \o h
<1> SUFFICES ASSUME NEW k \in DOMAIN stops
             PROVE  Occurrences(new, stops[k]) # {} <=> Occurrences(h, stops[k]) # {}
  BY DEF Found
<1>1. \A i : i \in Occurrences(new, stops[k]) <=>
              \E j \in Occurrences(h, stops[k]) : i = Len(shown) + j
  BY OccursInHeld
<1> HIDE DEF new, h
<1> QED
  BY <1>1

LEMMA PrefixOfConcat ==
    ASSUME NEW a \in Seq(Bytes), NEW h \in Seq(Bytes), NEW n \in 0..Len(h)
    PROVE  SubSeq(a \o h, 1, Len(a) + n) = a \o SubSeq(h, 1, n)
<1> DEFINE u == a \o h
           x == SubSeq(u, 1, Len(a) + n)
           y == SubSeq(h, 1, n)
           m == Len(a)
           l == m + n
<1>1. /\ u \in Seq(Bytes) /\ Len(u) = m + Len(h) /\ m \in Nat /\ Len(h) \in Nat /\ n \in Nat
      /\ \A i \in 1..(m + Len(h)) : u[i] = IF i <= m THEN a[i] ELSE h[i - m]
  BY ConcatProperties, LenProperties
<1> HIDE DEF u, m
<1>2. l \in Nat /\ l \in 0..Len(u)
  BY <1>1
<1>3. x \in Seq(Bytes) /\ Len(x) = l /\ \A i \in 1..l : x[i] = u[i]
  <2>1. 0 + 1 = 1 /\ 0 + l = l /\ 0 + l <= Len(u) /\ \A i \in 1..l : 0 + i = i
    BY <1>1, <1>2
  <2>2. /\ SubSeq(u, 0 + 1, 0 + l) \in Seq(Bytes) /\ Len(SubSeq(u, 0 + 1, 0 + l)) = l
        /\ \A i \in 1..l : SubSeq(u, 0 + 1, 0 + l)[i] = u[0 + i]
    BY <1>1, <1>2, <2>1, PartOf
  <2> QED
    BY <2>1, <2>2 DEF m
<1>4. y \in Seq(Bytes) /\ Len(y) = n /\ \A i \in 1..n : y[i] = h[i]
  <2>1. 0 + 1 = 1 /\ 0 + n = n /\ 0 + n <= Len(h) /\ \A i \in 1..n : 0 + i = i
    BY <1>1
  <2>2. /\ SubSeq(h, 0 + 1, 0 + n) \in Seq(Bytes) /\ Len(SubSeq(h, 0 + 1, 0 + n)) = n
        /\ \A i \in 1..n : SubSeq(h, 0 + 1, 0 + n)[i] = h[0 + i]
    BY <1>1, <2>1, PartOf
  <2> QED
    BY <2>1, <2>2
<1> DEFINE z == a \o y
<1> HIDE DEF x, y, l
<1>5. /\ z \in Seq(Bytes) /\ Len(z) = m + n
      /\ \A i \in 1..(m + n) : z[i] = IF i <= m THEN a[i] ELSE y[i - m]
  BY <1>4, ConcatProperties DEF m
<1> HIDE DEF z
<1>6. \A i \in 1..(m + n) : x[i] = z[i]
  <2> TAKE i \in 1..(m + n)
  <2>1. x[i] = u[i] /\ i \in 1..(m + Len(h))
    BY <1>1, <1>3 DEF l
  <2>2. CASE i <= m
    BY <1>1, <1>5, <2>1, <2>2
  <2>3. CASE ~(i <= m)
    <3>1. i - m \in 1..n
      BY <1>1, <2>3
    <3> QED
      BY <1>1, <1>4, <1>5, <2>1, <2>3, <3>1
  <2> QED
    BY <2>2, <2>3
<1>7. x = z
  BY <1>3, <1>5, <1>6, SeqEqual DEF l
<1> QED
  BY <1>7 DEF x, y, z, u, m

(* What is shown once a stop string is complete.                           *)
LEMMA StopShown ==
    ASSUME NEW stops \in Seq(Seq(Bytes)), NEW shown \in Seq(Bytes), NEW b \in Seq(Bytes),
           NEW bytes \in Seq(Bytes),
           Held(stops, b, shown \o b, shown), Found(stops, b \o bytes) # {}
    PROVE  /\ BeforeFirst(stops, b \o bytes) \in Seq(Bytes)
           /\ shown \o BeforeFirst(stops, b \o bytes) = BeforeFirst(stops, shown \o (b \o bytes))
<1> DEFINE h == b \o bytes
           cut == CutAt(stops, h)
           k == Min(Found(stops, h))
           p == stops[k]
           new == shown \o h
<1>1. h \in Seq(Bytes) /\ new \in Seq(Bytes) /\ DOMAIN stops = 1..Len(stops)
  OBVIOUS
<1>2. Found(stops, new) = Found(stops, h)
  BY FoundInHeld
<1>3. k \in Found(stops, h)
  <2>1. Found(stops, h) \subseteq Nat
    BY <1>1 DEF Found
  <2> QED
    BY <2>1, MinMember
<1>4. k \in DOMAIN stops /\ Occurrences(h, p) # {}
  BY <1>3 DEF Found
<1> HIDE DEF k
<1>5. p \in Seq(Bytes)
  BY <1>4
<1>6. Occurrences(h, p) \subseteq 0..Len(h)
  <2> HIDE DEF p
  <2>1. Len(h) \in Nat /\ Len(p) \in Nat
    BY <1>1, <1>5
  <2> SUFFICES ASSUME NEW j \in Occurrences(h, p)
               PROVE  j \in 0..Len(h)
    OBVIOUS
  <2>2. j \in 0..(Len(h) - Len(p))
    BY <1>1, <1>5, OccursAt
  <2> QED
    BY <2>1, <2>2
<1> HIDE DEF p
<1>7. cut = Min(Occurrences(h, p))
  BY DEF p, k, CutAt
<1> HIDE DEF cut, h
<1>8. cut \in Occurrences(h, p) /\ \A j \in Occurrences(h, p) : cut <= j
  <2> DEFINE V == Occurrences(h, p)
  <2>1. V \subseteq Nat /\ V # {}
    BY <1>4, <1>6 DEF p
  <2> HIDE DEF V
  <2>2. PICK m \in V : \A y \in V : m <= y
    BY <2>1, NatMinimum
  <2>3. Min(V) = m
    BY <2>1, <2>2, LeastIsMin
  <2>4. cut = m
    BY <1>7, <2>3 DEF V
  <2> QED
    BY <2>2, <2>4 DEF V
<1>9. \A i : i \in Occurrences(new, p) <=> \E j \in Occurrences(h, p) : i = Len(shown) + j
  BY <1>4, OccursInHeld DEF p, h
<1>10. Min(Occurrences(new, p)) = Len(shown) + cut
  <2> DEFINE W == Occurrences(new, p)
             V == Occurrences(h, p)
             m == Len(shown)
  <2>1. m \in Nat /\ V \subseteq Nat /\ cut \in V /\ \A j \in V : cut <= j
    BY <1>6, <1>8
  <2> HIDE DEF W, V, m, new
  <2>2. \A i : i \in W <=> \E j \in V : i = m + j
    BY <1>9 DEF W, V, m
  <2>3. W \subseteq Nat /\ m + cut \in W /\ \A y \in W : m + cut <= y
    BY <2>1, <2>2
  <2>4. Min(W) = m + cut
    BY <2>3, LeastIsMin
  <2> QED
    BY <2>4 DEF W, m
<1>11. BeforeFirst(stops, new) = SubSeq(new, 1, Len(shown) + cut)
  BY <1>2, <1>10 DEF BeforeFirst, CutAt, p, k
<1>12. cut \in 0..Len(h)
  BY <1>6, <1>8
<1>13. SubSeq(new, 1, Len(shown) + cut) = shown \o SubSeq(h, 1, cut)
  BY <1>1, <1>12, PrefixOfConcat
<1>14. SubSeq(h, 1, cut) \in Seq(Bytes)
  <2> HIDE DEF new
  <2> QED
    BY <1>1, <1>12, CutInTwo
<1>15. BeforeFirst(stops, h) = SubSeq(h, 1, cut)
  BY DEF BeforeFirst, cut
<1> QED
  BY <1>11, <1>13, <1>14, <1>15 DEF h

(* The next state and what is shown, once `bytes' are fed.                 *)
Feeds(c, p, b, u, n, fed, shown, bytes, ended) ==
    \E p2, b2, u2, sh2 \in Seq(Bytes) :
        /\ DecodeToken(Det(c, p, b, u, n), bytes).state = Det(c, p2, b2, u2, n)
        /\ Shown(c.mode, shown, DecodeToken(Det(c, p, b, u, n), bytes).out) = sh2
        /\ Flow(c, p2, b2, u2, fed \o bytes, sh2, ended)

Kept(a, p, b) ==
    (a \o DecodePartial(p, b).text) \o DecodePartial(p, b).partial = (a \o p) \o b

LEMMA PartialKeepsOn ==
    ASSUME NEW a \in Seq(Bytes), NEW p \in Seq(Bytes), NEW b \in Seq(Bytes)
    PROVE  Kept(a, p, b)
<1> DEFINE t == DecodePartial(p, b).text
           q == DecodePartial(p, b).partial
<1>1. t \in Seq(Bytes) /\ q \in Seq(Bytes) /\ t \o q = p \o b
  BY PartialKeeps
<1> HIDE DEF t, q
<1>2. (a \o t) \o q = a \o (t \o q)
  BY <1>1, ThreeParts
<1>3. (a \o p) \o b = a \o (p \o b)
  BY ThreeParts
<1> QED
  BY <1>1, <1>2, <1>3 DEF Kept, t, q

LEMMA PlainFeeds ==
    ASSUME NEW c \in PlainTexts, NEW p \in Seq(Bytes), NEW b \in Seq(Bytes), NEW u \in Seq(Bytes),
           NEW fed \in Seq(Bytes), NEW shown \in Seq(Bytes), NEW n \in Nat, NEW bytes \in Seq(Bytes),
           c.stops = <<>>, Going(c, p, b, u, fed, shown)
    PROVE  Feeds(c, p, b, u, n, fed, shown, bytes, "no")
<1>a. PICK did : did = DecodeToken(Det(c, p, b, u, n), bytes)
  OBVIOUS
<1> SUFFICES \E p2, b2, u2, sh2 \in Seq(Bytes) :
              /\ did.state = Det(c, p2, b2, u2, n)
              /\ Shown(c.mode, shown, did.out) = sh2
              /\ Flow(c, p2, b2, u2, fed \o bytes, sh2, "no")
  BY <1>a DEF Feeds
<1>0. PICK got : got = DecodePartial(p, bytes)
  OBVIOUS
<1> DEFINE t == got.text
           q == got.partial
           v == u \o t
           new == fed \o bytes
           sh == IF c.mode = "final" THEN shown ELSE IF c.mode = "delta" THEN shown \o t ELSE v
<1>1. t \in Seq(Bytes) /\ q \in Seq(Bytes) /\ t \o q = p \o bytes
  BY <1>0, PartialKeeps
<1>2. /\ did.state = Det(c, q, b, v, n)
      /\ did.out = IF c.mode = "final" THEN <<>> ELSE IF c.mode = "delta" THEN <<t>> ELSE <<v>>
  <2> HIDE DEF t, q, v, new, sh
  <2>1. /\ did.state = Det(c, got.partial, b, v, n)
        /\ c.mode = "final" => did.out = <<>>
        /\ c.mode = "delta" => did.out = <<got.text>>
        /\ c.mode # "final" /\ c.mode # "delta" => did.out = <<v>>
    <3>1. v = u \o got.text
      BY DEF v, t
    <3>2. /\ did.state = Det(c, DecodePartial(p, bytes).partial, b, u \o DecodePartial(p, bytes).text, n)
          /\ c.mode = "final" => did.out = <<>>
          /\ c.mode = "delta" => did.out = <<DecodePartial(p, bytes).text>>
          /\ c.mode # "final" /\ c.mode # "delta" => did.out = <<u \o DecodePartial(p, bytes).text>>
      BY <1>a, DecodePlain, SMTT(60)
    <3> QED
      BY <1>0, <3>1, <3>2
  <2> QED
    BY <2>1 DEF t, q
<1> HIDE DEF t, q
<1>3. b = <<>>
  BY DEF Going
<1>4. v \in Seq(Bytes) /\ new \in Seq(Bytes) /\ sh \in Seq(Bytes)
  BY <1>1
<1>5. /\ (shown \o t) \o q = (shown \o p) \o bytes
      /\ (u \o t) \o q = (u \o p) \o bytes
  <2> HIDE DEF v, sh, new
  <2>1. Kept(shown, p, bytes) /\ Kept(u, p, bytes)
    BY PartialKeepsOn
  <2>2. t = DecodePartial(p, bytes).text /\ q = DecodePartial(p, bytes).partial
    BY <1>0 DEF t, q
  <2> QED
    BY <2>1, <2>2, Zenon DEF Kept
<1>6. /\ c.mode = "delta" => (sh \o <<>>) \o q = new
      /\ c.mode # "delta" => v \o q = new
  <2>1. /\ c.mode = "delta" => (shown \o <<>>) \o p = fed
        /\ c.mode # "delta" => u \o p = fed
    BY <1>3 DEF Going
  <2>2. sh \o <<>> = sh /\ shown \o <<>> = shown
    BY <1>4
  <2>3. c.mode = "delta" => sh = shown \o t
    OBVIOUS
  <2>4. c.mode = "delta" => sh \o q = (shown \o p) \o bytes
    BY <1>5, <2>3, Zenon
  <2> QED
    BY <1>5, <2>1, <2>2, <2>4, Zenon
<1>7. Shown(c.mode, shown, did.out) = sh
  <2>1. <<t>> # <<>> /\ <<v>> # <<>> /\ <<t>>[1] = t /\ <<v>>[1] = v
    OBVIOUS
  <2> HIDE DEF v
  <2> QED
    BY <1>2, <2>1 DEF Shown
<1> HIDE DEF sh, v, new
<1>8. Going(c, q, <<>>, v, new, sh)
  BY <1>6 DEF Going
<1>9. Flow(c, q, <<>>, v, new, sh, "no")
  BY <1>8 DEF Flow
<1> QED
  BY <1>1, <1>2, <1>3, <1>4, <1>7, <1>9 DEF new

LEMMA AtStopIs ==
    ASSUME NEW c, NEW h, NEW u, NEW n, NEW d, c.mode = "delta", d = Det(c, <<>>, h, u, n)
    PROVE  /\ Matching(d) = Found(c.stops, h)
           /\ AtStop(d).state = Det(c, <<>>, <<>>, u, n)
           /\ AtStop(d).out = <<BeforeFirst(c.stops, h)>>
<1>1. d.buffer = h /\ d.stops = c.stops /\ d.mode = "delta"
  BY DEF Det, DetOf
<1>2. Matching(d) = Found(c.stops, h)
  BY <1>1 DEF Matching, Found
<1>3. [d EXCEPT !.buffer = <<>>] = Det(c, <<>>, <<>>, u, n)
  <2>1. Buffered(d, <<>>) = Det(c, <<>>, <<>>, u, n)
    BY DetFields
  <2> QED
    BY <2>1 DEF Buffered
<1>4. AtStop(d) = [state |-> Det(c, <<>>, <<>>, u, n),
                   out |-> <<BeforeFirst(c.stops, h)>>]
  BY <1>1, <1>2, <1>3 DEF AtStop, BeforeFirst, CutAt
<1> QED
  BY <1>2, <1>4

LEMMA BeforeStopIs ==
    ASSUME NEW c, NEW h \in Seq(Ascii), NEW u, NEW n, NEW d, NEW safe, c.mode = "delta",
           d = Det(c, <<>>, h, u, n), Longest(c.stops) \in Nat, safe = Len(h) - Longest(c.stops)
    PROVE  /\ safe <= 0 => BeforeStop(d).state = d /\ BeforeStop(d).out = <<>>
           /\ safe > 0 => /\ BeforeStop(d).state = Det(c, <<>>, SubSeq(h, safe + 1, Len(h)), u, n)
                          /\ BeforeStop(d).out = <<SubSeq(h, 1, safe)>>
<1> DEFINE rest == SubSeq(h, safe + 1, Len(h))
           part == SubSeq(h, 1, safe)
           e == Det(c, <<>>, rest, u, n)
<1>1. d.buffer = h /\ d.stops = c.stops /\ d.mode = "delta" /\ e.mode = "delta"
  BY DEF Det, DetOf
<1>2. HeldBack(d) = Longest(c.stops)
  BY <1>1 DEF HeldBack, LongestStop, Longest
<1>3. [d EXCEPT !.buffer = rest] = e
  <2> HIDE DEF rest
  <2>1. Buffered(d, rest) = e
    BY DetFields
  <2> QED
    BY <2>1 DEF Buffered
<1>4. Len(h) \in Nat /\ safe \in Int /\ safe <= Len(h)
  OBVIOUS
<1>5. CASE safe <= 0
  <2>1. BeforeStop(d) = [state |-> d, out |-> <<>>]
    BY <1>1, <1>2, <1>5 DEF BeforeStop
  <2> QED
    BY <1>4, <1>5, <2>1
<1>6. CASE ~(safe <= 0)
  <2>1. OnBoundary(h, safe)
    <3>1. safe # Len(h) => safe + 1 \in 1..Len(h)
      BY <1>4, <1>6
    <3>2. safe # Len(h) => h[safe + 1] \in 0..127
      BY <3>1, ElementOfSeq DEF Ascii
    <3>3. \A x \in 0..127 : ~IsContinuation(x)
      BY DEF IsContinuation
    <3> QED
      BY <3>2, <3>3 DEF OnBoundary
  <2>2. BeforeStop(d) = Emit([d EXCEPT !.buffer = SubSeq(h, safe + 1, Len(h))], SubSeq(h, 1, safe))
    BY <1>1, <1>2, <1>6, <2>1 DEF BeforeStop
  <2> HIDE DEF e
  <2>3. BeforeStop(d) = Emit(e, part)
    BY <1>3, <2>2
  <2>4. BeforeStop(d) = [state |-> e, out |-> <<part>>]
    BY <1>1, <2>3 DEF Emit
  <2> QED
    BY <1>6, <2>4 DEF e
<1> QED
  BY <1>5, <1>6

LEMMA ShownDelta ==
    ASSUME NEW shown, NEW a
    PROVE  Shown("delta", shown, <<a>>) = shown \o a
<1>1. <<a>> # <<>> /\ <<a>>[1] = a
  OBVIOUS
<1> QED
  BY <1>1 DEF Shown

LEMMA HeldFeeds ==
    ASSUME NEW c \in PlainTexts, NEW b \in Seq(Bytes), NEW u \in Seq(Bytes), NEW fed \in Seq(Bytes),
           NEW shown \in Seq(Bytes), NEW n \in Nat, NEW bytes \in Seq(Bytes), NEW e,
           c.stops # <<>>, c.mode = "delta", bytes \in Seq(Ascii), Going(c, <<>>, b, u, fed, shown),
           e = IF Found(c.stops, fed \o bytes) # {} THEN "stop" ELSE "no"
    PROVE  Feeds(c, <<>>, b, u, n, fed, shown, bytes, e)
<1>a. PICK did : did = DecodeToken(Det(c, <<>>, b, u, n), bytes)
  OBVIOUS
<1> SUFFICES \E b2, u2, sh2 \in Seq(Bytes) :
              /\ did.state = Det(c, <<>>, b2, u2, n)
              /\ Shown(c.mode, shown, did.out) = sh2
              /\ Flow(c, <<>>, b2, u2, fed \o bytes, sh2, e)
  <2>1. <<>> \in Seq(Bytes)
    OBVIOUS
  <2> QED
    BY <1>a, <2>1 DEF Feeds
<1> DEFINE h == b \o bytes
           v == u \o bytes
           new == fed \o bytes
           held == Det(c, <<>>, h, v, n)
           stops == c.stops
<1>1. stops \in Seq(Seq(Bytes)) /\ stops # <<>>
  BY TextsTyped DEF PlainTexts
<1>2. b \in Seq(Ascii) /\ h \in Seq(Ascii) /\ h \in Seq(Bytes) /\ v \in Seq(Bytes) /\ new \in Seq(Bytes)
  <2>1. b \in Seq(Ascii)
    BY DEF Going
  <2> QED
    BY <2>1
<1>3. fed = shown \o b /\ new = shown \o h
  <2>1. (shown \o b) \o <<>> = fed /\ (shown \o b) \o <<>> = shown \o b
    BY DEF Going
  <2>2. (shown \o b) \o bytes = shown \o (b \o bytes)
    BY ThreeParts
  <2> QED
    BY <2>1, <2>2
<1>4. Held(stops, b, shown \o b, shown)
  <2>1. Held(stops, b, fed, shown)
    BY <1>1 DEF Going
  <2> QED
    BY <1>3, <2>1
<1>5. Found(stops, new) = Found(stops, h)
  BY <1>1, <1>3, <1>4, FoundInHeld
<1>6. did = IF Matching(held) # {} THEN AtStop(held) ELSE BeforeStop(held)
  <2>1. held = Det(c, <<>>, b \o bytes, u \o bytes, n)
    OBVIOUS
  <2> HIDE DEF held
  <2> QED
    BY <1>a, <2>1, DecodeHeld
<1>7. /\ Matching(held) = Found(stops, h)
      /\ AtStop(held).state = Det(c, <<>>, <<>>, v, n)
      /\ AtStop(held).out = <<BeforeFirst(stops, h)>>
  <2> HIDE DEF h, v
  <2> QED
    BY AtStopIs
<1>8. <<>> \in Seq(Bytes) /\ <<>> \in Seq(Ascii)
  OBVIOUS
<1>9. CASE Found(stops, new) # {}
  <2> DEFINE a == BeforeFirst(stops, h)
             sh == shown \o a
  <2>1. a \in Seq(Bytes) /\ sh = BeforeFirst(stops, shown \o h)
    BY <1>1, <1>4, <1>5, <1>9, StopShown
  <2> HIDE DEF held, h, v, new, stops
  <2> HIDE DEF a
  <2>2. did.state = Det(c, <<>>, <<>>, v, n) /\ did.out = <<a>>
    BY <1>5, <1>6, <1>7, <1>9 DEF a
  <2>3. Shown(c.mode, shown, did.out) = sh /\ sh \in Seq(Bytes)
    <3>1. Shown("delta", shown, <<a>>) = shown \o a
      BY ShownDelta
    <3>2. Shown(c.mode, shown, did.out) = shown \o a
      BY <2>2, <3>1, Zenon
    <3>3. a \in Seq(Bytes)
      BY <2>1
    <3>4. shown \o a \in Seq(Bytes)
      BY <3>3, ConcatProperties
    <3> QED
      BY <3>2, <3>4, Zenon
  <2> HIDE DEF sh
  <2>4. Flow(c, <<>>, <<>>, v, new, sh, "stop")
    <3>1. sh = BeforeFirst(c.stops, new)
      BY <1>3, <2>1 DEF stops
    <3> QED
      BY <3>1 DEF Flow
  <2> QED
    BY <1>2, <1>8, <1>9, <2>2, <2>3, <2>4 DEF new, stops
<1>10. CASE Found(stops, new) = {}
  <2> DEFINE longest == Longest(stops)
             safe == Len(h) - longest
  <2>1. longest \in Nat
    BY <1>1, LongestBounds
  <2>2. Len(h) = Len(b) + Len(bytes) /\ Len(h) \in Nat /\ Len(b) \in Nat /\ Len(bytes) \in Nat
    OBVIOUS
  <2>3. /\ safe <= 0 => BeforeStop(held).state = held /\ BeforeStop(held).out = <<>>
        /\ safe > 0 => /\ BeforeStop(held).state = Det(c, <<>>, SubSeq(h, safe + 1, Len(h)), v, n)
                       /\ BeforeStop(held).out = <<SubSeq(h, 1, safe)>>
    <3>1. h \in Seq(Ascii) /\ held = Det(c, <<>>, h, v, n) /\ Longest(c.stops) \in Nat
      BY <1>2, <2>1
    <3>2. safe = Len(h) - Longest(c.stops)
      OBVIOUS
    <3> HIDE DEF h, v, held, safe
    <3> QED
      BY <3>1, <3>2, BeforeStopIs, SMTT(60)
  <2>4. did = BeforeStop(held)
    BY <1>5, <1>6, <1>7, <1>10
  <2> HIDE DEF held, h, v, new, stops, longest
  <2>5. CASE safe <= 0
    <3>1. did.state = Det(c, <<>>, h, v, n) /\ did.out = <<>>
      BY <2>3, <2>4, <2>5 DEF held
    <3>2. Shown(c.mode, shown, did.out) = shown
      BY <3>1 DEF Shown
    <3>3. Held(stops, h, new, shown)
      <4>1. shown # <<>> => longest <= Len(b)
        BY <1>4 DEF Held, longest
      <4>2. shown # <<>> => longest <= Len(h)
        BY <2>1, <2>2, <4>1
      <4> QED
        BY <1>10, <4>2 DEF Held, longest
    <3>4. (shown \o h) \o <<>> = new
      BY <1>2, <1>3
    <3>5. Going(c, <<>>, h, v, new, shown)
      BY <1>1, <1>2, <3>3, <3>4 DEF Going, stops
    <3>6. Flow(c, <<>>, h, v, new, shown, "no")
      BY <3>5 DEF Flow
    <3> QED
      BY <1>2, <1>10, <3>1, <3>2, <3>6 DEF new, stops
  <2>6. CASE ~(safe <= 0)
    <3> DEFINE a == SubSeq(h, 1, safe)
               r == SubSeq(h, safe + 1, Len(h))
               sh == shown \o a
    <3>0. safe \in 0..Len(h) /\ safe > 0
      BY <2>1, <2>2, <2>6
    <3>1. did.state = Det(c, <<>>, r, v, n) /\ did.out = <<a>>
      BY <2>3, <2>4, <3>0
    <3>2. a \in Seq(Ascii) /\ r \in Seq(Ascii) /\ Len(r) = Len(h) - safe /\ a \o r = h
      <4> HIDE DEF safe
      <4> QED
        BY <1>2, <3>0, CutInTwo
    <3>3. a \in Seq(Bytes) /\ r \in Seq(Bytes)
      <4> HIDE DEF safe
      <4> QED
        BY <1>2, <3>0, CutInTwo
    <3>4. Len(r) = longest
      <4>1. Len(h) - safe = longest
        BY <2>1, <2>2
      <4> HIDE DEF safe, r
      <4> QED
        BY <3>2, <4>1
    <3> HIDE DEF safe, a, r
    <3>5. Shown(c.mode, shown, did.out) = sh /\ sh \in Seq(Bytes)
      <4>1. Shown("delta", shown, <<a>>) = shown \o a
        BY ShownDelta
      <4>2. Shown(c.mode, shown, did.out) = shown \o a
        BY <3>1, <4>1, Zenon
      <4> QED
        BY <3>3, <4>2
    <3>6. (sh \o r) \o <<>> = new
      <4>1. (shown \o a) \o r = shown \o (a \o r)
        BY <3>3, ThreeParts, SMTT(60)
      <4>2. sh \o r = new
        BY <1>3, <3>2, <4>1
      <4> QED
        BY <1>2, <4>2
    <3> HIDE DEF sh
    <3>7. Held(stops, r, new, sh)
      BY <1>10, <2>1, <3>4 DEF Held, longest
    <3>8. Going(c, <<>>, r, v, new, sh)
      BY <1>1, <3>2, <3>6, <3>7 DEF Going, stops
    <3>9. Flow(c, <<>>, r, v, new, sh, "no")
      BY <3>8 DEF Flow
    <3> QED
      BY <1>2, <1>10, <3>1, <3>3, <3>5, <3>9 DEF new, stops
  <2> QED
    BY <2>5, <2>6
<1> QED
  BY <1>9, <1>10

(* A step of a text.                                                       *)
TextNames == {"unit", "case", "d", "ids", "fed", "shown", "ended"}

Tokened(s, x, i, e) == [s EXCEPT !.d = x, !.ids = i, !.ended = e]
Flushed(s, x, w, e) == [s EXCEPT !.d = x, !.ended = e, !.shown = w]
Fed(s, x, i, f, w, e) == [s EXCEPT !.d = x, !.ids = i, !.fed = f, !.shown = w, !.ended = e]

LEMMA TextReads ==
    ASSUME NEW s, NEW c, NEW d, NEW ids, NEW fed, NEW shown, NEW ended,
           s = TextState(c, d, ids, fed, shown, ended)
    PROVE  /\ s.unit = "text" /\ s.case = c /\ s.d = d /\ s.ids = ids /\ s.fed = fed
           /\ s.shown = shown /\ s.ended = ended /\ DOMAIN s = TextNames
           /\ s = [k \in TextNames |-> s[k]]
BY DEF TextState, TextNames

LEMMA TextTokened ==
    ASSUME NEW s, NEW c, NEW d, NEW ids, NEW fed, NEW shown, NEW ended, NEW x, NEW i, NEW e,
           s = TextState(c, d, ids, fed, shown, ended)
    PROVE  Tokened(s, x, i, e) = TextState(c, x, i, fed, shown, e)
<1>0. /\ s.unit = "text" /\ s.case = c /\ s.d = d /\ s.ids = ids /\ s.fed = fed
      /\ s.shown = shown /\ s.ended = ended /\ DOMAIN s = TextNames
  BY TextReads
<1> DEFINE h == TextState(c, x, i, fed, shown, e)
<1>1. /\ h.unit = "text" /\ h.case = c /\ h.d = x /\ h.ids = i /\ h.fed = fed
      /\ h.shown = shown /\ h.ended = e /\ h = [k \in TextNames |-> h[k]]
  BY DEF TextState, TextNames
<1> HIDE DEF h
<1>2. [s EXCEPT !.d = x, !.ids = i, !.ended = e] =
        [k \in TextNames |-> IF k = "d" THEN x ELSE IF k = "ids" THEN i
                             ELSE IF k = "ended" THEN e ELSE s[k]]
  BY <1>0
<1>3. \A k \in TextNames : (IF k = "d" THEN x ELSE IF k = "ids" THEN i
                             ELSE IF k = "ended" THEN e ELSE s[k]) = h[k]
  BY <1>0, <1>1 DEF TextNames
<1> QED
  BY <1>1, <1>2, <1>3 DEF h, Tokened

LEMMA TextFlushed ==
    ASSUME NEW s, NEW c, NEW d, NEW ids, NEW fed, NEW shown, NEW ended, NEW x, NEW w, NEW e,
           s = TextState(c, d, ids, fed, shown, ended)
    PROVE  Flushed(s, x, w, e) = TextState(c, x, ids, fed, w, e)
<1>0. /\ s.unit = "text" /\ s.case = c /\ s.d = d /\ s.ids = ids /\ s.fed = fed
      /\ s.shown = shown /\ s.ended = ended /\ DOMAIN s = TextNames
  BY TextReads
<1> DEFINE h == TextState(c, x, ids, fed, w, e)
<1>1. /\ h.unit = "text" /\ h.case = c /\ h.d = x /\ h.ids = ids /\ h.fed = fed
      /\ h.shown = w /\ h.ended = e /\ h = [k \in TextNames |-> h[k]]
  BY DEF TextState, TextNames
<1> HIDE DEF h
<1>2. [s EXCEPT !.d = x, !.ended = e, !.shown = w] =
        [k \in TextNames |-> IF k = "d" THEN x ELSE IF k = "shown" THEN w
                             ELSE IF k = "ended" THEN e ELSE s[k]]
  BY <1>0
<1>3. \A k \in TextNames : (IF k = "d" THEN x ELSE IF k = "shown" THEN w
                             ELSE IF k = "ended" THEN e ELSE s[k]) = h[k]
  BY <1>0, <1>1 DEF TextNames
<1> QED
  BY <1>1, <1>2, <1>3 DEF h, Flushed

LEMMA TextFed ==
    ASSUME NEW s, NEW c, NEW d, NEW ids, NEW fed, NEW shown, NEW ended, NEW x, NEW i, NEW f, NEW w, NEW e,
           s = TextState(c, d, ids, fed, shown, ended)
    PROVE  Fed(s, x, i, f, w, e) = TextState(c, x, i, f, w, e)
<1>0. /\ s.unit = "text" /\ s.case = c /\ s.d = d /\ s.ids = ids /\ s.fed = fed
      /\ s.shown = shown /\ s.ended = ended /\ DOMAIN s = TextNames
  BY TextReads
<1> DEFINE h == TextState(c, x, i, f, w, e)
<1>1. /\ h.unit = "text" /\ h.case = c /\ h.d = x /\ h.ids = i /\ h.fed = f
      /\ h.shown = w /\ h.ended = e /\ h = [k \in TextNames |-> h[k]]
  BY DEF TextState, TextNames
<1> HIDE DEF h
<1>2. [s EXCEPT !.d = x, !.ids = i, !.fed = f, !.shown = w, !.ended = e] =
        [k \in TextNames |-> IF k = "d" THEN x ELSE IF k = "ids" THEN i ELSE IF k = "fed" THEN f
                             ELSE IF k = "shown" THEN w ELSE IF k = "ended" THEN e ELSE s[k]]
  BY <1>0
<1>3. \A k \in TextNames :
        (IF k = "d" THEN x ELSE IF k = "ids" THEN i ELSE IF k = "fed" THEN f
         ELSE IF k = "shown" THEN w ELSE IF k = "ended" THEN e ELSE s[k]) = h[k]
  BY <1>0, <1>1 DEF TextNames
<1> QED
  BY <1>1, <1>2, <1>3 DEF h, Fed

LEMMA Asked ==
    ASSUME NEW c \in PlainTexts, NEW p, NEW b, NEW u, NEW n \in Nat, NEW id, NEW d,
           d = Det(c, p, b, u, n)
    PROVE  /\ CheckStopToken(d, id).state = Det(c, p, b, u, n + 1)
           /\ CheckStopToken(d, id).result = "continue" <=> ~Ends(c, id, n + 1)
<1>1. d.count = n /\ d.minTokens = c.minTokens /\ d.eos = c.eos /\ d.stopIds = c.stopIds
  BY DEF Det, DetOf
<1>2. Counted(d, n + 1) = Det(c, p, b, u, n + 1)
  BY DetFields
<1>3. [d EXCEPT !.count = @ + 1] = Det(c, p, b, u, n + 1)
  BY <1>1, <1>2 DEF Counted
<1>4. CheckStopToken(d, id).state = Det(c, p, b, u, n + 1)
  BY <1>3 DEF CheckStopToken
<1>5. CheckStopToken(d, id).result =
        IF n + 1 <= c.minTokens THEN "continue"
        ELSE IF <<id>> = c.eos THEN "eos"
        ELSE IF id \in ToSet(c.stopIds) THEN "token" ELSE "continue"
  BY <1>1 DEF CheckStopToken
<1>6. c.minTokens \in Nat
  BY TextsTyped DEF PlainTexts
<1>7. n + 1 > c.minTokens <=> ~(n + 1 <= c.minTokens)
  BY <1>6
<1> QED
  BY <1>4, <1>5, <1>7 DEF Ends

LEMMA HeardOn ==
    ASSUME NEW c \in PlainTexts, NEW ids \in Seq(Nat), NEW id \in Nat, Heard(c, ids, "no")
    PROVE  /\ ~Ends(c, id, Len(ids) + 1) => Heard(c, Append(ids, id), "no") /\ Heard(c, Append(ids, id), "stop")
           /\ Ends(c, id, Len(ids) + 1) => Heard(c, Append(ids, id), "token")
<1> DEFINE n == Len(ids)
           new == Append(ids, id)
<1>1. n \in Nat /\ DOMAIN ids = 1..n /\ DOMAIN new = 1..(n + 1) /\ new[n + 1] = id /\ n + 1 \in 1..(n + 1)
  OBVIOUS
<1>2. \A i \in 1..n : new[i] = ids[i]
  OBVIOUS
<1>3. \A i \in 1..(n + 1) : i \in 1..n \/ i = n + 1
  BY <1>1
<1>4. \A i \in 1..n : ~Ends(c, ids[i], i)
  BY <1>1 DEF Heard
<1> HIDE DEF n, new
<1>5. ~Ends(c, id, n + 1) => \A i \in DOMAIN new : ~Ends(c, new[i], i)
  BY <1>1, <1>2, <1>3, <1>4
<1>6. Ends(c, id, n + 1) => \E i \in DOMAIN new : Ends(c, new[i], i)
  BY <1>1
<1> QED
  BY <1>5, <1>6 DEF Heard, n, new

LEMMA FeedTokenOK ==
    ASSUME TextInv(st), FeedToken
    PROVE  TextInv(st')
<1>0. PICK c, p, b, u, fed, shown, ids, ended : TextParts(st, c, p, b, u, fed, shown, ids, ended)
  BY DEF TextInv
<1>1. /\ c \in PlainTexts /\ p \in Seq(Bytes) /\ b \in Seq(Bytes) /\ u \in Seq(Bytes)
      /\ fed \in Seq(Bytes) /\ shown \in Seq(Bytes) /\ ids \in Seq(Nat)
      /\ st = TextState(c, Det(c, p, b, u, Len(ids)), ids, fed, shown, ended)
      /\ Flow(c, p, b, u, fed, shown, ended)
      /\ Heard(c, ids, ended)
  BY <1>0 DEF TextParts
<1> DEFINE n == Len(ids)
           d == Det(c, p, b, u, n)
<1>2. /\ st.unit = "text" /\ st.case = c /\ st.d = d /\ st.ids = ids /\ st.fed = fed
      /\ st.shown = shown /\ st.ended = ended
  BY <1>1, TextReads
<1>3. ended = "no"
  BY <1>2 DEF FeedToken
<1>4. n \in Nat /\ Going(c, p, b, u, fed, shown) /\ Heard(c, ids, "no")
  BY <1>1, <1>3 DEF Flow
<1>5. PICK id \in DOMAIN c.alphabet :
        LET asked == CheckStopToken(st.d, id)
            bytes == st.case.alphabet[id]
            did == DecodeToken(asked.state, bytes)
            new == st.fed \o bytes
            hit == st.case.mode # "final" /\ \E k \in DOMAIN st.case.stops : Occurrences(new, st.case.stops[k]) # {}
        IN  IF asked.result # "continue"
            THEN st' = [st EXCEPT !.d = asked.state, !.ids = Append(st.ids, id), !.ended = "token"]
            ELSE st' = [st EXCEPT !.d = did.state, !.ids = Append(st.ids, id), !.fed = new,
                                  !.shown = Shown(st.case.mode, st.shown, did.out),
                                  !.ended = IF hit THEN "stop" ELSE "no"]
  BY <1>2 DEF FeedToken
<1> DEFINE asked == CheckStopToken(d, id)
           bytes == c.alphabet[id]
           did == DecodeToken(asked.state, bytes)
           new == fed \o bytes
           hit == c.mode # "final" /\ \E k \in DOMAIN c.stops : Occurrences(new, c.stops[k]) # {}
           more == Append(ids, id)
<1>6. IF asked.result # "continue"
      THEN st' = [st EXCEPT !.d = asked.state, !.ids = more, !.ended = "token"]
      ELSE st' = [st EXCEPT !.d = did.state, !.ids = more, !.fed = new,
                            !.shown = Shown(c.mode, shown, did.out),
                            !.ended = IF hit THEN "stop" ELSE "no"]
  BY <1>2, <1>5
<1>7. id \in Nat /\ bytes \in Seq(Bytes) /\ new \in Seq(Bytes) /\ more \in Seq(Nat) /\ Len(more) = n + 1
  <2>1. c.alphabet \in Seq(Seq(Bytes))
    BY <1>1, TextsTyped DEF PlainTexts, PlainStops
  <2>2. id \in Nat /\ c.alphabet[id] \in Seq(Bytes)
    BY <2>1
  <2> QED
    BY <1>1, <2>2
<1>8. asked.state = Det(c, p, b, u, n + 1) /\ (asked.result = "continue" <=> ~Ends(c, id, n + 1))
  <2>1. d = Det(c, p, b, u, n)
    OBVIOUS
  <2> HIDE DEF d
  <2> QED
    BY <1>1, <1>4, <2>1, Asked
<1>9. c.stops # <<>> => c.mode = "delta" /\ bytes \in Seq(Ascii)
  <2>1. c.stops # <<>> => c.mode = "delta" /\ c.alphabet \in Seq(Seq(0..127))
    BY <1>1, TextsTyped DEF PlainTexts, PlainStops
  <2>2. c.alphabet \in Seq(Seq(0..127)) => c.alphabet[id] \in Seq(0..127)
    OBVIOUS
  <2> QED
    BY <2>1, <2>2 DEF Ascii
<1> HIDE DEF d, asked, bytes, did, new, hit, more
<1>10. CASE asked.result # "continue"
  <2>1. st' = [st EXCEPT !.d = asked.state, !.ids = more, !.ended = "token"]
    BY <1>6, <1>10
  <2>2. st' = TextState(c, Det(c, p, b, u, Len(more)), more, fed, shown, "token")
    <3> DEFINE x == asked.state
               e == "token"
    <3>1. st' = Tokened(st, x, more, e)
      BY <2>1 DEF Tokened
    <3>2. st = TextState(c, d, ids, fed, shown, ended)
      BY <1>1 DEF d
    <3> HIDE DEF x, e
    <3>3. st' = TextState(c, x, more, fed, shown, e)
      BY <3>1, <3>2, TextTokened
    <3>4. x = Det(c, p, b, u, Len(more))
      BY <1>7, <1>8 DEF x
    <3> QED
      BY <3>3, <3>4 DEF e
  <2>3. Flow(c, p, b, u, fed, shown, "token")
    BY <1>4 DEF Flow
  <2>4. Heard(c, more, "token")
    BY <1>4, <1>7, <1>8, <1>10, <1>1, HeardOn DEF n, more
  <2>5. TextParts(st', c, p, b, u, fed, shown, more, "token")
    BY <1>1, <1>7, <2>2, <2>3, <2>4 DEF TextParts
  <2> QED
    BY <2>5 DEF TextInv
<1>11. CASE asked.result = "continue"
  <2> DEFINE e == IF hit THEN "stop" ELSE "no"
             w == Shown(c.mode, shown, did.out)
  <2>1. st' = [st EXCEPT !.d = did.state, !.ids = more, !.fed = new, !.shown = w, !.ended = e]
    BY <1>6, <1>11
  <2>2. st' = TextState(c, did.state, more, new, w, e)
    <3> DEFINE x == did.state
    <3>2. st = TextState(c, d, ids, fed, shown, ended)
      BY <1>1 DEF d
    <3> HIDE DEF x, e, w
    <3>3. st' = TextState(c, x, more, new, w, e)
      <4>1. st' = Fed(st, x, more, new, w, e)
        BY <2>1 DEF Fed, x
      <4> QED
        BY <4>1, <3>2, TextFed
    <3> QED
      BY <3>3 DEF x
  <2> DEFINE m == n + 1
  <2>3. did = DecodeToken(Det(c, p, b, u, m), bytes) /\ m \in Nat
    BY <1>4, <1>8 DEF did
  <2> HIDE DEF m
  <2>4. Feeds(c, p, b, u, m, fed, shown, bytes, e)
    <3>1. CASE c.stops = <<>>
      <4>1. e = "no"
        BY <3>1 DEF hit
      <4>2. Feeds(c, p, b, u, m, fed, shown, bytes, "no")
        <5>1. bytes \in Seq(Bytes) /\ m \in Nat
          BY <1>7, <2>3
        <5> QED
          BY <1>1, <1>4, <3>1, <5>1, PlainFeeds
      <4> QED
        BY <4>1, <4>2
    <3>2. CASE c.stops # <<>>
      <4>1. p = <<>>
        BY <1>4, <3>2 DEF Going
      <4>2. e = IF Found(c.stops, fed \o bytes) # {} THEN "stop" ELSE "no"
        <5>1. hit <=> Found(c.stops, fed \o bytes) # {}
          BY <1>9, <3>2 DEF hit, Found, new
        <5> QED
          BY <5>1
      <4>3. Feeds(c, <<>>, b, u, m, fed, shown, bytes, e)
        <5>1. Going(c, <<>>, b, u, fed, shown)
          BY <1>4, <4>1
        <5>2. bytes \in Seq(Bytes) /\ c.mode = "delta" /\ bytes \in Seq(Ascii) /\ m \in Nat
          BY <1>7, <1>9, <2>3, <3>2
        <5> HIDE DEF e
        <5> QED
          BY <1>1, <3>2, <4>2, <5>1, <5>2, HeldFeeds
      <4> HIDE DEF e
      <4> QED
        BY <4>1, <4>3, Zenon
    <3> QED
      BY <3>1, <3>2
  <2>5. PICK p2 \in Seq(Bytes), b2 \in Seq(Bytes), u2 \in Seq(Bytes), w2 \in Seq(Bytes) :
          /\ did.state = Det(c, p2, b2, u2, n + 1)
          /\ w = w2
          /\ Flow(c, p2, b2, u2, new, w2, e)
    BY <2>3, <2>4, Zenon DEF Feeds, m, new
  <2>6. e \in {"no", "token", "stop", "flushed"} /\ Heard(c, more, e)
    <3>1. Heard(c, more, "no") /\ Heard(c, more, "stop")
      BY <1>4, <1>7, <1>8, <1>11, <1>1, HeardOn DEF n, more
    <3> QED
      BY <3>1
  <2> HIDE DEF e, w
  <2>7. st' = TextState(c, Det(c, p2, b2, u2, Len(more)), more, new, w2, e)
    BY <1>7, <2>2, <2>5
  <2>8. more \in Seq(Nat) /\ new \in Seq(Bytes)
    BY <1>7
  <2>9. TextParts(st', c, p2, b2, u2, new, w2, more, e)
    BY <1>1, <2>5, <2>6, <2>7, <2>8 DEF TextParts
  <2> QED
    BY <2>9 DEF TextInv
<1> QED
  BY <1>10, <1>11

LEMMA FlushTextOK ==
    ASSUME TextInv(st), FlushText
    PROVE  TextInv(st')
<1>0. PICK c, p, b, u, fed, shown, ids, ended : TextParts(st, c, p, b, u, fed, shown, ids, ended)
  BY DEF TextInv
<1>1. /\ c \in PlainTexts /\ p \in Seq(Bytes) /\ b \in Seq(Bytes) /\ u \in Seq(Bytes)
      /\ fed \in Seq(Bytes) /\ shown \in Seq(Bytes) /\ ids \in Seq(Nat)
      /\ st = TextState(c, Det(c, p, b, u, Len(ids)), ids, fed, shown, ended)
      /\ Flow(c, p, b, u, fed, shown, ended)
      /\ Heard(c, ids, ended)
  BY <1>0 DEF TextParts
<1> DEFINE n == Len(ids)
           d == Det(c, p, b, u, n)
           did == Flush(d)
           w == Shown(c.mode, shown, <<did.out>>)
<1>2. /\ st.unit = "text" /\ st.case = c /\ st.d = d /\ st.ids = ids /\ st.fed = fed
      /\ st.shown = shown /\ st.ended = ended
  BY <1>1, TextReads
<1>3. ended \in {"no", "token"}
  BY <1>2 DEF FlushText
<1>4. Going(c, p, b, u, fed, shown)
  BY <1>1, <1>3 DEF Flow
<1>5. d.mode = c.mode /\ d.partial = p /\ d.buffer = b /\ d.cumulative = u
  BY DEF Det, DetOf
<1>6. \A x : Emptied(d, x) = Det(c, <<>>, <<>>, x, n)
  BY DetFields
<1> HIDE DEF d
<1>7. st' = [st EXCEPT !.d = did.state, !.ended = "flushed", !.shown = w]
  BY <1>2 DEF FlushText
<1>8. ASSUME c.mode = "delta"
      PROVE  \E x \in Seq(Bytes) : did.state = Det(c, <<>>, <<>>, x, n) /\ w = fed
  <2> DEFINE out == b \o p
             x == u \o p
  <2>1. did = [state |-> Emptied(d, x), out |-> out]
    BY <1>5, <1>8 DEF Flush, Emptied
  <2>2. did.state = Det(c, <<>>, <<>>, x, n) /\ did.out = out
    BY <1>6, <2>1
  <2>3. x \in Seq(Bytes) /\ out \in Seq(Bytes)
    BY <1>1
  <2>4. shown \o out = fed
    <3>1. (shown \o b) \o p = fed
      BY <1>4, <1>8 DEF Going
    <3>2. (shown \o b) \o p = shown \o (b \o p)
      BY <1>1, ThreeParts
    <3> QED
      BY <3>1, <3>2
  <2> HIDE DEF did, out, x
  <2>5. w = fed
    <3>1. Shown("delta", shown, <<out>>) = shown \o out
      BY ShownDelta
    <3> QED
      BY <1>8, <2>2, <2>4, <3>1, Zenon
  <2> QED
    BY <2>2, <2>3, <2>5
<1>9. ASSUME c.mode # "delta"
      PROVE  \E x \in Seq(Bytes) : did.state = Det(c, <<>>, <<>>, x, n) /\ w = fed
  <2> DEFINE out == u \o p
  <2>1. did = [state |-> Emptied(d, <<>>), out |-> out]
    BY <1>5, <1>9 DEF Flush, Emptied
  <2> HIDE DEF did
  <2>2. did.state = Det(c, <<>>, <<>>, <<>>, n) /\ did.out = out
    BY <1>6, <2>1
  <2>3. out = fed
    BY <1>4, <1>9 DEF Going
  <2>4. <<>> \in Seq(Bytes)
    OBVIOUS
  <2> HIDE DEF out
  <2>5. w = fed
    <3>1. <<out>> # <<>> /\ <<out>>[1] = out
      OBVIOUS
    <3>2. Shown(c.mode, shown, <<out>>) = out
      BY <1>9, <3>1 DEF Shown
    <3> QED
      BY <2>2, <2>3, <3>2, Zenon
  <2> QED
    BY <2>2, <2>4, <2>5
<1>10. PICK x \in Seq(Bytes) : did.state = Det(c, <<>>, <<>>, x, n) /\ w = fed
  BY <1>8, <1>9
<1>11. st' = TextState(c, Det(c, <<>>, <<>>, x, n), ids, fed, fed, "flushed")
  <2> DEFINE y == did.state
             e == "flushed"
  <2>1. st' = Flushed(st, y, w, e)
    BY <1>7 DEF Flushed
  <2>2. st = TextState(c, d, ids, fed, shown, ended)
    BY <1>1 DEF d
  <2> HIDE DEF y, e, w
  <2>3. st' = TextState(c, y, ids, fed, w, e)
    BY <2>1, <2>2, TextFlushed
  <2> QED
    BY <1>10, <2>3 DEF y, e
<1>12. Flow(c, <<>>, <<>>, x, fed, fed, "flushed") /\ Heard(c, ids, "flushed")
  BY DEF Flow, Heard
<1>13. <<>> \in Seq(Bytes)
  OBVIOUS
<1>14. TextParts(st', c, <<>>, <<>>, x, fed, fed, ids, "flushed")
  BY <1>1, <1>10, <1>11, <1>12, <1>13 DEF TextParts
<1> QED
  BY <1>14 DEF TextInv

(* What a reader of the stream has seen.                                   *)
LEMMA TextInvSound ==
    ASSUME TextInv(st)
    PROVE  /\ ~st.d.panicked
           /\ st.ended = "flushed" => st.shown = st.fed
           /\ st.ended = "stop" =>
                st.shown = SubSeq(st.fed, 1, Min(Occurrences(st.fed, st.case.stops[Min(StopsInFed)])))
           /\ st.ended = "no" /\ st.case.mode = "delta" => st.shown \o st.d.buffer \o st.d.partial = st.fed
           /\ LET stopping == {i \in DOMAIN st.ids :
                                 /\ i > st.case.minTokens
                                 /\ <<st.ids[i]>> = st.case.eos \/ st.ids[i] \in ToSet(st.case.stopIds)}
              IN  st.ended = "token" <=> stopping # {} /\ st.ended # "flushed"
<1>0. PICK c, p, b, u, fed, shown, ids, ended : TextParts(st, c, p, b, u, fed, shown, ids, ended)
  BY DEF TextInv
<1>1. /\ st = TextState(c, Det(c, p, b, u, Len(ids)), ids, fed, shown, ended)
      /\ Flow(c, p, b, u, fed, shown, ended)
      /\ Heard(c, ids, ended)
      /\ ended \in {"no", "token", "stop", "flushed"}
  BY <1>0 DEF TextParts
<1> DEFINE d == Det(c, p, b, u, Len(ids))
<1>2. /\ st.case = c /\ st.d = d /\ st.ids = ids /\ st.fed = fed
      /\ st.shown = shown /\ st.ended = ended
  BY <1>1, TextReads
<1>3. d.buffer = b /\ d.partial = p /\ d.panicked = FALSE
  BY DEF Det, DetOf
<1> HIDE DEF d
<1>4. StopsInFed = Found(c.stops, fed)
  BY <1>2 DEF StopsInFed, Found
<1>5. ended = "stop" => shown = SubSeq(fed, 1, Min(Occurrences(fed, c.stops[Min(Found(c.stops, fed))])))
  BY <1>1 DEF Flow, BeforeFirst, CutAt
<1>6. ended = "flushed" => shown = fed
  BY <1>1 DEF Flow
<1>7. ended = "no" /\ c.mode = "delta" => (shown \o b) \o p = fed
  BY <1>1 DEF Flow, Going
<1> DEFINE stopping == {i \in DOMAIN ids :
                          /\ i > c.minTokens
                          /\ <<ids[i]>> = c.eos \/ ids[i] \in ToSet(c.stopIds)}
<1>8. stopping = {i \in DOMAIN ids : Ends(c, ids[i], i)}
  BY DEF Ends
<1>9. ended = "token" <=> stopping # {} /\ ended # "flushed"
  <2> HIDE DEF stopping
  <2> QED
    BY <1>1, <1>8 DEF Heard
<1> QED
  BY <1>2, <1>3, <1>4, <1>5, <1>6, <1>7, <1>9, Zenon

(* A text whose stop strings the detokenizer can hold back.                *)
TextUnit(s) ==
    /\ {"unit", "case"} \subseteq DOMAIN s
    /\ s.unit = "text"
    /\ PlainStops(s.case) => TextInv(s)

LEMMA TextUnitStart ==
    ASSUME NEW c \in TextCases
    PROVE  TextUnit(TextStart(c))
<1>1. /\ {"unit", "case"} \subseteq DOMAIN TextStart(c)
      /\ TextStart(c).unit = "text" /\ TextStart(c).case = c
  BY DEF TextStart
<1>2. PlainStops(c) => TextInv(TextStart(c))
  BY TextStartOK DEF PlainTexts
<1> QED
  BY <1>1, <1>2 DEF TextUnit

LEMMA TextUnitStep ==
    ASSUME TextUnit(st), FeedToken \/ FlushText
    PROVE  TextUnit(st')
<1>1. {"unit", "case"} \subseteq DOMAIN st' /\ st'.unit = st.unit /\ st'.case = st.case
  <2>1. CASE FeedToken
    BY <2>1 DEF FeedToken, TextUnit
  <2>2. CASE FlushText
    BY <2>2 DEF FlushText, TextUnit
  <2> QED
    BY <2>1, <2>2
<1>2. PlainStops(st.case) => TextInv(st')
  BY FeedTokenOK, FlushTextOK DEF TextUnit
<1> QED
  BY <1>1, <1>2 DEF TextUnit

-----------------------------------------------------------------------------
(* The special tokens of a tokenizer.                                      *)

(* The ids of the tokens that are known.                                   *)
IdsOf(vocab, tokens, ids) ==
    /\ ids \in Seq({vocab[t] : t \in DOMAIN vocab})
    /\ \A x : x \in ToSet(ids) <=>
          \E j \in 1..Len(tokens) : tokens[j] \in DOMAIN vocab /\ x = vocab[tokens[j]]

LEMMA IdsAre ==
    ASSUME NEW T, NEW vocab, NEW tokens \in Seq(T)
    PROVE  IdsOf(vocab, tokens, Ids(vocab, tokens))
<1> DEFINE V == {vocab[t] : t \in DOMAIN vocab}
<1>a. \A t \in DOMAIN vocab : vocab[t] \in V
  OBVIOUS
<1> HIDE DEF V
<1> DEFINE n == Len(tokens)
           item(i) == IF tokens[i] \in DOMAIN vocab THEN [op |-> "append", item |-> vocab[tokens[i]]]
                      ELSE [op |-> "skip"]
           rounds == [i \in 1..n |-> item(i)]
           next(x, i) == IF tokens[i] \in DOMAIN vocab THEN Append(x, vocab[tokens[i]]) ELSE x
           Rec(f) == f = [i \in 0..n |-> IF i = 0 THEN <<>>
                                         ELSE IF tokens[i] \in DOMAIN vocab
                                         THEN Append(f[i - 1], vocab[tokens[i]])
                                         ELSE f[i - 1]]
           run == CHOOSE f : Rec(f)
<1>0. n \in Nat
  OBVIOUS
<1>1. \A i \in 1..n : \A x : Round(x, rounds[i]) = next(x, i)
  <2> TAKE i \in 1..n
  <2> TAKE x
  <2>1. rounds[i] = item(i)
    OBVIOUS
  <2>2. CASE tokens[i] \in DOMAIN vocab
    BY <2>1, <2>2 DEF Round
  <2>3. CASE tokens[i] \notin DOMAIN vocab
    BY <2>1, <2>3 DEF Round
  <2> QED
    BY <2>2, <2>3
<1>2. PICK f : IsLoop(f, <<>>, rounds, n)
  BY <1>0, LoopExists
<1>3. Rec(f)
  <2>1. f = [i \in 0..n |-> IF i = 0 THEN <<>> ELSE Round(f[i - 1], rounds[i])]
    BY <1>2 DEF IsLoop
  <2>2. \A i \in 0..n : i # 0 => i \in 1..n
    BY <1>0
  <2> HIDE DEF rounds, n
  <2>3. \A i \in 0..n : f[i] = IF i = 0 THEN <<>> ELSE next(f[i - 1], i)
    <3> HIDE DEF next
    <3> QED
      BY <1>1, <2>1, <2>2
  <2> QED
    BY <2>1, <2>3
<1>4. Rec(run)
  <2> HIDE DEF Rec
  <2> QED
    BY <1>3
<1>5. Ids(vocab, tokens) = run[n]
  BY DEF Ids
<1>6. run[0] = <<>> /\ \A i \in 1..n : run[i] = next(run[i - 1], i)
  <2> HIDE DEF run
  <2>1. 0 \in 0..n /\ \A i \in 1..n : i \in 0..n /\ i # 0
    BY <1>0
  <2>2. \A i \in 0..n : run[i] = IF i = 0 THEN <<>> ELSE next(run[i - 1], i)
    BY <1>4
  <2> HIDE DEF next, Rec
  <2>3. run[0] = <<>>
    BY <2>1, <2>2, Zenon
  <2>4. \A i \in 1..n : run[i] = next(run[i - 1], i)
    BY <2>1, <2>2
  <2> QED
    BY <2>3, <2>4, Zenon
<1> HIDE DEF run, n
<1> DEFINE Has(i) == /\ run[i] \in Seq(V)
                     /\ \A x : x \in ToSet(run[i]) <=>
                          \E j \in 1..i : tokens[j] \in DOMAIN vocab /\ x = vocab[tokens[j]]
           H == {i \in 0..n : Has(i)}
<1>7. 0 \in H
  <2>1. <<>> \in Seq(V) /\ ToSet(<<>>) = {}
    BY DEF ToSet
  <2>2. Has(0)
    BY <1>6, <2>1
  <2> QED
    BY <1>0, <2>2
<1>8. ASSUME NEW i \in 1..n, i - 1 \in H
      PROVE  i \in H
  <2>0. i \in 0..n /\ i - 1 \in 0..n /\ \A j : j \in 1..i <=> j \in 1..(i - 1) \/ j = i
    BY <1>0
  <2> DEFINE s == run[i - 1]
             old(x) == \E j \in 1..(i - 1) : tokens[j] \in DOMAIN vocab /\ x = vocab[tokens[j]]
  <2>1. s \in Seq(V) /\ \A x : x \in ToSet(s) <=> old(x)
    BY <1>8
  <2>2. run[i] = next(s, i)
    BY <1>6
  <2> HIDE DEF s
  <2>3. \A x : (\E j \in 1..i : tokens[j] \in DOMAIN vocab /\ x = vocab[tokens[j]]) <=>
               old(x) \/ (tokens[i] \in DOMAIN vocab /\ x = vocab[tokens[i]])
    BY <2>0
  <2>4. CASE tokens[i] \in DOMAIN vocab
    <3> DEFINE v == vocab[tokens[i]]
    <3>1. v \in V /\ run[i] = Append(s, v)
      BY <1>a, <2>2, <2>4
    <3> HIDE DEF v
    <3>2. Append(s, v) \in Seq(V) /\ ToSet(Append(s, v)) = ToSet(s) \cup {v}
      BY <2>1, <3>1, AppendElements
    <3> HIDE DEF old
    <3>3. Has(i)
      BY <2>1, <2>3, <2>4, <3>1, <3>2 DEF v
    <3> QED
      BY <2>0, <3>3
  <2>5. CASE tokens[i] \notin DOMAIN vocab
    <3>1. run[i] = s
      BY <2>2, <2>5
    <3> HIDE DEF old
    <3>2. Has(i)
      BY <2>1, <2>3, <2>5, <3>1
    <3> QED
      BY <2>0, <3>2
  <2> QED
    BY <2>4, <2>5
<1>9. H \subseteq 0..n
  OBVIOUS
<1> HIDE DEF H
<1>10. H = 0..n
  BY <1>0, <1>7, <1>8, <1>9, LeastFailure
<1>11. n \in H
  BY <1>0, <1>10
<1>12. Has(n)
  BY <1>11 DEF H
<1> QED
  BY <1>5, <1>12 DEF n, IdsOf, V

(* Every id once.                                                          *)
LEMMA KeptOnce ==
    ASSUME NEW V, NEW s \in Seq(V)
    PROVE  /\ WithoutRepeats(s) \in Seq(V) /\ ToSet(WithoutRepeats(s)) = ToSet(s)
           /\ Cardinality(ToSet(WithoutRepeats(s))) = Len(WithoutRepeats(s))
<1> DEFINE n == Len(s)
           rounds == [i \in 1..n |-> [op |-> "fresh", item |-> s[i]]]
           next(x, i) == IF s[i] \in ToSet(x) THEN x ELSE Append(x, s[i])
           Rec(f) == f = [i \in 0..n |-> IF i = 0 THEN <<>>
                                         ELSE IF s[i] \in ToSet(f[i - 1]) THEN f[i - 1]
                                         ELSE Append(f[i - 1], s[i])]
           run == CHOOSE f : Rec(f)
<1>0. n \in Nat /\ DOMAIN s = 1..n /\ \A i \in 1..n : s[i] \in V
  OBVIOUS
<1>1. \A i \in 1..n : \A x : Round(x, rounds[i]) = next(x, i)
  BY DEF Round
<1>2. PICK f : IsLoop(f, <<>>, rounds, n)
  BY <1>0, LoopExists
<1>3. Rec(f)
  <2>1. f = [i \in 0..n |-> IF i = 0 THEN <<>> ELSE Round(f[i - 1], rounds[i])]
    BY <1>2 DEF IsLoop
  <2>2. \A i \in 0..n : i # 0 => i \in 1..n
    BY <1>0
  <2> HIDE DEF rounds, n
  <2>3. \A i \in 0..n : f[i] = IF i = 0 THEN <<>> ELSE next(f[i - 1], i)
    <3> HIDE DEF next
    <3> QED
      BY <1>1, <2>1, <2>2
  <2> QED
    BY <2>1, <2>3
<1>4. Rec(run)
  <2> HIDE DEF Rec
  <2> QED
    BY <1>3
<1>5. WithoutRepeats(s) = run[n]
  BY DEF WithoutRepeats
<1>6. run[0] = <<>> /\ \A i \in 1..n : run[i] = next(run[i - 1], i)
  <2> HIDE DEF run
  <2>1. 0 \in 0..n /\ \A i \in 1..n : i \in 0..n /\ i # 0
    BY <1>0
  <2>2. \A i \in 0..n : run[i] = IF i = 0 THEN <<>> ELSE next(run[i - 1], i)
    BY <1>4
  <2> HIDE DEF next, Rec
  <2>3. run[0] = <<>>
    BY <2>1, <2>2, Zenon
  <2>4. \A i \in 1..n : run[i] = next(run[i - 1], i)
    BY <2>1, <2>2
  <2> QED
    BY <2>3, <2>4, Zenon
<1> HIDE DEF run, n
<1> DEFINE Has(i) == /\ run[i] \in Seq(V) /\ IsFiniteSet(ToSet(run[i]))
                     /\ Cardinality(ToSet(run[i])) = Len(run[i])
                     /\ \A x : x \in ToSet(run[i]) <=> \E j \in 1..i : x = s[j]
           H == {i \in 0..n : Has(i)}
<1>7. 0 \in H
  <2>1. <<>> \in Seq(V) /\ ToSet(<<>>) = {} /\ Len(<<>>) = 0
    BY DEF ToSet
  <2>2. IsFiniteSet({}) /\ Cardinality({}) = 0
    BY FS_EmptySet
  <2>3. \A x : ~(x \in {}) /\ ~(\E j \in 1..0 : x = s[j])
    OBVIOUS
  <2>4. Has(0)
    BY <1>6, <2>1, <2>2, <2>3, Zenon
  <2> QED
    BY <1>0, <2>4
<1>8. ASSUME NEW i \in 1..n, i - 1 \in H
      PROVE  i \in H
  <2>0. i \in 0..n /\ i - 1 \in 0..n /\ \A j : j \in 1..i <=> j \in 1..(i - 1) \/ j = i
    BY <1>0
  <2> DEFINE r == run[i - 1]
             old(x) == \E j \in 1..(i - 1) : x = s[j]
             v == s[i]
  <2>1. /\ r \in Seq(V) /\ IsFiniteSet(ToSet(r)) /\ Cardinality(ToSet(r)) = Len(r)
        /\ \A x : x \in ToSet(r) <=> old(x)
    BY <1>8
  <2>2. run[i] = (IF v \in ToSet(r) THEN r ELSE Append(r, v)) /\ v \in V
    BY <1>0, <1>6
  <2> HIDE DEF r
  <2>3. \A x : (\E j \in 1..i : x = s[j]) <=> old(x) \/ x = v
    BY <2>0
  <2> HIDE DEF v, old
  <2>4. CASE v \in ToSet(r)
    <3>1. Has(i)
      BY <2>1, <2>2, <2>3, <2>4
    <3> QED
      BY <2>0, <3>1
  <2>5. CASE v \notin ToSet(r)
    <3> DEFINE q == Append(r, v)
    <3>1. q \in Seq(V) /\ ToSet(q) = ToSet(r) \cup {v} /\ Len(q) = Len(r) + 1
      BY <2>1, <2>2, AppendElements
    <3>2. run[i] = q
      BY <2>2, <2>5
    <3>3. IsFiniteSet(ToSet(r) \cup {v}) /\ Cardinality(ToSet(r) \cup {v}) = Cardinality(ToSet(r)) + 1
      BY <2>1, <2>5, FS_AddElement
    <3> HIDE DEF q
    <3>4. Has(i)
      BY <2>1, <2>3, <3>1, <3>2, <3>3
    <3> QED
      BY <2>0, <3>4
  <2> QED
    BY <2>4, <2>5
<1>9. H \subseteq 0..n
  OBVIOUS
<1> HIDE DEF H
<1>10. H = 0..n
  BY <1>0, <1>7, <1>8, <1>9, LeastFailure
<1>11. n \in H
  BY <1>0, <1>10
<1>12. Has(n)
  BY <1>11 DEF H
<1>13. ToSet(run[n]) = ToSet(s)
  BY <1>0, <1>12 DEF ToSet
<1> QED
  BY <1>5, <1>12, <1>13

LEMMA SmallSeqs ==
    ASSUME NEW T, NEW a \in T, NEW b \in T, NEW c \in T, NEW d \in T
    PROVE  <<a>> \in Seq(T) /\ <<a, b, c>> \in Seq(T) /\ <<a, b, c, d>> \in Seq(T)
OBVIOUS

LEMMA WiderSeq ==
    ASSUME NEW S, NEW T, S \subseteq T, NEW s \in Seq(S)
    PROVE  s \in Seq(T)
OBVIOUS

WithTail(T, s, t) ==
    /\ s \o t \in Seq(T) /\ Len(s) \in Nat /\ Len(s \o t) = Len(s) + Len(t)
    /\ \A i \in 1..Len(s) : (s \o t)[i] = s[i]
    /\ \A i \in 1..Len(t) : (s \o t)[Len(s) + i] = t[i]

LEMMA TailFollows ==
    ASSUME NEW T, NEW s \in Seq(T), NEW t \in Seq(T)
    PROVE  WithTail(T, s, t)
<1> DEFINE u == s \o t
           k == Len(s)
           n == Len(t)
<1>1. /\ u \in Seq(T) /\ Len(u) = k + n /\ k \in Nat /\ n \in Nat
      /\ \A i \in 1..(k + n) : u[i] = IF i <= k THEN s[i] ELSE t[i - k]
  BY ConcatProperties, LenProperties
<1> HIDE DEF u, k, n
<1>2. /\ \A i \in 1..k : i \in 1..(k + n) /\ i <= k
      /\ \A i \in 1..n : k + i \in 1..(k + n) /\ ~(k + i <= k) /\ (k + i) - k = i
  BY <1>1
<1>3. (\A i \in 1..k : u[i] = s[i]) /\ \A i \in 1..n : u[k + i] = t[i]
  BY <1>1, <1>2
<1> QED
  BY <1>1, <1>3 DEF WithTail, u, k, n

LEMMA FieldRead ==
    ASSUME NEW f, IsField(f)
    PROVE  TokenValue(f) \in Seq(STRING)
<1>1. CASE f.kind = "string"
  <2> DEFINE v == f.value
  <2>1. v \in STRING /\ TokenValue(f) = <<v>>
    BY <1>1 DEF IsField, TokenValue
  <2> HIDE DEF v
  <2>2. <<v>> \in Seq(STRING)
    BY <2>1, SmallSeqs, Zenon
  <2> QED
    BY <2>1, <2>2, Zenon
<1>2. CASE f.kind = "object"
  BY <1>2 DEF IsField, TokenValue
<1>3. CASE f.kind # "string" /\ f.kind # "object"
  <2>1. TokenValue(f) = <<>>
    BY <1>3 DEF TokenValue
  <2> QED
    BY <2>1
<1> QED
  BY <1>1, <1>2, <1>3

(* A list of fields is read in order.                                      *)
LEMMA FieldsRead ==
    ASSUME NEW f, f.kind = "array", Len(f.items) \in Nat, \A i \in 1..Len(f.items) : IsField(f.items[i])
    PROVE  TokenValues(f) \in Seq(STRING)
<1> DEFINE n == Len(f.items)
           part(i) == TokenValue(f.items[i])
           rounds == [i \in 1..n |-> [op |-> "concat", item |-> part(i)]]
           next(x, i) == x \o TokenValue(f.items[i])
           Rec(g) == g = [i \in 0..n |-> IF i = 0 THEN <<>> ELSE g[i - 1] \o TokenValue(f.items[i])]
           run == CHOOSE g : Rec(g)
<1>0. n \in Nat /\ \A i \in 1..n : part(i) \in Seq(STRING)
  BY FieldRead
<1>1. \A i \in 1..n : \A x : Round(x, rounds[i]) = next(x, i)
  BY DEF Round
<1>2. PICK g : IsLoop(g, <<>>, rounds, n)
  BY <1>0, LoopExists
<1>3. Rec(g)
  <2>1. g = [i \in 0..n |-> IF i = 0 THEN <<>> ELSE Round(g[i - 1], rounds[i])]
    BY <1>2 DEF IsLoop
  <2>2. \A i \in 0..n : i # 0 => i \in 1..n
    BY <1>0
  <2> HIDE DEF rounds, n
  <2>3. \A i \in 0..n : g[i] = IF i = 0 THEN <<>> ELSE next(g[i - 1], i)
    <3> HIDE DEF next
    <3> QED
      BY <1>1, <2>1, <2>2
  <2> QED
    BY <2>1, <2>3
<1>4. Rec(run)
  <2> HIDE DEF Rec
  <2> QED
    BY <1>3
<1>5. TokenValues(f) = run[n]
  BY DEF TokenValues
<1>6. run[0] = <<>> /\ \A i \in 1..n : run[i] = next(run[i - 1], i)
  <2> HIDE DEF run
  <2>1. 0 \in 0..n /\ \A i \in 1..n : i \in 0..n /\ i # 0
    BY <1>0
  <2>2. \A i \in 0..n : run[i] = IF i = 0 THEN <<>> ELSE next(run[i - 1], i)
    BY <1>4
  <2> HIDE DEF next, Rec
  <2>3. run[0] = <<>>
    BY <2>1, <2>2, Zenon
  <2>4. \A i \in 1..n : run[i] = next(run[i - 1], i)
    BY <2>1, <2>2
  <2> QED
    BY <2>3, <2>4, Zenon
<1> DEFINE H == {i \in 0..n : run[i] \in Seq(STRING)}
<1> HIDE DEF run, n
<1>7. 0 \in H
  <2>1. <<>> \in Seq(STRING) /\ 0 \in 0..n
    BY <1>0
  <2> QED
    BY <1>6, <2>1
<1>8. ASSUME NEW i \in 1..n, i - 1 \in H
      PROVE  i \in H
  <2>1. i \in 0..n /\ run[i - 1] \in Seq(STRING) /\ part(i) \in Seq(STRING)
    BY <1>0, <1>8
  <2>2. run[i] = run[i - 1] \o part(i)
    BY <1>6
  <2> HIDE DEF part
  <2>3. run[i - 1] \o part(i) \in Seq(STRING)
    BY <2>1, ConcatProperties
  <2>4. run[i] \in Seq(STRING)
    BY <2>2, <2>3, Zenon
  <2> QED
    BY <2>1, <2>4
<1>9. H \subseteq 0..n
  OBVIOUS
<1>10. n \in 0..n
  BY <1>0
<1> HIDE DEF H
<1>11. H = 0..n
  BY <1>0, <1>7, <1>8, <1>9, LeastFailure
<1> QED
  BY <1>5, <1>10, <1>11 DEF H

LEMMA EosRead ==
    ASSUME NEW c \in VocabCases
    PROVE  TokenValues(c.eos) \in Seq(STRING)
<1> DEFINE f == c.eos
<1>1. IF f.kind = "array" THEN Len(f.items) \in Nat /\ \A i \in 1..Len(f.items) : IsField(f.items[i])
      ELSE IsField(f)
  BY TextsTyped
<1> HIDE DEF f
<1>2. CASE f.kind = "array"
  BY <1>1, <1>2, FieldsRead DEF f
<1>3. CASE f.kind # "array"
  <2>1. TokenValues(f) = TokenValue(f)
    BY <1>3 DEF TokenValues
  <2> QED
    BY <1>1, <1>3, <2>1, FieldRead DEF f
<1> QED
  BY <1>2, <1>3

-----------------------------------------------------------------------------

VocabIds(c) ==
    [eos  |-> EosId(c.vocab, TokenValues(c.eos)),
     stop |-> StopIds(c.vocab, TokenValues(c.eos)),
     bos  |-> BosId(c.vocab, TokenValue(c.bos))]

VocabInv(s) ==
    \E c \in VocabCases :
        \/ s = [unit |-> "vocab", case |-> c, ids |-> <<>>]
        \/ s = [unit |-> "vocab", case |-> c, ids |-> <<VocabIds(c)>>]

LEMMA VocabStartOK ==
    ASSUME NEW c \in VocabCases
    PROVE  VocabInv(VocabStart(c))
BY DEF VocabInv, VocabStart

LEMMA ReadVocabOK ==
    ASSUME VocabInv(st), ReadVocab
    PROVE  VocabInv(st')
<1>1. PICK c \in VocabCases : \/ st = [unit |-> "vocab", case |-> c, ids |-> <<>>]
                              \/ st = [unit |-> "vocab", case |-> c, ids |-> <<VocabIds(c)>>]
  BY DEF VocabInv
<1>2. st.ids = <<>> /\ st.case = c
  BY <1>1 DEF ReadVocab
<1> DEFINE v == VocabIds(c)
<1>3. <<v>> # <<>>
  OBVIOUS
<1>4. st = [unit |-> "vocab", case |-> c, ids |-> <<>>]
  <2> HIDE DEF v
  <2>1. st = [unit |-> "vocab", case |-> c, ids |-> <<v>>] => st.ids = <<v>>
    OBVIOUS
  <2> QED
    BY <1>1, <1>2, <1>3, <2>1 DEF v
<1>5. st' = [st EXCEPT !.ids = <<v>>]
  BY <1>2 DEF ReadVocab, VocabIds
<1> HIDE DEF v
<1>6. st' = [unit |-> "vocab", case |-> c, ids |-> <<v>>]
  BY <1>4, <1>5
<1> QED
  BY <1>6 DEF VocabInv, v

(* Every token that ends a text is a stop token, once.                     *)
LEMMA VocabIdsSound ==
    ASSUME NEW vocab, NEW eos \in Seq(STRING)
    PROVE  /\ ToSet(EosId(vocab, eos)) \cup {vocab[t] : t \in ToSet(eos) \cap DOMAIN vocab}
                 \subseteq ToSet(StopIds(vocab, eos))
           /\ Cardinality(ToSet(StopIds(vocab, eos))) = Len(StopIds(vocab, eos))
           /\ ToSet(eos) \cap DOMAIN vocab # {} => EosId(vocab, eos) # <<>>
<1> DEFINE T == STRING \cup {"</s>", "<|end_of_text|>", "<|eom_id|>", "<|eot_id|>"}
           V == {vocab[t] : t \in DOMAIN vocab}
           t3 == <<"</s>", "<|end_of_text|>", "<|eot_id|>">>
           t4 == <<"</s>", "<|end_of_text|>", "<|eom_id|>", "<|eot_id|>">>
           more == eos \o t3
           all == eos \o t4
           m == Ids(vocab, more)
           a == Ids(vocab, all)
           k == Len(eos)
<1>1. /\ k \in Nat /\ more \in Seq(T) /\ all \in Seq(T)
      /\ Len(more) = k + 3 /\ Len(all) = k + 4
      /\ \A i \in 1..k : more[i] = eos[i] /\ all[i] = eos[i]
      /\ more[k + 1] = "</s>" /\ more[k + 2] = "<|end_of_text|>" /\ more[k + 3] = "<|eot_id|>"
      /\ all[k + 1] = "</s>" /\ all[k + 2] = "<|end_of_text|>" /\ all[k + 4] = "<|eot_id|>"
  <2>1. t3 \in Seq(T) /\ t4 \in Seq(T)
    <3>1. "</s>" \in T /\ "<|end_of_text|>" \in T /\ "<|eom_id|>" \in T /\ "<|eot_id|>" \in T
      OBVIOUS
    <3> HIDE DEF T
    <3> QED
      BY <3>1, SmallSeqs, Zenon
  <2>2. /\ Len(t3) = 3 /\ Len(t4) = 4 /\ 3 \in Nat /\ 4 \in Nat
        /\ t3[1] = "</s>" /\ t3[2] = "<|end_of_text|>" /\ t3[3] = "<|eot_id|>"
        /\ t4[1] = "</s>" /\ t4[2] = "<|end_of_text|>" /\ t4[4] = "<|eot_id|>"
    OBVIOUS
  <2>0. eos \in Seq(T)
    <3>1. STRING \subseteq T
      OBVIOUS
    <3> HIDE DEF T
    <3> QED
      BY <3>1, WiderSeq
  <2> HIDE DEF t3, t4, T, V
  <2>3. /\ more \in Seq(T) /\ Len(more) = k + Len(t3) /\ k \in Nat
        /\ \A i \in 1..k : more[i] = eos[i]
        /\ \A i \in 1..Len(t3) : more[k + i] = t3[i]
    <3>1. WithTail(T, eos, t3)
      BY <2>0, <2>1, TailFollows
    <3> QED
      BY <3>1 DEF WithTail
  <2>4. /\ all \in Seq(T) /\ Len(all) = k + Len(t4)
        /\ \A i \in 1..k : all[i] = eos[i]
        /\ \A i \in 1..Len(t4) : all[k + i] = t4[i]
    <3>1. WithTail(T, eos, t4)
      BY <2>0, <2>1, TailFollows
    <3> QED
      BY <3>1 DEF WithTail
  <2> HIDE DEF k, more, all
  <2> QED
    BY <2>2, <2>3, <2>4
<1>2. DOMAIN eos = 1..k
  OBVIOUS
<1> HIDE DEF k, more, all, t3, t4, T
<1>3. \A t \in DOMAIN vocab : vocab[t] \in V
  OBVIOUS
<1>4. /\ m \in Seq(V)
      /\ \A x : x \in ToSet(m) <=> \E j \in 1..Len(more) : more[j] \in DOMAIN vocab /\ x = vocab[more[j]]
  <2>1. IdsOf(vocab, more, m)
    BY <1>1, IdsAre
  <2> QED
    BY <2>1 DEF IdsOf
<1>5. /\ a \in Seq(V)
      /\ \A x : x \in ToSet(a) <=> \E j \in 1..Len(all) : all[j] \in DOMAIN vocab /\ x = vocab[all[j]]
  <2>1. IdsOf(vocab, all, a)
    BY <1>1, IdsAre
  <2> QED
    BY <2>1 DEF IdsOf
<1> HIDE DEF m, a, V
<1>6. \A j \in 1..Len(more) : \E i \in 1..Len(all) : all[i] = more[j]
  <2> TAKE j \in 1..Len(more)
  <2>1. j \in 1..k \/ j = k + 1 \/ j = k + 2 \/ j = k + 3
    BY <1>1
  <2>2. /\ \A i \in 1..k : i \in 1..Len(all)
        /\ k + 1 \in 1..Len(all) /\ k + 2 \in 1..Len(all) /\ k + 4 \in 1..Len(all)
    BY <1>1
  <2> QED
    BY <1>1, <2>1, <2>2
<1>7. ToSet(m) \subseteq ToSet(a)
  BY <1>4, <1>5, <1>6
<1>8. \A i \in 1..k : i \in 1..Len(all) /\ i \in 1..Len(more)
  BY <1>1
<1>9. ASSUME NEW t \in ToSet(eos) \cap DOMAIN vocab
      PROVE  vocab[t] \in ToSet(a) /\ vocab[t] \in ToSet(m)
  <2>1. PICK i \in 1..k : t = eos[i]
    BY <1>2, <1>9 DEF ToSet
  <2>2. all[i] = t /\ more[i] = t
    BY <1>1, <2>1
  <2> QED
    BY <1>4, <1>5, <1>8, <1>9, <2>1, <2>2
<1>10. /\ ToSet(StopIds(vocab, eos)) = ToSet(a)
       /\ Cardinality(ToSet(StopIds(vocab, eos))) = Len(StopIds(vocab, eos))
  <2>1. StopIds(vocab, eos) = WithoutRepeats(a)
    BY DEF StopIds, a, all, t4
  <2>2. ToSet(WithoutRepeats(a)) = ToSet(a) /\ Cardinality(ToSet(WithoutRepeats(a))) = Len(WithoutRepeats(a))
    BY <1>5, KeptOnce
  <2> QED
    BY <2>1, <2>2, Zenon
<1>11. EosId(vocab, eos) = SubSeq(m, 1, Min({1, Len(m)}))
  BY DEF EosId, FirstId, m, more, t3
<1>12. CASE m = <<>>
  <2>1. ToSet(m) = {}
    <3>1. ToSet(<<>>) = {}
      BY DEF ToSet
    <3> QED
      BY <1>12, <3>1, Zenon
  <2>2. EosId(vocab, eos) = <<>> /\ ToSet(EosId(vocab, eos)) = {}
    <3>1. Len(m) = 0
      BY <1>12
    <3>2. {1, Len(m)} \subseteq Nat /\ {1, Len(m)} # {} /\ 0 \in {1, Len(m)} /\ \A y \in {1, Len(m)} : 0 <= y
      BY <3>1
    <3>3. Min({1, Len(m)}) = 0
      BY <3>2, LeastIsMin
    <3>4. SubSeq(m, 1, 0) = <<>>
      BY <1>4, SubSeqEmpty
    <3>5. EosId(vocab, eos) = <<>>
      BY <1>11, <3>3, <3>4, Zenon
    <3> QED
      BY <1>12, <2>1, <3>5, Zenon
  <2>3. ToSet(eos) \cap DOMAIN vocab = {}
    BY <1>9, <2>1
  <2> QED
    BY <1>9, <1>10, <2>2, <2>3
<1>13. CASE m # <<>>
  <2>1. Len(m) \in Nat /\ Len(m) > 0
    BY <1>4, <1>13, EmptySeq, LenProperties
  <2>2. {1, Len(m)} \subseteq Nat /\ 1 \in {1, Len(m)} /\ \A y \in {1, Len(m)} : 1 <= y
    BY <2>1
  <2>3. Min({1, Len(m)}) = 1
    BY <2>2, LeastIsMin
  <2> DEFINE e == SubSeq(m, 1, 1)
  <2>4. EosId(vocab, eos) = e
    BY <1>11, <2>3
  <2>5. Len(e) = 1 /\ e[1] = m[1] /\ DOMAIN e = {1}
    <3>1. /\ SubSeq(m, 0 + 1, 0 + 1) \in Seq(V) /\ Len(SubSeq(m, 0 + 1, 0 + 1)) = 1
          /\ \A i \in 1..1 : SubSeq(m, 0 + 1, 0 + 1)[i] = m[0 + i]
      <4>1. 0 \in Nat /\ 1 \in Nat /\ 0 + 1 <= Len(m)
        BY <2>1
      <4> QED
        BY <1>4, <4>1, PartOf
    <3>2. 0 + 1 = 1 /\ 1 \in 1..1
      OBVIOUS
    <3>3. e \in Seq(V) /\ Len(e) = 1 /\ e[1] = m[1]
      BY <3>1, <3>2
    <3> QED
      BY <3>3
  <2> HIDE DEF e
  <2>6. ToSet(e) = {m[1]} /\ m[1] \in ToSet(m)
    BY <1>4, <2>1, <2>5 DEF ToSet
  <2>7. e # <<>>
    BY <2>5
  <2> QED
    BY <1>7, <1>9, <1>10, <2>4, <2>6, <2>7
<1> QED
  BY <1>12, <1>13

LEMMA VocabInvSound ==
    ASSUME VocabInv(st), st.ids # <<>>
    PROVE  LET ids == st.ids[1]
               named == ToSet(TokenValues(st.case.eos)) \cap DOMAIN st.case.vocab
           IN  /\ ToSet(ids.eos) \cup {st.case.vocab[t] : t \in named} \subseteq ToSet(ids.stop)
               /\ Cardinality(ToSet(ids.stop)) = Len(ids.stop)
               /\ named # {} => ids.eos # <<>>
<1>1. PICK c \in VocabCases : \/ st = [unit |-> "vocab", case |-> c, ids |-> <<>>]
                              \/ st = [unit |-> "vocab", case |-> c, ids |-> <<VocabIds(c)>>]
  BY DEF VocabInv
<1> DEFINE v == VocabIds(c)
           eos == TokenValues(c.eos)
<1>2. st.case = c /\ st.ids[1] = v
  <2> HIDE DEF v
  <2>1. st = [unit |-> "vocab", case |-> c, ids |-> <<v>>]
    <3>1. st # [unit |-> "vocab", case |-> c, ids |-> <<>>]
      OBVIOUS
    <3> QED
      BY <1>1, <3>1 DEF v
  <2> QED
    BY <2>1
<1>3. v.eos = EosId(c.vocab, eos) /\ v.stop = StopIds(c.vocab, eos)
  BY DEF VocabIds
<1>4. eos \in Seq(STRING)
  BY EosRead
<1> HIDE DEF v, eos
<1>5. /\ ToSet(v.eos) \cup {c.vocab[t] : t \in ToSet(eos) \cap DOMAIN c.vocab} \subseteq ToSet(v.stop)
      /\ Cardinality(ToSet(v.stop)) = Len(v.stop)
      /\ ToSet(eos) \cap DOMAIN c.vocab # {} => v.eos # <<>>
  BY <1>3, <1>4, VocabIdsSound
<1> QED
  BY <1>2, <1>5 DEF eos

-----------------------------------------------------------------------------
(* Tool calls: some of the elements of a sequence.                         *)

IsSelection(f, T, s, at) ==
    /\ f[0] = <<>>
    /\ \A i \in 0..Len(s) : f[i] \in Seq(T)
    /\ \A i \in 1..Len(s) : /\ i \in at => f[i] = Append(f[i - 1], s[i])
                            /\ i \notin at => f[i] = f[i - 1]

LEMMA SelectionIs ==
    ASSUME NEW T, NEW s \in Seq(T), NEW at
    PROVE  \E f : IsSelection(f, T, s, at) /\ Selected(s, at) = f[Len(s)]
<1> DEFINE n == Len(s)
           item(i) == IF i \in at THEN [op |-> "append", item |-> s[i]] ELSE [op |-> "skip"]
           rounds == [i \in 1..n |-> item(i)]
           next(x, i) == IF i \in at THEN Append(x, s[i]) ELSE x
           Rec(f) == f = [i \in 0..n |-> IF i = 0 THEN <<>>
                                         ELSE IF i \in at THEN Append(f[i - 1], s[i])
                                         ELSE f[i - 1]]
           run == CHOOSE f : Rec(f)
<1>0. n \in Nat /\ \A i \in 1..n : s[i] \in T
  OBVIOUS
<1>1. \A i \in 1..n : \A x : Round(x, rounds[i]) = next(x, i)
  <2> TAKE i \in 1..n
  <2> TAKE x
  <2>1. rounds[i] = item(i)
    OBVIOUS
  <2> HIDE DEF rounds
  <2>2. CASE i \in at
    BY <2>1, <2>2 DEF Round
  <2>3. CASE i \notin at
    BY <2>1, <2>3 DEF Round
  <2> QED
    BY <2>2, <2>3
<1>2. PICK f : IsLoop(f, <<>>, rounds, n)
  BY <1>0, LoopExists
<1>3. Rec(f)
  <2>1. f = [i \in 0..n |-> IF i = 0 THEN <<>> ELSE Round(f[i - 1], rounds[i])]
    BY <1>2 DEF IsLoop
  <2>2. \A i \in 0..n : i # 0 => i \in 1..n
    BY <1>0
  <2> HIDE DEF rounds, n
  <2>3. \A i \in 0..n : f[i] = IF i = 0 THEN <<>> ELSE next(f[i - 1], i)
    <3> HIDE DEF next
    <3> QED
      BY <1>1, <2>1, <2>2
  <2> QED
    BY <2>1, <2>3
<1>4. Rec(run)
  <2> HIDE DEF Rec
  <2> QED
    BY <1>3
<1>5. Selected(s, at) = run[n]
  BY DEF Selected
<1>6. run[0] = <<>> /\ \A i \in 1..n : run[i] = next(run[i - 1], i)
  <2> HIDE DEF run
  <2>1. 0 \in 0..n /\ \A i \in 1..n : i \in 0..n /\ i # 0
    BY <1>0
  <2>2. \A i \in 0..n : run[i] = IF i = 0 THEN <<>> ELSE next(run[i - 1], i)
    BY <1>4
  <2> HIDE DEF next, Rec
  <2>3. run[0] = <<>>
    BY <2>1, <2>2, Zenon
  <2>4. \A i \in 1..n : run[i] = next(run[i - 1], i)
    BY <2>1, <2>2
  <2> QED
    BY <2>3, <2>4, Zenon
<1> HIDE DEF run, n
<1> DEFINE H == {i \in 0..n : run[i] \in Seq(T)}
<1>7. 0 \in H
  <2>1. <<>> \in Seq(T) /\ 0 \in 0..n
    BY <1>0
  <2>2. run[0] \in Seq(T)
    BY <1>6, <2>1, Zenon
  <2> QED
    BY <2>1, <2>2
<1>8. ASSUME NEW i \in 1..n, i - 1 \in H
      PROVE  i \in H
  <2>1. i \in 0..n /\ run[i - 1] \in Seq(T) /\ s[i] \in T
    BY <1>0, <1>8
  <2>2. Append(run[i - 1], s[i]) \in Seq(T)
    BY <2>1
  <2>3. run[i] \in Seq(T)
    BY <1>6, <2>1, <2>2
  <2> QED
    BY <2>1, <2>3
<1>9. H \subseteq 0..n
  OBVIOUS
<1> HIDE DEF H
<1>10. H = 0..n
  BY <1>0, <1>7, <1>8, <1>9, LeastFailure
<1>11. IsSelection(run, T, s, at)
  BY <1>6, <1>10 DEF IsSelection, H, n
<1> QED
  BY <1>5, <1>11 DEF n

LEMMA SelectedSeq ==
    ASSUME NEW T, NEW s \in Seq(T), NEW at
    PROVE  Selected(s, at) \in Seq(T)
<1>1. PICK f : IsSelection(f, T, s, at) /\ Selected(s, at) = f[Len(s)]
  BY SelectionIs
<1> QED
  BY <1>1 DEF IsSelection

(* Selecting a range is cutting it out.                                    *)
LEMMA SelectedRange ==
    ASSUME NEW T, NEW s \in Seq(T), NEW a \in 1..(Len(s) + 1), NEW b \in (a - 1)..Len(s)
    PROVE  Selected(s, a..b) = SubSeq(s, a, b)
<1>1. PICK f : IsSelection(f, T, s, a..b) /\ Selected(s, a..b) = f[Len(s)]
  BY SelectionIs
<1> DEFINE n == Len(s)
           end(i) == IF i < a THEN a - 1 ELSE IF i <= b THEN i ELSE b
           H == {i \in 0..n : f[i] = SubSeq(s, a, end(i))}
<1>2. n \in Nat
  OBVIOUS
<1>3. 0 \in H
  <2>1. SubSeq(s, a, a - 1) = <<>> /\ end(0) = a - 1
    OBVIOUS
  <2> HIDE DEF end
  <2> QED
    BY <1>1, <1>2, <2>1 DEF IsSelection
<1>4. ASSUME NEW i \in 1..n, i - 1 \in H
      PROVE  i \in H
  <2>1. f[i - 1] = SubSeq(s, a, end(i - 1))
    BY <1>4
  <2>2. CASE i \in a..b
    <3>1. f[i] = Append(f[i - 1], s[i])
      BY <1>1, <2>2 DEF IsSelection
    <3>2. end(i - 1) = i - 1 /\ end(i) = i
      BY <2>2
    <3> HIDE DEF end
    <3>3. SubSeq(s, a, i) = Append(SubSeq(s, a, i - 1), s[i])
      BY <2>2
    <3>4. f[i] = SubSeq(s, a, end(i))
      BY <2>1, <3>1, <3>2, <3>3, Zenon
    <3> QED
      BY <3>4
  <2>3. CASE i \notin a..b
    <3>1. f[i] = f[i - 1]
      BY <1>1, <2>3 DEF IsSelection
    <3>2. end(i - 1) = end(i)
      BY <2>3
    <3> HIDE DEF end
    <3>3. f[i] = SubSeq(s, a, end(i))
      BY <2>1, <3>1, <3>2, Zenon
    <3> QED
      BY <3>3
  <2> QED
    BY <2>2, <2>3
<1>5. H \subseteq 0..n
  OBVIOUS
<1> HIDE DEF H
<1>6. H = 0..n
  BY <1>2, <1>3, <1>4, <1>5, LeastFailure
<1>7. end(n) = b
  OBVIOUS
<1>8. f[n] = SubSeq(s, a, end(n))
  BY <1>2, <1>6 DEF H
<1> HIDE DEF end
<1> QED
  BY <1>1, <1>7, <1>8, Zenon DEF n

(* Selecting places of which those in A come before those in B.            *)
LEMMA SelectedSplit ==
    ASSUME NEW T, NEW s \in Seq(T), NEW A, NEW B, A \subseteq 1..Len(s), B \subseteq 1..Len(s),
           \A i \in A, j \in B : i < j
    PROVE  Selected(s, A \cup B) = Selected(s, A) \o Selected(s, B)
<1>1. PICK f : IsSelection(f, T, s, A) /\ Selected(s, A) = f[Len(s)]
  BY SelectionIs
<1>2. PICK g : IsSelection(g, T, s, B) /\ Selected(s, B) = g[Len(s)]
  BY SelectionIs
<1>3. PICK h : IsSelection(h, T, s, A \cup B) /\ Selected(s, A \cup B) = h[Len(s)]
  BY SelectionIs
<1> DEFINE n == Len(s)
           Has(i) == h[i] = f[i] \o g[i] /\ ((\A j \in B : i < j) => g[i] = <<>>)
           H == {i \in 0..n : Has(i)}
<1>4. n \in Nat
  OBVIOUS
<1>5. 0 \in H
  <2>1. h[0] = <<>> /\ f[0] = <<>> /\ g[0] = <<>>
    BY <1>1, <1>2, <1>3 DEF IsSelection
  <2>2. h[0] = f[0] \o g[0]
    BY <2>1
  <2>3. Has(0)
    BY <2>1, <2>2, Zenon
  <2> HIDE DEF Has
  <2> QED
    BY <1>4, <2>3
<1>6. ASSUME NEW i \in 1..n, i - 1 \in H
      PROVE  i \in H
  <2>1. h[i - 1] = f[i - 1] \o g[i - 1] /\ ((\A j \in B : i - 1 < j) => g[i - 1] = <<>>)
    BY <1>6
  <2>2. f[i - 1] \in Seq(T) /\ g[i - 1] \in Seq(T) /\ s[i] \in T /\ i \in 0..n
    BY <1>1, <1>2, <1>6 DEF IsSelection
  <2> SUFFICES Has(i)
    BY <2>2
  <2>3. (\A j \in B : i < j) => \A j \in B : i - 1 < j
    OBVIOUS
  <2>4. CASE i \in A
    <3>1. i \notin B /\ \A j \in B : i < j
      BY <2>4
    <3>2. f[i] = Append(f[i - 1], s[i]) /\ g[i] = g[i - 1] /\ h[i] = Append(h[i - 1], s[i])
      BY <1>1, <1>2, <1>3, <2>4, <3>1 DEF IsSelection
    <3>3. g[i - 1] = <<>>
      BY <2>1, <2>3, <3>1
    <3>4. f[i - 1] \o <<>> = f[i - 1] /\ Append(f[i - 1], s[i]) \o <<>> = Append(f[i - 1], s[i])
      BY <2>2
    <3>5. h[i] = f[i] \o g[i]
      BY <2>1, <3>2, <3>3, <3>4, Zenon
    <3> QED
      BY <3>2, <3>3, <3>5, Zenon
  <2>5. CASE i \in B
    <3>1. i \notin A /\ ~(\A j \in B : i < j)
      BY <2>5
    <3>2. f[i] = f[i - 1] /\ g[i] = Append(g[i - 1], s[i]) /\ h[i] = Append(h[i - 1], s[i])
      BY <1>1, <1>2, <1>3, <2>5, <3>1 DEF IsSelection
    <3> DEFINE x == f[i - 1]
               y == g[i - 1]
               e == s[i]
    <3>a. x \in Seq(T) /\ y \in Seq(T) /\ e \in T
      BY <2>2
    <3> HIDE DEF x, y, e
    <3>b. x \o Append(y, e) = Append(x \o y, e)
      BY <3>a, ConcatAppend
    <3>3. f[i - 1] \o Append(g[i - 1], s[i]) = Append(f[i - 1] \o g[i - 1], s[i])
      BY <3>b, Zenon DEF x, y, e
    <3>4. h[i] = f[i] \o g[i]
      BY <2>1, <3>2, <3>3, Zenon
    <3> QED
      BY <3>1, <3>4, Zenon
  <2>6. CASE i \notin A /\ i \notin B
    <3>1. f[i] = f[i - 1] /\ g[i] = g[i - 1] /\ h[i] = h[i - 1]
      BY <1>1, <1>2, <1>3, <2>6 DEF IsSelection
    <3> QED
      BY <2>1, <2>3, <3>1, Zenon
  <2> QED
    BY <2>4, <2>5, <2>6
<1>7. H \subseteq 0..n
  OBVIOUS
<1> HIDE DEF H
<1>8. H = 0..n
  BY <1>4, <1>5, <1>6, <1>7, LeastFailure
<1>9. h[n] = f[n] \o g[n]
  <2>1. n \in H
    BY <1>4, <1>8
  <2> HIDE DEF Has
  <2>2. Has(n)
    BY <2>1 DEF H
  <2> QED
    BY <2>2, Zenon DEF Has
<1> QED
  BY <1>1, <1>2, <1>3, <1>9, Zenon DEF n

LEMMA SelectedElements ==
    ASSUME NEW T, NEW s \in Seq(T), NEW at, at \subseteq 1..Len(s)
    PROVE  ToSet(Selected(s, at)) = {s[i] : i \in at}
<1>1. PICK f : IsSelection(f, T, s, at) /\ Selected(s, at) = f[Len(s)]
  BY SelectionIs
<1> DEFINE n == Len(s)
           Of(i) == {s[j] : j \in {k \in at : k <= i}}
           H == {i \in 0..n : ToSet(f[i]) = Of(i)}
<1>2. n \in Nat /\ \A k \in at : k \in Int /\ 1 <= k /\ k <= n
  OBVIOUS
<1> HIDE DEF n
<1>3. 0 \in H
  <2>1. ToSet(f[0]) = {}
    BY <1>1 DEF IsSelection, ToSet
  <2>2. Of(0) = {}
    <3>1. \A k \in at : ~(k <= 0)
      BY <1>2
    <3> QED
      BY <3>1, Zenon
  <2> QED
    BY <1>2, <2>1, <2>2
<1>4. ASSUME NEW i \in 1..n, i - 1 \in H
      PROVE  i \in H
  <2>1. ToSet(f[i - 1]) = Of(i - 1) /\ i \in 0..n /\ f[i - 1] \in Seq(T) /\ s[i] \in T
    BY <1>1, <1>2, <1>4 DEF IsSelection, n
  <2>2. CASE i \in at
    <3>1. f[i] = Append(f[i - 1], s[i])
      BY <1>1, <2>2 DEF IsSelection, n
    <3>2. ToSet(f[i]) = ToSet(f[i - 1]) \cup {s[i]}
      BY <2>1, <3>1, AppendElements
    <3>3. {k \in at : k <= i} = {k \in at : k <= i - 1} \cup {i}
      <4>1. i <= i /\ \A k \in at : k <= i <=> k <= i - 1 \/ k = i
        BY <1>2
      <4> QED
        BY <2>2, <4>1, Zenon
    <3>4. Of(i) = Of(i - 1) \cup {s[i]}
      BY <3>3
    <3> HIDE DEF Of
    <3> QED
      BY <2>1, <3>2, <3>4
  <2>3. CASE i \notin at
    <3>1. f[i] = f[i - 1]
      BY <1>1, <2>3 DEF IsSelection, n
    <3>2. {k \in at : k <= i} = {k \in at : k <= i - 1}
      <4>1. \A k \in at : k <= i <=> k <= i - 1 \/ k = i
        BY <1>2
      <4> QED
        BY <2>3, <4>1, Zenon
    <3>3. Of(i) = Of(i - 1)
      BY <3>2
    <3> HIDE DEF Of
    <3> QED
      BY <2>1, <3>1, <3>3
  <2> QED
    BY <2>2, <2>3
<1>5. H \subseteq 0..n
  OBVIOUS
<1> HIDE DEF H
<1>6. H = 0..n
  BY <1>2, <1>3, <1>4, <1>5, LeastFailure
<1>7. {k \in at : k <= n} = at
  BY <1>2
<1>8. ToSet(f[n]) = Of(n)
  <2>1. n \in H
    BY <1>2, <1>6
  <2> QED
    BY <2>1, Zenon DEF H
<1> QED
  BY <1>1, <1>7, <1>8 DEF n

LEMMA FindFromIs ==
    ASSUME NEW T, NEW text \in Seq(T), NEW i \in Nat, 1 <= i, NEW kind, NEW x, x = FindFrom(text, i, kind)
    PROVE  \/ x = 0 /\ \A j \in i..Len(text) : text[j].kind # kind
           \/ x \in i..Len(text) /\ text[x].kind = kind /\ \A j \in i..(x - 1) : text[j].kind # kind
<1> DEFINE at == {j \in i..Len(text) : IsKind(text, j, kind)}
<1>0. \A j : j \in i..Len(text) => j \in DOMAIN text /\ j \in Nat
  OBVIOUS
<1>1. \A j : j \in at <=> j \in i..Len(text) /\ text[j].kind = kind
  BY <1>0 DEF IsKind
<1>2. at \subseteq Nat
  BY <1>0, <1>1
<1>3. x = IF at = {} THEN 0 ELSE CHOOSE j \in at : \A k \in at : j <= k
  BY DEF FindFrom
<1> HIDE DEF at
<1>4. CASE at = {}
  BY <1>1, <1>3, <1>4
<1>5. CASE at # {}
  <2>1. \E j \in at : \A k \in at : j <= k
    BY <1>2, <1>5, NatMinimum
  <2>2. x \in at /\ \A k \in at : x <= k
    BY <1>3, <1>5, <2>1
  <2>3. x \in i..Len(text) /\ text[x].kind = kind
    BY <1>1, <2>2
  <2>4. ASSUME NEW j \in i..(x - 1) PROVE text[j].kind # kind
    <3>1. j \in i..Len(text) /\ ~(x <= j)
      BY <2>3
    <3> QED
      BY <1>1, <2>2, <3>1
  <2> QED
    BY <2>3, <2>4
<1> QED
  BY <1>4, <1>5

(* One round of TaggedValues, and where the next one begins.               *)
CloseFrom(text, i) == FindFrom(text, FindFrom(text, i, "open") + 1, "close")

TaggedFrom(text, i, rest) ==
    LET open  == FindFrom(text, i, "open")
        close == FindFrom(text, open + 1, "close")
        body  == ParseJson(SubSeq(text, open + 1, close - 1))
    IN  IF open = 0
        THEN <<[values |-> <<>>, content |-> SubSeq(text, i, Len(text))]>>
        ELSE IF close = 0 THEN <<>>
        ELSE IF body = <<>> \/ rest = <<>> THEN <<>>
        ELSE <<[values  |-> body[1] \o rest[1].values,
                content |-> SubSeq(text, i, open - 1) \o rest[1].content]>>

IsTagged(f, text, i) == f[i] = TaggedFrom(text, i, f[CloseFrom(text, i) + 1])

LEMMA TaggedOnward ==
    ASSUME NEW T, NEW text \in Seq(T), NEW i \in 1..(Len(text) + 1), NEW a, NEW b,
           CloseFrom(text, i) + 1 \in (i + 1)..(Len(text) + 1) => a = b
    PROVE  TaggedFrom(text, i, a) = TaggedFrom(text, i, b)
<1> DEFINE open == FindFrom(text, i, "open")
           close == FindFrom(text, open + 1, "close")
<1>1. CASE open = 0
  BY <1>1 DEF TaggedFrom
<1>2. CASE open # 0
  <2>0. open \in i..Len(text)
    <3> HIDE DEF open
    <3>1. \A x : x = FindFrom(text, i, "open") => x = 0 \/ x \in i..Len(text)
      BY FindFromIs
    <3> QED
      BY <1>2, <3>1 DEF open
  <2>1. CASE close = 0
    BY <1>2, <2>1 DEF TaggedFrom
  <2>2. CASE close # 0
    <3>1. open + 1 \in Nat /\ 1 <= open + 1 /\ i \in Nat /\ Len(text) \in Nat
      BY <2>0
    <3> HIDE DEF open
    <3>2. close \in (open + 1)..Len(text)
      <4> HIDE DEF close
      <4>1. \A x : x = FindFrom(text, open + 1, "close") => x = 0 \/ x \in (open + 1)..Len(text)
        BY <3>1, FindFromIs
      <4> QED
        BY <2>2, <4>1 DEF close
    <3>3. close + 1 \in (i + 1)..(Len(text) + 1)
      BY <2>0, <3>1, <3>2
    <3>4. a = b
      BY <3>3 DEF CloseFrom, open
    <3> QED
      BY <3>4
  <2> QED
    BY <2>1, <2>2
<1> QED
  BY <1>1, <1>2

(* The values are found from the last piece to the first.                  *)
LEMMA TaggedExists ==
    ASSUME NEW T, NEW text \in Seq(T)
    PROVE  \E f : f = [i \in 1..(Len(text) + 1) |-> TaggedFrom(text, i, f[CloseFrom(text, i) + 1])]
<1> DEFINE n == Len(text)
           H == {k \in 0..n : \E f : \A i \in (n + 1 - k)..(n + 1) : IsTagged(f, text, i)}
<1>1. n \in Nat
  OBVIOUS
<1>2. \A k \in 0..n : \A f : \A i \in (n + 1 - k)..(n + 1) : \A a :
        (CloseFrom(text, i) + 1 \in (i + 1)..(n + 1) => a = f[CloseFrom(text, i) + 1]) =>
            TaggedFrom(text, i, a) = TaggedFrom(text, i, f[CloseFrom(text, i) + 1])
  <2> TAKE k \in 0..n
  <2> TAKE f
  <2> TAKE i \in (n + 1 - k)..(n + 1)
  <2> TAKE a
  <2>1. i \in 1..(Len(text) + 1)
    BY <1>1
  <2> DEFINE b == f[CloseFrom(text, i) + 1]
  <2> HAVE CloseFrom(text, i) + 1 \in (i + 1)..(n + 1) => a = b
  <2> HIDE DEF b
  <2>2. TaggedFrom(text, i, a) = TaggedFrom(text, i, b)
    BY <2>1, TaggedOnward
  <2> QED
    BY <2>2 DEF b
<1> HIDE DEF n
<1>3. ASSUME NEW k \in 0..n, NEW g, \A i \in (n + 2 - k)..(n + 1) : IsTagged(g, text, i)
      PROVE  k \in H
  <2> DEFINE z == n + 1 - k
             f == [i \in 1..(n + 1) |-> IF i = z THEN TaggedFrom(text, z, g[CloseFrom(text, z) + 1]) ELSE g[i]]
  <2>1. z \in 1..(n + 1) /\ \A i \in z..(n + 1) : i \in 1..(n + 1) /\ (i # z => i \in (n + 2 - k)..(n + 1))
    BY <1>1
  <2>2. ASSUME NEW i \in z..(n + 1)
        PROVE  IsTagged(f, text, i)
    <3> DEFINE y == CloseFrom(text, i) + 1
    <3>0. i \in Nat /\ z \in Nat /\ z <= i
      BY <1>1
    <3>1. y \in (i + 1)..(n + 1) => f[y] = g[y]
      <4>1. y \in (i + 1)..(n + 1) => y \in 1..(n + 1) /\ y # z
        <5> HIDE DEF y, z
        <5> QED
          BY <1>1, <3>0
      <4> HIDE DEF y, z
      <4> QED
        BY <4>1
    <3>2. f[i] = TaggedFrom(text, i, g[y])
      <4>1. CASE i = z
        <5>1. f[z] = TaggedFrom(text, z, g[CloseFrom(text, z) + 1])
          <6> HIDE DEF z
          <6> QED
            BY <2>1
        <5> HIDE DEF f, z
        <5> QED
          BY <4>1, <5>1
      <4>2. CASE i # z
        <5>1. f[i] = g[i]
          <6> HIDE DEF z
          <6> QED
            BY <2>1, <4>2
        <5>2. IsTagged(g, text, i)
          BY <1>3, <2>1, <4>2
        <5> HIDE DEF f, z
        <5> QED
          BY <5>1, <5>2 DEF IsTagged
      <4> QED
        BY <4>1, <4>2
    <3>3. TaggedFrom(text, i, g[y]) = TaggedFrom(text, i, f[y])
      <4> HIDE DEF f
      <4>0. i \in (n + 1 - k)..(n + 1)
        OBVIOUS
      <4>1. y \in (i + 1)..(n + 1) => g[y] = f[y]
        BY <3>1
      <4> QED
        BY <1>2, <4>0, <4>1
    <3> HIDE DEF f
    <3> QED
      BY <3>2, <3>3 DEF IsTagged
  <2> HIDE DEF f
  <2> QED
    BY <2>2
<1>4. 0 \in H
  <2>1. \A i \in (n + 2 - 0)..(n + 1) : IsTagged(<<>>, text, i)
    BY <1>1
  <2>2. 0 \in 0..n
    BY <1>1
  <2> HIDE DEF H
  <2> QED
    BY <1>3, <2>1, <2>2
<1>5. ASSUME NEW k \in 1..n, k - 1 \in H
      PROVE  k \in H
  <2>1. PICK g : \A i \in (n + 1 - (k - 1))..(n + 1) : IsTagged(g, text, i)
    BY <1>5
  <2>2. k \in 0..n /\ n + 1 - (k - 1) = n + 2 - k
    BY <1>1
  <2> HIDE DEF H
  <2> QED
    BY <1>3, <2>1, <2>2
<1>6. H \subseteq 0..n
  OBVIOUS
<1> HIDE DEF H
<1>7. H = 0..n
  BY <1>1, <1>4, <1>5, <1>6, LeastFailure
<1>8. PICK g : \A i \in 1..(n + 1) : IsTagged(g, text, i)
  <2>1. n \in H /\ n + 1 - n = 1
    BY <1>1, <1>7
  <2> QED
    BY <2>1 DEF H
<1> DEFINE f == [i \in 1..(n + 1) |-> g[i]]
<1>9. ASSUME NEW i \in 1..(n + 1)
      PROVE  f[i] = TaggedFrom(text, i, f[CloseFrom(text, i) + 1])
  <2> DEFINE y == CloseFrom(text, i) + 1
  <2>1. y \in (i + 1)..(n + 1) => f[y] = g[y]
    <3>1. y \in (i + 1)..(n + 1) => y \in 1..(n + 1)
      <4> HIDE DEF y
      <4> QED
        BY <1>1
    <3> HIDE DEF y
    <3> QED
      BY <3>1
  <2>2. f[i] = TaggedFrom(text, i, g[y])
    <3>1. f[i] = g[i]
      OBVIOUS
    <3> HIDE DEF f
    <3> QED
      BY <1>8, <3>1 DEF IsTagged
  <2>3. TaggedFrom(text, i, g[y]) = TaggedFrom(text, i, f[y])
    <3> HIDE DEF f
    <3>1. n \in 0..n /\ i \in (n + 1 - n)..(n + 1)
      BY <1>1
    <3>2. y \in (i + 1)..(n + 1) => g[y] = f[y]
      BY <2>1
    <3> QED
      BY <1>2, <3>1, <3>2
  <2> HIDE DEF f
  <2> QED
    BY <2>2, <2>3
<1>10. f = [i \in 1..(n + 1) |-> TaggedFrom(text, i, f[CloseFrom(text, i) + 1])]
  <2>1. f = [i \in 1..(n + 1) |-> f[i]]
    OBVIOUS
  <2> HIDE DEF f
  <2> QED
    BY <1>9, <2>1
<1> HIDE DEF f
<1> QED
  BY <1>10 DEF n

Values(pieces) == [i \in DOMAIN pieces |-> pieces[i].value]

Json(text, at) == {i \in at : text[i].kind = "json"}

LEMMA ValuesConcat ==
    ASSUME NEW T, NEW a \in Seq(T), NEW b \in Seq(T)
    PROVE  Values(a \o b) = Values(a) \o Values(b)
<1> DEFINE V == {p.value : p \in T}
<1>1. Values(a) \in Seq(V) /\ Len(Values(a)) = Len(a) /\ \A i \in 1..Len(a) : Values(a)[i] = a[i].value
  BY DEF Values
<1>2. Values(b) \in Seq(V) /\ Len(Values(b)) = Len(b) /\ \A i \in 1..Len(b) : Values(b)[i] = b[i].value
  BY DEF Values
<1>3. a \o b \in Seq(T) /\ Len(a \o b) = Len(a) + Len(b)
  OBVIOUS
<1>4. /\ Values(a \o b) \in Seq(V) /\ Len(Values(a \o b)) = Len(a) + Len(b)
      /\ \A i \in 1..(Len(a) + Len(b)) : Values(a \o b)[i] = (a \o b)[i].value
  BY <1>3 DEF Values
<1> DEFINE x == Values(a)
           y == Values(b)
           z == Values(a \o b)
<1>5. /\ x \in Seq(V) /\ y \in Seq(V) /\ z \in Seq(V)
      /\ Len(z) = Len(x) + Len(y) /\ Len(x) = Len(a) /\ Len(y) = Len(b)
  BY <1>1, <1>2, <1>4
<1>6. \A i \in 1..(Len(a) + Len(b)) : z[i] = IF i <= Len(a) THEN x[i] ELSE y[i - Len(a)]
  <2> TAKE i \in 1..(Len(a) + Len(b))
  <2>1. z[i] = (a \o b)[i].value
    BY <1>4
  <2>2. CASE i <= Len(a)
    <3>1. i \in 1..Len(a) /\ (a \o b)[i] = a[i]
      BY <2>2
    <3> QED
      BY <1>1, <2>1, <2>2, <3>1
  <2>3. CASE ~(i <= Len(a))
    <3>1. i - Len(a) \in 1..Len(b) /\ (a \o b)[i] = b[i - Len(a)]
      BY <2>3
    <3> QED
      BY <1>2, <2>1, <2>3, <3>1
  <2> QED
    BY <2>2, <2>3
<1> HIDE DEF x, y, z, V
<1>7. z = x \o y
  <2>1. x \o y \in Seq(V) /\ Len(x \o y) = Len(z) /\ DOMAIN (x \o y) = DOMAIN z
    BY <1>5
  <2>2. \A i \in 1..Len(z) : z[i] = (x \o y)[i]
    BY <1>5, <1>6
  <2> QED
    BY <1>5, <2>1, <2>2, SeqEqual
<1> QED
  BY <1>7 DEF x, y, z

LEMMA ParseJsonIs ==
    ASSUME NEW T, NEW text \in Seq(T), NEW a \in 1..(Len(text) + 1), NEW b \in (a - 1)..Len(text), NEW body,
           body = ParseJson(SubSeq(text, a, b)), body # <<>>
    PROVE  /\ body[1] = Values(Selected(text, a..b))
           /\ \A i \in a..b : text[i].kind = "json"
<1> DEFINE pieces == SubSeq(text, a, b)
<1>1. /\ pieces \in Seq(T) /\ Len(pieces) = b - a + 1
      /\ \A i \in a..b : i - a + 1 \in 1..Len(pieces) /\ pieces[i - a + 1] = text[i]
  OBVIOUS
<1>2. Selected(text, a..b) = pieces
  BY SelectedRange
<1> HIDE DEF pieces
<1>3. body = IF pieces # <<>> /\ \A i \in DOMAIN pieces : pieces[i].kind = "json"
             THEN <<Values(pieces)>> ELSE <<>>
  BY DEF ParseJson, Values, pieces
<1>4. body = <<Values(pieces)>> /\ \A i \in DOMAIN pieces : pieces[i].kind = "json"
  BY <1>3
<1>5. body[1] = Values(pieces)
  <2> DEFINE v == Values(pieces)
  <2>1. body = <<v>>
    BY <1>4
  <2> HIDE DEF v
  <2>2. body[1] = v
    BY <2>1
  <2> QED
    BY <2>2 DEF v
<1>6. ASSUME NEW i \in a..b PROVE text[i].kind = "json"
  <2>1. i - a + 1 \in DOMAIN pieces
    BY <1>1
  <2> QED
    BY <1>1, <1>4, <2>1
<1> QED
  BY <1>2, <1>5, <1>6, Zenon

(* What was found from piece i on: the pieces S became the values, and the *)
(* others the content.                                                     *)
Parted(text, i, x, S) ==
    /\ \A j \in S : text[j].kind \in {"open", "close", "python", "fence", "json"}
    /\ x.values = Values(Selected(text, Json(text, S)))
    /\ x.content = Selected(text, (i..Len(text)) \ S)
    /\ \A j \in (i..Len(text)) \ S : text[j].kind # "open"

TaggedInv(text, i, x) ==
    x # <<>> => \E S \in SUBSET (i..Len(text)) : Parted(text, i, x[1], S)

LEMMA NothingTagged ==
    ASSUME NEW T, NEW text \in Seq(T), NEW i \in 1..(Len(text) + 1), NEW x,
           \A j \in i..Len(text) : text[j].kind # "open",
           x.values = <<>>, x.content = SubSeq(text, i, Len(text))
    PROVE  Parted(text, i, x, {})
<1>0. Len(text) \in Nat
  OBVIOUS
<1>1. Json(text, {}) = 1..0 /\ (i..Len(text)) \ {} = i..Len(text)
  BY DEF Json
<1>2. Selected(text, 1..0) = <<>>
  <2>1. 1 \in 1..(Len(text) + 1) /\ 0 \in (1 - 1)..Len(text) /\ SubSeq(text, 1, 0) = <<>>
    BY <1>0
  <2> QED
    BY <2>1, SelectedRange, Zenon
<1>3. Values(<<>>) = <<>>
  BY DEF Values
<1>4. Selected(text, i..Len(text)) = SubSeq(text, i, Len(text))
  BY <1>0, SelectedRange
<1> QED
  BY <1>1, <1>2, <1>3, <1>4, Zenon DEF Parted

LEMMA MoreTagged ==
    ASSUME NEW T, NEW text \in Seq(T), NEW i \in 1..Len(text), NEW o \in i..Len(text),
           NEW c \in (o + 1)..Len(text), NEW x, NEW rest, NEW S \in SUBSET ((c + 1)..Len(text)), NEW vs,
           \A j \in i..(o - 1) : text[j].kind # "open", text[o].kind = "open", text[c].kind = "close",
           \A j \in (o + 1)..(c - 1) : text[j].kind = "json",
           vs = Values(Selected(text, (o + 1)..(c - 1))),
           Parted(text, c + 1, rest, S),
           x.values = vs \o rest.values, x.content = SubSeq(text, i, o - 1) \o rest.content
    PROVE  Parted(text, i, x, (o..c) \cup S)
<1> DEFINE n == Len(text)
           K == (o..c) \cup S
           J == Json(text, S)
           left == ((c + 1)..n) \ S
<1>0. n \in Nat /\ i \in Nat /\ o \in Nat /\ c \in Nat /\ i <= o /\ o < c /\ c <= n
  OBVIOUS
<1>1. J \subseteq (c + 1)..n /\ left \subseteq (c + 1)..n
  BY DEF Json
<1>2. Json(text, K) = ((o + 1)..(c - 1)) \cup J
  <2>1. \A j \in o..c : j = o \/ j = c \/ j \in (o + 1)..(c - 1)
    BY <1>0
  <2>2. \A j \in (o + 1)..(c - 1) : j \in o..c
    BY <1>0
  <2>3. "open" # "json" /\ "close" # "json"
    OBVIOUS
  <2> QED
    BY <2>1, <2>2, <2>3 DEF Json
<1>3. (i..n) \ K = (i..(o - 1)) \cup left
  <2>1. ASSUME NEW j
        PROVE  j \in i..n /\ j \notin o..c <=> j \in i..(o - 1) \/ j \in (c + 1)..n
    BY <1>0
  <2>2. \A j \in S : j \in (c + 1)..n
    OBVIOUS
  <2>3. \A j \in i..(o - 1) : j \notin (c + 1)..n
    BY <1>0
  <2> HIDE DEF n
  <2> QED
    BY <2>1, <2>2, <2>3
<1>4. Selected(text, Json(text, K)) = Selected(text, (o + 1)..(c - 1)) \o Selected(text, J)
  <2>1. (o + 1)..(c - 1) \subseteq 1..Len(text) /\ J \subseteq 1..Len(text)
    BY <1>0, <1>1
  <2>2. \A p \in (o + 1)..(c - 1), q \in J : p < q
    <3>1. \A p \in (o + 1)..(c - 1), q \in (c + 1)..n : p < q
      BY <1>0
    <3> QED
      BY <1>1, <3>1
  <2> HIDE DEF J, n
  <2>3. Selected(text, ((o + 1)..(c - 1)) \cup J) = Selected(text, (o + 1)..(c - 1)) \o Selected(text, J)
    BY <2>1, <2>2, SelectedSplit
  <2> QED
    BY <1>2, <2>3, Zenon
<1>5. Values(Selected(text, Json(text, K))) = vs \o rest.values
  <2> DEFINE a == Selected(text, (o + 1)..(c - 1))
             b == Selected(text, J)
  <2>1. a \in Seq(T) /\ b \in Seq(T)
    BY SelectedSeq
  <2>2. rest.values = Values(b)
    BY DEF Parted
  <2> HIDE DEF a, b
  <2>3. Values(a \o b) = Values(a) \o Values(b)
    BY <2>1, ValuesConcat
  <2> QED
    BY <1>4, <2>2, <2>3, Zenon DEF a, b
<1>6. Selected(text, (i..n) \ K) = SubSeq(text, i, o - 1) \o rest.content
  <2>1. i..(o - 1) \subseteq 1..Len(text) /\ left \subseteq 1..Len(text)
    BY <1>0, <1>1
  <2>2. \A p \in i..(o - 1), q \in left : p < q
    <3>1. \A p \in i..(o - 1), q \in (c + 1)..n : p < q
      BY <1>0
    <3> QED
      BY <1>1, <3>1
  <2>3. rest.content = Selected(text, left)
    BY DEF Parted
  <2>4. Selected(text, i..(o - 1)) = SubSeq(text, i, o - 1)
    <3>1. i \in 1..(Len(text) + 1) /\ o - 1 \in (i - 1)..Len(text)
      BY <1>0
    <3> QED
      BY <3>1, SelectedRange
  <2> HIDE DEF left, n, K
  <2>5. Selected(text, (i..(o - 1)) \cup left) = Selected(text, i..(o - 1)) \o Selected(text, left)
    BY <2>1, <2>2, SelectedSplit
  <2> QED
    BY <1>3, <2>3, <2>4, <2>5, Zenon
<1>7. \A j \in (i..n) \ K : text[j].kind # "open"
  <2>1. \A j \in left : text[j].kind # "open"
    BY DEF Parted
  <2> HIDE DEF left, n, K
  <2> QED
    BY <1>3, <2>1
<1>8. \A j \in K : text[j].kind \in {"open", "close", "python", "fence", "json"}
  <2>1. \A j \in o..c : j = o \/ j = c \/ j \in (o + 1)..(c - 1)
    BY <1>0
  <2>2. \A j \in S : text[j].kind \in {"open", "close", "python", "fence", "json"}
    BY DEF Parted
  <2> QED
    BY <2>1, <2>2
<1> HIDE DEF K
<1>9. Parted(text, i, x, K)
  BY <1>5, <1>6, <1>7, <1>8, Zenon DEF Parted, n
<1> QED
  BY <1>9 DEF K

LEMMA TaggedStep ==
    ASSUME NEW T, NEW text \in Seq(T), NEW i \in 1..(Len(text) + 1), NEW rest,
           CloseFrom(text, i) + 1 \in (i + 1)..(Len(text) + 1) => TaggedInv(text, CloseFrom(text, i) + 1, rest)
    PROVE  TaggedInv(text, i, TaggedFrom(text, i, rest))
<1>1. PICK o : o = FindFrom(text, i, "open")
  OBVIOUS
<1>2. PICK c : c = FindFrom(text, o + 1, "close")
  OBVIOUS
<1>3. PICK body : body = ParseJson(SubSeq(text, o + 1, c - 1))
  OBVIOUS
<1>4. PICK r : r = TaggedFrom(text, i, rest)
  OBVIOUS
<1>5. r = IF o = 0
          THEN <<[values |-> <<>>, content |-> SubSeq(text, i, Len(text))]>>
          ELSE IF c = 0 THEN <<>>
          ELSE IF body = <<>> \/ rest = <<>> THEN <<>>
          ELSE <<[values  |-> body[1] \o rest[1].values,
                  content |-> SubSeq(text, i, o - 1) \o rest[1].content]>>
  BY <1>1, <1>2, <1>3, <1>4, Zenon DEF TaggedFrom
<1>6. /\ i \in Nat /\ 1 <= i /\ Len(text) \in Nat
      /\ \/ o = 0 /\ \A j \in i..Len(text) : text[j].kind # "open"
         \/ o \in i..Len(text) /\ text[o].kind = "open" /\ \A j \in i..(o - 1) : text[j].kind # "open"
  BY <1>1, FindFromIs
<1> SUFFICES TaggedInv(text, i, r)
  BY <1>4
<1>7. CASE o = 0
  <2> DEFINE x == [values |-> <<>>, content |-> SubSeq(text, i, Len(text))]
  <2>1. r = <<x>>
    BY <1>5, <1>7
  <2>2. x.values = <<>> /\ x.content = SubSeq(text, i, Len(text))
    OBVIOUS
  <2> HIDE DEF x
  <2>3. r[1] = x
    BY <2>1
  <2>4. \A j \in i..Len(text) : text[j].kind # "open"
    BY <1>6, <1>7
  <2>5. Parted(text, i, x, {})
    BY <2>2, <2>4, NothingTagged
  <2>6. {} \in SUBSET (i..Len(text))
    OBVIOUS
  <2> QED
    BY <2>3, <2>5, <2>6, Zenon DEF TaggedInv
<1>8. CASE o # 0 /\ c # 0 /\ body # <<>> /\ rest # <<>>
  <2>1. o \in i..Len(text) /\ text[o].kind = "open" /\ \A j \in i..(o - 1) : text[j].kind # "open"
    BY <1>6, <1>8
  <2>2. c \in (o + 1)..Len(text) /\ text[c].kind = "close"
    <3>1. o + 1 \in Nat /\ 1 <= o + 1
      BY <1>6, <2>1
    <3> QED
      BY <1>2, <1>8, <3>1, FindFromIs
  <2>3. /\ body[1] = Values(Selected(text, (o + 1)..(c - 1)))
        /\ \A j \in (o + 1)..(c - 1) : text[j].kind = "json"
    <3> DEFINE a == o + 1
               b == c - 1
    <3>1. a \in 1..(Len(text) + 1) /\ b \in (a - 1)..Len(text)
      BY <1>6, <2>1, <2>2
    <3>2. body = ParseJson(SubSeq(text, a, b)) /\ body # <<>>
      BY <1>3, <1>8
    <3> HIDE DEF a, b
    <3>3. body[1] = Values(Selected(text, a..b)) /\ \A j \in a..b : text[j].kind = "json"
      BY <3>1, <3>2, ParseJsonIs
    <3> QED
      BY <3>3 DEF a, b
  <2>4. PICK S \in SUBSET ((c + 1)..Len(text)) : Parted(text, c + 1, rest[1], S)
    <3>1. CloseFrom(text, i) = c
      BY <1>1, <1>2 DEF CloseFrom
    <3>2. c + 1 \in (i + 1)..(Len(text) + 1)
      BY <1>6, <2>1, <2>2
    <3>3. TaggedInv(text, c + 1, rest)
      BY <3>1, <3>2
    <3> QED
      BY <1>8, <3>3 DEF TaggedInv
  <2> DEFINE x == [values  |-> body[1] \o rest[1].values,
                   content |-> SubSeq(text, i, o - 1) \o rest[1].content]
  <2>5. r = <<x>>
    BY <1>5, <1>8, Zenon
  <2>6. x.values = body[1] \o rest[1].values /\ x.content = SubSeq(text, i, o - 1) \o rest[1].content
    BY Zenon
  <2> HIDE DEF x
  <2>7. r[1] = x
    BY <2>5
  <2>8. i \in 1..Len(text)
    BY <1>6, <2>1
  <2>9. Parted(text, i, x, (o..c) \cup S)
    <3> DEFINE y == rest[1]
               vs == body[1]
    <3>1. vs = Values(Selected(text, (o + 1)..(c - 1))) /\ Parted(text, c + 1, y, S)
      BY <2>3, <2>4
    <3>2. x.values = vs \o y.values /\ x.content = SubSeq(text, i, o - 1) \o y.content
      BY <2>6
    <3> HIDE DEF y, vs
    <3> QED
      BY <2>1, <2>2, <2>3, <2>8, <3>1, <3>2, MoreTagged
  <2>10. (o..c) \cup S \in SUBSET (i..Len(text))
    <3>1. \A j \in o..c : j \in i..Len(text)
      BY <1>6, <2>1, <2>2
    <3>2. \A j \in (c + 1)..Len(text) : j \in i..Len(text)
      BY <1>6, <2>1, <2>2
    <3> QED
      BY <3>1, <3>2
  <2> QED
    BY <2>7, <2>9, <2>10, Zenon DEF TaggedInv
<1>9. CASE o # 0 /\ ~(c # 0 /\ body # <<>> /\ rest # <<>>)
  <2>1. r = <<>>
    BY <1>5, <1>9, Zenon
  <2> QED
    BY <2>1 DEF TaggedInv
<1> QED
  BY <1>7, <1>8, <1>9

LEMMA TaggedAll ==
    ASSUME NEW T, NEW text \in Seq(T), NEW f, NEW n \in Nat, n = Len(text),
           \A i \in 1..(n + 1) : f[i] = TaggedFrom(text, i, f[CloseFrom(text, i) + 1])
    PROVE  TaggedInv(text, 1, f[1])
<1> DEFINE Has(k) == \A i \in (n + 1 - k)..(n + 1) : TaggedInv(text, i, f[i])
           H == {k \in 0..n : Has(k)}
<1>1. ASSUME NEW k \in 0..n, \A i \in (n + 2 - k)..(n + 1) : TaggedInv(text, i, f[i])
      PROVE  k \in H
  <2> DEFINE z == n + 1 - k
  <2>1. z \in 1..(n + 1) /\ \A i \in z..(n + 1) : i = z \/ i \in (n + 2 - k)..(n + 1)
    OBVIOUS
  <2>2. TaggedInv(text, z, f[z])
    <3> DEFINE y == CloseFrom(text, z) + 1
               rest == f[y]
    <3>1. f[z] = TaggedFrom(text, z, rest)
      BY <2>1
    <3>2. y \in (z + 1)..(Len(text) + 1) => TaggedInv(text, y, rest)
      <4>1. y \in (z + 1)..(n + 1) => y \in (n + 2 - k)..(n + 1)
        <5> HIDE DEF y
        <5> QED
          OBVIOUS
      <4> HIDE DEF y, z
      <4> QED
        BY <1>1, <4>1
    <3>3. z \in 1..(Len(text) + 1)
      BY <2>1
    <3> HIDE DEF z, rest
    <3>4. TaggedInv(text, z, TaggedFrom(text, z, rest))
      BY <3>2, <3>3, TaggedStep
    <3> QED
      BY <3>1, <3>4
  <2>3. Has(k)
    <3> SUFFICES ASSUME NEW i \in z..(n + 1) PROVE TaggedInv(text, i, f[i])
      OBVIOUS
    <3> HIDE DEF z
    <3> QED
      BY <1>1, <2>1, <2>2
  <2> HIDE DEF Has
  <2> QED
    BY <2>3
<1>2. 0 \in H
  <2>1. 0 \in 0..n /\ \A i \in (n + 2 - 0)..(n + 1) : TaggedInv(text, i, f[i])
    OBVIOUS
  <2> HIDE DEF H
  <2> QED
    BY <1>1, <2>1
<1>3. ASSUME NEW k \in 1..n, k - 1 \in H
      PROVE  k \in H
  <2>1. k \in 0..n /\ n + 1 - (k - 1) = n + 2 - k /\ Has(k - 1)
    BY <1>3
  <2>2. \A i \in (n + 2 - k)..(n + 1) : TaggedInv(text, i, f[i])
    BY <2>1
  <2> HIDE DEF H, Has
  <2> QED
    BY <1>1, <2>1, <2>2
<1>4. H \subseteq 0..n
  OBVIOUS
<1> HIDE DEF H
<1>5. H = 0..n
  BY <1>2, <1>3, <1>4, LeastFailure
<1>6. Has(n)
  <2>1. n \in H
    BY <1>5
  <2> HIDE DEF Has
  <2> QED
    BY <2>1 DEF H
<1> QED
  BY <1>6

LEMMA TaggedValuesParted ==
    ASSUME NEW T, NEW text \in Seq(T)
    PROVE  TaggedInv(text, 1, TaggedValues(text))
<1> DEFINE n == Len(text)
           Rec(f) == f = [i \in 1..(n + 1) |-> TaggedFrom(text, i, f[CloseFrom(text, i) + 1])]
           from == CHOOSE f : Rec(f)
<1>1. TaggedValues(text) = from[1]
  BY Zenon DEF TaggedValues, TaggedFrom, CloseFrom
<1>2. Rec(from)
  <2>1. \E f : Rec(f)
    BY TaggedExists
  <2> HIDE DEF Rec
  <2> QED
    BY <2>1
<1> HIDE DEF from
<1>3. \A i \in 1..(n + 1) : from[i] = TaggedFrom(text, i, from[CloseFrom(text, i) + 1])
  BY <1>2
<1>4. n \in Nat /\ n = Len(text)
  OBVIOUS
<1> HIDE DEF n, Rec
<1>5. TaggedInv(text, 1, from[1])
  BY <1>3, <1>4, TaggedAll
<1> QED
  BY <1>1, <1>5

LEMMA ToolCallValuesParted ==
    ASSUME NEW T, NEW text \in Seq(T), NEW found, found = ToolCallValues(text), found # <<>>
    PROVE  \E S \in SUBSET (1..Len(text)) : Parted(text, 1, found[1], S)
<1>1. PICK o : o = FindFrom(text, 1, "open")
  OBVIOUS
<1>2. PICK p : p = FindFrom(text, 1, "python")
  OBVIOUS
<1> DEFINE fenced == p = 0 /\ IsKind(text, 1, "fence")
           a == IF fenced THEN 2 ELSE p + 1
           b == IF fenced /\ Len(text) > 1 /\ IsKind(text, Len(text), "fence")
                THEN Len(text) - 1 ELSE Len(text)
<1>3. PICK after : after = ParseJson(SubSeq(text, a, b))
  OBVIOUS
<1>4. found = IF o > 0 THEN TaggedValues(text)
              ELSE IF after = <<>> THEN <<>>
              ELSE <<[values |-> after[1], content |-> SubSeq(text, 1, p - 1)]>>
  BY <1>1, <1>2, <1>3, Zenon DEF ToolCallValues
<1>5. /\ Len(text) \in Nat
      /\ \/ o = 0 /\ \A j \in 1..Len(text) : text[j].kind # "open"
         \/ o \in 1..Len(text)
      /\ \/ p = 0
         \/ p \in 1..Len(text) /\ text[p].kind = "python"
  BY <1>1, <1>2, FindFromIs
<1>6. CASE o > 0
  BY <1>4, <1>6, TaggedValuesParted DEF TaggedInv
<1>7. CASE ~(o > 0)
  <2> DEFINE x == [values |-> after[1], content |-> SubSeq(text, 1, p - 1)]
             n == Len(text)
             first == IF p = 0 THEN 1 ELSE p
             S == first..n
  <2>0. \A j \in 1..n : text[j].kind # "open"
    BY <1>5, <1>7
  <2>1. after # <<>> /\ found = <<x>>
    BY <1>4, <1>7, Zenon
  <2>2. x.values = after[1] /\ x.content = SubSeq(text, 1, p - 1)
    BY Zenon
  <2> HIDE DEF x
  <2>3. found[1] = x
    BY <2>1
  <2>4. p \in Nat /\ first \in 1..(n + 1) /\ p <= n
    BY <1>5
  <2>41. /\ a \in 1..(n + 1) /\ b \in (a - 1)..n
         /\ \A j \in a..b : j \in S
         /\ \A j \in S : j \in a..b \/ text[j].kind \in {"python", "fence"}
    <3>0. n \in Nat /\ DOMAIN text = 1..n
      BY <1>5
    <3>1. CASE fenced /\ n > 1 /\ IsKind(text, n, "fence")
      <4>1. p = 0 /\ a = 2 /\ b = n - 1 /\ text[1].kind = "fence" /\ text[n].kind = "fence"
        BY <3>1 DEF IsKind
      <4> HIDE DEF a, b, n
      <4> QED
        BY <3>0, <3>1, <4>1
    <3>2. CASE fenced /\ ~(n > 1 /\ IsKind(text, n, "fence"))
      <4>1. p = 0 /\ a = 2 /\ b = n /\ text[1].kind = "fence" /\ 1 \in 1..n
        BY <3>0, <3>2 DEF IsKind
      <4> HIDE DEF a, b, n
      <4> QED
        BY <3>0, <3>2, <4>1
    <3>3. CASE ~fenced
      <4>1. a = p + 1 /\ b = n
        BY <3>3
      <4> HIDE DEF a, b, fenced
      <4> QED
        BY <1>5, <2>4, <3>0, <4>1
    <3> QED
      BY <3>1, <3>2, <3>3
  <2>5. after[1] = Values(Selected(text, a..b)) /\ \A j \in a..b : text[j].kind = "json"
    <3>1. a \in 1..(Len(text) + 1) /\ b \in (a - 1)..Len(text)
      BY <2>41
    <3>2. after = ParseJson(SubSeq(text, a, b)) /\ after # <<>>
      BY <1>3, <2>1
    <3> HIDE DEF a, b
    <3>3. after[1] = Values(Selected(text, a..b)) /\ \A j \in a..b : text[j].kind = "json"
      BY <3>1, <3>2, ParseJsonIs
    <3> QED
      BY <3>3
  <2> HIDE DEF a, b
  <2>6. \A j \in S : j \in a..b \/ text[j].kind \in {"python", "fence"}
    BY <2>41
  <2>7. Json(text, S) = a..b
    <3>1. \A j \in a..b : j \in S
      BY <2>41
    <3>2. "json" \notin {"python", "fence"}
      OBVIOUS
    <3> HIDE DEF S
    <3> QED
      BY <2>5, <2>6, <3>1, <3>2 DEF Json
  <2>8. Selected(text, (1..n) \ S) = SubSeq(text, 1, p - 1)
    <3> DEFINE last == IF p = 0 THEN 0 ELSE p - 1
    <3>1. (1..n) \ S = 1..last
      <4>1. CASE p = 0
        BY <1>5, <4>1
      <4>2. CASE p # 0
        BY <1>5, <4>2
      <4> QED
        BY <4>1, <4>2
    <3>2. 1 \in 1..(Len(text) + 1) /\ last \in (1 - 1)..Len(text)
      BY <1>5, <2>4
    <3>3. SubSeq(text, 1, last) = SubSeq(text, 1, p - 1)
      <4>1. CASE p = 0
        <5>1. SubSeq(text, 1, 0) = <<>> /\ SubSeq(text, 1, 0 - 1) = <<>>
          OBVIOUS
        <5> QED
          BY <4>1, <5>1
      <4>2. CASE p # 0
        BY <4>2
      <4> QED
        BY <4>1, <4>2
    <3> HIDE DEF last, S, n
    <3>4. Selected(text, 1..last) = SubSeq(text, 1, last)
      BY <3>2, SelectedRange
    <3> QED
      BY <3>1, <3>3, <3>4, Zenon
  <2>9. \A j \in S : text[j].kind \in {"open", "close", "python", "fence", "json"}
    <3> HIDE DEF S
    <3> QED
      BY <2>5, <2>6
  <2>10. S \in SUBSET (1..n)
    BY <1>5, <2>4
  <2> HIDE DEF S
  <2>11. Parted(text, 1, x, S)
    BY <2>0, <2>2, <2>5, <2>7, <2>8, <2>9, Zenon DEF Parted, n
  <2> QED
    BY <2>3, <2>10, <2>11, Zenon DEF n
<1> QED
  BY <1>6, <1>7

LEMMA AnswerIs ==
    ASSUME NEW c \in CallCases, NEW got, got = ParseChatOutput(c.text, ResponseTools(c.req))
    PROVE  AnswerSound(c, got)
<1> DEFINE text == c.text
<1>0. text \in Seq(ToSet(text))
  BY CallsTyped
<1>1. PICK tools : tools = ResponseTools(c.req)
  OBVIOUS
<1>2. PICK found : found = ToolCallValues(text)
  OBVIOUS
<1>3. PICK raw : raw = IF found = <<>> THEN <<>> ELSE RawCalls(found[1].values)
  OBVIOUS
<1> DEFINE ok == /\ OrElse(tools, <<>>) # <<>>
                 /\ found # <<>>
                 /\ \A i \in DOMAIN found[1].values : found[1].values[i].shape # "scalar"
                 /\ raw # <<>>
                 /\ \A i \in DOMAIN raw : Normal(raw[i]) /\ raw[i].name[1] \in Names(tools[1])
<1>4. got = IF ok THEN [content |-> found[1].content, calls |-> raw] ELSE NoCalls(text)
  BY <1>1, <1>2, <1>3, Zenon DEF ParseChatOutput
<1>5. CASE ~ok
  BY <1>4, <1>5, Zenon DEF AnswerSound
<1>6. CASE ok
  <2>1. /\ OrElse(tools, <<>>) # <<>> /\ found # <<>> /\ raw # <<>>
        /\ \A i \in DOMAIN raw : raw[i].name[1] \in Names(tools[1])
    BY <1>6, Zenon
  <2>2. got = [content |-> found[1].content, calls |-> raw]
    BY <1>4, <1>6, Zenon
  <2> HIDE DEF ok
  <2>3. got.content = found[1].content /\ got.calls = raw
    <3> DEFINE left == found[1].content
    <3>1. got = [content |-> left, calls |-> raw]
      BY <2>2
    <3> HIDE DEF left
    <3>2. got.content = left /\ got.calls = raw
      BY <3>1
    <3> QED
      BY <3>2 DEF left
  <2>4. tools = c.req.tools
    <3>1. OrElse(<<>>, <<>>) = <<>>
      BY DEF OrElse, IsSome
    <3> QED
      BY <1>1, <2>1, <3>1, Zenon DEF ResponseTools
  <2>5. PICK S \in SUBSET (1..Len(text)) : Parted(text, 1, found[1], S)
    <3> HIDE DEF text
    <3> QED
      BY <1>0, <1>2, <2>1, ToolCallValuesParted
  <2>6. DOMAIN text = 1..Len(text)
    BY <1>0
  <2> HIDE DEF text
  <2>7. raw = CallsAt(text, S)
    <3>1. raw = RawCalls(found[1].values)
      BY <1>3, <2>1, Zenon
    <3>2. found[1].values = Values(Selected(text, Json(text, S)))
      BY <2>5, Zenon DEF Parted
    <3>3. CallsAt(text, S) = RawCalls(Values(Selected(text, Json(text, S))))
      BY Zenon DEF CallsAt, Values, Json
    <3> QED
      BY <3>1, <3>2, <3>3, Zenon
  <2>8. got.content = Selected(text, DOMAIN text \ S)
    BY <2>3, <2>5, <2>6, Zenon DEF Parted
  <2>9. TakenApart(text, got, S)
    <3>1. \A i \in S : text[i].kind \in {"open", "close", "python", "fence", "json"}
      BY <2>5, Zenon DEF Parted
    <3> QED
      BY <2>3, <2>7, <2>8, <3>1, Zenon DEF TakenApart
  <2>10. \A i \in DOMAIN got.content : got.content[i].kind # "open"
    <3> DEFINE left == DOMAIN text \ S
    <3>1. left \subseteq 1..Len(text) /\ \A j \in left : text[j].kind # "open"
      BY <2>5, <2>6 DEF Parted
    <3> HIDE DEF left
    <3>2. ToSet(Selected(text, left)) = {text[j] : j \in left}
      BY <1>0, <3>1, SelectedElements
    <3>3. \A i \in DOMAIN got.content : got.content[i] \in ToSet(got.content)
      BY Zenon DEF ToSet
    <3>4. got.content = Selected(text, left)
      BY <2>8 DEF left
    <3>5. ASSUME NEW i \in DOMAIN got.content PROVE got.content[i].kind # "open"
      <4>1. got.content[i] \in {text[j] : j \in left}
        BY <3>2, <3>3, <3>4, Zenon
      <4> QED
        BY <3>1, <4>1, Zenon
    <3> QED
      BY <3>5
  <2>11. S \in SUBSET DOMAIN text
    BY <2>5, <2>6
  <2>12. \A i \in DOMAIN got.calls : got.calls[i].name[1] \in Names(c.req.tools[1])
    BY <2>1, <2>3, <2>4, Zenon
  <2> QED
    BY <2>1, <2>3, <2>9, <2>10, <2>11, <2>12, Zenon DEF AnswerSound, text
<1> QED
  BY <1>5, <1>6

LEMMA OneMore ==
    ASSUME NEW T, NEW a \in Seq(T), NEW e \in T
    PROVE  /\ a \o <<e>> \in Seq(T) /\ Len(a \o <<e>>) = Len(a) + 1
           /\ (a \o <<e>>)[Len(a) + 1] = e
           /\ \A i \in 1..Len(a) : (a \o <<e>>)[i] = a[i]
OBVIOUS

LEMMA Middle ==
    ASSUME NEW T, NEW s \in Seq(T), NEW m \in Seq(T), NEW h \in Nat, h + Len(m) <= Len(s),
           \A i \in 1..Len(m) : s[h + i] = m[i]
    PROVE  SubSeq(s, h + 1, h + Len(m)) = m
<1> DEFINE k == Len(m)
<1>0. k \in Nat
  OBVIOUS
<1> HIDE DEF k
<1>1. /\ SubSeq(s, h + 1, h + k) \in Seq(T) /\ Len(SubSeq(s, h + 1, h + k)) = k
      /\ \A i \in 1..k : SubSeq(s, h + 1, h + k)[i] = s[h + i]
  <2>1. h + k <= Len(s)
    BY DEF k
  <2> QED
    BY <1>0, <2>1, PartOf
<1> DEFINE q == SubSeq(s, h + 1, h + k)
<1>2. q \in Seq(T) /\ Len(q) = Len(m) /\ \A i \in 1..Len(q) : q[i] = m[i]
  BY <1>1 DEF k
<1> HIDE DEF q
<1>3. q = m
  BY <1>2, SeqEqual
<1> QED
  BY <1>3 DEF q, k

(* The parts of a prompt: the tools, if any, the messages and the turn.    *)
PartsOf(head, msgs, turn) == head \o msgs \o <<turn>>

(* The parts stand one behind the other.                                   *)
LaidOut(T, head, msgs, turn, parts) ==
    /\ parts \in Seq(T) /\ Len(parts) = Len(head) + Len(msgs) + 1
    /\ \A i \in 1..Len(head) : parts[i] = head[i]
    /\ \A i \in 1..Len(msgs) : parts[Len(head) + i] = msgs[i]
    /\ parts[Len(head) + Len(msgs) + 1] = turn

InKinds(head, msgs, turn) ==
    /\ \A i \in 1..Len(head) : head[i].part = "tools"
    /\ \A i \in 1..Len(msgs) : msgs[i].part = "message"
    /\ turn.part = "assistant"

(* What the parts of a prompt are found to be.                             *)
ToldBack(head, msgs, parts) ==
    /\ Selected(parts, {i \in DOMAIN parts : parts[i].part = "message"}) = msgs
    /\ {i \in DOMAIN parts : parts[i].part = "tools"} = 1..Len(head)
    /\ parts[Len(parts)].part = "assistant"

LEMMA PartsAre ==
    ASSUME NEW T, NEW head \in Seq(T), NEW msgs \in Seq(T), NEW turn \in T
    PROVE  LaidOut(T, head, msgs, turn, PartsOf(head, msgs, turn))
<1>0. PICK parts : parts = PartsOf(head, msgs, turn)
  OBVIOUS
<1> DEFINE a == head \o msgs
<1>1. /\ a \in Seq(T) /\ Len(a) = Len(head) + Len(msgs)
      /\ \A i \in 1..Len(head) : a[i] = head[i]
      /\ \A i \in 1..Len(msgs) : a[Len(head) + i] = msgs[i]
  OBVIOUS
<1>2. parts = a \o <<turn>>
  BY <1>0 DEF PartsOf
<1> HIDE DEF a
<1>3. /\ parts \in Seq(T) /\ Len(parts) = Len(a) + 1 /\ parts[Len(a) + 1] = turn
      /\ \A i \in 1..Len(a) : parts[i] = a[i]
  <2>1. a \in Seq(T)
    BY <1>1
  <2>2. /\ a \o <<turn>> \in Seq(T) /\ Len(a \o <<turn>>) = Len(a) + 1
        /\ (a \o <<turn>>)[Len(a) + 1] = turn
        /\ \A i \in 1..Len(a) : (a \o <<turn>>)[i] = a[i]
    BY <2>1, OneMore
  <2> QED
    BY <1>2, <2>2, Zenon
<1>4. Len(head) \in Nat /\ Len(msgs) \in Nat
  OBVIOUS
<1>5. \A i \in 1..Len(head) : i \in 1..Len(a)
  BY <1>1, <1>4
<1>6. \A i \in 1..Len(msgs) : Len(head) + i \in 1..Len(a)
  BY <1>1, <1>4
<1>7. /\ parts \in Seq(T) /\ Len(parts) = Len(head) + Len(msgs) + 1
      /\ \A i \in 1..Len(head) : parts[i] = head[i]
      /\ \A i \in 1..Len(msgs) : parts[Len(head) + i] = msgs[i]
      /\ parts[Len(head) + Len(msgs) + 1] = turn
  BY <1>1, <1>3, <1>5, <1>6
<1>8. LaidOut(T, head, msgs, turn, parts)
  BY <1>7, Zenon DEF LaidOut
<1> QED
  BY <1>0, <1>8, Zenon

LEMMA PromptParts ==
    ASSUME NEW T, NEW head \in Seq(T), NEW msgs \in Seq(T), NEW turn \in T, NEW parts,
           LaidOut(T, head, msgs, turn, parts), InKinds(head, msgs, turn)
    PROVE  ToldBack(head, msgs, parts)
<1> DEFINE h == Len(head)
           k == Len(msgs)
<1>1. /\ parts \in Seq(T) /\ Len(parts) = h + k + 1
      /\ \A i \in 1..h : parts[i] = head[i]
      /\ \A i \in 1..k : parts[h + i] = msgs[i]
      /\ parts[h + k + 1] = turn
  BY DEF LaidOut
<1>2. h \in Nat /\ k \in Nat /\ DOMAIN parts = 1..(h + k + 1)
  BY <1>1
<1>3. msgs \in Seq(T) /\ Len(msgs) = k
  OBVIOUS
<1> HIDE DEF h, k
<1>4. ASSUME NEW i \in 1..(h + k + 1)
      PROVE  \/ i \in 1..h /\ parts[i].part = "tools"
             \/ i \in (h + 1)..(h + k) /\ parts[i].part = "message"
             \/ i = h + k + 1 /\ parts[i].part = "assistant"
  <2>1. CASE i <= h
    <3>1. i \in 1..h
      BY <1>2, <2>1
    <3> QED
      BY <1>1, <3>1 DEF h, InKinds
  <2>2. CASE h < i /\ i <= h + k
    <3>1. i - h \in 1..k /\ h + (i - h) = i /\ i \in (h + 1)..(h + k)
      BY <1>2, <2>2
    <3>2. parts[i] = msgs[i - h]
      BY <1>1, <3>1
    <3>3. msgs[i - h].part = "message"
      BY <3>1 DEF k, InKinds
    <3> QED
      BY <3>1, <3>2, <3>3, Zenon
  <2>3. CASE h + k < i
    <3>1. i = h + k + 1
      BY <1>2, <2>3
    <3> QED
      BY <1>1, <3>1 DEF InKinds
  <2> QED
    BY <1>2, <2>1, <2>2, <2>3
<1>5. "tools" # "message" /\ "tools" # "assistant" /\ "message" # "assistant"
  OBVIOUS
<1>6. /\ \A i \in 1..h : i \in 1..(h + k + 1)
      /\ \A i \in (h + 1)..(h + k) : i \in 1..(h + k + 1) /\ i \notin 1..h /\ i # h + k + 1
      /\ \A i \in 1..h : i # h + k + 1
  BY <1>2
<1>7. {i \in DOMAIN parts : parts[i].part = "message"} = (h + 1)..(h + k)
  <2>1. \A i : i \in DOMAIN parts /\ parts[i].part = "message" <=> i \in (h + 1)..(h + k)
    BY <1>2, <1>4, <1>5, <1>6, Zenon
  <2> QED
    BY <2>1, Zenon
<1>8. {i \in DOMAIN parts : parts[i].part = "tools"} = 1..h
  <2>1. \A i : i \in DOMAIN parts /\ parts[i].part = "tools" <=> i \in 1..h
    BY <1>2, <1>4, <1>5, <1>6, Zenon
  <2> QED
    BY <2>1, Zenon
<1>9. Selected(parts, (h + 1)..(h + k)) = msgs
  <2>1. h + 1 \in 1..(Len(parts) + 1) /\ h + k \in ((h + 1) - 1)..Len(parts)
    BY <1>1, <1>2
  <2>2. Selected(parts, (h + 1)..(h + k)) = SubSeq(parts, h + 1, h + k)
    BY <1>1, <2>1, SelectedRange
  <2>3. h + k <= Len(parts)
    BY <1>1, <1>2
  <2>4. SubSeq(parts, h + 1, h + k) = msgs
    BY <1>1, <1>2, <1>3, <2>3, Middle
  <2> QED
    BY <2>2, <2>4, Zenon
<1>10. parts[Len(parts)].part = "assistant"
  <2>1. Len(parts) = h + k + 1
    BY <1>1
  <2> QED
    BY <1>1, <2>1, Zenon DEF InKinds
<1> QED
  BY <1>7, <1>8, <1>9, <1>10, Zenon DEF h, ToldBack

LEMMA PromptFound ==
    ASSUME NEW T, NEW head \in Seq(T), NEW msgs \in Seq(T), NEW turn \in T, NEW parts,
           parts = PartsOf(head, msgs, turn), InKinds(head, msgs, turn)
    PROVE  LaidOut(T, head, msgs, turn, parts) /\ ToldBack(head, msgs, parts)
<1>1. LaidOut(T, head, msgs, turn, PartsOf(head, msgs, turn))
  BY PartsAre, Zenon
<1>2. LaidOut(T, head, msgs, turn, parts)
  BY <1>1, Zenon
<1>3. ToldBack(head, msgs, parts)
  BY <1>2, PromptParts, Zenon
<1> QED
  BY <1>2, <1>3

LEMMA NamedTool ==
    ASSUME NEW T, NEW tools \in Seq(T), NEW name \in Names(tools), NEW at,
           at = {i \in DOMAIN tools : tools[i].name = name}
    PROVE  Names(Selected(tools, at)) = {name}
<1>1. at \subseteq 1..Len(tools)
  OBVIOUS
<1>2. ToSet(Selected(tools, at)) = {tools[i] : i \in at}
  BY <1>1, SelectedElements
<1>3. Names(Selected(tools, at)) = {t.name : t \in ToSet(Selected(tools, at))}
  BY Zenon DEF Names, ToSet
<1>4. {t.name : t \in {tools[i] : i \in at}} = {name}
  <2>1. \E i \in DOMAIN tools : tools[i].name = name
    BY DEF Names
  <2> QED
    BY <2>1
<1> QED
  BY <1>2, <1>3, <1>4, Zenon

LEMMA PromptIs ==
    ASSUME NEW c \in CallCases, ValidToolCallRequest(c.req), NEW parts,
           parts = RenderFallback(MessagesForTemplate(c.req), ToolsForTemplate(c.req), TRUE)
    PROVE  PromptSound(c.req, parts)
<1>0. PICK req : req = c.req
  OBVIOUS
<1>1. /\ req.messages \in Seq(ToSet(req.messages))
      /\ \A i \in DOMAIN req.messages : "role" \in DOMAIN req.messages[i]
      /\ \/ req.tools = <<>>
         \/ /\ req.tools = <<req.tools[1]>>
            /\ req.tools[1] \in Seq(ToSet(req.tools[1]))
  BY <1>0, CallsTyped
<1> DEFINE mode == req.choice.mode
           name == req.choice.name
           m == MessagesForTemplate(req)
           tools == ToolsForTemplate(req)
           turn == [part |-> "assistant"]
           msg(i) == [part |-> "message", role |-> m[i].role,
                      content |-> IF m[i].content = <<>> THEN "" ELSE m[i].content[1]]
           msgs == [i \in DOMAIN m |-> msg(i)]
           shown == [part |-> "tools", tools |-> tools[1]]
           head == IF tools = <<>> THEN <<>> ELSE <<shown>>
           T == {shown, turn} \cup {msg(i) : i \in DOMAIN m}
<1>2. parts = PartsOf(head, msgs, turn)
  BY <1>0 DEF RenderFallback, PartsOf
<1>3. DOMAIN m = 1..Len(req.messages) /\ \A i \in DOMAIN m : m[i].role = req.messages[i].role
  <2>1. DOMAIN req.messages = 1..Len(req.messages)
    BY <1>1
  <2> DEFINE new(i) == IF ~IsSome(req.messages[i].calls) THEN req.messages[i].calls
                       ELSE <<[j \in DOMAIN req.messages[i].calls[1] |->
                               [req.messages[i].calls[1][j] EXCEPT !.arguments = "object"]]>>
  <2>2. m = [i \in DOMAIN req.messages |-> [req.messages[i] EXCEPT !.calls = new(i)]]
    BY DEF MessagesForTemplate
  <2> HIDE DEF m, new
  <2>3. DOMAIN m = DOMAIN req.messages
    BY <2>2
  <2>4. ASSUME NEW i \in DOMAIN req.messages
        PROVE  m[i].role = req.messages[i].role
    <3> DEFINE x == req.messages[i]
               y == new(i)
    <3>1. m[i] = [x EXCEPT !.calls = y] /\ "role" \in DOMAIN x
      BY <1>1, <2>2
    <3> HIDE DEF x, y
    <3>2. [x EXCEPT !.calls = y].role = x.role
      BY <3>1
    <3> QED
      BY <3>1, <3>2, Zenon DEF x
  <2> QED
    BY <2>1, <2>3, <2>4
<1>4. /\ msgs \in Seq(T) /\ Len(msgs) = Len(req.messages)
      /\ \A i \in 1..Len(msgs) : msgs[i].part = "message" /\ msgs[i].role = req.messages[i].role
  <2>1. Len(req.messages) \in Nat
    BY <1>1
  <2> HIDE DEF m, shown, turn
  <2>2. \A i \in DOMAIN m : msg(i) \in T /\ msg(i).part = "message" /\ msg(i).role = req.messages[i].role
    BY <1>3
  <2> HIDE DEF msg, T
  <2> QED
    BY <1>3, <2>1, <2>2
<1>5. head \in Seq(T) /\ turn \in T /\ turn.part = "assistant" /\ shown.part = "tools" /\ shown.tools = tools[1]
  <2>1. turn.part = "assistant" /\ shown.part = "tools" /\ shown.tools = tools[1]
    OBVIOUS
  <2> HIDE DEF shown, turn, msg, m
  <2>2. shown \in T /\ turn \in T
    BY Zenon
  <2> HIDE DEF T
  <2>3. <<>> \in Seq(T) /\ <<shown>> \in Seq(T)
    BY <2>2
  <2>4. head \in Seq(T)
    BY <2>3, Zenon
  <2> QED
    BY <2>1, <2>2, <2>4, Zenon
<1>6. tools = <<>> => Len(head) = 0
  BY DEF head
<1>7. tools # <<>> => Len(head) = 1 /\ head[1] = shown
  <2> HIDE DEF shown
  <2> QED
    OBVIOUS
<1> HIDE DEF m, msgs, shown, turn, T, head, tools
<1>8. \A i \in 1..Len(head) : head[i].part = "tools" /\ tools # <<>> /\ i = 1
  <2>1. CASE tools = <<>>
    BY <1>6, <2>1
  <2>2. CASE tools # <<>>
    <3>1. \A i \in 1..Len(head) : i = 1
      <4>1. Len(head) = 1 /\ \A i \in 1..1 : i = 1
        BY <1>7, <2>2
      <4> QED
        BY <4>1, Zenon
    <3> QED
      BY <1>5, <1>7, <2>2, <3>1, Zenon
  <2> QED
    BY <2>1, <2>2
<1>9. LaidOut(T, head, msgs, turn, parts) /\ ToldBack(head, msgs, parts)
  <2>1. InKinds(head, msgs, turn)
    BY <1>4, <1>5, <1>8 DEF InKinds
  <2>2. head \in Seq(T) /\ msgs \in Seq(T) /\ turn \in T
    BY <1>4, <1>5
  <2> QED
    BY <1>2, <2>1, <2>2, PromptFound, Zenon
<1>10. \A i \in 1..Len(head) : parts[i] = head[i]
  BY <1>9, Zenon DEF LaidOut
<1>11. (1..Len(head) = {}) = (ChoiceForTemplate(req) \in {<<>>, <<"none">>})
  <2>1. 1..Len(head) = {} <=> tools = <<>>
    BY <1>6, <1>7
  <2>2. tools = <<>> <=> req.tools = <<>> \/ mode = "none"
    BY DEF tools, ToolsForTemplate, IsSome
  <2>3. ChoiceForTemplate(req) \in {<<>>, <<"none">>} <=> req.tools = <<>> \/ mode = "none"
    <3>1. req.tools = <<>> => ChoiceForTemplate(req) = <<>>
      BY DEF ChoiceForTemplate, IsSome
    <3>2. req.tools # <<>> => ChoiceForTemplate(req) = <<(IF mode = "unset" THEN "auto" ELSE mode)>>
      BY DEF ChoiceForTemplate, IsSome
    <3>3. \A x : <<x>> # <<>> /\ (<<x>> = <<"none">> <=> x = "none")
      OBVIOUS
    <3>4. (IF mode = "unset" THEN "auto" ELSE mode) = "none" <=> mode = "none"
      OBVIOUS
    <3> QED
      BY <3>1, <3>2, <3>3, <3>4
  <2>4. CASE tools = <<>>
    BY <2>1, <2>2, <2>3, <2>4
  <2>5. CASE tools # <<>>
    BY <2>1, <2>2, <2>3, <2>5
  <2> QED
    BY <2>4, <2>5
<1>12. ASSUME mode = "named", NEW i \in 1..Len(head)
       PROVE  Names(parts[i].tools) = {name}
  <2>1. i = 1 /\ tools # <<>> /\ parts[i].tools = tools[1]
    <3>1. i = 1 /\ tools # <<>>
      BY <1>8, <1>12
    <3>2. parts[i] = shown
      BY <1>7, <1>10, <3>1
    <3> QED
      BY <1>5, <3>1, <3>2
  <2> DEFINE all == req.tools[1]
             at == {j \in DOMAIN all : all[j].name = name}
  <2>2. req.tools # <<>>
    BY <2>1 DEF tools, ToolsForTemplate, IsSome
  <2>3. all \in Seq(ToSet(all))
    BY <1>1, <2>2
  <2>4. tools[1] = Selected(all, at)
    <3>1. {j \in DOMAIN all : mode = "named" => all[j].name = name} = at
      BY <1>12
    <3>2. tools = <<Selected(all, {j \in DOMAIN all : mode = "named" => all[j].name = name})>>
      <4>1. mode # "none"
        BY <1>12
      <4> QED
        BY <2>2, <4>1, Zenon DEF tools, ToolsForTemplate, IsSome
    <3> DEFINE sel == Selected(all, at)
    <3>3. tools = <<sel>>
      BY <3>1, <3>2, Zenon
    <3> HIDE DEF sel
    <3>4. tools[1] = sel
      BY <3>3
    <3> QED
      BY <3>4 DEF sel
  <2>5. name \in Names(all)
    <3>1. ValidChoice(req.choice, OrElse(req.tools, <<>>))
      BY <1>0, Zenon DEF ValidToolCallRequest
    <3>2. OrElse(req.tools, <<>>) = all
      BY <2>2 DEF OrElse, IsSome
    <3>3. ValidChoice(req.choice, all)
      BY <3>1, <3>2, Zenon
    <3> HIDE DEF all
    <3> QED
      BY <1>12, <3>3 DEF ValidChoice
  <2> HIDE DEF all, at
  <2>6. Names(Selected(all, at)) = {name}
    BY <2>3, <2>5, NamedTool DEF at
  <2> QED
    BY <2>1, <2>4, <2>6, Zenon
<1>13. Len(msgs) = Len(req.messages) /\ \A i \in DOMAIN msgs : msgs[i].role = req.messages[i].role
  BY <1>4
<1>14. PromptSound(req, parts)
  BY <1>9, <1>11, <1>12, <1>13, Zenon DEF PromptSound, ToldBack
<1> QED
  BY <1>0, <1>14, Zenon

PromptOf(req) == RenderFallback(MessagesForTemplate(req), ToolsForTemplate(req), TRUE)

AnswerOf(c) == ParseChatOutput(c.text, ResponseTools(c.req))

ChatTurn(c, prompt, answer) == [unit |-> "calls", case |-> c, prompt |-> prompt, answer |-> answer]

(* A turn as it stands: rendered only if valid, and answered from its own  *)
(* text.                                                                   *)
CallInv(s) ==
    \E c, prompt, answer :
        /\ c \in CallCases
        /\ s = ChatTurn(c, prompt, answer)
        /\ prompt # <<>> => ValidToolCallRequest(c.req) /\ prompt = <<PromptOf(c.req)>>
        /\ answer # <<>> => answer = <<AnswerOf(c)>>

LEMMA CallStartOK ==
    ASSUME NEW c \in CallCases
    PROVE  CallInv(CallStart(c))
<1>1. CallStart(c) = ChatTurn(c, <<>>, <<>>)
  BY DEF CallStart, ChatTurn
<1> QED
  BY <1>1, Zenon DEF CallInv

LEMMA RenderTurnOK ==
    ASSUME CallInv(st), RenderTurn
    PROVE  CallInv(st')
<1>1. PICK c, prompt, answer :
        /\ c \in CallCases
        /\ st = ChatTurn(c, prompt, answer)
        /\ prompt # <<>> => ValidToolCallRequest(c.req) /\ prompt = <<PromptOf(c.req)>>
        /\ answer # <<>> => answer = <<AnswerOf(c)>>
  BY Zenon DEF CallInv
<1>2. ValidToolCallRequest(c.req) /\ st' = ChatTurn(c, <<PromptOf(c.req)>>, answer)
  <2>0. st = ChatTurn(c, prompt, answer)
    BY <1>1
  <2>1. st.case = c /\ \A x : [st EXCEPT !.prompt = x] = ChatTurn(c, x, answer)
    BY <2>0 DEF ChatTurn
  <2>2. ValidToolCallRequest(st.case.req) /\ st' = [st EXCEPT !.prompt = <<PromptOf(st.case.req)>>]
    BY Zenon DEF RenderTurn, PromptOf
  <2> QED
    BY <2>1, <2>2, Zenon
<1> QED
  BY <1>1, <1>2, Zenon DEF CallInv

LEMMA ReadAnswerOK ==
    ASSUME CallInv(st), ReadAnswer
    PROVE  CallInv(st')
<1>1. PICK c, prompt, answer :
        /\ c \in CallCases
        /\ st = ChatTurn(c, prompt, answer)
        /\ prompt # <<>> => ValidToolCallRequest(c.req) /\ prompt = <<PromptOf(c.req)>>
        /\ answer # <<>> => answer = <<AnswerOf(c)>>
  BY Zenon DEF CallInv
<1>2. st' = ChatTurn(c, prompt, <<AnswerOf(c)>>)
  <2>0. st = ChatTurn(c, prompt, answer)
    BY <1>1
  <2>1. st.case = c /\ \A x : [st EXCEPT !.answer = x] = ChatTurn(c, prompt, x)
    BY <2>0 DEF ChatTurn
  <2>2. st' = [st EXCEPT !.answer = <<AnswerOf(st.case)>>]
    BY Zenon DEF ReadAnswer, AnswerOf
  <2> QED
    BY <2>1, <2>2, Zenon
<1> QED
  BY <1>1, <1>2, Zenon DEF CallInv

LEMMA CallInvSound ==
    ASSUME CallInv(st)
    PROVE  /\ st.prompt # <<>> => PromptSound(st.case.req, st.prompt[1])
           /\ st.answer # <<>> => AnswerSound(st.case, st.answer[1])
<1>1. PICK c, prompt, answer :
        /\ c \in CallCases
        /\ st = ChatTurn(c, prompt, answer)
        /\ prompt # <<>> => ValidToolCallRequest(c.req) /\ prompt = <<PromptOf(c.req)>>
        /\ answer # <<>> => answer = <<AnswerOf(c)>>
  BY Zenon DEF CallInv
<1>2. st.case = c /\ st.prompt = prompt /\ st.answer = answer
  <2>1. st = ChatTurn(c, prompt, answer)
    BY <1>1
  <2> QED
    BY <2>1 DEF ChatTurn
<1>3. \A x : <<x>>[1] = x
  OBVIOUS
<1>4. ASSUME prompt # <<>>
      PROVE  PromptSound(c.req, prompt[1])
  <2>1. prompt[1] = PromptOf(c.req)
    BY <1>1, <1>3, <1>4, Zenon
  <2> QED
    BY <1>1, <1>4, <2>1, PromptIs, Zenon DEF PromptOf
<1>5. ASSUME answer # <<>>
      PROVE  AnswerSound(c, answer[1])
  <2>1. answer[1] = AnswerOf(c)
    BY <1>1, <1>3, <1>5, Zenon
  <2> QED
    BY <1>1, <2>1, AnswerIs, Zenon DEF AnswerOf
<1> QED
  BY <1>2, <1>4, <1>5, Zenon

-----------------------------------------------------------------------------
(* Drafts.                                                                 *)

LEMMA GreatestIs ==
    ASSUME NEW n \in Nat, NEW S, S \subseteq 0..n, S # {}
    PROVE  Max(S) \in S /\ \A y \in S : y <= Max(S)
<1> DEFINE R == {n - x : x \in S}
<1>0. \A x \in S : x \in Int /\ n - x \in Nat
  OBVIOUS
<1>1. R \subseteq Nat /\ R # {}
  BY <1>0
<1>2. PICK r \in R : \A y \in R : r <= y
  BY <1>1, NatMinimum
<1>3. PICK m \in S : r = n - m
  BY <1>2
<1>4. \A y \in S : m >= y
  BY <1>0, <1>2, <1>3
<1>5. \E x \in S : \A y \in S : x >= y
  BY <1>4
<1>6. Max(S) \in S /\ \A y \in S : Max(S) >= y
  BY <1>5, Zenon DEF Max
<1> QED
  BY <1>0, <1>6

(* The last k tokens stand at the place s too.                             *)
Repeated(ctx, k, s) == SubSeq(ctx, s + 1, s + k) = SubSeq(ctx, Len(ctx) - k + 1, Len(ctx))

(* The places at which they are followed by something.                     *)
Earlier(ctx, k) == {s \in 0..(Len(ctx) - k - 1) : Repeated(ctx, k, s)}

(* The occurrences a proposer with these bounds may use.                   *)
Usable(ctx, minN, maxN) ==
    {f \in (minN..maxN) \X (0..Len(ctx)) : f[1] < Len(ctx) /\ f[2] + f[1] < Len(ctx) /\ Repeated(ctx, f[1], f[2])}

Longer(ctx, minN, maxN) == {k \in minN..Min({maxN, Len(ctx) - 1}) : Earlier(ctx, k) # {}}

LEMMA UsableIs ==
    ASSUME NEW T, NEW ctx \in Seq(T), NEW minN \in Nat, NEW maxN \in Nat, Len(ctx) > minN,
           NEW k, NEW s
    PROVE  <<k, s>> \in Usable(ctx, minN, maxN) <=> k \in Longer(ctx, minN, maxN) /\ s \in Earlier(ctx, k)
<1> DEFINE n == Len(ctx)
<1>1. n \in Nat /\ n - 1 \in Nat
  OBVIOUS
<1>2. Min({maxN, n - 1}) = IF maxN <= n - 1 THEN maxN ELSE n - 1
  BY <1>1, MinPair
<1>3. <<k, s>> \in Usable(ctx, minN, maxN) <=>
        k \in minN..maxN /\ s \in 0..n /\ k < n /\ s + k < n /\ Repeated(ctx, k, s)
  BY DEF Usable
<1>4. k \in Longer(ctx, minN, maxN) <=> k \in minN..Min({maxN, n - 1}) /\ Earlier(ctx, k) # {}
  BY DEF Longer
<1>5. s \in Earlier(ctx, k) <=> s \in 0..(n - k - 1) /\ Repeated(ctx, k, s)
  BY DEF Earlier
<1> HIDE DEF n
<1>6. k \in minN..maxN /\ k < n <=> k \in minN..Min({maxN, n - 1})
  BY <1>1, <1>2
<1>7. k \in minN..maxN => (s \in 0..n /\ s + k < n <=> s \in 0..(n - k - 1))
  BY <1>1
<1>8. k \in minN..Min({maxN, n - 1}) => k \in minN..maxN
  BY <1>1, <1>2
<1> QED
  BY <1>3, <1>4, <1>5, <1>6, <1>7, <1>8

(* What the draft is: nothing, or what follows the longest repetition.     *)
IsDraft(ctx, minN, maxN, limit, d) ==
    \/ d = <<>> /\ (limit = 0 \/ Usable(ctx, minN, maxN) = {})
    \/ /\ limit > 0
       /\ \E k, s :
            /\ <<k, s>> \in Usable(ctx, minN, maxN)
            /\ \A f \in Usable(ctx, minN, maxN) : f[1] <= k
            /\ Len(d) \in 1..limit
            /\ \A i \in 1..Len(d) : d[i] = ctx[s + k + i]

LEMMA ProposeIs ==
    ASSUME NEW T, NEW ctx \in Seq(T), NEW minN \in Nat, NEW maxN \in Nat, NEW limit \in Nat, NEW d,
           d = Propose(ctx, minN, maxN, limit)
    PROVE  IsDraft(ctx, minN, maxN, limit, d) /\ d \in Seq(T)
<1> DEFINE n == Len(ctx)
           ns == Longer(ctx, minN, maxN)
           k == Max(ns)
           s == Max(Earlier(ctx, k))
           to == Min({s + k + limit, n})
<1>0. n \in Nat
  OBVIOUS
<1>1. d = IF limit = 0 \/ n <= minN \/ ns = {} THEN <<>>
          ELSE SubSeq(ctx, s + k + 1, to)
  BY Zenon DEF Propose, Longer, Earlier, Repeated
<1>2. CASE limit = 0
  <2>1. d = <<>>
    BY <1>1, <1>2, Zenon
  <2> QED
    <3>1. IsDraft(ctx, minN, maxN, limit, d)
      BY <1>2, <2>1, Zenon DEF IsDraft
    <3>2. d \in Seq(T)
      BY <2>1
    <3> QED
      BY <3>1, <3>2
<1>3. CASE n <= minN
  <2>1. Usable(ctx, minN, maxN) = {}
    BY <1>0, <1>3 DEF Usable
  <2>2. d = <<>>
    BY <1>1, <1>3, Zenon
  <2> QED
    BY <2>1, <2>2 DEF IsDraft
<1>4. \A f \in Usable(ctx, minN, maxN) : f = <<f[1], f[2]>> /\ f[1] \in Nat
  BY DEF Usable
<1>5. CASE limit # 0 /\ ~(n <= minN) /\ ns = {}
  <2>1. Usable(ctx, minN, maxN) = {}
    <3>1. n > minN
      BY <1>0, <1>5
    <3>2. \A a, b : <<a, b>> \in Usable(ctx, minN, maxN) => a \in ns
      BY <3>1, UsableIs
    <3> QED
      BY <1>4, <1>5, <3>2, ZenonT(60)
  <2>2. d = <<>>
    BY <1>1, <1>5, Zenon
  <2> QED
    BY <2>1, <2>2 DEF IsDraft
<1>6. CASE limit # 0 /\ ~(n <= minN) /\ ns # {}
  <2>0. n > minN
    BY <1>0, <1>6
  <2>1. ns \subseteq 0..n /\ \A a \in ns : Earlier(ctx, a) # {} /\ Earlier(ctx, a) \subseteq 0..n
    <3>1. n - 1 \in Nat
      BY <1>0, <2>0
    <3>2. Min({maxN, n - 1}) = IF maxN <= n - 1 THEN maxN ELSE n - 1
      BY <3>1, MinPair
    <3>3. \A a \in ns : a \in minN..Min({maxN, n - 1}) /\ Earlier(ctx, a) # {}
      BY DEF Longer
    <3>4. \A a \in ns : Earlier(ctx, a) \subseteq 0..(n - a - 1)
      BY DEF Earlier
    <3> HIDE DEF n, ns
    <3> DEFINE top == Min({maxN, n - 1})
    <3>6. top \in Nat /\ top <= n
      BY <1>0, <3>1, <3>2
    <3> HIDE DEF top
    <3>7. \A a \in minN..top : a \in 0..n /\ 0..(n - a - 1) \subseteq 0..n
      BY <1>0, <3>6
    <3>5. \A a \in ns : a \in 0..n /\ 0..(n - a - 1) \subseteq 0..n
      BY <3>3, <3>7, Zenon DEF top
    <3> QED
      BY <3>3, <3>4, <3>5, Zenon
  <2>2. k \in ns /\ \A a \in ns : a <= k
    BY <1>0, <1>6, <2>1, GreatestIs
  <2>3. s \in Earlier(ctx, k)
    BY <1>0, <2>1, <2>2, GreatestIs
  <2>4. <<k, s>> \in Usable(ctx, minN, maxN) /\ \A a, b : <<a, b>> \in Usable(ctx, minN, maxN) => a \in ns
    BY <2>0, <2>2, <2>3, UsableIs
  <2>5. \A f \in Usable(ctx, minN, maxN) : f[1] <= k
    BY <1>4, <2>2, <2>4, Zenon
  <2>6. k \in Nat /\ s \in Nat /\ s + k < n
    BY <2>4 DEF Usable
  <2>7. d = SubSeq(ctx, s + k + 1, to)
    BY <1>1, <1>6, Zenon
  <2> HIDE DEF k, s, ns
  <2>8. to = IF s + k + limit <= n THEN s + k + limit ELSE n
    BY <1>0, <2>6, MinPair
  <2>9. to - (s + k) \in 1..limit /\ to \in Nat /\ to <= n
    BY <1>0, <1>6, <2>6, <2>8
  <2> DEFINE h == s + k
             m == to - (s + k)
  <2>10. h \in Nat /\ m \in Nat /\ h + m <= Len(ctx) /\ h + m = to /\ m \in 1..limit
    BY <2>6, <2>9
  <2> HIDE DEF h, m, to, n
  <2>11. d = SubSeq(ctx, h + 1, h + m)
    BY <2>7, <2>10, Zenon DEF h
  <2>12. /\ SubSeq(ctx, h + 1, h + m) \in Seq(T) /\ Len(SubSeq(ctx, h + 1, h + m)) = m
         /\ \A i \in 1..m : SubSeq(ctx, h + 1, h + m)[i] = ctx[h + i]
    BY <2>10, PartOf
  <2>13. d \in Seq(T) /\ Len(d) = m /\ \A i \in 1..m : d[i] = ctx[h + i]
    BY <2>11, <2>12, Zenon
  <2>14. limit > 0 /\ Len(d) \in 1..limit /\ \A i \in 1..Len(d) : d[i] = ctx[s + k + i]
    BY <1>6, <2>10, <2>13 DEF h
  <2> QED
    BY <2>4, <2>5, <2>13, <2>14, ZenonT(60) DEF IsDraft
<1> QED
  BY <1>2, <1>3, <1>5, <1>6

(* What is accepted: as much as the two agree on, and no less.             *)
IsAccepted(a, d, t) ==
    /\ IsPrefix(a, d) /\ IsPrefix(a, t)
    /\ Len(a) + 1 <= Len(d) /\ Len(a) + 1 <= Len(t) => d[Len(a) + 1] # t[Len(a) + 1]

LEMMA AcceptIs ==
    ASSUME NEW T, NEW d \in Seq(T), NEW t \in Seq(T), NEW a, a = AcceptMatchingPrefix(d, t)
    PROVE  IsAccepted(a, d, t)
<1> DEFINE n == Min({Len(d), Len(t)})
           agree == {i \in 0..n : SubSeq(d, 1, i) = SubSeq(t, 1, i)}
           m == Max(agree)
<1>1. Len(d) \in Nat /\ Len(t) \in Nat
  OBVIOUS
<1>2. n = IF Len(d) <= Len(t) THEN Len(d) ELSE Len(t)
  BY <1>1, MinPair
<1>3. n \in Nat /\ n <= Len(d) /\ n <= Len(t)
  BY <1>1, <1>2
<1>4. a = SubSeq(d, 1, m)
  BY Zenon DEF AcceptMatchingPrefix
<1> HIDE DEF n
<1>5. 0 \in agree /\ agree \subseteq 0..n
  <2>1. SubSeq(d, 1, 0) = <<>> /\ SubSeq(t, 1, 0) = <<>>
    OBVIOUS
  <2> QED
    BY <1>3, <2>1
<1>6. m \in agree /\ \A y \in agree : y <= m
  BY <1>3, <1>5, GreatestIs
<1>7. m \in 0..n /\ SubSeq(d, 1, m) = SubSeq(t, 1, m)
  BY <1>6
<1>8. \A y \in 0..n : SubSeq(d, 1, y) = SubSeq(t, 1, y) => y <= m
  BY <1>6
<1> HIDE DEF m, agree
<1>9. m \in Nat /\ m <= Len(d) /\ m <= Len(t)
  BY <1>1, <1>3, <1>7
<1>10. \A q \in Seq(T) : \A y \in Nat : y <= Len(q) =>
          /\ SubSeq(q, 1, y) \in Seq(T) /\ Len(SubSeq(q, 1, y)) = y
          /\ \A i \in 1..y : SubSeq(q, 1, y)[i] = q[i]
  OBVIOUS
<1>11. a \in Seq(T) /\ Len(a) = m
  BY <1>4, <1>9, <1>10, Zenon
<1>12. SubSeq(a, 1, m) = a
  <2>1. \A q \in Seq(T) : SubSeq(q, 1, Len(q)) = q
    OBVIOUS
  <2> QED
    BY <1>11, <2>1
<1>13. IsPrefix(a, d) /\ IsPrefix(a, t)
  BY <1>4, <1>7, <1>9, <1>11, <1>12, Zenon DEF IsPrefix
<1>14. ASSUME m + 1 <= Len(d), m + 1 <= Len(t), d[m + 1] = t[m + 1]
       PROVE  FALSE
  <2> DEFINE p == SubSeq(d, 1, m + 1)
             q == SubSeq(t, 1, m + 1)
  <2>0. m + 1 \in 0..n /\ m + 1 \in Nat
    BY <1>1, <1>2, <1>9, <1>14
  <2>1. p \in Seq(T) /\ q \in Seq(T) /\ Len(p) = m + 1 /\ Len(q) = m + 1
    BY <1>10, <1>14, <2>0
  <2>2. \A i \in 1..(m + 1) : p[i] = d[i] /\ q[i] = t[i]
    BY <1>10, <1>14, <2>0
  <2>3. \A i \in 1..m : d[i] = t[i]
    <3>1. \A i \in 1..m : SubSeq(d, 1, m)[i] = d[i] /\ SubSeq(t, 1, m)[i] = t[i]
      BY <1>9, <1>10
    <3> QED
      BY <1>7, <3>1, Zenon
  <2>4. \A i \in 1..(m + 1) : i \in 1..m \/ i = m + 1
    BY <1>9
  <2>5. \A i \in 1..(m + 1) : p[i] = q[i]
    BY <1>14, <2>2, <2>3, <2>4, Zenon
  <2> HIDE DEF p, q
  <2>6. p = q
    BY <2>1, <2>5, SeqEqual
  <2>7. m + 1 <= m
    BY <1>8, <2>0, <2>6, Zenon DEF p, q
  <2> QED
    BY <1>9, <2>7
<1> QED
  BY <1>11, <1>13, <1>14, Zenon DEF IsAccepted

Drafting(c, d, a, phase) ==
    [unit |-> "draft", case |-> c, draft |-> d, accepted |-> a, phase |-> phase]

DraftIs(s, c, d, a, phase) ==
    /\ c \in DraftCases /\ phase \in 0..2
    /\ s = Drafting(c, d, a, phase)
    /\ phase > 0 => d \in Seq(Nat) /\ IsDraft(c.context, c.minN, c.maxN, c.limit, d)
    /\ phase = 2 => IsAccepted(a, d, c.target)

DraftInv(s) == \E c, d, a, phase : DraftIs(s, c, d, a, phase)

DraftNames == {"unit", "case", "draft", "accepted", "phase"}

Proposed(s, x) == [s EXCEPT !.phase = 1, !.draft = x]
Verified(s, x) == [s EXCEPT !.phase = 2, !.accepted = x]

LEMMA DraftFields ==
    ASSUME NEW c, NEW d, NEW a, NEW phase, NEW s, s = Drafting(c, d, a, phase)
    PROVE  /\ s.case = c /\ s.draft = d /\ s.accepted = a /\ s.phase = phase
           /\ s.unit = "draft" /\ DOMAIN s = DraftNames
           /\ s = [k \in DraftNames |-> s[k]]
BY DEF Drafting, DraftNames

LEMMA DraftProposed ==
    ASSUME NEW c, NEW d, NEW a, NEW phase, NEW s, s = Drafting(c, d, a, phase), NEW x
    PROVE  Proposed(s, x) = Drafting(c, x, a, 1)
<1>0. /\ s.case = c /\ s.draft = d /\ s.accepted = a /\ s.phase = phase
      /\ s.unit = "draft" /\ DOMAIN s = DraftNames
  BY DraftFields
<1> DEFINE h == Drafting(c, x, a, 1)
<1>1. /\ h.case = c /\ h.draft = x /\ h.accepted = a /\ h.phase = 1
      /\ h.unit = "draft" /\ h = [k \in DraftNames |-> h[k]]
  BY DEF Drafting, DraftNames
<1> HIDE DEF h
<1>2. [s EXCEPT !.phase = 1, !.draft = x] =
        [k \in DraftNames |-> IF k = "draft" THEN x ELSE IF k = "phase" THEN 1 ELSE s[k]]
  BY <1>0
<1>3. \A k \in DraftNames : (IF k = "draft" THEN x ELSE IF k = "phase" THEN 1 ELSE s[k]) = h[k]
  BY <1>0, <1>1 DEF DraftNames
<1> QED
  BY <1>1, <1>2, <1>3 DEF h, Proposed

LEMMA DraftVerified ==
    ASSUME NEW c, NEW d, NEW a, NEW phase, NEW s, s = Drafting(c, d, a, phase), NEW x
    PROVE  Verified(s, x) = Drafting(c, d, x, 2)
<1>0. /\ s.case = c /\ s.draft = d /\ s.accepted = a /\ s.phase = phase
      /\ s.unit = "draft" /\ DOMAIN s = DraftNames
  BY DraftFields
<1> DEFINE h == Drafting(c, d, x, 2)
<1>1. /\ h.case = c /\ h.draft = d /\ h.accepted = x /\ h.phase = 2
      /\ h.unit = "draft" /\ h = [k \in DraftNames |-> h[k]]
  BY DEF Drafting, DraftNames
<1> HIDE DEF h
<1>2. [s EXCEPT !.phase = 2, !.accepted = x] =
        [k \in DraftNames |-> IF k = "accepted" THEN x ELSE IF k = "phase" THEN 2 ELSE s[k]]
  BY <1>0
<1>3. \A k \in DraftNames : (IF k = "accepted" THEN x ELSE IF k = "phase" THEN 2 ELSE s[k]) = h[k]
  BY <1>0, <1>1 DEF DraftNames
<1> QED
  BY <1>1, <1>2, <1>3 DEF h, Verified

LEMMA DraftStartOK ==
    ASSUME NEW c \in DraftCases
    PROVE  DraftInv(DraftStart(c))
<1>1. DraftStart(c) = Drafting(c, <<>>, <<>>, 0)
  BY DEF DraftStart, Drafting
<1>2. 0 \in 0..2 /\ ~(0 > 0) /\ 0 # 2
  OBVIOUS
<1>3. DraftIs(DraftStart(c), c, <<>>, <<>>, 0)
  <2>1. 0 = 2 => FALSE
    OBVIOUS
  <2> QED
    BY <1>1, <1>2, <2>1, Zenon DEF DraftIs
<1> QED
  BY <1>3, Zenon DEF DraftInv

LEMMA ProposeDraftOK ==
    ASSUME DraftInv(st), ProposeDraft
    PROVE  DraftInv(st')
<1>1. PICK c, d, a, phase : DraftIs(st, c, d, a, phase)
  BY Zenon DEF DraftInv
<1>2. c \in DraftCases /\ st = Drafting(c, d, a, phase)
  BY <1>1, Zenon DEF DraftIs
<1>3. PICK e : e = Propose(c.context, c.minN, c.maxN, c.limit)
  OBVIOUS
<1>4. st' = Drafting(c, e, a, 1)
  <2>1. st.case = c
    BY <1>2, DraftFields
  <2>2. st' = Proposed(st, Propose(st.case.context, st.case.minN, st.case.maxN, st.case.limit))
    BY Zenon DEF ProposeDraft, Proposed
  <2>3. st' = Proposed(st, e)
    BY <1>3, <2>1, <2>2, Zenon
  <2> QED
    BY <1>2, <2>3, DraftProposed
<1>5. e \in Seq(Nat) /\ IsDraft(c.context, c.minN, c.maxN, c.limit, e)
  <2>1. c.context \in Seq(Nat) /\ c.minN \in Nat /\ c.maxN \in Nat /\ c.limit \in Nat
    BY <1>2, DraftsTyped
  <2> QED
    BY <1>3, <2>1, ProposeIs, Zenon
<1>6. 1 \in 0..2 /\ 1 # 2
  OBVIOUS
<1>7. DraftIs(st', c, e, a, 1)
  BY <1>2, <1>4, <1>5, <1>6, Zenon DEF DraftIs
<1> QED
  BY <1>7, Zenon DEF DraftInv

LEMMA VerifyDraftOK ==
    ASSUME DraftInv(st), VerifyDraft
    PROVE  DraftInv(st')
<1>1. PICK c, d, a, phase : DraftIs(st, c, d, a, phase)
  BY Zenon DEF DraftInv
<1>2. c \in DraftCases /\ st = Drafting(c, d, a, phase)
  BY <1>1, Zenon DEF DraftIs
<1>3. PICK b : b = AcceptMatchingPrefix(d, c.target)
  OBVIOUS
<1>4. phase = 1 /\ st' = Drafting(c, d, b, 2)
  <2>1. st.case = c /\ st.draft = d /\ st.phase = phase
    BY <1>2, DraftFields
  <2>2. st.phase = 1 /\ st' = Verified(st, AcceptMatchingPrefix(st.draft, st.case.target))
    BY Zenon DEF VerifyDraft, Verified
  <2>3. st' = Verified(st, b)
    BY <1>3, <2>1, <2>2, Zenon
  <2>4. st' = Drafting(c, d, b, 2)
    BY <1>2, <2>3, DraftVerified
  <2> QED
    BY <2>1, <2>2, <2>4
<1>5. d \in Seq(Nat) /\ IsDraft(c.context, c.minN, c.maxN, c.limit, d)
  <2>1. 1 > 0
    OBVIOUS
  <2> QED
    BY <1>1, <1>4, <2>1, Zenon DEF DraftIs
<1>6. IsAccepted(b, d, c.target)
  <2>1. c.target \in Seq(Nat)
    BY <1>2, DraftsTyped
  <2> QED
    BY <1>3, <1>5, <2>1, AcceptIs, Zenon
<1>7. 2 \in 0..2
  OBVIOUS
<1>8. DraftIs(st', c, d, b, 2)
  BY <1>2, <1>4, <1>5, <1>6, <1>7, Zenon DEF DraftIs
<1> QED
  BY <1>8, Zenon DEF DraftInv

LEMMA DraftInvSound ==
    ASSUME DraftInv(st)
    PROVE  DraftSound
<1>1. PICK c, d, a, phase : DraftIs(st, c, d, a, phase)
  BY Zenon DEF DraftInv
<1>2. st.case = c /\ st.draft = d /\ st.accepted = a /\ st.phase = phase
  <2>1. st = Drafting(c, d, a, phase)
    BY <1>1, Zenon DEF DraftIs
  <2> QED
    BY <2>1 DEF Drafting
<1> DEFINE ctx == c.context
           n == Len(ctx)
           found == Usable(ctx, c.minN, c.maxN)
<1>3. /\ phase > 0 => d \in Seq(Nat) /\ IsDraft(ctx, c.minN, c.maxN, c.limit, d)
      /\ phase = 2 => IsAccepted(a, d, c.target)
      /\ c.limit \in Nat
  BY <1>1, DraftsTyped DEF DraftIs
<1>4. ASSUME phase > 0
      PROVE  (d # <<>>) = (found # {} /\ c.limit > 0)
  <2>1. d \in Seq(Nat) /\ IsDraft(ctx, c.minN, c.maxN, c.limit, d)
    BY <1>3, <1>4
  <2> HIDE DEF found, ctx
  <2>2. CASE d = <<>> /\ (c.limit = 0 \/ found = {})
    BY <2>2
  <2>3. CASE /\ c.limit > 0
             /\ \E k, s : <<k, s>> \in found /\ Len(d) \in 1..c.limit
    <3>1. found # {} /\ \E m \in Nat : m >= 1 /\ Len(d) = m
      BY <1>3, <2>3
    <3>2. d # <<>>
      <4>1. Len(<<>>) = 0
        OBVIOUS
      <4> QED
        BY <3>1, <4>1
    <3> QED
      BY <2>3, <3>1, <3>2
  <2> QED
    BY <2>1, <2>2, <2>3, Zenon DEF IsDraft, found
<1>5. ASSUME phase > 0, d # <<>>
      PROVE  \E f \in found :
                /\ \A h \in found : h[1] <= f[1]
                /\ \A i \in 1..Len(d) : d[i] = ctx[f[2] + f[1] + i]
                /\ Len(d) <= c.limit
  <2>1. IsDraft(ctx, c.minN, c.maxN, c.limit, d)
    BY <1>3, <1>5
  <2>2. PICK k, s : /\ <<k, s>> \in found
                    /\ \A f \in found : f[1] <= k
                    /\ Len(d) \in 1..c.limit
                    /\ \A i \in 1..Len(d) : d[i] = ctx[s + k + i]
    BY <1>5, <2>1, Zenon DEF IsDraft
  <2> DEFINE f == <<k, s>>
  <2>3. f[1] = k /\ f[2] = s
    OBVIOUS
  <2>4. Len(d) <= c.limit
    BY <1>3, <2>2
  <2> HIDE DEF found, ctx
  <2>5. f \in found
    BY <2>2
  <2> HIDE DEF f
  <2> QED
    BY <2>2, <2>3, <2>4, <2>5, Zenon
<1>6. found = {f \in (c.minN..c.maxN) \X (0..n) :
                 f[1] < n /\ (f[2] + f[1] < n /\ SubSeq(ctx, f[2] + 1, f[2] + f[1]) = SubSeq(ctx, n - f[1] + 1, n))}
  BY Zenon DEF Usable, Repeated
<1>7. ASSUME phase = 2
      PROVE  /\ IsPrefix(a, d) /\ IsPrefix(a, c.target)
             /\ Len(a) + 1 <= Len(d) /\ Len(a) + 1 <= Len(c.target) => d[Len(a) + 1] # c.target[Len(a) + 1]
  BY <1>3, <1>7, Zenon DEF IsAccepted
<1> HIDE DEF found
<1> QED
  BY <1>2, <1>4, <1>5, <1>6, <1>7, ZenonT(60) DEF DraftSound

-----------------------------------------------------------------------------
(* All parts together.                                                     *)

(* The state of the part that runs, if it is one of these.                 *)
PartInv(s) ==
    /\ "unit" \in DOMAIN s
    /\ s.unit = "queue"   => QueueInv(s)
    /\ s.unit = "offload" => OffloadInv(s)
    /\ s.unit = "copies"  => CopiesInv(s)
    /\ s.unit = "turns"   => TurnsInv(s)
    /\ s.unit = "overlap" => SplitInv(s)
    /\ s.unit = "scales"  => ScalesInv(s)
    /\ s.unit = "startup" => StartupInv(s)
    /\ s.unit = "ranks"   => RanksInv(s)
    /\ s.unit = "text"    => TextUnit(s)
    /\ s.unit = "vocab"   => VocabInv(s)
    /\ s.unit = "calls"   => CallInv(s)
    /\ s.unit = "draft"   => DraftInv(s)

PartsInv == PartInv(st)

LEMMA ElsewhereStart ==
    ASSUME AttentionInit \/ ModelInit \/ TokenInit
    PROVE  \/ "unit" \in DOMAIN st /\ st.unit \notin ProvedUnits
           \/ \E c \in TextCases : st = TextStart(c)
           \/ \E c \in VocabCases : st = VocabStart(c)
           \/ \E c \in CallCases : st = CallStart(c)
           \/ \E c \in DraftCases : st = DraftStart(c)
<1>1. CASE AttentionInit
  BY <1>1 DEF AttentionInit, AttentionStart, BlockStart, ProvedUnits
<1>2. CASE ModelInit
  BY <1>2 DEF ModelInit, RouteStart, QuantStart, ConfigStart, FetchStart, LoadStart, ProvedUnits
<1>3. CASE TokenInit
  BY <1>3 DEF TokenInit, SampleStart, GrowStart, BeamStart, ProvedUnits
<1> QED
  BY <1>1, <1>2, <1>3

(* Each invariant fixes the unit.                                          *)
LEMMA UnitOf ==
    ASSUME NEW s
    PROVE  /\ QueueInv(s)   => "unit" \in DOMAIN s /\ s.unit = "queue"
           /\ OffloadInv(s) => "unit" \in DOMAIN s /\ s.unit = "offload"
           /\ CopiesInv(s)  => "unit" \in DOMAIN s /\ s.unit = "copies"
           /\ TurnsInv(s)   => "unit" \in DOMAIN s /\ s.unit = "turns"
           /\ SplitInv(s)   => "unit" \in DOMAIN s /\ s.unit = "overlap"
           /\ ScalesInv(s)  => "unit" \in DOMAIN s /\ s.unit = "scales"
           /\ StartupInv(s) => "unit" \in DOMAIN s /\ s.unit = "startup"
           /\ RanksInv(s)   => "unit" \in DOMAIN s /\ s.unit = "ranks"
           /\ TextUnit(s)   => "unit" \in DOMAIN s /\ s.unit = "text"
           /\ VocabInv(s)   => "unit" \in DOMAIN s /\ s.unit = "vocab"
           /\ CallInv(s)    => "unit" \in DOMAIN s /\ s.unit = "calls"
           /\ DraftInv(s)   => "unit" \in DOMAIN s /\ s.unit = "draft"
<1>1. QueueInv(s) => "unit" \in DOMAIN s /\ s.unit = "queue"
  BY DEF QueueInv, QueueStates
<1>2. OffloadInv(s) => "unit" \in DOMAIN s /\ s.unit = "offload"
  BY DEF OffloadInv
<1>3. CopiesInv(s) => "unit" \in DOMAIN s /\ s.unit = "copies"
  BY DEF CopiesInv, CopyStates
<1>4. TurnsInv(s) => "unit" \in DOMAIN s /\ s.unit = "turns"
  BY DEF TurnsInv
<1>5. SplitInv(s) => "unit" \in DOMAIN s /\ s.unit = "overlap"
  BY DEF SplitInv
<1>6. ScalesInv(s) => "unit" \in DOMAIN s /\ s.unit = "scales"
  BY DEF ScalesInv
<1>7. StartupInv(s) => "unit" \in DOMAIN s /\ s.unit = "startup"
  BY DEF StartupInv
<1>8. RanksInv(s) => "unit" \in DOMAIN s /\ s.unit = "ranks"
  BY DEF RanksInv
<1>9. TextUnit(s) => "unit" \in DOMAIN s /\ s.unit = "text"
  BY DEF TextUnit
<1>10. VocabInv(s) => "unit" \in DOMAIN s /\ s.unit = "vocab"
  BY DEF VocabInv
<1>11. CallInv(s) => "unit" \in DOMAIN s /\ s.unit = "calls"
  <2>1. CallInv(s) => \E c, prompt, answer : s = ChatTurn(c, prompt, answer)
    BY Zenon DEF CallInv
  <2> QED
    BY <2>1 DEF ChatTurn
<1>12. DraftInv(s) => "unit" \in DOMAIN s /\ s.unit = "draft"
  <2>1. DraftInv(s) => \E c, d, a, phase : s = Drafting(c, d, a, phase)
    BY Zenon DEF DraftInv, DraftIs
  <2> QED
    BY <2>1 DEF Drafting
<1> QED
  BY <1>1, <1>2, <1>3, <1>4, <1>5, <1>6, <1>7, <1>8, <1>9, <1>10, <1>11, <1>12

(* One part's invariant is all that is asked of its state.                 *)
LEMMA OnePart ==
    ASSUME NEW s,
           \/ QueueInv(s) \/ OffloadInv(s) \/ CopiesInv(s) \/ TurnsInv(s)
           \/ SplitInv(s) \/ ScalesInv(s) \/ StartupInv(s) \/ RanksInv(s)
           \/ TextUnit(s) \/ VocabInv(s) \/ CallInv(s) \/ DraftInv(s)
    PROVE  PartInv(s)
BY UnitOf DEF PartInv

LEMMA PartsStart ==
    ASSUME Init
    PROVE  PartsInv
<1>1. CASE AttentionInit \/ ModelInit \/ TokenInit
  <2>1. CASE "unit" \in DOMAIN st /\ st.unit \notin ProvedUnits
    BY <2>1 DEF PartsInv, PartInv, ProvedUnits
  <2>2. CASE \E c \in TextCases : st = TextStart(c)
    BY <2>2, TextUnitStart, OnePart, Zenon DEF PartsInv
  <2>3. CASE \E c \in VocabCases : st = VocabStart(c)
    BY <2>3, VocabStartOK, OnePart, Zenon DEF PartsInv
  <2>4. CASE \E c \in CallCases : st = CallStart(c)
    BY <2>4, CallStartOK, OnePart, Zenon DEF PartsInv
  <2>5. CASE \E c \in DraftCases : st = DraftStart(c)
    BY <2>5, DraftStartOK, OnePart, Zenon DEF PartsInv
  <2> QED
    BY <1>1, <2>1, <2>2, <2>3, <2>4, <2>5, ElsewhereStart
<1>2. CASE StoreInit
  <2>1. \A c \in QueueCases : QueueInv(QueueStart(c))
    BY QueueStartOK
  <2>2. OffloadInv(OffloadStart)
    BY OffloadStartOK
  <2>3. CopiesInv(CopiesStart)
    BY CopiesStartOK
  <2>4. \A n \in PoolSizes : TurnsInv(TurnsStart(n))
    BY TurnsStartOK
  <2>5. \A b \in OverlapBatches : SplitInv(SplitStart(b))
    BY SplitStartOK
  <2>6. \A budget \in 0..(2 * CacheLayers) : ScalesInv(ScalesStart(budget))
    BY ScalesStartOK
  <2>7. \A c \in StartupCases : StartupInv(StartupStart(c))
    BY StartupStartOK
  <2>8. \A c \in SplitCases : RanksInv(SplitsStart(c))
    BY SplitsStartOK
  <2>9. \/ QueueInv(st) \/ OffloadInv(st) \/ CopiesInv(st) \/ TurnsInv(st)
        \/ SplitInv(st) \/ ScalesInv(st) \/ StartupInv(st) \/ RanksInv(st)
    BY <1>2, <2>1, <2>2, <2>3, <2>4, <2>5, <2>6, <2>7, <2>8, Zenon DEF StoreInit
  <2> QED
    BY <2>9, OnePart DEF PartsInv
<1> QED
  BY <1>1, <1>2 DEF Init

LEMMA PartsStep ==
    ASSUME PartsInv, [Next]_st
    PROVE  PartsInv'
<1> SUFFICES PartInv(st')
  BY DEF PartsInv
<1>1. CASE /\ AttentionNext \/ ModelNext \/ TokenNext
           /\ ~(FeedToken \/ FlushText \/ ReadVocab)
           /\ ~(RenderTurn \/ ReadAnswer \/ ProposeDraft \/ VerifyDraft)
  <2>1. "unit" \in DOMAIN st' /\ st'.unit \notin ProvedUnits
    BY <1>1, AttentionElsewhere, ModelElsewhere, TokenElsewhere DEF PartsInv, PartInv
  <2> QED
    BY <2>1 DEF PartInv, ProvedUnits
<1>2. CASE QueueArrive \/ QueueDrain \/ QueueRemove \/ QueueConfigure
  <2>1. QueueInv(st)
    BY <1>2 DEF PartsInv, PartInv, QueueArrive, QueueDrain, QueueRemove, QueueConfigure
  <2> QED
    BY <1>2, <2>1, ArriveOK, DrainOK, RemoveOK, ConfigureOK, OnePart
<1>3. CASE OffloadPut \/ OffloadRemove
  <2>1. OffloadInv(st)
    BY <1>3 DEF PartsInv, PartInv, OffloadPut, OffloadRemove
  <2> QED
    BY <1>3, <2>1, OffloadPutOK, OffloadRemoveOK, OnePart
<1>4. CASE CopySubmit \/ CopyFinish \/ CopyDrain
  <2>1. CopiesInv(st)
    BY <1>4 DEF PartsInv, PartInv, CopySubmit, CopyFinish, CopyDrain
  <2> QED
    BY <1>4, <2>1, CopySubmitOK, CopyFinishOK, CopyDrainOK, OnePart
<1>5. CASE TakeTurn
  <2>1. TurnsInv(st)
    BY <1>5 DEF PartsInv, PartInv, TakeTurn
  <2> QED
    BY <1>5, <2>1, TakeTurnOK, OnePart
<1>6. CASE SplitBatch
  <2>1. SplitInv(st)
    BY <1>6 DEF PartsInv, PartInv, SplitBatch
  <2> QED
    BY <1>6, <2>1, SplitBatchOK, OnePart
<1>7. CASE ScalesSet \/ ScalesDrop
  <2>1. ScalesInv(st)
    BY <1>7 DEF PartsInv, PartInv, ScalesSet, ScalesDrop
  <2> QED
    BY <1>7, <2>1, ScalesSetOK, ScalesDropOK, OnePart
<1>8. CASE StartWorker \/ WorkerSleep \/ WorkerWake
  <2>1. StartupInv(st)
    BY <1>8 DEF PartsInv, PartInv, StartWorker, WorkerSleep, WorkerWake
  <2> QED
    BY <1>8, <2>1, StartWorkerOK, WorkerSleepOK, WorkerWakeOK, OnePart
<1>9. CASE SplitRanks
  <2>1. RanksInv(st)
    BY <1>9 DEF PartsInv, PartInv, SplitRanks
  <2> QED
    BY <1>9, <2>1, SplitRanksOK, OnePart
<1>10. CASE FeedToken \/ FlushText
  <2>1. TextUnit(st)
    BY <1>10 DEF PartsInv, PartInv, FeedToken, FlushText
  <2> QED
    BY <1>10, <2>1, TextUnitStep, OnePart
<1>11. CASE ReadVocab
  <2>1. VocabInv(st)
    BY <1>11 DEF PartsInv, PartInv, ReadVocab
  <2> QED
    BY <1>11, <2>1, ReadVocabOK, OnePart
<1>12. CASE RenderTurn \/ ReadAnswer
  <2>1. CallInv(st)
    BY <1>12 DEF PartsInv, PartInv, RenderTurn, ReadAnswer
  <2> QED
    BY <1>12, <2>1, RenderTurnOK, ReadAnswerOK, OnePart
<1>13. CASE ProposeDraft \/ VerifyDraft
  <2>1. DraftInv(st)
    BY <1>13 DEF PartsInv, PartInv, ProposeDraft, VerifyDraft
  <2> QED
    BY <1>13, <2>1, ProposeDraftOK, VerifyDraftOK, OnePart
<1>14. CASE UNCHANGED st
  BY <1>14 DEF PartsInv
<1> QED
  BY <1>1, <1>2, <1>3, <1>4, <1>5, <1>6, <1>7, <1>8, <1>9, <1>10, <1>11, <1>12, <1>13, <1>14
     DEF Next, StoreNext

LEMMA PartsExact ==
    ASSUME PartsInv
    PROVE  StoresExact
BY QueueInvSound, OffloadInvSound, CopiesInvSound, TurnsInvSound, SplitInvSound, ScalesInvSound
   DEF PartsInv, PartInv, StoresExact

LEMMA PartsFit ==
    ASSUME PartsInv
    PROVE  CacheFits
BY StartupInvSound, RanksInvSound DEF PartsInv, PartInv, CacheFits

LEMMA PartsReadRight ==
    ASSUME PartsInv
    PROVE  TextExact
BY TextInvSound, VocabInvSound DEF PartsInv, PartInv, TextUnit, TextExact

LEMMA PartsCallsWhole ==
    ASSUME PartsInv
    PROVE  CallsAllOrNothing
<1>1. st.unit = "calls" => CallInv(st)
  BY DEF PartsInv, PartInv
<1> QED
  BY <1>1, CallInvSound, Zenon DEF CallsAllOrNothing

LEMMA PartsDraftWell ==
    ASSUME PartsInv
    PROVE  st.unit = "draft" => DraftSound
BY DraftInvSound DEF PartsInv, PartInv

(* In every run of these parts, whatever calls come in whatever order, the *)
(* state is one the code's own bookkeeping allows: the queue's numbers     *)
(* ascend, the offload store's slots are each free or held by one key, the *)
(* copies stand in the order of their submission, the loads of the         *)
(* tokenizers differ by at most one around the next turn, a worker that is *)
(* up holds what the sizing gave it, what a stream was fed is what it has  *)
(* shown, holds back and cannot read yet, with no stop string begun in     *)
(* what it has shown, and a turn is rendered only if its request is valid. *)
THEOREM PartsInvariant == Spec => []PartsInv
<1>1. Init => PartsInv
  BY PartsStart
<1>2. PartsInv /\ [Next]_st => PartsInv'
  BY PartsStep
<1> QED
  BY <1>1, <1>2, PTL DEF Spec

(* BatchQueue, BlockOffloadStore, PinnedTokenCopy, TokenizerPool, the      *)
(* overlap planner and GpuKVCache's scales keep what they are given, for   *)
(* every capacity, every number of slots, tokenizers and layers, and every *)
(* sequence of calls.                                                      *)
THEOREM ContainersExact == Spec => []StoresExact
<1>1. PartsInv => StoresExact
  BY PartsExact
<1> QED
  BY <1>1, PartsInvariant, PTL

(* A worker that Worker::initialize brings up has a cache that fits the    *)
(* memory it was given, of a dtype the attention knows, with its INT8      *)
(* scales set, and the scheduler is told no more blocks than it has, also  *)
(* after sleeping and waking; and the parallel plans give every head,      *)
(* layer and request to one rank, for every world size.                    *)
THEOREM StartedCacheFits == Spec => []CacheFits
<1>1. PartsInv => CacheFits
  BY PartsFit
<1> QED
  BY <1>1, PartsInvariant, PTL

(* Detokenizer::process_token and flush show what was generated, whatever  *)
(* bytes the tokens are and wherever a character or a stop string is split *)
(* between them: all of it once flushed, all before the stop string once   *)
(* one is complete, and nothing twice.  This is for every output mode when *)
(* there are no stop strings, and with any stop strings for ASCII text     *)
(* handed on as deltas.  The stop tokens found in a tokenizer's            *)
(* configuration are all it names, each once.                              *)
THEOREM TextStaysExact == Spec => []TextExact
<1>1. PartsInv => TextExact
  BY PartsReadRight
<1> QED
  BY <1>1, PartsInvariant, PTL

(* The template of a chat turn is given every message once and in order    *)
(* and the tools the choice leaves, for every valid request; and           *)
(* parse_chat_output turns any generated text into itself or into its      *)
(* calls and the rest of it: every call it reports is to a tool of the     *)
(* request, in the order of the text, and no piece of the text is lost,    *)
(* reported twice or both shown and called.                                *)
THEOREM CallsStayWhole == Spec => []CallsAllOrNothing
<1>1. PartsInv => CallsAllOrNothing
  BY PartsCallsWhole
<1> QED
  BY <1>1, PartsInvariant, PTL

(* NGramProposer::propose and accept_matching_prefix, for every context,   *)
(* n-gram bounds, limit and target: there is a draft exactly when the end  *)
(* of the context occurs before, it is what followed an occurrence of a    *)
(* longest such end, no longer than the limit; and what is accepted of it  *)
(* is what the model would generate, up to the first difference.           *)
THEOREM DraftsStaySound == Spec => [](st.unit = "draft" => DraftSound)
<1>1. PartsInv => (st.unit = "draft" => DraftSound)
  BY PartsDraftWell
<1> QED
  BY <1>1, PartsInvariant, PTL

=============================================================================
