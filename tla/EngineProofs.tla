---------------------------- MODULE EngineProofs ----------------------------
(***************************************************************************)
(* The scheduler and the engine core around it, for any number of          *)
(* requests, prompts, blocks, limits, priorities, drafts and either        *)
(* executor.  First what the scheduler guarantees at every point of every  *)
(* step; then that the engine tracks the same requests everywhere and      *)
(* keeps its promise to its owner (EngineContract), and that without       *)
(* prefix caching the runner counts what the scheduler counts and writes   *)
(* only slots of its own requests.                                         *)
(***************************************************************************)
EXTENDS EngineCore, KVLemmas

-----------------------------------------------------------------------------
(* The waiting queue.  Before orders the tracked requests strictly.        *)

LEMMA BeforeOrder ==
    ASSUME NEW arr \in Seq(Requests), IsInjective(arr),
           NEW a \in ToSet(arr), NEW b \in ToSet(arr)
    PROVE  /\ ~Before(a, a, arr)
           /\ a # b => Before(a, b, arr) \/ Before(b, a, arr)
           /\ \A c \in ToSet(arr) : Before(a, b, arr) /\ Before(b, c, arr) => Before(a, c, arr)
<1>1. \A x \in ToSet(arr) : \E i \in DOMAIN arr : arr[i] = x
  BY DEF ToSet
<1>2. DOMAIN arr \subseteq Nat /\ ToSet(arr) \subseteq Requests
  BY DEF ToSet
<1>3. \A x \in ToSet(arr) : Priority[x] \in Int
  BY <1>2, SchedulerAssumption
<1>4. \A i, j \in DOMAIN arr : arr[i] = arr[j] => i = j
  BY DEF IsInjective
<1>5. PICK i \in DOMAIN arr : arr[i] = a
  BY <1>1
<1>6. PICK j \in DOMAIN arr : arr[j] = b
  BY <1>1
<1>7. Before(a, b, arr) <=> Priority[a] > Priority[b] \/ (Priority[a] = Priority[b] /\ i < j)
  BY <1>4, <1>5, <1>6 DEF Before
<1>8. Before(b, a, arr) <=> Priority[b] > Priority[a] \/ (Priority[b] = Priority[a] /\ j < i)
  BY <1>4, <1>5, <1>6 DEF Before
<1>9. Before(a, a, arr) <=> Priority[a] > Priority[a] \/ (Priority[a] = Priority[a] /\ i < i)
  BY <1>4, <1>5 DEF Before
<1>10. ASSUME NEW c \in ToSet(arr), Before(a, b, arr), Before(b, c, arr)
       PROVE  Before(a, c, arr)
  <2>1. PICK k \in DOMAIN arr : arr[k] = c
    BY <1>1
  <2>2. Before(b, c, arr) <=> Priority[b] > Priority[c] \/ (Priority[b] = Priority[c] /\ j < k)
    BY <1>4, <1>6, <2>1 DEF Before
  <2>3. Before(a, c, arr) <=> Priority[a] > Priority[c] \/ (Priority[a] = Priority[c] /\ i < k)
    BY <1>4, <1>5, <2>1 DEF Before
  <2> QED
    BY <1>2, <1>3, <1>7, <1>10, <2>2, <2>3
<1> QED
  BY <1>2, <1>3, <1>5, <1>6, <1>7, <1>8, <1>9, <1>10

(* A request that arrives last changes nothing between the others.         *)
LEMMA BeforeAppend ==
    ASSUME NEW arr \in Seq(Requests), NEW r \in Requests, NEW a, NEW b, Before(a, b, arr)
    PROVE  Before(a, b, Append(arr, r))
<1>1. /\ DOMAIN arr \subseteq DOMAIN Append(arr, r)
      /\ \A i \in DOMAIN arr : Append(arr, r)[i] = arr[i]
  OBVIOUS
<1> QED
  BY <1>1 DEF Before

(* Nor does one that goes.                                                 *)
LEMMA BeforeWithout ==
    ASSUME NEW arr \in Seq(Requests), IsInjective(arr), NEW r, NEW a, NEW b,
           a # r, b # r, Before(a, b, arr)
    PROVE  Before(a, b, Without(arr, r))
<1> DEFINE w == Without(arr, r)
<1>1. w \in Seq(Requests) /\ ToSet(w) = ToSet(arr) \ {r}
  BY WithoutProperties
<1>2. PICK at \in [1..Len(w) -> 1..Len(arr)] :
         /\ \A k \in 1..Len(w) : w[k] = arr[at[k]]
         /\ \A k, l \in 1..Len(w) : k < l => at[k] < at[l]
  BY WithoutOrder
<1> HIDE DEF w
<1>3. DOMAIN w = 1..Len(w) /\ DOMAIN arr = 1..Len(arr) /\ Len(w) \in Nat /\ Len(arr) \in Nat
  BY <1>1
<1>4. SUFFICES ASSUME NEW i \in DOMAIN arr, NEW j \in DOMAIN arr,
                      arr[i] = a, arr[j] = b, i < j
               PROVE  \E k, l \in DOMAIN w : w[k] = a /\ w[l] = b /\ k < l
  BY DEF Before, w
<1>5. a \in ToSet(w) /\ b \in ToSet(w)
  BY <1>1, <1>4 DEF ToSet
<1>6. PICK k \in DOMAIN w : w[k] = a
  BY <1>5 DEF ToSet
<1>7. PICK l \in DOMAIN w : w[l] = b
  BY <1>5 DEF ToSet
<1>8. at[k] \in DOMAIN arr /\ at[l] \in DOMAIN arr /\ arr[at[k]] = a /\ arr[at[l]] = b
  BY <1>2, <1>3, <1>6, <1>7
<1>9. at[k] = i /\ at[l] = j
  BY <1>4, <1>8 DEF IsInjective
<1>10. k # l /\ ~(l < k)
  BY <1>2, <1>3, <1>4, <1>8, <1>9
<1>11. k < l
  BY <1>3, <1>10
<1> QED
  BY <1>6, <1>7, <1>11

LEMMA SortedWithout ==
    ASSUME NEW q \in Seq(Requests), NEW arr, Sorted(q, arr), NEW r
    PROVE  Sorted(Without(q, r), arr)
<1> DEFINE w == Without(q, r)
<1>1. w \in Seq(Requests)
  BY WithoutProperties
<1>2. PICK at \in [1..Len(w) -> 1..Len(q)] :
         /\ \A k \in 1..Len(w) : w[k] = q[at[k]]
         /\ \A k, l \in 1..Len(w) : k < l => at[k] < at[l]
  BY WithoutOrder
<1> HIDE DEF w
<1>3. DOMAIN w = 1..Len(w) /\ DOMAIN q = 1..Len(q)
  BY <1>1
<1>4. ASSUME NEW k \in DOMAIN w, NEW l \in DOMAIN w, k < l
      PROVE  Before(w[k], w[l], arr)
  <2>1. at[k] \in DOMAIN q /\ at[l] \in DOMAIN q /\ at[k] < at[l]
    BY <1>2, <1>3, <1>4
  <2>2. Before(q[at[k]], q[at[l]], arr)
    BY <2>1 DEF Sorted
  <2> QED
    BY <1>2, <1>3, <2>2
<1> QED
  BY <1>4 DEF Sorted, w

(* A sorted queue has a place for one more request.                        *)
LEMMA InsertSorted ==
    ASSUME NEW arr \in Seq(Requests), IsInjective(arr), NEW q \in Seq(Requests), NEW r,
           ToSet(q) \cup {r} \subseteq ToSet(arr), r \notin ToSet(q), Sorted(q, arr)
    PROVE  \E t \in [1..(Len(q) + 1) -> ToSet(q) \cup {r}] :
              ToSet(t) = ToSet(q) \cup {r} /\ Sorted(t, arr)
<1> DEFINE n == Len(q)
           M == {m \in 1..(n + 1) : m = n + 1 \/ ~Before(q[m], r, arr)}
<1>1. n \in Nat /\ DOMAIN q = 1..n /\ \A i \in 1..n : q[i] \in ToSet(q)
  BY DEF ToSet
<1>2. M \subseteq Nat /\ n + 1 \in M
  BY <1>1
<1>3. PICK m \in M : \A x \in M : m <= x
  <2> HIDE DEF M
  <2> QED
    BY <1>2, NatMinimum
<1>4. m \in 1..(n + 1) /\ \A i \in 1..n : i < m => Before(q[i], r, arr)
  BY <1>1, <1>3
<1> HIDE DEF n
<1>5. \A i, j \in 1..n : i < j => Before(q[i], q[j], arr)
  BY <1>1 DEF Sorted
<1>6. ASSUME NEW i \in 1..n, i >= m PROVE Before(r, q[i], arr)
  <2>1. m \in 1..n /\ ~Before(q[m], r, arr)
    BY <1>1, <1>3, <1>4, <1>6
  <2>2. q[m] \in ToSet(arr) /\ q[i] \in ToSet(arr) /\ r \in ToSet(arr) /\ q[m] # r
    BY <1>1, <2>1
  <2>3. Before(r, q[m], arr)
    BY <2>1, <2>2, BeforeOrder
  <2>4. CASE i = m
    BY <2>3, <2>4
  <2>5. CASE i > m
    <3>1. Before(q[m], q[i], arr)
      BY <1>5, <2>1, <2>5
    <3> QED
      BY <2>2, <2>3, <3>1, BeforeOrder
  <2> QED
    BY <1>1, <1>4, <1>6, <2>4, <2>5
<1> DEFINE t == [i \in 1..(n + 1) |-> IF i < m THEN q[i] ELSE IF i = m THEN r ELSE q[i - 1]]
<1>7. t \in [1..(n + 1) -> ToSet(q) \cup {r}]
  <2> SUFFICES ASSUME NEW i \in 1..(n + 1)
               PROVE  (IF i < m THEN q[i] ELSE IF i = m THEN r ELSE q[i - 1]) \in ToSet(q) \cup {r}
    OBVIOUS
  <2>1. CASE i < m
    <3>1. i \in 1..n
      BY <1>1, <1>4, <2>1
    <3> QED
      BY <1>1, <2>1, <3>1
  <2>2. CASE i = m
    BY <2>2, <1>1, <1>4
  <2>3. CASE i > m
    <3>1. i - 1 \in 1..n
      BY <1>1, <1>4, <2>3
    <3> QED
      BY <1>1, <1>4, <2>3, <3>1
  <2> QED
    BY <1>1, <1>4, <2>1, <2>2, <2>3
<1>8. ToSet(t) = ToSet(q) \cup {r}
  <2>1. ToSet(t) \subseteq ToSet(q) \cup {r}
    BY <1>7 DEF ToSet
  <2>2. r \in ToSet(t)
    <3>1. t[m] = r /\ m \in DOMAIN t
      BY <1>1, <1>4
    <3> HIDE DEF t
    <3> QED
      BY <3>1 DEF ToSet
  <2>3. ASSUME NEW i \in 1..n PROVE q[i] \in ToSet(t)
    <3>1. CASE i < m
      <4>1. i \in DOMAIN t /\ t[i] = q[i]
        BY <1>1, <1>4, <3>1
      <4> HIDE DEF t
      <4> QED
        BY <4>1 DEF ToSet
    <3>2. CASE i >= m
      <4>1. i + 1 \in DOMAIN t /\ t[i + 1] = q[i]
        BY <1>1, <1>4, <3>2
      <4> HIDE DEF t
      <4> QED
        BY <4>1 DEF ToSet
    <3> QED
      BY <1>1, <1>4, <3>1, <3>2
  <2>4. ToSet(q) \subseteq ToSet(t)
    <3> HIDE DEF t
    <3> QED
      BY <1>1, <2>3 DEF ToSet
  <2> QED
    BY <2>1, <2>2, <2>4
<1>9. ASSUME NEW i \in 1..(n + 1), NEW j \in 1..(n + 1), i < j
      PROVE  Before(t[i], t[j], arr)
  <2>1. CASE j < m
    <3>1. i \in 1..n /\ j \in 1..n /\ t[i] = q[i] /\ t[j] = q[j]
      BY <1>1, <1>4, <1>9, <2>1
    <3> QED
      BY <1>5, <1>9, <3>1
  <2>2. CASE j = m
    <3>1. i \in 1..n /\ i < m /\ t[i] = q[i] /\ t[j] = r
      BY <1>1, <1>4, <1>9, <2>2
    <3> QED
      BY <1>4, <3>1
  <2>3. CASE i < m /\ j > m
    <3>1. i \in 1..n /\ j - 1 \in 1..n /\ i < j - 1 /\ t[i] = q[i] /\ t[j] = q[j - 1]
      BY <1>1, <1>4, <1>9, <2>3
    <3> QED
      BY <1>5, <3>1
  <2>4. CASE i = m
    <3>1. j - 1 \in 1..n /\ j - 1 >= m /\ t[i] = r /\ t[j] = q[j - 1]
      BY <1>1, <1>4, <1>9, <2>4
    <3> QED
      BY <1>6, <3>1
  <2>5. CASE i > m
    <3>1. i - 1 \in 1..n /\ j - 1 \in 1..n /\ i - 1 < j - 1 /\ t[i] = q[i - 1] /\ t[j] = q[j - 1]
      BY <1>1, <1>4, <1>9, <2>5
    <3> QED
      BY <1>5, <3>1
  <2> QED
    BY <1>1, <1>4, <1>9, <2>1, <2>2, <2>3, <2>4, <2>5
<1>10. Sorted(t, arr)
  <2>1. DOMAIN t = 1..(n + 1)
    OBVIOUS
  <2> HIDE DEF t
  <2> QED
    BY <1>9, <2>1 DEF Sorted
<1> HIDE DEF t
<1> QED
  BY <1>7, <1>8, <1>10 DEF n

(* push adds a request that is not queued, in its place.                   *)
LEMMA PushProperties ==
    ASSUME NEW arr \in Seq(Requests), IsInjective(arr),
           NEW q \in Seq(Requests), IsInjective(q), NEW r \in Requests,
           ToSet(q) \cup {r} \subseteq ToSet(arr), r \notin ToSet(q),
           Policy = "Priority" => Sorted(q, arr)
    PROVE  /\ Push(q, r, arr) \in Seq(Requests)
           /\ IsInjective(Push(q, r, arr))
           /\ ToSet(Push(q, r, arr)) = ToSet(q) \cup {r}
           /\ Policy = "Priority" => Sorted(Push(q, r, arr), arr)
<1> DEFINE e == Append(q, r)
<1>1. /\ e \in Seq(Requests) /\ Len(e) = Len(q) + 1 /\ IsInjective(e)
      /\ ToSet(e) = ToSet(q) \cup {r} /\ DOMAIN e = 1..(Len(q) + 1) /\ Len(q) \in Nat
  BY AppendDistinct
<1>2. Push(q, r, arr) = IF Policy = "FCFS" THEN e ELSE SortByPriority(e, arr)
  BY DEF Push
<1> HIDE DEF e
<1>3. CASE Policy = "FCFS"
  BY <1>1, <1>2, <1>3
<1>4. CASE Policy # "FCFS"
  <2>1. Policy = "Priority"
    BY <1>4, SchedulerAssumption
  <2> DEFINE t == SortByPriority(e, arr)
  <2>2. \E s \in [1..(Len(q) + 1) -> ToSet(q) \cup {r}] :
            ToSet(s) = ToSet(q) \cup {r} /\ Sorted(s, arr)
    BY <2>1, InsertSorted
  <2>3. \E s \in [DOMAIN e -> ToSet(e)] : ToSet(s) = ToSet(e) /\ Sorted(s, arr)
    BY <1>1, <2>2
  <2>4. t \in [DOMAIN e -> ToSet(e)] /\ ToSet(t) = ToSet(e) /\ Sorted(t, arr)
    BY <2>3 DEF SortByPriority
  <2> HIDE DEF t
  <2>5. ToSet(e) \subseteq Requests
    BY <1>1 DEF ToSet
  <2>6. t \in Seq(Requests)
    <3>1. t = [i \in 1..(Len(q) + 1) |-> t[i]] /\ \A i \in 1..(Len(q) + 1) : t[i] \in Requests
      BY <1>1, <2>4, <2>5
    <3>2. [i \in 1..(Len(q) + 1) |-> t[i]] \in Seq(Requests)
      BY <1>1, <3>1, IsASeq
    <3> QED
      BY <3>1, <3>2
  <2>7. IsInjective(t)
    <3> SUFFICES ASSUME NEW i \in DOMAIN t, NEW j \in DOMAIN t, t[i] = t[j], i < j
                 PROVE  FALSE
      BY <2>6 DEF IsInjective
    <3>1. Before(t[i], t[i], arr)
      BY <2>4 DEF Sorted
    <3>2. t[i] \in ToSet(arr)
      BY <1>1, <2>4
    <3> QED
      BY <3>1, <3>2, BeforeOrder
  <2> QED
    BY <1>1, <1>2, <1>4, <2>4, <2>6, <2>7 DEF t
<1> QED
  BY <1>3, <1>4

-----------------------------------------------------------------------------
(* The queues and the control of a step.                                   *)

RequestStates ==
    [computed : Nat, hit : BOOLEAN, status : {"waiting", "running", "finished_length"}]

IsOutput(o) ==
    o = [new |-> o.new, cached |-> o.cached, running |-> o.running,
         preempted |-> o.preempted, finished |-> o.finished,
         tokens |-> o.tokens, tables |-> o.tables, budget |-> o.budget]

TypesOK ==
    /\ DOMAIN requests \subseteq Requests
    /\ \A r \in DOMAIN requests : requests[r] \in RequestStates
    /\ waiting \in Seq(Requests) /\ running \in Seq(Requests) /\ arrived \in Seq(Requests)
    /\ todo \in Seq(Requests) /\ toPreempt \in Seq(Requests)
    /\ paused \in BOOLEAN /\ phase \in Phases /\ best \in Requests \cup {NoRequest}

(* Finished requests have left both queues; arrivals are known for sorting.*)
QueuesOK ==
    /\ NoRequestLost
    /\ finished \subseteq {r \in DOMAIN requests : requests[r].status = "finished_length"}
    /\ finished \cap ToSet(running) = {}
    /\ IsInjective(arrived) /\ ToSet(arrived) = DOMAIN requests
    /\ QueueOrdered

(* What a loop has yet to visit is still in the queue it was copied from.  *)
LoopOK ==
    /\ IsInjective(todo) /\ IsInjective(toPreempt)
    /\ phase \notin {"decode", "preempt"} => toPreempt = <<>>
    /\ phase = "decode" => /\ ToSet(todo) \subseteq ToSet(running)
                           /\ ToSet(todo) \cap ToSet(toPreempt) = {}
    /\ ToSet(toPreempt) \subseteq ToSet(running)
    /\ phase = "probe" => todo # <<>> /\ ToSet(todo) \subseteq ToSet(waiting)
    /\ phase \in {"probe", "admit"} => /\ best \in ToSet(waiting)
                                       /\ out.budget < MaxBudget
                                       /\ Len(running) < MaxNumSeqs

OutputOK ==
    /\ IsOutput(out)
    /\ out.new \in Seq(Requests) /\ out.cached \in Seq(Requests)
    /\ out.running \in Seq(Requests) /\ out.preempted \in Seq(Requests)
    /\ out.finished \in Seq(Requests) /\ out.budget \in Nat
    /\ phase = "idle" => out = EmptyOutput
    /\ phase = "finish" => /\ out.running = <<>> /\ out.tokens = NoKeys /\ out.tables = NoKeys
                           /\ out.budget = 0 /\ out.preempted = <<>>
    /\ phase \in {"finish", "decode", "preempt"} => out.new = <<>> /\ out.cached = <<>>

ControlInv == TypesOK /\ QueuesOK /\ LoopOK /\ OutputOK /\ SeqsRespected /\ BudgetOvershoot

LEMMA HeadTailDistinct ==
    ASSUME NEW S, NEW s \in Seq(S), s # <<>>, IsInjective(s)
    PROVE  /\ Head(s) \in ToSet(s) /\ Head(s) \in S
           /\ Tail(s) \in Seq(S) /\ IsInjective(Tail(s))
           /\ ToSet(Tail(s)) = ToSet(s) \ {Head(s)}
<1> DEFINE n == Len(s)
           t == Tail(s)
<1>1. n \in Nat /\ n > 0 /\ DOMAIN s = 1..n /\ Head(s) = s[1]
  BY EmptySeq
<1>2. t \in Seq(S) /\ DOMAIN t = 1..(n - 1) /\ \A i \in 1..(n - 1) : t[i] = s[i + 1]
  BY <1>1, HeadTailProperties
<1>3. \A i, j \in 1..n : s[i] = s[j] => i = j
  BY <1>1 DEF IsInjective
<1> HIDE DEF n, t
<1>4. IsInjective(t)
  <2> SUFFICES ASSUME NEW i \in 1..(n - 1), NEW j \in 1..(n - 1), t[i] = t[j] PROVE i = j
    BY <1>2 DEF IsInjective
  <2>1. i + 1 \in 1..n /\ j + 1 \in 1..n /\ s[i + 1] = s[j + 1]
    BY <1>1, <1>2
  <2> QED
    BY <1>1, <1>3, <2>1
<1>5. Head(s) \in ToSet(s) /\ Head(s) \in S
  BY <1>1 DEF ToSet
<1>6. ASSUME NEW i \in 1..(n - 1) PROVE t[i] \in ToSet(s) \ {Head(s)}
  <2>1. i + 1 \in 1..n /\ 1 \in 1..n /\ i + 1 # 1 /\ t[i] = s[i + 1]
    BY <1>1, <1>2
  <2> QED
    BY <1>1, <1>3, <2>1 DEF ToSet
<1>7. ASSUME NEW i \in 1..n, s[i] # Head(s) PROVE s[i] \in ToSet(t)
  <2>1. i - 1 \in 1..(n - 1) /\ t[i - 1] = s[i]
    BY <1>1, <1>2, <1>7
  <2> QED
    BY <1>2, <2>1 DEF ToSet
<1>8. ToSet(t) = ToSet(s) \ {Head(s)}
  <2>1. ToSet(t) \subseteq ToSet(s) \ {Head(s)}
    BY <1>2, <1>6 DEF ToSet
  <2>2. ToSet(s) \ {Head(s)} \subseteq ToSet(t)
    BY <1>1, <1>7 DEF ToSet
  <2> QED
    BY <2>1, <2>2
<1> QED
  BY <1>2, <1>4, <1>5, <1>8 DEF t

(* The blocks a lookup finds cover a prefix of the prompt.                 *)
LEMMA ComputedBlocksLength ==
    ASSUME NEW cache, NEW tokens, PromptOK(tokens), NEW skip
    PROVE  LET found == ComputedBlocks(cache, tokens, skip)
           IN  /\ Len(found) \in Nat /\ (Len(found) = 0 <=> found = <<>>)
               /\ Len(found) * BlockSize \in Nat
               /\ Len(found) * BlockSize <= Len(tokens)
<1> DEFINE hs == BlockHashes(tokens)
           n == HitLength(cache.pool, hs)
           found == ComputedBlocks(cache, tokens, skip)
           e(i) == CachedBlock(cache.pool, hs[i])
<1>1. Len(tokens) \in Nat /\ Len(hs) \in Nat
      /\ \A i \in 1..Len(hs) : i * BlockSize \in Nat /\ i * BlockSize <= Len(tokens)
  BY BlockHashesProperties
<1>2. n \in 0..Len(hs)
  <2> HIDE DEF hs
  <2> QED
    BY <1>1, HitLengthProperties
<1>3. CASE CacheRead(tokens, skip)
  <2>1. found = [i \in 1..n |-> e(i)]
    BY <1>3 DEF ComputedBlocks
  <2> DEFINE E == {e(i) : i \in 1..n}
  <2>2. \A i \in 1..n : e(i) \in E
    OBVIOUS
  <2> HIDE DEF found, e, E, n, hs
  <2>3. [i \in 1..n |-> e(i)] \in Seq(E)
    BY <1>1, <1>2, <2>2, IsASeq
  <2>4. found \in Seq(E) /\ DOMAIN found = 1..n
    BY <2>1, <2>3
  <2>5. Len(found) = n
    BY <1>1, <1>2, <2>4
  <2>6. n * BlockSize \in Nat /\ n * BlockSize <= Len(tokens)
    <3>1. CASE n = 0
      BY <1>1, <3>1, KVAssumption
    <3>2. CASE n # 0
      <4>1. n \in 1..Len(hs)
        BY <1>1, <1>2, <3>2
      <4> QED
        BY <1>1, <4>1
    <3> QED
      BY <3>1, <3>2
  <2> QED
    BY <2>4, <2>5, <2>6, EmptySeq DEF found
<1>4. CASE ~CacheRead(tokens, skip)
  <2>1. found = <<>>
    BY <1>4 DEF ComputedBlocks
  <2>2. Len(<<>>) = 0 /\ 0 * BlockSize = 0
    BY KVAssumption
  <2> QED
    BY <1>1, <2>1, <2>2
<1> QED
  BY <1>3, <1>4

LEMMA PromptsOK == ASSUME NEW r \in Requests PROVE PromptOK(Prompt[r])
BY SchedulerAssumption DEF PromptOK

LEMMA ProbedType ==
    ASSUME TypesOK, NEW r \in DOMAIN requests
    PROVE  /\ Probed(r) \in RequestStates
           /\ Probed(r).status = requests[r].status
<1> DEFINE found == ComputedBlocks(kv, Prompt[r], r \in SkipCache)
<1>1. requests[r] \in RequestStates /\ PromptOK(Prompt[r])
  BY PromptsOK DEF TypesOK
<1>2. Len(found) * BlockSize \in Nat
  BY <1>1, ComputedBlocksLength
<1>3. Probed(r) = IF ~EnablePrefixCaching \/ requests[r].hit THEN requests[r]
                  ELSE [requests[r] EXCEPT !.computed = Len(found) * BlockSize,
                                           !.hit = (found # <<>>)]
  BY DEF Probed
<1> HIDE DEF found
<1>4. (found # <<>>) \in BOOLEAN
  OBVIOUS
<1> DEFINE x == requests[r]
           c == Len(found) * BlockSize
           h == (found # <<>>)
<1>5. x \in RequestStates /\ c \in Nat /\ h \in BOOLEAN
  BY <1>1, <1>2
<1> HIDE DEF x, c, h
<1>6. [x EXCEPT !.computed = c, !.hit = h] \in RequestStates
      /\ [x EXCEPT !.computed = c, !.hit = h].status = x.status
  BY <1>5 DEF RequestStates
<1>7. Probed(r) = IF ~EnablePrefixCaching \/ x.hit THEN x
                  ELSE [x EXCEPT !.computed = c, !.hit = h]
  BY <1>3 DEF x, c, h
<1> QED
  BY <1>5, <1>6, <1>7 DEF x

(* The output of a step after a decode, and after an admission.            *)
OutDecoded(o, r, n, t) ==
    [o EXCEPT !.budget = @ + n, !.running = Append(@, r),
              !.tokens = Put(@, r, n), !.tables = Put(@, r, t)]

LEMMA DecodedOutput ==
    ASSUME NEW o, IsOutput(o), NEW r, NEW n, NEW t, NEW u,
           u = OutDecoded(o, r, n, t)
    PROVE  /\ IsOutput(u) /\ u.budget = o.budget + n /\ u.running = Append(o.running, r)
           /\ u.tokens = Put(o.tokens, r, n) /\ u.tables = Put(o.tables, r, t)
           /\ u.new = o.new /\ u.cached = o.cached
           /\ u.preempted = o.preempted /\ u.finished = o.finished
<1> DEFINE a == o.budget + n
           b == Append(o.running, r)
           c == Put(o.tokens, r, n)
           d == Put(o.tables, r, t)
<1>1. u = [[[[o EXCEPT !.budget = a] EXCEPT !.running = b] EXCEPT !.tokens = c] EXCEPT !.tables = d]
  BY DEF IsOutput, OutDecoded
<1> HIDE DEF a, b, c, d
<1>2. PICK n1, n2, n3, n4, n5, n6, n7, n8 :
        o = [new |-> n1, cached |-> n2, running |-> n3, preempted |-> n4,
             finished |-> n5, tokens |-> n6, tables |-> n7, budget |-> n8]
  BY Zenon DEF IsOutput
<1> DEFINE m0 == [new |-> n1, cached |-> n2, running |-> n3, preempted |-> n4,
                  finished |-> n5, tokens |-> n6, tables |-> n7, budget |-> n8]
           m1 == [new |-> n1, cached |-> n2, running |-> n3, preempted |-> n4,
                  finished |-> n5, tokens |-> n6, tables |-> n7, budget |-> a]
           m2 == [new |-> n1, cached |-> n2, running |-> b, preempted |-> n4,
                  finished |-> n5, tokens |-> n6, tables |-> n7, budget |-> a]
           m3 == [new |-> n1, cached |-> n2, running |-> b, preempted |-> n4,
                  finished |-> n5, tokens |-> c, tables |-> n7, budget |-> a]
           m4 == [new |-> n1, cached |-> n2, running |-> b, preempted |-> n4,
                  finished |-> n5, tokens |-> c, tables |-> d, budget |-> a]
<1>3. [m0 EXCEPT !.budget = a] = m1
  OBVIOUS
<1>4. [m1 EXCEPT !.running = b] = m2
  OBVIOUS
<1>5. [m2 EXCEPT !.tokens = c] = m3
  OBVIOUS
<1>6. [m3 EXCEPT !.tables = d] = m4
  OBVIOUS
<1>7. IsOutput(m4)
  BY DEF IsOutput
<1>8. /\ m4.new = n1 /\ m4.cached = n2 /\ m4.running = b /\ m4.preempted = n4
      /\ m4.finished = n5 /\ m4.tokens = c /\ m4.tables = d /\ m4.budget = a
  OBVIOUS
<1>9. /\ o.new = n1 /\ o.cached = n2 /\ o.running = n3 /\ o.preempted = n4
      /\ o.finished = n5 /\ o.tokens = n6 /\ o.tables = n7 /\ o.budget = n8
  BY <1>2
<1>10. o = m0
  BY <1>2
<1> HIDE DEF m0, m1, m2, m3, m4
<1>11. u = m4
  BY <1>1, <1>3, <1>4, <1>5, <1>6, <1>10
<1> QED
  BY <1>7, <1>8, <1>9, <1>11 DEF a, b, c, d

OutAdmitted(o, r, n, t) ==
    [o EXCEPT !.new = Append(@, r), !.tokens = Put(@, r, n),
              !.tables = Put(@, r, t), !.budget = @ + n]

LEMMA AdmittedOutput ==
    ASSUME NEW o, IsOutput(o), NEW r, NEW n, NEW t, NEW u,
           u = OutAdmitted(o, r, n, t)
    PROVE  /\ IsOutput(u) /\ u.budget = o.budget + n /\ u.new = Append(o.new, r)
           /\ u.tokens = Put(o.tokens, r, n) /\ u.tables = Put(o.tables, r, t)
           /\ u.running = o.running /\ u.cached = o.cached
           /\ u.preempted = o.preempted /\ u.finished = o.finished
<1> DEFINE b == Append(o.new, r)
           c == Put(o.tokens, r, n)
           d == Put(o.tables, r, t)
           a == o.budget + n
<1>1. u = [[[[o EXCEPT !.new = b] EXCEPT !.tokens = c] EXCEPT !.tables = d] EXCEPT !.budget = a]
  BY DEF IsOutput, OutAdmitted
<1> HIDE DEF a, b, c, d
<1>2. PICK n1, n2, n3, n4, n5, n6, n7, n8 :
        o = [new |-> n1, cached |-> n2, running |-> n3, preempted |-> n4,
             finished |-> n5, tokens |-> n6, tables |-> n7, budget |-> n8]
  BY Zenon DEF IsOutput
<1> DEFINE m0 == [new |-> n1, cached |-> n2, running |-> n3, preempted |-> n4,
                  finished |-> n5, tokens |-> n6, tables |-> n7, budget |-> n8]
           m1 == [new |-> b, cached |-> n2, running |-> n3, preempted |-> n4,
                  finished |-> n5, tokens |-> n6, tables |-> n7, budget |-> n8]
           m2 == [new |-> b, cached |-> n2, running |-> n3, preempted |-> n4,
                  finished |-> n5, tokens |-> c, tables |-> n7, budget |-> n8]
           m3 == [new |-> b, cached |-> n2, running |-> n3, preempted |-> n4,
                  finished |-> n5, tokens |-> c, tables |-> d, budget |-> n8]
           m4 == [new |-> b, cached |-> n2, running |-> n3, preempted |-> n4,
                  finished |-> n5, tokens |-> c, tables |-> d, budget |-> a]
<1>3. [m0 EXCEPT !.new = b] = m1
  OBVIOUS
<1>4. [m1 EXCEPT !.tokens = c] = m2
  OBVIOUS
<1>5. [m2 EXCEPT !.tables = d] = m3
  OBVIOUS
<1>6. [m3 EXCEPT !.budget = a] = m4
  OBVIOUS
<1>7. IsOutput(m4)
  BY DEF IsOutput
<1>8. /\ m4.new = b /\ m4.cached = n2 /\ m4.running = n3 /\ m4.preempted = n4
      /\ m4.finished = n5 /\ m4.tokens = c /\ m4.tables = d /\ m4.budget = a
  OBVIOUS
<1>9. /\ o.new = n1 /\ o.cached = n2 /\ o.running = n3 /\ o.preempted = n4
      /\ o.finished = n5 /\ o.tokens = n6 /\ o.tables = n7 /\ o.budget = n8
  BY <1>2
<1>10. o = m0
  BY <1>2
<1> HIDE DEF m0, m1, m2, m3, m4
<1>11. u = m4
  BY <1>1, <1>3, <1>4, <1>5, <1>6, <1>10
<1> QED
  BY <1>7, <1>8, <1>9, <1>11 DEF a, b, c, d

LEMMA ControlInit == Init => ControlInv
<1> SUFFICES ASSUME Init PROVE ControlInv
  OBVIOUS
<1> USE NoKeysEmpty
<1>1. IsInjective(<<>>) /\ ToSet(<<>>) = {} /\ Len(<<>>) = 0
  BY DEF IsInjective, ToSet
<1>2. TypesOK
  <2>1. DOMAIN requests = {} /\ <<>> \in Seq(Requests)
    BY DEF Init
  <2> QED
    BY <2>1 DEF Init, TypesOK, Phases
<1>3. QueuesOK
  BY <1>1 DEF Init, QueuesOK, NoRequestLost, QueueOrdered, Sorted
<1>4. LoopOK
  BY <1>1 DEF Init, LoopOK
<1>5. OutputOK
  BY DEF Init, OutputOK, IsOutput, EmptyOutput
<1>6. SeqsRespected /\ BudgetOvershoot
  BY <1>1, SchedulerAssumption DEF Init, SeqsRespected, BudgetOvershoot, EmptyOutput
<1> QED
  BY <1>2, <1>3, <1>4, <1>5, <1>6 DEF ControlInv

LEMMA SameQueues ==
    ASSUME QueuesOK, SeqsRespected, UNCHANGED <<requests, waiting, running, finished, arrived>>
    PROVE  QueuesOK' /\ SeqsRespected'
BY DEF QueuesOK, NoRequestLost, QueueOrdered, SeqsRespected

LEMMA SameOutput ==
    ASSUME OutputOK, BudgetOvershoot, UNCHANGED out, phase # "idle", phase' \notin {"idle", "finish"},
           phase' \in {"decode", "preempt"} => phase \in {"finish", "decode", "preempt"}
    PROVE  OutputOK' /\ BudgetOvershoot'
BY DEF OutputOK, IsOutput, BudgetOvershoot

LEMMA ControlIdle ==
    ASSUME ControlInv,
           Pause \/ Resume \/ ResetPrefixCacheCall \/ StepBegin \/ StepReturn \/ UNCHANGED vars
    PROVE  ControlInv'
<1> USE DEF ControlInv
<1>1. UNCHANGED <<requests, waiting, running, finished, arrived>>
  BY DEF Pause, Resume, ResetPrefixCacheCall, StepBegin, StepReturn, vars
<1>2. QueuesOK' /\ SeqsRespected'
  BY <1>1, SameQueues
<1>3. CASE Pause \/ Resume \/ ResetPrefixCacheCall \/ UNCHANGED vars
  <2>1. UNCHANGED <<phase, todo, toPreempt, best, out>> /\ paused' \in BOOLEAN
    BY <1>3 DEF Pause, Resume, ResetPrefixCacheCall, vars, stepVars, TypesOK
  <2>2. TypesOK'
    BY <1>1, <2>1 DEF TypesOK
  <2>3. LoopOK' /\ OutputOK' /\ BudgetOvershoot'
    BY <1>1, <2>1 DEF LoopOK, OutputOK, IsOutput, BudgetOvershoot
  <2> QED
    BY <1>2, <2>2, <2>3
<1>4. CASE StepBegin \/ StepReturn
  <2>1. /\ UNCHANGED <<paused, todo, toPreempt, best>> /\ out' = EmptyOutput
        /\ phase' \in {"done", "finish", "idle"} /\ phase \in {"idle", "done"}
    BY <1>4 DEF StepBegin, StepReturn
  <2>2. TypesOK'
    BY <1>1, <2>1 DEF TypesOK, Phases
  <2>3. LoopOK'
    BY <1>1, <2>1 DEF LoopOK
  <2>4. OutputOK'
    BY <2>1 DEF OutputOK, IsOutput, EmptyOutput
  <2>5. BudgetOvershoot'
    BY <2>1, SchedulerAssumption DEF BudgetOvershoot, EmptyOutput
  <2> QED
    BY <1>2, <2>2, <2>3, <2>4, <2>5
<1> QED
  BY <1>3, <1>4

LEMMA ControlMoves ==
    ASSUME ControlInv, FinishEnd \/ DecodeEnd \/ PreemptEnd \/ WaitingEnd \/ SelectBegin
    PROVE  ControlInv'
<1> USE DEF ControlInv
<1>0. IsInjective(<<>>) /\ ToSet(<<>>) = {} /\ <<>> \in Seq(Requests)
  BY DEF IsInjective, ToSet
<1>1. UNCHANGED <<requests, waiting, running, finished, arrived, paused, toPreempt, out>>
  BY DEF FinishEnd, DecodeEnd, PreemptEnd, WaitingEnd, SelectBegin
<1>2. QueuesOK' /\ SeqsRespected'
  BY <1>1, SameQueues
<1>3. OutputOK' /\ BudgetOvershoot'
  <2>1. /\ UNCHANGED out /\ phase # "idle" /\ phase' \notin {"idle", "finish"}
        /\ phase' \in {"decode", "preempt"} => phase \in {"finish", "decode", "preempt"}
    BY <1>1 DEF FinishEnd, DecodeEnd, PreemptEnd, WaitingEnd, SelectBegin
  <2> QED
    BY <2>1, SameOutput
<1>4. IsInjective(waiting) /\ IsInjective(running)
  BY DEF QueuesOK, NoRequestLost
<1>5. CASE FinishEnd
  <2>1. phase = "finish" /\ phase' = "decode" /\ todo' = running /\ best' = best
    BY <1>5 DEF FinishEnd
  <2>2. TypesOK'
    BY <1>1, <2>1 DEF TypesOK, Phases
  <2>3. LoopOK'
    BY <1>0, <1>1, <1>4, <2>1 DEF LoopOK
  <2> QED
    BY <1>2, <1>3, <2>2, <2>3
<1>6. CASE DecodeEnd
  <2>1. phase = "decode" /\ phase' = "preempt" /\ todo' = <<>> /\ best' = best
    BY <1>6 DEF DecodeEnd
  <2>2. TypesOK'
    BY <1>0, <1>1, <2>1 DEF TypesOK, Phases
  <2>3. LoopOK'
    BY <1>0, <1>1, <2>1 DEF LoopOK
  <2> QED
    BY <1>2, <1>3, <2>2, <2>3
<1>7. CASE PreemptEnd \/ WaitingEnd
  <2>1. /\ phase \in {"preempt", "select"} /\ phase' \in {"select", "done"}
        /\ toPreempt = <<>> /\ todo' = todo /\ best' = best
    BY <1>7 DEF PreemptEnd, WaitingEnd, LoopOK
  <2>2. TypesOK'
    BY <1>1, <2>1 DEF TypesOK, Phases
  <2>3. LoopOK'
    BY <1>0, <1>1, <2>1 DEF LoopOK
  <2> QED
    BY <1>2, <1>3, <2>2, <2>3
<1>8. CASE SelectBegin
  <2>1. /\ phase = "select" /\ phase' \in {"probe", "admit"} /\ best' = Head(waiting)
        /\ todo' = IF EnablePrefixCaching THEN waiting ELSE <<>>
        /\ phase' = "probe" => todo' = waiting
        /\ waiting # <<>> /\ out.budget < MaxBudget /\ Len(running) < MaxNumSeqs
    BY <1>8, KVAssumption DEF SelectBegin, MayAdmit
  <2>2. waiting \in Seq(Requests)
    BY DEF TypesOK
  <2>3. best' \in ToSet(waiting) /\ best' \in Requests
    BY <1>4, <2>1, <2>2, HeadTailDistinct
  <2>4. todo' \in Seq(Requests) /\ IsInjective(todo') /\ ToSet(todo') \subseteq ToSet(waiting)
    BY <1>0, <1>4, <2>1, <2>2
  <2>5. TypesOK'
    BY <1>1, <2>1, <2>3, <2>4 DEF TypesOK, Phases
  <2>6. LoopOK'
    BY <1>0, <1>1, <2>1, <2>3, <2>4 DEF LoopOK
  <2> QED
    BY <1>2, <1>3, <2>5, <2>6
<1> QED
  BY <1>5, <1>6, <1>7, <1>8

LEMMA ControlAdd ==
    ASSUME ControlInv, NEW r \in Requests, AddRequest(r)
    PROVE  ControlInv'
<1> USE DEF ControlInv
<1>1. /\ phase = "idle" /\ r \notin DOMAIN requests
      /\ requests' = Put(requests, r, NewRequest) /\ arrived' = Append(arrived, r)
      /\ waiting' = Push(waiting, r, Append(arrived, r))
      /\ UNCHANGED <<running, finished, paused, phase, todo, toPreempt, best, out>>
  BY DEF AddRequest, stepVars
<1>2. /\ DOMAIN requests' = DOMAIN requests \cup {r} /\ requests'[r] = NewRequest
      /\ \A x \in DOMAIN requests : requests'[x] = requests[x]
  BY <1>1 DEF Put
<1>3. /\ waiting \in Seq(Requests) /\ IsInjective(waiting)
      /\ arrived \in Seq(Requests) /\ IsInjective(arrived)
      /\ ToSet(arrived) = DOMAIN requests /\ ToSet(waiting) \subseteq DOMAIN requests
  BY DEF TypesOK, QueuesOK, NoRequestLost
<1>4. /\ arrived' \in Seq(Requests) /\ IsInjective(arrived')
      /\ ToSet(arrived') = ToSet(arrived) \cup {r}
  BY <1>1, <1>3, AppendDistinct
<1>5. Policy = "Priority" => Sorted(waiting, arrived')
  <2> SUFFICES ASSUME Policy = "Priority", NEW i \in DOMAIN waiting, NEW j \in DOMAIN waiting, i < j
               PROVE  Before(waiting[i], waiting[j], arrived')
    BY DEF Sorted
  <2>1. Before(waiting[i], waiting[j], arrived)
    BY DEF QueuesOK, QueueOrdered, Sorted
  <2> QED
    BY <1>1, <1>3, <2>1, BeforeAppend
<1>6. r \notin ToSet(waiting)
  BY <1>1, <1>3
<1>7. /\ waiting' \in Seq(Requests) /\ IsInjective(waiting')
      /\ ToSet(waiting') = ToSet(waiting) \cup {r}
      /\ Policy = "Priority" => Sorted(waiting', arrived')
  <2> DEFINE arr == Append(arrived, r)
  <2>1. /\ arr \in Seq(Requests) /\ IsInjective(arr)
        /\ ToSet(waiting) \cup {r} \subseteq ToSet(arr)
        /\ Policy = "Priority" => Sorted(waiting, arr)
    BY <1>1, <1>3, <1>4, <1>5
  <2>2. waiting' = Push(waiting, r, arr) /\ arrived' = arr
    BY <1>1
  <2> HIDE DEF arr
  <2> QED
    BY <1>3, <1>6, <2>1, <2>2, PushProperties
<1>8. NewRequest \in RequestStates /\ NewRequest.status = "waiting"
  BY DEF NewRequest, RequestStates
<1>9. TypesOK'
  BY <1>1, <1>2, <1>4, <1>7, <1>8 DEF TypesOK
<1>10. QueuesOK'
  <2>1. ToSet(waiting') = {x \in DOMAIN requests' : requests'[x].status = "waiting"}
    BY <1>2, <1>7, <1>8 DEF QueuesOK, NoRequestLost
  <2>2. NoRequestLost'
    BY <1>1, <1>2, <1>6, <1>7, <2>1 DEF QueuesOK, NoRequestLost
  <2>3. finished' \subseteq {x \in DOMAIN requests' : requests'[x].status = "finished_length"}
    BY <1>1, <1>2 DEF QueuesOK
  <2> QED
    BY <1>1, <1>2, <1>3, <1>4, <1>7, <2>2, <2>3 DEF QueuesOK, QueueOrdered
<1>11. LoopOK' /\ OutputOK' /\ SeqsRespected' /\ BudgetOvershoot'
  BY <1>1 DEF LoopOK, OutputOK, IsOutput, SeqsRespected, BudgetOvershoot
<1> QED
  BY <1>9, <1>10, <1>11

(* abort_request leaves the queues of the others as they were.             *)
LEMMA ForgetQueues ==
    ASSUME TypesOK, QueuesOK, SeqsRespected, NEW r, Forget(r)
    PROVE  /\ DOMAIN requests' = DOMAIN requests \ {r}
           /\ \A x \in DOMAIN requests' : requests'[x] = requests[x]
           /\ waiting' \in Seq(Requests) /\ running' \in Seq(Requests)
           /\ arrived' \in Seq(Requests) /\ QueuesOK' /\ SeqsRespected'
<1>1. /\ waiting' = Without(waiting, r) /\ running' = Without(running, r)
      /\ finished' = finished \ {r} /\ requests' = Drop(requests, r)
      /\ arrived' = Without(arrived, r)
  BY DEF Forget
<1>2. /\ DOMAIN requests' = DOMAIN requests \ {r}
      /\ \A x \in DOMAIN requests' : requests'[x] = requests[x]
  BY <1>1 DEF Drop, Restrict
<1>3. /\ waiting \in Seq(Requests) /\ IsInjective(waiting)
      /\ running \in Seq(Requests) /\ IsInjective(running)
      /\ arrived \in Seq(Requests) /\ IsInjective(arrived)
      /\ ToSet(arrived) = DOMAIN requests /\ ToSet(waiting) \subseteq DOMAIN requests
  BY DEF TypesOK, QueuesOK, NoRequestLost
<1>4. /\ waiting' \in Seq(Requests) /\ IsInjective(waiting')
      /\ ToSet(waiting') = ToSet(waiting) \ {r}
  BY <1>1, <1>3, WithoutDistinct
<1>5. /\ running' \in Seq(Requests) /\ IsInjective(running')
      /\ ToSet(running') = ToSet(running) \ {r}
      /\ Len(running') <= Len(running) /\ Len(running') \in Nat /\ Len(running) \in Nat
  BY <1>1, <1>3, WithoutDistinct
<1>6. /\ arrived' \in Seq(Requests) /\ IsInjective(arrived')
      /\ ToSet(arrived') = ToSet(arrived) \ {r}
  BY <1>1, <1>3, WithoutDistinct
<1>7. ASSUME Policy = "Priority" PROVE Sorted(waiting', arrived')
  <2>1. Sorted(Without(waiting, r), arrived)
    BY <1>3, <1>7, SortedWithout DEF QueuesOK, QueueOrdered
  <2>2. ASSUME NEW i \in DOMAIN waiting', NEW j \in DOMAIN waiting', i < j
        PROVE  Before(waiting'[i], waiting'[j], arrived')
    <3>1. waiting'[i] # r /\ waiting'[j] # r
      BY <1>4 DEF ToSet
    <3>2. Before(waiting'[i], waiting'[j], arrived)
      BY <1>1, <2>1, <2>2 DEF Sorted
    <3> QED
      BY <1>1, <1>3, <3>1, <3>2, BeforeWithout
  <2> QED
    BY <2>2 DEF Sorted
<1>8. NoRequestLost'
  BY <1>1, <1>2, <1>4, <1>5 DEF QueuesOK, NoRequestLost
<1>9. finished' \subseteq {x \in DOMAIN requests' : requests'[x].status = "finished_length"}
  BY <1>1, <1>2 DEF QueuesOK
<1>10. QueuesOK'
  BY <1>1, <1>2, <1>3, <1>5, <1>6, <1>7, <1>8, <1>9 DEF QueuesOK, QueueOrdered
<1>11. SeqsRespected'
  BY <1>5, SchedulerAssumption DEF SeqsRespected
<1> QED
  BY <1>2, <1>4, <1>5, <1>6, <1>10, <1>11

LEMMA ControlAbort ==
    ASSUME ControlInv, NEW r \in Requests, AbortRequest(r)
    PROVE  ControlInv'
<1> USE DEF ControlInv
<1>1. /\ phase = "idle" /\ Forget(r)
      /\ UNCHANGED <<paused, phase, todo, toPreempt, best, out>>
  BY DEF AbortRequest, stepVars
<1>2. /\ DOMAIN requests' = DOMAIN requests \ {r}
      /\ \A x \in DOMAIN requests' : requests'[x] = requests[x]
      /\ waiting' \in Seq(Requests) /\ running' \in Seq(Requests)
      /\ arrived' \in Seq(Requests) /\ QueuesOK' /\ SeqsRespected'
  BY <1>1, ForgetQueues
<1>3. TypesOK'
  BY <1>1, <1>2 DEF TypesOK
<1>4. LoopOK'
  <2>1. toPreempt = <<>> /\ ToSet(<<>>) = {}
    BY <1>1 DEF LoopOK, ToSet
  <2> QED
    BY <1>1, <2>1 DEF LoopOK
<1>5. OutputOK' /\ BudgetOvershoot'
  BY <1>1 DEF OutputOK, IsOutput, BudgetOvershoot
<1> QED
  BY <1>2, <1>3, <1>4, <1>5

(* One field of the output changes.                                        *)
OutFinished(o, r) ==
    [o EXCEPT !.finished = Append(@, r)]

LEMMA FinishedOutput ==
    ASSUME NEW o, IsOutput(o), NEW r, NEW u,
           u = OutFinished(o, r)
    PROVE  /\ IsOutput(u) /\ u.finished = Append(o.finished, r)
           /\ u.new = o.new /\ u.cached = o.cached /\ u.running = o.running
           /\ u.preempted = o.preempted /\ u.tokens = o.tokens
           /\ u.tables = o.tables /\ u.budget = o.budget
<1> PICK n1, n2, n3, n4, n5, n6, n7, n8 :
        o = [new |-> n1, cached |-> n2, running |-> n3, preempted |-> n4,
             finished |-> n5, tokens |-> n6, tables |-> n7, budget |-> n8]
  BY Zenon DEF IsOutput
<1> QED
  BY DEF IsOutput, OutFinished

OutPreempted(o, r) ==
    [o EXCEPT !.preempted = Append(@, r)]

LEMMA PreemptedOutput ==
    ASSUME NEW o, IsOutput(o), NEW r, NEW u,
           u = OutPreempted(o, r)
    PROVE  /\ IsOutput(u) /\ u.preempted = Append(o.preempted, r)
           /\ u.new = o.new /\ u.cached = o.cached /\ u.running = o.running
           /\ u.finished = o.finished /\ u.tokens = o.tokens
           /\ u.tables = o.tables /\ u.budget = o.budget
<1> PICK n1, n2, n3, n4, n5, n6, n7, n8 :
        o = [new |-> n1, cached |-> n2, running |-> n3, preempted |-> n4,
             finished |-> n5, tokens |-> n6, tables |-> n7, budget |-> n8]
  BY Zenon DEF IsOutput
<1> QED
  BY DEF IsOutput, OutPreempted

OutCached(o, r) ==
    [o EXCEPT !.cached = Append(@, r)]

LEMMA CachedOutput ==
    ASSUME NEW o, IsOutput(o), NEW r, NEW u,
           u = OutCached(o, r)
    PROVE  /\ IsOutput(u) /\ u.cached = Append(o.cached, r)
           /\ u.new = o.new /\ u.running = o.running /\ u.preempted = o.preempted
           /\ u.finished = o.finished /\ u.tokens = o.tokens
           /\ u.tables = o.tables /\ u.budget = o.budget
<1> PICK n1, n2, n3, n4, n5, n6, n7, n8 :
        o = [new |-> n1, cached |-> n2, running |-> n3, preempted |-> n4,
             finished |-> n5, tokens |-> n6, tables |-> n7, budget |-> n8]
  BY Zenon DEF IsOutput
<1> QED
  BY DEF IsOutput, OutCached

LEMMA ControlFinish ==
    ASSUME ControlInv, NEW r \in Requests, FinishOne(r)
    PROVE  ControlInv'
<1> USE DEF ControlInv
<1>1. /\ phase = "finish" /\ r \in DOMAIN requests /\ requests[r].status = "finished_length"
      /\ running' = Without(running, r) /\ waiting' = Without(waiting, r)
      /\ finished' = finished \cup {r}
      /\ out' = [out EXCEPT !.finished = Append(@, r)]
      /\ UNCHANGED <<requests, paused, arrived, phase, todo, toPreempt, best>>
  BY DEF FinishOne, Unprocessed, IsFinished
<1>2. /\ waiting \in Seq(Requests) /\ IsInjective(waiting)
      /\ running \in Seq(Requests) /\ IsInjective(running)
      /\ ToSet(waiting) = {x \in DOMAIN requests : requests[x].status = "waiting"}
  BY DEF TypesOK, QueuesOK, NoRequestLost
<1>3. /\ waiting' \in Seq(Requests) /\ IsInjective(waiting')
      /\ ToSet(waiting') = ToSet(waiting) \ {r}
  BY <1>1, <1>2, WithoutDistinct
<1>4. /\ running' \in Seq(Requests) /\ IsInjective(running')
      /\ ToSet(running') = ToSet(running) \ {r}
      /\ Len(running') <= Len(running) /\ Len(running') \in Nat /\ Len(running) \in Nat
  BY <1>1, <1>2, WithoutDistinct
<1>5. r \notin ToSet(waiting)
  BY <1>1, <1>2
<1>6. TypesOK'
  BY <1>1, <1>3, <1>4 DEF TypesOK
<1>7. QueuesOK'
  <2>1. NoRequestLost'
    BY <1>1, <1>3, <1>4, <1>5 DEF QueuesOK, NoRequestLost
  <2>2. QueueOrdered'
    BY <1>1, <1>2, SortedWithout DEF QueuesOK, QueueOrdered
  <2>3. finished' \subseteq {x \in DOMAIN requests' : requests'[x].status = "finished_length"}
    BY <1>1 DEF QueuesOK
  <2> QED
    BY <1>1, <1>4, <2>1, <2>2, <2>3 DEF QueuesOK
<1>8. LoopOK'
  <2>1. toPreempt = <<>> /\ ToSet(<<>>) = {}
    BY <1>1 DEF LoopOK, ToSet
  <2> QED
    BY <1>1, <2>1 DEF LoopOK
<1>9. /\ IsOutput(out') /\ out'.finished = Append(out.finished, r)
      /\ out'.new = out.new /\ out'.cached = out.cached /\ out'.running = out.running
      /\ out'.preempted = out.preempted /\ out'.tokens = out.tokens
      /\ out'.tables = out.tables /\ out'.budget = out.budget
  <2>1. IsOutput(out)
    BY DEF OutputOK
  <2>2. out' = OutFinished(out, r)
    BY <1>1 DEF OutFinished
  <2> QED
    BY <2>1, <2>2, FinishedOutput
<1>10. OutputOK'
  BY <1>1, <1>9 DEF OutputOK
<1>11. SeqsRespected' /\ BudgetOvershoot'
  BY <1>4, <1>9, SchedulerAssumption DEF SeqsRespected, BudgetOvershoot
<1> QED
  BY <1>6, <1>7, <1>8, <1>10, <1>11

(* The request schedule_running visits next.                               *)
LEMMA DecodingHead ==
    ASSUME ControlInv, NEW r \in Requests, Decoding(r)
    PROVE  /\ phase = "decode" /\ out.budget < MaxBudget
           /\ r \in ToSet(running) /\ r \in DOMAIN requests /\ r \notin ToSet(waiting)
           /\ r \notin ToSet(toPreempt) /\ r \notin finished
           /\ todo' \in Seq(Requests) /\ IsInjective(todo')
           /\ ToSet(todo') = ToSet(todo) \ {r}
           /\ requests[r] \in RequestStates
<1> USE DEF ControlInv
<1>1. /\ phase = "decode" /\ out.budget < MaxBudget
      /\ todo # <<>> /\ r = Head(todo) /\ todo' = Tail(todo)
  BY DEF Decoding
<1>2. todo \in Seq(Requests) /\ IsInjective(todo)
  BY DEF TypesOK, LoopOK
<1>3. /\ r \in ToSet(todo) /\ todo' \in Seq(Requests) /\ IsInjective(todo')
      /\ ToSet(todo') = ToSet(todo) \ {r}
  BY <1>1, <1>2, HeadTailDistinct
<1>4. r \in ToSet(running) /\ r \notin ToSet(toPreempt)
  BY <1>1, <1>3 DEF LoopOK
<1>5. r \in DOMAIN requests /\ r \notin ToSet(waiting) /\ r \notin finished
  BY <1>4 DEF QueuesOK, NoRequestLost
<1> QED
  BY <1>1, <1>3, <1>4, <1>5 DEF TypesOK

(* A decode changes nothing but the state of the request.                  *)
LEMMA DecodedRequest ==
    ASSUME ControlInv, NEW r \in Requests, Decoding(r), NEW x,
           x \in RequestStates, x.status # "waiting",
           requests' = [requests EXCEPT ![r] = x], toPreempt' \in Seq(Requests),
           UNCHANGED <<waiting, running, finished, paused, arrived, phase, best>>
    PROVE  TypesOK' /\ QueuesOK' /\ SeqsRespected'
<1> USE DEF ControlInv
<1>1. /\ r \in DOMAIN requests /\ r \notin ToSet(waiting) /\ r \notin finished
      /\ todo' \in Seq(Requests)
  BY DecodingHead
<1>2. DOMAIN requests' = DOMAIN requests /\ requests'[r] = x
      /\ \A y \in DOMAIN requests : y # r => requests'[y] = requests[y]
  BY <1>1
<1>3. QueuesOK'
  <2>1. ToSet(waiting) = {y \in DOMAIN requests' : requests'[y].status = "waiting"}
    BY <1>1, <1>2 DEF QueuesOK, NoRequestLost
  <2>2. NoRequestLost'
    BY <1>2, <2>1 DEF QueuesOK, NoRequestLost
  <2>3. finished' \subseteq {y \in DOMAIN requests' : requests'[y].status = "finished_length"}
    BY <1>1, <1>2 DEF QueuesOK
  <2> QED
    BY <1>2, <2>2, <2>3 DEF QueuesOK, QueueOrdered
<1>4. SeqsRespected'
  BY DEF SeqsRespected
<1> QED
  BY <1>1, <1>2, <1>3, <1>4 DEF TypesOK

LEMMA ControlDecodeLength ==
    ASSUME ControlInv, NEW r \in Requests, DecodeLength(r)
    PROVE  ControlInv'
<1> USE DEF ControlInv
<1>1. /\ Decoding(r) /\ requests' = [requests EXCEPT ![r].status = "finished_length"]
      /\ UNCHANGED <<waiting, running, finished, paused, arrived, phase, toPreempt, best, out>>
  BY DEF DecodeLength
<1>2. /\ phase = "decode" /\ r \in DOMAIN requests /\ requests[r] \in RequestStates
      /\ IsInjective(todo') /\ ToSet(todo') = ToSet(todo) \ {r}
  BY <1>1, DecodingHead
<1> DEFINE x == [requests[r] EXCEPT !.status = "finished_length"]
<1>3. x \in RequestStates /\ x.status # "waiting" /\ requests' = [requests EXCEPT ![r] = x]
  BY <1>1, <1>2 DEF RequestStates
<1> HIDE DEF x
<1>4. toPreempt' \in Seq(Requests)
  BY <1>1 DEF TypesOK
<1>5. TypesOK' /\ QueuesOK' /\ SeqsRespected'
  BY <1>1, <1>3, <1>4, DecodedRequest
<1>6. LoopOK'
  BY <1>1, <1>2 DEF LoopOK
<1>7. OutputOK' /\ BudgetOvershoot'
  BY <1>1, <1>2, SameOutput
<1> QED
  BY <1>5, <1>6, <1>7

LEMMA ControlDecodeSchedule ==
    ASSUME ControlInv, NEW r \in Requests, DecodeSchedule(r)
    PROVE  ControlInv'
<1> USE DEF ControlInv
<1> DEFINE n == DecodeTokens(r)
           c == requests[r].computed
           t == Table(kv', r)
<1>1. /\ Decoding(r) /\ requests' = [requests EXCEPT ![r].computed = c + n]
      /\ out' = [out EXCEPT !.budget = @ + n, !.running = Append(@, r),
                            !.tokens = Put(@, r, n), !.tables = Put(@, r, t)]
      /\ UNCHANGED <<waiting, running, finished, paused, arrived, phase, toPreempt, best>>
  BY DEF DecodeSchedule
<1>2. /\ phase = "decode" /\ r \in DOMAIN requests /\ requests[r] \in RequestStates
      /\ IsInjective(todo') /\ ToSet(todo') = ToSet(todo) \ {r} /\ out.budget < MaxBudget
      /\ r \in ToSet(running) /\ r \notin ToSet(waiting)
  BY <1>1, DecodingHead
<1>3. n \in Nat /\ SpecTokens[r] \in Nat /\ n = 1 + SpecTokens[r]
  BY SchedulerAssumption DEF DecodeTokens
<1> HIDE DEF n, t
<1> DEFINE x == [requests[r] EXCEPT !.computed = c + n]
<1>4. /\ c + n \in Nat /\ x \in RequestStates /\ x.status = requests[r].status
      /\ requests' = [requests EXCEPT ![r] = x]
  BY <1>1, <1>2, <1>3 DEF RequestStates
<1>5. x.status # "waiting"
  BY <1>2, <1>4 DEF QueuesOK, NoRequestLost
<1> HIDE DEF x
<1>6. toPreempt' \in Seq(Requests)
  BY <1>1 DEF TypesOK
<1>7. TypesOK' /\ QueuesOK' /\ SeqsRespected'
  BY <1>1, <1>4, <1>5, <1>6, DecodedRequest
<1>8. LoopOK'
  BY <1>1, <1>2 DEF LoopOK
<1>9. /\ IsOutput(out') /\ out'.budget = out.budget + n /\ out'.running = Append(out.running, r)
      /\ out'.tokens = Put(out.tokens, r, n) /\ out'.tables = Put(out.tables, r, t)
      /\ out'.new = out.new /\ out'.cached = out.cached
      /\ out'.preempted = out.preempted /\ out'.finished = out.finished
  <2>1. IsOutput(out)
    BY DEF OutputOK
  <2>2. out' = OutDecoded(out, r, n, t)
    BY <1>1 DEF OutDecoded
  <2> QED
    BY <2>1, <2>2, DecodedOutput
<1>10. /\ out.new = <<>> /\ out.cached = <<>> /\ out.running \in Seq(Requests)
       /\ out.budget \in Nat
  BY <1>2 DEF OutputOK
<1>11. OutputOK'
  <2>1. out.budget + n \in Nat /\ Append(out.running, r) \in Seq(Requests)
    BY <1>3, <1>10
  <2> QED
    BY <1>1, <1>2, <1>9, <1>10, <2>1 DEF OutputOK
<1>12. BudgetOvershoot'
  <2>1. Last(Append(out.running, r)) = r
    BY <1>10 DEF Last
  <2>2. out.budget + n - MaxBudget <= SpecTokens[r]
    BY <1>2, <1>3, <1>10, SchedulerAssumption
  <2>3. out'.new = <<>>
    BY <1>9, <1>10
  <2>4. Last(out'.running) = r
    BY <1>9, <2>1, Zenon
  <2>5. out'.budget - MaxBudget <= SpecTokens[r]
    BY <1>3, <1>9, <1>10, <2>2, SchedulerAssumption
  <2> QED
    BY <2>3, <2>4, <2>5 DEF BudgetOvershoot
<1> QED
  BY <1>7, <1>8, <1>11, <1>12

LEMMA ControlDecodeFail ==
    ASSUME ControlInv, NEW r \in Requests, DecodeFail(r)
    PROVE  ControlInv'
<1> USE DEF ControlInv
<1>1. /\ Decoding(r) /\ toPreempt' = Append(toPreempt, r)
      /\ UNCHANGED <<requests, waiting, running, finished, paused, arrived, phase, best, out>>
  BY DEF DecodeFail
<1>2. /\ phase = "decode" /\ r \in ToSet(running) /\ r \notin ToSet(toPreempt)
      /\ todo' \in Seq(Requests) /\ IsInjective(todo') /\ ToSet(todo') = ToSet(todo) \ {r}
  BY <1>1, DecodingHead
<1>3. toPreempt \in Seq(Requests) /\ IsInjective(toPreempt)
  BY DEF TypesOK, LoopOK
<1>4. /\ toPreempt' \in Seq(Requests) /\ IsInjective(toPreempt')
      /\ ToSet(toPreempt') = ToSet(toPreempt) \cup {r}
  BY <1>1, <1>2, <1>3, AppendDistinct
<1>5. TypesOK'
  BY <1>1, <1>2, <1>4 DEF TypesOK
<1>6. LoopOK'
  BY <1>1, <1>2, <1>4 DEF LoopOK
<1>7. OutputOK' /\ BudgetOvershoot'
  BY <1>1, <1>2, SameOutput
<1>8. QueuesOK' /\ SeqsRespected'
  BY <1>1, SameQueues
<1> QED
  BY <1>5, <1>6, <1>7, <1>8

LEMMA ControlPreempt ==
    ASSUME ControlInv, NEW r \in Requests, PreemptRequest(r)
    PROVE  ControlInv'
<1> USE DEF ControlInv
<1>1. /\ phase = "preempt" /\ toPreempt # <<>> /\ r = Head(toPreempt)
      /\ toPreempt' = Tail(toPreempt) /\ running' = Without(running, r)
      /\ requests' = [requests EXCEPT ![r] = NewRequest]
      /\ waiting' = Push(waiting, r, arrived)
      /\ out' = [out EXCEPT !.preempted = Append(@, r)]
      /\ UNCHANGED <<finished, paused, arrived, phase, todo, best>>
  BY DEF PreemptRequest
<1>2. toPreempt \in Seq(Requests) /\ IsInjective(toPreempt)
  BY DEF TypesOK, LoopOK
<1>3. /\ r \in ToSet(toPreempt) /\ toPreempt' \in Seq(Requests) /\ IsInjective(toPreempt')
      /\ ToSet(toPreempt') = ToSet(toPreempt) \ {r}
  BY <1>1, <1>2, HeadTailDistinct
<1>4. r \in ToSet(running) /\ ToSet(toPreempt) \subseteq ToSet(running)
  BY <1>3 DEF LoopOK
<1>5. r \in DOMAIN requests /\ r \notin ToSet(waiting) /\ r \notin finished
  BY <1>4 DEF QueuesOK, NoRequestLost
<1>6. /\ waiting \in Seq(Requests) /\ IsInjective(waiting)
      /\ running \in Seq(Requests) /\ IsInjective(running)
      /\ arrived \in Seq(Requests) /\ IsInjective(arrived)
      /\ ToSet(arrived) = DOMAIN requests
      /\ ToSet(waiting) = {x \in DOMAIN requests : requests[x].status = "waiting"}
      /\ Policy = "Priority" => Sorted(waiting, arrived)
  BY DEF TypesOK, QueuesOK, NoRequestLost, QueueOrdered
<1>7. /\ running' \in Seq(Requests) /\ IsInjective(running')
      /\ ToSet(running') = ToSet(running) \ {r}
      /\ Len(running') <= Len(running) /\ Len(running') \in Nat /\ Len(running) \in Nat
  BY <1>1, <1>6, WithoutDistinct
<1>8. /\ waiting' \in Seq(Requests) /\ IsInjective(waiting')
      /\ ToSet(waiting') = ToSet(waiting) \cup {r}
      /\ Policy = "Priority" => Sorted(waiting', arrived)
  <2>1. ToSet(waiting) \cup {r} \subseteq ToSet(arrived)
    BY <1>5, <1>6
  <2> QED
    BY <1>1, <1>5, <1>6, <2>1, PushProperties
<1>9. NewRequest \in RequestStates /\ NewRequest.status = "waiting"
  BY DEF NewRequest, RequestStates
<1>10. /\ DOMAIN requests' = DOMAIN requests /\ requests'[r] = NewRequest
       /\ \A x \in DOMAIN requests : x # r => requests'[x] = requests[x]
  BY <1>1, <1>5
<1>11. TypesOK'
  BY <1>1, <1>3, <1>7, <1>8, <1>9, <1>10 DEF TypesOK
<1>12. QueuesOK'
  <2>1. ToSet(waiting') = {x \in DOMAIN requests' : requests'[x].status = "waiting"}
    BY <1>5, <1>6, <1>8, <1>9, <1>10
  <2>2. NoRequestLost'
    BY <1>1, <1>7, <1>8, <1>10, <2>1 DEF QueuesOK, NoRequestLost
  <2>3. finished' \subseteq {x \in DOMAIN requests' : requests'[x].status = "finished_length"}
    BY <1>1, <1>5, <1>10 DEF QueuesOK
  <2> QED
    BY <1>1, <1>7, <1>8, <1>10, <2>2, <2>3 DEF QueuesOK, QueueOrdered
<1>13. LoopOK'
  BY <1>1, <1>3, <1>4, <1>7 DEF LoopOK
<1>14. /\ IsOutput(out') /\ out'.preempted = Append(out.preempted, r)
       /\ out'.new = out.new /\ out'.cached = out.cached /\ out'.running = out.running
       /\ out'.finished = out.finished /\ out'.tokens = out.tokens
       /\ out'.tables = out.tables /\ out'.budget = out.budget
  <2>1. IsOutput(out)
    BY DEF OutputOK
  <2>2. out' = OutPreempted(out, r)
    BY <1>1 DEF OutPreempted
  <2> QED
    BY <2>1, <2>2, PreemptedOutput
<1>15. OutputOK'
  <2>1. Append(out.preempted, r) \in Seq(Requests)
    BY DEF OutputOK
  <2> QED
    BY <1>1, <1>14, <2>1 DEF OutputOK
<1>16. SeqsRespected' /\ BudgetOvershoot'
  BY <1>7, <1>14, SchedulerAssumption DEF SeqsRespected, BudgetOvershoot
<1> QED
  BY <1>11, <1>12, <1>13, <1>15, <1>16

(* A lookup changes the state of a request and no queue.                   *)
LEMMA ProbedQueues ==
    ASSUME TypesOK, QueuesOK, SeqsRespected, NEW r \in DOMAIN requests,
           requests' = [requests EXCEPT ![r] = Probed(r)],
           UNCHANGED <<waiting, running, finished, arrived>>
    PROVE  /\ DOMAIN requests' = DOMAIN requests
           /\ \A x \in DOMAIN requests' : requests'[x] \in RequestStates
           /\ QueuesOK' /\ SeqsRespected'
<1>1. Probed(r) \in RequestStates /\ Probed(r).status = requests[r].status
  BY ProbedType
<1>2. /\ DOMAIN requests' = DOMAIN requests /\ requests'[r] = Probed(r)
      /\ \A x \in DOMAIN requests : x # r => requests'[x] = requests[x]
  OBVIOUS
<1>3. \A x \in DOMAIN requests : requests'[x].status = requests[x].status
  BY <1>1, <1>2
<1>4. NoRequestLost'
  BY <1>2, <1>3 DEF QueuesOK, NoRequestLost
<1>5. finished' \subseteq {x \in DOMAIN requests' : requests'[x].status = "finished_length"}
  BY <1>2, <1>3 DEF QueuesOK
<1>6. QueuesOK' /\ SeqsRespected'
  BY <1>2, <1>4, <1>5 DEF QueuesOK, QueueOrdered, SeqsRespected
<1> QED
  BY <1>1, <1>2, <1>6 DEF TypesOK

LEMMA ControlProbe ==
    ASSUME ControlInv, NEW r \in Requests, Probe(r)
    PROVE  ControlInv'
<1> USE DEF ControlInv
<1>1. /\ phase = "probe" /\ r = Head(todo) /\ todo' = Tail(todo)
      /\ phase' = IF Tail(todo) = <<>> THEN "admit" ELSE "probe"
      /\ requests' = [requests EXCEPT ![r] = Probed(r)] /\ best' \in {r, best}
      /\ UNCHANGED <<waiting, running, finished, paused, arrived, toPreempt, out>>
  BY DEF Probe
<1>2. /\ todo \in Seq(Requests) /\ IsInjective(todo) /\ todo # <<>>
      /\ ToSet(todo) \subseteq ToSet(waiting) /\ best \in ToSet(waiting)
  BY <1>1 DEF TypesOK, LoopOK
<1>3. /\ r \in ToSet(todo) /\ todo' \in Seq(Requests) /\ IsInjective(todo')
      /\ ToSet(todo') = ToSet(todo) \ {r}
  BY <1>1, <1>2, HeadTailDistinct
<1>4. r \in ToSet(waiting) /\ r \in DOMAIN requests
  BY <1>2, <1>3 DEF QueuesOK, NoRequestLost
<1>5. /\ DOMAIN requests' = DOMAIN requests
      /\ \A x \in DOMAIN requests' : requests'[x] \in RequestStates
      /\ QueuesOK' /\ SeqsRespected'
  BY <1>1, <1>4, ProbedQueues
<1>6. TypesOK'
  BY <1>1, <1>3, <1>5 DEF TypesOK, Phases
<1>7. LoopOK'
  <2>1. toPreempt = <<>>
    BY <1>1 DEF LoopOK
  <2> QED
    BY <1>1, <1>2, <1>3, <1>4, <2>1 DEF LoopOK
<1>8. OutputOK' /\ BudgetOvershoot'
  BY <1>1, SameOutput
<1> QED
  BY <1>5, <1>6, <1>7, <1>8

(* The request schedule_waiting has chosen.                                *)
LEMMA AdmittingBest ==
    ASSUME ControlInv, NEW r \in Requests, Admitting(r)
    PROVE  /\ phase = "admit" /\ best' = NoRequest /\ toPreempt = <<>>
           /\ r \in ToSet(waiting) /\ r \in DOMAIN requests /\ r \notin ToSet(running)
           /\ r \notin finished /\ requests[r].status = "waiting"
           /\ out.budget < MaxBudget /\ Len(running) < MaxNumSeqs
           /\ Probed(r) \in RequestStates /\ Probed(r).status = "waiting"
<1> USE DEF ControlInv
<1>1. phase = "admit" /\ r = best /\ best' = NoRequest
  BY DEF Admitting
<1>2. /\ r \in ToSet(waiting) /\ toPreempt = <<>>
      /\ out.budget < MaxBudget /\ Len(running) < MaxNumSeqs
  BY <1>1 DEF LoopOK
<1>3. r \in DOMAIN requests /\ requests[r].status = "waiting" /\ r \notin ToSet(running)
  BY <1>2 DEF QueuesOK, NoRequestLost
<1>4. r \notin finished
  BY <1>3 DEF QueuesOK
<1>5. Probed(r) \in RequestStates /\ Probed(r).status = requests[r].status
  BY <1>3, ProbedType
<1> QED
  BY <1>1, <1>2, <1>3, <1>4, <1>5

LEMMA ControlRefuse ==
    ASSUME ControlInv, NEW r \in Requests, AdmitNothing(r) \/ AdmitFail(r)
    PROVE  ControlInv'
<1> USE DEF ControlInv
<1>1. /\ Admitting(r) /\ requests' = [requests EXCEPT ![r] = Probed(r)] /\ phase' = "done"
      /\ UNCHANGED <<waiting, running, finished, paused, arrived, todo, toPreempt, out>>
  BY DEF AdmitNothing, AdmitFail
<1>2. /\ phase = "admit" /\ best' = NoRequest /\ toPreempt = <<>> /\ r \in DOMAIN requests
  BY <1>1, AdmittingBest
<1>3. /\ DOMAIN requests' = DOMAIN requests
      /\ \A x \in DOMAIN requests' : requests'[x] \in RequestStates
      /\ QueuesOK' /\ SeqsRespected'
  BY <1>1, <1>2, ProbedQueues
<1>4. TypesOK'
  BY <1>1, <1>2, <1>3 DEF TypesOK, Phases
<1>5. LoopOK'
  BY <1>1, <1>2 DEF LoopOK
<1>6. OutputOK' /\ BudgetOvershoot'
  BY <1>1, <1>2, SameOutput
<1> QED
  BY <1>3, <1>4, <1>5, <1>6

(* An admission moves the request from one queue to the other.             *)
LEMMA AdmittedQueues ==
    ASSUME ControlInv, NEW r \in Requests, Admitting(r), NEW c \in Nat, Admitted(r, c),
           phase' = "select",
           UNCHANGED <<finished, paused, arrived, todo, toPreempt>>
    PROVE  TypesOK' /\ QueuesOK' /\ LoopOK' /\ SeqsRespected'
<1> USE DEF ControlInv
<1>1. /\ phase = "admit" /\ best' = NoRequest /\ toPreempt = <<>>
      /\ r \in ToSet(waiting) /\ r \in DOMAIN requests /\ r \notin ToSet(running)
      /\ r \notin finished /\ Len(running) < MaxNumSeqs
      /\ Probed(r) \in RequestStates /\ Probed(r).status = "waiting"
  BY AdmittingBest
<1> DEFINE x == [Probed(r) EXCEPT !.status = "running", !.computed = c]
<1>2. x \in RequestStates /\ x.status = "running"
  BY <1>1 DEF RequestStates
<1>3. /\ waiting' = Without(waiting, r) /\ running' = Append(running, r)
      /\ requests' = [requests EXCEPT ![r] = x]
  BY DEF Admitted
<1> HIDE DEF x
<1>4. /\ DOMAIN requests' = DOMAIN requests /\ requests'[r] = x
      /\ \A y \in DOMAIN requests : y # r => requests'[y] = requests[y]
  BY <1>1, <1>3
<1>5. /\ waiting \in Seq(Requests) /\ IsInjective(waiting)
      /\ running \in Seq(Requests) /\ IsInjective(running)
      /\ ToSet(waiting) = {y \in DOMAIN requests : requests[y].status = "waiting"}
      /\ Policy = "Priority" => Sorted(waiting, arrived)
  BY DEF TypesOK, QueuesOK, NoRequestLost, QueueOrdered
<1>6. /\ waiting' \in Seq(Requests) /\ IsInjective(waiting')
      /\ ToSet(waiting') = ToSet(waiting) \ {r}
  BY <1>3, <1>5, WithoutDistinct
<1>7. /\ running' \in Seq(Requests) /\ IsInjective(running')
      /\ ToSet(running') = ToSet(running) \cup {r} /\ Len(running') = Len(running) + 1
  BY <1>1, <1>3, <1>5, AppendDistinct
<1>8. TypesOK'
  BY <1>1, <1>2, <1>4, <1>6, <1>7 DEF TypesOK, Phases
<1>9. QueuesOK'
  <2>1. ToSet(waiting') = {y \in DOMAIN requests' : requests'[y].status = "waiting"}
    BY <1>2, <1>4, <1>5, <1>6
  <2>2. NoRequestLost'
    BY <1>1, <1>4, <1>6, <1>7, <2>1 DEF QueuesOK, NoRequestLost
  <2>3. finished' \subseteq {y \in DOMAIN requests' : requests'[y].status = "finished_length"}
    BY <1>1, <1>4 DEF QueuesOK
  <2>4. QueueOrdered'
    BY <1>3, <1>5, SortedWithout DEF QueueOrdered
  <2> QED
    BY <1>1, <1>4, <1>7, <2>2, <2>3, <2>4 DEF QueuesOK
<1>10. LoopOK'
  <2>1. ToSet(<<>>) = {}
    BY DEF ToSet
  <2> QED
    BY <1>1, <2>1 DEF LoopOK
<1>11. SeqsRespected'
  <2>1. Len(running) \in Nat /\ MaxNumSeqs \in Nat
    BY <1>5, SchedulerAssumption
  <2> QED
    BY <1>1, <1>7, <2>1 DEF SeqsRespected
<1> QED
  BY <1>8, <1>9, <1>10, <1>11

LEMMA ControlAdmitCached ==
    ASSUME ControlInv, NEW r \in Requests, AdmitCached(r)
    PROVE  ControlInv'
<1> USE DEF ControlInv
<1>1. /\ Admitting(r) /\ Admitted(r, Cached(r)) /\ phase' = "select"
      /\ UNCHANGED <<finished, paused, arrived, todo, toPreempt>>
      /\ out' = OutCached(out, r)
  BY DEF AdmitCached, OutCached
<1>2. Cached(r) \in Nat /\ phase = "admit"
  BY <1>1, AdmittingBest DEF Cached, RequestStates
<1>3. TypesOK' /\ QueuesOK' /\ LoopOK' /\ SeqsRespected'
  BY <1>1, <1>2, AdmittedQueues
<1>4. /\ IsOutput(out') /\ out'.cached = Append(out.cached, r)
      /\ out'.new = out.new /\ out'.running = out.running /\ out'.preempted = out.preempted
      /\ out'.finished = out.finished /\ out'.budget = out.budget
  <2>1. IsOutput(out)
    BY DEF OutputOK
  <2> QED
    BY <1>1, <2>1, CachedOutput
<1>5. Append(out.cached, r) \in Seq(Requests)
  BY DEF OutputOK
<1>6. OutputOK' /\ BudgetOvershoot'
  BY <1>1, <1>4, <1>5 DEF OutputOK, BudgetOvershoot
<1> QED
  BY <1>3, <1>6

(* The tokens of an admission are left in the budget.                      *)
LEMMA PrefillFits ==
    ASSUME ControlInv, NEW r \in Requests, Admitting(r)
    PROVE  /\ PrefillTokens(r) \in Nat /\ PrefillTokens(r) <= MaxBudget - out.budget
           /\ PrefillTokens(r) <= Remaining(r) /\ Cached(r) \in Nat /\ Remaining(r) \in Nat
           /\ PrefillTokens(r) <= Monus(MaxModelLen, Cached(r))
<1> USE DEF ControlInv
<1> DEFINE S == {Remaining(r), MaxBudget - out.budget, PrefillCap, Monus(MaxModelLen, Cached(r))}
<1>1. Cached(r) \in Nat /\ out.budget < MaxBudget /\ out.budget \in Nat
  BY AdmittingBest DEF Cached, RequestStates, OutputOK
<1>2. Len(Prompt[r]) \in Nat /\ MaxBudget \in Nat /\ MaxModelLen \in Nat /\ PrefillCap \in Nat
  BY SchedulerAssumption
<1>3. Remaining(r) \in Nat /\ Monus(MaxModelLen, Cached(r)) \in Nat /\ MaxBudget - out.budget \in Nat
  BY <1>1, <1>2 DEF Remaining, Monus
<1>4. S \subseteq Nat /\ S # {}
  BY <1>2, <1>3
<1>5. Min(S) \in S /\ \A y \in S : Min(S) <= y
  <2> HIDE DEF S
  <2> QED
    BY <1>4, MinLeast
<1>6. PrefillTokens(r) = Min(S)
  BY DEF PrefillTokens
<1> HIDE DEF PrefillTokens
<1> QED
  BY <1>1, <1>3, <1>4, <1>5, <1>6

LEMMA ControlAdmitNew ==
    ASSUME ControlInv, NEW r \in Requests, AdmitNew(r)
    PROVE  ControlInv'
<1> USE DEF ControlInv
<1> DEFINE c == Cached(r)
           n == PrefillTokens(r)
           t == Table(AllocateSlots(ProbedKV(r), r, c + n, c), r)
<1>1. /\ Admitting(r) /\ Admitted(r, c + n) /\ phase' = "select"
      /\ UNCHANGED <<finished, paused, arrived, todo, toPreempt>>
      /\ out' = OutAdmitted(out, r, n, t)
  BY DEF AdmitNew, OutAdmitted
<1>2. /\ c \in Nat /\ n \in Nat /\ n <= MaxBudget - out.budget
  BY <1>1, PrefillFits
<1> HIDE DEF c, n, t
<1>3. c + n \in Nat
  BY <1>2
<1>4. TypesOK' /\ QueuesOK' /\ LoopOK' /\ SeqsRespected'
  BY <1>1, <1>3, AdmittedQueues
<1>5. /\ IsOutput(out') /\ out'.new = Append(out.new, r) /\ out'.budget = out.budget + n
      /\ out'.cached = out.cached /\ out'.running = out.running
      /\ out'.preempted = out.preempted /\ out'.finished = out.finished
  <2>1. IsOutput(out)
    BY DEF OutputOK
  <2> QED
    BY <1>1, <2>1, AdmittedOutput
<1>6. /\ Append(out.new, r) \in Seq(Requests) /\ out.budget \in Nat /\ out.budget + n \in Nat
      /\ out.budget + n <= MaxBudget
  <2>1. MaxBudget \in Nat /\ out.budget \in Nat /\ out.new \in Seq(Requests)
    BY SchedulerAssumption DEF OutputOK
  <2> QED
    BY <1>2, <2>1
<1>7. OutputOK'
  BY <1>1, <1>5, <1>6 DEF OutputOK
<1>8. BudgetOvershoot'
  <2>1. ~(out'.budget > MaxBudget)
    BY <1>5, <1>6, SchedulerAssumption
  <2> QED
    BY <2>1 DEF BudgetOvershoot
<1> QED
  BY <1>4, <1>7, <1>8

LEMMA ControlStep ==
    ASSUME ControlInv, [Next]_vars
    PROVE  ControlInv'
<1>1. CASE StepAction
  BY <1>1, ControlIdle, ControlMoves, ControlFinish, ControlDecodeLength,
     ControlDecodeSchedule, ControlDecodeFail, ControlPreempt, ControlProbe,
     ControlAdmitCached, ControlAdmitNew, ControlRefuse DEF StepAction
<1>2. CASE OwnerCall
  BY <1>2, ControlIdle, ControlAdd, ControlAbort DEF OwnerCall
<1>3. CASE StepReturn \/ UNCHANGED vars
  BY <1>3, ControlIdle
<1> QED
  BY <1>1, <1>2, <1>3 DEF Next

(* In every state of every step the queues, the loops and the output agree.*)
THEOREM ControlInvariant == Spec => []ControlInv
<1>1. Init => ControlInv
  BY ControlInit
<1>2. ControlInv /\ [Next]_vars => ControlInv'
  BY ControlStep
<1> QED
  BY <1>1, <1>2, PTL DEF Spec

(* Every tracked request is in exactly the queue its status names, once,   *)
(* whatever a step preempts, finishes, admits or fails to admit.           *)
THEOREM QueuesKeepRequests == Spec => []NoRequestLost
<1>1. ControlInv => NoRequestLost
  BY DEF ControlInv, QueuesOK
<1> QED
  BY <1>1, ControlInvariant, PTL

(* The priority queue is sorted in every state, with re-queued requests in *)
(* their place.                                                            *)
THEOREM QueueStaysOrdered == Spec => []QueueOrdered
<1>1. ControlInv => QueueOrdered
  BY DEF ControlInv, QueuesOK
<1> QED
  BY <1>1, ControlInvariant, PTL

(* A step exceeds its budget by no more than the drafts of its last decode.*)
THEOREM OvershootBounded == Spec => []BudgetOvershoot
<1>1. ControlInv => BudgetOvershoot
  BY DEF ControlInv
<1> QED
  BY <1>1, ControlInvariant, PTL

-----------------------------------------------------------------------------
(* The memory of the requests.                                             *)

(* The tokens a request had before those scheduled for it in this step,    *)
(* if it decodes.                                                          *)
Filled(r) ==
    requests[r].computed - (IF r \in ToSet(out.running) THEN out.tokens[r] ELSE 0)

(* Its table covers its tokens, and its labelled blocks are full.          *)
RequestOK(r) ==
    LET held   == Len(Table(kv, r))
        needed == CeilDiv(requests[r].computed, BlockSize)
    IN  /\ r \in ToSet(running) => held >= needed
        /\ r \in ToSet(running) /\ SpecTokens[r] = 0 => held = needed
        /\ r \in ToSet(waiting) => /\ held * BlockSize = requests[r].computed
                                   /\ ~requests[r].hit => held = 0
        /\ r \in finished => held = 0
        /\ \A i \in DOMAIN Table(kv, r) :
              Label(kv, r, i) # NoHash => i * BlockSize <= Filled(r)

MemoryOK ==
    /\ KVOK(kv, Prompt) /\ Unshared(kv)
    /\ DOMAIN kv.blocks \subseteq DOMAIN requests
    /\ \A r \in DOMAIN requests : RequestOK(r)

WritesDisjoint ==
    \A r, s \in DOMAIN out.tokens : r # s => Written(r) \cap Written(s) = {}

(* A request is scheduled once, with its table, and then not preempted.    *)
BatchOK ==
    /\ IsInjective(out.new) /\ IsInjective(out.cached) /\ IsInjective(out.running)
    /\ ToSet(out.new) \cap ToSet(out.cached) = {}
    /\ ToSet(out.new) \cap ToSet(out.running) = {}
    /\ ToSet(out.cached) \cap ToSet(out.running) = {}
    /\ ToSet(out.new) \cup ToSet(out.cached) \cup ToSet(out.running) \subseteq ToSet(running)
    /\ DOMAIN out.tokens = ToSet(out.new) \cup ToSet(out.running)
    /\ DOMAIN out.tables = DOMAIN out.tokens
    /\ \A r \in DOMAIN out.tokens : out.tables[r] = Table(kv, r) /\ out.tokens[r] \in Nat
    /\ ToSet(out.running) \cap (ToSet(out.preempted) \cup ToSet(toPreempt)) = {}
    /\ phase = "decode" => out.preempted = <<>> /\ ToSet(todo) \cap ToSet(out.running) = {}
    /\ WritesDisjoint

MemInv == MemoryOK /\ BatchOK

LEMMA TimesBlock ==
    ASSUME NEW a \in Nat, NEW b \in Nat
    PROVE  /\ a * BlockSize \in Nat /\ (a + b) * BlockSize = a * BlockSize + b * BlockSize
           /\ a < b => a * BlockSize + BlockSize <= b * BlockSize
           /\ a <= b => a * BlockSize <= b * BlockSize
<1>1. BlockSize \in Nat /\ BlockSize > 0
  BY KVAssumption
<1>2. a * BlockSize \in Nat /\ b * BlockSize \in Nat
  BY <1>1
<1>3. (a + b) * BlockSize = a * BlockSize + b * BlockSize
  BY <1>1
<1>4. ASSUME a < b PROVE a * BlockSize + BlockSize <= b * BlockSize
  <2>1. PICK d \in Nat : b = a + 1 + d
    <3>1. b - a - 1 \in Nat /\ b = a + 1 + (b - a - 1)
      BY <1>4
    <3> QED
      BY <3>1
  <2>2. (a + 1 + d) * BlockSize = a * BlockSize + BlockSize + d * BlockSize /\ d * BlockSize \in Nat
    BY <1>1
  <2> QED
    BY <1>1, <1>2, <2>1, <2>2
<1> QED
  BY <1>1, <1>2, <1>3, <1>4

(* Dividing up: the least number of blocks that holds n tokens.            *)
LEMMA CeilDivLeast ==
    ASSUME NEW n \in Nat
    PROVE  /\ CeilDiv(n, BlockSize) \in Nat
           /\ n <= CeilDiv(n, BlockSize) * BlockSize
           /\ \A k \in Nat : n <= k * BlockSize => CeilDiv(n, BlockSize) <= k
<1> DEFINE q == CeilDiv(n, BlockSize)
<1>1. BlockSize \in Nat /\ BlockSize > 0
  BY KVAssumption
<1>2. q \in Nat
  BY <1>1 DEF CeilDiv
<1>3. n <= q * BlockSize /\ q * BlockSize < n + BlockSize
  <2> DEFINE m == n + BlockSize - 1
  <2>1. m \in Nat /\ q = m \div BlockSize
    BY <1>1 DEF CeilDiv
  <2> HIDE DEF m
  <2>2. m = BlockSize * (m \div BlockSize) + (m % BlockSize) /\ m % BlockSize \in 0..(BlockSize - 1)
    BY <1>1, <2>1
  <2>3. BlockSize * q = q * BlockSize
    BY <1>1, <1>2
  <2>4. q * BlockSize \in Nat /\ m = q * BlockSize + (m % BlockSize)
    <3>1. q * BlockSize \in Nat
      BY <1>2, TimesBlock
    <3> QED
      BY <2>1, <2>2, <2>3, <3>1
  <2>5. m = n + BlockSize - 1
    BY DEF m
  <2> QED
    BY <1>1, <2>2, <2>4, <2>5
<1> HIDE DEF q
<1>4. ASSUME NEW k \in Nat, n <= k * BlockSize, k < q PROVE FALSE
  <2>1. k * BlockSize + BlockSize <= q * BlockSize /\ k * BlockSize \in Nat /\ q * BlockSize \in Nat
    BY <1>2, <1>4, TimesBlock
  <2> QED
    BY <1>1, <1>3, <1>4, <2>1
<1> QED
  BY <1>2, <1>3, <1>4 DEF q

LEMMA CeilDivFacts ==
    ASSUME NEW c \in Nat, NEW n \in Nat
    PROVE  /\ CeilDiv(c, BlockSize) <= CeilDiv(c + n, BlockSize)
           /\ CeilDiv(c + n, BlockSize) <= CeilDiv(c, BlockSize) + CeilDiv(n, BlockSize)
           /\ CeilDiv(1, BlockSize) = 1
           /\ \A k \in Nat : c = k * BlockSize =>
                 CeilDiv(c, BlockSize) = k /\ CeilDiv(c + n, BlockSize) = k + CeilDiv(n, BlockSize)
<1> DEFINE a == CeilDiv(c, BlockSize)
           b == CeilDiv(n, BlockSize)
           d == CeilDiv(c + n, BlockSize)
<1>1. /\ a \in Nat /\ c <= a * BlockSize /\ \A k \in Nat : c <= k * BlockSize => a <= k
      /\ b \in Nat /\ n <= b * BlockSize /\ \A k \in Nat : n <= k * BlockSize => b <= k
      /\ d \in Nat /\ c + n <= d * BlockSize /\ \A k \in Nat : c + n <= k * BlockSize => d <= k
  BY CeilDivLeast
<1>2. CeilDiv(1, BlockSize) = 1
  <2>1. /\ CeilDiv(1, BlockSize) \in Nat /\ 1 <= CeilDiv(1, BlockSize) * BlockSize
        /\ 1 <= 1 * BlockSize => CeilDiv(1, BlockSize) <= 1
    BY CeilDivLeast
  <2>2. 1 <= 1 * BlockSize /\ ~(1 <= 0 * BlockSize)
    BY KVAssumption
  <2> QED
    BY <2>1, <2>2
<1> HIDE DEF a, b, d
<1>3. a * BlockSize \in Nat /\ b * BlockSize \in Nat /\ d * BlockSize \in Nat
      /\ (a + b) * BlockSize = a * BlockSize + b * BlockSize
  BY <1>1, TimesBlock
<1>4. a <= d
  BY <1>1, <1>3
<1>5. d <= a + b
  BY <1>1, <1>3
<1>6. ASSUME NEW k \in Nat, c = k * BlockSize PROVE a = k /\ d = k + b
  <2>1. a <= k
    BY <1>1, <1>6
  <2>2. ~(a < k)
    <3>1. a < k => a * BlockSize + BlockSize <= k * BlockSize
      BY <1>1, <1>6, TimesBlock
    <3> QED
      BY <1>1, <1>3, <1>6, <3>1, KVAssumption
  <2>3. a = k
    BY <1>1, <1>6, <2>1, <2>2
  <2>4. k <= d
    BY <1>4, <2>3
  <2>5. PICK e \in Nat : d = k + e
    <3>1. d - k \in Nat /\ d = k + (d - k)
      BY <1>1, <1>6, <2>4
    <3> QED
      BY <3>1
  <2>6. d * BlockSize = k * BlockSize + e * BlockSize /\ e * BlockSize \in Nat
    BY <1>6, <2>5, TimesBlock
  <2>7. n <= e * BlockSize
    BY <1>1, <1>3, <1>6, <2>6
  <2>8. b <= e
    BY <1>1, <2>5, <2>7
  <2> QED
    BY <1>1, <1>5, <2>3, <2>5, <2>8
<1> QED
  BY <1>2, <1>4, <1>5, <1>6 DEF a, b, d

-----------------------------------------------------------------------------
(* What a step leaves alone.                                               *)

SameFor(s) ==
    /\ requests'[s] = requests[s]
    /\ s \in ToSet(running') <=> s \in ToSet(running)
    /\ s \in ToSet(waiting') <=> s \in ToSet(waiting)
    /\ s \in finished' <=> s \in finished
    /\ Filled(s) \in Int /\ Filled(s)' \in Int /\ Filled(s) <= Filled(s)'

LEMMA FilledType ==
    ASSUME TypesOK, BatchOK, NEW s \in DOMAIN requests
    PROVE  Filled(s) \in Int /\ requests[s].computed \in Nat /\ Filled(s) <= requests[s].computed
<1>1. requests[s].computed \in Nat
  BY DEF TypesOK, RequestStates
<1>2. s \in ToSet(out.running) => out.tokens[s] \in Nat
  BY DEF BatchOK
<1> QED
  BY <1>1, <1>2 DEF Filled

LEMMA RequestKept ==
    ASSUME NEW s, RequestOK(s), SameFor(s), TablesOK(kv.blocks), Table(kv', s) = Table(kv, s),
           \A i \in DOMAIN Table(kv, s) : Label(kv', s, i) = Label(kv, s, i)
    PROVE  RequestOK(s)'
<1>1. \A i \in DOMAIN Table(kv, s) : i * BlockSize \in Nat
  <2>1. DOMAIN Table(kv, s) = 1..Len(Table(kv, s))
    BY TableType
  <2> QED
    BY <2>1, KVAssumption
<1>2. ASSUME NEW i \in DOMAIN Table(kv', s), Label(kv', s, i) # NoHash
      PROVE  i * BlockSize <= Filled(s)'
  <2>1. i \in DOMAIN Table(kv, s) /\ Label(kv, s, i) # NoHash
    BY <1>2
  <2>2. i * BlockSize <= Filled(s)
    BY <2>1 DEF RequestOK
  <2> QED
    BY <1>1, <2>1, <2>2 DEF SameFor
<1> QED
  BY <1>2 DEF RequestOK, SameFor

LEMMA MemoryStep ==
    ASSUME MemoryOK, NEW r, KVOK(kv', Prompt), Unshared(kv'), OthersKept(kv, kv', r),
           DOMAIN kv'.blocks \subseteq DOMAIN requests',
           \A s \in DOMAIN requests' : s # r => s \in DOMAIN requests /\ SameFor(s),
           r \in DOMAIN requests' => RequestOK(r)'
    PROVE  MemoryOK'
<1>1. ASSUME NEW s \in DOMAIN requests', s # r PROVE RequestOK(s)'
  <2>1. s \in DOMAIN requests /\ SameFor(s)
    BY <1>1
  <2>2. RequestOK(s) /\ TablesOK(kv.blocks)
    BY <2>1 DEF MemoryOK, KVOK
  <2>3. /\ Table(kv', s) = Table(kv, s)
        /\ \A i \in DOMAIN Table(kv, s) : Label(kv', s, i) = Label(kv, s, i)
    BY <1>1 DEF OthersKept
  <2> QED
    BY <2>1, <2>2, <2>3, RequestKept
<1>2. \A s \in DOMAIN requests' : RequestOK(s)'
  BY <1>1
<1> QED
  BY <1>2 DEF MemoryOK

(* The manager keeps its tables and no request changes.                    *)
LEMMA MemoryKept ==
    ASSUME MemoryOK, KVOK(kv', Prompt), TablesKept(kv, kv'), DOMAIN requests' = DOMAIN requests,
           \A s \in DOMAIN requests : SameFor(s)
    PROVE  MemoryOK'
<1>1. /\ Unshared(kv')
      /\ \A s : /\ Table(kv', s) = Table(kv, s)
                /\ \A i \in DOMAIN Table(kv, s) : Label(kv', s, i) = Label(kv, s, i)
  BY TablesKeptEffect DEF MemoryOK
<1>2. TablesOK(kv.blocks)
  BY DEF MemoryOK, KVOK
<1>3. ASSUME NEW s \in DOMAIN requests' PROVE RequestOK(s)'
  <2>1. SameFor(s) /\ RequestOK(s)
    BY DEF MemoryOK
  <2> QED
    BY <1>1, <1>2, <2>1, RequestKept
<1>4. DOMAIN kv'.blocks \subseteq DOMAIN requests'
  BY DEF TablesKept, MemoryOK
<1> QED
  BY <1>1, <1>3, <1>4 DEF MemoryOK

(* The scheduled requests of a batch keep their tables.                    *)
LEMMA BatchStep ==
    ASSUME BatchOK,
           out'.new = out.new, out'.running = out.running,
           out'.tokens = out.tokens, out'.tables = out.tables,
           IsInjective(out'.cached), ToSet(out'.new) \cap ToSet(out'.cached) = {},
           ToSet(out'.cached) \cap ToSet(out'.running) = {},
           ToSet(out.new) \cup ToSet(out'.cached) \cup ToSet(out.running) \subseteq ToSet(running'),
           \A r \in DOMAIN out.tokens : /\ Table(kv', r) = Table(kv, r)
                                        /\ requests'[r].computed = requests[r].computed,
           ToSet(out.running) \cap (ToSet(out'.preempted) \cup ToSet(toPreempt')) = {},
           phase' = "decode" => out'.preempted = <<>> /\ ToSet(todo') \cap ToSet(out.running) = {}
    PROVE  BatchOK'
<1>1. \A r \in DOMAIN out.tokens : Written(r)' = Written(r)
  BY DEF Written
<1>2. WritesDisjoint'
  BY <1>1 DEF BatchOK, WritesDisjoint
<1> QED
  BY <1>2 DEF BatchOK

LEMMA BatchEmpty ==
    ASSUME out' = EmptyOutput
    PROVE  BatchOK'
<1>1. IsInjective(<<>>) /\ ToSet(<<>>) = {} /\ DOMAIN NoKeys = {}
  BY NoKeysEmpty DEF IsInjective, ToSet
<1>2. /\ out'.new = <<>> /\ out'.cached = <<>> /\ out'.running = <<>> /\ out'.preempted = <<>>
      /\ out'.tokens = NoKeys /\ out'.tables = NoKeys
  BY DEF EmptyOutput
<1>3. WritesDisjoint'
  BY <1>1, <1>2 DEF WritesDisjoint
<1> QED
  BY <1>1, <1>2, <1>3 DEF BatchOK

LEMMA MemoryInit == Init => MemInv
<1> SUFFICES ASSUME Init PROVE MemInv
  OBVIOUS
<1>1. DOMAIN requests = {} /\ kv = NewKV /\ out = EmptyOutput
  BY NoKeysEmpty DEF Init
<1>2. KVOK(kv, Prompt) /\ DOMAIN kv.blocks = {}
  BY <1>1, NewKVOK, NoKeysEmpty DEF NewKV
<1>3. MemoryOK
  BY <1>1, <1>2 DEF MemoryOK, Unshared
<1>4. BatchOK
  <2>1. IsInjective(<<>>) /\ ToSet(<<>>) = {} /\ DOMAIN NoKeys = {}
    BY NoKeysEmpty DEF IsInjective, ToSet
  <2>2. /\ out.new = <<>> /\ out.cached = <<>> /\ out.running = <<>> /\ out.preempted = <<>>
        /\ out.tokens = NoKeys /\ out.tables = NoKeys /\ phase = "idle"
    BY <1>1 DEF EmptyOutput, Init
  <2>3. WritesDisjoint
    BY <2>1, <2>2 DEF WritesDisjoint
  <2> QED
    BY <2>1, <2>2, <2>3 DEF BatchOK
<1> QED
  BY <1>3, <1>4 DEF MemInv

LEMMA FilledKept ==
    ASSUME TypesOK, BatchOK, NEW s \in DOMAIN requests, requests'[s].computed = requests[s].computed,
           s \in ToSet(out'.running) <=> s \in ToSet(out.running),
           s \in ToSet(out.running) => out'.tokens[s] = out.tokens[s]
    PROVE  Filled(s) \in Int /\ Filled(s)' \in Int /\ Filled(s) <= Filled(s)'
<1>1. Filled(s) \in Int
  BY FilledType
<1>2. Filled(s)' = Filled(s)
  BY DEF Filled
<1> QED
  BY <1>1, <1>2

(* Steps that move no request and leave the tables as they are.            *)
LEMMA MemoryQuiet ==
    ASSUME ControlInv, MemInv,
           \/ Pause \/ Resume \/ ResetPrefixCacheCall \/ UNCHANGED vars
           \/ FinishEnd \/ DecodeEnd \/ PreemptEnd \/ WaitingEnd \/ SelectBegin
           \/ \E r \in Requests : DecodeFail(r)
    PROVE  MemInv'
<1>1. UNCHANGED <<requests, waiting, running, finished, out>>
  BY DEF Pause, Resume, ResetPrefixCacheCall, FinishEnd, DecodeEnd, PreemptEnd, WaitingEnd,
         SelectBegin, DecodeFail, vars, stepVars
<1>2. TypesOK /\ BatchOK /\ MemoryOK /\ KVOK(kv, Prompt)
  BY DEF ControlInv, MemInv, MemoryOK
<1>3. KVOK(kv', Prompt) /\ TablesKept(kv, kv')
  <2>1. CASE kv' = kv
    BY <1>2, <2>1 DEF TablesKept
  <2>2. CASE ResetPrefixCacheCall
    BY <1>2, <2>2, ResetCacheOK, ResetCacheEffect DEF ResetPrefixCacheCall
  <2>3. ASSUME NEW r \in Requests, DecodeFail(r) PROVE KVOK(kv', Prompt) /\ TablesKept(kv, kv')
    <3> DEFINE c == requests[r].computed
               m == c + DecodeTokens(r)
    <3>1. Decoding(r) /\ ~CanDecode(r) /\ kv' = AllocateSlots(kv, r, m, c)
      BY <2>3 DEF DecodeFail
    <3>2. r \in DOMAIN requests /\ c \in Nat
      BY <3>1, DecodingHead DEF RequestStates
    <3>3. m \in Nat
      BY <3>2, SchedulerAssumption DEF DecodeTokens
    <3>4. ~CanAllocateSlots(kv, m, c)
      BY <3>1 DEF CanDecode
    <3> HIDE DEF c, m
    <3>5. PromptOK(Prompt[r])
      BY PromptsOK
    <3> QED
      BY <1>2, <3>1, <3>2, <3>3, <3>4, <3>5, AllocateSlotsOK, AllocateSlotsFails
  <2> QED
    BY <2>1, <2>2, <2>3 DEF Pause, Resume, FinishEnd, DecodeEnd, PreemptEnd, WaitingEnd,
         SelectBegin, vars, stepVars
<1>4. MemoryOK'
  <2>1. \A s \in DOMAIN requests : SameFor(s)
    BY <1>1, <1>2, FilledKept DEF SameFor
  <2> QED
    BY <1>1, <1>2, <1>3, <2>1, MemoryKept
<1>5. \A s : Table(kv', s) = Table(kv, s)
  BY <1>3 DEF TablesKept, Table, Lookup
<1>6. ToSet(out.running) \cap ToSet(toPreempt') = {}
  <2>1. CASE toPreempt' = toPreempt
    BY <1>2, <2>1 DEF BatchOK
  <2>2. ASSUME NEW r \in Requests, DecodeFail(r)
        PROVE  ToSet(out.running) \cap ToSet(toPreempt') = {}
    <3>1. Decoding(r) /\ toPreempt' = Append(toPreempt, r)
      BY <2>2 DEF DecodeFail
    <3>2. phase = "decode" /\ r = Head(todo) /\ todo # <<>>
      BY <3>1 DEF Decoding
    <3>3. todo \in Seq(Requests) /\ IsInjective(todo) /\ toPreempt \in Seq(Requests)
          /\ IsInjective(toPreempt)
      BY DEF ControlInv, TypesOK, LoopOK
    <3>4. r \in ToSet(todo)
      BY <3>2, <3>3, HeadTailDistinct
    <3>5. r \notin ToSet(out.running)
      BY <1>2, <3>2, <3>4 DEF BatchOK
    <3>6. ToSet(Append(toPreempt, r)) = ToSet(toPreempt) \cup {r}
      BY <3>1, <3>3, DecodingHead, AppendDistinct
    <3> QED
      BY <1>2, <3>1, <3>5, <3>6 DEF BatchOK
  <2> QED
    BY <2>1, <2>2 DEF Pause, Resume, ResetPrefixCacheCall, FinishEnd, DecodeEnd, PreemptEnd,
         WaitingEnd, SelectBegin, vars, stepVars
<1>7. phase' = "decode" => out.preempted = <<>> /\ ToSet(todo') \cap ToSet(out.running) = {}
  <2>1. CASE FinishEnd
    <3>1. out.running = <<>> /\ out.preempted = <<>> /\ ToSet(<<>>) = {}
      BY <2>1 DEF FinishEnd, ControlInv, OutputOK, ToSet
    <3> QED
      BY <3>1
  <2>2. ASSUME NEW r \in Requests, DecodeFail(r)
        PROVE  out.preempted = <<>> /\ ToSet(todo') \cap ToSet(out.running) = {}
    <3>1. phase = "decode" /\ ToSet(todo') = ToSet(todo) \ {r}
      BY <2>2, DecodingHead DEF DecodeFail
    <3> QED
      BY <1>2, <3>1 DEF BatchOK
  <2>3. CASE UNCHANGED <<phase, todo>>
    BY <1>2, <2>3 DEF BatchOK
  <2>4. CASE phase' # "decode"
    BY <2>4
  <2> QED
    BY <2>1, <2>2, <2>3, <2>4 DEF Pause, Resume, ResetPrefixCacheCall, DecodeEnd, PreemptEnd,
         WaitingEnd, SelectBegin, vars, stepVars
<1>8. BatchOK'
  <2>1. /\ ToSet(out.running) \cap (ToSet(out.preempted) \cup ToSet(toPreempt')) = {}
        /\ IsInjective(out.cached) /\ ToSet(out.new) \cap ToSet(out.cached) = {}
        /\ ToSet(out.cached) \cap ToSet(out.running) = {}
        /\ ToSet(out.new) \cup ToSet(out.cached) \cup ToSet(out.running) \subseteq ToSet(running)
    BY <1>2, <1>6 DEF BatchOK
  <2> QED
    BY <1>1, <1>2, <1>5, <1>7, <2>1, BatchStep
<1> QED
  BY <1>4, <1>8 DEF MemInv

(* Between two steps nothing is scheduled.                                 *)
LEMMA MemoryBegins ==
    ASSUME ControlInv, MemInv, StepBegin \/ StepReturn
    PROVE  MemInv'
<1>1. UNCHANGED <<kv, requests, waiting, running, finished>> /\ out' = EmptyOutput
  BY DEF StepBegin, StepReturn
<1>2. TypesOK /\ BatchOK /\ MemoryOK
  BY DEF ControlInv, MemInv
<1>3. ASSUME NEW s \in DOMAIN requests PROVE SameFor(s)
  <2>1. Filled(s) \in Int /\ requests[s].computed \in Nat /\ Filled(s) <= requests[s].computed
    BY <1>2, FilledType
  <2>2. out'.running = <<>> /\ ToSet(<<>>) = {}
    BY <1>1 DEF EmptyOutput, ToSet
  <2>3. Filled(s)' = requests[s].computed
    BY <1>1, <2>1, <2>2 DEF Filled
  <2> QED
    BY <1>1, <2>1, <2>3 DEF SameFor
<1>4. KVOK(kv', Prompt) /\ TablesKept(kv, kv')
  BY <1>1, <1>2 DEF MemoryOK, TablesKept
<1>5. MemoryOK'
  BY <1>1, <1>2, <1>3, <1>4, MemoryKept
<1> QED
  BY <1>1, <1>5, BatchEmpty DEF MemInv

(* Nothing is scheduled yet: any change of requests leaves the batch.      *)
LEMMA BatchUntouched ==
    ASSUME out'.new = <<>>, out'.cached = <<>>, out'.running = <<>>,
           out'.tokens = NoKeys, out'.tables = NoKeys, out'.preempted = <<>>
    PROVE  BatchOK'
<1>1. IsInjective(<<>>) /\ ToSet(<<>>) = {} /\ DOMAIN NoKeys = {}
  BY NoKeysEmpty DEF IsInjective, ToSet
<1>2. WritesDisjoint'
  BY <1>1 DEF WritesDisjoint
<1> QED
  BY <1>1, <1>2 DEF BatchOK

LEMMA WaitingByStatus ==
    ASSUME QueuesOK, QueuesOK', NEW s \in DOMAIN requests, s \in DOMAIN requests',
           requests'[s].status = requests[s].status
    PROVE  s \in ToSet(waiting') <=> s \in ToSet(waiting)
BY DEF QueuesOK, NoRequestLost

LEMMA EmptyTableOK ==
    ASSUME NEW r, Table(kv', r) = <<>>, r \notin ToSet(running'),
           r \in ToSet(waiting') => requests'[r].computed = 0
    PROVE  RequestOK(r)'
<1>1. Len(<<>>) = 0 /\ DOMAIN <<>> = {} /\ 0 * BlockSize = 0
  BY KVAssumption
<1> QED
  BY <1>1 DEF RequestOK

LEMMA MemoryAdd ==
    ASSUME ControlInv, ControlInv', MemInv, NEW r \in Requests, AddRequest(r)
    PROVE  MemInv'
<1>1. /\ phase = "idle" /\ r \notin DOMAIN requests
      /\ requests' = Put(requests, r, NewRequest)
      /\ UNCHANGED <<kv, running, finished, out>>
  BY DEF AddRequest, stepVars
<1>2. TypesOK /\ QueuesOK /\ QueuesOK' /\ BatchOK /\ MemoryOK /\ OutputOK
  BY DEF ControlInv, MemInv
<1>3. /\ DOMAIN requests' = DOMAIN requests \cup {r} /\ requests'[r] = NewRequest
      /\ \A x \in DOMAIN requests : requests'[x] = requests[x]
  BY <1>1 DEF Put
<1>4. ASSUME NEW s \in DOMAIN requests', s # r PROVE s \in DOMAIN requests /\ SameFor(s)
  <2>1. s \in DOMAIN requests /\ requests'[s] = requests[s]
    BY <1>3, <1>4
  <2>2. s \in ToSet(waiting') <=> s \in ToSet(waiting)
    BY <1>2, <2>1, WaitingByStatus
  <2>3. Filled(s) \in Int /\ Filled(s)' \in Int /\ Filled(s) <= Filled(s)'
    BY <1>1, <1>2, <2>1, FilledKept
  <2> QED
    BY <1>1, <2>1, <2>2, <2>3 DEF SameFor
<1>5. RequestOK(r)'
  <2>1. Table(kv', r) = <<>>
    BY <1>1, <1>2 DEF MemoryOK, Table, Lookup
  <2>2. r \notin ToSet(running') /\ requests'[r].computed = 0
    BY <1>1, <1>2, <1>3 DEF QueuesOK, NoRequestLost, NewRequest
  <2> QED
    BY <2>1, <2>2, EmptyTableOK
<1>6. /\ KVOK(kv', Prompt) /\ Unshared(kv') /\ OthersKept(kv, kv', r)
      /\ DOMAIN kv'.blocks \subseteq DOMAIN requests'
  BY <1>1, <1>2, <1>3 DEF MemoryOK, OthersKept
<1>7. MemoryOK'
  BY <1>2, <1>4, <1>5, <1>6, MemoryStep
<1>8. BatchOK'
  BY <1>1, <1>2, BatchEmpty DEF OutputOK
<1> QED
  BY <1>7, <1>8 DEF MemInv

LEMMA MemoryForget ==
    ASSUME TypesOK, QueuesOK, SeqsRespected, MemInv, out = EmptyOutput, out' = EmptyOutput,
           NEW r, Forget(r)
    PROVE  MemInv'
<1>1. /\ kv' = FreeRequest(kv, r) /\ running' = Without(running, r) /\ finished' = finished \ {r}
  BY DEF Forget
<1>2. /\ DOMAIN requests' = DOMAIN requests \ {r} /\ QueuesOK'
      /\ \A x \in DOMAIN requests' : requests'[x] = requests[x]
  BY ForgetQueues
<1>3. BatchOK /\ MemoryOK /\ KVOK(kv, Prompt) /\ Unshared(kv)
  BY DEF MemInv, MemoryOK
<1>4. ToSet(running') = ToSet(running) \ {r}
  BY <1>1, WithoutDistinct DEF TypesOK, QueuesOK, NoRequestLost
<1>5. ASSUME NEW s \in DOMAIN requests', s # r PROVE s \in DOMAIN requests /\ SameFor(s)
  <2>1. s \in DOMAIN requests /\ requests'[s] = requests[s]
    BY <1>2, <1>5
  <2>2. s \in ToSet(waiting') <=> s \in ToSet(waiting)
    BY <1>2, <2>1, WaitingByStatus
  <2>3. Filled(s) \in Int /\ Filled(s)' \in Int /\ Filled(s) <= Filled(s)'
    BY <1>3, <2>1, FilledKept
  <2> QED
    BY <1>1, <1>4, <1>5, <2>1, <2>2, <2>3 DEF SameFor
<1>6. /\ OthersKept(kv, kv', r) /\ DOMAIN kv'.blocks = DOMAIN kv.blocks \ {r} /\ Unshared(kv')
  BY <1>1, <1>3, FreeRequestEffect
<1>7. KVOK(kv', Prompt)
  BY <1>1, <1>3, FreeRequestOK
<1>8. DOMAIN kv'.blocks \subseteq DOMAIN requests' /\ r \notin DOMAIN requests'
  BY <1>2, <1>3, <1>6 DEF MemoryOK
<1>9. MemoryOK'
  BY <1>3, <1>5, <1>6, <1>7, <1>8, MemoryStep
<1> QED
  BY <1>9, BatchEmpty DEF MemInv

LEMMA MemoryFinish ==
    ASSUME ControlInv, ControlInv', MemInv, NEW r \in Requests, FinishOne(r)
    PROVE  MemInv'
<1>1. /\ phase = "finish" /\ r \in DOMAIN requests /\ requests[r].status = "finished_length"
      /\ running' = Without(running, r) /\ kv' = FreeRequest(kv, r)
      /\ finished' = finished \cup {r} /\ out' = OutFinished(out, r) /\ UNCHANGED requests
  BY DEF FinishOne, Unprocessed, IsFinished, OutFinished
<1>2. TypesOK /\ QueuesOK /\ QueuesOK' /\ BatchOK /\ MemoryOK /\ OutputOK
      /\ KVOK(kv, Prompt) /\ Unshared(kv) /\ IsOutput(out)
  BY DEF ControlInv, MemInv, MemoryOK, OutputOK
<1>3. /\ out'.new = out.new /\ out'.cached = out.cached /\ out'.running = out.running
      /\ out'.preempted = out.preempted /\ out'.tokens = out.tokens /\ out'.tables = out.tables
  BY <1>1, <1>2, FinishedOutput
<1>4. ToSet(running') = ToSet(running) \ {r}
  BY <1>1, <1>2, WithoutDistinct DEF TypesOK, QueuesOK, NoRequestLost
<1>5. ASSUME NEW s \in DOMAIN requests', s # r PROVE s \in DOMAIN requests /\ SameFor(s)
  <2>1. s \in DOMAIN requests /\ requests'[s] = requests[s] /\ s \in DOMAIN requests'
    BY <1>1, <1>5
  <2>2. s \in ToSet(waiting') <=> s \in ToSet(waiting)
    BY <1>2, <2>1, WaitingByStatus
  <2>3. Filled(s) \in Int /\ Filled(s)' \in Int /\ Filled(s) <= Filled(s)'
    BY <1>2, <1>3, <2>1, FilledKept
  <2> QED
    BY <1>1, <1>4, <1>5, <2>1, <2>2, <2>3 DEF SameFor
<1>6. /\ OthersKept(kv, kv', r) /\ DOMAIN kv'.blocks = DOMAIN kv.blocks \ {r} /\ Unshared(kv')
      /\ Table(kv', r) = <<>>
  BY <1>1, <1>2, FreeRequestEffect
<1>7. KVOK(kv', Prompt)
  BY <1>1, <1>2, FreeRequestOK
<1>8. RequestOK(r)'
  <2>1. r \notin ToSet(waiting') /\ r \notin ToSet(running')
    BY <1>1, <1>2, <1>4 DEF QueuesOK, NoRequestLost
  <2> QED
    BY <1>6, <2>1, EmptyTableOK
<1>9. DOMAIN kv'.blocks \subseteq DOMAIN requests'
  BY <1>1, <1>2, <1>6 DEF MemoryOK
<1>10. MemoryOK'
  BY <1>2, <1>5, <1>6, <1>7, <1>8, <1>9, MemoryStep
<1>11. BatchOK'
  BY <1>1, <1>2, <1>3, BatchUntouched DEF OutputOK
<1> QED
  BY <1>10, <1>11 DEF MemInv

LEMMA MemoryDecodeLength ==
    ASSUME ControlInv, ControlInv', MemInv, NEW r \in Requests, DecodeLength(r)
    PROVE  MemInv'
<1>1. /\ Decoding(r) /\ requests' = [requests EXCEPT ![r].status = "finished_length"]
      /\ UNCHANGED <<kv, waiting, running, finished, toPreempt, phase, out>>
  BY DEF DecodeLength
<1>2. /\ phase = "decode" /\ r \in DOMAIN requests /\ requests[r] \in RequestStates
      /\ ToSet(todo') = ToSet(todo) \ {r} /\ r \notin ToSet(waiting)
  BY <1>1, DecodingHead
<1>3. TypesOK /\ BatchOK /\ MemoryOK
  BY DEF ControlInv, MemInv
<1>4. /\ DOMAIN requests' = DOMAIN requests /\ requests'[r].computed = requests[r].computed
      /\ \A x \in DOMAIN requests : x # r => requests'[x] = requests[x]
  BY <1>1, <1>2 DEF RequestStates
<1>5. ASSUME NEW s \in DOMAIN requests', s # r PROVE s \in DOMAIN requests /\ SameFor(s)
  <2>1. s \in DOMAIN requests /\ requests'[s] = requests[s]
    BY <1>4, <1>5
  <2>2. Filled(s) \in Int /\ Filled(s)' \in Int /\ Filled(s) <= Filled(s)'
    BY <1>1, <1>3, <2>1, FilledKept
  <2> QED
    BY <1>1, <2>1, <2>2 DEF SameFor
<1>6. RequestOK(r)'
  <2>1. RequestOK(r) /\ Filled(r)' = Filled(r)
    BY <1>1, <1>2, <1>3, <1>4 DEF MemoryOK, Filled
  <2> QED
    BY <1>1, <1>2, <1>4, <2>1 DEF RequestOK
<1>7. /\ KVOK(kv', Prompt) /\ Unshared(kv') /\ OthersKept(kv, kv', r)
      /\ DOMAIN kv'.blocks \subseteq DOMAIN requests'
  BY <1>1, <1>3, <1>4 DEF MemoryOK, OthersKept
<1>8. MemoryOK'
  BY <1>3, <1>5, <1>6, <1>7, MemoryStep
<1>9. BatchOK'
  <2>1. \A x \in DOMAIN out.tokens : /\ Table(kv', x) = Table(kv, x)
                                     /\ requests'[x].computed = requests[x].computed
    <3>1. DOMAIN out.tokens \subseteq DOMAIN requests
      BY <1>3 DEF BatchOK, ControlInv, QueuesOK, NoRequestLost
    <3> QED
      BY <1>1, <1>4, <3>1
  <2>2. /\ ToSet(out.running) \cap (ToSet(out.preempted) \cup ToSet(toPreempt)) = {}
        /\ IsInjective(out.cached) /\ ToSet(out.new) \cap ToSet(out.cached) = {}
        /\ ToSet(out.cached) \cap ToSet(out.running) = {}
        /\ ToSet(out.new) \cup ToSet(out.cached) \cup ToSet(out.running) \subseteq ToSet(running)
        /\ out.preempted = <<>> /\ ToSet(todo') \cap ToSet(out.running) = {}
    BY <1>2, <1>3 DEF BatchOK
  <2> QED
    BY <1>1, <1>3, <2>1, <2>2, BatchStep
<1> QED
  BY <1>8, <1>9 DEF MemInv

LEMMA MemoryPreempt ==
    ASSUME ControlInv, ControlInv', MemInv, NEW r \in Requests, PreemptRequest(r)
    PROVE  MemInv'
<1>1. /\ phase = "preempt" /\ toPreempt # <<>> /\ r = Head(toPreempt)
      /\ toPreempt' = Tail(toPreempt) /\ running' = Without(running, r)
      /\ kv' = FreeRequest(kv, r) /\ requests' = [requests EXCEPT ![r] = NewRequest]
      /\ out' = OutPreempted(out, r) /\ UNCHANGED <<finished, phase, todo>>
  BY DEF PreemptRequest, OutPreempted
<1>2. TypesOK /\ QueuesOK /\ QueuesOK' /\ LoopOK /\ BatchOK /\ MemoryOK /\ OutputOK
      /\ KVOK(kv, Prompt) /\ Unshared(kv) /\ IsOutput(out)
  BY DEF ControlInv, MemInv, MemoryOK, OutputOK
<1>3. /\ out'.new = out.new /\ out'.cached = out.cached /\ out'.running = out.running
      /\ out'.preempted = Append(out.preempted, r)
      /\ out'.tokens = out.tokens /\ out'.tables = out.tables
  BY <1>1, <1>2, PreemptedOutput
<1>4. ToSet(running') = ToSet(running) \ {r}
  BY <1>1, <1>2, WithoutDistinct DEF TypesOK, QueuesOK, NoRequestLost
<1>5. r \in ToSet(toPreempt) /\ ToSet(toPreempt') = ToSet(toPreempt) \ {r}
  <2>1. toPreempt \in Seq(Requests) /\ IsInjective(toPreempt)
    BY <1>2 DEF TypesOK, LoopOK
  <2> QED
    BY <1>1, <2>1, HeadTailDistinct
<1>6. r \in DOMAIN requests /\ r \notin ToSet(out.running)
  BY <1>2, <1>5 DEF LoopOK, QueuesOK, NoRequestLost, BatchOK
<1>7. /\ DOMAIN requests' = DOMAIN requests /\ requests'[r] = NewRequest
      /\ \A x \in DOMAIN requests : x # r => requests'[x] = requests[x]
  BY <1>1, <1>6
<1>8. ASSUME NEW s \in DOMAIN requests', s # r PROVE s \in DOMAIN requests /\ SameFor(s)
  <2>1. s \in DOMAIN requests /\ requests'[s] = requests[s] /\ s \in DOMAIN requests'
    BY <1>7, <1>8
  <2>2. s \in ToSet(waiting') <=> s \in ToSet(waiting)
    BY <1>2, <2>1, WaitingByStatus
  <2>3. Filled(s) \in Int /\ Filled(s)' \in Int /\ Filled(s) <= Filled(s)'
    BY <1>2, <1>3, <2>1, FilledKept
  <2> QED
    BY <1>1, <1>4, <1>8, <2>1, <2>2, <2>3 DEF SameFor
<1>9. /\ OthersKept(kv, kv', r) /\ DOMAIN kv'.blocks = DOMAIN kv.blocks \ {r} /\ Unshared(kv')
      /\ Table(kv', r) = <<>>
  BY <1>1, <1>2, FreeRequestEffect
<1>10. KVOK(kv', Prompt)
  BY <1>1, <1>2, FreeRequestOK
<1>11. RequestOK(r)'
  <2>1. requests'[r].computed = 0 /\ r \notin ToSet(running')
    BY <1>4, <1>7 DEF NewRequest
  <2> QED
    BY <1>9, <2>1, EmptyTableOK
<1>12. DOMAIN kv'.blocks \subseteq DOMAIN requests'
  BY <1>2, <1>7, <1>9 DEF MemoryOK
<1>13. MemoryOK'
  BY <1>2, <1>8, <1>9, <1>10, <1>11, <1>12, MemoryStep
<1>14. BatchOK'
  <2>1. out.new = <<>> /\ out.cached = <<>> /\ ToSet(<<>>) = {} /\ IsInjective(<<>>)
    BY <1>1, <1>2 DEF OutputOK, ToSet, IsInjective
  <2>2. DOMAIN out.tokens = ToSet(out.running) /\ ToSet(out.running) \subseteq ToSet(running)
    BY <1>2, <2>1 DEF BatchOK
  <2>3. \A x \in DOMAIN out.tokens : /\ Table(kv', x) = Table(kv, x)
                                     /\ requests'[x].computed = requests[x].computed
    <3>1. ToSet(running) \subseteq DOMAIN requests
      BY <1>2 DEF QueuesOK, NoRequestLost
    <3> QED
      BY <1>6, <1>7, <1>9, <2>2, <3>1 DEF OthersKept
  <2>4. ToSet(Append(out.preempted, r)) \subseteq ToSet(out.preempted) \cup {r}
    <3>1. out.preempted \in Seq(Requests)
      BY <1>2 DEF OutputOK
    <3> QED
      BY <3>1 DEF ToSet
  <2>5. ToSet(out.running) \cap (ToSet(out'.preempted) \cup ToSet(toPreempt')) = {}
    BY <1>2, <1>3, <1>5, <1>6, <2>4 DEF BatchOK
  <2>6. /\ IsInjective(out'.cached) /\ ToSet(out'.new) \cap ToSet(out'.cached) = {}
        /\ ToSet(out'.cached) \cap ToSet(out'.running) = {}
        /\ ToSet(out.new) \cup ToSet(out'.cached) \cup ToSet(out.running) \subseteq ToSet(running')
        /\ phase' # "decode"
    BY <1>1, <1>3, <1>4, <1>6, <2>1, <2>2
  <2> QED
    BY <1>2, <1>3, <2>3, <2>5, <2>6, BatchStep
<1> QED
  BY <1>13, <1>14 DEF MemInv

(* One more scheduled request, which writes blocks nobody else has.        *)
LEMMA BatchGrows ==
    ASSUME BatchOK, NEW r, r \notin DOMAIN out.tokens, NEW n \in Nat,
           out'.tokens = Put(out.tokens, r, n),
           out'.tables = Put(out.tables, r, Table(kv', r)),
           \A s \in DOMAIN out.tokens : /\ Table(kv', s) = Table(kv, s)
                                        /\ requests'[s].computed = requests[s].computed,
           \A i \in DOMAIN Table(kv', r) :
              i * BlockSize > requests'[r].computed - n =>
                 \A s : s # r => Table(kv', r)[i] \notin ToSet(Table(kv', s))
    PROVE  /\ DOMAIN out'.tokens = DOMAIN out.tokens \cup {r}
           /\ DOMAIN out'.tables = DOMAIN out'.tokens
           /\ \A x \in DOMAIN out'.tokens : out'.tables[x] = Table(kv', x) /\ out'.tokens[x] \in Nat
           /\ \A x \in DOMAIN out.tokens : out'.tokens[x] = out.tokens[x]
           /\ out'.tokens[r] = n
           /\ WritesDisjoint'
<1>1. /\ DOMAIN out'.tokens = DOMAIN out.tokens \cup {r} /\ out'.tokens[r] = n
      /\ \A x \in DOMAIN out.tokens : out'.tokens[x] = out.tokens[x]
  BY DEF Put
<1>2. /\ DOMAIN out'.tables = DOMAIN out.tables \cup {r} /\ out'.tables[r] = Table(kv', r)
      /\ \A x \in DOMAIN out.tables : x # r => out'.tables[x] = out.tables[x]
  BY DEF Put
<1>3. /\ DOMAIN out.tables = DOMAIN out.tokens
      /\ \A s \in DOMAIN out.tokens : out.tables[s] = Table(kv, s) /\ out.tokens[s] \in Nat
  BY DEF BatchOK
<1>4. \A x \in DOMAIN out'.tokens : out'.tables[x] = Table(kv', x) /\ out'.tokens[x] \in Nat
  BY <1>1, <1>2, <1>3
<1>5. ASSUME NEW s \in DOMAIN out.tokens
      PROVE  Written(s)' = Written(s) /\ Written(s)' \subseteq ToSet(Table(kv', s))
  <2>1. out'.tokens[s] = out.tokens[s] /\ out'.tables[s] = out.tables[s] /\ out.tables[s] = Table(kv', s)
    BY <1>1, <1>2, <1>3, <1>5
  <2>2. Written(s)' = Written(s)
    BY <2>1 DEF Written
  <2>3. Written(s) \subseteq ToSet(Table(kv', s))
    BY <2>1 DEF Written, ToSet
  <2> QED
    BY <2>2, <2>3
<1>6. ASSUME NEW s \in DOMAIN out.tokens PROVE Written(r)' \cap Written(s)' = {}
  <2>1. ASSUME NEW b \in Written(r)' PROVE b \notin ToSet(Table(kv', s))
    <3>1. PICK i \in DOMAIN Table(kv', r) :
              i * BlockSize > requests'[r].computed - n /\ b = Table(kv', r)[i]
      BY <1>1, <1>2, <2>1 DEF Written
    <3>2. s # r
      OBVIOUS
    <3> QED
      BY <3>1, <3>2
  <2> QED
    BY <1>5, <2>1
<1>7. WritesDisjoint'
  <2> SUFFICES ASSUME NEW x \in DOMAIN out'.tokens, NEW y \in DOMAIN out'.tokens, x # y
               PROVE  Written(x)' \cap Written(y)' = {}
    BY DEF WritesDisjoint
  <2>1. CASE x = r
    <3>1. y \in DOMAIN out.tokens
      BY <1>1, <2>1
    <3> QED
      BY <1>6, <2>1, <3>1
  <2>2. CASE y = r
    <3>1. x \in DOMAIN out.tokens
      BY <1>1, <2>2
    <3> QED
      BY <1>6, <2>2, <3>1
  <2>3. CASE x # r /\ y # r
    <3>1. x \in DOMAIN out.tokens /\ y \in DOMAIN out.tokens
      BY <1>1, <2>3
    <3>2. Written(x) \cap Written(y) = {}
      BY <3>1 DEF BatchOK, WritesDisjoint
    <3> QED
      BY <1>5, <3>1, <3>2
  <2> QED
    BY <2>1, <2>2, <2>3
<1> QED
  BY <1>1, <1>2, <1>3, <1>4, <1>7

(* The blocks past the tokens of a request are unlabelled, so nobody else's. *)
LEMMA PastIsPrivate ==
    ASSUME NEW q, Unshared(q), NEW r, NEW c \in Int, TablesOK(q.blocks),
           \A i \in DOMAIN Table(q, r) : Label(q, r, i) # NoHash => i * BlockSize <= c
    PROVE  \A i \in DOMAIN Table(q, r) :
              i * BlockSize > c => \A s : s # r => Table(q, r)[i] \notin ToSet(Table(q, s))
<1> SUFFICES ASSUME NEW i \in DOMAIN Table(q, r), i * BlockSize > c, NEW s, s # r,
                    Table(q, r)[i] \in ToSet(Table(q, s))
             PROVE  FALSE
  OBVIOUS
<1>1. Label(q, r, i) # NoHash
  BY UnsharedTables
<1>2. i * BlockSize \in Nat
  BY TableType, KVAssumption
<1> QED
  BY <1>1, <1>2

(* What a decode does to the memory: every new block is unlabelled.        *)
LEMMA DecodeGrowth ==
    ASSUME MemoryOK, NEW r \in Requests, r \in DOMAIN requests, r \in ToSet(running),
           NEW c \in Nat, NEW n \in Nat, c = requests[r].computed, n = DecodeTokens(r),
           Filled(r) = c, CanDecode(r),
           kv' = IF NeedsBlocks(c, n) THEN AllocateSlots(kv, r, c + n, c) ELSE kv
    PROVE  /\ KVOK(kv', Prompt) /\ Unshared(kv') /\ OthersKept(kv, kv', r)
           /\ DOMAIN kv'.blocks \subseteq DOMAIN requests
           /\ \A i \in DOMAIN Table(kv', r) : Label(kv', r, i) # NoHash => i * BlockSize <= c
           /\ Len(Table(kv', r)) >= CeilDiv(c + n, BlockSize)
           /\ SpecTokens[r] = 0 => Len(Table(kv', r)) = CeilDiv(c + n, BlockSize)
<1> DEFINE a == CeilDiv(c, BlockSize)
           b == CeilDiv(n, BlockSize)
           d == CeilDiv(c + n, BlockSize)
           held == Len(Table(kv, r))
<1>1. KVOK(kv, Prompt) /\ Unshared(kv) /\ RequestOK(r) /\ PromptOK(Prompt[r])
      /\ DOMAIN kv.blocks \subseteq DOMAIN requests
  BY PromptsOK DEF MemoryOK
<1>2. held \in Nat /\ DOMAIN Table(kv, r) = 1..held
  BY <1>1, TableType DEF KVOK
<1>3. held >= a /\ (SpecTokens[r] = 0 => held = a)
  BY <1>1 DEF RequestOK
<1>4. \A i \in DOMAIN Table(kv, r) : Label(kv, r, i) # NoHash => i * BlockSize <= c
  BY <1>1 DEF RequestOK
<1>5. a \in Nat /\ b \in Nat /\ d \in Nat
  BY CeilDivLeast
<1>6. a <= d /\ d <= a + b /\ (SpecTokens[r] = 0 => b = 1)
  <2>1. SpecTokens[r] = 0 => n = 1
    BY DEF DecodeTokens
  <2>2. a <= d /\ d <= a + b /\ CeilDiv(1, BlockSize) = 1
    BY CeilDivFacts
  <2> QED
    BY <2>1, <2>2
<1>7. NeedsBlocks(c, n) <=> d > a
  BY DEF NeedsBlocks
<1>8. CASE ~NeedsBlocks(c, n)
  <2>1. kv' = kv
    BY <1>8
  <2>2. held >= d /\ (SpecTokens[r] = 0 => held = d)
    BY <1>2, <1>3, <1>5, <1>6, <1>7, <1>8
  <2>3. OthersKept(kv, kv', r)
    BY <2>1 DEF OthersKept
  <2> QED
    BY <1>1, <1>4, <2>1, <2>2, <2>3
<1>9. CASE NeedsBlocks(c, n)
  <2> DEFINE m == c + n
  <2>1. m \in Nat /\ BlocksFor(m, c) = b
    <3>1. Monus(m, c) = n
      BY DEF Monus
    <3> QED
      BY <3>1 DEF BlocksFor
  <2>2. kv' = AllocateSlots(kv, r, m, c) /\ CanAllocateSlots(kv, m, c)
    BY <1>9 DEF CanDecode
  <2> HIDE DEF m, a, b, d, held
  <2>3. KVOK(kv', Prompt)
    BY <1>1, <2>1, <2>2, AllocateSlotsOK
  <2>4. /\ OthersKept(kv, kv', r) /\ Grown(kv, kv', r, b)
        /\ DOMAIN kv'.blocks \subseteq DOMAIN kv.blocks \cup {r} /\ Unshared(kv')
    <3>1. /\ OthersKept(kv, AllocateSlots(kv, r, m, c), r)
          /\ Grown(kv, AllocateSlots(kv, r, m, c), r, BlocksFor(m, c))
          /\ DOMAIN AllocateSlots(kv, r, m, c).blocks \subseteq DOMAIN kv.blocks \cup {r}
          /\ Unshared(AllocateSlots(kv, r, m, c))
      BY <1>1, <2>1, <2>2, AllocateSlotsEffect
    <3> QED
      BY <2>1, <2>2, <3>1
  <2>5. Len(Table(kv', r)) = held + b
    BY <2>4 DEF Grown, held
  <2>6. Len(Table(kv', r)) >= d /\ (SpecTokens[r] = 0 => Len(Table(kv', r)) = d)
    BY <1>2, <1>3, <1>5, <1>6, <1>7, <1>9, <2>5
  <2>7. \A i \in DOMAIN Table(kv', r) : Label(kv', r, i) # NoHash => i * BlockSize <= c
    BY <1>4, <2>4 DEF Grown
  <2> QED
    BY <1>1, <2>3, <2>4, <2>6, <2>7 DEF d
<1> QED
  BY <1>8, <1>9

LEMMA MemoryDecode ==
    ASSUME ControlInv, ControlInv', MemInv, NEW r \in Requests, DecodeSchedule(r)
    PROVE  MemInv'
<1> DEFINE c == requests[r].computed
           n == DecodeTokens(r)
           t == Table(kv', r)
<1>1. /\ Decoding(r) /\ CanDecode(r)
      /\ kv' = IF NeedsBlocks(c, n) THEN AllocateSlots(kv, r, c + n, c) ELSE kv
      /\ requests' = [requests EXCEPT ![r].computed = c + n]
      /\ out' = OutDecoded(out, r, n, t)
      /\ UNCHANGED <<waiting, running, finished, phase, toPreempt>>
  BY DEF DecodeSchedule, OutDecoded
<1>2. /\ phase = "decode" /\ r \in ToSet(running) /\ r \in DOMAIN requests
      /\ r \notin ToSet(waiting) /\ r \notin ToSet(toPreempt) /\ r \notin finished
      /\ ToSet(todo') = ToSet(todo) \ {r} /\ requests[r] \in RequestStates
  BY <1>1, DecodingHead
<1>3. TypesOK /\ QueuesOK /\ LoopOK /\ BatchOK /\ MemoryOK /\ OutputOK /\ IsOutput(out)
  BY DEF ControlInv, MemInv, OutputOK
<1>4. c \in Nat /\ n \in Nat /\ n > 0
  BY <1>2, SchedulerAssumption DEF RequestStates, DecodeTokens
<1>5. /\ DOMAIN requests' = DOMAIN requests /\ requests'[r].computed = c + n
      /\ \A x \in DOMAIN requests : x # r => requests'[x] = requests[x]
  BY <1>1, <1>2 DEF RequestStates
<1>6. r \in ToSet(todo)
  <2>1. r = Head(todo) /\ todo # <<>> /\ todo \in Seq(Requests) /\ IsInjective(todo)
    BY <1>1, <1>3 DEF Decoding, TypesOK, LoopOK
  <2> QED
    BY <2>1, HeadTailDistinct
<1> HIDE DEF c, n, t
<1>7. r \notin ToSet(out.running) /\ out.new = <<>> /\ out.cached = <<>> /\ out.preempted = <<>>
  BY <1>2, <1>3, <1>6 DEF BatchOK, OutputOK
<1>8. /\ ToSet(<<>>) = {} /\ IsInjective(<<>>)
  BY DEF ToSet, IsInjective
<1>9. DOMAIN out.tokens = ToSet(out.running) /\ r \notin DOMAIN out.tokens
  BY <1>3, <1>7, <1>8 DEF BatchOK
<1>10. Filled(r) = c
  <2>1. Filled(r) = requests[r].computed - 0
    BY <1>7 DEF Filled
  <2> QED
    BY <1>4, <2>1 DEF c
<1>11. /\ KVOK(kv', Prompt) /\ Unshared(kv') /\ OthersKept(kv, kv', r)
       /\ DOMAIN kv'.blocks \subseteq DOMAIN requests
       /\ \A i \in DOMAIN Table(kv', r) : Label(kv', r, i) # NoHash => i * BlockSize <= c
       /\ Len(Table(kv', r)) >= CeilDiv(c + n, BlockSize)
       /\ SpecTokens[r] = 0 => Len(Table(kv', r)) = CeilDiv(c + n, BlockSize)
  <2>1. c = requests[r].computed /\ n = DecodeTokens(r)
    BY DEF c, n
  <2> QED
    BY <1>1, <1>2, <1>3, <1>4, <1>10, <2>1, DecodeGrowth
<1>12. /\ out'.running = Append(out.running, r)
       /\ out'.tokens = Put(out.tokens, r, n) /\ out'.tables = Put(out.tables, r, Table(kv', r))
       /\ out'.new = out.new /\ out'.cached = out.cached /\ out'.preempted = out.preempted
  BY <1>1, <1>3, DecodedOutput DEF t
<1>13. IsInjective(out'.running) /\ ToSet(out'.running) = ToSet(out.running) \cup {r}
  <2>1. out.running \in Seq(Requests) /\ IsInjective(out.running)
    BY <1>3 DEF OutputOK, BatchOK
  <2> QED
    BY <1>7, <1>12, <2>1, AppendDistinct
<1>14. \A s \in DOMAIN out.tokens : /\ Table(kv', s) = Table(kv, s)
                                    /\ requests'[s].computed = requests[s].computed
  <2>1. DOMAIN out.tokens \subseteq DOMAIN requests
    BY <1>3 DEF BatchOK, QueuesOK, NoRequestLost
  <2> QED
    BY <1>5, <1>9, <1>11, <2>1 DEF OthersKept
<1>15. \A i \in DOMAIN Table(kv', r) :
          i * BlockSize > requests'[r].computed - n =>
             \A s : s # r => Table(kv', r)[i] \notin ToSet(Table(kv', s))
  <2>1. requests'[r].computed - n = c
    BY <1>4, <1>5
  <2>2. TablesOK(kv'.blocks) /\ c \in Int
    BY <1>4, <1>11 DEF KVOK
  <2> QED
    BY <1>11, <2>1, <2>2, PastIsPrivate
<1>16. /\ DOMAIN out'.tokens = DOMAIN out.tokens \cup {r}
       /\ DOMAIN out'.tables = DOMAIN out'.tokens
       /\ \A x \in DOMAIN out'.tokens : out'.tables[x] = Table(kv', x) /\ out'.tokens[x] \in Nat
       /\ \A x \in DOMAIN out.tokens : out'.tokens[x] = out.tokens[x]
       /\ out'.tokens[r] = n
       /\ WritesDisjoint'
  BY <1>3, <1>4, <1>9, <1>12, <1>14, <1>15, BatchGrows
<1>17. BatchOK'
  <2>1. ToSet(out'.running) \subseteq ToSet(running')
    BY <1>1, <1>2, <1>3, <1>13 DEF BatchOK
  <2>2. ToSet(out'.running) \cap (ToSet(out'.preempted) \cup ToSet(toPreempt')) = {}
    BY <1>1, <1>2, <1>3, <1>7, <1>8, <1>12, <1>13 DEF BatchOK
  <2>3. ToSet(todo') \cap ToSet(out'.running) = {}
    BY <1>2, <1>3, <1>13 DEF BatchOK
  <2> QED
    BY <1>7, <1>8, <1>9, <1>12, <1>13, <1>16, <2>1, <2>2, <2>3 DEF BatchOK
<1>18. ASSUME NEW s \in DOMAIN requests', s # r PROVE s \in DOMAIN requests /\ SameFor(s)
  <2>1. s \in DOMAIN requests /\ requests'[s] = requests[s]
    BY <1>5, <1>18
  <2>2. /\ s \in ToSet(out'.running) <=> s \in ToSet(out.running)
        /\ s \in ToSet(out.running) => out'.tokens[s] = out.tokens[s]
    BY <1>9, <1>13, <1>16, <1>18
  <2>3. Filled(s) \in Int /\ Filled(s)' \in Int /\ Filled(s) <= Filled(s)'
    BY <1>3, <2>1, <2>2, FilledKept
  <2> QED
    BY <1>1, <2>1, <2>3 DEF SameFor
<1>19. RequestOK(r)'
  <2>1. Filled(r)' = c
    <3>1. Filled(r)' = requests'[r].computed - out'.tokens[r]
      BY <1>13 DEF Filled
    <3> QED
      BY <1>4, <1>5, <1>16, <3>1
  <2> QED
    BY <1>1, <1>2, <1>5, <1>11, <2>1 DEF RequestOK
<1>20. DOMAIN kv'.blocks \subseteq DOMAIN requests'
  BY <1>5, <1>11
<1>21. MemoryOK'
  BY <1>3, <1>11, <1>18, <1>19, <1>20, MemoryStep
<1> QED
  BY <1>17, <1>21 DEF MemInv

-----------------------------------------------------------------------------
(* Lookups.                                                                *)

(* After the lookup a waiting request holds exactly its cached prefix.     *)
LEMMA ProbeEffect ==
    ASSUME TypesOK, MemoryOK, NEW r \in Requests, r \in DOMAIN requests, r \in ToSet(waiting)
    PROVE  LET q == ProbedKV(r)
           IN  /\ KVOK(q, Prompt) /\ Unshared(q) /\ OthersKept(kv, q, r)
               /\ DOMAIN q.blocks \subseteq DOMAIN requests
               /\ Len(Table(q, r)) \in Nat /\ Len(Table(q, r)) * BlockSize = Cached(r)
               /\ ~Probed(r).hit => Len(Table(q, r)) = 0
<1> DEFINE q == ProbedKV(r)
<1>1. KVOK(kv, Prompt) /\ Unshared(kv) /\ RequestOK(r) /\ PromptOK(Prompt[r])
      /\ DOMAIN kv.blocks \subseteq DOMAIN requests
  BY PromptsOK DEF MemoryOK
<1>2. Len(Table(kv, r)) \in Nat /\ Table(kv, r) \in Seq(Usable)
  BY <1>1, TableType DEF KVOK
<1>3. Len(Table(kv, r)) * BlockSize = requests[r].computed
      /\ (~requests[r].hit => Len(Table(kv, r)) = 0)
  BY <1>1 DEF RequestOK
<1>4. requests[r] \in RequestStates
  BY DEF TypesOK
<1>5. CASE ~EnablePrefixCaching \/ requests[r].hit
  <2>1. q = kv /\ Probed(r) = requests[r]
    BY <1>5 DEF ProbedKV, Probed
  <2>2. OthersKept(kv, kv, r)
    BY DEF OthersKept
  <2> QED
    BY <1>1, <1>2, <1>3, <2>1, <2>2 DEF Cached
<1>6. CASE ~(~EnablePrefixCaching \/ requests[r].hit)
  <2> DEFINE skip == r \in SkipCache
             found == ComputedBlocks(kv, Prompt[r], skip)
             g == GetComputedBlocks(kv, r, Prompt[r], skip)
  <2>1. q = g /\ Probed(r) = [requests[r] EXCEPT !.computed = Len(found) * BlockSize,
                                                 !.hit = found # <<>>]
    BY <1>6 DEF ProbedKV, Probed
  <2>2. Probed(r).computed = Len(found) * BlockSize /\ Probed(r).hit = (found # <<>>)
    BY <1>4, <2>1 DEF RequestStates
  <2>3. Table(kv, r) = <<>>
    BY <1>2, <1>3, <1>6
  <2> HIDE DEF skip, found, q, g
  <2>4. Len(found) \in Nat /\ (Len(found) = 0 <=> found = <<>>)
    BY <1>1, ComputedBlocksLength DEF found
  <2>5. KVOK(g, Prompt)
    BY <1>1, <2>3, GetComputedBlocksOK DEF g
  <2>6. /\ OthersKept(kv, g, r) /\ Table(g, r) = found
        /\ DOMAIN g.blocks \subseteq DOMAIN kv.blocks \cup {r} /\ Unshared(g)
    <3>1. LookedUp(kv, g, r, found)
      BY <1>1, <2>3, GetComputedBlocksEffect DEF g, found
    <3> QED
      BY <3>1 DEF LookedUp
  <2> QED
    BY <1>1, <2>1, <2>2, <2>4, <2>5, <2>6 DEF Cached, q
<1> QED
  BY <1>5, <1>6

LEMMA MemoryLookup ==
    ASSUME ControlInv, ControlInv', MemInv, NEW r \in Requests, r \in DOMAIN requests,
           r \in ToSet(waiting), KVOK(kv', Prompt), TablesKept(ProbedKV(r), kv'),
           requests' = [requests EXCEPT ![r] = Probed(r)], phase' # "decode",
           UNCHANGED <<waiting, running, finished, toPreempt, out>>
    PROVE  MemInv'
<1> DEFINE q == ProbedKV(r)
<1>1. TypesOK /\ QueuesOK /\ LoopOK /\ BatchOK /\ MemoryOK /\ OutputOK
  BY DEF ControlInv, MemInv
<1>2. /\ KVOK(q, Prompt) /\ Unshared(q) /\ OthersKept(kv, q, r)
      /\ DOMAIN q.blocks \subseteq DOMAIN requests
      /\ Len(Table(q, r)) \in Nat /\ Len(Table(q, r)) * BlockSize = Cached(r)
      /\ ~Probed(r).hit => Len(Table(q, r)) = 0
  BY <1>1, ProbeEffect
<1>3. TablesKept(q, kv') /\ DOMAIN kv'.blocks = DOMAIN q.blocks
  BY DEF TablesKept
<1>4. /\ DOMAIN requests' = DOMAIN requests /\ requests'[r] = Probed(r)
      /\ \A x \in DOMAIN requests : x # r => requests'[x] = requests[x]
  OBVIOUS
<1>5. r \notin ToSet(running) /\ r \notin finished
  BY <1>1 DEF QueuesOK, NoRequestLost
<1> HIDE DEF q
<1>6. /\ Unshared(kv')
      /\ \A s : /\ Table(kv', s) = Table(q, s)
                /\ \A i \in DOMAIN Table(q, s) : Label(kv', s, i) = Label(q, s, i)
  BY <1>2, <1>3, TablesKeptEffect
<1>7. OthersKept(kv, kv', r)
  BY <1>2, <1>6 DEF OthersKept
<1>8. ASSUME NEW s \in DOMAIN requests', s # r PROVE s \in DOMAIN requests /\ SameFor(s)
  <2>1. s \in DOMAIN requests /\ requests'[s] = requests[s]
    BY <1>4, <1>8
  <2>2. Filled(s) \in Int /\ Filled(s)' \in Int /\ Filled(s) <= Filled(s)'
    BY <1>1, <2>1, FilledKept
  <2> QED
    BY <2>1, <2>2 DEF SameFor
<1>9. r \notin ToSet(out.running)
  BY <1>1, <1>5 DEF BatchOK
<1>10. RequestOK(r)'
  <2>1. Filled(r)' = Cached(r) - 0 /\ requests'[r].computed = Cached(r)
    BY <1>4, <1>9 DEF Filled, Cached
  <2>2. DOMAIN Table(kv', r) = 1..Len(Table(kv', r)) /\ Len(Table(kv', r)) \in Nat
    <3>1. TablesOK(kv'.blocks)
      BY DEF KVOK
    <3> QED
      BY <3>1, TableType
  <2>3. ASSUME NEW i \in DOMAIN Table(kv', r) PROVE i * BlockSize <= Filled(r)'
    <3>1. i \in Nat /\ i <= Len(Table(kv', r))
      BY <2>2
    <3>2. i * BlockSize <= Len(Table(kv', r)) * BlockSize /\ Len(Table(kv', r)) * BlockSize \in Nat
      BY <2>2, <3>1, TimesBlock
    <3> QED
      BY <1>2, <1>6, <2>1, <3>2
  <2> QED
    BY <1>2, <1>4, <1>5, <1>6, <2>1, <2>3 DEF RequestOK
<1>11. MemoryOK'
  BY <1>1, <1>2, <1>3, <1>4, <1>6, <1>7, <1>8, <1>10, MemoryStep
<1>12. BatchOK'
  <2>1. \A x \in DOMAIN out.tokens : /\ Table(kv', x) = Table(kv, x)
                                     /\ requests'[x].computed = requests[x].computed
    <3>1. DOMAIN out.tokens \subseteq ToSet(running) /\ ToSet(running) \subseteq DOMAIN requests
      BY <1>1 DEF BatchOK, QueuesOK, NoRequestLost
    <3> QED
      BY <1>4, <1>5, <1>7, <3>1 DEF OthersKept
  <2>2. /\ ToSet(out.running) \cap (ToSet(out.preempted) \cup ToSet(toPreempt)) = {}
        /\ IsInjective(out.cached) /\ ToSet(out.new) \cap ToSet(out.cached) = {}
        /\ ToSet(out.cached) \cap ToSet(out.running) = {}
        /\ ToSet(out.new) \cup ToSet(out.cached) \cup ToSet(out.running) \subseteq ToSet(running)
    BY <1>1 DEF BatchOK
  <2> QED
    BY <1>1, <2>1, <2>2, BatchStep
<1> QED
  BY <1>11, <1>12 DEF MemInv

LEMMA MemoryProbe ==
    ASSUME ControlInv, ControlInv', MemInv, NEW r \in Requests, Probe(r)
    PROVE  MemInv'
<1>1. /\ phase = "probe" /\ r = Head(todo) /\ kv' = ProbedKV(r) /\ phase' # "decode"
      /\ requests' = [requests EXCEPT ![r] = Probed(r)]
      /\ UNCHANGED <<waiting, running, finished, toPreempt, out>>
  BY DEF Probe
<1>2. TypesOK /\ QueuesOK /\ LoopOK /\ MemoryOK
  BY DEF ControlInv, MemInv
<1>3. r \in ToSet(waiting) /\ r \in DOMAIN requests
  <2>1. todo # <<>> /\ todo \in Seq(Requests) /\ IsInjective(todo) /\ ToSet(todo) \subseteq ToSet(waiting)
    BY <1>1, <1>2 DEF TypesOK, LoopOK
  <2>2. r \in ToSet(todo)
    BY <1>1, <2>1, HeadTailDistinct
  <2> QED
    BY <1>2, <2>1, <2>2 DEF QueuesOK, NoRequestLost
<1>4. KVOK(kv', Prompt) /\ TablesKept(ProbedKV(r), kv')
  BY <1>1, <1>2, <1>3, ProbeEffect DEF TablesKept
<1> QED
  BY <1>1, <1>3, <1>4, MemoryLookup

LEMMA MemoryRefuse ==
    ASSUME ControlInv, ControlInv', MemInv, NEW r \in Requests, AdmitNothing(r) \/ AdmitFail(r)
    PROVE  MemInv'
<1>1. /\ Admitting(r) /\ requests' = [requests EXCEPT ![r] = Probed(r)] /\ phase' # "decode"
      /\ UNCHANGED <<waiting, running, finished, toPreempt, out>>
  BY DEF AdmitNothing, AdmitFail
<1>2. r \in ToSet(waiting) /\ r \in DOMAIN requests
  BY <1>1, AdmittingBest
<1>3. TypesOK /\ MemoryOK
  BY DEF ControlInv, MemInv
<1> DEFINE q == ProbedKV(r)
<1>4. KVOK(q, Prompt)
  BY <1>2, <1>3, ProbeEffect
<1> HIDE DEF q
<1>5. KVOK(kv', Prompt) /\ TablesKept(q, kv')
  <2>1. CASE AdmitNothing(r)
    <3>1. kv' = q
      BY <2>1 DEF AdmitNothing, q
    <3> QED
      BY <1>4, <3>1 DEF TablesKept
  <2>2. CASE AdmitFail(r)
    <3> DEFINE c == Cached(r)
               m == c + PrefillTokens(r)
    <3>1. kv' = AllocateSlots(q, r, m, c) /\ ~CanAllocateSlots(q, m, c)
      BY <2>2 DEF AdmitFail, q
    <3>2. c \in Nat /\ m \in Nat
      BY <1>1, PrefillFits
    <3> HIDE DEF c, m
    <3>3. PromptOK(Prompt[r])
      BY PromptsOK
    <3> QED
      BY <1>4, <3>1, <3>2, <3>3, AllocateSlotsOK, AllocateSlotsFails
  <2> QED
    BY <2>1, <2>2
<1> QED
  BY <1>1, <1>2, <1>5, MemoryLookup DEF q

(* An admitted request moves to running with a table for its c tokens.     *)
LEMMA AdmittedMemory ==
    ASSUME ControlInv, ControlInv', MemInv, NEW r \in Requests, Admitting(r), NEW c \in Nat,
           Admitted(r, c), UNCHANGED finished, out'.running = out.running,
           \A s \in ToSet(out.running) : out'.tokens[s] = out.tokens[s],
           KVOK(kv', Prompt), Unshared(kv'), OthersKept(kv, kv', r),
           DOMAIN kv'.blocks \subseteq DOMAIN requests,
           Len(Table(kv', r)) = CeilDiv(c, BlockSize),
           \A i \in DOMAIN Table(kv', r) : Label(kv', r, i) # NoHash => i * BlockSize <= c
    PROVE  /\ MemoryOK' /\ requests'[r].computed = c
           /\ \A x \in DOMAIN requests : x # r => requests'[x] = requests[x]
           /\ ToSet(running') = ToSet(running) \cup {r}
           /\ \A s \in DOMAIN out.tokens : /\ Table(kv', s) = Table(kv, s)
                                           /\ requests'[s].computed = requests[s].computed
           /\ r \notin DOMAIN out.tokens /\ r \notin ToSet(out.running)
           /\ r \notin ToSet(out.new) /\ r \notin ToSet(out.cached)
<1>1. TypesOK /\ QueuesOK /\ QueuesOK' /\ BatchOK /\ MemoryOK
  BY DEF ControlInv, MemInv
<1>2. /\ r \in ToSet(waiting) /\ r \in DOMAIN requests /\ r \notin ToSet(running)
      /\ r \notin finished /\ Probed(r) \in RequestStates /\ requests[r].status = "waiting"
  BY AdmittingBest
<1>3. /\ waiting' = Without(waiting, r) /\ running' = Append(running, r)
      /\ requests' = [requests EXCEPT ![r] = [Probed(r) EXCEPT !.status = "running",
                                                               !.computed = c]]
  BY DEF Admitted
<1>4. /\ DOMAIN requests' = DOMAIN requests
      /\ \A x \in DOMAIN requests : x # r => requests'[x] = requests[x]
      /\ requests'[r].computed = c /\ requests'[r].status = "running"
  BY <1>2, <1>3 DEF RequestStates
<1>5. ToSet(running') = ToSet(running) \cup {r}
  BY <1>1, <1>2, <1>3, AppendDistinct DEF TypesOK, QueuesOK, NoRequestLost
<1>6. r \notin ToSet(waiting')
  BY <1>1, <1>4, <1>2 DEF QueuesOK, NoRequestLost
<1>7. /\ r \notin DOMAIN out.tokens /\ r \notin ToSet(out.running)
      /\ r \notin ToSet(out.new) /\ r \notin ToSet(out.cached)
  BY <1>1, <1>2 DEF BatchOK
<1>8. ASSUME NEW s \in DOMAIN requests', s # r PROVE s \in DOMAIN requests /\ SameFor(s)
  <2>1. s \in DOMAIN requests /\ s \in DOMAIN requests' /\ requests'[s] = requests[s]
    BY <1>4, <1>8
  <2>2. s \in ToSet(waiting') <=> s \in ToSet(waiting)
    BY <1>1, <2>1, WaitingByStatus
  <2>3. Filled(s) \in Int /\ Filled(s)' \in Int /\ Filled(s) <= Filled(s)'
    BY <1>1, <2>1, FilledKept
  <2> QED
    BY <1>5, <1>8, <2>1, <2>2, <2>3 DEF SameFor
<1>9. RequestOK(r)'
  <2>1. Filled(r)' = c
    <3>1. Filled(r)' = c - 0
      BY <1>4, <1>7 DEF Filled
    <3> QED
      BY <3>1
  <2>2. CeilDiv(c, BlockSize) \in Nat
    BY CeilDivLeast
  <2> QED
    BY <1>2, <1>4, <1>6, <2>1, <2>2 DEF RequestOK
<1>10. DOMAIN kv'.blocks \subseteq DOMAIN requests'
  BY <1>4
<1>11. MemoryOK'
  BY <1>1, <1>8, <1>9, <1>10, MemoryStep
<1>12. \A s \in DOMAIN out.tokens : /\ Table(kv', s) = Table(kv, s)
                                    /\ requests'[s].computed = requests[s].computed
  <2>1. DOMAIN out.tokens \subseteq DOMAIN requests
    BY <1>1 DEF BatchOK, QueuesOK, NoRequestLost
  <2> QED
    BY <1>4, <1>7, <2>1 DEF OthersKept
<1> QED
  BY <1>4, <1>5, <1>7, <1>11, <1>12

LEMMA MemoryAdmitCached ==
    ASSUME ControlInv, ControlInv', MemInv, NEW r \in Requests, AdmitCached(r)
    PROVE  MemInv'
<1> DEFINE c == Cached(r)
<1>1. /\ Admitting(r) /\ kv' = ProbedKV(r) /\ Admitted(r, c) /\ out' = OutCached(out, r)
      /\ phase' # "decode" /\ UNCHANGED <<finished, toPreempt>>
  BY DEF AdmitCached, OutCached
<1>2. c \in Nat
  BY <1>1, PrefillFits
<1>3. TypesOK /\ MemoryOK /\ BatchOK /\ OutputOK /\ IsOutput(out)
  BY DEF ControlInv, MemInv, OutputOK
<1>4. r \in ToSet(waiting) /\ r \in DOMAIN requests /\ r \notin ToSet(running)
  BY <1>1, AdmittingBest
<1>5. /\ KVOK(kv', Prompt) /\ Unshared(kv') /\ OthersKept(kv, kv', r)
      /\ DOMAIN kv'.blocks \subseteq DOMAIN requests
      /\ Len(Table(kv', r)) \in Nat /\ Len(Table(kv', r)) * BlockSize = c
  BY <1>1, <1>3, <1>4, ProbeEffect
<1>6. /\ out'.cached = Append(out.cached, r) /\ out'.new = out.new /\ out'.running = out.running
      /\ out'.preempted = out.preempted /\ out'.tokens = out.tokens /\ out'.tables = out.tables
  BY <1>1, <1>3, CachedOutput
<1> HIDE DEF c
<1>7. Len(Table(kv', r)) = CeilDiv(c, BlockSize)
  <2> DEFINE k == Len(Table(kv', r))
  <2>1. k \in Nat /\ c = k * BlockSize
    BY <1>5
  <2> HIDE DEF k
  <2>2. CeilDiv(c, BlockSize) = k
    BY <1>2, <2>1, CeilDivFacts
  <2> QED
    BY <2>2 DEF k
<1>8. \A i \in DOMAIN Table(kv', r) : i * BlockSize <= c
  <2>1. DOMAIN Table(kv', r) = 1..Len(Table(kv', r))
    BY <1>5, TableType DEF KVOK
  <2> SUFFICES ASSUME NEW i \in 1..Len(Table(kv', r)) PROVE i * BlockSize <= c
    BY <2>1
  <2>2. i \in Nat /\ i <= Len(Table(kv', r))
    BY <1>5
  <2> QED
    BY <1>5, <2>2, TimesBlock
<1>9. /\ MemoryOK'
      /\ ToSet(running') = ToSet(running) \cup {r}
      /\ \A s \in DOMAIN out.tokens : /\ Table(kv', s) = Table(kv, s)
                                      /\ requests'[s].computed = requests[s].computed
      /\ r \notin ToSet(out.running)
      /\ r \notin ToSet(out.new) /\ r \notin ToSet(out.cached)
  BY <1>1, <1>2, <1>5, <1>6, <1>7, <1>8, AdmittedMemory
<1>10. BatchOK'
  <2>1. ToSet(out'.cached) = ToSet(out.cached) \cup {r} /\ IsInjective(out'.cached)
    <3>1. out.cached \in Seq(Requests) /\ IsInjective(out.cached)
      BY <1>3 DEF OutputOK, BatchOK
    <3> QED
      BY <1>6, <1>9, <3>1, AppendDistinct
  <2>2. /\ ToSet(out.running) \cap (ToSet(out'.preempted) \cup ToSet(toPreempt')) = {}
        /\ ToSet(out'.new) \cap ToSet(out'.cached) = {}
        /\ ToSet(out'.cached) \cap ToSet(out'.running) = {}
        /\ ToSet(out.new) \cup ToSet(out'.cached) \cup ToSet(out.running) \subseteq ToSet(running')
    BY <1>1, <1>3, <1>6, <1>9, <2>1 DEF BatchOK
  <2> QED
    BY <1>1, <1>3, <1>6, <1>9, <2>1, <2>2, BatchStep
<1> QED
  BY <1>9, <1>10 DEF MemInv

LEMMA OthersKeptTwice ==
    ASSUME NEW k1, NEW k2, NEW k3, NEW r, OthersKept(k1, k2, r), OthersKept(k2, k3, r)
    PROVE  OthersKept(k1, k3, r)
BY DEF OthersKept

(* What a prefill does to the memory: the blocks it adds are its own, and  *)
(* it labels only blocks it fills.                                         *)
LEMMA PrefillGrowth ==
    ASSUME NEW q, KVOK(q, Prompt), Unshared(q), NEW r \in Requests,
           NEW c \in Nat, NEW n \in Nat, Len(Table(q, r)) * BlockSize = c,
           CanAllocateSlots(q, c + n, c), NEW k, NEW slots, slots = AllocateSlots(q, r, c + n, c),
           k = CacheBlocks(slots, r, c + n)
    PROVE  /\ KVOK(k, Prompt) /\ Unshared(k) /\ OthersKept(q, k, r)
           /\ DOMAIN k.blocks \subseteq DOMAIN q.blocks \cup {r}
           /\ Table(k, r) = Table(slots, r)
           /\ Len(Table(k, r)) = CeilDiv(c + n, BlockSize)
           /\ \A i \in DOMAIN Table(k, r) : Label(k, r, i) # NoHash => i * BlockSize <= c + n
           /\ \A i \in DOMAIN Table(k, r) :
                 i * BlockSize > c => \A s : s # r => Table(k, r)[i] \notin ToSet(Table(k, s))
<1> DEFINE m == c + n
           held == Len(Table(q, r))
           b == CeilDiv(n, BlockSize)
<1>1. m \in Nat /\ BlocksFor(m, c) = b
  <2>1. Monus(m, c) = n
    BY DEF Monus
  <2> QED
    BY <2>1 DEF BlocksFor
<1>2. PromptOK(Prompt[r]) /\ TablesOK(q.blocks)
  BY PromptsOK DEF KVOK
<1>3. held \in Nat /\ DOMAIN Table(q, r) = 1..held
  BY <1>2, TableType
<1>4. b \in Nat /\ CeilDiv(c + n, BlockSize) = held + b
  <2>1. c = held * BlockSize
    BY DEF held
  <2> HIDE DEF held
  <2>2. b \in Nat
    BY CeilDivLeast
  <2>3. CeilDiv(c + n, BlockSize) = held + b
    BY <1>3, <2>1, CeilDivFacts
  <2> QED
    BY <2>2, <2>3
<1>5. slots = AllocateSlots(q, r, m, c) /\ k = CacheBlocks(slots, r, m) /\ CanAllocateSlots(q, m, c)
  OBVIOUS
<1> HIDE DEF m, held, b
<1>6. KVOK(slots, Prompt)
  BY <1>1, <1>2, <1>5, AllocateSlotsOK
<1>7. /\ OthersKept(q, slots, r) /\ Grown(q, slots, r, b)
      /\ DOMAIN slots.blocks \subseteq DOMAIN q.blocks \cup {r} /\ Unshared(slots)
  <2>1. /\ OthersKept(q, AllocateSlots(q, r, m, c), r)
        /\ Grown(q, AllocateSlots(q, r, m, c), r, BlocksFor(m, c))
        /\ DOMAIN AllocateSlots(q, r, m, c).blocks \subseteq DOMAIN q.blocks \cup {r}
        /\ Unshared(AllocateSlots(q, r, m, c))
    BY <1>1, <1>5, AllocateSlotsEffect
  <2> QED
    BY <1>1, <1>5, <2>1
<1>8. KVOK(k, Prompt)
  BY <1>1, <1>5, <1>6, CacheBlocksOK
<1>9. /\ OthersKept(slots, k, r) /\ Table(k, r) = Table(slots, r)
      /\ DOMAIN k.blocks = DOMAIN slots.blocks /\ Unshared(k)
      /\ \A i \in DOMAIN Table(slots, r) :
            \/ Label(k, r, i) = Label(slots, r, i)
            \/ Label(k, r, i) # NoHash /\ i * BlockSize <= m
  <2> DEFINE z == CacheBlocks(slots, r, m)
  <2>1. /\ OthersKept(slots, z, r) /\ Table(z, r) = Table(slots, r)
        /\ DOMAIN z.blocks = DOMAIN slots.blocks /\ Unshared(z)
        /\ \A i \in DOMAIN Table(slots, r) :
              \/ Label(z, r, i) = Label(slots, r, i)
              \/ Label(z, r, i) # NoHash /\ i * BlockSize <= m
    BY <1>1, <1>6, <1>7, CacheBlocksEffect
  <2> QED
    BY <1>5, <2>1
<1>10. OthersKept(q, k, r)
  BY <1>7, <1>9, OthersKeptTwice
<1>11. Len(Table(k, r)) = held + b /\ Len(Table(k, r)) \in Nat
       /\ DOMAIN Table(k, r) = 1..Len(Table(k, r))
  BY <1>3, <1>4, <1>7, <1>8, <1>9, TableType DEF Grown, held, KVOK
<1>12. ASSUME NEW i \in DOMAIN Table(k, r), i \in 1..held PROVE i * BlockSize <= c /\ i * BlockSize <= m
  <2>1. i \in Nat /\ i <= held
    BY <1>3, <1>12
  <2>2. i * BlockSize \in Nat /\ i * BlockSize <= held * BlockSize
    BY <1>3, <2>1, TimesBlock
  <2>3. held * BlockSize = c /\ c <= m
    BY DEF held, m
  <2> QED
    BY <1>1, <2>2, <2>3
<1>13. ASSUME NEW i \in DOMAIN Table(k, r), Label(k, r, i) # NoHash PROVE i * BlockSize <= m
  <2>1. CASE i \in 1..held
    BY <1>12, <2>1
  <2>2. CASE i \notin 1..held
    <3>1. i \in DOMAIN Table(slots, r) \ DOMAIN Table(q, r)
      BY <1>3, <1>9, <2>2
    <3>2. Label(slots, r, i) = NoHash
      BY <1>7, <3>1 DEF Grown
    <3> QED
      BY <1>9, <1>13, <3>1, <3>2
  <2> QED
    BY <2>1, <2>2
<1>14. ASSUME NEW i \in DOMAIN Table(k, r), i * BlockSize > c, NEW s, s # r
       PROVE  Table(k, r)[i] \notin ToSet(Table(k, s))
  <2>1. i \notin 1..held
    <3>1. i * BlockSize \in Nat
      BY <1>11, KVAssumption
    <3> QED
      BY <1>12, <1>14, <3>1
  <2>2. i \in DOMAIN Table(slots, r) \ DOMAIN Table(q, r)
    BY <1>3, <1>9, <2>1
  <2>3. Table(slots, r)[i] \notin ToSet(Table(slots, s))
    BY <1>7, <1>14, <2>2 DEF Grown
  <2>4. Table(k, s) = Table(slots, s)
    BY <1>9, <1>14 DEF OthersKept
  <2> QED
    BY <1>9, <2>3, <2>4
<1> QED
  BY <1>4, <1>7, <1>8, <1>9, <1>10, <1>11, <1>13, <1>14 DEF m

LEMMA MemoryAdmitNew ==
    ASSUME ControlInv, ControlInv', MemInv, NEW r \in Requests, AdmitNew(r)
    PROVE  MemInv'
<1> DEFINE c == Cached(r)
           n == PrefillTokens(r)
           q == ProbedKV(r)
           slots == AllocateSlots(q, r, c + n, c)
<1>1. /\ Admitting(r) /\ CanAllocateSlots(q, c + n, c) /\ kv' = CacheBlocks(slots, r, c + n)
      /\ Admitted(r, c + n) /\ out' = OutAdmitted(out, r, n, Table(slots, r))
      /\ phase' # "decode" /\ UNCHANGED <<finished, toPreempt>>
  BY DEF AdmitNew, OutAdmitted
<1>2. c \in Nat /\ n \in Nat
  BY <1>1, PrefillFits
<1>3. TypesOK /\ MemoryOK /\ BatchOK /\ OutputOK /\ IsOutput(out)
  BY DEF ControlInv, MemInv, OutputOK
<1>4. r \in ToSet(waiting) /\ r \in DOMAIN requests /\ r \notin ToSet(running)
  BY <1>1, AdmittingBest
<1>5. /\ KVOK(q, Prompt) /\ Unshared(q) /\ OthersKept(kv, q, r)
      /\ DOMAIN q.blocks \subseteq DOMAIN requests
      /\ Len(Table(q, r)) * BlockSize = c
  BY <1>3, <1>4, ProbeEffect
<1>6. /\ slots = AllocateSlots(q, r, c + n, c) /\ c + n \in Nat /\ (c + n) - n = c
  BY <1>2
<1>7. /\ out'.new = Append(out.new, r) /\ out'.running = out.running /\ out'.cached = out.cached
      /\ out'.preempted = out.preempted
      /\ out'.tokens = Put(out.tokens, r, n) /\ out'.tables = Put(out.tables, r, Table(slots, r))
  BY <1>1, <1>3, AdmittedOutput
<1>8. r \notin DOMAIN out.tokens
  BY <1>3, <1>4 DEF BatchOK
<1> HIDE DEF c, n, q, slots
<1>9. /\ KVOK(kv', Prompt) /\ Unshared(kv') /\ OthersKept(q, kv', r)
      /\ DOMAIN kv'.blocks \subseteq DOMAIN q.blocks \cup {r}
      /\ Table(kv', r) = Table(slots, r)
      /\ Len(Table(kv', r)) = CeilDiv(c + n, BlockSize)
      /\ \A i \in DOMAIN Table(kv', r) : Label(kv', r, i) # NoHash => i * BlockSize <= c + n
      /\ \A i \in DOMAIN Table(kv', r) :
            i * BlockSize > c => \A s : s # r => Table(kv', r)[i] \notin ToSet(Table(kv', s))
  BY <1>1, <1>2, <1>5, <1>6, PrefillGrowth
<1>10. OthersKept(kv, kv', r) /\ DOMAIN kv'.blocks \subseteq DOMAIN requests
  BY <1>4, <1>5, <1>9, OthersKeptTwice
<1>11. \A s \in ToSet(out.running) : out'.tokens[s] = out.tokens[s]
  BY <1>3, <1>7, <1>8 DEF BatchOK, Put
<1>12. /\ MemoryOK' /\ requests'[r].computed = c + n
       /\ ToSet(running') = ToSet(running) \cup {r}
       /\ \A s \in DOMAIN out.tokens : /\ Table(kv', s) = Table(kv, s)
                                       /\ requests'[s].computed = requests[s].computed
       /\ r \notin DOMAIN out.tokens /\ r \notin ToSet(out.running)
       /\ r \notin ToSet(out.new) /\ r \notin ToSet(out.cached)
  <2> DEFINE m == c + n
  <2>1. /\ m \in Nat /\ Admitted(r, m) /\ Len(Table(kv', r)) = CeilDiv(m, BlockSize)
        /\ \A i \in DOMAIN Table(kv', r) : Label(kv', r, i) # NoHash => i * BlockSize <= m
    BY <1>1, <1>6, <1>9
  <2> HIDE DEF m
  <2>2. /\ MemoryOK' /\ requests'[r].computed = m
        /\ ToSet(running') = ToSet(running) \cup {r}
        /\ \A s \in DOMAIN out.tokens : /\ Table(kv', s) = Table(kv, s)
                                        /\ requests'[s].computed = requests[s].computed
        /\ r \notin DOMAIN out.tokens /\ r \notin ToSet(out.running)
        /\ r \notin ToSet(out.new) /\ r \notin ToSet(out.cached)
    BY <1>1, <1>7, <1>9, <1>10, <1>11, <2>1, AdmittedMemory
  <2> QED
    BY <2>2 DEF m
<1>13. \A i \in DOMAIN Table(kv', r) :
          i * BlockSize > requests'[r].computed - n =>
             \A s : s # r => Table(kv', r)[i] \notin ToSet(Table(kv', s))
  BY <1>6, <1>9, <1>12
<1>14. /\ DOMAIN out'.tokens = DOMAIN out.tokens \cup {r}
       /\ DOMAIN out'.tables = DOMAIN out'.tokens
       /\ \A x \in DOMAIN out'.tokens : out'.tables[x] = Table(kv', x) /\ out'.tokens[x] \in Nat
       /\ WritesDisjoint'
  <2>1. out'.tables = Put(out.tables, r, Table(kv', r))
    BY <1>7, <1>9
  <2> QED
    BY <1>2, <1>3, <1>7, <1>8, <1>12, <1>13, <2>1, BatchGrows
<1>15. BatchOK'
  <2>1. ToSet(out'.new) = ToSet(out.new) \cup {r} /\ IsInjective(out'.new)
    <3>1. out.new \in Seq(Requests) /\ IsInjective(out.new)
      BY <1>3 DEF OutputOK, BatchOK
    <3> QED
      BY <1>7, <1>12, <3>1, AppendDistinct
  <2>2. /\ ToSet(out'.running) \cap (ToSet(out'.preempted) \cup ToSet(toPreempt')) = {}
        /\ ToSet(out'.new) \cap ToSet(out'.cached) = {}
        /\ ToSet(out'.new) \cap ToSet(out'.running) = {}
        /\ ToSet(out'.cached) \cap ToSet(out'.running) = {}
        /\ ToSet(out'.new) \cup ToSet(out'.cached) \cup ToSet(out'.running) \subseteq ToSet(running')
    BY <1>1, <1>3, <1>7, <1>12, <2>1 DEF BatchOK
  <2>3. DOMAIN out'.tokens = ToSet(out'.new) \cup ToSet(out'.running)
    BY <1>3, <1>7, <1>14, <2>1 DEF BatchOK
  <2>4. IsInjective(out'.cached) /\ IsInjective(out'.running)
    BY <1>3, <1>7 DEF BatchOK
  <2> QED
    BY <1>1, <1>14, <2>1, <2>2, <2>3, <2>4 DEF BatchOK
<1> QED
  BY <1>12, <1>15 DEF MemInv

LEMMA MemoryActions ==
    ASSUME ControlInv, ControlInv', MemInv, [Next]_vars
    PROVE  MemInv'
<1>1. CASE StepAction
  BY <1>1, MemoryBegins, MemoryQuiet, MemoryFinish, MemoryDecodeLength, MemoryDecode,
     MemoryPreempt, MemoryProbe, MemoryAdmitCached, MemoryAdmitNew, MemoryRefuse DEF StepAction
<1>2. ASSUME NEW r \in Requests, AbortRequest(r) PROVE MemInv'
  <2>1. phase = "idle" /\ Forget(r) /\ out' = out
    BY <1>2 DEF AbortRequest, stepVars
  <2>2. TypesOK /\ QueuesOK /\ SeqsRespected /\ out = EmptyOutput
    BY <2>1 DEF ControlInv, OutputOK
  <2> QED
    BY <2>1, <2>2, MemoryForget
<1>3. CASE OwnerCall
  BY <1>2, <1>3, MemoryQuiet, MemoryAdd DEF OwnerCall
<1>4. CASE StepReturn
  BY <1>4, MemoryBegins
<1>5. CASE UNCHANGED vars
  BY <1>5, MemoryQuiet
<1> QED
  BY <1>1, <1>3, <1>4, <1>5 DEF Next

(* Queues, loops, output and memory agree in every state of every step.    *)
THEOREM MemoryInvariant == Spec => [](ControlInv /\ MemInv)
<1>1. Init => ControlInv /\ MemInv
  BY ControlInit, MemoryInit
<1>2. (ControlInv /\ MemInv) /\ [Next]_vars => (ControlInv /\ MemInv)'
  BY ControlStep, MemoryActions
<1> QED
  BY <1>1, <1>2, PTL DEF Spec

LEMMA WritesArePrivate ==
    ASSUME ControlInv, MemInv
    PROVE  WritesPrivate
<1>1. TypesOK /\ QueuesOK /\ BatchOK /\ MemoryOK /\ KVOK(kv, Prompt) /\ Unshared(kv)
  BY DEF ControlInv, MemInv, MemoryOK
<1> SUFFICES ASSUME NEW r \in DOMAIN out.tokens, NEW b \in Written(r)
             PROVE  /\ \A s \in DOMAIN out.tokens \ {r} : b \notin Written(s)
                    /\ r \in ToSet(out.running) =>
                          kv.pool.hash[b] = NoHash /\ kv.pool.refCount[b] = 1
  BY DEF WritesPrivate
<1>2. \A s \in DOMAIN out.tokens \ {r} : b \notin Written(s)
  <2>1. \A s \in DOMAIN out.tokens : r # s => Written(r) \cap Written(s) = {}
    BY <1>1 DEF BatchOK, WritesDisjoint
  <2> QED
    BY <2>1
<1>3. ASSUME r \in ToSet(out.running)
      PROVE  kv.pool.hash[b] = NoHash /\ kv.pool.refCount[b] = 1
  <2>1. r \in DOMAIN requests /\ out.tables[r] = Table(kv, r) /\ out.tokens[r] \in Nat
    BY <1>1 DEF BatchOK, QueuesOK, NoRequestLost
  <2>2. PICK i \in DOMAIN Table(kv, r) :
            b = Table(kv, r)[i] /\ i * BlockSize > requests[r].computed - out.tokens[r]
    BY <2>1 DEF Written
  <2>3. Filled(r) = requests[r].computed - out.tokens[r] /\ Filled(r) \in Int
    BY <1>1, <1>3, <2>1, FilledType DEF Filled
  <2>4. i * BlockSize \in Nat
    BY <1>1, <2>2, TableType, KVAssumption DEF KVOK
  <2>5. Label(kv, r, i) # NoHash => i * BlockSize <= Filled(r)
    BY <1>1, <2>1, <2>2 DEF MemoryOK, RequestOK
  <2>6. Label(kv, r, i) = NoHash
    BY <2>2, <2>3, <2>4, <2>5
  <2>7. kv.pool.refCount[Table(kv, r)[i]] = 1
    BY <1>1, <2>6, PrivateBlock
  <2> QED
    BY <2>2, <2>6, <2>7 DEF Label
<1> QED
  BY <1>2, <1>3

(* A batch writes only its own memory: the manager's accounts are exact in *)
(* every state of a step, tables cover exactly the tokens counted, no two  *)
(* requests write one block and a decode writes no cached or shared block. *)
THEOREM MemoryStaysSafe == Spec => []MemorySafe
<1>1. ControlInv /\ MemInv => MemorySafe
  <2> SUFFICES ASSUME ControlInv, MemInv PROVE MemorySafe
    OBVIOUS
  <2>1. KVOK(kv, Prompt) /\ MemoryOK
    BY DEF MemInv, MemoryOK
  <2>2. KVConsistent
    <3>1. PoolOK(kv.pool) /\ TablesDistinctOf(kv)
      BY <2>1 DEF KVOK, TablesOK, TablesDistinctOf, ToSet
    <3>2. RefExactOf(kv)
      BY <2>1, RefsAreExact DEF KVOK
    <3> QED
      BY <3>1, <3>2 DEF KVConsistent
  <2>3. SlotsCoverTokens
    BY <2>1 DEF MemoryOK, RequestOK, SlotsCoverTokens
  <2>4. WritesPrivate
    BY WritesArePrivate
  <2> QED
    BY <2>2, <2>3, <2>4 DEF MemorySafe
<1> QED
  BY <1>1, MemoryInvariant, PTL

(* Blocks shared through the prefix cache hold the sharer's own tokens.    *)
THEOREM SharedBlocksMatch == Spec => []PrefixMatches
<1>1. MemInv => PrefixMatches
  BY DEF MemInv, MemoryOK, KVOK, PrefixMatches
<1> QED
  BY <1>1, MemoryInvariant, PTL

(* The output names each request once, with its current table, and never   *)
(* one it preempted.                                                       *)
THEOREM OutputStaysCurrent == Spec => []OutputCurrent
<1>1. ControlInv /\ MemInv => OutputCurrent
  <2> SUFFICES ASSUME ControlInv, MemInv PROVE OutputCurrent
    OBVIOUS
  <2> DEFINE first == out.new \o out.cached
             scheduled == first \o out.running
  <2>1. BatchOK /\ out.new \in Seq(Requests) /\ out.cached \in Seq(Requests)
        /\ out.running \in Seq(Requests)
    BY DEF MemInv, ControlInv, OutputOK
  <2>2. /\ first \in Seq(Requests) /\ IsInjective(first)
        /\ ToSet(first) = ToSet(out.new) \cup ToSet(out.cached)
    BY <2>1, ConcatDistinct DEF BatchOK
  <2> HIDE DEF first
  <2>3. ToSet(first) \cap ToSet(out.running) = {}
    BY <2>1, <2>2 DEF BatchOK
  <2>4. IsInjective(scheduled) /\ ToSet(scheduled) = ToSet(first) \cup ToSet(out.running)
    <3>1. IsInjective(out.running)
      BY <2>1 DEF BatchOK
    <3> QED
      BY <2>1, <2>2, <2>3, <3>1, ConcatDistinct
  <2>5. scheduled = out.new \o out.cached \o out.running
    BY DEF first
  <2> HIDE DEF scheduled
  <2>6. /\ ToSet(scheduled) \subseteq ToSet(running)
        /\ DOMAIN out.tokens = ToSet(out.new) \cup ToSet(out.running)
        /\ DOMAIN out.tables = DOMAIN out.tokens
        /\ \A r \in DOMAIN out.tables : out.tables[r] = Table(kv, r)
        /\ ToSet(out.running) \cap ToSet(out.preempted) = {}
    BY <2>1, <2>2, <2>4 DEF BatchOK
  <2> QED
    BY <2>4, <2>5, <2>6 DEF OutputCurrent
<1> QED
  BY <1>1, MemoryInvariant, PTL

(* Every variable keeps its type.                                          *)
THEOREM SchedulerTypes == Spec => []TypeOK
<1>1. ControlInv /\ MemInv => TypeOK
  <2> SUFFICES ASSUME ControlInv, MemInv PROVE TypeOK
    OBVIOUS
  <2>1. TypesOK /\ QueuesOK /\ KVOK(kv, Prompt) /\ DOMAIN kv.blocks \subseteq DOMAIN requests
    BY DEF ControlInv, MemInv, MemoryOK
  <2>2. kv.pool \in Pool /\ DOMAIN kv.blocks \subseteq Requests /\ finished \subseteq Requests
    BY <2>1 DEF KVOK, PoolOK, TypesOK, QueuesOK
  <2> QED
    BY <2>1, <2>2 DEF TypesOK, TypeOK, RequestStates
<1> QED
  BY <1>1, MemoryInvariant, PTL

-----------------------------------------------------------------------------
(* The limits of a step.                                                   *)

LEMMA SumExists ==
    ASSUME NEW d, NEW n \in Nat
    PROVE  \E f : f = [i \in 0..n |-> IF i = 0 THEN 0 ELSE f[i - 1] + d[i]]
<1> DEFINE IsSum(f, k) == f = [i \in 0..k |-> IF i = 0 THEN 0 ELSE f[i - 1] + d[i]]
           T == {k \in Nat : ~ \E f : IsSum(f, k)}
<1> SUFFICES ASSUME T # {} PROVE FALSE
  OBVIOUS
<1>1. PICK k \in T : \A j \in T : k <= j
  <2> HIDE DEF T
  <2>1. T \subseteq Nat
    BY DEF T
  <2> QED
    BY <2>1, NatMinimum
<1>2. CASE k = 0
  <2> DEFINE f == [i \in 0..0 |-> 0]
  <2>1. IsSum(f, 0)
    OBVIOUS
  <2> QED
    BY <1>1, <1>2, <2>1
<1>3. CASE k > 0
  <2>1. k - 1 \in Nat /\ k - 1 \notin T
    BY <1>1, <1>3
  <2>2. PICK g : IsSum(g, k - 1)
    BY <2>1
  <2> DEFINE f == [i \in 0..k |-> IF i = k THEN g[k - 1] + d[k] ELSE g[i]]
  <2>3. \A i \in 0..(k - 1) : g[i] = IF i = 0 THEN 0 ELSE g[i - 1] + d[i]
    BY <2>1, <2>2
  <2>4. \A i \in 0..k : f[i] = IF i = 0 THEN 0 ELSE f[i - 1] + d[i]
    BY <1>3, <2>1, <2>3
  <2>5. IsSum(f, k)
    BY <2>4
  <2> QED
    BY <1>1, <2>5
<1> QED
  BY <1>1, <1>2, <1>3

LEMMA TotalRun ==
    ASSUME NEW tokens, NEW s, Len(s) \in Nat
    PROVE  \E f : /\ f[0] = 0
                  /\ \A i \in 1..Len(s) : f[i] = f[i - 1] + tokens[s[i]]
                  /\ TotalTokens(tokens, s) = f[Len(s)]
<1> DEFINE m == Len(s)
           d == [i \in 1..m |-> tokens[s[i]]]
           Rec(f) == f = [i \in 0..m |-> IF i = 0 THEN 0 ELSE f[i - 1] + tokens[s[i]]]
           run == CHOOSE f : Rec(f)
<1>1. PICK f : f = [i \in 0..m |-> IF i = 0 THEN 0 ELSE f[i - 1] + d[i]]
  <2> HIDE DEF d
  <2> QED
    BY SumExists
<1>2. Rec(f)
  <2>1. \A i \in 0..m : i # 0 => i \in 1..m /\ d[i] = tokens[s[i]]
    OBVIOUS
  <2> HIDE DEF d, m
  <2>2. \A i \in 0..m : f[i] = IF i = 0 THEN 0 ELSE f[i - 1] + tokens[s[i]]
    BY <1>1, <2>1
  <2> QED
    BY <1>1, <2>2
<1>3. Rec(run)
  <2> HIDE DEF Rec
  <2> QED
    BY <1>2
<1>4. TotalTokens(tokens, s) = run[m]
  BY DEF TotalTokens
<1>5. run[0] = 0 /\ \A i \in 1..m : run[i] = run[i - 1] + tokens[s[i]]
  <2> HIDE DEF run
  <2> QED
    BY <1>3
<1> QED
  BY <1>4, <1>5

(* One more scheduled request adds its tokens to the total.                *)
LEMMA TotalAppend ==
    ASSUME NEW S, NEW s \in Seq(S), NEW r \in S, r \notin ToSet(s), NEW tokens,
           ToSet(s) \subseteq DOMAIN tokens, NEW n
    PROVE  TotalTokens(Put(tokens, r, n), Append(s, r)) = TotalTokens(tokens, s) + n
<1> DEFINE t == Put(tokens, r, n)
           u == Append(s, r)
           m == Len(s)
<1>1. m \in Nat /\ Len(u) = m + 1 /\ u[m + 1] = r /\ \A i \in 1..m : u[i] = s[i]
  OBVIOUS
<1>2. t[r] = n /\ \A i \in 1..m : t[s[i]] = tokens[s[i]]
  <2>1. \A i \in 1..m : s[i] \in ToSet(s)
    BY DEF ToSet
  <2> QED
    BY <2>1 DEF Put
<1>3. PICK f : f[0] = 0 /\ (\A i \in 1..m : f[i] = f[i - 1] + tokens[s[i]])
               /\ TotalTokens(tokens, s) = f[m]
  BY <1>1, TotalRun
<1> HIDE DEF t, u
<1>4. PICK g : g[0] = 0 /\ (\A i \in 1..Len(u) : g[i] = g[i - 1] + t[u[i]])
               /\ TotalTokens(t, u) = g[Len(u)]
  BY <1>1, TotalRun
<1> DEFINE G == {i \in 0..m : g[i] = f[i]}
<1> HIDE DEF m
<1>5. G = 0..m
  <2>1. G \subseteq 0..m /\ 0 \in G
    BY <1>1, <1>3, <1>4
  <2>2. ASSUME NEW i \in 1..m, i - 1 \in G PROVE i \in G
    <3>1. i \in 0..m /\ i \in 1..Len(u) /\ u[i] = s[i] /\ g[i - 1] = f[i - 1]
      BY <1>1, <2>2
    <3> QED
      BY <1>2, <1>3, <1>4, <3>1
  <2> HIDE DEF G
  <2> QED
    BY <1>1, <2>1, <2>2, LeastFailure
<1>6. g[m] = f[m] /\ m + 1 \in 1..Len(u) /\ (m + 1) - 1 = m
  BY <1>1, <1>5
<1>7. g[m + 1] = f[m] + n
  BY <1>1, <1>2, <1>4, <1>6
<1> QED
  BY <1>1, <1>3, <1>4, <1>7 DEF t, u

LEMMA TotalNone == ASSUME NEW tokens PROVE TotalTokens(tokens, <<>>) = 0
<1>1. Len(<<>>) = 0
  OBVIOUS
<1>2. PICK f : f[0] = 0 /\ TotalTokens(tokens, <<>>) = f[Len(<<>>)]
  BY <1>1, TotalRun
<1> QED
  BY <1>1, <1>2

(* budget_used counts the scheduled tokens.                                *)
Counted == out.budget = TotalTokens(out.tokens, out.running \o out.new)

LEMMA CountedEmpty ==
    ASSUME out' = EmptyOutput
    PROVE  Counted'
<1>1. out'.budget = 0 /\ out'.running \o out'.new = <<>>
  BY DEF EmptyOutput
<1> QED
  BY <1>1, TotalNone DEF Counted

LEMMA CountedGrows ==
    ASSUME ControlInv, MemInv, Counted, NEW r \in Requests, r \notin ToSet(out.running),
           r \notin ToSet(out.new), NEW n \in Nat,
           out'.budget = out.budget + n, out'.tokens = Put(out.tokens, r, n),
           out'.running \o out'.new = Append(out.running \o out.new, r)
    PROVE  Counted'
<1> DEFINE s == out.running \o out.new
<1>1. BatchOK /\ out.new \in Seq(Requests) /\ out.running \in Seq(Requests)
  BY DEF MemInv, ControlInv, OutputOK
<1>2. s \in Seq(Requests) /\ ToSet(s) = ToSet(out.running) \cup ToSet(out.new)
  BY <1>1, ConcatDistinct DEF BatchOK
<1>3. ToSet(s) \subseteq DOMAIN out.tokens /\ r \notin ToSet(s)
  BY <1>1, <1>2 DEF BatchOK
<1> HIDE DEF s
<1>4. TotalTokens(Put(out.tokens, r, n), Append(s, r)) = TotalTokens(out.tokens, s) + n
  BY <1>2, <1>3, TotalAppend
<1> QED
  BY <1>4 DEF Counted, s

LEMMA CountedStep ==
    ASSUME ControlInv, MemInv, Counted, [Next]_vars
    PROVE  Counted'
<1>1. BatchOK /\ OutputOK /\ IsOutput(out) /\ out.new \in Seq(Requests) /\ out.running \in Seq(Requests)
  BY DEF MemInv, ControlInv, OutputOK
<1>2. ASSUME out'.budget = out.budget, out'.tokens = out.tokens, out'.running = out.running,
             out'.new = out.new
      PROVE  Counted'
  BY <1>2 DEF Counted
<1>3. CASE UNCHANGED out
  BY <1>2, <1>3
<1>4. CASE StepBegin \/ StepReturn
  BY <1>4, CountedEmpty DEF StepBegin, StepReturn
<1>5. ASSUME NEW r \in Requests, FinishOne(r) PROVE Counted'
  <2>1. out' = OutFinished(out, r)
    BY <1>5 DEF FinishOne, OutFinished
  <2> QED
    BY <1>1, <1>2, <2>1, FinishedOutput
<1>6. ASSUME NEW r \in Requests, PreemptRequest(r) PROVE Counted'
  <2>1. out' = OutPreempted(out, r)
    BY <1>6 DEF PreemptRequest, OutPreempted
  <2> QED
    BY <1>1, <1>2, <2>1, PreemptedOutput
<1>7. ASSUME NEW r \in Requests, AdmitCached(r) PROVE Counted'
  <2>1. out' = OutCached(out, r)
    BY <1>7 DEF AdmitCached, OutCached
  <2> QED
    BY <1>1, <1>2, <2>1, CachedOutput
<1>8. ASSUME NEW r \in Requests, DecodeSchedule(r) PROVE Counted'
  <2> DEFINE n == DecodeTokens(r)
             t == Table(kv', r)
  <2>1. Decoding(r) /\ out' = OutDecoded(out, r, n, t)
    BY <1>8 DEF DecodeSchedule, OutDecoded
  <2>2. n \in Nat
    BY SchedulerAssumption DEF DecodeTokens
  <2> HIDE DEF n, t
  <2>3. /\ out'.budget = out.budget + n /\ out'.running = Append(out.running, r)
        /\ out'.tokens = Put(out.tokens, r, n) /\ out'.new = out.new
    BY <1>1, <2>1, DecodedOutput
  <2>4. r \notin ToSet(out.running) /\ out.new = <<>>
    <3>1. phase = "decode" /\ r = Head(todo) /\ todo # <<>> /\ todo \in Seq(Requests) /\ IsInjective(todo)
      BY <2>1 DEF Decoding, ControlInv, TypesOK, LoopOK
    <3>2. r \in ToSet(todo)
      BY <3>1, HeadTailDistinct
    <3> QED
      BY <1>1, <3>1, <3>2 DEF BatchOK, OutputOK
  <2>5. r \notin ToSet(out.new) /\ out'.running \o out'.new = Append(out.running \o out.new, r)
    BY <1>1, <2>3, <2>4 DEF ToSet
  <2> QED
    BY <2>2, <2>3, <2>4, <2>5, CountedGrows
<1>9. ASSUME NEW r \in Requests, AdmitNew(r) PROVE Counted'
  <2> DEFINE n == PrefillTokens(r)
             t == Table(AllocateSlots(ProbedKV(r), r, Cached(r) + n, Cached(r)), r)
  <2>1. Admitting(r) /\ out' = OutAdmitted(out, r, n, t)
    BY <1>9 DEF AdmitNew, OutAdmitted
  <2>2. n \in Nat
    BY <2>1, PrefillFits
  <2> HIDE DEF n, t
  <2>3. /\ out'.budget = out.budget + n /\ out'.new = Append(out.new, r)
        /\ out'.tokens = Put(out.tokens, r, n) /\ out'.running = out.running
    BY <1>1, <2>1, AdmittedOutput
  <2>4. r \notin ToSet(out.running) /\ r \notin ToSet(out.new)
    <3>1. r \notin ToSet(running)
      BY <2>1, AdmittingBest
    <3> QED
      BY <1>1, <3>1 DEF BatchOK
  <2>5. out'.running \o out'.new = Append(out.running \o out.new, r)
    <3> DEFINE a == out.running
               b == out.new
    <3>1. a \in Seq(Requests) /\ b \in Seq(Requests) /\ out'.running = a /\ out'.new = Append(b, r)
      BY <1>1, <2>3
    <3> HIDE DEF a, b
    <3>2. a \o Append(b, r) = Append(a \o b, r)
      BY <3>1, ConcatAppend
    <3>3. out'.running \o out'.new = Append(a \o b, r)
      BY <3>1, <3>2
    <3> QED
      BY <3>3 DEF a, b
  <2> QED
    BY <2>2, <2>3, <2>4, <2>5, CountedGrows
<1>10. CASE StepAction
  BY <1>3, <1>4, <1>5, <1>6, <1>7, <1>8, <1>9, <1>10 DEF StepAction, FinishEnd, DecodeLength,
     DecodeFail, DecodeEnd, PreemptEnd, WaitingEnd, SelectBegin, Probe, AdmitNothing, AdmitFail
<1>11. CASE OwnerCall
  BY <1>3, <1>11 DEF OwnerCall, AddRequest, AbortRequest, Pause, Resume, ResetPrefixCacheCall, stepVars
<1>12. CASE UNCHANGED vars
  BY <1>3, <1>12 DEF vars, stepVars
<1> QED
  BY <1>4, <1>10, <1>11, <1>12 DEF Next

NoDrafts == \A r \in Requests : SpecTokens[r] = 0

LEMMA CountedInit == Init => Counted
<1> SUFFICES ASSUME Init PROVE Counted
  OBVIOUS
<1>1. out.budget = 0 /\ out.running \o out.new = <<>>
  BY DEF Init, EmptyOutput
<1> QED
  BY <1>1, TotalNone DEF Counted

(* Without speculation a step schedules at most max_num_scheduled_tokens   *)
(* tokens, which budget_used counts exactly, and never runs more than      *)
(* max_num_seqs requests.                                                  *)
THEOREM LimitsHold == NoDrafts /\ Spec => []LimitsRespected
<1> SUFFICES ASSUME NoDrafts PROVE Spec => []LimitsRespected
  OBVIOUS
<1>1. Init => ControlInv /\ MemInv /\ Counted
  BY ControlInit, MemoryInit, CountedInit
<1>2. (ControlInv /\ MemInv /\ Counted) /\ [Next]_vars => (ControlInv /\ MemInv /\ Counted)'
  BY ControlStep, MemoryActions, CountedStep
<1>3. ControlInv /\ MemInv /\ Counted => LimitsRespected
  <2> SUFFICES ASSUME ControlInv, Counted PROVE LimitsRespected
    OBVIOUS
  <2>1. /\ BudgetOvershoot /\ SeqsRespected /\ out.budget \in Nat /\ MaxBudget \in Nat
        /\ out.running \in Seq(Requests)
    BY SchedulerAssumption DEF ControlInv, OutputOK
  <2>2. ASSUME out.budget > MaxBudget PROVE FALSE
    <3>1. out.new = <<>> /\ out.budget - MaxBudget <= SpecTokens[Last(out.running)]
      BY <2>1, <2>2 DEF BudgetOvershoot
    <3>2. out.running # <<>>
      <4>1. ASSUME out.running = <<>> PROVE FALSE
        <5>1. out.running \o out.new = <<>>
          BY <3>1, <4>1
        <5>2. out.budget = 0
          BY <5>1, TotalNone DEF Counted
        <5> QED
          BY <2>1, <2>2, <5>2
      <4> QED
        BY <4>1
    <3>3. Last(out.running) \in Requests
      <4>1. Len(out.running) \in DOMAIN out.running
        BY <2>1, <3>2
      <4> QED
        BY <2>1, <4>1 DEF Last
    <3>4. SpecTokens[Last(out.running)] = 0
      BY <3>3 DEF NoDrafts
    <3> QED
      BY <2>1, <2>2, <3>1, <3>4
  <2>3. out.budget <= MaxBudget
    BY <2>1, <2>2
  <2> QED
    BY <2>1, <2>3 DEF LimitsRespected, BudgetRespected, Counted
<1> QED
  BY <1>1, <1>2, <1>3, PTL DEF Spec

PromptsFit == \A r \in Requests : Len(Prompt[r]) <= MaxModelLen

LEMMA ModelLenStep ==
    ASSUME NoDrafts, PromptsFit, ControlInv, WithinModelLen, [Next]_vars
    PROVE  WithinModelLen'
<1>1. TypesOK /\ QueuesOK /\ SeqsRespected /\ MaxModelLen \in Nat
  BY SchedulerAssumption DEF ControlInv
<1>2. ASSUME NEW r \in DOMAIN requests, r \in Requests PROVE Probed(r).computed <= MaxModelLen
  <2>1. CASE ~EnablePrefixCaching \/ requests[r].hit
    <3>1. Probed(r) = requests[r]
      BY <2>1 DEF Probed
    <3> QED
      BY <3>1 DEF WithinModelLen
  <2>2. CASE ~(~EnablePrefixCaching \/ requests[r].hit)
    <3> DEFINE skip == r \in SkipCache
               k == Len(ComputedBlocks(kv, Prompt[r], skip)) * BlockSize
    <3>1. Probed(r).computed = k
      BY <1>1, <2>2 DEF Probed, TypesOK, RequestStates
    <3> HIDE DEF skip
    <3>2. PromptOK(Prompt[r]) /\ Len(Prompt[r]) \in Nat
      <4>1. PromptOK(Prompt[r])
        BY <1>2, PromptsOK
      <4>2. Prompt[r] \in Seq(Nat)
        BY <4>1 DEF PromptOK
      <4> QED
        BY <4>1, <4>2
    <3>3. k \in Nat /\ k <= Len(Prompt[r])
      BY <3>2, ComputedBlocksLength
    <3> HIDE DEF k
    <3> QED
      <4>1. Len(Prompt[r]) <= MaxModelLen
        BY <1>2 DEF PromptsFit
      <4> QED
        BY <1>1, <3>1, <3>2, <3>3, <4>1
  <2> QED
    BY <2>1, <2>2
<1>3. ASSUME NEW r, NEW x, r \in DOMAIN requests, requests' = [requests EXCEPT ![r] = x],
             x.computed <= MaxModelLen
      PROVE  WithinModelLen'
  BY <1>3 DEF WithinModelLen
<1>4. CASE UNCHANGED requests
  BY <1>4 DEF WithinModelLen
<1>5. ASSUME NEW r \in Requests, AddRequest(r) PROVE WithinModelLen'
  <2>1. NewRequest.computed = 0
    BY DEF NewRequest
  <2> QED
    BY <1>1, <1>5, <2>1 DEF AddRequest, Put, WithinModelLen
<1>6. ASSUME NEW r \in Requests, AbortRequest(r) PROVE WithinModelLen'
  <2>1. /\ DOMAIN requests' = DOMAIN requests \ {r}
        /\ \A x \in DOMAIN requests' : requests'[x] = requests[x]
    BY <1>1, <1>6, ForgetQueues DEF AbortRequest
  <2> QED
    BY <2>1 DEF WithinModelLen
<1>7. ASSUME NEW r \in Requests, DecodeLength(r) PROVE WithinModelLen'
  <2> DEFINE x == [requests[r] EXCEPT !.status = "finished_length"]
  <2>1. Decoding(r) /\ requests' = [requests EXCEPT ![r] = x]
    BY <1>7 DEF DecodeLength
  <2>2. r \in DOMAIN requests /\ requests[r] \in RequestStates
    BY <2>1, DecodingHead
  <2>3. x.computed = requests[r].computed
    BY <2>2 DEF RequestStates
  <2> HIDE DEF x
  <2> QED
    BY <1>3, <2>1, <2>2, <2>3 DEF WithinModelLen
<1>8. ASSUME NEW r \in Requests, DecodeSchedule(r) PROVE WithinModelLen'
  <2> DEFINE x == [requests[r] EXCEPT !.computed = requests[r].computed + DecodeTokens(r)]
  <2>1. Decoding(r) /\ ~AtModelLen(r) /\ requests' = [requests EXCEPT ![r] = x]
    BY <1>8 DEF DecodeSchedule
  <2>2. r \in DOMAIN requests /\ requests[r] \in RequestStates
    BY <2>1, DecodingHead
  <2>3. x.computed = requests[r].computed + 1
    BY <2>2 DEF RequestStates, DecodeTokens, NoDrafts
  <2>4. x.computed <= MaxModelLen
    BY <1>1, <2>1, <2>2, <2>3 DEF AtModelLen, RequestStates
  <2> HIDE DEF x
  <2> QED
    BY <1>3, <2>1, <2>2, <2>4
<1>9. ASSUME NEW r \in Requests, PreemptRequest(r) PROVE WithinModelLen'
  <2>1. requests' = [requests EXCEPT ![r] = NewRequest] /\ NewRequest.computed <= MaxModelLen
    BY <1>1, <1>9 DEF PreemptRequest, NewRequest
  <2>2. DOMAIN requests' = DOMAIN requests
        /\ \A x \in DOMAIN requests : requests'[x] = IF x = r THEN NewRequest ELSE requests[x]
    BY <2>1
  <2> QED
    BY <2>1, <2>2 DEF WithinModelLen
<1>10. ASSUME NEW r \in Requests, Probe(r) PROVE WithinModelLen'
  <2>1. /\ requests' = [requests EXCEPT ![r] = Probed(r)]
    BY <1>10 DEF Probe
  <2>2. r \in DOMAIN requests => Probed(r).computed <= MaxModelLen
    BY <1>2
  <2>3. DOMAIN requests' = DOMAIN requests
        /\ \A x \in DOMAIN requests : requests'[x] = IF x = r THEN Probed(r) ELSE requests[x]
    BY <2>1
  <2> QED
    BY <2>2, <2>3 DEF WithinModelLen
<1>11. ASSUME NEW r \in Requests, AdmitNothing(r) \/ AdmitFail(r) PROVE WithinModelLen'
  <2>1. requests' = [requests EXCEPT ![r] = Probed(r)] /\ Admitting(r)
    BY <1>11 DEF AdmitNothing, AdmitFail
  <2>2. r \in DOMAIN requests
    BY <2>1, AdmittingBest
  <2> QED
    BY <1>2, <1>3, <2>1, <2>2
<1>12. ASSUME NEW r \in Requests, NEW c \in Nat, Admitting(r), Admitted(r, c), c <= MaxModelLen
       PROVE  WithinModelLen'
  <2> DEFINE x == [Probed(r) EXCEPT !.status = "running", !.computed = c]
  <2>1. requests' = [requests EXCEPT ![r] = x]
    BY <1>12 DEF Admitted
  <2>2. r \in DOMAIN requests /\ Probed(r) \in RequestStates
    BY <1>12, AdmittingBest
  <2>3. x.computed = c
    BY <2>2 DEF RequestStates
  <2> HIDE DEF x
  <2> QED
    BY <1>3, <1>12, <2>1, <2>2, <2>3
<1>13. ASSUME NEW r \in Requests, AdmitCached(r) PROVE WithinModelLen'
  <2>1. Admitting(r) /\ Admitted(r, Cached(r))
    BY <1>13 DEF AdmitCached
  <2>2. Cached(r) \in Nat /\ r \in DOMAIN requests
    BY <2>1, PrefillFits, AdmittingBest
  <2> QED
    BY <1>2, <1>12, <2>1, <2>2 DEF Cached
<1>14. ASSUME NEW r \in Requests, AdmitNew(r) PROVE WithinModelLen'
  <2> DEFINE c == Cached(r)
             n == PrefillTokens(r)
  <2>1. Admitting(r) /\ Admitted(r, c + n)
    BY <1>14 DEF AdmitNew
  <2>2. c \in Nat /\ n \in Nat /\ n <= Monus(MaxModelLen, c) /\ r \in DOMAIN requests
    BY <2>1, PrefillFits, AdmittingBest
  <2>3. c <= MaxModelLen
    BY <1>2, <2>2 DEF Cached
  <2> HIDE DEF c, n
  <2>4. c + n \in Nat /\ c + n <= MaxModelLen
    BY <1>1, <2>2, <2>3 DEF Monus
  <2> QED
    BY <1>12, <2>1, <2>4
<1>15. CASE StepAction
  BY <1>4, <1>7, <1>8, <1>9, <1>10, <1>11, <1>13, <1>14, <1>15 DEF StepAction, StepBegin, FinishOne,
     FinishEnd, DecodeFail, DecodeEnd, PreemptEnd, WaitingEnd, SelectBegin
<1>16. CASE OwnerCall
  BY <1>4, <1>5, <1>6, <1>16 DEF OwnerCall, Pause, Resume, ResetPrefixCacheCall
<1>17. CASE StepReturn \/ UNCHANGED vars
  BY <1>4, <1>17 DEF StepReturn, vars
<1> QED
  BY <1>15, <1>16, <1>17 DEF Next

(* Without speculation, and with prompts the model can hold, no request is *)
(* ever counted to have more tokens than max_model_len.                    *)
THEOREM ModelLenHolds == NoDrafts /\ PromptsFit /\ Spec => []WithinModelLen
<1> SUFFICES ASSUME NoDrafts, PromptsFit PROVE Spec => []WithinModelLen
  OBVIOUS
<1>1. Init => ControlInv /\ WithinModelLen
  <2>1. Init => WithinModelLen
    BY NoKeysEmpty DEF Init, WithinModelLen
  <2> QED
    BY <2>1, ControlInit
<1>2. (ControlInv /\ WithinModelLen) /\ [Next]_vars => (ControlInv /\ WithinModelLen)'
  BY ControlStep, ModelLenStep
<1> QED
  BY <1>1, <1>2, PTL DEF Spec

-----------------------------------------------------------------------------
(* The loops over the requests that leave.                                 *)

(* One round of a loop.                                                    *)
Round(x, c) ==
    IF c.op = "without" THEN Without(x, c.id)
    ELSE IF c.op = "free" THEN FreeRequest(x, c.id)
    ELSE IF c.op = "append" THEN Append(x, c.id)
    ELSE x

IsLoop(f, x, rounds, n) ==
    f = [i \in 0..n |-> IF i = 0 THEN x ELSE Round(f[i - 1], rounds[i])]

LEMMA LoopExists ==
    ASSUME NEW x, NEW rounds, NEW n \in Nat
    PROVE  \E f : IsLoop(f, x, rounds, n)
<1> DEFINE T == {k \in Nat : ~ \E f : IsLoop(f, x, rounds, k)}
<1> SUFFICES ASSUME T # {} PROVE FALSE
  OBVIOUS
<1>1. PICK k \in T : \A j \in T : k <= j
  <2> HIDE DEF T
  <2>1. T \subseteq Nat
    BY DEF T
  <2> QED
    BY <2>1, NatMinimum
<1>2. CASE k = 0
  <2> DEFINE f == [i \in 0..0 |-> x]
  <2>1. IsLoop(f, x, rounds, 0)
    BY DEF IsLoop
  <2> QED
    BY <1>1, <1>2, <2>1
<1>3. CASE k > 0
  <2>1. k - 1 \in Nat /\ k - 1 \notin T
    BY <1>1, <1>3
  <2>2. PICK g : IsLoop(g, x, rounds, k - 1)
    BY <2>1
  <2> DEFINE f == [i \in 0..k |-> IF i = k THEN Round(g[k - 1], rounds[k]) ELSE g[i]]
  <2>3. \A i \in 0..(k - 1) : g[i] = IF i = 0 THEN x ELSE Round(g[i - 1], rounds[i])
    BY <2>1, <2>2 DEF IsLoop
  <2>4. \A i \in 0..k : f[i] = IF i = 0 THEN x ELSE Round(f[i - 1], rounds[i])
    BY <1>3, <2>1, <2>3
  <2>5. IsLoop(f, x, rounds, k)
    BY <2>4 DEF IsLoop
  <2> QED
    BY <1>1, <2>5
<1> QED
  BY <1>1, <1>2, <1>3

(* The rounds of the two loops.                                            *)
WithoutRun(f, s, ids) ==
    /\ f[0] = s
    /\ \A i \in 1..Len(ids) : f[i] = Without(f[i - 1], ids[i])
    /\ WithoutAll(s, ids) = f[Len(ids)]

FreeRun(f, s, ids) ==
    /\ f[0] = s
    /\ \A i \in 1..Len(ids) : f[i] = FreeRequest(f[i - 1], ids[i])
    /\ FreeRequests(s, ids) = f[Len(ids)]

LEMMA WithoutAllRun ==
    ASSUME NEW s, NEW ids, Len(ids) \in Nat
    PROVE  \E f : WithoutRun(f, s, ids)
<1> DEFINE m == Len(ids)
           rounds == [i \in 1..m |-> [op |-> "without", id |-> ids[i]]]
           Rec(f) == f = [i \in 0..m |-> IF i = 0 THEN s ELSE Without(f[i - 1], ids[i])]
           run == CHOOSE f : Rec(f)
<1>1. \A i \in 1..m : \A x : Round(x, rounds[i]) = Without(x, ids[i])
  BY DEF Round
<1>2. PICK f : IsLoop(f, s, rounds, m)
  BY LoopExists
<1>3. Rec(f)
  <2>1. f = [i \in 0..m |-> IF i = 0 THEN s ELSE Round(f[i - 1], rounds[i])]
    BY <1>2 DEF IsLoop
  <2>2. \A i \in 0..m : i # 0 => i \in 1..m
    OBVIOUS
  <2> HIDE DEF rounds, m
  <2>3. \A i \in 0..m : f[i] = IF i = 0 THEN s ELSE Without(f[i - 1], ids[i])
    BY <1>1, <2>1, <2>2
  <2> QED
    BY <2>1, <2>3
<1>4. Rec(run)
  <2> HIDE DEF Rec
  <2> QED
    BY <1>3
<1>5. WithoutAll(s, ids) = run[m]
  BY DEF WithoutAll
<1>6. run[0] = s /\ \A i \in 1..m : run[i] = Without(run[i - 1], ids[i])
  <2> HIDE DEF run
  <2> QED
    BY <1>4
<1> HIDE DEF run
<1> QED
  BY <1>5, <1>6 DEF WithoutRun

LEMMA FreeRequestsRun ==
    ASSUME NEW s, NEW ids, Len(ids) \in Nat
    PROVE  \E f : FreeRun(f, s, ids)
<1> DEFINE m == Len(ids)
           rounds == [i \in 1..m |-> [op |-> "free", id |-> ids[i]]]
           Rec(f) == f = [i \in 0..m |-> IF i = 0 THEN s ELSE FreeRequest(f[i - 1], ids[i])]
           run == CHOOSE f : Rec(f)
<1>1. \A i \in 1..m : \A x : Round(x, rounds[i]) = FreeRequest(x, ids[i])
  BY DEF Round
<1>2. PICK f : IsLoop(f, s, rounds, m)
  BY LoopExists
<1>3. Rec(f)
  <2>1. f = [i \in 0..m |-> IF i = 0 THEN s ELSE Round(f[i - 1], rounds[i])]
    BY <1>2 DEF IsLoop
  <2>2. \A i \in 0..m : i # 0 => i \in 1..m
    OBVIOUS
  <2> HIDE DEF rounds, m
  <2>3. \A i \in 0..m : f[i] = IF i = 0 THEN s ELSE FreeRequest(f[i - 1], ids[i])
    BY <1>1, <2>1, <2>2
  <2> QED
    BY <2>1, <2>3
<1>4. Rec(run)
  <2> HIDE DEF Rec
  <2> QED
    BY <1>3
<1>5. FreeRequests(s, ids) = run[m]
  BY DEF FreeRequests
<1>6. run[0] = s /\ \A i \in 1..m : run[i] = FreeRequest(run[i - 1], ids[i])
  <2> HIDE DEF run
  <2> QED
    BY <1>4
<1> HIDE DEF run
<1> QED
  BY <1>5, <1>6 DEF FreeRun

(* The requests of the batch that finish.                                  *)
Ends(seqs, answers) ==
    {r \in ToSet(Scheduled) : r \in seqs \cap DOMAIN engine /\ Finishes(r, answers[r])}

LEMMA FinishedIdsRun ==
    ASSUME NEW seqs, NEW answers, Scheduled \in Seq(Requests)
    PROVE  \E f : /\ f[0] = <<>>
                  /\ \A i \in 1..NumScheduled :
                        f[i] = IF Scheduled[i] \in Ends(seqs, answers)
                               THEN Append(f[i - 1], Scheduled[i]) ELSE f[i - 1]
                  /\ FinishedIds(seqs, answers) = f[NumScheduled]
<1> DEFINE m == NumScheduled
           E(i) == /\ Scheduled[i] \in seqs \cap DOMAIN engine
                   /\ Finishes(Scheduled[i], answers[Scheduled[i]])
           rounds == [i \in 1..m |-> [op |-> IF E(i) THEN "append" ELSE "skip", id |-> Scheduled[i]]]
           Rec(f) == f = [i \in 0..m |-> IF i = 0 THEN <<>>
                                         ELSE IF E(i) THEN Append(f[i - 1], Scheduled[i])
                                         ELSE f[i - 1]]
           run == CHOOSE f : Rec(f)
<1>0. \A i \in 1..m : E(i) <=> Scheduled[i] \in Ends(seqs, answers)
  <2>1. \A i \in 1..m : Scheduled[i] \in ToSet(Scheduled)
    BY DEF ToSet, NumScheduled
  <2> QED
    BY <2>1 DEF Ends
<1>5. FinishedIds(seqs, answers) = run[m] /\ m \in Nat
  BY DEF FinishedIds, NumScheduled
<1> HIDE DEF E
<1>1. \A i \in 1..m : \A x : Round(x, rounds[i]) = IF E(i) THEN Append(x, Scheduled[i]) ELSE x
  BY DEF Round
<1>2. PICK f : IsLoop(f, <<>>, rounds, m)
  BY <1>5, LoopExists
<1>3. Rec(f)
  <2>1. f = [i \in 0..m |-> IF i = 0 THEN <<>> ELSE Round(f[i - 1], rounds[i])]
    BY <1>2 DEF IsLoop
  <2>2. \A i \in 0..m : i # 0 => i \in 1..m
    OBVIOUS
  <2> HIDE DEF rounds, m
  <2>3. \A i \in 0..m : f[i] = IF i = 0 THEN <<>> ELSE IF E(i) THEN Append(f[i - 1], Scheduled[i])
                               ELSE f[i - 1]
    BY <1>1, <2>1, <2>2
  <2> QED
    BY <2>1, <2>3
<1>4. Rec(run)
  <2> HIDE DEF Rec
  <2> QED
    BY <1>3
<1>6. run[0] = <<>> /\ \A i \in 1..m : run[i] = IF E(i) THEN Append(run[i - 1], Scheduled[i]) ELSE run[i - 1]
  <2> HIDE DEF run, m
  <2>1. \A i \in 0..m : run[i] = IF i = 0 THEN <<>> ELSE IF E(i) THEN Append(run[i - 1], Scheduled[i])
                                 ELSE run[i - 1]
    BY <1>4
  <2>2. 0 \in 0..m /\ \A i \in 1..m : i \in 0..m /\ i # 0
    BY <1>5
  <2> QED
    BY <2>1, <2>2
<1>7. \A i \in 1..m : run[i] = IF Scheduled[i] \in Ends(seqs, answers)
                               THEN Append(run[i - 1], Scheduled[i]) ELSE run[i - 1]
  <2> HIDE DEF run, m
  <2> QED
    BY <1>0, <1>6
<1> HIDE DEF run
<1> QED
  BY <1>5, <1>6, <1>7

LEMMA FinishedIdsProperties ==
    ASSUME NEW seqs, NEW answers, Scheduled \in Seq(Requests)
    PROVE  /\ FinishedIds(seqs, answers) \in Seq(Requests)
           /\ ToSet(FinishedIds(seqs, answers)) = Ends(seqs, answers)
<1> DEFINE m == NumScheduled
           E == Ends(seqs, answers)
           s == Scheduled
           Seen(i) == {s[j] : j \in 1..i}
<1>1. m \in Nat /\ s \in Seq(Requests) /\ m = Len(s) /\ E \subseteq ToSet(s)
  BY DEF NumScheduled, Ends
<1>2. PICK f : /\ f[0] = <<>>
               /\ \A i \in 1..m : f[i] = IF s[i] \in E THEN Append(f[i - 1], s[i]) ELSE f[i - 1]
               /\ FinishedIds(seqs, answers) = f[m]
  BY FinishedIdsRun
<1> HIDE DEF m, E, s
<1> DEFINE P(i) == f[i] \in Seq(Requests) /\ ToSet(f[i]) = Seen(i) \cap E
           G == {i \in 0..m : P(i)}
<1>3. 0 \in G
  <2>1. Seen(0) = {} /\ ToSet(<<>>) = {} /\ 0 \in 0..m /\ <<>> \in Seq(Requests)
    BY <1>1 DEF ToSet
  <2> HIDE DEF Seen
  <2>2. P(0)
    BY <1>2, <2>1
  <2> QED
    BY <2>1, <2>2
<1>4. ASSUME NEW i \in 1..m, i - 1 \in G PROVE i \in G
  <2>1. /\ i \in 0..m /\ i - 1 \in 0..m /\ P(i - 1) /\ s[i] \in Requests
        /\ Seen(i) = Seen(i - 1) \cup {s[i]}
    <3>1. 1..i = (1..(i - 1)) \cup {i} /\ i \in 1..Len(s)
      BY <1>1, <1>4
    <3> QED
      BY <1>1, <1>4, <3>1
  <2> HIDE DEF Seen
  <2>2. CASE s[i] \in E
    <3> DEFINE g == f[i - 1]
    <3>1. g \in Seq(Requests) /\ ToSet(g) = Seen(i - 1) \cap E /\ f[i] = Append(g, s[i])
      BY <1>2, <2>1, <2>2
    <3> HIDE DEF g
    <3>2. Append(g, s[i]) \in Seq(Requests) /\ ToSet(Append(g, s[i])) = ToSet(g) \cup {s[i]}
      BY <2>1, <3>1, AppendElements
    <3> QED
      BY <2>1, <2>2, <3>1, <3>2
  <2>3. CASE s[i] \notin E
    <3>1. f[i] = f[i - 1]
      BY <1>2, <2>3
    <3> QED
      BY <2>1, <2>3, <3>1
  <2> QED
    BY <2>2, <2>3
<1>5. G = 0..m
  <2> HIDE DEF G
  <2>1. G \subseteq 0..m
    BY DEF G
  <2> QED
    BY <1>1, <1>3, <1>4, <2>1, LeastFailure
<1>6. P(m)
  BY <1>1, <1>5
<1>7. Seen(m) \cap E = E
  BY <1>1 DEF ToSet
<1> QED
  BY <1>2, <1>6, <1>7 DEF E

(* The queue and the arrivals lose the same requests.                      *)
LEMMA SortedLess ==
    ASSUME NEW w \in Seq(Requests), NEW arr \in Seq(Requests), IsInjective(arr),
           Sorted(w, arr), NEW r
    PROVE  Sorted(Without(w, r), Without(arr, r))
<1> DEFINE v == Without(w, r)
<1>1. Sorted(v, arr)
  BY SortedWithout
<1>2. ToSet(v) = ToSet(w) \ {r}
  BY WithoutProperties
<1> HIDE DEF v
<1>3. ASSUME NEW i \in DOMAIN v, NEW j \in DOMAIN v, i < j
      PROVE  Before(v[i], v[j], Without(arr, r))
  <2>1. v[i] # r /\ v[j] # r
    BY <1>2 DEF ToSet
  <2>2. Before(v[i], v[j], arr)
    BY <1>1, <1>3 DEF Sorted
  <2> QED
    BY <2>1, <2>2, BeforeWithout
<1>4. Sorted(v, Without(arr, r))
  BY <1>3 DEF Sorted
<1> QED
  BY <1>4 DEF v

(* A queue of distinct requests that has lost those in `gone`.             *)
Reduced(t, s, gone) ==
    /\ t \in Seq(Requests) /\ IsInjective(t) /\ ToSet(t) = ToSet(s) \ gone
    /\ Len(t) \in Nat /\ Len(t) <= Len(s)

LEMMA ReducedOnce ==
    ASSUME NEW s \in Seq(Requests), NEW t, NEW gone, Reduced(t, s, gone), NEW r
    PROVE  Reduced(Without(t, r), s, gone \cup {r})
<1> DEFINE u == Without(t, r)
<1>1. t \in Seq(Requests) /\ IsInjective(t) /\ ToSet(t) = ToSet(s) \ gone /\ Len(t) <= Len(s)
      /\ Len(t) \in Nat /\ Len(s) \in Nat
  BY DEF Reduced
<1>2. u \in Seq(Requests) /\ IsInjective(u) /\ ToSet(u) = ToSet(t) \ {r} /\ Len(u) <= Len(t)
  BY <1>1, WithoutDistinct
<1> HIDE DEF u
<1>3. Len(u) \in Nat /\ Len(u) <= Len(s) /\ ToSet(u) = ToSet(s) \ (gone \cup {r})
  BY <1>1, <1>2
<1> QED
  BY <1>2, <1>3 DEF Reduced, u

LEMMA WithoutAllReduces ==
    ASSUME NEW w \in Seq(Requests), IsInjective(w), NEW a \in Seq(Requests), IsInjective(a),
           NEW ids \in Seq(Requests)
    PROVE  /\ Reduced(WithoutAll(w, ids), w, ToSet(ids))
           /\ Sorted(w, a) => Sorted(WithoutAll(w, ids), WithoutAll(a, ids))
<1> DEFINE m == Len(ids)
           Gone(i) == {ids[j] : j \in 1..i}
<1>1. m \in Nat /\ ToSet(ids) = Gone(m) /\ Gone(0) = {}
  BY DEF ToSet
<1>a. PICK f : WithoutRun(f, w, ids)
  BY <1>1, WithoutAllRun
<1>b. PICK g : WithoutRun(g, a, ids)
  BY <1>1, WithoutAllRun
<1>2. /\ f[0] = w /\ \A i \in 1..m : f[i] = Without(f[i - 1], ids[i])
      /\ WithoutAll(w, ids) = f[m]
  BY <1>a DEF WithoutRun
<1>3. /\ g[0] = a /\ \A i \in 1..m : g[i] = Without(g[i - 1], ids[i])
      /\ WithoutAll(a, ids) = g[m]
  BY <1>b DEF WithoutRun
<1> HIDE DEF m
<1> DEFINE P(i) == /\ Reduced(f[i], w, Gone(i)) /\ Reduced(g[i], a, Gone(i))
                   /\ Sorted(w, a) => Sorted(f[i], g[i])
           G == {i \in 0..m : P(i)}
<1>4. 0 \in G
  <2>1. Reduced(w, w, {}) /\ Reduced(a, a, {})
    BY DEF Reduced
  <2>2. Gone(0) = {} /\ 0 \in 0..m
    BY <1>1
  <2> HIDE DEF Gone
  <2>3. P(0)
    BY <1>2, <1>3, <2>1, <2>2
  <2> QED
    BY <2>2, <2>3
<1>5. ASSUME NEW i \in 1..m, i - 1 \in G PROVE i \in G
  <2>1. P(i - 1) /\ i \in 0..m
    BY <1>5
  <2>2. Gone(i) = Gone(i - 1) \cup {ids[i]}
    <3>1. 1..i = (1..(i - 1)) \cup {i}
      BY <1>1, <1>5
    <3> QED
      BY <3>1
  <2>3. f[i] = Without(f[i - 1], ids[i]) /\ g[i] = Without(g[i - 1], ids[i])
    BY <1>2, <1>3
  <2> DEFINE b == f[i - 1]
             c == g[i - 1]
             A == Gone(i - 1)
             B == Gone(i)
  <2>4. Reduced(b, w, A) /\ Reduced(c, a, A) /\ (Sorted(w, a) => Sorted(b, c))
    BY <2>1
  <2> HIDE DEF b, c, A, B, Gone
  <2>5. Reduced(Without(b, ids[i]), w, B) /\ Reduced(Without(c, ids[i]), a, B)
    BY <2>2, <2>4, ReducedOnce DEF A, B
  <2>6. Sorted(w, a) => Sorted(Without(b, ids[i]), Without(c, ids[i]))
    BY <2>4, SortedLess DEF Reduced
  <2> QED
    BY <2>1, <2>3, <2>5, <2>6 DEF b, c, B
<1>6. G = 0..m
  <2> HIDE DEF G
  <2>1. G \subseteq 0..m
    BY DEF G
  <2> QED
    BY <1>1, <1>4, <1>5, <2>1, LeastFailure
<1>7. P(m)
  <2>1. m \in G
    <3> HIDE DEF G
    <3> QED
      BY <1>1, <1>6
  <2> HIDE DEF P
  <2> QED
    BY <2>1
<1>8. ToSet(ids) = Gone(m)
  BY <1>1
<1> HIDE DEF Gone
<1> QED
  BY <1>2, <1>3, <1>7, <1>8

(* The manager has forgotten the requests in `gone` and no other.          *)
KeptExcept(k, q, gone) ==
    /\ DOMAIN q.blocks = DOMAIN k.blocks \ gone
    /\ \A s : s \notin gone => /\ Table(q, s) = Table(k, s)
                               /\ \A i \in DOMAIN Table(k, s) : Label(q, s, i) = Label(k, s, i)

LEMMA KeptOnce ==
    ASSUME NEW k, NEW q, NEW gone, KeptExcept(k, q, gone), KVOK(q, Prompt), Unshared(q), NEW r
    PROVE  LET x == FreeRequest(q, r)
           IN  KeptExcept(k, x, gone \cup {r}) /\ KVOK(x, Prompt) /\ Unshared(x)
<1> DEFINE x == FreeRequest(q, r)
<1>1. OthersKept(q, x, r) /\ DOMAIN x.blocks = DOMAIN q.blocks \ {r} /\ Unshared(x)
  BY FreeRequestEffect
<1>2. KVOK(x, Prompt)
  BY FreeRequestOK
<1> HIDE DEF x
<1>3. ASSUME NEW s, s \notin gone \cup {r}
      PROVE  /\ Table(x, s) = Table(k, s)
             /\ \A i \in DOMAIN Table(k, s) : Label(x, s, i) = Label(k, s, i)
  <2>1. Table(q, s) = Table(k, s) /\ \A i \in DOMAIN Table(k, s) : Label(q, s, i) = Label(k, s, i)
    BY <1>3 DEF KeptExcept
  <2>2. Table(x, s) = Table(q, s) /\ \A i \in DOMAIN Table(q, s) : Label(x, s, i) = Label(q, s, i)
    BY <1>1, <1>3 DEF OthersKept
  <2> QED
    BY <2>1, <2>2
<1>4. DOMAIN x.blocks = DOMAIN k.blocks \ (gone \cup {r})
  BY <1>1 DEF KeptExcept
<1>5. KeptExcept(k, x, gone \cup {r})
  BY <1>3, <1>4 DEF KeptExcept
<1> QED
  BY <1>1, <1>2, <1>5 DEF x

LEMMA FreeRequestsEffect ==
    ASSUME NEW k, KVOK(k, Prompt), Unshared(k), NEW ids \in Seq(Requests)
    PROVE  LET q == FreeRequests(k, ids)
           IN  KeptExcept(k, q, ToSet(ids)) /\ KVOK(q, Prompt) /\ Unshared(q)
<1> DEFINE m == Len(ids)
           Gone(i) == {ids[j] : j \in 1..i}
<1>1. m \in Nat /\ ToSet(ids) = Gone(m) /\ Gone(0) = {}
  BY DEF ToSet
<1>a. PICK f : FreeRun(f, k, ids)
  BY <1>1, FreeRequestsRun
<1>2. /\ f[0] = k /\ \A i \in 1..m : f[i] = FreeRequest(f[i - 1], ids[i])
      /\ FreeRequests(k, ids) = f[m]
  BY <1>a DEF FreeRun
<1> HIDE DEF m
<1> DEFINE P(i) == KeptExcept(k, f[i], Gone(i)) /\ KVOK(f[i], Prompt) /\ Unshared(f[i])
           G == {i \in 0..m : P(i)}
<1>4. 0 \in G
  <2>1. KeptExcept(k, k, {})
    BY DEF KeptExcept
  <2>2. Gone(0) = {} /\ 0 \in 0..m
    BY <1>1
  <2> HIDE DEF Gone
  <2>3. P(0)
    BY <1>2, <2>1, <2>2
  <2> QED
    BY <2>2, <2>3
<1>5. ASSUME NEW i \in 1..m, i - 1 \in G PROVE i \in G
  <2>1. P(i - 1) /\ i \in 0..m
    BY <1>5
  <2>2. Gone(i) = Gone(i - 1) \cup {ids[i]}
    <3>1. 1..i = (1..(i - 1)) \cup {i}
      BY <1>1, <1>5
    <3> QED
      BY <3>1
  <2>3. f[i] = FreeRequest(f[i - 1], ids[i])
    BY <1>2
  <2> DEFINE b == f[i - 1]
             A == Gone(i - 1)
             B == Gone(i)
  <2>4. KeptExcept(k, b, A) /\ KVOK(b, Prompt) /\ Unshared(b) /\ f[i] = FreeRequest(b, ids[i])
        /\ B = A \cup {ids[i]}
    BY <2>1, <2>2, <2>3
  <2> HIDE DEF b, A, B, Gone
  <2>5. KeptExcept(k, f[i], B) /\ KVOK(f[i], Prompt) /\ Unshared(f[i])
    BY <2>4, KeptOnce
  <2> QED
    BY <2>1, <2>5 DEF B
<1>6. G = 0..m
  <2> HIDE DEF G
  <2>1. G \subseteq 0..m
    BY DEF G
  <2> QED
    BY <1>1, <1>4, <1>5, <2>1, LeastFailure
<1>7. P(m)
  <2>1. m \in G
    <3> HIDE DEF G
    <3> QED
      BY <1>1, <1>6
  <2> HIDE DEF P
  <2> QED
    BY <2>1
<1>8. ToSet(ids) = Gone(m)
  BY <1>1
<1> HIDE DEF Gone
<1> QED
  BY <1>2, <1>7, <1>8

-----------------------------------------------------------------------------
(* The end of an engine step leaves the scheduler in order.                *)

Forgotten(gone) ==
    /\ DOMAIN requests' = DOMAIN requests \ gone
    /\ \A x \in DOMAIN requests' : requests'[x] = requests[x]
    /\ ToSet(running') = ToSet(running) \ gone
    /\ finished' = finished \ gone

LEMMA ForgetAllControl ==
    ASSUME ControlInv, EndStep, NEW ids \in Seq(Requests), ForgetAll(ids)
    PROVE  ControlInv' /\ Forgotten(ToSet(ids))
<1> DEFINE gone == ToSet(ids)
<1>1. /\ waiting' = WithoutAll(waiting, ids) /\ running' = WithoutAll(running, ids)
      /\ finished' = finished \ gone /\ arrived' = WithoutAll(arrived, ids)
      /\ requests' = Restrict(requests, DOMAIN requests \ gone)
  BY DEF ForgetAll
<1>2. /\ phase = "done" /\ phase' = "idle" /\ out' = EmptyOutput
      /\ UNCHANGED <<paused, todo, toPreempt, best>>
  BY DEF EndStep
<1>3. /\ waiting \in Seq(Requests) /\ IsInjective(waiting)
      /\ running \in Seq(Requests) /\ IsInjective(running)
      /\ arrived \in Seq(Requests) /\ IsInjective(arrived)
      /\ ToSet(arrived) = DOMAIN requests /\ TypesOK /\ QueuesOK /\ LoopOK /\ SeqsRespected
  BY DEF ControlInv, TypesOK, QueuesOK, NoRequestLost
<1>4. /\ Reduced(waiting', waiting, gone) /\ Reduced(running', running, gone)
      /\ Reduced(arrived', arrived, gone)
      /\ Sorted(waiting, arrived) => Sorted(waiting', arrived')
  BY <1>1, <1>3, WithoutAllReduces
<1> HIDE DEF gone
<1>5. /\ DOMAIN requests' = DOMAIN requests \ gone
      /\ \A x \in DOMAIN requests' : requests'[x] = requests[x]
  BY <1>1 DEF Restrict
<1>6. Forgotten(gone)
  BY <1>1, <1>4, <1>5 DEF Forgotten, Reduced
<1>7. TypesOK'
  BY <1>2, <1>3, <1>4, <1>5 DEF TypesOK, Reduced, Phases
<1>8. QueuesOK'
  <2>1. ToSet(waiting') = {r \in DOMAIN requests' : requests'[r].status = "waiting"}
    BY <1>3, <1>4, <1>5 DEF QueuesOK, NoRequestLost, Reduced
  <2>2. /\ ToSet(running') \subseteq DOMAIN requests' \ ToSet(waiting')
        /\ \A r \in DOMAIN requests' \ ToSet(waiting') : r \notin ToSet(running') => r \in finished'
    BY <1>1, <1>3, <1>4, <1>5 DEF QueuesOK, NoRequestLost, Reduced
  <2>3. NoRequestLost'
    BY <1>4, <2>1, <2>2 DEF NoRequestLost, Reduced
  <2>4. /\ finished' \subseteq {r \in DOMAIN requests' : requests'[r].status = "finished_length"}
        /\ finished' \cap ToSet(running') = {}
    BY <1>1, <1>3, <1>4, <1>5 DEF QueuesOK, Reduced
  <2>5. IsInjective(arrived') /\ ToSet(arrived') = DOMAIN requests'
    BY <1>3, <1>4, <1>5 DEF Reduced
  <2>6. QueueOrdered'
    BY <1>3, <1>4 DEF QueuesOK, QueueOrdered
  <2> QED
    BY <2>3, <2>4, <2>5, <2>6 DEF QueuesOK
<1>9. LoopOK'
  <2>1. toPreempt = <<>> /\ ToSet(<<>>) = {}
    BY <1>2, <1>3 DEF LoopOK, ToSet
  <2> QED
    BY <1>2, <1>3, <2>1 DEF LoopOK
<1>10. OutputOK'
  BY <1>2 DEF OutputOK, IsOutput, EmptyOutput
<1>11. SeqsRespected'
  BY <1>3, <1>4, SchedulerAssumption DEF SeqsRespected, Reduced
<1>12. BudgetOvershoot'
  BY <1>2, SchedulerAssumption DEF BudgetOvershoot, EmptyOutput
<1> QED
  BY <1>6, <1>7, <1>8, <1>9, <1>10, <1>11, <1>12 DEF ControlInv, gone

LEMMA ForgetAllMemory ==
    ASSUME ControlInv, ControlInv', MemInv, EndStep, NEW ids \in Seq(Requests), ForgetAll(ids),
           Forgotten(ToSet(ids))
    PROVE  MemInv'
<1> DEFINE gone == ToSet(ids)
<1>1. kv' = FreeRequests(kv, ids) /\ out' = EmptyOutput
  BY DEF ForgetAll, EndStep
<1>2. TypesOK /\ BatchOK /\ MemoryOK /\ KVOK(kv, Prompt) /\ Unshared(kv) /\ QueuesOK /\ QueuesOK'
      /\ TablesOK(kv.blocks) /\ DOMAIN kv.blocks \subseteq DOMAIN requests
  BY DEF ControlInv, MemInv, MemoryOK, KVOK
<1>3. KeptExcept(kv, kv', gone) /\ KVOK(kv', Prompt) /\ Unshared(kv')
  BY <1>1, <1>2, FreeRequestsEffect
<1> HIDE DEF gone
<1>4. Forgotten(gone)
  BY DEF gone
<1>5. ASSUME NEW s \in DOMAIN requests' PROVE RequestOK(s)'
  <2>1. s \in DOMAIN requests /\ requests'[s] = requests[s] /\ s \notin gone
    BY <1>4, <1>5 DEF Forgotten
  <2>2. Filled(s) \in Int /\ requests[s].computed \in Nat /\ Filled(s) <= requests[s].computed
    BY <1>2, <2>1, FilledType
  <2>3. out'.running = <<>> /\ ToSet(<<>>) = {}
    BY <1>1 DEF EmptyOutput, ToSet
  <2>4. Filled(s)' = requests[s].computed
    BY <2>1, <2>2, <2>3 DEF Filled
  <2>5. s \in ToSet(waiting') <=> s \in ToSet(waiting)
    BY <1>2, <1>5, <2>1, WaitingByStatus
  <2>6. SameFor(s)
    BY <1>4, <2>1, <2>2, <2>4, <2>5 DEF SameFor, Forgotten
  <2>7. /\ Table(kv', s) = Table(kv, s)
        /\ \A i \in DOMAIN Table(kv, s) : Label(kv', s, i) = Label(kv, s, i)
    BY <1>3, <2>1 DEF KeptExcept
  <2>8. RequestOK(s)
    BY <1>2, <2>1 DEF MemoryOK
  <2> QED
    BY <1>2, <2>6, <2>7, <2>8, RequestKept
<1>6. DOMAIN kv'.blocks \subseteq DOMAIN requests'
  BY <1>2, <1>3, <1>4 DEF KeptExcept, Forgotten
<1>7. MemoryOK'
  BY <1>3, <1>5, <1>6 DEF MemoryOK
<1> QED
  BY <1>1, <1>7, BatchEmpty DEF MemInv

-----------------------------------------------------------------------------
(* A step of the scheduler, seen by the engine.                            *)

Alive(r) == requests[r].status # "finished_length"

Batch == ToSet(out.new) \cup ToSet(out.cached) \cup ToSet(out.running)

(* What is scheduled, or waits to be, has not finished.                    *)
LiveInv ==
    /\ phase = "decode" => \A r \in ToSet(todo) : Alive(r)
    /\ \A r \in ToSet(toPreempt) : Alive(r)
    /\ \A r \in Batch : Alive(r)
    /\ ToSet(out.finished) \subseteq finished

StepEffect ==
    /\ DOMAIN requests' = DOMAIN requests /\ finished \subseteq finished' /\ LiveInv'
    /\ \A x \in DOMAIN requests : Alive(x)' => Alive(x)
    /\ ToSet(out'.preempted) \subseteq ToSet(out.preempted) \cup ToSet(running)

(* The request r alone changes, and not from or to the finished status.    *)
LEMMA OneChanges ==
    ASSUME NEW r \in DOMAIN requests, NEW x, requests' = [requests EXCEPT ![r] = x],
           Alive(r) <=> x.status # "finished_length"
    PROVE  DOMAIN requests' = DOMAIN requests /\ \A q \in DOMAIN requests : Alive(q)' <=> Alive(q)
BY DEF Alive

LEMMA BatchTracked ==
    ASSUME ControlInv, MemInv
    PROVE  /\ Batch \subseteq ToSet(running) /\ ToSet(running) \subseteq DOMAIN requests
           /\ ToSet(toPreempt) \subseteq DOMAIN requests
           /\ phase = "decode" => ToSet(todo) \subseteq DOMAIN requests
BY DEF ControlInv, MemInv, BatchOK, Batch, QueuesOK, NoRequestLost, LoopOK

(* Nothing that LiveInv looks at grows, and no request finishes.           *)
LEMMA LiveKept ==
    ASSUME ControlInv, MemInv, LiveInv, DOMAIN requests' = DOMAIN requests,
           \A q \in DOMAIN requests : Alive(q)' <=> Alive(q),
           finished \subseteq finished', ToSet(out'.finished) \subseteq finished',
           ToSet(out'.preempted) \subseteq ToSet(out.preempted) \cup ToSet(running),
           Batch' \subseteq Batch \cup {q \in DOMAIN requests : Alive(q)},
           ToSet(toPreempt') \subseteq ToSet(toPreempt) \cup {q \in DOMAIN requests : Alive(q)},
           phase' = "decode" => ToSet(todo') \subseteq {q \in DOMAIN requests : Alive(q)}
    PROVE  StepEffect
<1>1. Batch \subseteq DOMAIN requests /\ ToSet(toPreempt) \subseteq DOMAIN requests
  BY BatchTracked
<1>2. \A q \in Batch' : Alive(q)'
  BY <1>1 DEF LiveInv
<1>3. \A q \in ToSet(toPreempt') : Alive(q)'
  BY <1>1 DEF LiveInv
<1>4. phase' = "decode" => \A q \in ToSet(todo') : Alive(q)'
  OBVIOUS
<1>5. LiveInv'
  BY <1>2, <1>3, <1>4 DEF LiveInv
<1> QED
  BY <1>5 DEF StepEffect

LEMMA LiveMoves ==
    ASSUME ControlInv, MemInv, LiveInv,
           StepBegin \/ FinishEnd \/ DecodeEnd \/ PreemptEnd \/ WaitingEnd \/ SelectBegin
    PROVE  StepEffect
<1>1. UNCHANGED <<requests, finished, running, toPreempt>>
  BY DEF StepBegin, FinishEnd, DecodeEnd, PreemptEnd, WaitingEnd, SelectBegin
<1>2. DOMAIN requests' = DOMAIN requests /\ \A q \in DOMAIN requests : Alive(q)' <=> Alive(q)
  BY <1>1 DEF Alive
<1>3. /\ ToSet(out'.finished) \subseteq finished'
      /\ ToSet(out'.preempted) \subseteq ToSet(out.preempted) \cup ToSet(running)
      /\ Batch' \subseteq Batch
  <2>1. CASE StepBegin
    <3>1. out' = EmptyOutput /\ ToSet(<<>>) = {}
      BY <2>1 DEF StepBegin, ToSet
    <3> QED
      BY <3>1 DEF EmptyOutput, Batch
  <2>2. CASE ~StepBegin
    <3>1. UNCHANGED out
      BY <2>2 DEF FinishEnd, DecodeEnd, PreemptEnd, WaitingEnd, SelectBegin
    <3> QED
      BY <1>1, <3>1 DEF Batch, LiveInv
  <2> QED
    BY <2>1, <2>2
<1>4. ASSUME phase' = "decode" PROVE ToSet(todo') \subseteq {q \in DOMAIN requests : Alive(q)}
  <2>1. FinishEnd
    BY <1>4, SchedulerAssumption DEF StepBegin, DecodeEnd, PreemptEnd, WaitingEnd, SelectBegin
  <2>2. Unprocessed = {} /\ todo' = running
    BY <2>1 DEF FinishEnd
  <2>3. finished \cap ToSet(running) = {} /\ ToSet(out.finished) \subseteq finished
        /\ ToSet(running) \subseteq DOMAIN requests
    BY DEF ControlInv, QueuesOK, NoRequestLost, LiveInv
  <2> QED
    BY <2>2, <2>3 DEF Unprocessed, IsFinished, Alive
<1> QED
  BY <1>1, <1>2, <1>3, <1>4, LiveKept

LEMMA LiveFinish ==
    ASSUME ControlInv, MemInv, LiveInv, NEW r \in Requests, FinishOne(r)
    PROVE  StepEffect
<1>1. /\ phase = "finish" /\ finished' = finished \cup {r}
      /\ out' = OutFinished(out, r) /\ UNCHANGED <<requests, phase, toPreempt>>
  BY DEF FinishOne, OutFinished
<1>2. IsOutput(out) /\ out.finished \in Seq(Requests)
  BY DEF ControlInv, OutputOK
<1>3. /\ out'.finished = Append(out.finished, r) /\ out'.preempted = out.preempted
      /\ out'.new = out.new /\ out'.cached = out.cached /\ out'.running = out.running
  BY <1>1, <1>2, FinishedOutput
<1>4. ToSet(out'.finished) = ToSet(out.finished) \cup {r}
  BY <1>2, <1>3, AppendElements
<1>5. DOMAIN requests' = DOMAIN requests /\ \A q \in DOMAIN requests : Alive(q)' <=> Alive(q)
  BY <1>1 DEF Alive
<1>6. /\ ToSet(out'.finished) \subseteq finished' /\ finished \subseteq finished'
      /\ ToSet(out'.preempted) \subseteq ToSet(out.preempted) \cup ToSet(running)
      /\ Batch' \subseteq Batch /\ phase' # "decode"
  BY <1>1, <1>3, <1>4 DEF LiveInv, Batch
<1> QED
  BY <1>1, <1>5, <1>6, LiveKept

LEMMA LiveDecodeSchedule ==
    ASSUME ControlInv, MemInv, LiveInv, NEW r \in Requests, DecodeSchedule(r)
    PROVE  StepEffect
<1> DEFINE n == DecodeTokens(r)
           c == requests[r].computed
           t == Table(kv', r)
<1>1. /\ Decoding(r) /\ requests' = [requests EXCEPT ![r].computed = c + n]
      /\ out' = OutDecoded(out, r, n, t)
      /\ UNCHANGED <<finished, running, phase, toPreempt>>
  BY DEF DecodeSchedule, OutDecoded
<1>2. /\ phase = "decode" /\ r \in DOMAIN requests /\ requests[r] \in RequestStates
      /\ ToSet(todo') = ToSet(todo) \ {r}
  BY <1>1, DecodingHead
<1>3. todo \in Seq(Requests) /\ todo # <<>> /\ r = Head(todo) /\ IsInjective(todo)
  BY <1>1 DEF Decoding, ControlInv, TypesOK, LoopOK
<1>4. r \in ToSet(todo)
  BY <1>3, HeadTailDistinct
<1>5. IsOutput(out) /\ out.running \in Seq(Requests)
  BY DEF ControlInv, OutputOK
<1> HIDE DEF n, t
<1>6. /\ out'.running = Append(out.running, r) /\ out'.finished = out.finished
      /\ out'.preempted = out.preempted /\ out'.new = out.new /\ out'.cached = out.cached
  BY <1>1, <1>5, DecodedOutput
<1>7. ToSet(out'.running) = ToSet(out.running) \cup {r}
  BY <1>5, <1>6, AppendElements
<1>8. Alive(r)
  BY <1>2, <1>4 DEF LiveInv
<1>9. DOMAIN requests' = DOMAIN requests /\ \A q \in DOMAIN requests : Alive(q)' <=> Alive(q)
  <2> DEFINE x == [requests[r] EXCEPT !.computed = c + n]
  <2>1. requests' = [requests EXCEPT ![r] = x] /\ x.status = requests[r].status
    BY <1>1, <1>2 DEF RequestStates
  <2> HIDE DEF x
  <2> QED
    BY <1>2, <2>1, OneChanges DEF Alive
<1>10. /\ ToSet(out'.finished) \subseteq finished'
       /\ ToSet(out'.preempted) \subseteq ToSet(out.preempted) \cup ToSet(running)
       /\ Batch' \subseteq Batch \cup {q \in DOMAIN requests : Alive(q)}
  BY <1>1, <1>2, <1>6, <1>7, <1>8 DEF LiveInv, Batch
<1>11. ToSet(todo') \subseteq {q \in DOMAIN requests : Alive(q)}
  BY <1>2, BatchTracked DEF LiveInv
<1> QED
  BY <1>1, <1>9, <1>10, <1>11, LiveKept

LEMMA LiveDecodeFail ==
    ASSUME ControlInv, MemInv, LiveInv, NEW r \in Requests, DecodeFail(r)
    PROVE  StepEffect
<1>1. /\ Decoding(r) /\ toPreempt' = Append(toPreempt, r)
      /\ UNCHANGED <<requests, finished, running, phase, out>>
  BY DEF DecodeFail
<1>2. phase = "decode" /\ r \in DOMAIN requests /\ ToSet(todo') = ToSet(todo) \ {r}
  BY <1>1, DecodingHead
<1>3. todo \in Seq(Requests) /\ todo # <<>> /\ r = Head(todo) /\ IsInjective(todo)
      /\ toPreempt \in Seq(Requests)
  BY <1>1 DEF Decoding, ControlInv, TypesOK, LoopOK
<1>4. r \in ToSet(todo)
  BY <1>3, HeadTailDistinct
<1>5. Alive(r)
  BY <1>2, <1>4 DEF LiveInv
<1>6. ToSet(toPreempt') = ToSet(toPreempt) \cup {r}
  BY <1>1, <1>3, AppendElements
<1>7. DOMAIN requests' = DOMAIN requests /\ \A q \in DOMAIN requests : Alive(q)' <=> Alive(q)
  BY <1>1 DEF Alive
<1>8. /\ ToSet(out'.finished) \subseteq finished'
      /\ ToSet(out'.preempted) \subseteq ToSet(out.preempted) \cup ToSet(running)
      /\ Batch' \subseteq Batch
  BY <1>1 DEF LiveInv, Batch
<1>9. ToSet(todo') \subseteq {q \in DOMAIN requests : Alive(q)}
  BY <1>2, BatchTracked DEF LiveInv
<1> QED
  BY <1>1, <1>2, <1>5, <1>6, <1>7, <1>8, <1>9, LiveKept

LEMMA LiveDecodeLength ==
    ASSUME ControlInv, MemInv, LiveInv, NEW r \in Requests, DecodeLength(r)
    PROVE  StepEffect
<1>1. /\ Decoding(r) /\ requests' = [requests EXCEPT ![r].status = "finished_length"]
      /\ UNCHANGED <<finished, running, phase, toPreempt, out>>
  BY DEF DecodeLength
<1>2. /\ phase = "decode" /\ r \in DOMAIN requests /\ requests[r] \in RequestStates
      /\ ToSet(todo') = ToSet(todo) \ {r} /\ r \notin ToSet(toPreempt)
  BY <1>1, DecodingHead
<1>3. todo \in Seq(Requests) /\ todo # <<>> /\ r = Head(todo) /\ IsInjective(todo)
  BY <1>1 DEF Decoding, ControlInv, TypesOK, LoopOK
<1>4. r \in ToSet(todo)
  BY <1>3, HeadTailDistinct
<1>5. r \notin Batch
  <2>1. out.new = <<>> /\ out.cached = <<>> /\ ToSet(<<>>) = {}
    BY <1>2 DEF ControlInv, OutputOK, ToSet
  <2>2. r \notin ToSet(out.running)
    BY <1>2, <1>4 DEF MemInv, BatchOK
  <2> QED
    BY <2>1, <2>2 DEF Batch
<1>6. DOMAIN requests' = DOMAIN requests /\ \A q \in DOMAIN requests : q # r => (Alive(q)' <=> Alive(q))
  BY <1>1 DEF Alive
<1>7. ~Alive(r)'
  BY <1>1, <1>2 DEF Alive, RequestStates
<1>8. /\ Batch \subseteq DOMAIN requests /\ ToSet(toPreempt) \subseteq DOMAIN requests
      /\ ToSet(todo) \subseteq DOMAIN requests
  BY <1>2, BatchTracked
<1>9. LiveInv'
  <2>1. \A q \in Batch' : Alive(q)'
    BY <1>1, <1>5, <1>6, <1>8 DEF LiveInv, Batch
  <2>2. \A q \in ToSet(toPreempt') : Alive(q)'
    BY <1>1, <1>2, <1>6, <1>8 DEF LiveInv
  <2>3. \A q \in ToSet(todo') : Alive(q)'
    BY <1>2, <1>6, <1>8 DEF LiveInv
  <2> QED
    BY <1>1, <2>1, <2>2, <2>3 DEF LiveInv
<1> QED
  BY <1>1, <1>6, <1>7, <1>9 DEF StepEffect

LEMMA LivePreempt ==
    ASSUME ControlInv, MemInv, LiveInv, NEW r \in Requests, PreemptRequest(r)
    PROVE  StepEffect
<1>1. /\ phase = "preempt" /\ toPreempt # <<>> /\ r = Head(toPreempt)
      /\ toPreempt' = Tail(toPreempt) /\ requests' = [requests EXCEPT ![r] = NewRequest]
      /\ out' = OutPreempted(out, r)
      /\ UNCHANGED <<finished, phase>>
  BY DEF PreemptRequest, OutPreempted
<1>2. toPreempt \in Seq(Requests) /\ IsInjective(toPreempt) /\ IsOutput(out)
      /\ out.preempted \in Seq(Requests)
  BY DEF ControlInv, TypesOK, LoopOK, OutputOK
<1>3. r \in ToSet(toPreempt) /\ ToSet(toPreempt') = ToSet(toPreempt) \ {r}
  BY <1>1, <1>2, HeadTailDistinct
<1>4. r \in ToSet(running) /\ r \in DOMAIN requests /\ Alive(r)
  BY <1>3 DEF ControlInv, LoopOK, QueuesOK, NoRequestLost, LiveInv
<1>5. /\ out'.preempted = Append(out.preempted, r) /\ out'.finished = out.finished
      /\ out'.new = out.new /\ out'.cached = out.cached /\ out'.running = out.running
  BY <1>1, <1>2, PreemptedOutput
<1>6. ToSet(out'.preempted) = ToSet(out.preempted) \cup {r}
  BY <1>2, <1>5, AppendElements
<1>7. DOMAIN requests' = DOMAIN requests /\ \A q \in DOMAIN requests : Alive(q)' <=> Alive(q)
  <2>1. NewRequest.status # "finished_length"
    BY DEF NewRequest
  <2> QED
    BY <1>1, <1>4, <2>1, OneChanges
<1>8. /\ ToSet(out'.finished) \subseteq finished'
      /\ ToSet(out'.preempted) \subseteq ToSet(out.preempted) \cup ToSet(running)
      /\ Batch' \subseteq Batch /\ phase' # "decode"
  BY <1>1, <1>4, <1>5, <1>6 DEF LiveInv, Batch
<1> QED
  BY <1>1, <1>3, <1>7, <1>8, LiveKept

LEMMA LiveRefuse ==
    ASSUME ControlInv, MemInv, LiveInv, NEW r \in Requests, Probe(r) \/ AdmitNothing(r) \/ AdmitFail(r)
    PROVE  StepEffect
<1>1. /\ requests' = [requests EXCEPT ![r] = Probed(r)] /\ phase' # "decode"
      /\ UNCHANGED <<finished, running, toPreempt, out>>
  BY DEF Probe, AdmitNothing, AdmitFail
<1>2. r \in DOMAIN requests
  <2>1. CASE Probe(r)
    <3>1. phase = "probe" /\ r = Head(todo) /\ todo # <<>> /\ todo \in Seq(Requests) /\ IsInjective(todo)
      BY <2>1 DEF Probe, ControlInv, LoopOK, TypesOK
    <3>2. r \in ToSet(todo)
      BY <3>1, HeadTailDistinct
    <3> QED
      BY <3>1, <3>2 DEF ControlInv, LoopOK, QueuesOK, NoRequestLost
  <2>2. CASE Admitting(r)
    BY <2>2, AdmittingBest
  <2> QED
    BY <2>1, <2>2 DEF AdmitNothing, AdmitFail
<1>3. Probed(r).status = requests[r].status
  BY <1>2, ProbedType DEF ControlInv
<1>4. DOMAIN requests' = DOMAIN requests /\ \A q \in DOMAIN requests : Alive(q)' <=> Alive(q)
  BY <1>1, <1>2, <1>3, OneChanges DEF Alive
<1>5. /\ ToSet(out'.finished) \subseteq finished'
      /\ ToSet(out'.preempted) \subseteq ToSet(out.preempted) \cup ToSet(running)
      /\ Batch' \subseteq Batch
  BY <1>1 DEF LiveInv, Batch
<1> QED
  BY <1>1, <1>4, <1>5, LiveKept

LEMMA LiveAdmit ==
    ASSUME ControlInv, MemInv, LiveInv, NEW r \in Requests, AdmitCached(r) \/ AdmitNew(r)
    PROVE  StepEffect
<1>1. /\ Admitting(r) /\ phase' = "select"
      /\ UNCHANGED <<finished, toPreempt>>
      /\ \E c : Admitted(r, c)
  BY DEF AdmitCached, AdmitNew
<1>2. r \in DOMAIN requests /\ requests[r].status = "waiting" /\ Probed(r) \in RequestStates
  BY <1>1, AdmittingBest
<1>3. DOMAIN requests' = DOMAIN requests /\ \A q \in DOMAIN requests : Alive(q)' <=> Alive(q)
  <2>1. PICK c : Admitted(r, c)
    BY <1>1
  <2> DEFINE x == [Probed(r) EXCEPT !.status = "running", !.computed = c]
  <2>2. requests' = [requests EXCEPT ![r] = x] /\ x.status = "running"
    BY <1>2, <2>1 DEF Admitted, RequestStates
  <2> HIDE DEF x
  <2> QED
    BY <1>2, <2>2, OneChanges DEF Alive
<1>4. IsOutput(out) /\ out.new \in Seq(Requests) /\ out.cached \in Seq(Requests)
  BY DEF ControlInv, OutputOK
<1>5. /\ out'.finished = out.finished /\ out'.preempted = out.preempted
      /\ Batch' \subseteq Batch \cup {r}
  <2>1. CASE AdmitCached(r)
    <3>1. out' = OutCached(out, r)
      BY <2>1 DEF AdmitCached, OutCached
    <3>2. /\ out'.cached = Append(out.cached, r) /\ out'.new = out.new /\ out'.running = out.running
          /\ out'.finished = out.finished /\ out'.preempted = out.preempted
      BY <1>4, <3>1, CachedOutput
    <3>3. ToSet(out'.cached) = ToSet(out.cached) \cup {r}
      BY <1>4, <3>2, AppendElements
    <3> QED
      BY <3>2, <3>3 DEF Batch
  <2>2. CASE AdmitNew(r)
    <3>1. PICK n, t : out' = OutAdmitted(out, r, n, t)
      BY <2>2 DEF AdmitNew, OutAdmitted
    <3>2. /\ out'.new = Append(out.new, r) /\ out'.cached = out.cached /\ out'.running = out.running
          /\ out'.finished = out.finished /\ out'.preempted = out.preempted
      BY <1>4, <3>1, AdmittedOutput
    <3>3. ToSet(out'.new) = ToSet(out.new) \cup {r}
      BY <1>4, <3>2, AppendElements
    <3> QED
      BY <3>2, <3>3 DEF Batch
  <2> QED
    BY <2>1, <2>2
<1>6. /\ ToSet(out'.finished) \subseteq finished'
      /\ ToSet(out'.preempted) \subseteq ToSet(out.preempted) \cup ToSet(running)
      /\ Batch' \subseteq Batch \cup {q \in DOMAIN requests : Alive(q)}
  BY <1>1, <1>2, <1>5 DEF LiveInv, Alive
<1> QED
  BY <1>1, <1>3, <1>6, LiveKept

(* A step of the scheduler tracks the same requests and revives none.      *)
LEMMA StepActionEffect ==
    ASSUME ControlInv, MemInv, LiveInv, StepAction
    PROVE  StepEffect
BY LiveMoves, LiveFinish, LiveDecodeSchedule, LiveDecodeFail, LiveDecodeLength, LivePreempt,
   LiveRefuse, LiveAdmit DEF StepAction

-----------------------------------------------------------------------------
(* The inductive invariant of the engine.                                  *)

EngineTypes ==
    /\ DOMAIN engine = DOMAIN requests /\ \A r \in DOMAIN engine : engine[r] \in Nat
    /\ DOMAIN runner \subseteq Requests
    /\ \A r \in DOMAIN runner : runner[r] \in [computed : Nat, generated : Nat]
    /\ executor \in Executors
    /\ restarted \subseteq DOMAIN requests

(* The executor knows what the engine knows, but for what a step has taken *)
(* from it: the scheduler's lists of the step are remembered.              *)
ExecutorInv ==
    /\ executor = "uniproc" => DOMAIN runner \subseteq DOMAIN requests
    /\ DOMAIN requests \ DOMAIN runner \subseteq restarted \cup finished
    /\ ToSet(out.preempted) \subseteq restarted

(* No request that goes on has reached its limit.                          *)
BelowLimits == \A r \in DOMAIN engine : engine[r] = 0 \/ engine[r] < MaxTokens[r]

EngineInv ==
    /\ ControlInv /\ MemInv /\ LiveInv
    /\ EngineTypes /\ ExecutorInv /\ BelowLimits

-----------------------------------------------------------------------------
(* The batch and the answers.                                              *)

LEMMA ScheduledBatch ==
    ASSUME ControlInv, MemInv
    PROVE  Scheduled \in Seq(Requests) /\ ToSet(Scheduled) = Batch /\ NumScheduled \in Nat
<1> DEFINE first == out.new \o out.cached
<1>1. BatchOK /\ out.new \in Seq(Requests) /\ out.cached \in Seq(Requests)
      /\ out.running \in Seq(Requests)
  BY DEF MemInv, ControlInv, OutputOK
<1>2. /\ first \in Seq(Requests) /\ IsInjective(first)
      /\ ToSet(first) = ToSet(out.new) \cup ToSet(out.cached)
  BY <1>1, ConcatDistinct DEF BatchOK
<1> HIDE DEF first
<1>3. ToSet(first) \cap ToSet(out.running) = {} /\ IsInjective(out.running)
  BY <1>1, <1>2 DEF BatchOK
<1>4. /\ first \o out.running \in Seq(Requests)
      /\ ToSet(first \o out.running) = ToSet(first) \cup ToSet(out.running)
  BY <1>1, <1>2, <1>3, ConcatDistinct
<1>5. Scheduled = first \o out.running
  BY DEF Scheduled, first
<1> HIDE DEF Scheduled
<1> QED
  BY <1>2, <1>4, <1>5 DEF Batch, NumScheduled

(* The most drafts a request may have: the set is finite and not empty.    *)
MostDrafts == Max({SpecTokens[r] : r \in Requests})

LEMMA MostDraftsBound ==
    ASSUME NEW q \in Requests
    PROVE  MostDrafts \in Nat /\ \A r \in Requests : SpecTokens[r] <= MostDrafts
<1> DEFINE S == {SpecTokens[r] : r \in Requests}
<1>1. \A r \in Requests : SpecTokens[r] \in Nat
  BY SchedulerAssumption
<1>2. PICK n \in Nat : ExistsSurjection(1..n, Requests)
  BY EngineAssumption, FS_NatSurjection
<1>3. PICK f \in [1..n -> Requests] : \A r \in Requests : \E i \in 1..n : f[i] = r
  BY <1>2 DEF ExistsSurjection, Surjection
<1> DEFINE v(i) == SpecTokens[f[i]]
           Top(i) == i = 0 \/ \E j \in 1..i : \A k \in 1..i : v(k) <= v(j)
           G == {i \in 0..n : Top(i)}
<1>4. \A i \in 1..n : v(i) \in Nat
  BY <1>1, <1>3
<1> HIDE DEF v
<1>5. 0 \in G
  OBVIOUS
<1>6. ASSUME NEW i \in 1..n, i - 1 \in G PROVE i \in G
  <2>1. i \in 0..n /\ i \in 1..i /\ 1..i = (1..(i - 1)) \cup {i}
    BY <1>6
  <2>2. CASE i = 1
    <3>1. \A k \in 1..i : v(k) <= v(i)
      BY <1>4, <2>2
    <3> QED
      BY <2>1, <3>1
  <2>3. CASE i # 1
    <3>1. PICK j \in 1..(i - 1) : \A k \in 1..(i - 1) : v(k) <= v(j)
      BY <1>6, <2>3
    <3>2. j \in 1..i /\ v(j) \in Nat /\ v(i) \in Nat /\ \A k \in 1..(i - 1) : v(k) \in Nat
      BY <1>4, <1>6, <3>1
    <3>3. CASE v(j) >= v(i)
      <4>1. \A k \in 1..i : v(k) <= v(j)
        BY <2>1, <3>1, <3>2, <3>3
      <4> QED
        BY <2>1, <3>2, <4>1
    <3>4. CASE v(j) < v(i)
      <4>1. \A k \in 1..i : v(k) <= v(i)
        BY <2>1, <3>1, <3>2, <3>4
      <4> QED
        BY <2>1, <4>1
    <3> QED
      BY <3>2, <3>3, <3>4
  <2> QED
    BY <2>2, <2>3
<1>7. G = 0..n
  <2> HIDE DEF G
  <2>1. G \subseteq 0..n
    BY DEF G
  <2> QED
    BY <1>5, <1>6, <2>1, LeastFailure
<1>8. Top(n) /\ n # 0
  <2>1. n \in G
    <3> HIDE DEF G
    <3> QED
      BY <1>7
  <2>2. n # 0
    BY <1>3
  <2> QED
    BY <2>1, <2>2
<1>9. PICK j \in 1..n : \A k \in 1..n : v(k) <= v(j)
  BY <1>8
<1>10. v(j) \in S /\ \A x \in S : v(j) >= x
  <2>1. v(j) \in S
    BY <1>3 DEF v
  <2>2. ASSUME NEW r \in Requests PROVE v(j) >= SpecTokens[r]
    <3>1. PICK k \in 1..n : f[k] = r
      BY <1>3
    <3>2. v(k) = SpecTokens[r] /\ v(k) <= v(j)
      BY <1>9, <3>1 DEF v
    <3> QED
      BY <1>4, <3>2
  <2> QED
    BY <2>1, <2>2
<1>11. S \subseteq Nat
  BY <1>1
<1> HIDE DEF S
<1>12. Max(S) \in S /\ \A x \in S : Max(S) >= x
  BY <1>10 DEF Max
<1>13. Max(S) \in Nat /\ \A x \in S : x <= Max(S)
  BY <1>11, <1>12
<1>14. MostDrafts = Max(S)
  BY DEF MostDrafts, S
<1> QED
  BY <1>13, <1>14 DEF S

(* What the engine makes of an answer.                                     *)
GoodAnswers(seqs, answers) ==
    \A r \in seqs : /\ answers[r].count \in 1..(MostDrafts + 1)
                    /\ answers[r].stop \in 0..answers[r].count

LEMMA PairBounds ==
    ASSUME NEW a \in Nat, NEW b \in Nat
    PROVE  /\ Max({a, b}) = IF a >= b THEN a ELSE b
           /\ Min({a, b}) = IF a <= b THEN a ELSE b
<1>1. Max({a, b}) = IF a >= b THEN a ELSE b
  <2> DEFINE m == IF a >= b THEN a ELSE b
  <2>1. m \in {a, b} /\ \A y \in {a, b} : m >= y
    OBVIOUS
  <2>2. Max({a, b}) \in {a, b} /\ \A y \in {a, b} : Max({a, b}) >= y
    <3> HIDE DEF m
    <3> QED
      BY <2>1 DEF Max
  <2> QED
    BY <2>2
<1>2. Min({a, b}) = IF a <= b THEN a ELSE b
  <2>1. {a, b} \subseteq Nat /\ {a, b} # {}
    OBVIOUS
  <2>2. Min({a, b}) \in {a, b} /\ \A y \in {a, b} : Min({a, b}) <= y
    BY <2>1, MinLeast
  <2> QED
    BY <2>2
<1> QED
  BY <1>1, <1>2

LEMMA ConsumedFacts ==
    ASSUME NEW r \in Requests, NEW a, a.count \in Nat, a.count >= 1, a.stop \in 0..a.count,
           engine[r] \in Nat, engine[r] = 0 \/ engine[r] < MaxTokens[r]
    PROVE  /\ Consumed(r, a) \in Nat /\ 1 <= Consumed(r, a) /\ Consumed(r, a) <= a.count
           /\ engine[r] + Consumed(r, a) <= Contract!Limit(r)
           /\ ~Finishes(r, a) => /\ Consumed(r, a) = a.count
                                 /\ engine[r] + Consumed(r, a) < MaxTokens[r]
                                 /\ engine[r] + Consumed(r, a) < Contract!Limit(r)
           /\ Finishes(r, a) /\ ~(a.stop > 0 /\ Consumed(r, a) = a.stop)
                 => engine[r] + Consumed(r, a) = Contract!Limit(r)
<1> DEFINE e == engine[r]
           m == MaxTokens[r]
           u == IF a.stop > 0 THEN a.stop ELSE a.count
           d == Monus(m, e)
           c == Consumed(r, a)
           l == Contract!Limit(r)
<1>1. e \in Nat /\ m \in Nat /\ u \in Nat /\ d \in Nat /\ 1 <= u /\ u <= a.count /\ a.stop \in Nat
  BY EngineAssumption DEF Monus
<1>2. d = IF m > e THEN m - e ELSE 0
  BY DEF Monus
<1>3. l = IF 1 >= m THEN 1 ELSE m
  <2>1. l = Max({1, m})
    BY DEF Contract!Limit, Contract!Max, Max
  <2> HIDE DEF m, l
  <2> QED
    BY <1>1, <2>1, PairBounds
<1>4. c = LET x == IF u <= d THEN u ELSE d IN IF 1 >= x THEN 1 ELSE x
  <2> DEFINE x == Min({u, d})
  <2>1. x = IF u <= d THEN u ELSE d
    <3> HIDE DEF u, d
    <3> QED
      BY <1>1, PairBounds
  <2>2. c = Max({1, x})
    BY DEF Consumed
  <2>3. x \in Nat
    <3> HIDE DEF u, d, x
    <3> QED
      BY <1>1, <2>1
  <2> HIDE DEF x, c, u, d
  <2>4. Max({1, x}) = IF 1 >= x THEN 1 ELSE x
    BY <2>3, PairBounds
  <2> QED
    BY <2>1, <2>2, <2>4
<1>5. Finishes(r, a) <=> (a.stop > 0 /\ c = a.stop) \/ e + c >= m
  BY DEF Finishes
<1>6. e = 0 \/ e < m
  OBVIOUS
<1>7. u = a.stop \/ (a.stop = 0 /\ u = a.count)
  BY <1>1
<1> HIDE DEF e, m, u, d, c, l
<1>8. c \in Nat /\ 1 <= c /\ c <= u /\ e + c <= l
  BY <1>1, <1>2, <1>3, <1>4, <1>6
<1>9. ASSUME e + c < m PROVE c = u
  BY <1>1, <1>2, <1>4, <1>9
<1>10. ASSUME e + c >= m PROVE e + c = l
  BY <1>1, <1>2, <1>3, <1>4, <1>6, <1>10
<1>11. ASSUME ~Finishes(r, a) PROVE c = a.count /\ e + c < m /\ e + c < l
  <2>1. e + c < m /\ c = u
    BY <1>1, <1>5, <1>8, <1>9, <1>11
  <2>2. ~(a.stop > 0 /\ c = a.stop)
    BY <1>5, <1>11
  <2>3. c = a.count
    BY <1>1, <1>7, <1>8, <2>1, <2>2
  <2> QED
    BY <1>1, <1>3, <1>8, <2>1, <2>3
<1>12. ASSUME Finishes(r, a), ~(a.stop > 0 /\ c = a.stop) PROVE e + c = l
  BY <1>5, <1>10, <1>12
<1> QED
  BY <1>1, <1>8, <1>11, <1>12 DEF e, m, c, l

-----------------------------------------------------------------------------
(* The end of a step: the outputs are processed.                           *)

(* The executor's state once it has been told of the batch.                *)
RunnerOK(rn) ==
    /\ DOMAIN rn \subseteq Requests
    /\ \A r \in DOMAIN rn : rn[r] \in [computed : Nat, generated : Nat]
    /\ executor = "uniproc" => DOMAIN rn \subseteq DOMAIN requests
    /\ DOMAIN requests \ DOMAIN rn \subseteq restarted \cup finished

LEMMA RunnerForgets ==
    ASSUME NEW rn, RunnerOK(rn), NEW gone, EngineTypes,
           DOMAIN requests' = DOMAIN requests \ gone, finished' = finished \ gone,
           restarted' = restarted \ gone, executor' = executor, ToSet(out'.preempted) = {},
           runner' = ExecutorForget(rn, gone)
    PROVE  /\ ExecutorInv' /\ DOMAIN runner' \subseteq Requests
           /\ \A r \in DOMAIN runner' : runner'[r] \in [computed : Nat, generated : Nat]
<1>1. CASE executor = "multiproc"
  <2>1. runner' = rn
    BY <1>1 DEF ExecutorForget
  <2> QED
    BY <1>1, <2>1 DEF RunnerOK, ExecutorInv
<1>2. CASE executor # "multiproc"
  <2>1. runner' = Restrict(rn, DOMAIN rn \ gone)
    BY <1>2 DEF ExecutorForget
  <2>2. DOMAIN runner' = DOMAIN rn \ gone /\ \A r \in DOMAIN runner' : runner'[r] = rn[r]
    BY <2>1 DEF Restrict
  <2> QED
    BY <1>2, <2>2 DEF RunnerOK, ExecutorInv
<1> QED
  BY <1>1, <1>2

LEMMA StepEnded ==
    ASSUME ControlInv, EndStep
    PROVE  LiveInv' /\ ToSet(out'.preempted) = {}
<1>1. /\ toPreempt' = <<>> /\ phase' = "idle" /\ out' = EmptyOutput
  BY DEF EndStep, ControlInv, LoopOK
<1>2. ToSet(<<>>) = {}
  BY DEF ToSet
<1> QED
  BY <1>1, <1>2 DEF LiveInv, Batch, EmptyOutput

(* The requests that end leave everywhere; the others count their tokens.  *)
Processed(seqs, answers) ==
    LET ends == {r \in seqs : Finishes(r, answers[r])}
    IN  /\ Forgotten(ends) /\ restarted' = restarted \ ends /\ executor' = executor
        /\ DOMAIN engine' = DOMAIN engine \ ends
        /\ \A r \in DOMAIN engine' : engine'[r] = IF r \in seqs
                                                  THEN engine[r] + Consumed(r, answers[r])
                                                  ELSE engine[r]

LEMMA ProcessEffect ==
    ASSUME EngineInv, EndStep, NEW rn, NEW seqs, NEW answers, seqs \subseteq Batch,
           ProcessOutputs(rn, seqs, answers)
    PROVE  /\ ControlInv' /\ MemInv' /\ Processed(seqs, answers)
           /\ runner' = ExecutorForget(rn, {r \in seqs : Finishes(r, answers[r])})
<1> DEFINE done == FinishedIds(seqs, answers)
           ends == {r \in seqs : Finishes(r, answers[r])}
<1>1. ControlInv /\ MemInv /\ DOMAIN engine = DOMAIN requests
  BY DEF EngineInv, EngineTypes
<1>2. Scheduled \in Seq(Requests) /\ ToSet(Scheduled) = Batch
  BY <1>1, ScheduledBatch
<1>3. done \in Seq(Requests) /\ ToSet(done) = Ends(seqs, answers)
  BY <1>2, FinishedIdsProperties
<1>4. seqs \subseteq DOMAIN engine
  BY <1>1, BatchTracked
<1>5. Ends(seqs, answers) = ends
  BY <1>2, <1>4 DEF Ends
<1>6. /\ engine' = [r \in DOMAIN engine \ ToSet(done) |->
                        IF r \in seqs THEN engine[r] + Consumed(r, answers[r]) ELSE engine[r]]
      /\ ForgetAll(done) /\ restarted' = restarted \ ToSet(done) /\ executor' = executor
      /\ runner' = ExecutorForget(rn, ToSet(done))
  BY DEF ProcessOutputs
<1> HIDE DEF done
<1>7. ControlInv' /\ Forgotten(ToSet(done))
  BY <1>1, <1>3, <1>6, ForgetAllControl
<1>8. MemInv'
  BY <1>1, <1>3, <1>6, <1>7, ForgetAllMemory
<1>9. ToSet(done) = ends
  BY <1>3, <1>5
<1> HIDE DEF ends
<1>10. /\ DOMAIN engine' = DOMAIN engine \ ends
       /\ \A r \in DOMAIN engine' : engine'[r] = IF r \in seqs
                                                 THEN engine[r] + Consumed(r, answers[r])
                                                 ELSE engine[r]
  BY <1>6, <1>9
<1> QED
  BY <1>6, <1>7, <1>8, <1>9, <1>10 DEF Processed, ends

(* What an answer means for its request.                                   *)
LEMMA AnswerFacts ==
    ASSUME EngineInv, NEW seqs, seqs \subseteq Batch, NEW answers, GoodAnswers(seqs, answers),
           NEW r \in seqs
    PROVE  LET a == answers[r]
               c == Consumed(r, a)
           IN  /\ r \in Requests /\ r \in DOMAIN engine /\ engine[r] \in Nat
               /\ a.count \in Nat /\ a.count <= MostDrafts + 1 /\ MostDrafts \in Nat
               /\ c \in Nat /\ 1 <= c /\ c <= a.count
               /\ engine[r] + c <= Contract!Limit(r)
               /\ ~Finishes(r, a) => /\ c = a.count /\ engine[r] + c < MaxTokens[r]
                                     /\ engine[r] + c < Contract!Limit(r)
               /\ Finishes(r, a) /\ ~(a.stop > 0 /\ c = a.stop)
                     => engine[r] + c = Contract!Limit(r)
<1> DEFINE a == answers[r]
<1>1. ControlInv /\ MemInv /\ EngineTypes /\ BelowLimits /\ TypesOK
  BY DEF EngineInv, ControlInv
<1>2. r \in Requests /\ r \in DOMAIN engine /\ engine[r] \in Nat
  BY <1>1, BatchTracked DEF EngineTypes, TypesOK
<1>3. engine[r] = 0 \/ engine[r] < MaxTokens[r]
  BY <1>1, <1>2 DEF BelowLimits
<1>4. MostDrafts \in Nat
  BY <1>2, MostDraftsBound
<1>5. a.count \in 1..(MostDrafts + 1) /\ a.stop \in 0..a.count
  BY DEF GoodAnswers
<1> HIDE DEF a
<1>6. a.count \in Nat /\ a.count >= 1 /\ a.count <= MostDrafts + 1
  BY <1>4, <1>5
<1> QED
  BY <1>2, <1>3, <1>4, <1>5, <1>6, ConsumedFacts DEF a

LEMMA ProcessKeepsInv ==
    ASSUME EngineInv, EndStep, NEW rn, RunnerOK(rn), NEW seqs, seqs \subseteq Batch,
           NEW answers, GoodAnswers(seqs, answers), ProcessOutputs(rn, seqs, answers)
    PROVE  EngineInv'
<1> DEFINE ends == {r \in seqs : Finishes(r, answers[r])}
<1>1. /\ ControlInv' /\ MemInv' /\ Processed(seqs, answers)
      /\ runner' = ExecutorForget(rn, ends)
  BY ProcessEffect
<1>2. LiveInv' /\ ToSet(out'.preempted) = {}
  BY StepEnded DEF EngineInv
<1>3. EngineTypes /\ BelowLimits
  BY DEF EngineInv
<1>4. /\ Forgotten(ends) /\ restarted' = restarted \ ends /\ executor' = executor
      /\ DOMAIN engine' = DOMAIN engine \ ends
      /\ \A r \in DOMAIN engine' : engine'[r] = IF r \in seqs
                                                THEN engine[r] + Consumed(r, answers[r])
                                                ELSE engine[r]
  BY <1>1 DEF Processed
<1>5. ASSUME NEW r \in DOMAIN engine'
      PROVE  engine'[r] \in Nat /\ (engine'[r] = 0 \/ engine'[r] < MaxTokens[r])
  <2>1. CASE r \in seqs
    <3>1. ~Finishes(r, answers[r])
      BY <1>4, <1>5, <2>1
    <3>2. /\ engine[r] \in Nat /\ Consumed(r, answers[r]) \in Nat
          /\ engine[r] + Consumed(r, answers[r]) < MaxTokens[r]
      BY <2>1, <3>1, AnswerFacts
    <3> QED
      BY <1>4, <1>5, <2>1, <3>2
  <2>2. CASE r \notin seqs
    BY <1>3, <1>4, <1>5, <2>2 DEF EngineTypes, BelowLimits
  <2> QED
    BY <2>1, <2>2
<1> HIDE DEF ends
<1>6. DOMAIN requests' = DOMAIN requests \ ends /\ finished' = finished \ ends
  BY <1>4 DEF Forgotten
<1>7. /\ ExecutorInv' /\ DOMAIN runner' \subseteq Requests
      /\ \A r \in DOMAIN runner' : runner'[r] \in [computed : Nat, generated : Nat]
  BY <1>1, <1>2, <1>3, <1>4, <1>6, RunnerForgets
<1>8. EngineTypes'
  BY <1>3, <1>4, <1>5, <1>6, <1>7 DEF EngineTypes
<1>9. BelowLimits'
  BY <1>5 DEF BelowLimits
<1> QED
  BY <1>1, <1>2, <1>7, <1>8, <1>9 DEF EngineInv

-----------------------------------------------------------------------------
(* The contract's view of the engine.                                      *)

Core == [generated |-> engine, active |-> {r \in DOMAIN requests : ~IsFinished(r)}]

LEMMA CoreFields ==
    /\ Core.generated = engine
    /\ Core.active = {r \in DOMAIN requests : Alive(r)}
    /\ Contract!Tracked(Core) = DOMAIN engine
    /\ Core'.generated = engine'
    /\ Core'.active = {r \in DOMAIN requests' : Alive(r)'}
BY DEF Core, Alive, IsFinished, Contract!Tracked

(* Two states of the contract are equal when both fields are.              *)
LEMMA CoreEqual ==
    ASSUME NEW g, NEW a, engine' = g, {r \in DOMAIN requests' : Alive(r)'} = a
    PROVE  Core' = [generated |-> g, active |-> a]
BY DEF Core, Alive, IsFinished

LEMMA ForgottenActive ==
    ASSUME NEW gone, Forgotten(gone)
    PROVE  {r \in DOMAIN requests' : Alive(r)'} = {r \in DOMAIN requests : Alive(r)} \ gone
BY DEF Forgotten, Alive

(* The output the engine returns for an answer.                            *)
OutputFor(r, a) ==
    [returned |-> a.count, counted |-> Consumed(r, a),
     finish |-> IF ~Finishes(r, a) THEN "none"
                ELSE IF a.stop > 0 /\ Consumed(r, a) = a.stop THEN "stop" ELSE "length"]

LEMMA OutputLegal ==
    ASSUME EngineInv, NEW seqs, seqs \subseteq Batch, NEW answers, GoodAnswers(seqs, answers),
           NEW r \in seqs
    PROVE  LET o == OutputFor(r, answers[r])
           IN  /\ o \in Contract!Output /\ Contract!Legal(Core, r, o)
               /\ o.counted = Consumed(r, answers[r]) /\ o.finish # "error"
               /\ o.finish # "none" <=> Finishes(r, answers[r])
<1> DEFINE a == answers[r]
           c == Consumed(r, a)
           o == OutputFor(r, a)
           e == engine[r]
           l == Contract!Limit(r)
<1>1. /\ e \in Nat /\ a.count \in Nat /\ a.count <= MostDrafts + 1 /\ MostDrafts \in Nat
      /\ c \in Nat /\ 1 <= c /\ c <= a.count /\ e + c <= l
      /\ ~Finishes(r, a) => c = a.count /\ e + c < l
      /\ Finishes(r, a) /\ ~(a.stop > 0 /\ c = a.stop) => e + c = l
  BY AnswerFacts
<1>2. /\ o.returned = a.count /\ o.counted = c
      /\ o.finish = IF ~Finishes(r, a) THEN "none"
                    ELSE IF a.stop > 0 /\ c = a.stop THEN "stop" ELSE "length"
      /\ o = [returned |-> o.returned, counted |-> o.counted, finish |-> o.finish]
  BY DEF OutputFor
<1>3. Core.generated[r] = e
  BY CoreFields
<1> HIDE DEF a, c, o, e, l
<1>4. o.finish \in {"none", "stop", "length"} /\ o.finish # "error"
  BY <1>2
<1>5. o.returned \in 0..(MostDrafts + 1) /\ o.counted \in 0..(MostDrafts + 1)
  BY <1>1, <1>2
<1>6. o \in Contract!Output
  BY <1>2, <1>4, <1>5 DEF Contract!Output, MostDrafts
<1>7. Contract!Legal(Core, r, o)
  <2>1. /\ 1 <= o.counted /\ o.counted <= o.returned
        /\ o.finish = "none"   => e + o.counted < l /\ o.counted = o.returned
        /\ o.finish = "length" => e + o.counted = l
        /\ o.finish = "stop"   => e + o.counted <= l
    BY <1>1, <1>2
  <2> QED
    BY <1>3, <1>4, <2>1 DEF Contract!Legal, l
<1>8. o.finish # "none" <=> Finishes(r, a)
  BY <1>2
<1> QED
  BY <1>2, <1>4, <1>6, <1>7, <1>8 DEF a, c, o

LEMMA BatchActive ==
    ASSUME EngineInv
    PROVE  Batch \subseteq Core.active /\ Core.active \subseteq DOMAIN engine
BY BatchTracked, CoreFields DEF EngineInv, LiveInv, EngineTypes

(* The outputs of a step are outputs the contract allows.                  *)
LEMMA ProcessAnswers ==
    ASSUME EngineInv, EndStep, NEW rn, NEW seqs, seqs \subseteq Batch,
           NEW answers, GoodAnswers(seqs, answers), ProcessOutputs(rn, seqs, answers)
    PROVE  Contract!Answer
<1> DEFINE outs == [r \in seqs |-> OutputFor(r, answers[r])]
           ends == {r \in seqs : Finishes(r, answers[r])}
<1>1. Processed(seqs, answers)
  BY ProcessEffect
<1>2. seqs \in SUBSET Core.active /\ seqs \subseteq DOMAIN engine
  BY BatchActive
<1>3. ASSUME NEW r \in seqs
      PROVE  /\ outs[r] \in Contract!Output /\ Contract!Legal(Core, r, outs[r])
             /\ outs[r].counted = Consumed(r, answers[r]) /\ outs[r].finish # "error"
             /\ outs[r].finish # "none" <=> Finishes(r, answers[r])
  BY OutputLegal
<1>4. DOMAIN outs = seqs /\ outs = [r \in seqs |-> outs[r]]
  OBVIOUS
<1> HIDE DEF outs
<1>5. outs \in Contract!Outputs(Core, seqs)
  BY <1>3, <1>4 DEF Contract!Outputs
<1>6. Contract!Finished(outs) = ends
  BY <1>3, <1>4 DEF Contract!Finished
<1>7. /\ Forgotten(ends) /\ DOMAIN engine' = DOMAIN engine \ ends
      /\ \A r \in DOMAIN engine' : engine'[r] = IF r \in seqs
                                                THEN engine[r] + Consumed(r, answers[r])
                                                ELSE engine[r]
  BY <1>1 DEF Processed
<1> DEFINE live == DOMAIN engine \ ends
           g == [r \in live |-> engine[r] + (IF r \in DOMAIN outs THEN outs[r].counted ELSE 0)]
           act == {r \in DOMAIN requests : Alive(r)} \ ends
<1>8. engine' = g
  <2>1. \A r \in DOMAIN engine : engine[r] \in Nat
    BY DEF EngineInv, EngineTypes
  <2>2. \A r \in live : engine'[r] = engine[r] + (IF r \in DOMAIN outs THEN outs[r].counted ELSE 0)
    BY <1>3, <1>4, <1>7, <2>1
  <2>3. engine' = [r \in live |-> engine'[r]]
    <3>1. engine' = [r \in DOMAIN engine' |-> engine'[r]]
      BY DEF ProcessOutputs
    <3> QED
      BY <1>7, <3>1
  <2> HIDE DEF live
  <2> QED
    BY <2>2, <2>3
<1>9. {r \in DOMAIN requests' : Alive(r)'} = act
  BY <1>7, ForgottenActive
<1>10. Core' = [generated |-> g, active |-> act]
  <2> HIDE DEF g, act
  <2> QED
    BY <1>8, <1>9, CoreEqual
<1>11. Core' = Contract!Answered(Core, outs)
  BY <1>6, <1>10, CoreFields DEF Contract!Answered
<1> HIDE DEF outs, ends, g, act
<1> QED
  BY <1>2, <1>5, <1>11 DEF Contract!Answer, Core

-----------------------------------------------------------------------------
(* The executors.                                                          *)

LEMMA CleanedOK ==
    ASSUME EngineInv
    PROVE  /\ RunnerOK(Cleaned(runner)) /\ RunnerOK(runner)
           /\ DOMAIN Cleaned(runner) \subseteq DOMAIN runner
           /\ \A r \in DOMAIN Cleaned(runner) : Cleaned(runner)[r] = runner[r]
<1>1. EngineTypes /\ ExecutorInv /\ ToSet(out.finished) \subseteq finished
  BY DEF EngineInv, LiveInv
<1>2. /\ DOMAIN Cleaned(runner) = DOMAIN runner \ (ToSet(out.finished) \cup ToSet(out.preempted))
      /\ \A r \in DOMAIN Cleaned(runner) : Cleaned(runner)[r] = runner[r]
  BY DEF Cleaned, Restrict
<1>3. RunnerOK(runner)
  BY <1>1 DEF RunnerOK, EngineTypes, ExecutorInv
<1>4. RunnerOK(Cleaned(runner))
  BY <1>1, <1>2, <1>3 DEF RunnerOK, ExecutorInv
<1> QED
  BY <1>2, <1>3, <1>4

LEMMA GoodAnswer ==
    ASSUME NEW k \in Nat, k <= MostDrafts, MostDrafts \in Nat, NEW a \in Answer(k),
           a.stop <= a.count
    PROVE  a.count \in 1..(MostDrafts + 1) /\ a.stop \in 0..a.count
<1>1. a.count \in Verified(k) /\ a.stop \in 0..(k + 1)
  BY DEF Answer
<1>2. a.count \in Nat /\ 1 <= a.count /\ a.count <= k + 1
  BY <1>1 DEF Verified
<1> HIDE DEF Verified
<1> QED
  BY <1>1, <1>2

LEMMA AnswersGood ==
    ASSUME NEW seqs, seqs \subseteq Requests, NEW drafts,
           \A r \in seqs : drafts[r] \in Nat /\ drafts[r] <= MostDrafts,
           NEW answers \in Answers(seqs, drafts)
    PROVE  GoodAnswers(seqs, answers)
<1> SUFFICES ASSUME NEW r \in seqs
             PROVE  answers[r].count \in 1..(MostDrafts + 1) /\ answers[r].stop \in 0..answers[r].count
  BY DEF GoodAnswers
<1>1. answers[r] \in Answer(drafts[r]) /\ answers[r].stop <= answers[r].count
  BY DEF Answers
<1>2. MostDrafts \in Nat
  BY MostDraftsBound
<1> QED
  BY <1>1, <1>2, GoodAnswer

(* The executor's counts stay numbers.                                     *)
LEMMA AdvancedOK ==
    ASSUME EngineInv, NEW rn, RunnerOK(rn), NEW drafts, NEW answers,
           \A r \in Sequences(rn) : drafts[r] \in Nat,
           GoodAnswers(Sequences(rn), answers)
    PROVE  RunnerOK(Advanced(rn, Sequences(rn), drafts, answers))
<1> DEFINE seqs == Sequences(rn)
           new == Advanced(rn, seqs, drafts, answers)
<1>1. /\ DOMAIN new = DOMAIN rn
      /\ \A r \in DOMAIN rn : new[r] =
            IF r \notin seqs THEN rn[r]
            ELSE [computed  |-> rn[r].computed + TokensPerSeq(rn, r, drafts),
                  generated |-> rn[r].generated + answers[r].count]
  BY DEF Advanced
<1> HIDE DEF new
<1>2. ASSUME NEW r \in DOMAIN rn PROVE new[r] \in [computed : Nat, generated : Nat]
  <2>1. rn[r] \in [computed : Nat, generated : Nat] /\ r \in Requests
    BY <1>2 DEF RunnerOK
  <2>2. CASE r \notin seqs
    BY <1>1, <1>2, <2>1, <2>2
  <2>3. CASE r \in seqs
    <3>1. answers[r].count \in Nat
      <4>1. MostDrafts \in Nat
        BY <2>1, MostDraftsBound
      <4> QED
        BY <2>3, <4>1 DEF GoodAnswers
    <3>2. TokensPerSeq(rn, r, drafts) \in Nat
      <4>1. CASE IsPrefill(r)
        <5> DEFINE c == rn[r].computed
                   t == out.tokens[r]
                   l == Len(Prompt[r])
        <5>1. r \in ToSet(out.new) \cup ToSet(out.running) /\ c < l /\ t > 0
          BY <2>3, <4>1 DEF Sequences
        <5>2. c \in Nat /\ t \in Nat /\ l \in Nat
          <6>1. t \in Nat
            BY <5>1 DEF EngineInv, MemInv, BatchOK
          <6>2. Prompt[r] \in Seq(Nat)
            BY <2>1, SchedulerAssumption
          <6> QED
            BY <2>1, <6>1, <6>2
        <5>3. TokensPerSeq(rn, r, drafts) = Min({c + t, l}) - c
          BY <4>1 DEF TokensPerSeq
        <5> HIDE DEF c, t, l
        <5>4. c + t \in Nat
          BY <5>2
        <5>5. Min({c + t, l}) = IF c + t <= l THEN c + t ELSE l
          BY <5>2, <5>4, PairBounds
        <5> QED
          BY <5>1, <5>2, <5>3, <5>5
      <4>2. CASE ~IsPrefill(r)
        BY <2>3, <4>2 DEF TokensPerSeq
      <4> QED
        BY <4>1, <4>2
    <3>3. /\ rn[r].computed + TokensPerSeq(rn, r, drafts) \in Nat
          /\ rn[r].generated + answers[r].count \in Nat
      BY <2>1, <3>1, <3>2
    <3> QED
      BY <1>1, <1>2, <2>3, <3>3
  <2> QED
    BY <2>2, <2>3
<1>3. RunnerOK(new)
  BY <1>1, <1>2 DEF RunnerOK
<1> QED
  BY <1>3 DEF new

LEMMA StoredOnlyOK ==
    ASSUME NEW rn, RunnerOK(rn), NEW seqs
    PROVE  RunnerOK(StoredOnly(rn, seqs))
<1> DEFINE new == StoredOnly(rn, seqs)
<1>1. /\ DOMAIN new = DOMAIN rn
      /\ \A r \in DOMAIN rn : new[r] = IF r \in seqs THEN [rn[r] EXCEPT !.generated = @ + 1] ELSE rn[r]
  BY DEF StoredOnly
<1> HIDE DEF new
<1>2. ASSUME NEW r \in DOMAIN rn PROVE new[r] \in [computed : Nat, generated : Nat]
  <2>1. rn[r] \in [computed : Nat, generated : Nat]
    BY DEF RunnerOK
  <2> QED
    BY <1>1, <2>1
<1>3. RunnerOK(new)
  BY <1>1, <1>2 DEF RunnerOK
<1> QED
  BY <1>3 DEF new

LEMMA UniProcKeeps ==
    ASSUME EngineInv, StepUniProc
    PROVE  EngineInv' /\ Contract!Answer
<1> DEFINE rn == Cleaned(runner)
           seqs == Sequences(rn)
<1>1. EndStep
  BY DEF StepUniProc
<1>2. PICK drafts \in DraftCounts : \E answers \in Answers(seqs, drafts) :
            ProcessOutputs(Advanced(rn, seqs, drafts, answers), seqs, answers)
  BY DEF StepUniProc
<1>3. PICK answers \in Answers(seqs, drafts) :
            ProcessOutputs(Advanced(rn, seqs, drafts, answers), seqs, answers)
  BY <1>2
<1>4. seqs \subseteq Batch
  BY DEF Sequences, Batch
<1>5. Batch \subseteq Requests
  BY BatchTracked DEF EngineInv, ControlInv, TypesOK
<1>6. ASSUME NEW r \in seqs PROVE drafts[r] \in Nat /\ drafts[r] <= MostDrafts
  <2>1. r \in Requests
    BY <1>4, <1>5
  <2>2. MostDrafts \in Nat
    BY <2>1, MostDraftsBound
  <2>3. drafts[r] \in 0..MostDrafts
    BY <1>2, <2>1 DEF DraftCounts, MostDrafts
  <2> QED
    BY <2>2, <2>3
<1>7. seqs \subseteq Requests
  BY <1>4, <1>5
<1>8. RunnerOK(rn)
  BY CleanedOK
<1> DEFINE new == Advanced(rn, seqs, drafts, answers)
<1>9. GoodAnswers(seqs, answers)
  <2> HIDE DEF seqs
  <2> QED
    BY <1>3, <1>6, <1>7, AnswersGood
<1>10. RunnerOK(new)
  <2> HIDE DEF rn
  <2> QED
    BY <1>6, <1>8, <1>9, AdvancedOK
<1>11. ProcessOutputs(new, seqs, answers)
  BY <1>3
<1> HIDE DEF new, seqs
<1> QED
  BY <1>1, <1>4, <1>9, <1>10, <1>11, ProcessKeepsInv, ProcessAnswers

LEMMA MultiProcKeeps ==
    ASSUME EngineInv, StepMultiProc
    PROVE  EngineInv' /\ Contract!Answer
<1> DEFINE seqs == MultiProcSequences(runner)
           drafts == [r \in Requests |-> 0]
           new == StoredOnly(runner, seqs)
<1>1. EndStep
  BY DEF StepMultiProc
<1>2. PICK answers \in Answers(seqs, drafts) : ProcessOutputs(new, seqs, answers)
  BY DEF StepMultiProc
<1>3. ToSet(Scheduled) = Batch
  BY ScheduledBatch DEF EngineInv
<1>4. seqs \subseteq Batch
  BY <1>3 DEF MultiProcSequences
<1>5. Batch \subseteq Requests
  BY BatchTracked DEF EngineInv, ControlInv, TypesOK
<1>6. seqs \subseteq Requests
  BY <1>4, <1>5
<1> HIDE DEF seqs
<1>7. ASSUME NEW r \in seqs PROVE drafts[r] \in Nat /\ drafts[r] <= MostDrafts
  <2>1. MostDrafts \in Nat
    BY <1>6, MostDraftsBound
  <2> QED
    BY <1>6, <2>1
<1> HIDE DEF drafts
<1>8. GoodAnswers(seqs, answers)
  BY <1>2, <1>6, <1>7, AnswersGood
<1>9. RunnerOK(new)
  BY CleanedOK, StoredOnlyOK
<1>10. ProcessOutputs(new, seqs, answers)
  BY <1>2
<1> HIDE DEF new
<1> QED
  BY <1>1, <1>4, <1>8, <1>9, <1>10, ProcessKeepsInv, ProcessAnswers

(* A listing of a finite set holds all of it.                              *)
LEMMA ListingOfSet ==
    ASSUME NEW S, S \subseteq Requests, IsFiniteSet(S), NEW ids \in SetToSeqs(S)
    PROVE  ids \in Seq(Requests) /\ ToSet(ids) = S
<1> DEFINE n == Cardinality(S)
           D == 1..n
<1>1. n \in Nat
  BY FS_CardinalityType
<1>2. ids \in [D -> S] /\ \A i, j \in D : i # j => ids[i] # ids[j]
  BY DEF SetToSeqs
<1>3. IsFiniteSet(D) /\ Cardinality(D) = n
  <2> HIDE DEF n
  <2>1. 1 \in Int /\ n \in Int /\ n >= 0
    BY <1>1
  <2>2. IsFiniteSet(1..n) /\ Cardinality(1..n) = IF 1 > n THEN 0 ELSE n - 1 + 1
    BY <2>1, FS_Interval
  <2> QED
    BY <1>1, <2>2
<1>4. ids \in Injection(D, S)
  BY <1>2 DEF Injection, IsInjective
<1>5. ids \in Surjection(D, S)
  <2>1. Cardinality(D) = Cardinality(S) <=> ids \in Surjection(D, S)
    BY <1>4, FS_Injection
  <2> QED
    BY <1>3, <2>1
<1> HIDE DEF n
<1>6. \A x \in S : \E i \in D : ids[i] = x
  BY <1>5 DEF Surjection
<1>7. ids \in Seq(Requests)
  BY <1>1, <1>2
<1> QED
  BY <1>2, <1>6, <1>7 DEF ToSet

LEMMA ErrorKeeps ==
    ASSUME EngineInv, StepError
    PROVE  EngineInv' /\ Contract!Answer
<1>1. ControlInv /\ MemInv /\ EngineTypes /\ BelowLimits
  BY DEF EngineInv
<1>2. ToSet(Scheduled) = Batch
  BY <1>1, ScheduledBatch
<1>3. /\ EndStep /\ \E ids \in SetToSeqs(Batch) : ForgetAll(ids)
      /\ engine' = Restrict(engine, DOMAIN engine \ Batch)
      /\ runner' = ExecutorForget(Cleaned(runner), Batch)
      /\ restarted' = restarted \ Batch /\ executor' = executor
  BY <1>2 DEF StepError
<1>4. PICK ids \in SetToSeqs(Batch) : ForgetAll(ids)
  BY <1>3
<1>5. Batch \subseteq Requests /\ IsFiniteSet(Batch)
  <2>1. Batch \subseteq Requests
    BY <1>1, BatchTracked DEF ControlInv, TypesOK
  <2> QED
    BY <2>1, EngineAssumption, FS_Subset
<1>6. ids \in Seq(Requests) /\ ToSet(ids) = Batch
  BY <1>5, ListingOfSet
<1>7. ControlInv' /\ Forgotten(ToSet(ids))
  BY <1>1, <1>3, <1>4, <1>6, ForgetAllControl
<1>8. MemInv'
  BY <1>1, <1>3, <1>4, <1>6, <1>7, ForgetAllMemory
<1>9. Forgotten(Batch)
  BY <1>6, <1>7
<1>10. LiveInv' /\ ToSet(out'.preempted) = {}
  BY <1>1, <1>3, StepEnded
<1>11. /\ DOMAIN engine' = DOMAIN engine \ Batch
       /\ \A r \in DOMAIN engine' : engine'[r] = engine[r]
  BY <1>3 DEF Restrict
<1>12. DOMAIN requests' = DOMAIN requests \ Batch /\ finished' = finished \ Batch
  BY <1>9 DEF Forgotten
<1>13. /\ ExecutorInv' /\ DOMAIN runner' \subseteq Requests
       /\ \A r \in DOMAIN runner' : runner'[r] \in [computed : Nat, generated : Nat]
  <2> DEFINE rn == Cleaned(runner)
             b == Batch
  <2>1. RunnerOK(rn) /\ runner' = ExecutorForget(rn, b)
    BY <1>3, CleanedOK
  <2>2. /\ DOMAIN requests' = DOMAIN requests \ b /\ finished' = finished \ b
        /\ restarted' = restarted \ b
    BY <1>3, <1>12
  <2> HIDE DEF rn, b
  <2> QED
    BY <1>1, <1>3, <1>10, <2>1, <2>2, RunnerForgets
<1>14. EngineTypes'
  BY <1>1, <1>3, <1>11, <1>12, <1>13 DEF EngineTypes
<1>15. BelowLimits'
  BY <1>1, <1>11 DEF BelowLimits
<1>16. EngineInv'
  BY <1>7, <1>8, <1>10, <1>13, <1>14, <1>15 DEF EngineInv
<1> DEFINE failure == [returned |-> 0, counted |-> 0, finish |-> "error"]
           outs == [r \in Batch |-> failure]
           act == {r \in DOMAIN requests : Alive(r)} \ Batch
           g == [r \in DOMAIN engine \ Batch |->
                    engine[r] + (IF r \in DOMAIN outs THEN outs[r].counted ELSE 0)]
<1>17. Batch \in SUBSET Core.active
  BY BatchActive
<1>18. ASSUME NEW r \in Batch PROVE failure \in Contract!Output /\ Contract!Legal(Core, r, failure)
  <2>1. MostDrafts \in Nat
    BY <1>5, MostDraftsBound
  <2>2. 0 \in 0..(MostDrafts + 1)
    BY <2>1
  <2> QED
    BY <2>2 DEF Contract!Output, Contract!Legal, MostDrafts
<1>19. outs \in Contract!Outputs(Core, Batch)
  BY <1>18 DEF Contract!Outputs
<1>20. Contract!Finished(outs) = Batch
  BY DEF Contract!Finished
<1>21. engine' = g
  <2>1. \A r \in DOMAIN engine \ Batch : engine[r] \in Nat
    BY <1>1 DEF EngineTypes
  <2>2. \A r \in DOMAIN engine \ Batch : engine'[r] = engine[r] + (IF r \in DOMAIN outs THEN outs[r].counted ELSE 0)
    BY <1>11, <2>1
  <2> QED
    BY <1>3, <1>11, <2>2 DEF Restrict
<1>22. {r \in DOMAIN requests' : Alive(r)'} = act
  BY <1>9, ForgottenActive
<1>23. Core' = [generated |-> g, active |-> act]
  <2> HIDE DEF g, act
  <2> QED
    BY <1>21, <1>22, CoreEqual
<1>24. Core' = Contract!Answered(Core, outs)
  BY <1>20, <1>23, CoreFields DEF Contract!Answered
<1>25. Contract!Answer
  <2> HIDE DEF outs
  <2> QED
    BY <1>17, <1>19, <1>24 DEF Contract!Answer, Core
<1> QED
  BY <1>16, <1>25

-----------------------------------------------------------------------------
(* The other actions.                                                      *)

LEMMA EmptyKeeps ==
    ASSUME EngineInv, StepEmpty
    PROVE  EngineInv' /\ Core' = Core
<1>1. ControlInv /\ MemInv /\ EngineTypes /\ ExecutorInv /\ BelowLimits
  BY DEF EngineInv
<1>2. StepReturn /\ EndStep /\ UNCHANGED <<requests, finished, engine, runner, executor, restarted>>
  BY DEF StepEmpty, StepReturn, EndStep, engineVars
<1>3. ControlInv'
  BY <1>1, <1>2, ControlStep DEF Next
<1>4. MemInv'
  BY <1>1, <1>2, <1>3, MemoryActions DEF Next
<1>5. LiveInv' /\ ToSet(out'.preempted) = {}
  BY <1>1, <1>2, StepEnded
<1>6. EngineTypes' /\ ExecutorInv' /\ BelowLimits'
  BY <1>1, <1>2, <1>5 DEF EngineTypes, ExecutorInv, BelowLimits
<1>7. Core' = Core
  BY <1>2 DEF Core, IsFinished
<1> QED
  BY <1>3, <1>4, <1>5, <1>6, <1>7 DEF EngineInv

LEMMA SchedulerPartKeeps ==
    ASSUME EngineInv, SchedulerPart
    PROVE  EngineInv' /\ Contract!Retire
<1>1. ControlInv /\ MemInv /\ LiveInv /\ EngineTypes /\ ExecutorInv /\ BelowLimits
  BY DEF EngineInv
<1>2. /\ StepAction /\ restarted' = restarted \cup ToSet(out'.preempted)
      /\ engine' = engine /\ runner' = runner /\ executor' = executor
  BY DEF SchedulerPart
<1>3. ControlInv'
  BY <1>1, <1>2, ControlStep DEF Next
<1>4. MemInv'
  BY <1>1, <1>2, <1>3, MemoryActions DEF Next
<1>5. StepEffect
  BY <1>1, <1>2, StepActionEffect
<1>6. /\ DOMAIN requests' = DOMAIN requests /\ finished \subseteq finished' /\ LiveInv'
      /\ \A x \in DOMAIN requests : Alive(x)' => Alive(x)
      /\ ToSet(out'.preempted) \subseteq ToSet(out.preempted) \cup ToSet(running)
  BY <1>5 DEF StepEffect
<1>7. ToSet(running) \subseteq DOMAIN requests
  BY <1>1, BatchTracked
<1>8. EngineTypes' /\ ExecutorInv' /\ BelowLimits'
  <2>1. ToSet(out'.preempted) \subseteq DOMAIN requests
    BY <1>1, <1>6, <1>7 DEF EngineTypes, ExecutorInv
  <2> QED
    BY <1>1, <1>2, <1>6, <2>1 DEF EngineTypes, ExecutorInv, BelowLimits
<1> DEFINE old == {r \in DOMAIN requests : Alive(r)}
           act == {r \in DOMAIN requests' : Alive(r)'}
           rs == old \ act
<1>9. act = old \ rs
  BY <1>6
<1>10. Core' = [generated |-> engine, active |-> act] /\ Core = [generated |-> engine, active |-> old]
  BY <1>2 DEF Core, Alive, IsFinished
<1> HIDE DEF old, act
<1>11. Core' = [Core EXCEPT !.active = @ \ rs] /\ rs \in SUBSET Core.active
  BY <1>9, <1>10
<1>12. Core' = Contract!Retired(Core, rs)
  BY <1>11 DEF Contract!Retired
<1> HIDE DEF rs
<1>13. Contract!Retire
  BY <1>11, <1>12 DEF Contract!Retire, Core
<1> QED
  BY <1>3, <1>4, <1>6, <1>8, <1>13 DEF EngineInv

LEMMA IdleEngine ==
    ASSUME EngineInv, phase = "idle"
    PROVE  /\ out = EmptyOutput /\ Batch = {} /\ ToSet(out.preempted) = {}
           /\ ToSet(out.finished) = {} /\ toPreempt = <<>> /\ ToSet(toPreempt) = {}
<1>1. out = EmptyOutput /\ toPreempt = <<>>
  BY DEF EngineInv, ControlInv, OutputOK, LoopOK
<1>2. ToSet(<<>>) = {}
  BY DEF ToSet
<1> QED
  BY <1>1, <1>2 DEF EmptyOutput, Batch

(* A call between two steps leaves nothing of a step behind.               *)
LEMMA IdleLive ==
    ASSUME EngineInv, phase = "idle", UNCHANGED stepVars
    PROVE  LiveInv' /\ ToSet(out'.preempted) = {}
<1>1. out' = out /\ toPreempt' = toPreempt /\ phase' = "idle"
  BY DEF stepVars
<1>2. /\ Batch' = {} /\ ToSet(out'.preempted) = {} /\ ToSet(out'.finished) = {}
      /\ ToSet(toPreempt') = {}
  BY <1>1, IdleEngine DEF Batch
<1> QED
  BY <1>1, <1>2 DEF LiveInv

LEMMA AddKeeps ==
    ASSUME EngineInv, NEW r \in Requests, EngineAdd(r)
    PROVE  EngineInv' /\ Contract!Add(r)
<1>1. ControlInv /\ MemInv /\ EngineTypes /\ ExecutorInv /\ BelowLimits
  BY DEF EngineInv
<1>2. /\ AddRequest(r) /\ phase = "idle" /\ r \notin DOMAIN requests /\ finished' = finished
      /\ requests' = Put(requests, r, NewRequest) /\ UNCHANGED stepVars
      /\ runner' = Put(runner, r, NewRunnerState) /\ engine' = Put(engine, r, 0)
      /\ executor' = executor /\ restarted' = restarted
  BY DEF EngineAdd, AddRequest
<1>3. ControlInv'
  BY <1>1, <1>2, ControlAdd
<1>4. MemInv'
  BY <1>1, <1>2, <1>3, MemoryAdd
<1>5. LiveInv' /\ ToSet(out'.preempted) = {}
  BY <1>2, IdleLive
<1>6. /\ DOMAIN requests' = DOMAIN requests \cup {r} /\ requests'[r] = NewRequest
      /\ \A x \in DOMAIN requests : requests'[x] = requests[x]
      /\ DOMAIN engine' = DOMAIN engine \cup {r} /\ engine'[r] = 0
      /\ \A x \in DOMAIN engine \ {r} : engine'[x] = engine[x]
      /\ DOMAIN runner' = DOMAIN runner \cup {r} /\ runner'[r] = NewRunnerState
      /\ \A x \in DOMAIN runner \ {r} : runner'[x] = runner[x]
  BY <1>2 DEF Put
<1>7. NewRunnerState \in [computed : Nat, generated : Nat]
  BY DEF NewRunnerState
<1>8. EngineTypes' /\ ExecutorInv' /\ BelowLimits'
  <2>1. EngineTypes'
    BY <1>1, <1>2, <1>6, <1>7 DEF EngineTypes
  <2>2. ExecutorInv'
    BY <1>1, <1>2, <1>5, <1>6 DEF ExecutorInv
  <2>3. BelowLimits'
    BY <1>1, <1>6 DEF BelowLimits
  <2> QED
    BY <2>1, <2>2, <2>3
<1>9. {x \in DOMAIN requests' : Alive(x)'} = {x \in DOMAIN requests : Alive(x)} \cup {r}
  BY <1>6 DEF Alive, NewRequest
<1> DEFINE act == {x \in DOMAIN requests : Alive(x)} \cup {r}
           g == [q \in DOMAIN engine \cup {r} |-> IF q = r THEN 0 ELSE engine[q]]
<1>10. engine' = g
  BY <1>2 DEF Put
<1>11. Core' = [generated |-> g, active |-> act]
  <2>1. {x \in DOMAIN requests' : Alive(x)'} = act
    BY <1>9
  <2> HIDE DEF g, act
  <2> QED
    BY <1>10, <2>1, CoreEqual
<1>12. Core' = Contract!AddTo(Core, r)
  BY <1>11, CoreFields DEF Contract!AddTo
<1>13. r \notin Contract!Tracked(Core)
  BY <1>1, <1>2, CoreFields DEF EngineTypes
<1>14. Contract!Add(r)
  BY <1>12, <1>13 DEF Contract!Add, Core
<1> QED
  BY <1>3, <1>4, <1>5, <1>8, <1>14 DEF EngineInv

LEMMA AbortKeeps ==
    ASSUME EngineInv, NEW r \in Requests, EngineAbort(r)
    PROVE  EngineInv' /\ Contract!Abort(r)
<1>1. ControlInv /\ MemInv /\ EngineTypes /\ ExecutorInv /\ BelowLimits
  BY DEF EngineInv
<1>2. /\ AbortRequest(r) /\ phase = "idle" /\ r \in DOMAIN requests /\ finished' = finished \ {r}
      /\ requests' = Restrict(requests, DOMAIN requests \ {r}) /\ UNCHANGED stepVars
      /\ runner' = ExecutorForget(runner, {r})
      /\ engine' = Restrict(engine, DOMAIN engine \ {r})
      /\ executor' = executor /\ restarted' = restarted \ {r}
  BY DEF EngineAbort, AbortRequest, Forget, Drop
<1>3. ControlInv'
  BY <1>1, <1>2, ControlAbort
<1>4. MemInv'
  BY <1>1, <1>2, <1>3, MemoryActions DEF Next, OwnerCall
<1>5. LiveInv' /\ ToSet(out'.preempted) = {}
  BY <1>2, IdleLive
<1>6. /\ DOMAIN requests' = DOMAIN requests \ {r}
      /\ \A x \in DOMAIN requests' : requests'[x] = requests[x]
      /\ DOMAIN engine' = DOMAIN engine \ {r}
      /\ \A x \in DOMAIN engine' : engine'[x] = engine[x]
  BY <1>2 DEF Restrict
<1>7. /\ ExecutorInv' /\ DOMAIN runner' \subseteq Requests
      /\ \A x \in DOMAIN runner' : runner'[x] \in [computed : Nat, generated : Nat]
  <2>1. RunnerOK(runner)
    BY CleanedOK
  <2> QED
    BY <1>1, <1>2, <1>5, <1>6, <2>1, RunnerForgets
<1>8. EngineTypes'
  BY <1>1, <1>2, <1>6, <1>7 DEF EngineTypes
<1>9. BelowLimits'
  BY <1>1, <1>6 DEF BelowLimits
<1> DEFINE act == {x \in DOMAIN requests : Alive(x)} \ {r}
           g == Restrict(engine, DOMAIN engine \ {r})
<1>10. {x \in DOMAIN requests' : Alive(x)'} = act
  BY <1>6 DEF Alive
<1>11. Core' = [generated |-> g, active |-> act]
  <2>1. engine' = g
    BY <1>2
  <2> HIDE DEF g, act
  <2> QED
    BY <1>10, <2>1, CoreEqual
<1>12. Core' = Contract!Without(Core, {r})
  BY <1>11, CoreFields DEF Contract!Without, Contract!Restrict, Restrict
<1>13. r \in Contract!Tracked(Core)
  BY <1>1, <1>2, CoreFields DEF EngineTypes
<1>14. Contract!Abort(r)
  BY <1>12, <1>13 DEF Contract!Abort, Core
<1> QED
  BY <1>3, <1>4, <1>5, <1>7, <1>8, <1>9, <1>14 DEF EngineInv

LEMMA ResetKeeps ==
    ASSUME EngineInv, EngineResetPrefixCache
    PROVE  EngineInv' /\ Core' = Core
<1>1. ControlInv /\ MemInv /\ EngineTypes /\ ExecutorInv /\ BelowLimits
  BY DEF EngineInv
<1>2. /\ ResetPrefixCacheCall /\ phase = "idle" /\ UNCHANGED stepVars
      /\ UNCHANGED <<requests, finished, engine, runner, executor, restarted>>
  BY DEF EngineResetPrefixCache, ResetPrefixCacheCall, engineVars
<1>3. ControlInv'
  BY <1>1, <1>2, ControlStep DEF Next, OwnerCall
<1>4. MemInv'
  BY <1>1, <1>2, <1>3, MemoryActions DEF Next, OwnerCall
<1>5. LiveInv' /\ ToSet(out'.preempted) = {}
  BY <1>2, IdleLive
<1>6. EngineTypes' /\ ExecutorInv' /\ BelowLimits'
  BY <1>1, <1>2, <1>5 DEF EngineTypes, ExecutorInv, BelowLimits
<1>7. Core' = Core
  BY <1>2 DEF Core, IsFinished
<1> QED
  BY <1>3, <1>4, <1>5, <1>6, <1>7 DEF EngineInv

LEMMA StutterKeeps ==
    ASSUME EngineInv, UNCHANGED allVars
    PROVE  EngineInv' /\ Core' = Core
<1>1. UNCHANGED vars /\ UNCHANGED <<engine, runner, executor, restarted>>
  BY DEF allVars, engineVars
<1>2. UNCHANGED <<requests, finished, phase, todo, toPreempt, out>>
  BY <1>1 DEF vars, stepVars
<1>3. ControlInv'
  BY <1>1, ControlStep DEF EngineInv
<1>4. MemInv'
  BY <1>1, <1>3, MemoryActions DEF EngineInv
<1>5. LiveInv' /\ EngineTypes' /\ ExecutorInv' /\ BelowLimits'
  BY <1>1, <1>2 DEF EngineInv, LiveInv, Batch, Alive, EngineTypes, ExecutorInv, BelowLimits
<1>6. Core' = Core
  BY <1>1, <1>2 DEF Core, IsFinished
<1> QED
  BY <1>3, <1>4, <1>5, <1>6 DEF EngineInv

LEMMA EngineInitial ==
    ASSUME EngineInit
    PROVE  EngineInv /\ Contract!Init
<1>1. /\ Init /\ engine = NoKeys /\ runner = NoKeys /\ executor \in Executors /\ restarted = {}
      /\ requests = NoKeys /\ phase = "idle" /\ toPreempt = <<>> /\ out = EmptyOutput
      /\ finished = {}
  BY DEF EngineInit, Init
<1>2. ControlInv /\ MemInv
  BY <1>1, ControlInit, MemoryInit
<1>3. ToSet(<<>>) = {} /\ DOMAIN NoKeys = {}
  BY NoKeysEmpty DEF ToSet
<1>4. LiveInv
  BY <1>1, <1>3 DEF LiveInv, Batch, EmptyOutput
<1>5. EngineTypes /\ ExecutorInv /\ BelowLimits
  BY <1>1, <1>3 DEF EngineTypes, ExecutorInv, BelowLimits, EmptyOutput
<1>6. Core = Contract!EmptyCore
  <2>1. engine = [r \in {} |-> 0]
    BY <1>1 DEF NoKeys
  <2>2. {r \in DOMAIN requests : ~IsFinished(r)} = {}
    BY <1>1, <1>3
  <2> QED
    BY <2>1, <2>2 DEF Core, Contract!EmptyCore
<1> QED
  BY <1>2, <1>4, <1>5, <1>6 DEF EngineInv, Contract!Init, Core

(* Every step of the engine is a step of the contract, or changes nothing  *)
(* that the owner sees.                                                    *)
LEMMA EngineKeeps ==
    ASSUME EngineInv, [EngineNext]_allVars
    PROVE  EngineInv' /\ (Contract!Next \/ Core' = Core)
<1>1. CASE SchedulerPart \/ StepEmpty \/ StepUniProc \/ StepMultiProc \/ StepError
  BY <1>1, SchedulerPartKeeps, EmptyKeeps, UniProcKeeps, MultiProcKeeps, ErrorKeeps
     DEF Contract!Next
<1>2. CASE EngineCall
  <2>1. ASSUME NEW r \in Requests, EngineAdd(r) \/ EngineAbort(r)
        PROVE  EngineInv' /\ Contract!Next
    BY <2>1, AddKeeps, AbortKeeps DEF Contract!Next
  <2> QED
    BY <1>2, <2>1, ResetKeeps DEF EngineCall
<1>3. CASE UNCHANGED allVars
  BY <1>3, StutterKeeps
<1> QED
  BY <1>1, <1>2, <1>3 DEF EngineNext, EngineStep

(* The engine, the scheduler, the manager and the executor stay in order   *)
(* through every mix of steps, failures and calls.                         *)
THEOREM EngineInvariant == EngineSpec => []EngineInv
<1>1. EngineInit => EngineInv
  BY EngineInitial
<1>2. EngineInv /\ [EngineNext]_allVars => EngineInv'
  BY EngineKeeps
<1> QED
  BY <1>1, <1>2, PTL DEF EngineSpec

(* No state outlives its request anywhere, and the runner lacks only       *)
(* requests that were preempted or finished by length.                     *)
THEOREM TrackedEverywhere == EngineSpec => []TrackedTogether
<1>1. EngineInv => TrackedTogether
  BY DEF EngineInv, EngineTypes, ExecutorInv, TrackedTogether
<1> QED
  BY <1>1, EngineInvariant, PTL

(* The engine implements its contract: whom it may answer, with how many   *)
(* tokens, when it must say so last, and that a failure takes the batch.   *)
THEOREM ContractHolds == EngineSpec => ImplementsContract
<1>1. EngineInit => Contract!Init
  BY EngineInitial
<1>2. EngineInv /\ [EngineNext]_allVars => [Contract!Next]_Core
  BY EngineKeeps
<1> QED
  BY <1>1, <1>2, EngineInvariant, PTL DEF EngineSpec, ImplementsContract, Contract!Spec, Core

-----------------------------------------------------------------------------
(* Without prefix caching scheduler and runner count the same tokens.  The *)
(* scheduler runs ahead by what the step under way has scheduled; with     *)
(* drafts the runner may have computed less.                               *)

NoCaching == ~EnablePrefixCaching

Given(r) == IF r \in DOMAIN out.tokens THEN out.tokens[r] ELSE 0

(* The limits never split a prompt: a full batch of the longest fits.      *)
Fits(most) ==
    /\ MaxNumSeqs * most <= MaxBudget
    /\ \A r \in Requests : /\ 1 + SpecTokens[r] <= most
                           /\ 1 <= Len(Prompt[r]) /\ Len(Prompt[r]) <= most
                           /\ Len(Prompt[r]) <= PrefillCap /\ Len(Prompt[r]) <= MaxModelLen

WholePrompts == \E most \in Nat : Fits(most)

(* No block of a table is labelled, so none is shared.                     *)
Bare(k) == \A r : \A i \in DOMAIN Table(k, r) : Label(k, r, i) = NoHash

Plain == Bare(kv) /\ \A r \in DOMAIN requests : ~requests[r].hit

(* What a scheduled request was given.                                     *)
Shares ==
    /\ \A r \in ToSet(out.running) : out.tokens[r] = 1 + SpecTokens[r]
    /\ \A r \in ToSet(out.new) : out.tokens[r] > 0 /\ out.tokens[r] <= Len(Prompt[r])

(* A request whose prompt was scheduled whole decodes at its own index.    *)
Placed(r) ==
    IF r \in ToSet(out.new)
    THEN out.tokens[r] = Len(Prompt[r]) /\ runner[r].generated = 0
    ELSE runner[r].computed = Len(Prompt[r]) + runner[r].generated - 1

Agrees(r) ==
    /\ requests[r].status = "waiting" =>
          runner[r].computed = 0 /\ runner[r].generated = 0 /\ engine[r] = 0
    /\ r \in ToSet(running) =>
          /\ runner[r].generated = engine[r]
          /\ runner[r].computed + Given(r) <= requests[r].computed
          /\ SpecTokens[r] = 0 => runner[r].computed + Given(r) = requests[r].computed
          /\ r \in ToSet(out.new) => runner[r].computed = 0
          /\ WholePrompts /\ SpecTokens[r] = 0 => Placed(r)

AgreeInv ==
    /\ Plain /\ Shares /\ Counted
    /\ executor = "uniproc" => \A r \in DOMAIN runner \ restarted : Agrees(r)

-----------------------------------------------------------------------------
(* Nothing is ever labelled.                                               *)

LEMMA BareOthers ==
    ASSUME NEW k, Bare(k), NEW q, NEW r, OthersKept(k, q, r),
           \A i \in DOMAIN Table(q, r) : Label(q, r, i) = NoHash
    PROVE  Bare(q)
<1> SUFFICES ASSUME NEW s, NEW i \in DOMAIN Table(q, s) PROVE Label(q, s, i) = NoHash
  BY DEF Bare
<1>1. CASE s = r
  BY <1>1
<1>2. CASE s # r
  <2>1. Table(q, s) = Table(k, s) /\ \A j \in DOMAIN Table(k, s) : Label(q, s, j) = Label(k, s, j)
    BY <1>2 DEF OthersKept
  <2> QED
    BY <2>1 DEF Bare
<1> QED
  BY <1>1, <1>2

LEMMA BareFree ==
    ASSUME NEW k, KVOK(k, Prompt), Unshared(k), Bare(k), NEW r
    PROVE  Bare(FreeRequest(k, r))
<1>1. OthersKept(k, FreeRequest(k, r), r) /\ Table(FreeRequest(k, r), r) = <<>>
  BY FreeRequestEffect
<1>2. DOMAIN Table(FreeRequest(k, r), r) = {}
  BY <1>1
<1> QED
  BY <1>1, <1>2, BareOthers

LEMMA BareKept ==
    ASSUME NEW k, Unshared(k), Bare(k), NEW q, TablesKept(k, q)
    PROVE  Bare(q)
<1>1. \A s : /\ Table(q, s) = Table(k, s)
             /\ \A i \in DOMAIN Table(k, s) : Label(q, s, i) = Label(k, s, i)
  BY TablesKeptEffect
<1> QED
  BY <1>1 DEF Bare

LEMMA BareAllocate ==
    ASSUME NEW k, KVOK(k, Prompt), Unshared(k), Bare(k), NEW r,
           NEW numTokens \in Nat, NEW numComputed \in Nat
    PROVE  Bare(AllocateSlots(k, r, numTokens, numComputed))
<1> DEFINE q == AllocateSlots(k, r, numTokens, numComputed)
           m == BlocksFor(numTokens, numComputed)
<1>1. CASE ~CanAllocateSlots(k, numTokens, numComputed)
  BY <1>1, AllocateSlotsFails, BareKept
<1>2. CASE CanAllocateSlots(k, numTokens, numComputed)
  <2>1. OthersKept(k, q, r) /\ Grown(k, q, r, m)
    BY <1>2, AllocateSlotsEffect
  <2> HIDE DEF q, m
  <2>2. \A i \in DOMAIN Table(q, r) : Label(q, r, i) = NoHash
    BY <2>1 DEF Grown, Bare
  <2>3. Bare(q)
    BY <2>1, <2>2, BareOthers
  <2> QED
    BY <2>3 DEF q
<1> QED
  BY <1>1, <1>2

LEMMA BareForget ==
    ASSUME NEW k, KVOK(k, Prompt), Unshared(k), Bare(k), NEW ids \in Seq(Requests)
    PROVE  Bare(FreeRequests(k, ids))
<1> DEFINE q == FreeRequests(k, ids)
           gone == ToSet(ids)
<1>1. KeptExcept(k, q, gone)
  BY FreeRequestsEffect
<1> HIDE DEF q, gone
<1>2. ASSUME NEW s, NEW i \in DOMAIN Table(q, s) PROVE Label(q, s, i) = NoHash
  <2>1. CASE s \in gone
    <3>1. s \notin DOMAIN q.blocks
      BY <1>1, <2>1 DEF KeptExcept
    <3>2. Table(q, s) = <<>>
      BY <3>1 DEF Table, Lookup
    <3> QED
      BY <1>2, <3>2
  <2>2. CASE s \notin gone
    <3>1. Table(q, s) = Table(k, s) /\ \A j \in DOMAIN Table(k, s) : Label(q, s, j) = Label(k, s, j)
      BY <1>1, <2>2 DEF KeptExcept
    <3> QED
      BY <1>2, <3>1 DEF Bare
  <2> QED
    BY <2>1, <2>2
<1>3. Bare(q)
  BY <1>2 DEF Bare
<1> QED
  BY <1>3 DEF q

-----------------------------------------------------------------------------
(* What a step of the scheduler does to one request.                       *)

Unmoved(q) ==
    /\ requests'[q].computed = requests[q].computed
    /\ requests'[q].status = "waiting" => requests[q].status = "waiting"
    /\ q \in ToSet(running') => q \in ToSet(running)
    /\ q \in ToSet(out'.new) <=> q \in ToSet(out.new)
    /\ q \in DOMAIN out'.tokens <=> q \in DOMAIN out.tokens
    /\ q \in DOMAIN out.tokens => out'.tokens[q] = out.tokens[q]

Decoded(q) ==
    /\ q \in ToSet(running) /\ requests'[q].status # "waiting"
    /\ q \notin ToSet(out.new) /\ q \notin ToSet(out'.new)
    /\ q \notin DOMAIN out.tokens /\ q \in DOMAIN out'.tokens
    /\ out'.tokens[q] = 1 + SpecTokens[q]
    /\ requests'[q].computed = requests[q].computed + 1 + SpecTokens[q]

Prefilled(q) ==
    /\ requests[q].status = "waiting" /\ requests'[q].status = "running"
    /\ q \in ToSet(out'.new) /\ q \in DOMAIN out'.tokens
    /\ out'.tokens[q] \in Nat /\ requests'[q].computed = out'.tokens[q]
    /\ WholePrompts => out'.tokens[q] = Len(Prompt[q])

Joined(q) ==
    /\ requests[q].status = "waiting" /\ requests'[q].status = "running"
    /\ q \notin ToSet(out'.new) /\ q \notin DOMAIN out'.tokens
    /\ requests'[q].computed = 0 /\ ~WholePrompts

Moved(q) ==
    q \in ToSet(out'.preempted) \/ Unmoved(q) \/ Decoded(q) \/ Prefilled(q) \/ Joined(q)

SchedulerMoves == Plain' /\ Shares' /\ \A q \in DOMAIN requests : Moved(q)

(* Nothing is scheduled.                                                   *)
LEMMA QuietMoves ==
    ASSUME Shares, Bare(kv'), \A q \in DOMAIN requests' : ~requests'[q].hit,
           out'.new = out.new, out'.running = out.running, out'.tokens = out.tokens,
           \A q \in DOMAIN requests :
              \/ q \in ToSet(out'.preempted)
              \/ /\ requests'[q].computed = requests[q].computed
                 /\ requests'[q].status = "waiting" => requests[q].status = "waiting"
                 /\ q \in ToSet(running') => q \in ToSet(running)
    PROVE  SchedulerMoves
BY DEF SchedulerMoves, Plain, Shares, Moved, Unmoved

LEMMA MoveFacts ==
    ASSUME ControlInv, MemInv, Plain
    PROVE  /\ KVOK(kv, Prompt) /\ Unshared(kv) /\ Bare(kv) /\ IsOutput(out)
           /\ out.new \in Seq(Requests) /\ out.running \in Seq(Requests)
           /\ out.preempted \in Seq(Requests) /\ running \in Seq(Requests) /\ IsInjective(running)
           /\ DOMAIN requests \subseteq Requests
           /\ \A q \in DOMAIN requests : requests[q] \in RequestStates /\ ~requests[q].hit
BY DEF ControlInv, TypesOK, QueuesOK, NoRequestLost, OutputOK, MemInv, MemoryOK, Plain

LEMMA MovesOfControl ==
    ASSUME ControlInv, MemInv, Plain, Shares,
           StepBegin \/ FinishEnd \/ DecodeEnd \/ PreemptEnd \/ WaitingEnd \/ SelectBegin
    PROVE  SchedulerMoves
<1>1. UNCHANGED <<kv, requests, running>>
  BY DEF StepBegin, FinishEnd, DecodeEnd, PreemptEnd, WaitingEnd, SelectBegin
<1>2. UNCHANGED out
  <2>1. StepBegin => out = EmptyOutput
    BY DEF ControlInv, OutputOK, StepBegin
  <2> QED
    BY <2>1 DEF StepBegin, FinishEnd, DecodeEnd, PreemptEnd, WaitingEnd, SelectBegin
<1> QED
  BY <1>1, <1>2, QuietMoves DEF Plain

LEMMA MovesOfFinish ==
    ASSUME ControlInv, MemInv, Plain, Shares, NEW r \in Requests, FinishOne(r)
    PROVE  SchedulerMoves
<1>1. /\ running' = Without(running, r) /\ kv' = FreeRequest(kv, r)
      /\ out' = OutFinished(out, r) /\ requests' = requests
  BY DEF FinishOne, OutFinished
<1>2. ToSet(running') = ToSet(running) \ {r}
  BY <1>1, MoveFacts, WithoutDistinct
<1>3. Bare(kv')
  BY <1>1, MoveFacts, BareFree
<1>4. out'.new = out.new /\ out'.running = out.running /\ out'.tokens = out.tokens
  BY <1>1, MoveFacts, FinishedOutput
<1> QED
  BY <1>1, <1>2, <1>3, <1>4, QuietMoves DEF Plain

LEMMA MovesOfDecodeLength ==
    ASSUME ControlInv, MemInv, Plain, Shares, NEW r \in Requests, DecodeLength(r)
    PROVE  SchedulerMoves
<1>1. /\ Decoding(r) /\ requests' = [requests EXCEPT ![r].status = "finished_length"]
      /\ UNCHANGED <<kv, running, out>>
  BY DEF DecodeLength
<1>2. r \in DOMAIN requests
  BY <1>1, DecodingHead
<1>3. DOMAIN requests' = DOMAIN requests
      /\ \A q \in DOMAIN requests : /\ requests'[q].computed = requests[q].computed
                                    /\ requests'[q].hit = requests[q].hit
                                    /\ requests'[q].status = "waiting" => requests[q].status = "waiting"
  BY <1>1, <1>2, MoveFacts DEF RequestStates
<1> QED
  BY <1>1, <1>3, QuietMoves DEF Plain

LEMMA MovesOfDecodeFail ==
    ASSUME ControlInv, MemInv, Plain, Shares, NEW r \in Requests, DecodeFail(r)
    PROVE  SchedulerMoves
<1> DEFINE c == requests[r].computed
           n == DecodeTokens(r)
<1>1. /\ Decoding(r) /\ kv' = AllocateSlots(kv, r, c + n, c) /\ UNCHANGED <<requests, running, out>>
  BY DEF DecodeFail
<1>2. c \in Nat /\ n \in Nat
  BY <1>1, DecodingHead, SchedulerAssumption DEF RequestStates, DecodeTokens
<1> HIDE DEF c, n
<1>3. c + n \in Nat
  BY <1>2
<1>4. Bare(kv')
  BY <1>1, <1>2, <1>3, MoveFacts, BareAllocate
<1> QED
  BY <1>1, <1>4, QuietMoves DEF Plain

LEMMA MovesOfPreempt ==
    ASSUME ControlInv, MemInv, Plain, Shares, NEW r \in Requests, PreemptRequest(r)
    PROVE  SchedulerMoves
<1>1. /\ running' = Without(running, r) /\ kv' = FreeRequest(kv, r)
      /\ requests' = [requests EXCEPT ![r] = NewRequest] /\ out' = OutPreempted(out, r)
  BY DEF PreemptRequest, OutPreempted
<1>2. ToSet(running') = ToSet(running) \ {r}
  BY <1>1, MoveFacts, WithoutDistinct
<1>3. Bare(kv')
  BY <1>1, MoveFacts, BareFree
<1>4. /\ out'.new = out.new /\ out'.running = out.running /\ out'.tokens = out.tokens
      /\ out'.preempted = Append(out.preempted, r)
  BY <1>1, MoveFacts, PreemptedOutput
<1>5. r \in ToSet(out'.preempted)
  BY <1>4, MoveFacts, AppendElements
<1>6. /\ DOMAIN requests' = DOMAIN requests /\ \A q \in DOMAIN requests' : ~requests'[q].hit
      /\ \A q \in DOMAIN requests : q # r => requests'[q] = requests[q]
  BY <1>1, MoveFacts DEF NewRequest
<1> QED
  BY <1>2, <1>3, <1>4, <1>5, <1>6, QuietMoves

LEMMA MovesOfDecodeSchedule ==
    ASSUME ControlInv, MemInv, Plain, Shares, NEW r \in Requests, DecodeSchedule(r)
    PROVE  SchedulerMoves
<1> DEFINE n == DecodeTokens(r)
           c == requests[r].computed
           t == Table(kv', r)
<1>1. /\ Decoding(r) /\ requests' = [requests EXCEPT ![r].computed = c + n]
      /\ out' = OutDecoded(out, r, n, t) /\ UNCHANGED running
      /\ kv' = kv \/ kv' = AllocateSlots(kv, r, c + n, c)
  BY DEF DecodeSchedule, OutDecoded
<1>2. /\ phase = "decode" /\ r \in DOMAIN requests /\ requests[r] \in RequestStates
      /\ r \in ToSet(running) /\ requests[r].status # "waiting"
  <2>1. /\ phase = "decode" /\ r \in DOMAIN requests /\ requests[r] \in RequestStates
        /\ r \in ToSet(running) /\ r \notin ToSet(waiting)
    BY <1>1, DecodingHead
  <2> QED
    BY <2>1 DEF ControlInv, QueuesOK, NoRequestLost
<1>3. r \notin ToSet(out.running) /\ out.new = <<>>
  <2>1. r = Head(todo) /\ todo # <<>> /\ todo \in Seq(Requests) /\ IsInjective(todo)
    BY <1>1 DEF Decoding, ControlInv, TypesOK, LoopOK
  <2>2. r \in ToSet(todo)
    BY <2>1, HeadTailDistinct
  <2> QED
    BY <1>2, <2>2 DEF MemInv, BatchOK, ControlInv, OutputOK
<1>4. SpecTokens[r] \in Nat /\ n = 1 + SpecTokens[r] /\ n \in Nat /\ c \in Nat /\ c + n \in Nat
  BY <1>2, SchedulerAssumption DEF DecodeTokens, RequestStates
<1>5. c = requests[r].computed
  OBVIOUS
<1> HIDE DEF n, c, t
<1>6. Bare(kv')
  BY <1>1, <1>4, MoveFacts, BareAllocate
<1>7. /\ out'.running = Append(out.running, r) /\ out'.new = out.new
      /\ out'.tokens = Put(out.tokens, r, n)
  BY <1>1, MoveFacts, DecodedOutput
<1>8. ToSet(out'.running) = ToSet(out.running) \cup {r}
  BY <1>7, MoveFacts, AppendElements
<1>9. /\ DOMAIN out'.tokens = DOMAIN out.tokens \cup {r} /\ out'.tokens[r] = n
      /\ \A x \in DOMAIN out.tokens : x # r => out'.tokens[x] = out.tokens[x]
  BY <1>7 DEF Put
<1>10. DOMAIN out.tokens = ToSet(out.running) /\ ToSet(out.new) = {}
  BY <1>3 DEF MemInv, BatchOK, ToSet
<1>11. /\ DOMAIN requests' = DOMAIN requests
       /\ \A q \in DOMAIN requests : q # r => requests'[q] = requests[q]
       /\ requests'[r].computed = c + n /\ requests'[r].hit = requests[r].hit
       /\ requests'[r].status = requests[r].status
  BY <1>1, <1>2 DEF RequestStates
<1>12. Plain'
  BY <1>2, <1>6, <1>11 DEF Plain
<1>13. Shares'
  BY <1>3, <1>4, <1>7, <1>8, <1>9, <1>10 DEF Shares
<1>14. ASSUME NEW q \in DOMAIN requests PROVE Moved(q)
  <2>1. CASE q = r
    <3>1. requests'[r].computed = requests[r].computed + 1 + SpecTokens[r]
      BY <1>4, <1>5, <1>11
    <3>2. r \notin ToSet(out.new) /\ r \notin ToSet(out'.new)
      BY <1>7, <1>10
    <3>3. r \notin DOMAIN out.tokens /\ r \in DOMAIN out'.tokens /\ out'.tokens[r] = 1 + SpecTokens[r]
      BY <1>3, <1>4, <1>9, <1>10
    <3>4. Decoded(r)
      BY <1>2, <1>11, <3>1, <3>2, <3>3 DEF Decoded
    <3> QED
      BY <2>1, <3>4 DEF Moved
  <2>2. CASE q # r
    <3>1. Unmoved(q)
      BY <1>1, <1>7, <1>9, <1>10, <1>11, <2>2 DEF Unmoved
    <3> QED
      BY <3>1 DEF Moved
  <2> QED
    BY <2>1, <2>2
<1> QED
  BY <1>12, <1>13, <1>14 DEF SchedulerMoves

(* Without caching there is nothing to look up.                            *)
LEMMA NothingCached ==
    ASSUME NoCaching, ControlInv, MemInv, Plain, NEW r \in DOMAIN requests, r \in ToSet(waiting)
    PROVE  /\ Probed(r) = requests[r] /\ ProbedKV(r) = kv /\ Cached(r) = 0
           /\ Remaining(r) = Len(Prompt[r]) /\ requests[r].computed = 0
           /\ r \in Requests /\ Len(Prompt[r]) \in Nat
<1>1. Probed(r) = requests[r] /\ ProbedKV(r) = kv
  BY DEF NoCaching, Probed, ProbedKV
<1>2. r \in Requests /\ Prompt[r] \in Seq(Nat)
  BY MoveFacts, SchedulerAssumption
<1>3. RequestOK(r) /\ ~requests[r].hit
  BY DEF MemInv, MemoryOK, Plain
<1>4. Len(Table(kv, r)) * BlockSize = requests[r].computed /\ Len(Table(kv, r)) = 0
  BY <1>3 DEF RequestOK
<1>5. requests[r].computed = 0
  BY <1>4, KVAssumption
<1> QED
  BY <1>1, <1>2, <1>5 DEF Cached, Remaining, Monus

LEMMA MovesOfLookup ==
    ASSUME NoCaching, ControlInv, MemInv, Plain, Shares, NEW r \in Requests,
           Probe(r) \/ AdmitNothing(r) \/ AdmitFail(r)
    PROVE  SchedulerMoves
<1>1. /\ requests' = [requests EXCEPT ![r] = Probed(r)] /\ UNCHANGED <<running, out>>
      /\ \/ kv' = ProbedKV(r)
         \/ /\ Admitting(r)
            /\ kv' = AllocateSlots(ProbedKV(r), r, Cached(r) + PrefillTokens(r), Cached(r))
  BY DEF Probe, AdmitNothing, AdmitFail
<1>2. r \in DOMAIN requests /\ r \in ToSet(waiting)
  <2>1. CASE Probe(r)
    <3>1. r = Head(todo) /\ todo # <<>> /\ todo \in Seq(Requests) /\ IsInjective(todo)
          /\ ToSet(todo) \subseteq ToSet(waiting)
      BY <2>1 DEF Probe, ControlInv, TypesOK, LoopOK
    <3>2. r \in ToSet(waiting)
      BY <3>1, HeadTailDistinct
    <3> QED
      BY <3>2 DEF ControlInv, QueuesOK, NoRequestLost
  <2>2. CASE AdmitNothing(r) \/ AdmitFail(r)
    <3>1. Admitting(r)
      BY <2>2 DEF AdmitNothing, AdmitFail
    <3> QED
      BY <3>1, AdmittingBest
  <2> QED
    BY <2>1, <2>2
<1>3. Probed(r) = requests[r] /\ ProbedKV(r) = kv /\ Cached(r) = 0
  BY <1>2, NothingCached
<1>4. Bare(kv')
  <2>1. ASSUME Admitting(r) PROVE PrefillTokens(r) \in Nat
    BY <2>1, PrefillFits
  <2> QED
    BY <1>1, <1>3, <2>1, MoveFacts, BareAllocate
<1>5. DOMAIN requests' = DOMAIN requests /\ \A q \in DOMAIN requests : requests'[q] = requests[q]
  BY <1>1, <1>3
<1> QED
  BY <1>1, <1>4, <1>5, QuietMoves DEF Plain

(* The request that is admitted; the others do not move.                   *)
LEMMA AdmittedMoves ==
    ASSUME NoCaching, ControlInv, MemInv, Plain, NEW r \in Requests, Admitting(r), NEW c,
           Admitted(r, c)
    PROVE  /\ r \in DOMAIN requests /\ requests[r].status = "waiting" /\ r \in ToSet(waiting)
           /\ DOMAIN requests' = DOMAIN requests
           /\ \A q \in DOMAIN requests : q # r => /\ requests'[q] = requests[q]
                                                  /\ q \in ToSet(running') => q \in ToSet(running)
           /\ requests'[r].status = "running" /\ requests'[r].computed = c
           /\ ~requests'[r].hit
           /\ r \notin DOMAIN out.tokens /\ r \notin ToSet(out.new) /\ r \notin ToSet(out.running)
<1>1. /\ r \in DOMAIN requests /\ requests[r].status = "waiting" /\ r \in ToSet(waiting)
      /\ r \notin ToSet(running)
  BY AdmittingBest
<1>2. Probed(r) = requests[r] /\ requests[r] \in RequestStates /\ ~requests[r].hit
  BY <1>1, NothingCached, MoveFacts
<1>3. /\ requests' = [requests EXCEPT ![r] = [Probed(r) EXCEPT !.status = "running", !.computed = c]]
      /\ running' = Append(running, r)
  BY DEF Admitted
<1>4. ToSet(running') = ToSet(running) \cup {r}
  BY <1>3, MoveFacts, AppendElements
<1>5. r \notin DOMAIN out.tokens /\ r \notin ToSet(out.new) /\ r \notin ToSet(out.running)
  BY <1>1 DEF MemInv, BatchOK
<1> QED
  BY <1>1, <1>2, <1>3, <1>4, <1>5 DEF RequestStates

LEMMA MovesOfAdmitCached ==
    ASSUME NoCaching, ControlInv, MemInv, Plain, Shares, NEW r \in Requests, AdmitCached(r)
    PROVE  SchedulerMoves
<1>1. /\ Admitting(r) /\ Remaining(r) = 0 /\ Admitted(r, Cached(r)) /\ kv' = ProbedKV(r)
      /\ out' = OutCached(out, r)
  BY DEF AdmitCached, OutCached
<1>2. /\ r \in DOMAIN requests /\ requests[r].status = "waiting" /\ r \in ToSet(waiting)
      /\ DOMAIN requests' = DOMAIN requests
      /\ \A q \in DOMAIN requests : q # r => /\ requests'[q] = requests[q]
                                             /\ q \in ToSet(running') => q \in ToSet(running)
      /\ requests'[r].status = "running" /\ requests'[r].computed = Cached(r)
      /\ ~requests'[r].hit
      /\ r \notin DOMAIN out.tokens /\ r \notin ToSet(out.new) /\ r \notin ToSet(out.running)
  BY <1>1, AdmittedMoves
<1>3. kv' = kv /\ Cached(r) = 0 /\ Len(Prompt[r]) = 0
  BY <1>1, <1>2, NothingCached
<1>4. out'.new = out.new /\ out'.running = out.running /\ out'.tokens = out.tokens
  BY <1>1, MoveFacts, CachedOutput
<1>5. ~WholePrompts
  BY <1>3 DEF WholePrompts, Fits
<1>6. Plain'
  BY <1>2, <1>3 DEF Plain
<1>7. Shares'
  BY <1>4 DEF Shares
<1>8. ASSUME NEW q \in DOMAIN requests PROVE Moved(q)
  <2>1. CASE q = r
    BY <1>2, <1>3, <1>4, <1>5, <2>1 DEF Moved, Joined
  <2>2. CASE q # r
    BY <1>2, <1>4, <2>2 DEF Moved, Unmoved
  <2> QED
    BY <2>1, <2>2
<1> QED
  BY <1>6, <1>7, <1>8 DEF SchedulerMoves

-----------------------------------------------------------------------------
(* A batch that has a place left has the tokens of a prompt left.          *)

LEMMA DistinctFit ==
    ASSUME NEW S, NEW s \in Seq(S), IsInjective(s), NEW t \in Seq(S), ToSet(s) \subseteq ToSet(t)
    PROVE  Len(s) \in Nat /\ Len(t) \in Nat /\ Len(s) <= Len(t)
<1> DEFINE m == Len(s)
           n == Len(t)
<1>1. m \in Nat /\ n \in Nat /\ DOMAIN s = 1..m /\ DOMAIN t = 1..n
  OBVIOUS
<1>2. \A i \in 1..m : \E j \in 1..n : t[j] = s[i]
  BY <1>1 DEF ToSet
<1> HIDE DEF m, n
<1> DEFINE h == [i \in 1..m |-> CHOOSE j \in 1..n : t[j] = s[i]]
<1>3. h \in [1..m -> 1..n] /\ \A i \in 1..m : t[h[i]] = s[i]
  BY <1>2
<1> HIDE DEF h
<1>4. ASSUME NEW k \in Nat PROVE IsFiniteSet(1..k) /\ Cardinality(1..k) = k
  <2>1. IsFiniteSet(1..k) /\ Cardinality(1..k) = IF 1 > k THEN 0 ELSE k - 1 + 1
    BY FS_Interval
  <2> QED
    BY <2>1
<1>5. ASSUME n < m PROVE FALSE
  <2>1. Cardinality(1..n) < Cardinality(1..m) /\ IsFiniteSet(1..m) /\ IsFiniteSet(1..n)
    BY <1>1, <1>4, <1>5
  <2>2. \E x, y \in 1..m : x # y /\ h[x] = h[y]
    <3> DEFINE A == 1..m
               B == 1..n
    <3>1. /\ IsFiniteSet(A) /\ IsFiniteSet(B) /\ Cardinality(B) < Cardinality(A) /\ h \in [A -> B]
      BY <1>3, <2>1
    <3> HIDE DEF A, B
    <3>2. \E x, y \in A : x # y /\ h[x] = h[y]
      BY <3>1, FS_PigeonHole
    <3> QED
      BY <3>2 DEF A
  <2> QED
    BY <1>1, <1>3, <2>2 DEF IsInjective
<1>6. m <= n
  BY <1>1, <1>5
<1> QED
  BY <1>1, <1>6 DEF m, n

LEMMA TotalBounded ==
    ASSUME NEW tokens, NEW s \in Seq(Requests), NEW most \in Nat,
           \A i \in 1..Len(s) : tokens[s[i]] \in Nat /\ tokens[s[i]] <= most
    PROVE  TotalTokens(tokens, s) \in Nat /\ TotalTokens(tokens, s) <= Len(s) * most
<1> DEFINE m == Len(s)
<1>1. m \in Nat
  OBVIOUS
<1>2. PICK f : /\ f[0] = 0 /\ \A i \in 1..m : f[i] = f[i - 1] + tokens[s[i]]
               /\ TotalTokens(tokens, s) = f[m]
  BY <1>1, TotalRun
<1> HIDE DEF m
<1> DEFINE P(i) == f[i] \in Nat /\ f[i] <= i * most
           G == {i \in 0..m : P(i)}
<1>3. 0 \in G
  BY <1>1, <1>2
<1>4. ASSUME NEW i \in 1..m, i - 1 \in G PROVE i \in G
  <2>1. i - 1 \in Nat /\ i \in Nat /\ f[i - 1] \in Nat /\ f[i - 1] <= (i - 1) * most
    BY <1>1, <1>4
  <2>2. tokens[s[i]] \in Nat /\ tokens[s[i]] <= most /\ f[i] = f[i - 1] + tokens[s[i]]
    BY <1>2 DEF m
  <2>3. (i - 1) * most \in Nat /\ (i - 1 + 1) * most = (i - 1) * most + most /\ i - 1 + 1 = i
    <3> DEFINE j == i - 1
    <3>1. j \in Nat /\ j < j + 1 /\ j + 1 \in Nat /\ j + 1 = i
      BY <2>1
    <3> HIDE DEF j
    <3>2. j * most \in Nat /\ (j + 1) * most = j * most + most
      BY <3>1, Products
    <3> QED
      BY <3>1, <3>2 DEF j
  <2> QED
    BY <1>4, <2>1, <2>2, <2>3
<1>5. G = 0..m
  <2> HIDE DEF G
  <2>1. G \subseteq 0..m
    BY DEF G
  <2> QED
    BY <1>1, <1>3, <1>4, <2>1, LeastFailure
<1>6. P(m)
  BY <1>1, <1>5
<1> QED
  BY <1>2, <1>6 DEF m

LEMMA RoomForPrompt ==
    ASSUME ControlInv, MemInv, Shares, Counted, Len(running) < MaxNumSeqs,
           NEW most \in Nat, Fits(most)
    PROVE  out.budget + most <= MaxBudget
<1> DEFINE s == out.running \o out.new
<1>1. /\ out.running \in Seq(Requests) /\ out.new \in Seq(Requests)
      /\ running \in Seq(Requests) /\ out.budget \in Nat
  BY DEF ControlInv, OutputOK, TypesOK
<1>2. /\ IsInjective(out.running) /\ IsInjective(out.new)
      /\ ToSet(out.running) \cap ToSet(out.new) = {}
      /\ ToSet(out.running) \cup ToSet(out.new) \subseteq ToSet(running)
      /\ \A r \in ToSet(out.running) \cup ToSet(out.new) : out.tokens[r] \in Nat
  BY DEF MemInv, BatchOK
<1>3. s \in Seq(Requests) /\ IsInjective(s) /\ ToSet(s) = ToSet(out.running) \cup ToSet(out.new)
  BY <1>1, <1>2, ConcatDistinct
<1>4. out.budget = TotalTokens(out.tokens, s)
  BY DEF Counted
<1>5. \A r \in ToSet(s) : r \in Requests /\ out.tokens[r] \in Nat /\ out.tokens[r] <= most
  <2> HIDE DEF s
  <2>1. ASSUME NEW r \in ToSet(out.running) PROVE r \in Requests /\ out.tokens[r] <= most
    BY <1>1, <2>1 DEF Shares, Fits, ToSet
  <2>2. ASSUME NEW r \in ToSet(out.new) PROVE r \in Requests /\ out.tokens[r] <= most
    <3>1. r \in Requests
      BY <1>1, <2>2 DEF ToSet
    <3>2. Len(Prompt[r]) \in Nat /\ Len(Prompt[r]) <= most
      BY <3>1, SchedulerAssumption DEF Fits
    <3>3. out.tokens[r] <= Len(Prompt[r]) /\ out.tokens[r] \in Nat
      BY <1>2 DEF Shares
    <3> QED
      BY <3>1, <3>2, <3>3
  <2> QED
    BY <1>2, <1>3, <2>1, <2>2
<1> HIDE DEF s
<1>6. \A i \in 1..Len(s) : out.tokens[s[i]] \in Nat /\ out.tokens[s[i]] <= most
  BY <1>3, <1>5 DEF ToSet
<1>7. out.budget <= Len(s) * most
  BY <1>3, <1>4, <1>6, TotalBounded
<1>8. Len(s) \in Nat /\ Len(running) \in Nat /\ Len(s) <= Len(running)
  BY <1>1, <1>2, <1>3, DistinctFit
<1>9. MaxNumSeqs \in Nat /\ MaxBudget \in Nat /\ MaxNumSeqs * most <= MaxBudget
  BY SchedulerAssumption DEF Fits
<1>10. Len(s) < MaxNumSeqs
  BY <1>8, <1>9
<1>11. Len(s) * most \in Nat /\ MaxNumSeqs * most \in Nat /\ Len(s) * most + most <= MaxNumSeqs * most
  <2> DEFINE a == Len(s)
  <2>1. a \in Nat /\ a < MaxNumSeqs
    BY <1>8, <1>10
  <2> HIDE DEF a
  <2>2. a * most \in Nat /\ MaxNumSeqs * most \in Nat /\ a * most + most <= MaxNumSeqs * most
    BY <1>9, <2>1, Products
  <2> QED
    BY <2>2 DEF a
<1> QED
  BY <1>1, <1>7, <1>9, <1>11

LEMMA PrefillWhole ==
    ASSUME NoCaching, ControlInv, MemInv, Plain, Shares, Counted, NEW r \in Requests, Admitting(r),
           WholePrompts
    PROVE  PrefillTokens(r) = Len(Prompt[r])
<1>1. r \in DOMAIN requests /\ r \in ToSet(waiting) /\ Len(running) < MaxNumSeqs
  BY AdmittingBest
<1>2. Cached(r) = 0 /\ Remaining(r) = Len(Prompt[r]) /\ Len(Prompt[r]) \in Nat
  BY <1>1, NothingCached
<1>3. PICK most \in Nat : Fits(most)
  BY DEF WholePrompts
<1>4. out.budget + most <= MaxBudget
  BY <1>1, <1>3, RoomForPrompt
<1>5. /\ out.budget \in Nat /\ MaxBudget \in Nat /\ PrefillCap \in Nat /\ MaxModelLen \in Nat
      /\ Len(Prompt[r]) <= most /\ Len(Prompt[r]) <= PrefillCap /\ Len(Prompt[r]) <= MaxModelLen
  BY <1>3, SchedulerAssumption DEF Fits, ControlInv, OutputOK
<1> DEFINE n == Len(Prompt[r])
           room == MaxBudget - out.budget
           left == Monus(MaxModelLen, Cached(r))
<1>6. /\ n \in Nat /\ room \in Nat /\ left \in Nat /\ PrefillCap \in Nat
      /\ n <= room /\ n <= left /\ n <= PrefillCap
  BY <1>2, <1>4, <1>5 DEF Monus
<1>7. PrefillTokens(r) = Min({n, room, PrefillCap, left})
  BY <1>2 DEF PrefillTokens
<1> HIDE DEF n, room, left
<1> DEFINE S == {n, room, PrefillCap, left}
<1>8. S \subseteq Nat /\ S # {} /\ n \in S /\ \A y \in S : n <= y
  BY <1>6
<1> HIDE DEF S
<1>9. Min(S) \in S /\ \A y \in S : Min(S) <= y
  BY <1>8, MinLeast
<1>10. Min(S) = n
  <2> DEFINE x == Min(S)
  <2>1. x \in Nat /\ n \in Nat /\ x <= n /\ n <= x
    BY <1>6, <1>8, <1>9
  <2> HIDE DEF x
  <2>2. x = n
    BY <2>1
  <2> QED
    BY <2>2 DEF x
<1> QED
  BY <1>7, <1>10 DEF n, S

LEMMA MovesOfAdmitNew ==
    ASSUME NoCaching, ControlInv, MemInv, Plain, Shares, Counted, NEW r \in Requests, AdmitNew(r)
    PROVE  SchedulerMoves
<1> DEFINE n == PrefillTokens(r)
           c == Cached(r)
           t == Table(AllocateSlots(ProbedKV(r), r, c + n, c), r)
<1>1. /\ Admitting(r) /\ n > 0 /\ Admitted(r, c + n)
      /\ kv' = CacheBlocks(AllocateSlots(ProbedKV(r), r, c + n, c), r, c + n)
      /\ out' = OutAdmitted(out, r, n, t)
  BY DEF AdmitNew, OutAdmitted
<1>2. n \in Nat /\ n <= Remaining(r)
  BY <1>1, PrefillFits
<1>3. WholePrompts => n = Len(Prompt[r])
  BY <1>1, PrefillWhole
<1> HIDE DEF n, t, c
<1>4. /\ r \in DOMAIN requests /\ requests[r].status = "waiting" /\ r \in ToSet(waiting)
      /\ DOMAIN requests' = DOMAIN requests
      /\ \A q \in DOMAIN requests : q # r => /\ requests'[q] = requests[q]
                                             /\ q \in ToSet(running') => q \in ToSet(running)
      /\ requests'[r].status = "running" /\ requests'[r].computed = c + n
      /\ ~requests'[r].hit
      /\ r \notin DOMAIN out.tokens /\ r \notin ToSet(out.new) /\ r \notin ToSet(out.running)
  BY <1>1, AdmittedMoves
<1>5. ProbedKV(r) = kv /\ c = 0 /\ Remaining(r) = Len(Prompt[r]) /\ Len(Prompt[r]) \in Nat
  BY <1>4, NothingCached DEF c
<1>6. kv' = AllocateSlots(kv, r, c + n, c)
  BY <1>1, <1>5 DEF CacheBlocks, NoCaching
<1>7. Bare(kv')
  <2>1. c \in Nat /\ c + n \in Nat
    BY <1>2, <1>5
  <2> QED
    BY <1>6, <2>1, MoveFacts, BareAllocate
<1>8. /\ out'.new = Append(out.new, r) /\ out'.running = out.running
      /\ out'.tokens = Put(out.tokens, r, n)
  BY <1>1, MoveFacts, AdmittedOutput
<1>9. ToSet(out'.new) = ToSet(out.new) \cup {r}
  BY <1>8, MoveFacts, AppendElements
<1>10. /\ DOMAIN out'.tokens = DOMAIN out.tokens \cup {r} /\ out'.tokens[r] = n
       /\ \A x \in DOMAIN out.tokens : x # r => out'.tokens[x] = out.tokens[x]
  BY <1>8 DEF Put
<1>11. ToSet(out.new) \cup ToSet(out.running) = DOMAIN out.tokens
  BY DEF MemInv, BatchOK
<1>12. Plain'
  BY <1>4, <1>7 DEF Plain
<1>13. Shares'
  <2>1. ASSUME NEW x \in ToSet(out'.running) PROVE out'.tokens[x] = 1 + SpecTokens[x]
    BY <1>4, <1>8, <1>10, <1>11 DEF Shares
  <2>2. ASSUME NEW x \in ToSet(out'.new) PROVE out'.tokens[x] > 0 /\ out'.tokens[x] <= Len(Prompt[x])
    <3>1. CASE x = r
      BY <1>1, <1>2, <1>5, <1>10, <3>1
    <3>2. CASE x # r
      BY <1>9, <1>10, <1>11, <3>2 DEF Shares
    <3> QED
      BY <3>1, <3>2
  <2> QED
    BY <2>1, <2>2 DEF Shares
<1>14. ASSUME NEW q \in DOMAIN requests PROVE Moved(q)
  <2>1. CASE q = r
    <3>1. requests'[r].computed = n
      BY <1>2, <1>4, <1>5
    <3>2. Prefilled(r)
      BY <1>2, <1>3, <1>4, <1>9, <1>10, <3>1 DEF Prefilled
    <3> QED
      BY <2>1, <3>2 DEF Moved
  <2>2. CASE q # r
    <3>1. Unmoved(q)
      BY <1>4, <1>9, <1>10, <2>2 DEF Unmoved
    <3> QED
      BY <3>1 DEF Moved
  <2> QED
    BY <2>1, <2>2
<1> QED
  BY <1>12, <1>13, <1>14 DEF SchedulerMoves

(* Each step of the scheduler gives a request tokens in one of three ways, *)
(* takes it back, or leaves it.                                            *)
LEMMA StepMoves ==
    ASSUME NoCaching, ControlInv, MemInv, Plain, Shares, Counted, StepAction
    PROVE  SchedulerMoves
<1>1. CASE StepBegin \/ FinishEnd \/ DecodeEnd \/ PreemptEnd \/ WaitingEnd \/ SelectBegin
  BY <1>1, MovesOfControl
<1>2. CASE \E r \in Requests : FinishOne(r)
  BY <1>2, MovesOfFinish
<1>3. CASE \E r \in Requests : DecodeLength(r)
  BY <1>3, MovesOfDecodeLength
<1>4. CASE \E r \in Requests : DecodeSchedule(r)
  BY <1>4, MovesOfDecodeSchedule
<1>5. CASE \E r \in Requests : DecodeFail(r)
  BY <1>5, MovesOfDecodeFail
<1>6. CASE \E r \in Requests : PreemptRequest(r)
  BY <1>6, MovesOfPreempt
<1>7. CASE \E r \in Requests : Probe(r) \/ AdmitNothing(r) \/ AdmitFail(r)
  BY <1>7, MovesOfLookup
<1>8. CASE \E r \in Requests : AdmitCached(r)
  BY <1>8, MovesOfAdmitCached
<1>9. CASE \E r \in Requests : AdmitNew(r)
  BY <1>9, MovesOfAdmitNew
<1> QED
  BY <1>1, <1>2, <1>3, <1>4, <1>5, <1>6, <1>7, <1>8, <1>9 DEF StepAction

-----------------------------------------------------------------------------
(* The two counts through the steps of the scheduler.                      *)

LEMMA AgreesMoved ==
    ASSUME EngineInv, NEW q \in DOMAIN runner, q \in DOMAIN requests, Agrees(q), Moved(q),
           q \notin ToSet(out'.preempted), UNCHANGED <<engine, runner>>
    PROVE  Agrees(q)'
<1>1. /\ runner[q].computed \in Nat /\ runner[q].generated \in Nat
      /\ requests[q].computed \in Nat /\ SpecTokens[q] \in Nat
  BY SchedulerAssumption DEF EngineInv, EngineTypes, ControlInv, TypesOK, RequestStates
<1>2. /\ q \in DOMAIN out.tokens => out.tokens[q] \in Nat
      /\ q \in ToSet(out.new) => q \in DOMAIN out.tokens
  BY DEF EngineInv, MemInv, BatchOK
<1>3. /\ q \in DOMAIN out.tokens => Given(q) = out.tokens[q]
      /\ q \notin DOMAIN out.tokens => Given(q) = 0
      /\ q \in DOMAIN out'.tokens => Given(q)' = out'.tokens[q]
      /\ q \notin DOMAIN out'.tokens => Given(q)' = 0
  BY DEF Given
<1> HIDE DEF Given
<1>4. CASE Unmoved(q)
  <2>1. Given(q)' = Given(q)
    BY <1>3, <1>4 DEF Unmoved
  <2>2. Placed(q)' <=> Placed(q)
    BY <1>2, <1>4 DEF Unmoved, Placed
  <2> HIDE DEF Placed
  <2> QED
    BY <1>4, <2>1, <2>2 DEF Unmoved, Agrees
<1>5. CASE Decoded(q)
  <2>1. Given(q) = 0 /\ Given(q)' = 1 + SpecTokens[q]
        /\ requests'[q].computed = requests[q].computed + 1 + SpecTokens[q]
    BY <1>3, <1>5 DEF Decoded
  <2>2. Placed(q)' <=> Placed(q)
    BY <1>5 DEF Decoded, Placed
  <2>3. /\ q \in ToSet(running) /\ requests'[q].status # "waiting"
        /\ q \notin ToSet(out'.new)
    BY <1>5 DEF Decoded
  <2> HIDE DEF Placed
  <2>4. /\ runner[q].generated = engine[q]
        /\ runner[q].computed + 0 <= requests[q].computed
        /\ SpecTokens[q] = 0 => runner[q].computed + 0 = requests[q].computed
        /\ WholePrompts /\ SpecTokens[q] = 0 => Placed(q)
    BY <2>1, <2>3 DEF Agrees
  <2>5. /\ runner[q].computed + Given(q)' <= requests'[q].computed
        /\ SpecTokens[q] = 0 => runner[q].computed + Given(q)' = requests'[q].computed
    BY <1>1, <2>1, <2>4
  <2> QED
    BY <2>2, <2>3, <2>4, <2>5 DEF Agrees
<1>6. CASE Prefilled(q)
  <2>1. runner[q].computed = 0 /\ runner[q].generated = 0 /\ engine[q] = 0
    BY <1>6 DEF Prefilled, Agrees
  <2>2. /\ Given(q)' \in Nat /\ requests'[q].computed = Given(q)'
        /\ requests'[q].status # "waiting" /\ q \in ToSet(out'.new)
        /\ WholePrompts => out'.tokens[q] = Len(Prompt[q])
    BY <1>3, <1>6 DEF Prefilled
  <2>3. WholePrompts => Placed(q)'
    BY <2>1, <2>2 DEF Placed
  <2> HIDE DEF Placed
  <2> QED
    BY <2>1, <2>2, <2>3 DEF Agrees
<1>7. CASE Joined(q)
  <2>1. runner[q].computed = 0 /\ runner[q].generated = 0 /\ engine[q] = 0
    BY <1>7 DEF Joined, Agrees
  <2>2. /\ Given(q)' = 0 /\ requests'[q].computed = 0 /\ ~WholePrompts
        /\ requests'[q].status # "waiting" /\ q \notin ToSet(out'.new)
    BY <1>3, <1>7 DEF Joined
  <2> HIDE DEF Placed
  <2> QED
    BY <2>1, <2>2 DEF Agrees
<1> QED
  BY <1>4, <1>5, <1>6, <1>7 DEF Moved

LEMMA SchedulerPartAgrees ==
    ASSUME NoCaching, EngineInv, AgreeInv, SchedulerPart
    PROVE  AgreeInv'
<1>1. /\ StepAction /\ restarted' = restarted \cup ToSet(out'.preempted)
      /\ UNCHANGED <<engine, runner, executor>>
  BY DEF SchedulerPart
<1>2. ControlInv /\ MemInv /\ Plain /\ Shares /\ Counted
  BY DEF EngineInv, AgreeInv
<1>3. SchedulerMoves
  BY <1>1, <1>2, StepMoves
<1>4. Counted'
  <2>1. Next
    BY <1>1 DEF Next
  <2> QED
    BY <1>2, <2>1, CountedStep
<1>5. ASSUME executor' = "uniproc", NEW q \in DOMAIN runner' \ restarted' PROVE Agrees(q)'
  <2>1. q \in DOMAIN runner \ restarted /\ executor = "uniproc" /\ q \notin ToSet(out'.preempted)
    BY <1>1, <1>5
  <2>2. q \in DOMAIN requests
    BY <2>1 DEF EngineInv, ExecutorInv
  <2>3. Agrees(q) /\ Moved(q)
    BY <1>3, <2>1, <2>2 DEF AgreeInv, SchedulerMoves
  <2> QED
    BY <1>1, <2>1, <2>2, <2>3, AgreesMoved
<1> QED
  BY <1>3, <1>4, <1>5 DEF AgreeInv, SchedulerMoves

-----------------------------------------------------------------------------
(* The two counts at the end of a step, and between steps.                 *)

LEMMA NothingScheduled ==
    ASSUME out' = EmptyOutput
    PROVE  /\ Shares' /\ Counted' /\ ToSet(out'.new) = {}
           /\ \A q : Given(q)' = 0
<1>1. ToSet(<<>>) = {} /\ DOMAIN NoKeys = {}
  BY DEF ToSet, NoKeys
<1>2. ToSet(out'.new) = {} /\ ToSet(out'.running) = {} /\ DOMAIN out'.tokens = {}
  BY <1>1 DEF EmptyOutput
<1>3. Shares'
  BY <1>2 DEF Shares
<1>4. \A q : Given(q)' = 0
  BY <1>2 DEF Given
<1> QED
  BY <1>2, <1>3, <1>4, CountedEmpty

(* What the runner and the engine count for a request of the batch.        *)
Advances(q) ==
    \E k, g \in Nat :
        /\ k <= out.tokens[q]
        /\ SpecTokens[q] = 0 => k = out.tokens[q] /\ g = 1
        /\ runner'[q] = [computed |-> runner[q].computed + k,
                         generated |-> runner[q].generated + g]
        /\ engine'[q] = engine[q] + g

LEMMA AgreesIdle ==
    ASSUME EngineInv, NEW q \in DOMAIN runner, q \in DOMAIN requests, Agrees(q),
           out' = EmptyOutput, requests'[q] = requests[q],
           q \in ToSet(running') => q \in ToSet(running),
           q \notin DOMAIN out.tokens, runner'[q] = runner[q], engine'[q] = engine[q]
    PROVE  Agrees(q)'
<1>1. q \notin ToSet(out.new) /\ Given(q) = 0
  BY DEF EngineInv, MemInv, BatchOK, Given
<1>2. q \notin ToSet(out'.new) /\ Given(q)' = 0
  BY NothingScheduled
<1>3. Placed(q)' <=> Placed(q)
  BY <1>1, <1>2 DEF Placed
<1> HIDE DEF Placed, Given
<1> QED
  BY <1>1, <1>2, <1>3 DEF Agrees

LEMMA AgreesAdvanced ==
    ASSUME EngineInv, Shares, NEW q \in DOMAIN runner, q \in DOMAIN requests, Agrees(q),
           out' = EmptyOutput, requests'[q] = requests[q], q \in DOMAIN out.tokens, Advances(q)
    PROVE  Agrees(q)'
<1>1. /\ runner[q].computed \in Nat /\ runner[q].generated \in Nat
      /\ requests[q].computed \in Nat /\ SpecTokens[q] \in Nat /\ out.tokens[q] \in Nat
      /\ q \in Requests /\ engine[q] \in Nat
  BY SchedulerAssumption DEF EngineInv, EngineTypes, ControlInv, TypesOK, RequestStates, MemInv, BatchOK
<1>2. Len(Prompt[q]) \in Nat
  BY <1>1, SchedulerAssumption
<1>3. /\ q \in ToSet(running) /\ requests[q].status # "waiting"
      /\ q \in ToSet(out.new) \/ q \in ToSet(out.running)
  <2>1. /\ q \in ToSet(running)
        /\ q \in ToSet(out.new) \/ q \in ToSet(out.running)
    BY DEF EngineInv, MemInv, BatchOK
  <2> QED
    BY <2>1 DEF EngineInv, ControlInv, QueuesOK, NoRequestLost
<1>4. Given(q) = out.tokens[q]
  BY DEF Given
<1>5. q \notin ToSet(out'.new) /\ Given(q)' = 0
  BY NothingScheduled
<1>6. /\ runner[q].generated = engine[q]
      /\ runner[q].computed + out.tokens[q] <= requests[q].computed
      /\ SpecTokens[q] = 0 => runner[q].computed + out.tokens[q] = requests[q].computed
      /\ q \in ToSet(out.new) => runner[q].computed = 0
      /\ WholePrompts /\ SpecTokens[q] = 0 => Placed(q)
  BY <1>3, <1>4 DEF Agrees
<1>7. PICK k \in Nat, g \in Nat :
        /\ k <= out.tokens[q]
        /\ SpecTokens[q] = 0 => k = out.tokens[q] /\ g = 1
        /\ runner'[q] = [computed |-> runner[q].computed + k,
                         generated |-> runner[q].generated + g]
        /\ engine'[q] = engine[q] + g
  BY DEF Advances
<1>8. runner'[q].computed = runner[q].computed + k /\ runner'[q].generated = runner[q].generated + g
  BY <1>7
<1>9. /\ runner'[q].generated = engine'[q]
      /\ runner'[q].computed + 0 <= requests[q].computed
      /\ SpecTokens[q] = 0 => runner'[q].computed + 0 = requests[q].computed
  BY <1>1, <1>6, <1>7, <1>8
<1>10. ASSUME WholePrompts, SpecTokens[q] = 0 PROVE Placed(q)'
  <2>1. Placed(q) /\ k = out.tokens[q] /\ g = 1
    BY <1>6, <1>7, <1>10
  <2>2. CASE q \in ToSet(out.new)
    <3>1. out.tokens[q] = Len(Prompt[q]) /\ runner[q].generated = 0 /\ runner[q].computed = 0
      BY <1>6, <2>1, <2>2 DEF Placed
    <3>2. runner'[q].computed = Len(Prompt[q]) + runner'[q].generated - 1
      BY <1>2, <1>8, <2>1, <3>1
    <3> QED
      BY <1>5, <3>2 DEF Placed
  <2>3. CASE q \notin ToSet(out.new)
    <3>1. out.tokens[q] = 1
      BY <1>1, <1>3, <1>10, <2>3 DEF Shares
    <3>2. runner[q].computed = Len(Prompt[q]) + runner[q].generated - 1
      BY <2>1, <2>3 DEF Placed
    <3>3. runner'[q].computed = Len(Prompt[q]) + runner'[q].generated - 1
      BY <1>1, <1>2, <1>8, <2>1, <3>1, <3>2
    <3> QED
      BY <1>5, <3>3 DEF Placed
  <2> QED
    BY <2>2, <2>3
<1> HIDE DEF Placed, Given
<1> QED
  BY <1>3, <1>5, <1>9, <1>10 DEF Agrees

LEMMA EndedPlain ==
    ASSUME EngineInv, Plain, NEW ids \in Seq(Requests), ForgetAll(ids), NEW gone, Forgotten(gone)
    PROVE  Plain'
<1>1. kv' = FreeRequests(kv, ids) /\ ControlInv /\ MemInv
  BY DEF ForgetAll, EngineInv
<1>2. Bare(kv')
  BY <1>1, MoveFacts, BareForget
<1>3. \A q \in DOMAIN requests' : ~requests'[q].hit
  BY DEF Forgotten, Plain
<1> QED
  BY <1>2, <1>3 DEF Plain

LEMMA EmptyAgrees ==
    ASSUME EngineInv, AgreeInv, StepEmpty
    PROVE  AgreeInv'
<1>1. /\ EndStep /\ NumScheduled = 0 /\ out' = EmptyOutput
      /\ UNCHANGED <<kv, requests, running, engine, runner, executor, restarted>>
  BY DEF StepEmpty, EndStep, engineVars
<1>2. Plain' /\ Shares' /\ Counted'
  BY <1>1, NothingScheduled DEF AgreeInv, Plain
<1>3. DOMAIN out.tokens = {}
  <2>1. Scheduled \in Seq(Requests) /\ ToSet(Scheduled) = Batch
    BY ScheduledBatch DEF EngineInv
  <2>2. ToSet(Scheduled) = {}
    BY <1>1, <2>1 DEF NumScheduled, ToSet
  <2> QED
    BY <2>1, <2>2 DEF Batch, EngineInv, MemInv, BatchOK
<1>4. ASSUME executor' = "uniproc", NEW q \in DOMAIN runner' \ restarted' PROVE Agrees(q)'
  <2>1. q \in DOMAIN runner \ restarted /\ executor = "uniproc"
    BY <1>1, <1>4
  <2>2. q \in DOMAIN requests /\ Agrees(q)
    BY <2>1 DEF EngineInv, ExecutorInv, AgreeInv
  <2> QED
    BY <1>1, <1>3, <2>1, <2>2, AgreesIdle
<1> QED
  BY <1>2, <1>4 DEF AgreeInv

LEMMA ErrorAgrees ==
    ASSUME EngineInv, AgreeInv, StepError
    PROVE  AgreeInv'
<1>1. ControlInv /\ MemInv /\ EngineTypes /\ Plain
  BY DEF EngineInv, AgreeInv
<1>2. ToSet(Scheduled) = Batch
  BY <1>1, ScheduledBatch
<1>3. /\ EndStep /\ \E ids \in SetToSeqs(Batch) : ForgetAll(ids)
      /\ engine' = Restrict(engine, DOMAIN engine \ Batch)
      /\ runner' = ExecutorForget(Cleaned(runner), Batch)
      /\ restarted' = restarted \ Batch /\ executor' = executor /\ executor = "uniproc"
      /\ out' = EmptyOutput
  BY <1>2 DEF StepError, EndStep
<1>4. PICK ids \in SetToSeqs(Batch) : ForgetAll(ids)
  BY <1>3
<1>5. Batch \subseteq Requests /\ IsFiniteSet(Batch)
  <2>1. Batch \subseteq Requests
    BY <1>1, BatchTracked DEF ControlInv, TypesOK
  <2> QED
    BY <2>1, EngineAssumption, FS_Subset
<1>6. ids \in Seq(Requests) /\ ToSet(ids) = Batch
  BY <1>5, ListingOfSet
<1>7. Forgotten(ToSet(ids))
  BY <1>1, <1>3, <1>4, <1>6, ForgetAllControl
<1>8. Plain' /\ Shares' /\ Counted'
  BY <1>1, <1>3, <1>4, <1>6, <1>7, EndedPlain, NothingScheduled
<1>9. ASSUME NEW q \in DOMAIN runner' \ restarted' PROVE Agrees(q)'
  <2>1. /\ q \in DOMAIN Cleaned(runner) /\ q \notin Batch /\ runner'[q] = Cleaned(runner)[q]
    BY <1>3 DEF ExecutorForget, Restrict
  <2>2. q \in DOMAIN runner /\ runner'[q] = runner[q] /\ q \notin restarted
    BY <1>3, <2>1, CleanedOK
  <2>3. q \in DOMAIN requests /\ Agrees(q) /\ q \in DOMAIN engine
    BY <1>1, <1>3, <2>2 DEF EngineInv, ExecutorInv, AgreeInv, EngineTypes
  <2>4. q \notin DOMAIN out.tokens
    BY <1>1, <2>1 DEF Batch, MemInv, BatchOK
  <2>5. engine'[q] = engine[q]
    BY <1>3, <2>1, <2>3 DEF Restrict
  <2>6. requests'[q] = requests[q] /\ (q \in ToSet(running') => q \in ToSet(running))
    BY <1>6, <1>7, <2>1, <2>3 DEF Forgotten
  <2> QED
    BY <1>3, <2>2, <2>3, <2>4, <2>5, <2>6, AgreesIdle
<1> QED
  BY <1>8, <1>9 DEF AgreeInv

LEMMA AddAgrees ==
    ASSUME EngineInv, AgreeInv, NEW r \in Requests, EngineAdd(r)
    PROVE  AgreeInv'
<1>1. ControlInv /\ MemInv /\ EngineTypes /\ ExecutorInv /\ Plain
  BY DEF EngineInv, AgreeInv
<1>2. /\ phase = "idle" /\ r \notin DOMAIN requests /\ kv' = kv /\ running' = running
      /\ requests' = Put(requests, r, NewRequest) /\ out' = out
      /\ runner' = Put(runner, r, NewRunnerState) /\ engine' = Put(engine, r, 0)
      /\ executor' = executor /\ restarted' = restarted
  BY DEF EngineAdd, AddRequest, stepVars
<1>3. out = EmptyOutput /\ out' = EmptyOutput
  BY <1>2, IdleEngine
<1>4. /\ DOMAIN requests' = DOMAIN requests \cup {r} /\ requests'[r] = NewRequest
      /\ \A x \in DOMAIN requests : requests'[x] = requests[x]
      /\ engine'[r] = 0 /\ \A x \in DOMAIN engine \ {r} : engine'[x] = engine[x]
      /\ DOMAIN runner' = DOMAIN runner \cup {r} /\ runner'[r] = NewRunnerState
      /\ \A x \in DOMAIN runner \ {r} : runner'[x] = runner[x]
  BY <1>2 DEF Put
<1>5. Plain' /\ Shares' /\ Counted'
  BY <1>1, <1>2, <1>3, <1>4, NothingScheduled DEF Plain, NewRequest
<1>6. DOMAIN out.tokens = {}
  BY <1>3 DEF EmptyOutput, NoKeys
<1>7. ASSUME executor' = "uniproc", NEW q \in DOMAIN runner' \ restarted' PROVE Agrees(q)'
  <2>1. CASE q = r
    <3>1. r \notin ToSet(running')
      BY <1>1, <1>2, BatchTracked
    <3>2. runner'[r].computed = 0 /\ runner'[r].generated = 0 /\ engine'[r] = 0
      BY <1>4 DEF NewRunnerState
    <3> QED
      BY <2>1, <3>1, <3>2 DEF Agrees
  <2>2. CASE q # r
    <3>1. q \in DOMAIN runner \ restarted /\ executor = "uniproc" /\ runner'[q] = runner[q]
      BY <1>2, <1>4, <1>7, <2>2
    <3>2. q \in DOMAIN requests /\ Agrees(q) /\ engine'[q] = engine[q] /\ requests'[q] = requests[q]
      BY <1>1, <1>4, <2>2, <3>1 DEF ExecutorInv, AgreeInv, EngineTypes
    <3> QED
      BY <1>2, <1>3, <1>6, <3>1, <3>2, AgreesIdle
  <2> QED
    BY <2>1, <2>2
<1> QED
  BY <1>5, <1>7 DEF AgreeInv

LEMMA AbortAgrees ==
    ASSUME EngineInv, AgreeInv, NEW r \in Requests, EngineAbort(r)
    PROVE  AgreeInv'
<1>1. ControlInv /\ MemInv /\ EngineTypes /\ ExecutorInv /\ Plain
  BY DEF EngineInv, AgreeInv
<1>2. /\ phase = "idle" /\ kv' = FreeRequest(kv, r) /\ running' = Without(running, r)
      /\ requests' = Restrict(requests, DOMAIN requests \ {r}) /\ out' = out
      /\ runner' = ExecutorForget(runner, {r})
      /\ engine' = Restrict(engine, DOMAIN engine \ {r})
      /\ executor' = executor /\ restarted' = restarted \ {r}
  BY DEF EngineAbort, AbortRequest, Forget, Drop, stepVars
<1>3. out = EmptyOutput /\ out' = EmptyOutput
  BY <1>2, IdleEngine
<1>4. ToSet(running') = ToSet(running) \ {r} /\ Bare(kv')
  BY <1>1, <1>2, MoveFacts, WithoutDistinct, BareFree
<1>5. /\ DOMAIN requests' = DOMAIN requests \ {r}
      /\ \A x \in DOMAIN requests' : requests'[x] = requests[x]
      /\ DOMAIN engine' = DOMAIN engine \ {r}
      /\ \A x \in DOMAIN engine' : engine'[x] = engine[x]
  BY <1>2 DEF Restrict
<1>6. Plain' /\ Shares' /\ Counted'
  BY <1>1, <1>3, <1>4, <1>5, NothingScheduled DEF Plain
<1>7. DOMAIN out.tokens = {}
  BY <1>3 DEF EmptyOutput, NoKeys
<1>8. ASSUME executor' = "uniproc", NEW q \in DOMAIN runner' \ restarted' PROVE Agrees(q)'
  <2>1. q \in DOMAIN runner /\ q # r /\ runner'[q] = runner[q] /\ q \notin restarted
    BY <1>2, <1>8 DEF ExecutorForget, Restrict
  <2>2. /\ q \in DOMAIN requests /\ Agrees(q) /\ engine'[q] = engine[q]
        /\ requests'[q] = requests[q] /\ (q \in ToSet(running') => q \in ToSet(running))
    BY <1>1, <1>2, <1>4, <1>5, <1>8, <2>1 DEF ExecutorInv, AgreeInv, EngineTypes
  <2> QED
    BY <1>3, <1>7, <2>1, <2>2, AgreesIdle
<1> QED
  BY <1>6, <1>8 DEF AgreeInv

LEMMA ResetAgrees ==
    ASSUME EngineInv, AgreeInv, EngineResetPrefixCache
    PROVE  AgreeInv'
<1>1. ControlInv /\ MemInv /\ EngineTypes /\ ExecutorInv /\ Plain
  BY DEF EngineInv, AgreeInv
<1>2. /\ phase = "idle" /\ kv' = ResetCache(kv)
      /\ UNCHANGED <<requests, running, out, engine, runner, executor, restarted>>
  BY DEF EngineResetPrefixCache, ResetPrefixCacheCall, engineVars, stepVars
<1>3. out = EmptyOutput /\ out' = EmptyOutput
  BY <1>2, IdleEngine
<1>4. KVOK(kv, Prompt) /\ Unshared(kv) /\ Bare(kv)
  BY <1>1, MoveFacts
<1>5. TablesKept(kv, ResetCache(kv))
  BY <1>4, ResetCacheEffect
<1>6. Bare(kv')
  BY <1>2, <1>4, <1>5, BareKept
<1>7. Plain' /\ Shares' /\ Counted'
  BY <1>1, <1>2, <1>3, <1>6, NothingScheduled DEF Plain
<1>8. DOMAIN out.tokens = {}
  BY <1>3 DEF EmptyOutput, NoKeys
<1>9. ASSUME executor' = "uniproc", NEW q \in DOMAIN runner' \ restarted' PROVE Agrees(q)'
  <2>1. q \in DOMAIN runner \ restarted /\ executor = "uniproc"
    BY <1>2, <1>9
  <2>2. q \in DOMAIN requests /\ Agrees(q)
    BY <1>1, <2>1 DEF ExecutorInv, AgreeInv
  <2> QED
    BY <1>2, <1>3, <1>8, <2>1, <2>2, AgreesIdle
<1> QED
  BY <1>7, <1>9 DEF AgreeInv

LEMMA ProcessPlain ==
    ASSUME EngineInv, AgreeInv, EndStep, NEW rn, NEW seqs, NEW answers, seqs \subseteq Batch,
           ProcessOutputs(rn, seqs, answers)
    PROVE  Plain' /\ Shares' /\ Counted'
<1> DEFINE ids == FinishedIds(seqs, answers)
<1>1. Scheduled \in Seq(Requests) /\ Plain
  BY ScheduledBatch DEF EngineInv, AgreeInv
<1>2. ids \in Seq(Requests)
  BY <1>1, FinishedIdsProperties
<1>3. ForgetAll(ids) /\ out' = EmptyOutput
  BY DEF ProcessOutputs, EndStep
<1> DEFINE ends == {r \in seqs : Finishes(r, answers[r])}
<1>4. Forgotten(ends)
  <2>1. Processed(seqs, answers)
    BY ProcessEffect
  <2> QED
    BY <2>1 DEF Processed
<1> HIDE DEF ids, ends
<1> QED
  BY <1>1, <1>2, <1>3, <1>4, EndedPlain, NothingScheduled

LEMMA MultiProcAgrees ==
    ASSUME EngineInv, AgreeInv, StepMultiProc
    PROVE  AgreeInv'
<1> DEFINE seqs == MultiProcSequences(runner)
<1>1. /\ EndStep /\ executor = "multiproc"
      /\ \E answers \in Answers(seqs, [r \in Requests |-> 0]) :
            ProcessOutputs(StoredOnly(runner, seqs), seqs, answers)
  BY DEF StepMultiProc
<1>2. PICK answers \in Answers(seqs, [r \in Requests |-> 0]) :
            ProcessOutputs(StoredOnly(runner, seqs), seqs, answers)
  BY <1>1
<1>3. seqs \subseteq Batch
  BY ScheduledBatch DEF EngineInv, MultiProcSequences
<1>4. executor' = "multiproc"
  BY <1>1, <1>2 DEF ProcessOutputs
<1> HIDE DEF seqs
<1>5. Plain' /\ Shares' /\ Counted'
  BY <1>1, <1>2, <1>3, ProcessPlain
<1> QED
  BY <1>4, <1>5 DEF AgreeInv

(* What a sequence of the batch adds to the runner's count.                *)
LEMMA SequenceTokens ==
    ASSUME EngineInv, AgreeInv, executor = "uniproc", NEW rn, rn = Cleaned(runner),
           NEW q \in DOMAIN rn, q \notin restarted, q \in DOMAIN out.tokens, NEW drafts,
           drafts[q] \in Nat, drafts[q] <= IF q \in ToSet(out.running) THEN SpecTokens[q] ELSE 0
    PROVE  /\ q \in Sequences(rn) /\ TokensPerSeq(rn, q, drafts) \in Nat
           /\ TokensPerSeq(rn, q, drafts) <= out.tokens[q]
           /\ drafts[q] = SpecTokens[q] \/ q \in ToSet(out.new) =>
                 TokensPerSeq(rn, q, drafts) = out.tokens[q]
           /\ SpecTokens[q] = 0 => drafts[q] = 0
<1>1. q \in DOMAIN runner /\ rn[q] = runner[q]
  BY CleanedOK
<1>2. /\ q \in Requests /\ runner[q].computed \in Nat /\ out.tokens[q] \in Nat /\ SpecTokens[q] \in Nat
      /\ q \in ToSet(running) /\ (q \in ToSet(out.new) \/ q \in ToSet(out.running))
      /\ ToSet(out.new) \cap ToSet(out.running) = {}
  BY <1>1, SchedulerAssumption DEF EngineInv, EngineTypes, MemInv, BatchOK
<1>3. Len(Prompt[q]) \in Nat
  BY <1>2, SchedulerAssumption
<1>4. Shares /\ Agrees(q)
  BY <1>1 DEF AgreeInv
<1>5. SpecTokens[q] = 0 => drafts[q] = 0
  BY <1>2
<1>6. CASE q \in ToSet(out.new)
  <2>1. /\ out.tokens[q] > 0 /\ out.tokens[q] <= Len(Prompt[q]) /\ runner[q].computed = 0
    BY <1>2, <1>4, <1>6 DEF Shares, Agrees
  <2>2. q \in Sequences(rn)
    BY <1>1, <1>2, <1>3, <1>6, <2>1 DEF Sequences
  <2>3. TokensPerSeq(rn, q, drafts) = out.tokens[q]
    <3> DEFINE a == rn[q].computed + out.tokens[q]
               b == Len(Prompt[q])
    <3>1. a \in Nat /\ b \in Nat /\ a <= b /\ a = out.tokens[q] /\ rn[q].computed = 0
      BY <1>1, <1>2, <1>3, <2>1
    <3>2. TokensPerSeq(rn, q, drafts) = Min({a, b}) - rn[q].computed
      BY <1>6 DEF TokensPerSeq, IsPrefill
    <3> HIDE DEF a, b
    <3>3. Min({a, b}) = a
      BY <3>1, PairBounds
    <3> QED
      BY <1>2, <3>1, <3>2, <3>3
  <2> QED
    BY <1>2, <1>5, <2>2, <2>3
<1>7. CASE q \notin ToSet(out.new)
  <2>1. q \in ToSet(out.running) /\ out.tokens[q] = 1 + SpecTokens[q] /\ drafts[q] <= SpecTokens[q]
    BY <1>2, <1>4, <1>7 DEF Shares
  <2>2. q \in Sequences(rn)
    BY <1>1, <1>2, <1>7, <2>1 DEF Sequences, IsPrefill
  <2>3. TokensPerSeq(rn, q, drafts) = 1 + drafts[q]
    BY <1>7 DEF TokensPerSeq, IsPrefill
  <2> QED
    BY <1>2, <1>5, <1>7, <2>1, <2>2, <2>3
<1> QED
  BY <1>6, <1>7

LEMMA UniProcAgrees ==
    ASSUME EngineInv, AgreeInv, StepUniProc
    PROVE  AgreeInv'
<1> DEFINE rn == Cleaned(runner)
           seqs == Sequences(rn)
<1>1. EndStep /\ executor = "uniproc" /\ out' = EmptyOutput
  BY DEF StepUniProc, EndStep
<1>2. PICK drafts \in DraftCounts :
        /\ \A r \in Requests : drafts[r] <= IF r \in seqs /\ Draftable(r) THEN SpecTokens[r] ELSE 0
        /\ \E answers \in Answers(seqs, drafts) :
              ProcessOutputs(Advanced(rn, seqs, drafts, answers), seqs, answers)
  BY DEF StepUniProc
<1>3. PICK answers \in Answers(seqs, drafts) :
            ProcessOutputs(Advanced(rn, seqs, drafts, answers), seqs, answers)
  BY <1>2
<1>4. seqs \subseteq Batch /\ Batch \subseteq Requests
  <2>1. seqs \subseteq Batch
    BY DEF Sequences, Batch
  <2>2. Batch \subseteq Requests
    BY BatchTracked DEF EngineInv, ControlInv, TypesOK
  <2> QED
    BY <2>1, <2>2
<1>5. ASSUME NEW r \in Requests
      PROVE  /\ drafts[r] \in Nat /\ drafts[r] <= MostDrafts /\ SpecTokens[r] \in Nat
             /\ drafts[r] <= IF r \in ToSet(out.running) THEN SpecTokens[r] ELSE 0
  <2>1. MostDrafts \in Nat /\ SpecTokens[r] \in Nat
    BY MostDraftsBound, SchedulerAssumption
  <2>2. drafts[r] \in 0..MostDrafts
    BY <1>2 DEF DraftCounts, MostDrafts
  <2>3. drafts[r] <= IF r \in ToSet(out.running) THEN SpecTokens[r] ELSE 0
    BY <1>2, <2>1, <2>2 DEF Draftable
  <2> QED
    BY <2>1, <2>2, <2>3
<1>6. seqs \subseteq Requests
  BY <1>4
<1>7. RunnerOK(rn) /\ \A r \in DOMAIN rn : r \in DOMAIN runner /\ rn[r] = runner[r]
  BY CleanedOK
<1> DEFINE new == Advanced(rn, seqs, drafts, answers)
           ends == {r \in seqs : Finishes(r, answers[r])}
<1>8. GoodAnswers(seqs, answers)
  <2> HIDE DEF seqs
  <2> QED
    BY <1>3, <1>5, <1>6, AnswersGood
<1>9. ProcessOutputs(new, seqs, answers)
  BY <1>3
<1>10. DOMAIN new = DOMAIN rn
       /\ \A r \in DOMAIN rn : IF r \in seqs
             THEN new[r] = [computed |-> rn[r].computed + TokensPerSeq(rn, r, drafts),
                            generated |-> rn[r].generated + answers[r].count]
             ELSE new[r] = rn[r]
  BY DEF Advanced
<1>11. ASSUME NEW r \in seqs PROVE answers[r].count \in Nat /\ (drafts[r] = 0 => answers[r].count = 1)
  <2> HIDE DEF seqs
  <2>1. answers[r] \in Answer(drafts[r])
    BY <1>3 DEF Answers
  <2>2. answers[r].count \in Verified(drafts[r])
    BY <2>1 DEF Answer
  <2>3. answers[r].count \in 1..(MostDrafts + 1)
    BY <1>8 DEF GoodAnswers
  <2> QED
    BY <2>2, <2>3 DEF Verified
<1> HIDE DEF new
<1>12. /\ Processed(seqs, answers) /\ runner' = ExecutorForget(new, ends)
  <2> HIDE DEF seqs
  <2> QED
    BY <1>1, <1>4, <1>9, ProcessEffect
<1>13. /\ Forgotten(ends) /\ restarted' = restarted \ ends /\ executor' = executor
       /\ DOMAIN engine' = DOMAIN engine \ ends
       /\ \A r \in DOMAIN engine' : engine'[r] = IF r \in seqs
                                                 THEN engine[r] + Consumed(r, answers[r])
                                                 ELSE engine[r]
  BY <1>12 DEF Processed
<1>14. Plain' /\ Shares' /\ Counted'
  <2> HIDE DEF seqs
  <2> QED
    BY <1>1, <1>4, <1>9, ProcessPlain
<1>15. ASSUME NEW q \in DOMAIN runner' \ restarted' PROVE Agrees(q)'
  <2>1. q \in DOMAIN new /\ q \notin ends /\ runner'[q] = new[q] /\ q \notin restarted
    <3> HIDE DEF ends
    <3> QED
      BY <1>1, <1>12, <1>13, <1>15 DEF ExecutorForget, Restrict
  <2>2. q \in DOMAIN rn /\ q \in DOMAIN runner /\ rn[q] = runner[q]
    BY <1>7, <1>10, <2>1
  <2>3. q \in DOMAIN requests /\ q \in DOMAIN engine /\ Agrees(q) /\ EngineTypes /\ q \in Requests
    BY <1>1, <2>1, <2>2 DEF EngineInv, ExecutorInv, AgreeInv, EngineTypes
  <2>4. /\ requests'[q] = requests[q] /\ (q \in ToSet(running') => q \in ToSet(running))
        /\ q \in DOMAIN engine'
    <3> HIDE DEF ends
    <3> QED
      BY <1>13, <2>1, <2>3 DEF Forgotten
  <2>5. CASE q \notin DOMAIN out.tokens
    <3>1. q \notin seqs
      BY <2>5 DEF Sequences, EngineInv, MemInv, BatchOK
    <3>2. runner'[q] = runner[q] /\ engine'[q] = engine[q]
      BY <1>10, <1>13, <2>1, <2>2, <2>4, <3>1
    <3> QED
      BY <1>1, <2>2, <2>3, <2>4, <2>5, <3>2, AgreesIdle
  <2>6. CASE q \in DOMAIN out.tokens
    <3> DEFINE k == TokensPerSeq(rn, q, drafts)
               g == answers[q].count
    <3>1. /\ q \in seqs /\ k \in Nat /\ k <= out.tokens[q]
          /\ drafts[q] = SpecTokens[q] \/ q \in ToSet(out.new) => k = out.tokens[q]
          /\ SpecTokens[q] = 0 => drafts[q] = 0
      <4>1. /\ drafts[q] \in Nat
            /\ drafts[q] <= IF q \in ToSet(out.running) THEN SpecTokens[q] ELSE 0
        BY <1>5, <2>3
      <4> QED
        BY <1>1, <2>1, <2>2, <2>6, <4>1, SequenceTokens
    <3>2. g \in Nat /\ (drafts[q] = 0 => g = 1)
      BY <1>11, <3>1
    <3>3. ~Finishes(q, answers[q])
      BY <2>1, <3>1
    <3>4. Consumed(q, answers[q]) = g
      <4> HIDE DEF seqs
      <4> QED
        BY <1>4, <1>8, <3>1, <3>3, AnswerFacts
    <3>5. /\ runner'[q] = [computed |-> runner[q].computed + k, generated |-> runner[q].generated + g]
          /\ engine'[q] = engine[q] + g
      BY <1>10, <1>13, <2>1, <2>2, <2>4, <3>1, <3>4
    <3> HIDE DEF k, g
    <3>6. Advances(q)
      BY <3>1, <3>2, <3>5 DEF Advances
    <3>7. Shares
      BY DEF AgreeInv
    <3> QED
      BY <1>1, <2>2, <2>3, <2>4, <2>6, <3>6, <3>7, AgreesAdvanced
  <2> QED
    BY <2>5, <2>6
<1> QED
  BY <1>14, <1>15 DEF AgreeInv

LEMMA AgreeStutter ==
    ASSUME AgreeInv, UNCHANGED allVars
    PROVE  AgreeInv'
<1>1. UNCHANGED <<kv, requests, running, out, engine, runner, executor, restarted>>
  BY DEF allVars, vars, stepVars, engineVars
<1>2. Plain' /\ Shares' /\ Counted'
  BY <1>1 DEF AgreeInv, Plain, Shares, Counted
<1>3. ASSUME NEW q, Agrees(q) PROVE Agrees(q)'
  BY <1>1, <1>3 DEF Agrees, Given, Placed
<1> QED
  BY <1>1, <1>2, <1>3 DEF AgreeInv

LEMMA AgreeInitial ==
    ASSUME EngineInit
    PROVE  AgreeInv
<1>1. Init /\ runner = NoKeys
  BY DEF EngineInit
<1>2. Counted
  BY <1>1, CountedInit
<1>3. ToSet(<<>>) = {} /\ DOMAIN NoKeys = {}
  BY DEF ToSet, NoKeys
<1>4. Shares
  BY <1>1, <1>3 DEF Init, EmptyOutput, Shares
<1>5. Plain
  <2>1. kv = NewKV /\ requests = NoKeys
    BY <1>1 DEF Init
  <2>2. \A r : Table(kv, r) = <<>>
    BY <1>3, <2>1 DEF NewKV, Table, Lookup
  <2>3. Bare(kv)
    BY <2>2 DEF Bare
  <2> QED
    BY <1>3, <2>1, <2>3 DEF Plain
<1> QED
  BY <1>1, <1>2, <1>3, <1>4, <1>5 DEF AgreeInv

LEMMA AgreeStep ==
    ASSUME NoCaching, EngineInv, AgreeInv, [EngineNext]_allVars
    PROVE  AgreeInv'
<1>1. CASE SchedulerPart
  BY <1>1, SchedulerPartAgrees
<1>2. CASE StepEmpty
  BY <1>2, EmptyAgrees
<1>3. CASE StepUniProc
  BY <1>3, UniProcAgrees
<1>4. CASE StepMultiProc
  BY <1>4, MultiProcAgrees
<1>5. CASE StepError
  BY <1>5, ErrorAgrees
<1>6. CASE \E r \in Requests : EngineAdd(r)
  BY <1>6, AddAgrees
<1>7. CASE \E r \in Requests : EngineAbort(r)
  BY <1>7, AbortAgrees
<1>8. CASE EngineResetPrefixCache
  BY <1>8, ResetAgrees
<1>9. CASE UNCHANGED allVars
  BY <1>9, AgreeStutter
<1> QED
  BY <1>1, <1>2, <1>3, <1>4, <1>5, <1>6, <1>7, <1>8, <1>9 DEF EngineNext, EngineStep, EngineCall

(* Without prefix caching the runner's counts and the engine's follow the  *)
(* scheduler's through every mix of steps, failures and calls, whatever is *)
(* preempted, split or rejected (AgreeInv).                                *)
THEOREM CountsAgree == NoCaching /\ EngineSpec => [](EngineInv /\ AgreeInv)
<1> SUFFICES ASSUME NoCaching PROVE EngineSpec => [](EngineInv /\ AgreeInv)
  OBVIOUS
<1>1. EngineInit => EngineInv /\ AgreeInv
  BY EngineInitial, AgreeInitial
<1>2. (EngineInv /\ AgreeInv) /\ [EngineNext]_allVars => (EngineInv /\ AgreeInv)'
  BY EngineKeeps, AgreeStep
<1> QED
  BY <1>1, <1>2, PTL DEF EngineSpec

(* Without prefix caching, drafts or a preemption, scheduler, runner and   *)
(* engine have counted the same tokens whenever a step has ended: what the *)
(* scheduler schedules the runner computes, split prompts included.        *)
THEOREM RunnerFollowsScheduler == NoCaching /\ EngineSpec => []RunnerAgrees
<1>1. EngineInv /\ AgreeInv => RunnerAgrees
  <2> SUFFICES ASSUME EngineInv, AgreeInv, executor = "uniproc", phase = "idle",
                      NEW r \in Followed \cap ToSet(running)
               PROVE  runner[r].computed = requests[r].computed /\ runner[r].generated = engine[r]
    BY DEF RunnerAgrees
  <2>1. r \in DOMAIN runner \ restarted /\ SpecTokens[r] = 0 /\ r \in ToSet(running)
    BY DEF Followed
  <2>2. Agrees(r) /\ runner[r].computed \in Nat
    BY <2>1 DEF AgreeInv, EngineInv, EngineTypes
  <2>3. Given(r) = 0
    <3>1. DOMAIN NoKeys = {}
      BY DEF NoKeys
    <3> QED
      BY <3>1, IdleEngine DEF EmptyOutput, Given
  <2> QED
    BY <2>1, <2>2, <2>3 DEF Agrees
<1> QED
  BY <1>1, CountsAgree, PTL

(* When the limits split no prompt either, every decode computes the last  *)
(* generated token at its own index, after the whole prompt.               *)
THEOREM DecodesStayInPlace == NoCaching /\ WholePrompts /\ EngineSpec => []DecodesInPlace
<1> SUFFICES ASSUME NoCaching, WholePrompts PROVE EngineSpec => []DecodesInPlace
  OBVIOUS
<1>1. EngineInv /\ AgreeInv => DecodesInPlace
  <2> SUFFICES ASSUME EngineInv, AgreeInv, NEW r \in DecodeBatch \cap Followed
               PROVE  runner[r].computed = Len(Prompt[r]) + runner[r].generated - 1
    BY DEF DecodesInPlace
  <2>1. /\ executor = "uniproc" /\ r \in Sequences(Cleaned(runner)) /\ ~IsPrefill(r)
        /\ r \in DOMAIN runner \ restarted /\ SpecTokens[r] = 0
    BY DEF DecodeBatch, Followed
  <2>2. r \notin ToSet(out.new) /\ r \in ToSet(running)
    BY <2>1 DEF IsPrefill, Sequences, EngineInv, MemInv, BatchOK
  <2>3. Agrees(r)
    BY <2>1 DEF AgreeInv
  <2>4. Placed(r)
    BY <2>1, <2>2, <2>3 DEF Agrees
  <2> QED
    BY <2>2, <2>4 DEF Placed
<1> QED
  BY <1>1, CountsAgree, PTL

-----------------------------------------------------------------------------
(* The slots of a batch.                                                   *)

LEMMA SlotBlock ==
    ASSUME NEW b \in Nat, NEW pos \in Nat, NEW n \in Nat, pos < n * BlockSize
    PROVE  /\ pos \div BlockSize \in Nat /\ pos \div BlockSize < n
           /\ (b * BlockSize + (pos % BlockSize)) \div BlockSize = b
<1>1. BlockSize \in Nat /\ BlockSize > 0
  BY KVAssumption
<1> DEFINE d == pos \div BlockSize
           m == pos % BlockSize
<1>2. d \in Nat /\ m \in Nat /\ m < BlockSize /\ pos = d * BlockSize + m
  BY <1>1
<1> HIDE DEF d, m
<1>3. d < n
  <2> SUFFICES ASSUME n <= d PROVE FALSE
    BY <1>2
  <2>1. n * BlockSize <= d * BlockSize /\ n * BlockSize \in Nat /\ d * BlockSize \in Nat
    BY <1>2, TimesBlock
  <2> QED
    BY <1>2, <2>1
<1>4. (b * BlockSize + m) \div BlockSize = b
  <2> DEFINE x == b * BlockSize + m
             y == x \div BlockSize
             z == x % BlockSize
  <2>1. x \in Nat /\ b * BlockSize \in Nat
    BY <1>1, <1>2
  <2>2. y \in Nat /\ z \in Nat /\ z < BlockSize /\ x = y * BlockSize + z
    <3> HIDE DEF x
    <3> QED
      BY <1>1, <2>1
  <2>3. x = b * BlockSize + m
    OBVIOUS
  <2> HIDE DEF x, y, z
  <2>4. ~(y < b) /\ ~(b < y)
    <3>1. ASSUME y < b PROVE FALSE
      <4>1. y * BlockSize + BlockSize <= b * BlockSize /\ y * BlockSize \in Nat
        BY <2>2, <3>1, TimesBlock
      <4> QED
        BY <1>1, <1>2, <2>1, <2>2, <2>3, <4>1
    <3>2. ASSUME b < y PROVE FALSE
      <4>1. b * BlockSize + BlockSize <= y * BlockSize /\ y * BlockSize \in Nat
        BY <2>2, <3>2, TimesBlock
      <4> QED
        BY <1>1, <1>2, <2>1, <2>2, <2>3, <4>1
    <3> QED
      BY <3>1, <3>2
  <2>5. y = b
    BY <2>2, <2>4
  <2> QED
    BY <2>5 DEF x, y
<1> QED
  BY <1>2, <1>3, <1>4 DEF d, m

(* Every position of a sequence is one the scheduler has counted.          *)
LEMMA SequencePositions ==
    ASSUME EngineInv, AgreeInv, executor = "uniproc",
           NEW r \in Sequences(Cleaned(runner)), r \notin restarted,
           NEW pos \in Positions(runner, r, SpecTokens)
    PROVE  /\ pos \in Nat /\ pos < requests[r].computed /\ requests[r].computed \in Nat
           /\ r \in ToSet(running) /\ r \in DOMAIN requests /\ r \in DOMAIN out.tokens
<1> DEFINE rn == Cleaned(runner)
           ds == [x \in {r} |-> IF r \in ToSet(out.running) THEN SpecTokens[r] ELSE 0]
<1>1. r \in DOMAIN rn /\ r \in DOMAIN runner /\ rn[r] = runner[r]
  BY CleanedOK DEF Sequences
<1>2. /\ r \in DOMAIN out.tokens /\ r \in ToSet(running) /\ out.tokens[r] \in Nat
      /\ r \in ToSet(out.new) \/ r \in ToSet(out.running)
  BY DEF Sequences, EngineInv, MemInv, BatchOK
<1>3. /\ r \in DOMAIN requests /\ requests[r].computed \in Nat /\ runner[r].computed \in Nat
      /\ SpecTokens[r] \in Nat
  BY <1>1, <1>2, BatchTracked, SchedulerAssumption
  DEF EngineInv, EngineTypes, ControlInv, TypesOK, RequestStates
<1>4. ds[r] \in Nat /\ ds[r] <= IF r \in ToSet(out.running) THEN SpecTokens[r] ELSE 0
  BY <1>3
<1>5. TokensPerSeq(rn, r, ds) = TokensPerSeq(runner, r, SpecTokens)
  BY <1>1, <1>2 DEF TokensPerSeq, IsPrefill
<1> HIDE DEF rn, ds
<1>6. TokensPerSeq(rn, r, ds) \in Nat /\ TokensPerSeq(rn, r, ds) <= out.tokens[r]
  BY <1>1, <1>2, <1>4, SequenceTokens DEF rn
<1>7. runner[r].computed + out.tokens[r] <= requests[r].computed
  <2>1. Agrees(r) /\ Given(r) = out.tokens[r]
    BY <1>1, <1>2 DEF AgreeInv, Given
  <2> QED
    BY <1>2, <2>1 DEF Agrees
<1> DEFINE k == TokensPerSeq(runner, r, SpecTokens)
<1>8. pos \in runner[r].computed .. (runner[r].computed + k - 1) /\ k \in Nat /\ k <= out.tokens[r]
  BY <1>5, <1>6 DEF Positions
<1> HIDE DEF k
<1> QED
  BY <1>2, <1>3, <1>7, <1>8

(* The slot of a position is in a block of the request's own table.        *)
LEMMA SlotHeld ==
    ASSUME EngineInv, AgreeInv, executor = "uniproc",
           NEW r \in Sequences(Cleaned(runner)), r \notin restarted, NEW s \in SlotsOf(r)
    PROVE  /\ r \in DOMAIN kv.blocks /\ Table(kv, r) = kv.blocks[r]
           /\ \E i \in DOMAIN kv.blocks[r] : kv.blocks[r][i] = s \div BlockSize
<1>1. PICK pos \in Positions(runner, r, SpecTokens) : s = Slot(out.tables[r], pos)
  BY DEF SlotsOf
<1>2. /\ pos \in Nat /\ pos < requests[r].computed /\ requests[r].computed \in Nat
      /\ r \in ToSet(running) /\ r \in DOMAIN requests /\ r \in DOMAIN out.tokens
  BY SequencePositions
<1>3. out.tables[r] = Table(kv, r) /\ RequestOK(r) /\ KVOK(kv, Prompt)
  BY <1>2 DEF EngineInv, MemInv, MemoryOK, BatchOK
<1> DEFINE t == Table(kv, r)
           n == Len(t)
           c == requests[r].computed
<1>4. t \in Seq(Usable) /\ n \in Nat
  <2>1. TablesOK(kv.blocks)
    BY <1>3 DEF KVOK
  <2>2. t \in Seq(Usable)
    BY <2>1 DEF TablesOK, Table, Lookup
  <2> QED
    BY <2>2
<1>5. n >= CeilDiv(c, BlockSize)
  BY <1>2, <1>3 DEF RequestOK
<1>6. s = Slot(t, pos)
  BY <1>1, <1>3
<1>7. c \in Nat /\ pos < c
  BY <1>2
<1> HIDE DEF c
<1>8. pos < n * BlockSize
  <2> DEFINE d == CeilDiv(c, BlockSize)
  <2>1. d \in Nat /\ c <= d * BlockSize
    BY <1>7, CeilDivLeast
  <2>2. n >= d
    BY <1>5
  <2> HIDE DEF d, n
  <2>3. d * BlockSize <= n * BlockSize /\ d * BlockSize \in Nat /\ n * BlockSize \in Nat
    BY <1>4, <2>1, <2>2, TimesBlock
  <2> QED
    BY <1>2, <1>7, <2>1, <2>3
<1> DEFINE i == pos \div BlockSize + 1
<1>9. pos \div BlockSize \in Nat /\ pos \div BlockSize < n
  <2> HIDE DEF n
  <2> QED
    BY <1>2, <1>4, <1>8, SlotBlock
<1>10. i \in 1..n /\ s = t[i] * BlockSize + (pos % BlockSize)
  BY <1>4, <1>6, <1>9 DEF Slot
<1>11. i \in DOMAIN t /\ t[i] \in Nat
  <2>1. DOMAIN t = 1..n
    BY <1>4
  <2>2. t[i] \in Usable
    BY <1>4, <1>10, <2>1
  <2> QED
    BY <1>10, <2>1, <2>2, PoolAssumption DEF Usable
<1>12. s \div BlockSize = t[i]
  <2> DEFINE b == t[i]
  <2>1. b \in Nat /\ s = b * BlockSize + (pos % BlockSize)
    BY <1>10, <1>11
  <2> HIDE DEF b, n
  <2>2. (b * BlockSize + (pos % BlockSize)) \div BlockSize = b
    BY <1>2, <1>4, <1>8, <2>1, SlotBlock
  <2> QED
    BY <2>1, <2>2 DEF b
<1>13. r \in DOMAIN kv.blocks /\ t = kv.blocks[r]
  <2>1. t # <<>>
    BY <1>11
  <2> QED
    BY <2>1 DEF Table, Lookup
<1> HIDE DEF i
<1> QED
  BY <1>11, <1>12, <1>13

(* Without prefix caching every token of a batch, drafts included, has a   *)
(* slot in a block of its own request, and no two requests share a slot.   *)
THEOREM SlotsStayPrivate == NoCaching /\ EngineSpec => []BatchSlotsPrivate
<1>1. EngineInv /\ AgreeInv => BatchSlotsPrivate
  <2> SUFFICES ASSUME EngineInv, AgreeInv, executor = "uniproc",
                      NEW r \in Sequences(Cleaned(runner)) \ restarted
               PROVE  /\ \A s \in SlotsOf(r) : s \div BlockSize \in ToSet(Table(kv, r))
                      /\ \A q \in Sequences(Cleaned(runner)) \ (restarted \cup {r}) :
                            SlotsOf(r) \cap SlotsOf(q) = {}
    BY DEF BatchSlotsPrivate
  <2>1. ASSUME NEW s \in SlotsOf(r) PROVE s \div BlockSize \in ToSet(Table(kv, r))
    BY SlotHeld DEF ToSet
  <2>2. ASSUME NEW q \in Sequences(Cleaned(runner)) \ (restarted \cup {r}),
               NEW s \in SlotsOf(r), s \in SlotsOf(q)
        PROVE  FALSE
    <3>1. r \in DOMAIN kv.blocks /\ q \in DOMAIN kv.blocks /\ Table(kv, r) = kv.blocks[r]
      BY <2>2, SlotHeld
    <3>2. PICK i \in DOMAIN kv.blocks[r] : kv.blocks[r][i] = s \div BlockSize
      BY <2>2, SlotHeld
    <3>3. PICK j \in DOMAIN kv.blocks[q] : kv.blocks[q][j] = s \div BlockSize
      BY <2>2, SlotHeld
    <3>4. kv.blocks[r][i] \in ToSet(kv.blocks[q]) /\ r # q
      BY <2>2, <3>2, <3>3 DEF ToSet
    <3>5. Unshared(kv) /\ Bare(kv)
      BY DEF EngineInv, MemInv, MemoryOK, AgreeInv, Plain
    <3>6. kv.pool.hash[kv.blocks[r][i]] # NoHash
      BY <3>1, <3>2, <3>4, <3>5 DEF Unshared
    <3>7. kv.pool.hash[kv.blocks[r][i]] = NoHash
      BY <3>1, <3>2, <3>5 DEF Bare, Label
    <3> QED
      BY <3>6, <3>7
  <2> QED
    BY <2>1, <2>2
<1> QED
  BY <1>1, CountsAgree, PTL

=============================================================================
