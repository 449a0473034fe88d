------------------------ MODULE FreeBlockQueueProofs ------------------------
(***************************************************************************)
(* Proofs that the pointer structure of FreeBlockQueue stays a well-formed *)
(* doubly linked list whose length counter is exact, for any finite set of *)
(* blocks.  The conjunction of the three invariants is inductive: exact    *)
(* counting needs the links (a push or an unlink adds or removes exactly   *)
(* one queued block only in a well-linked list).                           *)
(***************************************************************************)
EXTENDS FreeBlockQueue, SeqLemmas, FiniteSetTheorems

IInv == TypeOK /\ WellLinked /\ LenExact

LEMMA InitIInv == Init => IInv
<1> SUFFICES ASSUME Init PROVE IInv
  OBVIOUS
<1>1. Queued = {}
  BY QueueAssumption DEF Init, Queued, InQueue
<1>2. TypeOK /\ WellLinked
  BY <1>1, QueueAssumption DEF Init, TypeOK, WellLinked
<1>3. LenExact
  BY <1>1, FS_EmptySet DEF Init, LenExact
<1> QED
  BY <1>2, <1>3 DEF IInv

LEMMA QueuedFinite == IsFiniteSet(Queued)
BY QueueAssumption, FS_Subset DEF Queued

(* The links, without the counter.                                         *)
PointerType ==
    /\ head \in Blocks \cup {None}
    /\ tail \in Blocks \cup {None}
    /\ prevFree \in [Blocks -> Blocks \cup {None}]
    /\ nextFree \in [Blocks -> Blocks \cup {None}]

Links == PointerType /\ WellLinked

(* A push adds its block, and nothing else, to the queued blocks.          *)
LEMMA PushFrontStep ==
    ASSUME Links, NEW b \in Blocks, PushFront(b)
    PROVE  Links' /\ Queued' = Queued \cup {b} /\ b \notin Queued
<1> USE QueueAssumption DEF Links, PointerType, InQueue, PushFront
<1>1. PointerType'
  OBVIOUS
<1>2. Queued' = Queued \cup {b} /\ b \notin Queued
  BY DEF WellLinked, Queued
<1>3. WellLinked'
  BY <1>1, <1>2 DEF WellLinked, Queued
<1> QED
  BY <1>1, <1>2, <1>3

LEMMA PushBackStep ==
    ASSUME Links, NEW b \in Blocks, PushBack(b)
    PROVE  Links' /\ Queued' = Queued \cup {b} /\ b \notin Queued
<1> USE QueueAssumption DEF Links, PointerType, InQueue, PushBack
<1>1. PointerType'
  OBVIOUS
<1>2. Queued' = Queued \cup {b} /\ b \notin Queued
  BY DEF WellLinked, Queued
<1>3. WellLinked'
  BY <1>1, <1>2 DEF WellLinked, Queued
<1> QED
  BY <1>1, <1>2, <1>3

(* A pop or an unlink removes its block, and nothing else.                 *)
LEMMA UnlinkStep ==
    ASSUME Links, NEW b \in Blocks, Unlink(b)
    PROVE  Links' /\ Queued' = Queued \ {b} /\ b \in Queued
<1> USE QueueAssumption DEF Links, PointerType, InQueue, Unlink
<1>1. PointerType'
  OBVIOUS
<1>2. Queued' = Queued \ {b} /\ b \in Queued
  BY <1>1 DEF WellLinked, Queued
<1>3. WellLinked'
  BY <1>1, <1>2 DEF WellLinked, Queued
<1> QED
  BY <1>1, <1>2, <1>3

(* pop_front is remove applied to the head.                                *)
LEMMA PopIsUnlink ==
    ASSUME Links, PopFront
    PROVE  head \in Blocks /\ Unlink(head)
<1>1. head \in Blocks /\ prevFree[head] = None
  BY DEF Links, PointerType, WellLinked, PopFront
<1>2. nextFree[head] = None => tail = head
  BY <1>1 DEF Links, WellLinked, Queued, InQueue
<1>3. prevFree' = [c \in Blocks |-> IF c = head THEN None
                                   ELSE IF c = nextFree[head] THEN prevFree[head]
                                   ELSE prevFree[c]]
  BY <1>1 DEF PopFront
<1>4. nextFree' = [c \in Blocks |-> IF c = head THEN None
                                   ELSE IF c = prevFree[head] THEN nextFree[head]
                                   ELSE nextFree[c]]
  BY <1>1, QueueAssumption DEF PopFront, Links, PointerType
<1> QED
  BY <1>1, <1>2, <1>3, <1>4 DEF PopFront, Unlink, InQueue

(* Every step keeps the list well linked and the counter exact.            *)
LEMMA NextIInv == IInv /\ [Next]_vars => IInv'
<1> SUFFICES ASSUME IInv, [Next]_vars PROVE IInv'
  OBVIOUS
<1>1. Links /\ len = Cardinality(Queued) /\ IsFiniteSet(Queued)
  BY QueuedFinite DEF IInv, TypeOK, LenExact, Links, PointerType
<1>2. ASSUME NEW b \in Blocks, PushFront(b) \/ PushBack(b)
      PROVE  IInv'
  <2>1. Links' /\ Queued' = Queued \cup {b} /\ b \notin Queued /\ len' = len + 1
    BY <1>1, <1>2, PushFrontStep, PushBackStep DEF PushFront, PushBack
  <2>2. LenExact' /\ len' \in Nat
    BY <1>1, <2>1, FS_AddElement, FS_CardinalityType DEF LenExact
  <2> QED
    BY <2>1, <2>2 DEF IInv, TypeOK, Links, PointerType
<1>3. ASSUME NEW b \in Blocks, Unlink(b)
      PROVE  IInv'
  <2>1. Links' /\ Queued' = Queued \ {b} /\ b \in Queued /\ len' = len - 1
    BY <1>1, <1>3, UnlinkStep DEF Unlink
  <2>2. /\ IsFiniteSet(Queued \ {b})
        /\ Cardinality(Queued \ {b}) = Cardinality(Queued) - 1
    BY <1>1, <2>1, FS_RemoveElement
  <2>3. LenExact' /\ len' \in Nat
    BY <1>1, <2>1, <2>2, FS_CardinalityType DEF LenExact
  <2> QED
    BY <2>1, <2>3 DEF IInv, TypeOK, Links, PointerType
<1>4. CASE PopFront
  BY <1>1, <1>3, <1>4, PopIsUnlink
<1>5. CASE UNCHANGED vars
  BY <1>5 DEF IInv, TypeOK, WellLinked, LenExact, Queued, InQueue, vars
<1> QED
  BY <1>2, <1>3, <1>4, <1>5 DEF Next

(* The free queue is always a well-formed doubly linked list and its len   *)
(* field is the number of linked blocks (block_pool.rs:53-121).            *)
THEOREM QueueCorrect == Spec => [](TypeOK /\ WellLinked /\ LenExact)
<1>1. Init => IInv
  BY InitIInv
<1>2. IInv /\ [Next]_vars => IInv'
  BY NextIInv
<1>3. IInv => TypeOK /\ WellLinked /\ LenExact
  BY DEF IInv
<1> QED
  BY <1>1, <1>2, <1>3, PTL DEF Spec

-----------------------------------------------------------------------------
(* The list behind the pointers.  WellLinked alone admits a second, cyclic *)
(* chain beside the one the head starts; that every linked block lies on   *)
(* one finite list s is the invariant the refinement needs.                *)
Represents(s) ==
    /\ s \in Seq(Blocks)
    /\ len = Len(s)
    /\ IsInjective(s)
    /\ head = IF s = <<>> THEN None ELSE s[1]
    /\ tail = IF s = <<>> THEN None ELSE s[Len(s)]
    /\ \A i \in 1..Len(s) :
          /\ prevFree[s[i]] = IF i = 1 THEN None ELSE s[i - 1]
          /\ nextFree[s[i]] = IF i = Len(s) THEN None ELSE s[i + 1]
    /\ \A b \in Blocks : b \notin ToSet(s) => prevFree[b] = None /\ nextFree[b] = None

IsList == PointerType /\ \E s : Represents(s)

LEMMA RepresentsQueued ==
    ASSUME NEW s, Represents(s), NEW b \in Blocks
    PROVE  InQueue(b) <=> b \in ToSet(s)
<1>1. Len(s) \in Nat /\ DOMAIN s = 1..Len(s) /\ \A i \in 1..Len(s) : s[i] \in Blocks
  BY LenProperties DEF Represents
<1>2. ASSUME b \in ToSet(s) PROVE InQueue(b)
  <2>1. PICK i \in 1..Len(s) : s[i] = b
    BY <1>1, <1>2 DEF ToSet
  <2>2. CASE i = 1
    <3>1. s # <<>>
      BY <1>1, <2>1
    <3> QED
      BY <2>1, <2>2, <3>1 DEF Represents, InQueue
  <2>3. CASE i # 1
    <3>1. i - 1 \in 1..Len(s) /\ prevFree[b] = s[i - 1]
      BY <1>1, <2>1, <2>3 DEF Represents
    <3> QED
      BY <1>1, <3>1, QueueAssumption DEF InQueue
  <2> QED
    BY <2>2, <2>3
<1>3. ASSUME b \notin ToSet(s) PROVE ~InQueue(b)
  <2>1. prevFree[b] = None /\ nextFree[b] = None
    BY <1>3 DEF Represents
  <2>2. head # b
    <3>1. CASE s = <<>>
      BY <3>1, QueueAssumption DEF Represents
    <3>2. CASE s # <<>>
      <4>1. 1 \in DOMAIN s /\ head = s[1]
        BY <1>1, <3>2, EmptySeq DEF Represents
      <4> QED
        BY <1>3, <4>1 DEF ToSet
    <3> QED
      BY <3>1, <3>2
  <2> QED
    BY <2>1, <2>2 DEF InQueue
<1> QED
  BY <1>2, <1>3

(* The links nxt run along the list s, which first starts.                 *)
LinkedAlong(s, first, nxt) ==
    /\ s # <<>> => first = s[1]
    /\ \A i \in 1..Len(s) : nxt[s[i]] = IF i = Len(s) THEN None ELSE s[i + 1]

(* Following the links of a list visits exactly the list.                  *)
LEMMA FollowList ==
    ASSUME NEW s \in Seq(Blocks), NEW first, NEW nxt, LinkedAlong(s, first, nxt)
    PROVE  Follow(first, nxt, Len(s)) = s
<1> DEFINE n == Len(s)
           Rec(f) == f = [i \in 1..n |-> IF i = 1 THEN first ELSE nxt[f[i - 1]]]
           at == CHOOSE f : Rec(f)
<1>1. n \in Nat /\ s \in [1..n -> Blocks]
  BY LenProperties
<1>2. \A i \in 1..n : s[i] = IF i = 1 THEN first ELSE nxt[s[i - 1]]
  <2> SUFFICES ASSUME NEW i \in 1..n
               PROVE  s[i] = IF i = 1 THEN first ELSE nxt[s[i - 1]]
    OBVIOUS
  <2>1. CASE i = 1
    <3>1. s # <<>>
      BY <1>1
    <3> QED
      BY <2>1, <3>1 DEF LinkedAlong
  <2>2. CASE i # 1
    <3>1. i - 1 \in 1..n /\ i - 1 # n /\ (i - 1) + 1 = i
      BY <1>1, <2>2
    <3> QED
      BY <2>2, <3>1 DEF LinkedAlong
  <2> QED
    BY <2>1, <2>2
<1>3. Rec(s)
  BY <1>1, <1>2
<1>4. Rec(at)
  <2> HIDE DEF Rec
  <2> QED
    BY <1>3
<1>5. Follow(first, nxt, n) = at
  BY DEF Follow
<1> HIDE DEF at
<1>6. \A i \in 1..n : at[i] = s[i]
  <2> DEFINE T == {i \in 1..n : at[i] # s[i]}
  <2> SUFFICES ASSUME T # {} PROVE FALSE
    OBVIOUS
  <2>1. T \subseteq Nat
    BY <1>1
  <2>2. PICK k \in T : \A j \in T : k <= j
    <3> HIDE DEF T
    <3> QED
      BY <2>1, NatMinimum
  <2>3. k \in 1..n /\ at[k] = IF k = 1 THEN first ELSE nxt[at[k - 1]]
    BY <1>4, <2>2
  <2>4. k # 1
    BY <1>2, <2>2, <2>3
  <2>5. k - 1 \in 1..n /\ k - 1 \notin T
    BY <1>1, <2>2, <2>3, <2>4
  <2>6. at[k - 1] = s[k - 1]
    BY <2>5
  <2> QED
    BY <1>2, <2>2, <2>3, <2>4, <2>6
<1>7. at = s
  BY <1>1, <1>4, <1>6
<1> QED
  BY <1>5, <1>7

LEMMA RepresentsWalk ==
    ASSUME NEW s, Represents(s)
    PROVE  Walk = s
BY FollowList DEF Represents, LinkedAlong, Walk

LEMMA RepresentsWalkNext ==
    ASSUME NEW s, Represents(s)'
    PROVE  Walk' = s
BY FollowList DEF Represents, LinkedAlong, Walk

(* A push at the head puts its block in front of the list.                 *)
LEMMA PushFrontList ==
    ASSUME PointerType, NEW s, Represents(s), NEW b \in Blocks, PushFront(b)
    PROVE  b \notin ToSet(s) /\ Represents(<<b>> \o s)'
<1> DEFINE t == <<b>> \o s
           n == Len(s)
<1>1. n \in Nat /\ s \in [1..n -> Blocks] /\ DOMAIN s = 1..n /\ s \in Seq(Blocks)
  BY LenProperties DEF Represents
<1>2. b \notin ToSet(s) /\ ~InQueue(b)
  BY RepresentsQueued DEF PushFront
<1>a. IsInjective(s)
  BY DEF Represents
<1>3. t \in Seq(Blocks) /\ Len(t) = n + 1 /\ IsInjective(t) /\ ToSet(t) = ToSet(s) \cup {b}
  BY <1>1, <1>2, <1>a, PrependDistinct
<1>4. t[1] = b /\ \A k \in 1..n : t[k + 1] = s[k]
  BY <1>1, ConcatProperties
<1> HIDE DEF t
<1>5. t # <<>> /\ len' = Len(t)
  BY <1>1, <1>3 DEF PushFront, Represents
<1>6. s = <<>> <=> n = 0
  BY <1>1, EmptySeq
<1>7. \A i \in 1..n : s[i] # b
  BY <1>1, <1>2 DEF ToSet
<1>8. head = (IF n = 0 THEN None ELSE s[1]) /\ tail = (IF n = 0 THEN None ELSE s[n])
  BY <1>6 DEF Represents
<1>9. head' = t[1] /\ tail' = t[Len(t)]
  <2>1. CASE n = 0
    BY <1>3, <1>4, <1>8, <2>1 DEF PushFront
  <2>2. CASE n # 0
    <3>1. n \in 1..n /\ 1 \in 1..n
      BY <1>1, <2>2
    <3>2. head # None
      BY <1>1, <1>8, <2>2, <3>1, QueueAssumption
    <3> QED
      BY <1>3, <1>4, <1>8, <2>2, <3>1, <3>2 DEF PushFront
  <2> QED
    BY <2>1, <2>2
<1>10. ASSUME NEW i \in 1..Len(t)
       PROVE  /\ prevFree'[t[i]] = IF i = 1 THEN None ELSE t[i - 1]
              /\ nextFree'[t[i]] = IF i = Len(t) THEN None ELSE t[i + 1]
  <2>1. CASE i = 1
    <3>1. prevFree'[b] = None /\ nextFree'[b] = head
      BY DEF PushFront, PointerType
    <3>2. n # 0 => t[2] = s[1]
      BY <1>1, <1>4
    <3> QED
      BY <1>1, <1>3, <1>4, <1>8, <2>1, <3>1, <3>2
  <2>2. CASE i # 1
    <3> DEFINE k == i - 1
    <3>1. k \in 1..n /\ i = k + 1 /\ s[k] \in Blocks /\ t[i] = s[k] /\ s[k] # b /\ n # 0
      BY <1>1, <1>3, <1>4, <1>7, <2>2
    <3> HIDE DEF k
    <3>2. nextFree'[s[k]] = nextFree[s[k]]
      BY <3>1 DEF PushFront, PointerType
    <3>3. prevFree'[s[k]] = IF s[k] = s[1] THEN b ELSE prevFree[s[k]]
      BY <1>8, <3>1 DEF PushFront, PointerType
    <3>4. s[k] = s[1] <=> k = 1
      BY <1>1, <1>a, <3>1 DEF IsInjective
    <3>5. /\ prevFree[s[k]] = IF k = 1 THEN None ELSE s[k - 1]
          /\ nextFree[s[k]] = IF k = n THEN None ELSE s[k + 1]
      BY <3>1 DEF Represents
    <3>6. k # n => t[k + 2] = s[k + 1]
      <4>0. k \in Int /\ 1 <= k /\ k <= n
        BY <1>1, <3>1
      <4> HIDE DEF n
      <4>1. k # n => k + 1 \in 1..n /\ (k + 1) + 1 = k + 2
        BY <1>1, <4>0
      <4> QED
        BY <1>4, <4>1
    <3>7. k # 1 => t[k] = s[k - 1]
      <4>1. k # 1 => k - 1 \in 1..n /\ (k - 1) + 1 = k
        BY <1>1, <3>1
      <4> QED
        BY <1>4, <4>1
    <3>8. i - 1 = k /\ i + 1 = k + 2 /\ (i = Len(t) <=> k = n)
      <4>1. k \in Int /\ i = k + 1 /\ Len(t) = n + 1
        BY <1>3, <3>1
      <4> HIDE DEF n
      <4> QED
        BY <1>1, <4>1
    <3>9. prevFree'[t[i]] = IF i = 1 THEN None ELSE t[i - 1]
      BY <1>4, <2>2, <3>1, <3>3, <3>4, <3>5, <3>7, <3>8
    <3> QED
      BY <3>1, <3>2, <3>5, <3>6, <3>8, <3>9
  <2> QED
    BY <2>1, <2>2
<1>11. ASSUME NEW c \in Blocks, c \notin ToSet(t)
       PROVE  prevFree'[c] = None /\ nextFree'[c] = None
  <2>1. c # b /\ c \notin ToSet(s)
    BY <1>3, <1>11
  <2>2. c # head
    BY <2>1, RepresentsQueued DEF InQueue
  <2> QED
    BY <2>1, <2>2 DEF PushFront, PointerType, Represents
<1>12. Represents(t)'
  BY <1>3, <1>5, <1>9, <1>10, <1>11 DEF Represents
<1> QED
  BY <1>2, <1>12 DEF t

(* A push at the tail appends its block.                                   *)
LEMMA PushBackList ==
    ASSUME PointerType, NEW s, Represents(s), NEW b \in Blocks, PushBack(b)
    PROVE  b \notin ToSet(s) /\ Represents(Append(s, b))'
<1> DEFINE t == Append(s, b)
           n == Len(s)
<1>1. n \in Nat /\ s \in [1..n -> Blocks] /\ DOMAIN s = 1..n /\ s \in Seq(Blocks)
  BY LenProperties DEF Represents
<1>2. b \notin ToSet(s) /\ ~InQueue(b)
  BY RepresentsQueued DEF PushBack
<1>a. IsInjective(s)
  BY DEF Represents
<1>3. t \in Seq(Blocks) /\ Len(t) = n + 1 /\ t[n + 1] = b /\ \A k \in 1..n : t[k] = s[k]
  BY <1>1, AppendProperties
<1> HIDE DEF t
<1>b. DOMAIN t = 1..(n + 1)
  BY <1>1, <1>3
<1>4. \A i \in 1..n : s[i] # b
  BY <1>1, <1>2 DEF ToSet
<1>c. \A i \in 1..(n + 1) : i \in 1..n \/ i = n + 1
  BY <1>1
<1>5. IsInjective(t)
  BY <1>1, <1>3, <1>a, <1>b, <1>c, <1>4 DEF IsInjective
<1>6. ToSet(t) = ToSet(s) \cup {b}
  <2>1. \A i \in DOMAIN t : t[i] \in ToSet(s) \cup {b}
    BY <1>1, <1>3, <1>b, <1>c DEF ToSet
  <2>2. \A i \in DOMAIN s : i \in DOMAIN t /\ t[i] = s[i]
    BY <1>1, <1>3, <1>b
  <2>3. n + 1 \in DOMAIN t
    BY <1>1, <1>b
  <2> QED
    BY <1>3, <2>1, <2>2, <2>3 DEF ToSet
<1>7. t # <<>> /\ len' = Len(t)
  BY <1>1, <1>3 DEF PushBack, Represents
<1>8. head = (IF n = 0 THEN None ELSE s[1]) /\ tail = (IF n = 0 THEN None ELSE s[n])
  BY <1>1, EmptySeq DEF Represents
<1>9. head' = t[1] /\ tail' = t[Len(t)]
  <2>1. CASE n = 0
    BY <1>3, <1>8, <2>1 DEF PushBack
  <2>2. CASE n # 0
    <3>1. n \in 1..n /\ 1 \in 1..n
      BY <1>1, <2>2
    <3>2. tail # None
      BY <1>1, <1>8, <2>2, <3>1, QueueAssumption
    <3> QED
      BY <1>3, <1>8, <2>2, <3>1, <3>2 DEF PushBack
  <2> QED
    BY <2>1, <2>2
<1>10. ASSUME NEW i \in 1..Len(t)
       PROVE  /\ prevFree'[t[i]] = IF i = 1 THEN None ELSE t[i - 1]
              /\ nextFree'[t[i]] = IF i = Len(t) THEN None ELSE t[i + 1]
  <2>1. CASE i = n + 1
    <3>1. prevFree'[b] = tail /\ nextFree'[b] = None
      BY DEF PushBack, PointerType
    <3>2. n # 0 => n \in 1..n /\ t[n] = s[n]
      BY <1>1, <1>3
    <3>3. i - 1 = n /\ (i = 1 <=> n = 0) /\ i = Len(t) /\ t[i] = b
      BY <1>1, <1>3, <2>1
    <3> QED
      BY <1>8, <3>1, <3>2, <3>3
  <2>2. CASE i # n + 1
    <3>1. i \in 1..n /\ s[i] \in Blocks /\ t[i] = s[i] /\ s[i] # b /\ n # 0 /\ n \in 1..n
      BY <1>1, <1>3, <1>4, <2>2
    <3>2. prevFree'[s[i]] = prevFree[s[i]]
      BY <3>1 DEF PushBack, PointerType
    <3>3. nextFree'[s[i]] = IF s[i] = s[n] THEN b ELSE nextFree[s[i]]
      BY <1>8, <3>1 DEF PushBack, PointerType
    <3>4. s[i] = s[n] <=> i = n
      BY <1>1, <1>a, <3>1 DEF IsInjective
    <3>5. /\ prevFree[s[i]] = IF i = 1 THEN None ELSE s[i - 1]
          /\ nextFree[s[i]] = IF i = n THEN None ELSE s[i + 1]
      BY <3>1 DEF Represents
    <3>6. i # n => t[i + 1] = s[i + 1]
      <4> HIDE DEF n
      <4>1. i # n => i + 1 \in 1..n
        BY <1>1, <3>1
      <4> QED
        BY <1>3, <4>1
    <3>7. i # 1 => t[i - 1] = s[i - 1]
      BY <1>1, <1>3, <3>1
    <3>8. nextFree'[t[i]] = IF i = Len(t) THEN None ELSE t[i + 1]
      BY <1>3, <2>2, <3>1, <3>3, <3>4, <3>5, <3>6
    <3> QED
      BY <3>1, <3>2, <3>5, <3>7, <3>8
  <2> QED
    BY <2>1, <2>2
<1>11. ASSUME NEW c \in Blocks, c \notin ToSet(t)
       PROVE  prevFree'[c] = None /\ nextFree'[c] = None
  <2>1. c # b /\ c \notin ToSet(s)
    BY <1>6, <1>11
  <2>2. c # tail
    <3>1. n # 0 => n \in DOMAIN s
      BY <1>1
    <3> QED
      BY <1>8, <2>1, <3>1, QueueAssumption DEF ToSet
  <2> QED
    BY <2>1, <2>2 DEF PushBack, PointerType, Represents
<1>12. Represents(t)'
  BY <1>3, <1>5, <1>7, <1>9, <1>10, <1>11 DEF Represents
<1> QED
  BY <1>2, <1>12 DEF t

(* An unlink takes its block out of the list, whatever its position.       *)
LEMMA UnlinkList ==
    ASSUME PointerType, NEW s, Represents(s), NEW i \in 1..Len(s), Unlink(s[i])
    PROVE  Represents(RemoveAt(s, i))'
<1> DEFINE t == RemoveAt(s, i)
           n == Len(s)
           b == s[i]
<1>1. n \in Nat /\ s \in [1..n -> Blocks] /\ DOMAIN s = 1..n /\ s \in Seq(Blocks) /\ b \in Blocks
  BY LenProperties DEF Represents
<1>a. IsInjective(s)
  BY DEF Represents
<1>2. /\ t \in Seq(Blocks)
      /\ Len(t) = n - 1
      /\ \A k \in 1..(n - 1) : t[k] = IF k < i THEN s[k] ELSE s[k + 1]
  BY <1>1, RemoveAtProperties
<1>3. IsInjective(t) /\ ToSet(t) = ToSet(s) \ {b}
  BY <1>1, <1>a, RemoveAtDistinct
<1> HIDE DEF t
<1>4. t = <<>> <=> n = 1
  BY <1>1, <1>2, EmptySeq
<1>5. len' = Len(t)
  BY <1>2 DEF Unlink, Represents
<1>6. /\ prevFree[b] = IF i = 1 THEN None ELSE s[i - 1]
      /\ nextFree[b] = IF i = n THEN None ELSE s[i + 1]
  BY DEF Represents
<1>7. head = s[1] /\ tail = s[n]
  BY <1>1, EmptySeq DEF Represents
<1>b. \A k \in 1..n : s[k] \in Blocks /\ s[k] # None
  BY <1>1, QueueAssumption
<1>8. head' = IF t = <<>> THEN None ELSE t[1]
  <2>1. CASE i = 1
    <3>1. head' = nextFree[b]
      BY <1>6, <2>1 DEF Unlink
    <3>2. n # 1 => t[1] = s[2]
      BY <1>1, <1>2, <2>1
    <3> QED
      BY <1>4, <1>6, <2>1, <3>1, <3>2
  <2>2. CASE i # 1
    <3>1. i - 1 \in 1..n /\ n # 1 /\ t[1] = s[1]
      BY <1>1, <1>2, <2>2
    <3> QED
      BY <1>4, <1>6, <1>7, <1>b, <2>2, <3>1 DEF Unlink
  <2> QED
    BY <2>1, <2>2
<1>9. tail' = IF t = <<>> THEN None ELSE t[Len(t)]
  <2>1. CASE i = n
    <3>1. tail' = prevFree[b]
      BY <1>6, <2>1 DEF Unlink
    <3>2. n # 1 => t[n - 1] = s[n - 1]
      BY <1>1, <1>2, <2>1
    <3> QED
      BY <1>2, <1>4, <1>6, <2>1, <3>1, <3>2
  <2>2. CASE i # n
    <3>1. i + 1 \in 1..n /\ n # 1 /\ n - 1 \in 1..(n - 1) /\ ~(n - 1 < i) /\ (n - 1) + 1 = n
      BY <1>1, <2>2
    <3>2. t[n - 1] = s[n]
      BY <1>2, <3>1
    <3> QED
      BY <1>2, <1>4, <1>6, <1>7, <1>b, <2>2, <3>1, <3>2 DEF Unlink
  <2> QED
    BY <2>1, <2>2
<1>10. ASSUME NEW c \in Blocks, c # b
       PROVE  /\ prevFree'[c] = IF i # n /\ c = s[i + 1] THEN prevFree[b] ELSE prevFree[c]
              /\ nextFree'[c] = IF i # 1 /\ c = s[i - 1] THEN nextFree[b] ELSE nextFree[c]
  <2>1. c # None
    BY QueueAssumption
  <2> QED
    BY <1>6, <1>10, <2>1 DEF Unlink, PointerType
<1>11. ASSUME NEW k \in 1..n, k # i
       PROVE  /\ prevFree'[s[k]] = IF k = 1 THEN None
                                  ELSE IF k = i + 1 THEN prevFree[b] ELSE s[k - 1]
              /\ nextFree'[s[k]] = IF k = n THEN None
                                  ELSE IF k = i - 1 THEN nextFree[b] ELSE s[k + 1]
  <2>1. s[k] # b /\ s[k] \in Blocks
    BY <1>1, <1>a, <1>11 DEF IsInjective
  <2>2. i # n => (s[k] = s[i + 1] <=> k = i + 1)
    <3>1. i # n => i + 1 \in DOMAIN s
      BY <1>1
    <3> QED
      BY <1>1, <1>a, <3>1 DEF IsInjective
  <2>3. i # 1 => (s[k] = s[i - 1] <=> k = i - 1)
    <3>1. i # 1 => i - 1 \in DOMAIN s
      BY <1>1
    <3> QED
      BY <1>1, <1>a, <3>1 DEF IsInjective
  <2>4. /\ prevFree[s[k]] = IF k = 1 THEN None ELSE s[k - 1]
        /\ nextFree[s[k]] = IF k = n THEN None ELSE s[k + 1]
    BY DEF Represents
  <2>5. prevFree'[s[k]] = IF k = i + 1 THEN prevFree[b] ELSE prevFree[s[k]]
    <3>1. i = n => k # i + 1
      BY <1>1
    <3> QED
      BY <1>10, <2>1, <2>2, <3>1
  <2>6. nextFree'[s[k]] = IF k = i - 1 THEN nextFree[b] ELSE nextFree[s[k]]
    <3>1. i = 1 => k # i - 1
      BY <1>1
    <3> QED
      BY <1>10, <2>1, <2>3, <3>1
  <2>7. k = i + 1 => k # 1
    BY <1>1
  <2>8. k = i - 1 => k # n
    BY <1>1
  <2> QED
    BY <2>4, <2>5, <2>6, <2>7, <2>8
<1>12. ASSUME NEW j \in 1..Len(t)
       PROVE  /\ prevFree'[t[j]] = IF j = 1 THEN None ELSE t[j - 1]
              /\ nextFree'[t[j]] = IF j = Len(t) THEN None ELSE t[j + 1]
  <2>0. j \in 1..(n - 1) /\ j \in Int /\ i \in Int /\ n \in Int
    BY <1>1, <1>2
  <2>1. CASE j < i
    <3>1. t[j] = s[j] /\ j \in 1..n /\ j # i /\ j # n /\ j # i + 1
      BY <1>2, <2>0, <2>1
    <3>2. j # 1 => t[j - 1] = s[j - 1]
      BY <1>2, <2>0, <2>1
    <3>3. prevFree'[t[j]] = IF j = 1 THEN None ELSE t[j - 1]
      BY <1>11, <3>1, <3>2
    <3>4. CASE j = i - 1
      <4>1. nextFree'[t[j]] = IF i = n THEN None ELSE s[i + 1]
        BY <1>6, <1>11, <3>1, <3>4
      <4>a. i # n => i \in 1..(n - 1) /\ ~(i < i)
        BY <2>0
      <4>2. i # n => t[i] = s[i + 1]
        BY <1>2, <4>a
      <4>3. j + 1 = i /\ (i = n <=> j = Len(t))
        BY <1>2, <2>0, <3>4
      <4> QED
        BY <3>3, <4>1, <4>2, <4>3
    <3>5. CASE j # i - 1
      <4>1. j + 1 \in 1..(n - 1) /\ j + 1 < i /\ j # Len(t)
        BY <1>2, <2>0, <2>1, <3>5
      <4>2. t[j + 1] = s[j + 1]
        BY <1>2, <4>1
      <4> QED
        BY <1>11, <3>1, <3>3, <3>5, <4>1, <4>2
    <3> QED
      BY <3>4, <3>5
  <2>2. CASE j >= i
    <3> DEFINE k == j + 1
    <3>1. t[j] = s[k] /\ k \in 1..n /\ k # i /\ k # 1 /\ k # i - 1 /\ (k = i + 1 <=> j = i)
      BY <1>2, <2>0, <2>2
    <3>2. (k = n <=> j = Len(t)) /\ k - 1 = j
      BY <1>2, <2>0
    <3>3. j # Len(t) => j + 1 \in 1..(n - 1) /\ ~(j + 1 < i) /\ (j + 1) + 1 = k + 1
      BY <1>2, <2>0, <2>2
    <3>4. j # Len(t) => t[j + 1] = s[k + 1]
      BY <1>2, <3>3
    <3> HIDE DEF k
    <3>5. nextFree'[t[j]] = IF j = Len(t) THEN None ELSE t[j + 1]
      BY <1>11, <3>1, <3>2, <3>4
    <3>6. CASE j = i
      <4>1. prevFree'[t[j]] = IF i = 1 THEN None ELSE s[i - 1]
        BY <1>6, <1>11, <3>1, <3>6
      <4>2. i # 1 => i - 1 \in 1..(n - 1) /\ i - 1 < i
        BY <2>0, <3>6
      <4>3. i # 1 => t[i - 1] = s[i - 1]
        BY <1>2, <4>2
      <4> QED
        BY <3>5, <3>6, <4>1, <4>3
    <3>7. CASE j # i
      <4>1. prevFree'[t[j]] = s[j]
        BY <1>11, <3>1, <3>2, <3>7
      <4>2. j # 1 /\ j - 1 \in 1..(n - 1) /\ ~(j - 1 < i) /\ (j - 1) + 1 = j
        BY <2>0, <2>2, <3>7
      <4>3. t[j - 1] = s[j]
        BY <1>2, <4>2
      <4> QED
        BY <3>5, <4>1, <4>2, <4>3
    <3> QED
      BY <3>6, <3>7
  <2> QED
    BY <2>0, <2>1, <2>2
<1>13. ASSUME NEW c \in Blocks, c \notin ToSet(t)
       PROVE  prevFree'[c] = None /\ nextFree'[c] = None
  <2>1. CASE c = b
    BY <1>1, <2>1 DEF Unlink, PointerType
  <2>2. CASE c # b
    <3>1. c \notin ToSet(s)
      BY <1>3, <1>13, <2>2
    <3>2. i # n => s[i + 1] \in ToSet(s)
      BY <1>1 DEF ToSet
    <3>3. i # 1 => s[i - 1] \in ToSet(s)
      BY <1>1 DEF ToSet
    <3>4. prevFree[c] = None /\ nextFree[c] = None
      BY <3>1 DEF Represents
    <3> QED
      BY <1>10, <2>2, <3>1, <3>2, <3>3, <3>4
  <2> QED
    BY <2>1, <2>2
<1>14. Represents(t)'
  BY <1>2, <1>3, <1>5, <1>8, <1>9, <1>12, <1>13 DEF Represents
<1> QED
  BY <1>14 DEF t

(* pop_front takes the first block, which is remove at the first place.    *)
LEMMA PopList ==
    ASSUME PointerType, NEW s, Represents(s), PopFront
    PROVE  s # <<>> /\ Represents(Tail(s))'
<1> DEFINE n == Len(s)
<1>1. n \in Nat /\ s \in [1..n -> Blocks] /\ s \in Seq(Blocks)
  BY LenProperties DEF Represents
<1>2. s # <<>> /\ head = s[1]
  BY DEF Represents, PopFront
<1>3. 1 \in 1..n /\ n \in 1..n
  BY <1>1, <1>2, EmptySeq
<1>4. head \in Blocks /\ prevFree[head] = None
  BY <1>1, <1>2, <1>3 DEF Represents
<1>5. nextFree[head] = (IF 1 = n THEN None ELSE s[2]) /\ tail = s[n]
  BY <1>2, <1>3 DEF Represents
<1>6. Unlink(head)
  <2>1. nextFree[head] = None => n = 1
    BY <1>1, <1>3, <1>5, QueueAssumption
  <2>2. prevFree' = [c \in Blocks |-> IF c = head THEN None
                                     ELSE IF c = nextFree[head] THEN prevFree[head]
                                     ELSE prevFree[c]]
    BY <1>4 DEF PopFront
  <2>3. nextFree' = [c \in Blocks |-> IF c = head THEN None
                                     ELSE IF c = prevFree[head] THEN nextFree[head]
                                     ELSE nextFree[c]]
    BY <1>4, QueueAssumption DEF PopFront, PointerType
  <2>4. tail' = IF nextFree[head] = None THEN prevFree[head] ELSE tail
    BY <1>4 DEF PopFront
  <2> QED
    BY <1>4, <2>2, <2>3, <2>4 DEF PopFront, Unlink, InQueue
<1>7. Represents(RemoveAt(s, 1))'
  BY <1>2, <1>3, <1>6, UnlinkList
<1>8. RemoveAt(s, 1) = Tail(s)
  <2> DEFINE t == RemoveAt(s, 1)
             u == Tail(s)
  <2>1. t \in Seq(Blocks) /\ Len(t) = n - 1 /\ \A k \in 1..(n - 1) : t[k] = IF k < 1 THEN s[k] ELSE s[k + 1]
    BY <1>1, <1>3, RemoveAtProperties
  <2>2. u \in Seq(Blocks) /\ Len(u) = n - 1 /\ \A k \in 1..(n - 1) : u[k] = s[k + 1]
    BY <1>1, <1>2, HeadTailProperties
  <2> HIDE DEF t, u
  <2>3. \A k \in 1..Len(t) : t[k] = u[k]
    BY <1>1, <2>1, <2>2
  <2>4. t = u
    BY <2>1, <2>2, <2>3, SeqEqual
  <2> QED
    BY <2>4 DEF t, u
<1> QED
  BY <1>2, <1>7, <1>8

LEMMA InitIsList == Init => IsList /\ Abstract!Init
<1> SUFFICES ASSUME Init PROVE IsList /\ Abstract!Init
  OBVIOUS
<1>1. PointerType
  BY DEF Init, PointerType
<1>2. Represents(<<>>)
  <2>1. <<>> \in Seq(Blocks) /\ Len(<<>>) = 0 /\ IsInjective(<<>>)
    BY DEF IsInjective
  <2> QED
    BY <2>1 DEF Represents, Init
<1>3. Walk = <<>>
  BY <1>2, RepresentsWalk
<1> QED
  BY <1>1, <1>2, <1>3 DEF IsList, Abstract!Init

(* Every step leaves a list behind, and has on it the effect of its name.  *)
LEMMA NextIsList ==
    ASSUME IsList, [Next]_vars
    PROVE  /\ IsList'
           /\ [Abstract!Next]_Walk
           /\ ActsOnWalk \/ UNCHANGED vars
<1>1. PICK s : Represents(s)
  BY DEF IsList
<1>2. PointerType /\ Walk = s
  BY <1>1, RepresentsWalk DEF IsList
<1>3. \A b \in Blocks : InQueue(b) <=> b \in ToSet(s)
  BY <1>1, RepresentsQueued
<1>4. PointerType'
  <2> USE QueueAssumption DEF PointerType
  <2>1. ASSUME NEW b \in Blocks, PushFront(b) PROVE PointerType'
    BY <1>2, <2>1 DEF PushFront
  <2>2. ASSUME NEW b \in Blocks, PushBack(b) PROVE PointerType'
    BY <1>2, <2>2 DEF PushBack
  <2>3. CASE PopFront
    BY <1>2, <2>3 DEF PopFront
  <2>4. ASSUME NEW b \in Blocks, Unlink(b) PROVE PointerType'
    BY <1>2, <2>4 DEF Unlink
  <2>5. CASE UNCHANGED vars
    BY <1>2, <2>5 DEF vars
  <2> QED
    BY <2>1, <2>2, <2>3, <2>4, <2>5 DEF Next
<1>5. ASSUME NEW b \in Blocks, PushFront(b)
      PROVE  Abstract!PushFront(b) /\ \E t : Represents(t)'
  <2>1. b \notin ToSet(s) /\ Represents(<<b>> \o s)'
    BY <1>1, <1>2, <1>5, PushFrontList
  <2>2. Walk' = <<b>> \o s
    BY <2>1, RepresentsWalkNext
  <2> QED
    BY <1>2, <2>1, <2>2 DEF Abstract!PushFront, Abstract!ToSet, ToSet
<1>6. ASSUME NEW b \in Blocks, PushBack(b)
      PROVE  Abstract!PushBack(b) /\ \E t : Represents(t)'
  <2>1. b \notin ToSet(s) /\ Represents(Append(s, b))'
    BY <1>1, <1>2, <1>6, PushBackList
  <2>2. Walk' = Append(s, b)
    BY <2>1, RepresentsWalkNext
  <2> QED
    BY <1>2, <2>1, <2>2 DEF Abstract!PushBack, Abstract!ToSet, ToSet
<1>7. ASSUME PopFront
      PROVE  Abstract!PopFront /\ \E t : Represents(t)'
  <2>1. s # <<>> /\ Represents(Tail(s))'
    BY <1>1, <1>2, <1>7, PopList
  <2>2. Walk' = Tail(s)
    BY <2>1, RepresentsWalkNext
  <2> QED
    BY <1>2, <2>1, <2>2 DEF Abstract!PopFront
<1>8. ASSUME NEW b \in Blocks, Unlink(b)
      PROVE  Abstract!Unlink(b) /\ \E t : Represents(t)'
  <2>1. b \in ToSet(s) /\ s \in Seq(Blocks)
    BY <1>1, <1>3, <1>8 DEF Unlink, Represents
  <2>2. PICK i \in 1..Len(s) : s[i] = b
    BY <2>1 DEF ToSet
  <2>3. Represents(RemoveAt(s, i))'
    BY <1>1, <1>2, <1>8, <2>2, UnlinkList
  <2>4. Walk' = RemoveAt(s, i) /\ i \in DOMAIN s
    BY <2>1, <2>2, <2>3, RepresentsWalkNext
  <2>5. Abstract!RemoveAt(s, i) = RemoveAt(s, i)
    BY DEF RemoveAt, Abstract!RemoveAt
  <2> QED
    BY <1>2, <2>2, <2>3, <2>4, <2>5 DEF Abstract!Unlink
<1>9. CASE UNCHANGED vars
  <2>1. Represents(s)'
    BY <1>1, <1>9 DEF Represents, vars
  <2>2. Walk' = s
    BY <2>1, RepresentsWalkNext
  <2> QED
    BY <1>2, <1>4, <1>9, <2>1, <2>2 DEF IsList
<1>10. CASE Next
  <2>1. \E t : Represents(t)'
    BY <1>5, <1>6, <1>7, <1>8, <1>10 DEF Next
  <2>2. Abstract!Next
    BY <1>5, <1>6, <1>7, <1>8, <1>10 DEF Next, Abstract!Next
  <2>3. ActsOnWalk
    BY <1>5, <1>6, <1>7, <1>8 DEF ActsOnWalk
  <2> QED
    BY <1>4, <2>1, <2>2, <2>3 DEF IsList
<1> QED
  BY <1>9, <1>10

(* The pointer structure implements the ordered list of distinct blocks:   *)
(* every push, pop and removal along the links does to the walked list     *)
(* what its name says, for any set of blocks (block_pool.rs:53-121).       *)
THEOREM QueueIsList == Spec => ImplementsList
<1>1. Init => IsList /\ Abstract!Init
  BY InitIsList
<1>2. IsList /\ [Next]_vars => IsList' /\ [Abstract!Next]_Walk /\ [ActsOnWalk]_vars
  BY NextIsList
<1> QED
  BY <1>1, <1>2, PTL DEF Spec, ImplementsList, Abstract!Spec

=============================================================================
