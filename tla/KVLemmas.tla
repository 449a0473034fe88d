------------------------------ MODULE KVLemmas ------------------------------
(***************************************************************************)
(* Lemmas about the cache's operations, for pools, tables and prompts of   *)
(* any size.                                                               *)
(*                                                                         *)
(* First the pool (PoolOps): every operation keeps the free list and the   *)
(* active count exact (PoolOK).  hash_map is left opaque: which block an   *)
(* operation takes or releases never depends on the order of its lists.    *)
(*                                                                         *)
(* Then the manager (KVOps): what each operation does to the pool and to   *)
(* the block tables, and that each keeps the manager consistent (KVOK).    *)
(* An operation makes one call of the pool per block; the lemmas on runs   *)
(* of calls describe their result by induction on the length (a least      *)
(* counterexample).                                                        *)
(***************************************************************************)
EXTENDS KVOps, SeqLemmas, FiniteSetTheorems

-----------------------------------------------------------------------------
(* Without keeps exactly the other elements.                               *)

LEMMA KeptFinite ==
    ASSUME NEW S, NEW s \in Seq(S), NEW b, NEW i
    PROVE  /\ Kept(s, b) \subseteq 1..Len(s)
           /\ IsFiniteSet(Kept(s, b))
           /\ Cardinality(Kept(s, b)) \in Nat
           /\ KeptUpTo(s, b, i) \subseteq Kept(s, b)
           /\ IsFiniteSet(KeptUpTo(s, b, i))
           /\ Cardinality(KeptUpTo(s, b, i)) \in Nat
           /\ Cardinality(KeptUpTo(s, b, i)) <= Cardinality(Kept(s, b))
<1>1. Kept(s, b) \subseteq 1..Len(s) /\ Len(s) \in Nat
  BY DEF Kept
<1>2. IsFiniteSet(1..Len(s))
  BY <1>1, FS_Interval
<1>3. IsFiniteSet(Kept(s, b))
  BY <1>1, <1>2, FS_Subset
<1>4. KeptUpTo(s, b, i) \subseteq Kept(s, b)
  BY DEF KeptUpTo
<1>5. IsFiniteSet(KeptUpTo(s, b, i))
      /\ Cardinality(KeptUpTo(s, b, i)) <= Cardinality(Kept(s, b))
  BY <1>3, <1>4, FS_Subset
<1> QED
  BY <1>1, <1>3, <1>4, <1>5, FS_CardinalityType

LEMMA KthKeptExists ==
    ASSUME NEW S, NEW s \in Seq(S), NEW b,
           NEW k \in 1..Cardinality(Kept(s, b))
    PROVE  \E i \in Kept(s, b) : Cardinality(KeptUpTo(s, b, i)) = k
<1> DEFINE K == Kept(s, b)
           upTo(i) == Cardinality(KeptUpTo(s, b, i))
           T == {i \in 0..Len(s) : upTo(i) >= k}
<1>1. K \subseteq 1..Len(s) /\ Len(s) \in Nat /\ Cardinality(K) \in Nat
  BY KeptFinite
<1>2. KeptUpTo(s, b, Len(s)) = K
  BY <1>1 DEF KeptUpTo
<1>3. Len(s) \in T
  BY <1>1, <1>2
<1>a. T \subseteq Nat /\ T # {}
  BY <1>1, <1>3
<1>4. PICK i \in T : \A j \in T : i <= j
  <2> HIDE DEF T
  <2> QED
    BY <1>a, NatMinimum
<1>5. KeptUpTo(s, b, 0) = {}
  BY <1>1 DEF KeptUpTo
<1>6. i # 0
  <2>1. upTo(0) = 0
    BY <1>5, FS_EmptySet
  <2> QED
    BY <1>1, <1>4, <2>1
<1>7. i - 1 \in 0..Len(s) /\ i \in 1..Len(s)
  BY <1>1, <1>4, <1>6
<1>8. upTo(i - 1) < k /\ upTo(i - 1) \in Nat /\ upTo(i) >= k /\ upTo(i) \in Nat
  BY <1>4, <1>7, KeptFinite
<1>9. CASE i \in K
  <2>1. KeptUpTo(s, b, i) = KeptUpTo(s, b, i - 1) \cup {i}
        /\ i \notin KeptUpTo(s, b, i - 1)
    BY <1>1, <1>7, <1>9 DEF KeptUpTo
  <2>2. upTo(i) = upTo(i - 1) + 1
    BY <2>1, KeptFinite, FS_AddElement
  <2> QED
    BY <1>8, <1>9, <2>2
<1>10. CASE i \notin K
  <2>1. KeptUpTo(s, b, i) = KeptUpTo(s, b, i - 1)
    BY <1>1, <1>7, <1>10 DEF KeptUpTo
  <2> QED
    BY <1>8, <2>1
<1> QED
  BY <1>9, <1>10

LEMMA KeptRankInjective ==
    ASSUME NEW S, NEW s \in Seq(S), NEW b, NEW i \in Kept(s, b), NEW j \in Kept(s, b),
           Cardinality(KeptUpTo(s, b, i)) = Cardinality(KeptUpTo(s, b, j))
    PROVE  i = j
<1>1. i \in Int /\ j \in Int
  BY KeptFinite
<1>2. ASSUME NEW x \in Kept(s, b), NEW y \in Kept(s, b), x \in Int, y \in Int, x < y,
             Cardinality(KeptUpTo(s, b, x)) = Cardinality(KeptUpTo(s, b, y))
      PROVE  FALSE
  <2>1. KeptUpTo(s, b, x) \subseteq KeptUpTo(s, b, y)
    <3> SUFFICES ASSUME NEW z \in KeptUpTo(s, b, x) PROVE z \in KeptUpTo(s, b, y)
      OBVIOUS
    <3>0. z <= x /\ z \in Kept(s, b)
      BY DEF KeptUpTo
    <3>1. z \in Int /\ z <= x /\ z \in Kept(s, b)
      BY <3>0, KeptFinite
    <3> QED
      BY <1>2, <3>1 DEF KeptUpTo
  <2>2. KeptUpTo(s, b, x) = KeptUpTo(s, b, y)
    BY <1>2, <2>1, KeptFinite, FS_Subset
  <2>3. y \in KeptUpTo(s, b, y) /\ y \notin KeptUpTo(s, b, x)
    BY <1>2 DEF KeptUpTo
  <2> QED
    BY <2>2, <2>3
<1> QED
  BY <1>1, <1>2

LEMMA WithoutProperties ==
    ASSUME NEW S, NEW s \in Seq(S), NEW b
    PROVE  Without(s, b) \in Seq(S) /\ ToSet(Without(s, b)) = ToSet(s) \ {b}
<1> DEFINE n == Cardinality(Kept(s, b))
           at(k) == CHOOSE i \in Kept(s, b) : Cardinality(KeptUpTo(s, b, i)) = k
           w == Without(s, b)
<1>1. n \in Nat /\ Kept(s, b) \subseteq DOMAIN s
  BY KeptFinite DEF Kept
<1>2. \A k \in 1..n : at(k) \in Kept(s, b) /\ Cardinality(KeptUpTo(s, b, at(k))) = k
  BY KthKeptExists
<1>3. w = [k \in 1..n |-> s[at(k)]]
  BY DEF Without
<1> HIDE DEF at, n, w
<1>4. \A k \in 1..n : s[at(k)] \in ToSet(s) \ {b} /\ s[at(k)] \in S
  <2> TAKE k \in 1..n
  <2>1. at(k) \in DOMAIN s /\ s[at(k)] # b
    BY <1>2 DEF Kept
  <2>2. s[at(k)] \in S
    BY <2>1, ElementOfSeq
  <2> QED
    BY <2>1, <2>2 DEF ToSet
<1>5. w \in Seq(S)
  BY <1>1, <1>3, <1>4, IsASeq
<1>6. ASSUME NEW i \in DOMAIN s, s[i] # b
      PROVE  \E k \in 1..n : s[at(k)] = s[i]
  <2> DEFINE k == Cardinality(KeptUpTo(s, b, i))
  <2>1. i \in Kept(s, b) /\ i \in Int
    BY <1>6, KeptFinite DEF Kept
  <2>2. i \in KeptUpTo(s, b, i)
    BY <2>1 DEF KeptUpTo
  <2>3. k \in 1..n
    <3>1. k \in Nat /\ k <= n /\ n \in Nat
      BY KeptFinite DEF n
    <3>2. k # 0
      BY <2>2, KeptFinite, FS_EmptySet
    <3> QED
      BY <3>1, <3>2
  <2>4. at(k) = i
    BY <1>2, <2>1, <2>3, KeptRankInjective
  <2> QED
    BY <2>3, <2>4
<1>7. ToSet(w) = {s[at(k)] : k \in 1..n}
  BY <1>3 DEF ToSet
<1>8. ToSet(w) = ToSet(s) \ {b}
  <2>1. ToSet(w) \subseteq ToSet(s) \ {b}
    BY <1>4, <1>7
  <2>2. ToSet(s) \ {b} \subseteq ToSet(w)
    BY <1>6, <1>7 DEF ToSet
  <2> QED
    BY <2>1, <2>2
<1> QED
  BY <1>5, <1>8 DEF w

(* Without keeps the order of what it keeps.                               *)
LEMMA WithoutOrder ==
    ASSUME NEW S, NEW s \in Seq(S), NEW b
    PROVE  /\ Len(Without(s, b)) \in Nat /\ Len(Without(s, b)) <= Len(s)
           /\ \E at \in [1..Len(Without(s, b)) -> 1..Len(s)] :
                /\ \A k \in 1..Len(Without(s, b)) : Without(s, b)[k] = s[at[k]]
                /\ \A k, l \in 1..Len(Without(s, b)) : k < l => at[k] < at[l]
<1> DEFINE n == Cardinality(Kept(s, b))
           at(k) == CHOOSE i \in Kept(s, b) : Cardinality(KeptUpTo(s, b, i)) = k
           w == Without(s, b)
           f == [k \in 1..n |-> at(k)]
<1>1. n \in Nat /\ Kept(s, b) \subseteq 1..Len(s) /\ Len(s) \in Nat
  BY KeptFinite
<1>2. \A k \in 1..n : at(k) \in Kept(s, b) /\ Cardinality(KeptUpTo(s, b, at(k))) = k
  BY KthKeptExists
<1>3. w = [k \in 1..n |-> s[at(k)]]
  BY DEF Without
<1>4. w \in Seq(S)
  BY WithoutProperties
<1> HIDE DEF at, n, w
<1>5. Len(w) = n
  BY <1>1, <1>3, <1>4
<1>6. n <= Len(s)
  <2>1. IsFiniteSet(1..Len(s)) /\ Cardinality(1..Len(s)) = Len(s)
    <3> DEFINE m == Len(s)
    <3>1. m \in Nat
      BY <1>1
    <3> HIDE DEF m
    <3>2. Cardinality(1..m) = m
      <4>1. Cardinality(1..m) = IF 1 <= m THEN (m - 1) + 1 ELSE 0
        BY <3>1, FS_Interval
      <4> QED
        BY <3>1, <4>1
    <3>3. IsFiniteSet(1..m)
      BY <3>1, FS_Interval
    <3> QED
      BY <3>2, <3>3 DEF m
  <2> QED
    BY <1>1, <2>1, FS_Subset DEF n
<1>7. ASSUME NEW k \in 1..n, NEW l \in 1..n, k < l PROVE at(k) < at(l)
  <2> SUFFICES ASSUME at(l) <= at(k) PROVE FALSE
    BY <1>1, <1>2
  <2>1. KeptUpTo(s, b, at(l)) \subseteq KeptUpTo(s, b, at(k))
    <3> SUFFICES ASSUME NEW z \in KeptUpTo(s, b, at(l)) PROVE z \in KeptUpTo(s, b, at(k))
      OBVIOUS
    <3>1. z \in Kept(s, b) /\ z <= at(l)
      BY DEF KeptUpTo
    <3>2. z \in Int /\ at(l) \in Int /\ at(k) \in Int
      BY <1>1, <1>2, <3>1
    <3> QED
      BY <3>1, <3>2 DEF KeptUpTo
  <2>2. Cardinality(KeptUpTo(s, b, at(l))) <= Cardinality(KeptUpTo(s, b, at(k)))
    BY <2>1, KeptFinite, FS_Subset
  <2> QED
    BY <1>1, <1>2, <1>7, <2>2
<1>8. /\ f \in [1..n -> 1..Len(s)]
      /\ \A k \in 1..n : w[k] = s[f[k]]
      /\ \A k, l \in 1..n : k < l => f[k] < f[l]
  BY <1>1, <1>2, <1>3, <1>7
<1> HIDE DEF f
<1> QED
  BY <1>1, <1>5, <1>6, <1>8 DEF w

LEMMA WithoutDistinct ==
    ASSUME NEW S, NEW s \in Seq(S), NEW b, IsInjective(s)
    PROVE  /\ Without(s, b) \in Seq(S)
           /\ IsInjective(Without(s, b))
           /\ ToSet(Without(s, b)) = ToSet(s) \ {b}
           /\ Len(Without(s, b)) <= Len(s)
<1> DEFINE w == Without(s, b)
<1>1. w \in Seq(S) /\ ToSet(w) = ToSet(s) \ {b}
  BY WithoutProperties
<1>2. Len(w) \in Nat /\ Len(w) <= Len(s)
  BY WithoutOrder
<1>3. PICK at \in [1..Len(w) -> 1..Len(s)] :
         /\ \A k \in 1..Len(w) : w[k] = s[at[k]]
         /\ \A k, l \in 1..Len(w) : k < l => at[k] < at[l]
  BY WithoutOrder
<1> HIDE DEF w
<1>4. IsInjective(w)
  <2> SUFFICES ASSUME NEW k \in 1..Len(w), NEW l \in 1..Len(w), w[k] = w[l]
               PROVE  k = l
    BY <1>1 DEF IsInjective
  <2>1. at[k] \in 1..Len(s) /\ at[l] \in 1..Len(s) /\ s[at[k]] = s[at[l]]
    BY <1>3
  <2>2. at[k] = at[l]
    BY <2>1 DEF IsInjective
  <2> QED
    BY <1>2, <1>3, <2>1, <2>2
<1> QED
  BY <1>1, <1>2, <1>4 DEF w

-----------------------------------------------------------------------------
(* The three ways an operation changes the reference counts: a free block  *)
(* gets its first reference, a block loses its last one, or a referenced   *)
(* block stays referenced.                                                 *)

LEMMA ActiveFinite ==
    ASSUME NEW p
    PROVE  IsFiniteSet(Active(p)) /\ Cardinality(Active(p)) \in Nat
<1>1. IsFiniteSet(Blocks)
  BY PoolAssumption, FS_Interval DEF Blocks
<1>2. IsFiniteSet(Active(p))
  BY <1>1, FS_Subset DEF Active
<1> QED
  BY <1>2, FS_CardinalityType

LEMMA TakeFirst ==
    ASSUME NEW p \in Pool, FreeListExactOf(p), ActiveExactOf(p),
           NEW i \in 1..Len(p.freeQueue), NEW q \in Pool,
           q.refCount = [p.refCount EXCEPT ![p.freeQueue[i]] = 1],
           q.freeQueue = RemoveAt(p.freeQueue, i),
           q.numActive = p.numActive + 1
    PROVE  FreeListExactOf(q) /\ ActiveExactOf(q)
<1> DEFINE b == p.freeQueue[i]
<1>1. p.freeQueue \in Seq(Usable) /\ p.refCount \in [Blocks -> Nat]
  BY DEF Pool
<1>2. b \in Usable /\ b \in Blocks /\ b # Null
  BY <1>1, PoolAssumption DEF Usable, Blocks, Null
<1>3. p.refCount[b] = 0
  BY <1>1, <1>2 DEF FreeListExactOf, ToSet
<1>4. /\ IsInjective(q.freeQueue)
      /\ ToSet(q.freeQueue) = ToSet(p.freeQueue) \ {b}
      /\ Len(q.freeQueue) = Len(p.freeQueue) - 1
      /\ Len(p.freeQueue) \in Nat
  BY <1>1, RemoveAtDistinct, RemoveAtProperties DEF FreeListExactOf
<1>5. FreeListExactOf(q)
  <2>1. \A c \in Blocks : q.refCount[c] = IF c = b THEN 1 ELSE p.refCount[c]
    BY <1>1, <1>2
  <2>2. Usable \subseteq Blocks /\ Null \in Blocks
    BY PoolAssumption DEF Usable, Blocks, Null
  <2>3. ToSet(q.freeQueue) = {c \in Usable : q.refCount[c] = 0}
    BY <1>2, <1>4, <2>1, <2>2 DEF FreeListExactOf
  <2> QED
    BY <1>2, <1>4, <2>1, <2>2, <2>3 DEF FreeListExactOf
<1>6. Active(q) = Active(p) \cup {b} /\ b \notin Active(p)
  BY <1>1, <1>2, <1>3 DEF Active
<1>7. Cardinality(Active(q)) = Cardinality(Active(p)) + 1
  BY <1>6, ActiveFinite, FS_AddElement
<1>8. p.numActive \in Int
  BY DEF Pool
<1> QED
  BY <1>4, <1>5, <1>7, <1>8, ActiveFinite, PoolAssumption DEF ActiveExactOf

LEMMA DropLast ==
    ASSUME NEW p \in Pool, FreeListExactOf(p), ActiveExactOf(p),
           NEW b \in Usable, p.refCount[b] > 0, NEW q \in Pool,
           q.refCount = [p.refCount EXCEPT ![b] = 0],
           q.freeQueue = <<b>> \o p.freeQueue,
           q.numActive = p.numActive - 1
    PROVE  FreeListExactOf(q) /\ ActiveExactOf(q)
<1>1. p.freeQueue \in Seq(Usable) /\ p.refCount \in [Blocks -> Nat]
  BY DEF Pool
<1>2. b \in Blocks /\ b # Null
  BY PoolAssumption DEF Usable, Blocks, Null
<1>3. b \notin ToSet(p.freeQueue)
  BY <1>1, <1>2 DEF FreeListExactOf
<1>4. /\ IsInjective(q.freeQueue)
      /\ ToSet(q.freeQueue) = ToSet(p.freeQueue) \cup {b}
      /\ Len(q.freeQueue) = Len(p.freeQueue) + 1
      /\ Len(p.freeQueue) \in Nat
  BY <1>1, <1>3, PrependDistinct DEF FreeListExactOf
<1>5. FreeListExactOf(q)
  <2>1. \A c \in Blocks : q.refCount[c] = IF c = b THEN 0 ELSE p.refCount[c]
    BY <1>1, <1>2
  <2>2. Usable \subseteq Blocks /\ Null \in Blocks
    BY PoolAssumption DEF Usable, Blocks, Null
  <2>3. ToSet(q.freeQueue) = {c \in Usable : q.refCount[c] = 0}
    BY <1>2, <1>4, <2>1, <2>2 DEF FreeListExactOf
  <2> QED
    BY <1>2, <1>4, <2>1, <2>2, <2>3 DEF FreeListExactOf
<1>6. Active(q) = Active(p) \ {b} /\ b \in Active(p)
  BY <1>1, <1>2 DEF Active
<1>7. Cardinality(Active(q)) = Cardinality(Active(p)) - 1
  BY <1>6, ActiveFinite, FS_RemoveElement
<1>8. p.numActive \in Int
  BY DEF Pool
<1> QED
  BY <1>4, <1>5, <1>7, <1>8, ActiveFinite, PoolAssumption DEF ActiveExactOf

LEMMA StayReferenced ==
    ASSUME NEW p \in Pool, FreeListExactOf(p), ActiveExactOf(p),
           NEW b \in Blocks, p.refCount[b] > 0, NEW n \in Nat, n > 0, NEW q \in Pool,
           q.refCount = [p.refCount EXCEPT ![b] = n],
           q.freeQueue = p.freeQueue,
           q.numActive = p.numActive
    PROVE  FreeListExactOf(q) /\ ActiveExactOf(q)
<1>1. p.refCount \in [Blocks -> Nat]
  BY DEF Pool
<1>2. \A c \in Blocks : (q.refCount[c] = 0) <=> (p.refCount[c] = 0)
  BY <1>1
<1>3. Active(q) = Active(p)
  BY <1>1, <1>2 DEF Active
<1>4. Usable \subseteq Blocks /\ Null \in Blocks
  BY PoolAssumption DEF Usable, Blocks, Null
<1> QED
  BY <1>2, <1>3, <1>4 DEF FreeListExactOf, ActiveExactOf

-----------------------------------------------------------------------------
(* One lemma per operation of the pool.                                    *)

LEMMA BlockSets == Usable \subseteq Blocks /\ Null \in Blocks /\ Null \notin Usable
                   /\ Blocks = Usable \cup {Null}
BY PoolAssumption DEF Usable, Blocks, Null

LEMMA NewPoolOK == PoolOK(NewPool)
<1> DEFINE n == NumBlocks - 1
<1>1. NewPool.freeQueue \in Seq(Usable) /\ Len(NewPool.freeQueue) = n /\ n \in Nat
  BY PoolAssumption, IsASeq DEF NewPool, Usable
<1>2. NewPool \in Pool
  BY <1>1 DEF NewPool, Pool
<1>3. FreeListExactOf(NewPool)
  BY BlockSets DEF FreeListExactOf, NewPool, IsInjective, ToSet
<1>4. Active(NewPool) = {}
  BY DEF Active, NewPool
<1>5. ActiveExactOf(NewPool)
  <2>1. NewPool.numActive = 0
    BY DEF NewPool
  <2> QED
    BY <1>1, <1>4, <2>1, FS_EmptySet DEF ActiveExactOf
<1>6. HashMapExactOf(NewPool)
  BY BlockSets, PoolAssumption DEF HashMapExactOf, NewPool, ToSet
<1> QED
  BY <1>2, <1>3, <1>5, <1>6 DEF PoolOK

(* A pool that can allocate has a victim, and the victim is free.          *)
LEMMA VictimFree ==
    ASSUME NEW p, PoolOK(p), CanAllocate(p)
    PROVE  /\ VictimIndex(p) \in 1..Len(p.freeQueue)
           /\ Victim(p) \in Usable
           /\ p.refCount[Victim(p)] = 0
<1>1. p.freeQueue \in Seq(Usable) /\ Len(p.freeQueue) \in Nat
      /\ DOMAIN p.freeQueue = 1..Len(p.freeQueue)
  BY DEF PoolOK, Pool
<1>2. DOMAIN p.freeQueue # {}
  <2>1. Len(p.freeQueue) # 0
    BY <1>1, EmptySeq DEF CanAllocate
  <2>2. 1 \in DOMAIN p.freeQueue
    BY <1>1, <2>1
  <2> QED
    BY <2>2
<1>3. /\ UncachedFree(p) \subseteq 1..Len(p.freeQueue)
      /\ CachedFree(p) \subseteq 1..Len(p.freeQueue)
      /\ UncachedFree(p) = {} => CachedFree(p) # {}
  BY <1>1, <1>2 DEF UncachedFree, CachedFree
<1>4. VictimIndex(p) \in 1..Len(p.freeQueue)
  <2>1. CASE UncachedFree(p) # {}
    <3>1. UncachedFree(p) \subseteq Nat
      BY <1>1, <1>3
    <3>2. Min(UncachedFree(p)) \in UncachedFree(p)
      BY <2>1, <3>1, MinMember
    <3> QED
      BY <1>3, <2>1, <3>2 DEF VictimIndex
  <2>2. CASE UncachedFree(p) = {}
    <3>1. Max(CachedFree(p)) \in CachedFree(p)
      BY <1>1, <1>3, <2>2, MaxMember
    <3> QED
      BY <1>3, <2>2, <3>1 DEF VictimIndex
  <2> QED
    BY <2>1, <2>2
<1>5. Victim(p) \in Usable
  BY <1>1, <1>4, ElementOfSeq DEF Victim
<1>6. Victim(p) \in ToSet(p.freeQueue)
  BY <1>1, <1>4 DEF Victim, ToSet
<1> QED
  BY <1>4, <1>5, <1>6 DEF PoolOK, FreeListExactOf

LEMMA RemoveHashEntryOK ==
    ASSUME NEW p, PoolOK(p), NEW b \in Blocks
    PROVE  LET m == RemoveHashEntry(p.hashMap, p.hash[b], b)
           IN  /\ m \in [Hashes -> Seq(Blocks)]
               /\ \A h \in Hashes : ToSet(m[h]) = {c \in Blocks \ {b} : p.hash[c] = h}
<1> DEFINE m == RemoveHashEntry(p.hashMap, p.hash[b], b)
<1>1. p.hashMap \in [Hashes -> Seq(Blocks)] /\ p.hash[b] \in Hashes \cup {NoHash}
  BY DEF PoolOK, Pool
<1>2. CASE p.hash[b] = NoHash
  BY <1>1, <1>2, PoolAssumption DEF RemoveHashEntry, PoolOK, HashMapExactOf
<1>3. CASE p.hash[b] # NoHash
  <2>1. p.hash[b] \in Hashes
    BY <1>1, <1>3
  <2>2. Without(p.hashMap[p.hash[b]], b) \in Seq(Blocks)
        /\ ToSet(Without(p.hashMap[p.hash[b]], b)) = ToSet(p.hashMap[p.hash[b]]) \ {b}
    BY <1>1, <2>1, WithoutProperties
  <2>3. m = [p.hashMap EXCEPT ![p.hash[b]] = Without(@, b)]
    BY <1>3 DEF RemoveHashEntry
  <2>4. m \in [Hashes -> Seq(Blocks)]
    BY <1>1, <2>1, <2>2, <2>3
  <2>5. \A h \in Hashes : ToSet(m[h]) = {c \in Blocks \ {b} : p.hash[c] = h}
    <3> TAKE h \in Hashes
    <3>1. ToSet(p.hashMap[h]) = {c \in Blocks : p.hash[c] = h}
      BY DEF PoolOK, HashMapExactOf
    <3>2. CASE h = p.hash[b]
      BY <1>1, <2>2, <2>3, <3>1, <3>2
    <3>3. CASE h # p.hash[b]
      BY <1>1, <2>3, <3>1, <3>3
    <3> QED
      BY <3>2, <3>3
  <2> QED
    BY <2>4, <2>5
<1> QED
  BY <1>2, <1>3

(* allocate keeps the pool consistent, also when it evicts.                *)
LEMMA AllocateOK ==
    ASSUME NEW p, PoolOK(p), CanAllocate(p)
    PROVE  PoolOK(Allocate(p))
<1> DEFINE b == Victim(p)
           i == VictimIndex(p)
           q == Allocate(p)
           m == RemoveHashEntry(p.hashMap, p.hash[b], b)
<1>1. i \in 1..Len(p.freeQueue) /\ b = p.freeQueue[i] /\ b \in Usable /\ b \in Blocks
  BY VictimFree, BlockSets DEF Victim
<1>2. m \in [Hashes -> Seq(Blocks)]
      /\ \A h \in Hashes : ToSet(m[h]) = {c \in Blocks \ {b} : p.hash[c] = h}
  BY <1>1, RemoveHashEntryOK
<1> HIDE DEF i, b, m
<1>3. q = [refCount  |-> [p.refCount EXCEPT ![b] = 1],
           hash      |-> [p.hash EXCEPT ![b] = NoHash],
           freeQueue |-> RemoveAt(p.freeQueue, i),
           hashMap   |-> m,
           numActive |-> p.numActive + 1]
  BY DEF Allocate, b, i, m
<1> HIDE DEF q
<1>4. p \in Pool /\ FreeListExactOf(p) /\ ActiveExactOf(p)
  BY DEF PoolOK
<1>5. RemoveAt(p.freeQueue, i) \in Seq(Usable)
  BY <1>1, <1>4, RemoveAtProperties DEF Pool
<1>6. q \in Pool
  BY <1>1, <1>2, <1>3, <1>4, <1>5 DEF Pool
<1>7. FreeListExactOf(q) /\ ActiveExactOf(q)
  BY <1>1, <1>3, <1>4, <1>6, TakeFirst
<1>8. HashMapExactOf(q)
  <2>1. p.hash \in [Blocks -> Hashes \cup {NoHash}] /\ p.hash[Null] = NoHash
    BY DEF PoolOK, Pool, HashMapExactOf
  <2>2. q.hash = [p.hash EXCEPT ![b] = NoHash] /\ q.hashMap = m
    BY <1>3
  <2>3. \A c \in Blocks : q.hash[c] = IF c = b THEN NoHash ELSE p.hash[c]
    BY <1>1, <2>1, <2>2
  <2> QED
    BY <1>2, <2>1, <2>2, <2>3, BlockSets, PoolAssumption DEF HashMapExactOf
<1> QED
  BY <1>6, <1>7, <1>8 DEF PoolOK, q

(* free: dropping one of several references, or the last one.              *)
LEMMA FreeOK ==
    ASSUME NEW p, PoolOK(p), NEW b \in Blocks
    PROVE  PoolOK(Free(p, b))
<1> DEFINE q == Free(p, b)
<1>1. p \in Pool /\ FreeListExactOf(p) /\ ActiveExactOf(p) /\ HashMapExactOf(p)
      /\ p.refCount[b] \in Nat
  BY DEF PoolOK, Pool
<1>2. CASE b = Null \/ p.refCount[b] = 0
  BY <1>2 DEF Free
<1>3. CASE b # Null /\ p.refCount[b] > 1
  <2>1. q = [p EXCEPT !.refCount[b] = p.refCount[b] - 1] /\ p.refCount[b] - 1 \in Nat
    BY <1>1, <1>3 DEF Free
  <2>2. q \in Pool /\ q.refCount = [p.refCount EXCEPT ![b] = p.refCount[b] - 1]
        /\ q.freeQueue = p.freeQueue /\ q.numActive = p.numActive
        /\ q.hash = p.hash /\ q.hashMap = p.hashMap
    <3> HIDE DEF q
    <3>1. [p.refCount EXCEPT ![b] = p.refCount[b] - 1] \in [Blocks -> Nat]
      BY <1>1, <2>1 DEF Pool
    <3>2. q = [refCount |-> [p.refCount EXCEPT ![b] = p.refCount[b] - 1], hash |-> p.hash,
               freeQueue |-> p.freeQueue, hashMap |-> p.hashMap, numActive |-> p.numActive]
      BY <1>1, <2>1 DEF Pool
    <3> QED
      BY <1>1, <3>1, <3>2 DEF Pool
  <2>3. FreeListExactOf(q) /\ ActiveExactOf(q)
    <3> HIDE DEF q
    <3> QED
      BY <1>1, <1>3, <2>2, StayReferenced
  <2> QED
    BY <1>1, <2>2, <2>3 DEF PoolOK, HashMapExactOf
<1>4. CASE b # Null /\ p.refCount[b] = 1
  <2>1. q = [p EXCEPT !.refCount[b] = 0, !.freeQueue = <<b>> \o p.freeQueue,
                      !.numActive = p.numActive - 1]
    BY <1>1, <1>4 DEF Free
  <2>a. 0 \in Nat /\ p.refCount[b] > 0
    BY <1>4
  <2>2. b \in Usable /\ p.freeQueue \in Seq(Usable) /\ <<b>> \o p.freeQueue \in Seq(Usable)
        /\ p.numActive - 1 \in Int
    BY <1>1, <1>4, BlockSets, ConcatProperties DEF Pool
  <2>3. q \in Pool /\ q.refCount = [p.refCount EXCEPT ![b] = 0]
        /\ q.freeQueue = <<b>> \o p.freeQueue /\ q.numActive = p.numActive - 1
        /\ q.hash = p.hash /\ q.hashMap = p.hashMap
    <3> HIDE DEF q
    <3>1. [p.refCount EXCEPT ![b] = 0] \in [Blocks -> Nat]
      BY <1>1 DEF Pool
    <3>2. q = [refCount |-> [p.refCount EXCEPT ![b] = 0], hash |-> p.hash,
               freeQueue |-> <<b>> \o p.freeQueue, hashMap |-> p.hashMap,
               numActive |-> p.numActive - 1]
      BY <1>1, <2>1 DEF Pool
    <3> QED
      BY <1>1, <2>2, <3>1, <3>2 DEF Pool
  <2>4. FreeListExactOf(q) /\ ActiveExactOf(q)
    <3> HIDE DEF q
    <3> QED
      BY <1>1, <2>a, <2>2, <2>3, DropLast, Zenon
  <2> QED
    BY <1>1, <2>3, <2>4 DEF PoolOK, HashMapExactOf
<1> QED
  BY <1>1, <1>2, <1>3, <1>4

LEMMA IncrefOK ==
    ASSUME NEW p, PoolOK(p), NEW b \in Blocks
    PROVE  PoolOK(Incref(p, b))
<1> DEFINE q == Incref(p, b)
<1>1. p \in Pool /\ FreeListExactOf(p) /\ ActiveExactOf(p) /\ HashMapExactOf(p)
      /\ p.refCount[b] \in Nat
  BY DEF PoolOK, Pool
<1>2. CASE ~(b # Null /\ p.refCount[b] > 0)
  BY <1>2 DEF Incref
<1>3. CASE b # Null /\ p.refCount[b] > 0
  <2>0. q = [p EXCEPT !.refCount[b] = p.refCount[b] + 1] /\ p.refCount[b] + 1 \in Nat
    BY <1>1, <1>3 DEF Incref
  <2>1. q \in Pool /\ q.refCount = [p.refCount EXCEPT ![b] = p.refCount[b] + 1]
        /\ q.freeQueue = p.freeQueue /\ q.numActive = p.numActive
        /\ q.hash = p.hash /\ q.hashMap = p.hashMap
    <3> HIDE DEF q
    <3>1. [p.refCount EXCEPT ![b] = p.refCount[b] + 1] \in [Blocks -> Nat]
      BY <1>1, <2>0 DEF Pool
    <3>2. q = [refCount |-> [p.refCount EXCEPT ![b] = p.refCount[b] + 1], hash |-> p.hash,
               freeQueue |-> p.freeQueue, hashMap |-> p.hashMap, numActive |-> p.numActive]
      BY <1>1, <2>0 DEF Pool
    <3> QED
      BY <1>1, <3>1, <3>2 DEF Pool
  <2>2. FreeListExactOf(q) /\ ActiveExactOf(q)
    <3> HIDE DEF q
    <3> QED
      BY <1>1, <1>3, <2>1, StayReferenced
  <2> QED
    BY <1>1, <2>1, <2>2 DEF PoolOK, HashMapExactOf
<1> QED
  BY <1>2, <1>3

LEMMA CopyOnWriteOK ==
    ASSUME NEW p, PoolOK(p), NEW b \in Blocks
    PROVE  PoolOK(CopyOnWrite(p, b))
BY AllocateOK, FreeOK DEF CopyOnWrite

LEMMA UnqueueProperties ==
    ASSUME NEW p, PoolOK(p), NEW b \in ToSet(p.freeQueue)
    PROVE  \E i \in 1..Len(p.freeQueue) :
              p.freeQueue[i] = b /\ Unqueue(p, b) = RemoveAt(p.freeQueue, i)
<1>1. p.freeQueue \in Seq(Usable) /\ DOMAIN p.freeQueue = 1..Len(p.freeQueue)
  BY DEF PoolOK, Pool
<1>2. QueueIndex(p, b) \in DOMAIN p.freeQueue /\ p.freeQueue[QueueIndex(p, b)] = b
  BY DEF QueueIndex, ToSet
<1> QED
  BY <1>1, <1>2 DEF Unqueue

(* touch reorders the free queue and changes nothing else.                 *)
LEMMA TouchOK ==
    ASSUME NEW p, PoolOK(p), NEW b \in Blocks
    PROVE  /\ PoolOK(Touch(p, b))
           /\ Touch(p, b).refCount = p.refCount
           /\ Touch(p, b).hash = p.hash
           /\ Touch(p, b).hashMap = p.hashMap
           /\ Touch(p, b).numActive = p.numActive
<1> DEFINE q == Touch(p, b)
           s == <<b>> \o Unqueue(p, b)
<1>1. p \in Pool /\ FreeListExactOf(p) /\ ActiveExactOf(p) /\ HashMapExactOf(p)
      /\ p.freeQueue \in Seq(Usable)
  BY DEF PoolOK, Pool
<1>2. CASE b \notin ToSet(p.freeQueue)
  BY <1>2 DEF Touch
<1>3. CASE b \in ToSet(p.freeQueue)
  <2>1. PICK i \in 1..Len(p.freeQueue) :
            p.freeQueue[i] = b /\ Unqueue(p, b) = RemoveAt(p.freeQueue, i)
    BY <1>3, UnqueueProperties
  <2>2. /\ Unqueue(p, b) \in Seq(Usable)
        /\ Len(Unqueue(p, b)) = Len(p.freeQueue) - 1
        /\ IsInjective(Unqueue(p, b))
        /\ ToSet(Unqueue(p, b)) = ToSet(p.freeQueue) \ {b}
        /\ b \in Usable
    <3>1. IsInjective(p.freeQueue)
      BY <1>1 DEF FreeListExactOf
    <3>2. RemoveAt(p.freeQueue, i) \in Seq(Usable)
          /\ Len(RemoveAt(p.freeQueue, i)) = Len(p.freeQueue) - 1
      BY <1>1, <2>1, RemoveAtProperties
    <3>3. IsInjective(RemoveAt(p.freeQueue, i))
          /\ ToSet(RemoveAt(p.freeQueue, i)) = ToSet(p.freeQueue) \ {p.freeQueue[i]}
      BY <1>1, <2>1, <3>1, RemoveAtDistinct
    <3>4. p.freeQueue[i] \in Usable
      BY <1>1, <2>1, ElementOfSeq
    <3> QED
      BY <2>1, <3>2, <3>3, <3>4
  <2>3. /\ s \in Seq(Usable)
        /\ Len(s) = Len(p.freeQueue)
        /\ IsInjective(s)
        /\ ToSet(s) = ToSet(p.freeQueue)
    <3>1. b \notin ToSet(Unqueue(p, b)) /\ Len(p.freeQueue) \in Nat
      BY <1>1, <2>2
    <3>2. /\ s \in Seq(Usable)
          /\ Len(s) = Len(Unqueue(p, b)) + 1
          /\ IsInjective(s)
          /\ ToSet(s) = ToSet(Unqueue(p, b)) \cup {b}
      BY <2>2, <3>1, PrependDistinct
    <3> HIDE DEF s
    <3>3. Len(s) = Len(p.freeQueue)
      BY <2>2, <3>1, <3>2
    <3>4. ToSet(s) = ToSet(p.freeQueue)
      BY <1>3, <2>2, <3>2
    <3> QED
      BY <3>2, <3>3, <3>4
  <2> HIDE DEF s
  <2>4. CASE q = p
    BY <1>1, <2>4
  <2>5. CASE q # p
    <3>1. q = [p EXCEPT !.freeQueue = s]
      BY <2>5 DEF Touch, s
    <3> HIDE DEF q
    <3>2. q = [refCount |-> p.refCount, hash |-> p.hash, freeQueue |-> s,
               hashMap |-> p.hashMap, numActive |-> p.numActive]
      BY <1>1, <3>1 DEF Pool
    <3>3. q \in Pool
      BY <1>1, <2>3, <3>2 DEF Pool
    <3>4. Active(q) = Active(p)
      BY <3>2 DEF Active
    <3>5. FreeListExactOf(q)
      BY <1>1, <2>3, <3>2 DEF FreeListExactOf
    <3>6. ActiveExactOf(q)
      BY <1>1, <2>3, <3>2, <3>4 DEF ActiveExactOf
    <3>7. HashMapExactOf(q)
      BY <1>1, <3>2 DEF HashMapExactOf
    <3>8. PoolOK(q)
      BY <3>3, <3>5, <3>6, <3>7 DEF PoolOK
    <3> QED
      BY <3>2, <3>8 DEF q
  <2> QED
    BY <2>4, <2>5
<1> QED
  BY <1>2, <1>3

(* A hit is a block that carries the hash, never the null block.           *)
LEMMA CachedBlockUsable ==
    ASSUME NEW p, PoolOK(p), NEW h \in Hashes, HasCached(p, h)
    PROVE  CachedBlock(p, h) \in Usable /\ p.hash[CachedBlock(p, h)] = h
<1>1. p.hashMap[h] \in Seq(Blocks) /\ p.hashMap[h] # <<>>
  BY DEF PoolOK, Pool, HasCached
<1>2. CachedBlock(p, h) \in ToSet(p.hashMap[h])
  <2>1. 1 \in DOMAIN p.hashMap[h] /\ CachedBlock(p, h) = p.hashMap[h][1]
    BY <1>1, HeadTailProperties DEF CachedBlock
  <2> QED
    BY <2>1 DEF ToSet
<1>3. CachedBlock(p, h) \in Blocks /\ p.hash[CachedBlock(p, h)] = h
  BY <1>2 DEF PoolOK, HashMapExactOf
<1>4. CachedBlock(p, h) # Null
  BY <1>3, PoolAssumption DEF PoolOK, HashMapExactOf
<1> QED
  BY <1>3, <1>4, BlockSets

LEMMA GetCachedBlockOK ==
    ASSUME NEW p, PoolOK(p), NEW h \in Hashes, HasCached(p, h)
    PROVE  PoolOK(GetCachedBlock(p, h))
<1> DEFINE b == CachedBlock(p, h)
           t == Touch(p, b)
           q == GetCachedBlock(p, h)
<1>1. b \in Usable /\ b \in Blocks /\ b # Null
  BY CachedBlockUsable, BlockSets
<1>2. PoolOK(t)
  BY <1>1, TouchOK
<1>3. t \in Pool /\ FreeListExactOf(t) /\ ActiveExactOf(t) /\ HashMapExactOf(t)
      /\ t.refCount[b] \in Nat
  BY <1>1, <1>2 DEF PoolOK, Pool
<1>4. q = IF t.refCount[b] > 0 THEN [t EXCEPT !.refCount[b] = @ + 1]
          ELSE [t EXCEPT !.refCount[b] = 1, !.freeQueue = Unqueue(t, b), !.numActive = @ + 1]
  BY DEF GetCachedBlock
<1> HIDE DEF b, t, q
<1>5. CASE t.refCount[b] > 0
  <2>1. q = Incref(t, b)
    BY <1>1, <1>4, <1>5 DEF Incref
  <2> QED
    BY <1>1, <1>2, <2>1, IncrefOK DEF q
<1>6. CASE t.refCount[b] = 0
  <2>1. b \in ToSet(t.freeQueue)
    BY <1>1, <1>3, <1>6 DEF FreeListExactOf
  <2>2. PICK i \in 1..Len(t.freeQueue) :
            t.freeQueue[i] = b /\ Unqueue(t, b) = RemoveAt(t.freeQueue, i)
    BY <1>2, <2>1, UnqueueProperties
  <2>3. RemoveAt(t.freeQueue, i) \in Seq(Usable)
    BY <1>3, <2>2, RemoveAtProperties DEF Pool
  <2>4. q = [t EXCEPT !.refCount[b] = 1, !.freeQueue = Unqueue(t, b),
                      !.numActive = t.numActive + 1]
    BY <1>3, <1>4, <1>6
  <2>5. q = [refCount |-> [t.refCount EXCEPT ![b] = 1], hash |-> t.hash,
             freeQueue |-> Unqueue(t, b), hashMap |-> t.hashMap,
             numActive |-> t.numActive + 1]
    BY <1>3, <2>4 DEF Pool
  <2>6. [t.refCount EXCEPT ![b] = 1] \in [Blocks -> Nat]
    BY <1>3 DEF Pool
  <2>7. q \in Pool
    BY <1>3, <2>2, <2>3, <2>5, <2>6 DEF Pool
  <2>8. /\ q.refCount = [t.refCount EXCEPT ![t.freeQueue[i]] = 1]
        /\ q.freeQueue = RemoveAt(t.freeQueue, i)
        /\ q.numActive = t.numActive + 1
    BY <2>2, <2>5
  <2>9. FreeListExactOf(q) /\ ActiveExactOf(q)
    BY <1>3, <2>2, <2>7, <2>8, TakeFirst, Zenon
  <2>10. HashMapExactOf(q)
    BY <1>3, <2>5 DEF HashMapExactOf
  <2> QED
    BY <2>7, <2>9, <2>10 DEF PoolOK, q
<1> QED
  BY <1>3, <1>5, <1>6

(* cache_block, when it does not replace a different hash.                 *)
LEMMA CacheBlockOK ==
    ASSUME NEW p, PoolOK(p), NEW b \in Blocks, NEW h \in Hashes,
           p.hash[b] \in {NoHash, h}
    PROVE  PoolOK(CacheBlock(p, b, h))
<1> DEFINE q == CacheBlock(p, b, h)
           m == [p.hashMap EXCEPT ![h] = Append(p.hashMap[h], b)]
           g == [p.hash EXCEPT ![b] = h]
<1>1. p \in Pool /\ FreeListExactOf(p) /\ ActiveExactOf(p) /\ HashMapExactOf(p)
      /\ p.hash \in [Blocks -> Hashes \cup {NoHash}]
      /\ p.hashMap \in [Hashes -> Seq(Blocks)]
  BY DEF PoolOK, Pool
<1>2. CASE p.refCount[b] = 0 \/ b = Null
  BY <1>2 DEF CacheBlock
<1>3. CASE ~(p.refCount[b] = 0 \/ b = Null)
  <2>1. q = [p EXCEPT !.hash[b] = h, !.hashMap[h] = Append(p.hashMap[h], b)]
    BY <1>3 DEF CacheBlock
  <2> HIDE DEF q
  <2>2. q = [refCount |-> p.refCount, hash |-> g, freeQueue |-> p.freeQueue,
             hashMap |-> m, numActive |-> p.numActive]
    BY <1>1, <2>1 DEF Pool
  <2>3. g \in [Blocks -> Hashes \cup {NoHash}] /\ m \in [Hashes -> Seq(Blocks)]
    BY <1>1
  <2>4. \A c \in Blocks : g[c] = IF c = b THEN h ELSE p.hash[c]
    BY <1>1
  <2>5. ToSet(m[h]) = ToSet(p.hashMap[h]) \cup {b}
    <3> DEFINE s == p.hashMap[h]
               a == Append(s, b)
    <3>1. s \in Seq(Blocks) /\ m[h] = a
      BY <1>1
    <3> HIDE DEF s, a
    <3>2. /\ DOMAIN a = 1..(Len(s) + 1) /\ DOMAIN s = 1..Len(s) /\ Len(s) \in Nat
          /\ a[Len(s) + 1] = b
          /\ \A i \in 1..Len(s) : a[i] = s[i]
      BY <3>1, AppendProperties DEF a
    <3>3. \A i \in DOMAIN a : a[i] = b \/ (i \in DOMAIN s /\ a[i] = s[i])
      BY <3>2
    <3>4. \A i \in DOMAIN s : i \in DOMAIN a /\ a[i] = s[i]
      BY <3>2
    <3>5. Len(s) + 1 \in DOMAIN a
      BY <3>2
    <3>6. ToSet(a) = ToSet(s) \cup {b}
      BY <3>2, <3>3, <3>4, <3>5 DEF ToSet
    <3> QED
      BY <3>1, <3>6 DEF s
  <2>6. \A k \in Hashes : k # h => m[k] = p.hashMap[k]
    BY <1>1
  <2> HIDE DEF m, g
  <2>7. q \in Pool
    BY <1>1, <2>2, <2>3 DEF Pool
  <2>8. Active(q) = Active(p)
    BY <2>2 DEF Active
  <2>9. FreeListExactOf(q) /\ ActiveExactOf(q)
    BY <1>1, <2>2, <2>8 DEF FreeListExactOf, ActiveExactOf
  <2>10. HashMapExactOf(q)
    <3>1. q.hash = g /\ q.hashMap = m
      BY <2>2
    <3>2. q.hash[Null] = NoHash
      BY <1>1, <1>3, <2>4, <3>1, BlockSets DEF HashMapExactOf
    <3>3. ToSet(m[h]) = {c \in Blocks : g[c] = h}
      BY <1>1, <2>4, <2>5 DEF HashMapExactOf
    <3>4. ASSUME NEW k \in Hashes, k # h
          PROVE  ToSet(m[k]) = {c \in Blocks : g[c] = k}
      <4>1. \A c \in Blocks : g[c] = k <=> p.hash[c] = k
        BY <2>4, <3>4, PoolAssumption
      <4> QED
        BY <1>1, <2>6, <3>4, <4>1 DEF HashMapExactOf
    <3> QED
      BY <3>1, <3>2, <3>3, <3>4 DEF HashMapExactOf
  <2> QED
    BY <2>7, <2>9, <2>10 DEF PoolOK, q
<1> QED
  BY <1>2, <1>3

LEMMA ResetPrefixCacheOK ==
    ASSUME NEW p, PoolOK(p)
    PROVE  PoolOK(ResetPrefixCache(p))
<1> DEFINE q == ResetPrefixCache(p)
<1>1. p \in Pool /\ FreeListExactOf(p) /\ ActiveExactOf(p)
  BY DEF PoolOK
<1>2. CASE ~CanResetCache(p)
  BY <1>2 DEF ResetPrefixCache
<1>3. CASE CanResetCache(p)
  <2>1. q = [p EXCEPT !.hash = [b \in Blocks |-> NoHash],
                      !.hashMap = [h \in Hashes |-> <<>>]]
    BY <1>3 DEF ResetPrefixCache
  <2> HIDE DEF q
  <2>2. q = [refCount |-> p.refCount, hash |-> [b \in Blocks |-> NoHash],
             freeQueue |-> p.freeQueue, hashMap |-> [h \in Hashes |-> <<>>],
             numActive |-> p.numActive]
    BY <1>1, <2>1 DEF Pool
  <2>3. q \in Pool
    BY <1>1, <2>2 DEF Pool
  <2>4. Active(q) = Active(p)
    BY <2>2 DEF Active
  <2>5. FreeListExactOf(q) /\ ActiveExactOf(q)
    BY <1>1, <2>2, <2>4 DEF FreeListExactOf, ActiveExactOf
  <2>6. HashMapExactOf(q)
    BY <2>2, BlockSets, PoolAssumption DEF HashMapExactOf, ToSet
  <2> QED
    BY <2>3, <2>5, <2>6 DEF PoolOK, q
<1> QED
  BY <1>2, <1>3

-----------------------------------------------------------------------------
(* Runs of calls.                                                          *)

(* An allocate of allocate_slots: the pool and the blocks got so far.      *)
Take(x) == [pool |-> Allocate(x.pool), got |-> Append(x.got, Victim(x.pool))]

(* One call of a run.                                                      *)
Call(x, c) ==
    IF c.op = "free" THEN Free(x, c.block)
    ELSE IF c.op = "incref" THEN Incref(x, c.block)
    ELSE IF c.op = "lookup" THEN GetCachedBlock(x, c.hash)
    ELSE IF c.op = "label" THEN CacheBlock(x, c.block, c.hash)
    ELSE Take(x)

IsRun(f, x, calls, n) ==
    f = [i \in 0..n |-> IF i = 0 THEN x ELSE Call(f[i - 1], calls[i])]

LEMMA RunExists ==
    ASSUME NEW x, NEW calls, NEW n \in Nat
    PROVE  \E f : IsRun(f, x, calls, n)
<1> DEFINE T == {k \in Nat : ~ \E f : IsRun(f, x, calls, k)}
<1> SUFFICES ASSUME T # {} PROVE FALSE
  OBVIOUS
<1>1. PICK k \in T : \A j \in T : k <= j
  <2> HIDE DEF T
  <2>1. T \subseteq Nat
    BY DEF T
  <2> QED
    BY <2>1, NatMinimum
<1>2. CASE k = 0
  <2> DEFINE f == [i \in 0..0 |-> x]
  <2>1. IsRun(f, x, calls, 0)
    BY DEF IsRun
  <2> QED
    BY <1>1, <1>2, <2>1
<1>3. CASE k > 0
  <2>1. k - 1 \in Nat /\ k - 1 \notin T
    BY <1>1, <1>3
  <2>2. PICK g : IsRun(g, x, calls, k - 1)
    BY <2>1
  <2> DEFINE f == [i \in 0..k |-> IF i = k THEN Call(g[k - 1], calls[k]) ELSE g[i]]
  <2>3. \A i \in 0..(k - 1) : g[i] = IF i = 0 THEN x ELSE Call(g[i - 1], calls[i])
    BY <2>1, <2>2 DEF IsRun
  <2>4. \A i \in 0..k : f[i] = IF i = 0 THEN x ELSE Call(f[i - 1], calls[i])
    BY <1>3, <2>1, <2>3
  <2>5. IsRun(f, x, calls, k)
    BY <2>4 DEF IsRun
  <2> QED
    BY <1>1, <2>5
<1> QED
  BY <1>1, <1>2, <1>3

LEMMA FreeAllRun ==
    ASSUME NEW p, NEW bs, Len(bs) \in Nat
    PROVE  \E f : /\ f[0] = p
                  /\ \A i \in 1..Len(bs) : f[i] = Free(f[i - 1], bs[i])
                  /\ FreeAll(p, bs) = f[Len(bs)]
<1> DEFINE m == Len(bs)
           calls == [i \in 1..m |-> [op |-> "free", block |-> bs[i]]]
           Rec(f) == f = [i \in 0..m |-> IF i = 0 THEN p ELSE Free(f[i - 1], bs[i])]
           run == CHOOSE f : Rec(f)
<1>1. \A i \in 1..m : \A x : Call(x, calls[i]) = Free(x, bs[i])
  BY DEF Call
<1>2. PICK f : IsRun(f, p, calls, m)
  BY RunExists
<1>3. Rec(f)
  <2>1. f = [i \in 0..m |-> IF i = 0 THEN p ELSE Call(f[i - 1], calls[i])]
    BY <1>2 DEF IsRun
  <2>2. \A i \in 0..m : i # 0 => i \in 1..m
    OBVIOUS
  <2> HIDE DEF calls, m
  <2>3. \A i \in 0..m : f[i] = IF i = 0 THEN p ELSE Free(f[i - 1], bs[i])
    BY <1>1, <2>1, <2>2
  <2> QED
    BY <2>1, <2>3
<1>4. Rec(run)
  <2> HIDE DEF Rec
  <2> QED
    BY <1>3
<1>5. FreeAll(p, bs) = run[m]
  BY DEF FreeAll
<1>6. run[0] = p /\ \A i \in 1..m : run[i] = Free(run[i - 1], bs[i])
  <2> HIDE DEF run
  <2> QED
    BY <1>4
<1> QED
  BY <1>5, <1>6

LEMMA IncrefAllRun ==
    ASSUME NEW p, NEW bs, Len(bs) \in Nat
    PROVE  \E f : /\ f[0] = p
                  /\ \A i \in 1..Len(bs) : f[i] = Incref(f[i - 1], bs[i])
                  /\ IncrefAll(p, bs) = f[Len(bs)]
<1> DEFINE m == Len(bs)
           calls == [i \in 1..m |-> [op |-> "incref", block |-> bs[i]]]
           Rec(f) == f = [i \in 0..m |-> IF i = 0 THEN p ELSE Incref(f[i - 1], bs[i])]
           run == CHOOSE f : Rec(f)
<1>1. \A i \in 1..m : \A x : Call(x, calls[i]) = Incref(x, bs[i])
  BY DEF Call
<1>2. PICK f : IsRun(f, p, calls, m)
  BY RunExists
<1>3. Rec(f)
  <2>1. f = [i \in 0..m |-> IF i = 0 THEN p ELSE Call(f[i - 1], calls[i])]
    BY <1>2 DEF IsRun
  <2>2. \A i \in 0..m : i # 0 => i \in 1..m
    OBVIOUS
  <2> HIDE DEF calls, m
  <2>3. \A i \in 0..m : f[i] = IF i = 0 THEN p ELSE Incref(f[i - 1], bs[i])
    BY <1>1, <2>1, <2>2
  <2> QED
    BY <2>1, <2>3
<1>4. Rec(run)
  <2> HIDE DEF Rec
  <2> QED
    BY <1>3
<1>5. IncrefAll(p, bs) = run[m]
  BY DEF IncrefAll
<1>6. run[0] = p /\ \A i \in 1..m : run[i] = Incref(run[i - 1], bs[i])
  <2> HIDE DEF run
  <2> QED
    BY <1>4
<1> QED
  BY <1>5, <1>6

LEMMA GetCachedAllRun ==
    ASSUME NEW p, NEW hs, NEW n \in Nat
    PROVE  \E f : /\ f[0] = p
                  /\ \A i \in 1..n : f[i] = GetCachedBlock(f[i - 1], hs[i])
                  /\ GetCachedAll(p, hs, n) = f[n]
<1> DEFINE m == n
           calls == [i \in 1..m |-> [op |-> "lookup", hash |-> hs[i]]]
           Rec(f) == f = [i \in 0..m |-> IF i = 0 THEN p ELSE GetCachedBlock(f[i - 1], hs[i])]
           run == CHOOSE f : Rec(f)
<1>1. \A i \in 1..m : \A x : Call(x, calls[i]) = GetCachedBlock(x, hs[i])
  BY DEF Call
<1>2. PICK f : IsRun(f, p, calls, m)
  BY RunExists
<1>3. Rec(f)
  <2>1. f = [i \in 0..m |-> IF i = 0 THEN p ELSE Call(f[i - 1], calls[i])]
    BY <1>2 DEF IsRun
  <2>2. \A i \in 0..m : i # 0 => i \in 1..m
    OBVIOUS
  <2> HIDE DEF calls, m
  <2>3. \A i \in 0..m : f[i] = IF i = 0 THEN p ELSE GetCachedBlock(f[i - 1], hs[i])
    BY <1>1, <2>1, <2>2
  <2> QED
    BY <2>1, <2>3
<1>4. Rec(run)
  <2> HIDE DEF Rec
  <2> QED
    BY <1>3
<1>5. GetCachedAll(p, hs, n) = run[m]
  BY DEF GetCachedAll
<1>6. run[0] = p /\ \A i \in 1..m : run[i] = GetCachedBlock(run[i - 1], hs[i])
  <2> HIDE DEF run
  <2> QED
    BY <1>4
<1> QED
  BY <1>5, <1>6

IsLabelRun(f, p, table, hs, from, m) ==
    /\ f[0] = p
    /\ \A i \in 1..m : f[i] = CacheBlock(f[i - 1], table[from + i], hs[from + i])

LEMMA CacheRangeRun ==
    ASSUME NEW p, NEW table, NEW hs, NEW from, NEW upTo, NEW m \in Nat, m = Monus(upTo, from)
    PROVE  \E f : IsLabelRun(f, p, table, hs, from, m) /\ CacheRange(p, table, hs, from, upTo) = f[m]
<1> DEFINE calls == [i \in 1..m |-> [op |-> "label", block |-> table[from + i], hash |-> hs[from + i]]]
           Rec(f) == f = [i \in 0..m |-> IF i = 0 THEN p ELSE CacheBlock(f[i - 1], table[from + i], hs[from + i])]
           run == CHOOSE f : Rec(f)
<1>1. \A i \in 1..m : \A x : Call(x, calls[i]) = CacheBlock(x, table[from + i], hs[from + i])
  BY DEF Call
<1>2. PICK f : IsRun(f, p, calls, m)
  BY RunExists
<1>3. Rec(f)
  <2>1. f = [i \in 0..m |-> IF i = 0 THEN p ELSE Call(f[i - 1], calls[i])]
    BY <1>2 DEF IsRun
  <2>2. \A i \in 0..m : i # 0 => i \in 1..m
    OBVIOUS
  <2> HIDE DEF calls
  <2>3. \A i \in 0..m : f[i] = IF i = 0 THEN p ELSE CacheBlock(f[i - 1], table[from + i], hs[from + i])
    BY <1>1, <2>1, <2>2
  <2> QED
    BY <2>1, <2>3
<1>4. Rec(run)
  <2> HIDE DEF Rec
  <2> QED
    BY <1>3
<1>5. CacheRange(p, table, hs, from, upTo) = run[m]
  BY DEF CacheRange
<1> HIDE DEF run
<1>6. IsLabelRun(run, p, table, hs, from, m)
  BY <1>4 DEF IsLabelRun
<1> QED
  BY <1>5, <1>6

LEMMA AllocateManyRun ==
    ASSUME NEW p, NEW n \in Nat
    PROVE  \E f : /\ f[0] = [pool |-> p, got |-> <<>>]
                  /\ \A i \in 1..n : f[i] = Take(f[i - 1])
                  /\ AllocateMany(p, n) = f[n]
<1> DEFINE m == n
           calls == [i \in 1..m |-> [op |-> "take"]]
           Rec(f) == f = [i \in 0..m |-> IF i = 0 THEN [pool |-> p, got |-> <<>>] ELSE Take(f[i - 1])]
           run == CHOOSE f : Rec(f)
<1>1. \A i \in 1..m : \A x : Call(x, calls[i]) = Take(x)
  BY DEF Call
<1>2. PICK f : IsRun(f, [pool |-> p, got |-> <<>>], calls, m)
  BY RunExists
<1>3. Rec(f)
  <2>1. f = [i \in 0..m |-> IF i = 0 THEN [pool |-> p, got |-> <<>>] ELSE Call(f[i - 1], calls[i])]
    BY <1>2 DEF IsRun
  <2>2. \A i \in 0..m : i # 0 => i \in 1..m
    OBVIOUS
  <2> HIDE DEF calls, m
  <2>3. \A i \in 0..m : f[i] = IF i = 0 THEN [pool |-> p, got |-> <<>>] ELSE Take(f[i - 1])
    BY <1>1, <2>1, <2>2
  <2> QED
    BY <2>1, <2>3
<1>4. Rec(run)
  <2> HIDE DEF Rec
  <2> QED
    BY <1>3
<1>5. AllocateMany(p, n) = run[m]
  BY DEF AllocateMany, Take
<1>6. run[0] = [pool |-> p, got |-> <<>>] /\ \A i \in 1..m : run[i] = Take(run[i - 1])
  <2> HIDE DEF run
  <2> QED
    BY <1>4
<1> QED
  BY <1>5, <1>6

-----------------------------------------------------------------------------
(* What single calls and runs of them do to the reference counts and to    *)
(* the hashes.                                                             *)

LEMMA FreeEffect ==
    ASSUME NEW p, PoolOK(p), NEW b \in Usable, p.refCount[b] > 0
    PROVE  /\ PoolOK(Free(p, b))
           /\ Free(p, b).refCount = [p.refCount EXCEPT ![b] = @ - 1]
           /\ Free(p, b).hash = p.hash
           /\ Free(p, b).hashMap = p.hashMap
<1>1. b \in Blocks /\ b # Null
  BY BlockSets
<1>2. p \in Pool /\ p.refCount \in [Blocks -> Nat] /\ p.refCount[b] \in Nat
  BY <1>1 DEF PoolOK, Pool
<1>3. PoolOK(Free(p, b))
  BY <1>1, FreeOK
<1>4. CASE p.refCount[b] > 1
  <2>1. Free(p, b) = [p EXCEPT !.refCount[b] = p.refCount[b] - 1]
    BY <1>1, <1>2, <1>4 DEF Free
  <2> QED
    BY <1>2, <1>3, <2>1 DEF Pool
<1>5. CASE p.refCount[b] = 1
  <2>1. Free(p, b) = [p EXCEPT !.refCount[b] = 0,
                               !.freeQueue = <<b>> \o @,
                               !.numActive = @ - 1]
    BY <1>1, <1>2, <1>5 DEF Free
  <2> QED
    BY <1>2, <1>3, <1>5, <2>1 DEF Pool
<1> QED
  BY <1>2, <1>4, <1>5

LEMMA FreeAllEffect ==
    ASSUME NEW p, PoolOK(p), NEW bs \in Seq(Usable), IsInjective(bs),
           \A b \in ToSet(bs) : p.refCount[b] > 0
    PROVE  LET q == FreeAll(p, bs)
           IN  /\ PoolOK(q)
               /\ q.hash = p.hash
               /\ q.hashMap = p.hashMap
               /\ \A b \in Blocks : q.refCount[b] = IF b \in ToSet(bs)
                                                     THEN p.refCount[b] - 1
                                                     ELSE p.refCount[b]
<1> DEFINE n == Len(bs)
           Freed(i, b) == \E j \in 1..i : bs[j] = b
           Good(x, i) == /\ PoolOK(x) /\ x.hash = p.hash /\ x.hashMap = p.hashMap
                         /\ \A b \in Blocks : x.refCount[b] = IF Freed(i, b)
                                                               THEN p.refCount[b] - 1
                                                               ELSE p.refCount[b]
<1>1. n \in Nat /\ DOMAIN bs = 1..n
  OBVIOUS
<1>2. PICK f : /\ f[0] = p
               /\ \A i \in 1..n : f[i] = Free(f[i - 1], bs[i])
               /\ FreeAll(p, bs) = f[n]
  BY <1>1, FreeAllRun
<1>3. Good(f[0], 0)
  BY <1>2
<1>4. ASSUME NEW i \in 1..n, Good(f[i - 1], i - 1)
      PROVE  Good(f[i], i)
  <2> DEFINE x == f[i - 1]
             c == bs[i]
  <2>1. c \in Usable /\ c \in Blocks /\ c \in ToSet(bs)
    BY <1>1, BlockSets DEF ToSet
  <2>2. ~Freed(i - 1, c)
    BY <1>1 DEF IsInjective
  <2>3. x.refCount[c] = p.refCount[c] /\ p.refCount[c] > 0
    BY <1>4, <2>1, <2>2
  <2>4. f[i] = Free(x, c)
    BY <1>2
  <2>5. /\ PoolOK(f[i])
        /\ f[i].refCount = [x.refCount EXCEPT ![c] = @ - 1]
        /\ f[i].hash = x.hash
        /\ f[i].hashMap = x.hashMap
    <3>1. PoolOK(x) /\ x.refCount[c] > 0
      BY <1>4, <2>3
    <3> HIDE DEF x, c, Good
    <3> QED
      BY <2>1, <2>4, <3>1, FreeEffect
  <2>6. x.refCount \in [Blocks -> Nat]
    BY <1>4 DEF PoolOK, Pool
  <2>7. \A b \in Blocks : Freed(i, b) <=> Freed(i - 1, b) \/ b = c
    BY <1>1
  <2> QED
    BY <1>4, <2>1, <2>2, <2>3, <2>5, <2>6, <2>7
<1>5. Good(f[n], n)
  <2> DEFINE G == {i \in 0..n : Good(f[i], i)}
  <2> HIDE DEF Good
  <2>1. 0 \in G /\ \A i \in 1..n : i - 1 \in G => i \in G
    BY <1>1, <1>3, <1>4
  <2>2. G = 0..n
    <3> HIDE DEF G
    <3>1. G \subseteq 0..n
      BY DEF G
    <3> QED
      BY <1>1, <2>1, <3>1, LeastFailure
  <2> QED
    BY <1>1, <2>2
<1>6. \A b : Freed(n, b) <=> b \in ToSet(bs)
  BY <1>1 DEF ToSet
<1> QED
  BY <1>2, <1>5, <1>6

LEMMA IncrefEffect ==
    ASSUME NEW p, PoolOK(p), NEW b \in Usable, p.refCount[b] > 0
    PROVE  /\ PoolOK(Incref(p, b))
           /\ Incref(p, b).refCount = [p.refCount EXCEPT ![b] = @ + 1]
           /\ Incref(p, b).hash = p.hash
           /\ Incref(p, b).hashMap = p.hashMap
<1>1. b \in Blocks /\ b # Null
  BY BlockSets
<1>2. p \in Pool /\ p.refCount \in [Blocks -> Nat] /\ p.refCount[b] \in Nat
  BY <1>1 DEF PoolOK, Pool
<1>3. PoolOK(Incref(p, b))
  BY <1>1, IncrefOK
<1>4. Incref(p, b) = [p EXCEPT !.refCount[b] = p.refCount[b] + 1]
  BY <1>1, <1>2 DEF Incref
<1> QED
  BY <1>2, <1>3, <1>4 DEF Pool

LEMMA IncrefAllEffect ==
    ASSUME NEW p, PoolOK(p), NEW bs \in Seq(Usable), IsInjective(bs),
           \A b \in ToSet(bs) : p.refCount[b] > 0
    PROVE  LET q == IncrefAll(p, bs)
           IN  /\ PoolOK(q)
               /\ q.hash = p.hash
               /\ q.hashMap = p.hashMap
               /\ \A b \in Blocks : q.refCount[b] = IF b \in ToSet(bs)
                                                     THEN p.refCount[b] + 1
                                                     ELSE p.refCount[b]
<1> DEFINE n == Len(bs)
           Counted(i, b) == \E j \in 1..i : bs[j] = b
           Good(x, i) == /\ PoolOK(x) /\ x.hash = p.hash /\ x.hashMap = p.hashMap
                         /\ \A b \in Blocks : x.refCount[b] = IF Counted(i, b)
                                                               THEN p.refCount[b] + 1
                                                               ELSE p.refCount[b]
<1>1. n \in Nat /\ DOMAIN bs = 1..n
  OBVIOUS
<1>2. PICK f : /\ f[0] = p
               /\ \A i \in 1..n : f[i] = Incref(f[i - 1], bs[i])
               /\ IncrefAll(p, bs) = f[n]
  BY <1>1, IncrefAllRun
<1>3. Good(f[0], 0)
  BY <1>2
<1>4. ASSUME NEW i \in 1..n, Good(f[i - 1], i - 1)
      PROVE  Good(f[i], i)
  <2> DEFINE x == f[i - 1]
             c == bs[i]
  <2>1. c \in Usable /\ c \in Blocks /\ c \in ToSet(bs)
    BY <1>1, BlockSets DEF ToSet
  <2>2. ~Counted(i - 1, c)
    BY <1>1 DEF IsInjective
  <2>3. x.refCount[c] = p.refCount[c] /\ p.refCount[c] > 0
    BY <1>4, <2>1, <2>2
  <2>4. f[i] = Incref(x, c)
    BY <1>2
  <2>5. /\ PoolOK(f[i])
        /\ f[i].refCount = [x.refCount EXCEPT ![c] = @ + 1]
        /\ f[i].hash = x.hash
        /\ f[i].hashMap = x.hashMap
    <3>1. PoolOK(x) /\ x.refCount[c] > 0
      BY <1>4, <2>3
    <3> HIDE DEF x, c, Good
    <3> QED
      BY <2>1, <2>4, <3>1, IncrefEffect
  <2>6. x.refCount \in [Blocks -> Nat]
    BY <1>4 DEF PoolOK, Pool
  <2>7. \A b \in Blocks : Counted(i, b) <=> Counted(i - 1, b) \/ b = c
    BY <1>1
  <2> QED
    BY <1>4, <2>1, <2>2, <2>3, <2>5, <2>6, <2>7
<1>5. Good(f[n], n)
  <2> DEFINE G == {i \in 0..n : Good(f[i], i)}
  <2> HIDE DEF Good
  <2>1. 0 \in G /\ \A i \in 1..n : i - 1 \in G => i \in G
    BY <1>1, <1>3, <1>4
  <2>2. G = 0..n
    <3> HIDE DEF G
    <3>1. G \subseteq 0..n
      BY DEF G
    <3> QED
      BY <1>1, <2>1, <3>1, LeastFailure
  <2> QED
    BY <1>1, <2>2
<1>6. \A b : Counted(n, b) <=> b \in ToSet(bs)
  BY <1>1 DEF ToSet
<1> QED
  BY <1>2, <1>5, <1>6

LEMMA GetCachedBlockEffect ==
    ASSUME NEW p, PoolOK(p), NEW h \in Hashes, HasCached(p, h)
    PROVE  LET q == GetCachedBlock(p, h)
               b == CachedBlock(p, h)
           IN  /\ PoolOK(q) /\ b \in Usable /\ p.hash[b] = h
               /\ q.refCount = [p.refCount EXCEPT ![b] = @ + 1]
               /\ q.hash = p.hash
               /\ q.hashMap = p.hashMap
<1> DEFINE b == CachedBlock(p, h)
           t == Touch(p, b)
           q == GetCachedBlock(p, h)
<1>1. b \in Usable /\ b \in Blocks /\ p.hash[b] = h
  BY CachedBlockUsable, BlockSets
<1>2. /\ PoolOK(t) /\ t.refCount = p.refCount /\ t.hash = p.hash
      /\ t.hashMap = p.hashMap
  BY <1>1, TouchOK
<1>3. t \in Pool /\ t.refCount \in [Blocks -> Nat] /\ t.refCount[b] \in Nat
  BY <1>1, <1>2 DEF PoolOK, Pool
<1>4. PoolOK(q)
  BY GetCachedBlockOK
<1>5. q = IF t.refCount[b] > 0 THEN [t EXCEPT !.refCount[b] = t.refCount[b] + 1]
          ELSE [t EXCEPT !.refCount[b] = 1, !.freeQueue = Unqueue(t, b), !.numActive = @ + 1]
  BY <1>3 DEF GetCachedBlock
<1> HIDE DEF b, t, q
<1>6. CASE t.refCount[b] > 0
  <2>1. q = [t EXCEPT !.refCount[b] = t.refCount[b] + 1]
    BY <1>5, <1>6
  <2> QED
    BY <1>1, <1>2, <1>3, <1>4, <2>1 DEF Pool, b, q
<1>7. CASE t.refCount[b] = 0
  <2>1. q = [t EXCEPT !.refCount[b] = 1, !.freeQueue = Unqueue(t, b), !.numActive = @ + 1]
    BY <1>5, <1>7
  <2>2. q.refCount = [t.refCount EXCEPT ![b] = 1] /\ q.hash = t.hash /\ q.hashMap = t.hashMap
    BY <1>3, <2>1 DEF Pool
  <2> QED
    BY <1>1, <1>2, <1>3, <1>4, <1>7, <2>2 DEF b, q
<1> QED
  BY <1>3, <1>6, <1>7

LEMMA GetCachedAllEffect ==
    ASSUME NEW p, PoolOK(p), NEW hs, NEW n \in Nat,
           \A i \in 1..n : hs[i] \in Hashes /\ HasCached(p, hs[i]),
           \A i, j \in 1..n : hs[i] = hs[j] => i = j
    PROVE  LET q == GetCachedAll(p, hs, n)
           IN  /\ PoolOK(q)
               /\ q.hash = p.hash
               /\ q.hashMap = p.hashMap
               /\ \A b \in Blocks :
                    q.refCount[b] = IF \E j \in 1..n : CachedBlock(p, hs[j]) = b
                                    THEN p.refCount[b] + 1
                                    ELSE p.refCount[b]
<1> DEFINE Counted(i, b) == \E j \in 1..i : CachedBlock(p, hs[j]) = b
           Good(x, i) == /\ PoolOK(x) /\ x.hash = p.hash /\ x.hashMap = p.hashMap
                         /\ \A b \in Blocks : x.refCount[b] = IF Counted(i, b)
                                                               THEN p.refCount[b] + 1
                                                               ELSE p.refCount[b]
<1>1. \A i, j \in 1..n : CachedBlock(p, hs[i]) = CachedBlock(p, hs[j]) => i = j
  <2>1. \A i \in 1..n : p.hash[CachedBlock(p, hs[i])] = hs[i]
    BY CachedBlockUsable
  <2> QED
    BY <2>1
<1>2. PICK f : /\ f[0] = p
               /\ \A i \in 1..n : f[i] = GetCachedBlock(f[i - 1], hs[i])
               /\ GetCachedAll(p, hs, n) = f[n]
  BY GetCachedAllRun
<1>3. Good(f[0], 0)
  BY <1>2
<1>4. ASSUME NEW i \in 1..n, Good(f[i - 1], i - 1)
      PROVE  Good(f[i], i)
  <2> DEFINE x == f[i - 1]
             c == CachedBlock(p, hs[i])
  <2>1. HasCached(x, hs[i]) /\ CachedBlock(x, hs[i]) = c /\ PoolOK(x) /\ hs[i] \in Hashes
    BY <1>4 DEF HasCached, CachedBlock
  <2>2. ~Counted(i - 1, c)
    BY <1>1
  <2>3. f[i] = GetCachedBlock(x, hs[i])
    BY <1>2
  <2>4. /\ PoolOK(f[i]) /\ c \in Usable
        /\ f[i].refCount = [x.refCount EXCEPT ![c] = @ + 1]
        /\ f[i].hash = x.hash
        /\ f[i].hashMap = x.hashMap
    <3> HIDE DEF x, c, Good
    <3> QED
      BY <2>1, <2>3, GetCachedBlockEffect
  <2>5. x.refCount \in [Blocks -> Nat] /\ c \in Blocks
    BY <1>4, <2>4, BlockSets DEF PoolOK, Pool
  <2>6. \A b \in Blocks : Counted(i, b) <=> Counted(i - 1, b) \/ b = c
    OBVIOUS
  <2> QED
    BY <1>4, <2>2, <2>4, <2>5, <2>6
<1>5. Good(f[n], n)
  <2> DEFINE G == {i \in 0..n : Good(f[i], i)}
  <2> HIDE DEF Good
  <2>1. 0 \in G /\ \A i \in 1..n : i - 1 \in G => i \in G
    BY <1>3, <1>4
  <2>2. G = 0..n
    <3> HIDE DEF G
    <3>1. G \subseteq 0..n
      BY DEF G
    <3> QED
      BY <2>1, <3>1, LeastFailure
  <2> QED
    BY <2>2
<1> QED
  BY <1>2, <1>5

LEMMA CacheBlockEffect ==
    ASSUME NEW p, PoolOK(p), NEW b \in Usable, NEW h \in Hashes,
           p.refCount[b] > 0, p.hash[b] \in {NoHash, h}
    PROVE  LET q == CacheBlock(p, b, h)
           IN  /\ PoolOK(q)
               /\ q.refCount = p.refCount
               /\ q.freeQueue = p.freeQueue
               /\ q.hash = [p.hash EXCEPT ![b] = h]
<1>1. b \in Blocks /\ b # Null
  BY BlockSets
<1>2. p \in Pool /\ p.refCount[b] \in Nat
  BY <1>1 DEF PoolOK, Pool
<1>3. PoolOK(CacheBlock(p, b, h))
  BY <1>1, CacheBlockOK
<1>4. CacheBlock(p, b, h) = [p EXCEPT !.hash[b] = h, !.hashMap[h] = Append(p.hashMap[h], b)]
  BY <1>1, <1>2 DEF CacheBlock
<1> QED
  BY <1>2, <1>3, <1>4 DEF Pool

(* Labelling changes the hashes of the labelled blocks only.               *)
(* The hashes are new labels of the table's blocks, or the ones they have. *)
LabelsFit(p, table, hs, upTo) ==
    \A i \in 1..upTo : /\ hs[i] \in Hashes
                       /\ p.refCount[table[i]] > 0
                       /\ p.hash[table[i]] \in {NoHash, hs[i]}

Labelled(p, q, table, hs, upTo) ==
    /\ PoolOK(q) /\ q.refCount = p.refCount /\ q.freeQueue = p.freeQueue
    /\ \A b \in Blocks : \/ q.hash[b] = p.hash[b]
                         \/ \E i \in 1..upTo : b = table[i] /\ q.hash[b] = hs[i]

LEMMA CacheRangeEffect ==
    ASSUME NEW p, PoolOK(p), NEW table \in Seq(Usable), IsInjective(table),
           NEW hs, NEW from \in Nat, NEW upTo \in Nat, upTo <= Len(table),
           LabelsFit(p, table, hs, upTo)
    PROVE  Labelled(p, CacheRange(p, table, hs, from, upTo), table, hs, upTo)
<1> DEFINE n == Monus(upTo, from)
           Good(x, i) == Labelled(p, x, table, hs, upTo)
<1>1. n \in Nat /\ \A i \in 1..n : from + i \in 1..upTo
  BY DEF Monus
<1>2. PICK f : IsLabelRun(f, p, table, hs, from, n) /\ CacheRange(p, table, hs, from, upTo) = f[n]
  <2> HIDE DEF Good
  <2>1. n = Monus(upTo, from)
    OBVIOUS
  <2> HIDE DEF n
  <2> QED
    BY <1>1, <2>1, CacheRangeRun
<1>3. Good(f[0], 0)
  BY <1>2 DEF Labelled, IsLabelRun
<1>4. ASSUME NEW i \in 1..n, Good(f[i - 1], i - 1)
      PROVE  Good(f[i], i)
  <2> DEFINE x == f[i - 1]
             k == from + i
             c == table[k]
  <2>1. k \in 1..upTo /\ k \in 1..Len(table) /\ c \in Usable /\ c \in Blocks
    BY <1>1, BlockSets
  <2>2. \A j \in 1..upTo : table[j] = c => j = k
    BY <2>1 DEF IsInjective
  <2>3. /\ PoolOK(x) /\ x.refCount[c] > 0 /\ hs[k] \in Hashes
        /\ x.hash[c] \in {NoHash, hs[k]}
    <3>1. p.refCount[c] > 0 /\ hs[k] \in Hashes /\ p.hash[c] \in {NoHash, hs[k]}
      BY <2>1 DEF LabelsFit
    <3>2. PoolOK(x) /\ x.refCount = p.refCount
      BY <1>4 DEF Labelled
    <3>3. x.hash[c] = p.hash[c] \/ x.hash[c] = hs[k]
      BY <1>4, <2>1, <2>2 DEF Labelled
    <3> QED
      BY <3>1, <3>2, <3>3
  <2>4. f[i] = CacheBlock(x, c, hs[k])
    BY <1>2 DEF IsLabelRun
  <2>5. /\ PoolOK(f[i]) /\ f[i].refCount = x.refCount /\ f[i].freeQueue = x.freeQueue
        /\ f[i].hash = [x.hash EXCEPT ![c] = hs[k]]
    <3> HIDE DEF x, c, k, Good
    <3> QED
      BY <2>1, <2>3, <2>4, CacheBlockEffect
  <2>6. x.hash \in [Blocks -> Hashes \cup {NoHash}]
    BY <2>3 DEF PoolOK, Pool
  <2> QED
    BY <1>4, <2>1, <2>5, <2>6 DEF Labelled
<1>5. Good(f[n], n)
  <2> DEFINE G == {i \in 0..n : Good(f[i], i)}
  <2> HIDE DEF Good, n
  <2>1. 0 \in G /\ \A i \in 1..n : i - 1 \in G => i \in G
    BY <1>1, <1>3, <1>4
  <2>2. G = 0..n
    <3> HIDE DEF G
    <3>1. G \subseteq 0..n
      BY DEF G
    <3> QED
      BY <1>1, <2>1, <3>1, LeastFailure
  <2> QED
    BY <1>1, <2>2
<1> QED
  BY <1>2, <1>5

(* An allocate hands out one unreferenced block, unhashed.                 *)
LEMMA AllocateEffect ==
    ASSUME NEW p, PoolOK(p), Len(p.freeQueue) > 0
    PROVE  LET q == Allocate(p)
               b == Victim(p)
           IN  /\ PoolOK(q)
               /\ b \in Usable /\ p.refCount[b] = 0
               /\ q.refCount = [p.refCount EXCEPT ![b] = 1]
               /\ q.hash = [p.hash EXCEPT ![b] = NoHash]
               /\ Len(q.freeQueue) = Len(p.freeQueue) - 1
<1>1. p.freeQueue \in Seq(Usable) /\ CanAllocate(p)
  BY DEF PoolOK, Pool, CanAllocate
<1>2. /\ VictimIndex(p) \in 1..Len(p.freeQueue)
      /\ Victim(p) \in Usable
      /\ p.refCount[Victim(p)] = 0
  BY <1>1, VictimFree
<1>3. Len(RemoveAt(p.freeQueue, VictimIndex(p))) = Len(p.freeQueue) - 1
  BY <1>1, <1>2, RemoveAtProperties
<1>4. PoolOK(Allocate(p))
  BY <1>1, AllocateOK
<1> QED
  BY <1>2, <1>3, <1>4 DEF Allocate

(* What n allocates in a row hand out.                                     *)
Taken(p, x) ==
    /\ PoolOK(x.pool)
    /\ x.got \in Seq(Usable) /\ IsInjective(x.got)
    /\ \A b \in Blocks :
         IF b \in ToSet(x.got)
         THEN p.refCount[b] = 0 /\ x.pool.refCount[b] = 1 /\ x.pool.hash[b] = NoHash
         ELSE x.pool.refCount[b] = p.refCount[b] /\ x.pool.hash[b] = p.hash[b]

LEMMA TakeEffect ==
    ASSUME NEW p, NEW x, Taken(p, x), Len(x.pool.freeQueue) > 0
    PROVE  /\ Taken(p, Take(x))
           /\ Len(Take(x).got) = Len(x.got) + 1
           /\ Len(Take(x).pool.freeQueue) = Len(x.pool.freeQueue) - 1
<1> DEFINE q == Allocate(x.pool)
           c == Victim(x.pool)
<1>1. /\ PoolOK(q) /\ c \in Usable /\ x.pool.refCount[c] = 0
      /\ q.refCount = [x.pool.refCount EXCEPT ![c] = 1]
      /\ q.hash = [x.pool.hash EXCEPT ![c] = NoHash]
      /\ Len(q.freeQueue) = Len(x.pool.freeQueue) - 1
  BY AllocateEffect DEF Taken
<1> HIDE DEF q, c
<1>2. Take(x).pool = q /\ Take(x).got = Append(x.got, c)
  BY DEF Take, q, c
<1>3. /\ x.pool.refCount \in [Blocks -> Nat]
      /\ x.pool.hash \in [Blocks -> Hashes \cup {NoHash}]
  BY DEF Taken, PoolOK, Pool
<1>4. c \in Blocks /\ c \notin ToSet(x.got)
  BY <1>1, BlockSets DEF Taken
<1>5. /\ Append(x.got, c) \in Seq(Usable)
      /\ Len(Append(x.got, c)) = Len(x.got) + 1
      /\ IsInjective(Append(x.got, c))
      /\ ToSet(Append(x.got, c)) = ToSet(x.got) \cup {c}
  BY <1>1, <1>4, AppendDistinct DEF Taken
<1>6. ASSUME NEW b \in Blocks
      PROVE  IF b \in ToSet(x.got) \cup {c}
             THEN p.refCount[b] = 0 /\ q.refCount[b] = 1 /\ q.hash[b] = NoHash
             ELSE q.refCount[b] = p.refCount[b] /\ q.hash[b] = p.hash[b]
  BY <1>1, <1>3, <1>4 DEF Taken
<1> QED
  BY <1>1, <1>2, <1>5, <1>6 DEF Taken

LEMMA AllocateManyEffect ==
    ASSUME NEW p, PoolOK(p), NEW n \in Nat, n <= Len(p.freeQueue)
    PROVE  Taken(p, AllocateMany(p, n)) /\ Len(AllocateMany(p, n).got) = n
<1> DEFINE Good(x, i) == /\ Taken(p, x) /\ Len(x.got) = i
                         /\ Len(x.pool.freeQueue) = Len(p.freeQueue) - i
<1>1. Len(p.freeQueue) \in Nat
  BY DEF PoolOK, Pool
<1>2. PICK f : /\ f[0] = [pool |-> p, got |-> <<>>]
               /\ \A i \in 1..n : f[i] = Take(f[i - 1])
               /\ AllocateMany(p, n) = f[n]
  BY AllocateManyRun
<1>3. Good(f[0], 0)
  <2>1. f[0].pool = p /\ f[0].got = <<>> /\ ToSet(f[0].got) = {} /\ IsInjective(f[0].got)
    BY <1>2 DEF ToSet, IsInjective
  <2> QED
    BY <1>1, <2>1 DEF Taken
<1>4. ASSUME NEW i \in 1..n, Good(f[i - 1], i - 1)
      PROVE  Good(f[i], i)
  <2> DEFINE x == f[i - 1]
  <2>1. f[i] = Take(x)
    BY <1>2
  <2>2. Taken(p, x) /\ Len(x.got) = i - 1 /\ Len(x.pool.freeQueue) = Len(p.freeQueue) - (i - 1)
    BY <1>4
  <2> HIDE DEF x
  <2>3. /\ Taken(p, f[i]) /\ Len(f[i].got) = Len(x.got) + 1
        /\ Len(f[i].pool.freeQueue) = Len(x.pool.freeQueue) - 1
    <3>1. Len(x.pool.freeQueue) > 0
      BY <1>1, <2>2
    <3> QED
      BY <2>1, <2>2, <3>1, TakeEffect
  <2> QED
    BY <1>1, <2>2, <2>3
<1>5. Good(f[n], n)
  <2> DEFINE G == {i \in 0..n : Good(f[i], i)}
  <2> HIDE DEF Good
  <2>1. 0 \in G /\ \A i \in 1..n : i - 1 \in G => i \in G
    BY <1>3, <1>4
  <2>2. G = 0..n
    <3> HIDE DEF G
    <3>1. G \subseteq 0..n
      BY DEF G
    <3> QED
      BY <2>1, <3>1, LeastFailure
  <2> QED
    BY <2>2
<1> QED
  BY <1>2, <1>5

-----------------------------------------------------------------------------
(* Reference counts.  Since no table lists a block twice, the references   *)
(* to a block are as many as the requests that use it.                     *)

Users(blocks, b) == {r \in DOMAIN blocks : b \in ToSet(blocks[r])}

TablesOK(blocks) ==
    /\ IsFiniteSet(DOMAIN blocks)
    /\ \A r \in DOMAIN blocks : blocks[r] \in Seq(Usable) /\ IsInjective(blocks[r])

RefsOK(p, blocks) ==
    \A b \in Usable : p.refCount[b] = Cardinality(Users(blocks, b))

LEMMA UsersFinite ==
    ASSUME NEW blocks, TablesOK(blocks), NEW b
    PROVE  IsFiniteSet(Users(blocks, b)) /\ Cardinality(Users(blocks, b)) \in Nat
<1>1. Users(blocks, b) \in SUBSET (DOMAIN blocks)
  BY DEF Users
<1>2. IsFiniteSet(Users(blocks, b))
  BY <1>1, FS_Subset DEF TablesOK
<1> QED
  BY <1>2, FS_CardinalityType

LEMMA HoldersAreUsers ==
    ASSUME NEW kv, TablesOK(kv.blocks), NEW b
    PROVE  Cardinality(Holders(kv, b)) = Cardinality(Users(kv.blocks, b))
<1> DEFINE U == Users(kv.blocks, b)
           H == Holders(kv, b)
           at(r) == CHOOSE i \in DOMAIN kv.blocks[r] : kv.blocks[r][i] = b
           f == [r \in U |-> <<r, at(r)>>]
<1>1. \A r \in U : r \in DOMAIN kv.blocks /\ at(r) \in DOMAIN kv.blocks[r]
                   /\ kv.blocks[r][at(r)] = b
  BY DEF Users, ToSet
<1>2. \A x : x \in H <=> \E r \in DOMAIN kv.blocks :
                           \E i \in DOMAIN kv.blocks[r] : kv.blocks[r][i] = b /\ x = <<r, i>>
  BY DEF Holders
<1>3. \A r \in DOMAIN kv.blocks : \A i \in DOMAIN kv.blocks[r] :
         kv.blocks[r][i] = b => r \in U /\ at(r) = i
  <2> TAKE r \in DOMAIN kv.blocks
  <2> TAKE i \in DOMAIN kv.blocks[r]
  <2> HAVE kv.blocks[r][i] = b
  <2>1. r \in U
    BY DEF Users, ToSet
  <2>2. IsInjective(kv.blocks[r])
    BY DEF TablesOK
  <2> QED
    BY <1>1, <2>1, <2>2 DEF IsInjective
<1> HIDE DEF U, H, at
<1>4. f \in [U -> H]
  BY <1>1, <1>2
<1>5. \A r, q \in U : f[r] = f[q] => r = q
  OBVIOUS
<1>6. \A x \in H : \E r \in U : f[r] = x
  BY <1>2, <1>3
<1>7. f \in Bijection(U, H)
  BY <1>4, <1>5, <1>6 DEF Bijection, Injection, Surjection, IsInjective
<1>8. ExistsBijection(U, H) /\ IsFiniteSet(U)
  BY <1>7, UsersFinite DEF ExistsBijection, U
<1> QED
  BY <1>8, FS_Bijection DEF U, H

LEMMA RefsAreExact ==
    ASSUME NEW kv, TablesOK(kv.blocks)
    PROVE  RefExactOf(kv) <=> RefsOK(kv.pool, kv.blocks)
BY HoldersAreUsers DEF RefExactOf, RefsOK

(* A table that gains the blocks `more`, each counted once more.           *)
LEMMA RefsGrow ==
    ASSUME NEW p, NEW blocks, TablesOK(blocks), RefsOK(p, blocks),
           NEW q, NEW r, NEW table \in Seq(Usable), IsInjective(table), NEW more,
           more \cap ToSet(Lookup(blocks, r, <<>>)) = {},
           ToSet(table) = ToSet(Lookup(blocks, r, <<>>)) \cup more,
           \A b \in Usable : q.refCount[b] = IF b \in more THEN p.refCount[b] + 1
                                             ELSE p.refCount[b]
    PROVE  TablesOK(Put(blocks, r, table)) /\ RefsOK(q, Put(blocks, r, table))
<1> DEFINE new == Put(blocks, r, table)
<1>1. /\ DOMAIN new = DOMAIN blocks \cup {r}
      /\ \A s \in DOMAIN new : new[s] = IF s = r THEN table ELSE blocks[s]
  BY DEF Put
<1> HIDE DEF new
<1>2. TablesOK(new)
  BY <1>1, FS_AddElement DEF TablesOK
<1>3. ToSet(<<>>) = {}
  BY DEF ToSet
<1>4. ASSUME NEW b \in Usable
      PROVE  q.refCount[b] = Cardinality(Users(new, b))
  <2>1. CASE b \in more
    <3>1. Users(new, b) = Users(blocks, b) \cup {r} /\ r \notin Users(blocks, b)
      BY <1>1, <1>3, <2>1 DEF Users, Lookup
    <3> QED
      BY <2>1, <3>1, UsersFinite, FS_AddElement DEF RefsOK
  <2>2. CASE b \notin more
    <3>1. Users(new, b) = Users(blocks, b)
      BY <1>1, <1>3, <2>2 DEF Users, Lookup
    <3> QED
      BY <2>2, <3>1 DEF RefsOK
  <2> QED
    BY <2>1, <2>2
<1> QED
  BY <1>2, <1>4 DEF RefsOK, new

(* A table that goes away, with one reference to each of its blocks.       *)
LEMMA RefsDrop ==
    ASSUME NEW p, NEW blocks, TablesOK(blocks), RefsOK(p, blocks), NEW q, NEW r,
           \A b \in Usable : q.refCount[b] = IF b \in ToSet(Lookup(blocks, r, <<>>))
                                             THEN p.refCount[b] - 1 ELSE p.refCount[b]
    PROVE  TablesOK(Drop(blocks, r)) /\ RefsOK(q, Drop(blocks, r))
<1> DEFINE new == Drop(blocks, r)
<1>1. /\ DOMAIN new = DOMAIN blocks \ {r}
      /\ \A s \in DOMAIN new : new[s] = blocks[s]
  BY DEF Drop, Restrict
<1> HIDE DEF new
<1>2. TablesOK(new)
  BY <1>1, FS_RemoveElement DEF TablesOK
<1>3. ToSet(<<>>) = {}
  BY DEF ToSet
<1>4. ASSUME NEW b \in Usable
      PROVE  q.refCount[b] = Cardinality(Users(new, b))
  <2>1. Users(new, b) = Users(blocks, b) \ {r}
    BY <1>1 DEF Users
  <2>2. r \in Users(blocks, b) <=> b \in ToSet(Lookup(blocks, r, <<>>))
    BY <1>3 DEF Users, Lookup
  <2> QED
    <3>1. IsFiniteSet(Users(blocks, b))
      BY UsersFinite
    <3>2. Cardinality(Users(new, b)) = IF r \in Users(blocks, b)
                                       THEN Cardinality(Users(blocks, b)) - 1
                                       ELSE Cardinality(Users(blocks, b))
      BY <2>1, <3>1, FS_RemoveElement
    <3>3. p.refCount[b] = Cardinality(Users(blocks, b))
      BY DEF RefsOK
    <3> QED
      BY <2>2, <3>2, <3>3
<1> QED
  BY <1>2, <1>4 DEF RefsOK, new

(* A block in a table is referenced.                                       *)
LEMMA ListedReferenced ==
    ASSUME NEW p, NEW blocks, TablesOK(blocks), RefsOK(p, blocks),
           NEW r \in DOMAIN blocks, NEW b \in ToSet(blocks[r])
    PROVE  b \in Usable /\ p.refCount[b] > 0
<1>1. b \in Usable
  BY DEF TablesOK, ToSet
<1>2. r \in Users(blocks, b)
  BY DEF Users
<1>3. Cardinality(Users(blocks, b)) # 0
  BY <1>2, UsersFinite, FS_EmptySet
<1> QED
  BY <1>1, <1>3, UsersFinite DEF RefsOK

-----------------------------------------------------------------------------
(* The inductive invariant of the manager.  PrefixMatches alone is not     *)
(* preserved by cache_blocks, which labels a block that a fork may share:  *)
(* the sharers must agree on its position and, while it has no label, on   *)
(* the whole prompt.                                                       *)

SharedAlike(kv, prompt) ==
    \A r, s \in DOMAIN kv.blocks :
        \A i \in DOMAIN kv.blocks[r], j \in DOMAIN kv.blocks[s] :
            kv.blocks[r][i] = kv.blocks[s][j] =>
                /\ i = j
                /\ prompt[r] = prompt[s] \/ kv.pool.hash[kv.blocks[r][i]] # NoHash

PromptOK(tokens) ==
    tokens \in Seq(Nat) /\ ToSet(BlockHashes(tokens)) \subseteq Hashes

HashesOK(kv, prompt) ==
    /\ \A r \in DOMAIN kv.blocks : PromptOK(prompt[r])
    /\ \A r \in DOMAIN kv.hashes :
         PromptOK(prompt[r]) /\ kv.hashes[r] = BlockHashes(prompt[r])
    /\ \A r \in DOMAIN kv.computed : kv.computed[r] \in Nat

IsManager(kv) ==
    kv = [pool |-> kv.pool, blocks |-> kv.blocks,
          computed |-> kv.computed, hashes |-> kv.hashes]

KVOK(kv, prompt) ==
    /\ IsManager(kv)
    /\ PoolOK(kv.pool)
    /\ TablesOK(kv.blocks)
    /\ RefsOK(kv.pool, kv.blocks)
    /\ HashesOK(kv, prompt)
    /\ PrefixMatchesOf(kv, prompt)
    /\ SharedAlike(kv, prompt)

LEMMA NoKeysEmpty == DOMAIN NoKeys = {}
BY DEF NoKeys

LEMMA NewKVOK == ASSUME NEW prompt PROVE KVOK(NewKV, prompt)
<1> USE NoKeysEmpty
<1>1. /\ NewKV.pool = NewPool /\ NewKV.blocks = NoKeys
      /\ NewKV.computed = NoKeys /\ NewKV.hashes = NoKeys
  BY DEF NewKV
<1>2. IsManager(NewKV)
  BY DEF IsManager, NewKV
<1>3. TablesOK(NoKeys)
  BY FS_EmptySet DEF TablesOK
<1>4. RefsOK(NewPool, NoKeys)
  <2>1. \A b : Users(NoKeys, b) = {}
    BY DEF Users
  <2> QED
    BY <2>1, FS_EmptySet, BlockSets DEF RefsOK, NewPool
<1> QED
  BY <1>1, <1>2, <1>3, <1>4, NewPoolOK
     DEF KVOK, HashesOK, PrefixMatchesOf, SharedAlike

(* BlockHashes: the i-th hash is the prefix of i blocks.                   *)
LEMMA BlockHashesProperties ==
    ASSUME NEW tokens, PromptOK(tokens)
    PROVE  LET hs == BlockHashes(tokens)
           IN  /\ Len(hs) \in Nat /\ DOMAIN hs = 1..Len(hs)
               /\ Len(tokens) \in Nat
               /\ \A i \in 1..Len(hs) :
                    /\ hs[i] \in Hashes
                    /\ hs[i] = SubSeq(tokens, 1, i * BlockSize)
                    /\ i * BlockSize \in Nat /\ i * BlockSize <= Len(tokens)
               /\ \A i, j \in 1..Len(hs) : hs[i] = hs[j] => i = j
<1> DEFINE hs == BlockHashes(tokens)
           m == Len(tokens) \div BlockSize
<1>1. tokens \in Seq(Nat)
  BY DEF PromptOK
<1>2. Len(tokens) \in Nat /\ m \in Nat
  BY <1>1, KVAssumption
<1>3. \A i \in 1..m : i * BlockSize \in Nat /\ i * BlockSize <= Len(tokens)
  BY <1>2, KVAssumption
<1>4. hs = [i \in 1..m |-> SubSeq(tokens, 1, i * BlockSize)]
  BY DEF BlockHashes
<1>5. DOMAIN hs = 1..m /\ Len(hs) = m
  <2> HIDE DEF m
  <2>1. hs \in Seq({SubSeq(tokens, 1, i * BlockSize) : i \in 1..m})
    <3> DEFINE e(i) == SubSeq(tokens, 1, i * BlockSize)
               E == {e(i) : i \in 1..m}
    <3>1. \A i \in 1..m : e(i) \in E
      OBVIOUS
    <3> HIDE DEF e, E
    <3>2. [i \in 1..m |-> e(i)] \in Seq(E)
      BY <1>2, <3>1, IsASeq
    <3> QED
      BY <1>4, <3>2 DEF e, E
  <2> HIDE DEF hs
  <2> QED
    BY <1>2, <1>4, <2>1
<1>6. \A i \in 1..m : hs[i] = SubSeq(tokens, 1, i * BlockSize) /\ hs[i] \in Hashes
  BY <1>4, <1>5 DEF PromptOK, ToSet
<1>7. \A i \in 1..m : Len(SubSeq(tokens, 1, i * BlockSize)) = i * BlockSize
  BY <1>1, <1>2, <1>3
<1>8. \A i, j \in 1..m : hs[i] = hs[j] => i = j
  <2>1. \A i, j \in 1..m : i * BlockSize = j * BlockSize => i = j
    BY <1>2, KVAssumption
  <2> QED
    <3> HIDE DEF hs, m
    <3>1. \A i \in 1..m : Len(hs[i]) = i * BlockSize
      BY <1>6, <1>7
    <3> QED
      BY <2>1, <3>1
<1> QED
  BY <1>2, <1>3, <1>5, <1>6, <1>8

LEMMA HitLengthProperties ==
    ASSUME NEW p, NEW hs, Len(hs) \in Nat
    PROVE  /\ HitLength(p, hs) \in 0..Len(hs)
           /\ \A i \in 1..HitLength(p, hs) : HasCached(p, hs[i])
<1> DEFINE S == {n \in 0..Len(hs) : \A i \in 1..n : HasCached(p, hs[i])}
           R == {Len(hs) - n : n \in S}
<1>1. 0 \in S /\ S \subseteq 0..Len(hs)
  OBVIOUS
<1>2. R \subseteq Nat /\ R # {}
  BY <1>1
<1>3. PICK k \in R : \A j \in R : k <= j
  <2> HIDE DEF R
  <2> QED
    BY <1>2, NatMinimum
<1>4. \E x \in S : \A y \in S : x >= y
  <2> HIDE DEF S
  <2>1. PICK x \in S : k = Len(hs) - x
    BY <1>3
  <2>2. \A y \in S : Len(hs) - x <= Len(hs) - y
    BY <1>3, <2>1
  <2> QED
    BY <1>1, <2>2
<1>5. Max(S) \in S
  <2> HIDE DEF S
  <2> QED
    BY <1>4 DEF Max
<1> QED
  BY <1>5 DEF HitLength

-----------------------------------------------------------------------------
(* Each operation keeps the invariant.                                     *)

LEMMA FreeRequestOK ==
    ASSUME NEW kv, NEW prompt, KVOK(kv, prompt), NEW r
    PROVE  KVOK(FreeRequest(kv, r), prompt)
<1> DEFINE new == FreeRequest(kv, r)
           bs == Table(kv, r)
<1>1. bs \in Seq(Usable) /\ IsInjective(bs)
  BY DEF KVOK, TablesOK, Table, Lookup, IsInjective
<1>2. \A b \in ToSet(bs) : kv.pool.refCount[b] > 0
  <2>1. CASE r \in DOMAIN kv.blocks
    BY <2>1, ListedReferenced DEF KVOK, Table, Lookup
  <2>2. CASE r \notin DOMAIN kv.blocks
    BY <2>2 DEF Table, Lookup, ToSet
  <2> QED
    BY <2>1, <2>2
<1>3. /\ PoolOK(new.pool) /\ new.pool.hash = kv.pool.hash
      /\ \A b \in Blocks : new.pool.refCount[b] = IF b \in ToSet(bs)
                                                   THEN kv.pool.refCount[b] - 1
                                                   ELSE kv.pool.refCount[b]
  <2>1. PoolOK(kv.pool)
    BY DEF KVOK
  <2> HIDE DEF bs
  <2>2. new.pool = FreeAll(kv.pool, bs)
    BY DEF FreeRequest, bs
  <2> QED
    BY <1>1, <1>2, <2>1, <2>2, FreeAllEffect
<1>4. /\ new.blocks = Drop(kv.blocks, r)
      /\ new.computed = Drop(kv.computed, r)
      /\ new.hashes = Drop(kv.hashes, r)
      /\ IsManager(new)
  BY DEF FreeRequest, IsManager
<1> HIDE DEF new
<1>5. TablesOK(new.blocks) /\ RefsOK(new.pool, new.blocks)
  <2>1. TablesOK(kv.blocks) /\ RefsOK(kv.pool, kv.blocks) /\ Usable \subseteq Blocks
    BY BlockSets DEF KVOK
  <2>2. bs = Lookup(kv.blocks, r, <<>>)
    BY DEF Table
  <2> HIDE DEF bs
  <2> QED
    BY <1>3, <1>4, <2>1, <2>2, RefsDrop
<1>6. /\ DOMAIN new.blocks = DOMAIN kv.blocks \ {r}
      /\ \A s \in DOMAIN new.blocks : new.blocks[s] = kv.blocks[s]
      /\ DOMAIN new.computed \subseteq DOMAIN kv.computed
      /\ \A s \in DOMAIN new.computed : new.computed[s] = kv.computed[s]
      /\ DOMAIN new.hashes \subseteq DOMAIN kv.hashes
      /\ \A s \in DOMAIN new.hashes : new.hashes[s] = kv.hashes[s]
  BY <1>4 DEF Drop, Restrict
<1>7. HashesOK(new, prompt)
  BY <1>6 DEF KVOK, HashesOK
<1>8. PrefixMatchesOf(new, prompt)
  BY <1>3, <1>6 DEF KVOK, PrefixMatchesOf
<1>9. SharedAlike(new, prompt)
  BY <1>3, <1>6 DEF KVOK, SharedAlike
<1> QED
  BY <1>3, <1>4, <1>5, <1>7, <1>8, <1>9 DEF KVOK, new

LEMMA ManagerUpdates ==
    ASSUME NEW kv, IsManager(kv), NEW p, NEW x
    PROVE  /\ [kv EXCEPT !.pool = p, !.blocks = x] =
                [pool |-> p, blocks |-> x, computed |-> kv.computed, hashes |-> kv.hashes]
           /\ [kv EXCEPT !.pool = p, !.computed = x] =
                [pool |-> p, blocks |-> kv.blocks, computed |-> x, hashes |-> kv.hashes]
<1>1. PICK a, b, c, d : kv = [pool |-> a, blocks |-> b, computed |-> c, hashes |-> d]
  BY Zenon DEF IsManager
<1> DEFINE m == [pool |-> p, blocks |-> b, computed |-> c, hashes |-> d]
<1>2. [kv EXCEPT !.pool = p] = m
  BY <1>1
<1>3. [kv EXCEPT !.pool = p, !.blocks = x] = [[kv EXCEPT !.pool = p] EXCEPT !.blocks = x]
  BY <1>1
<1>4. [kv EXCEPT !.pool = p, !.computed = x] = [[kv EXCEPT !.pool = p] EXCEPT !.computed = x]
  BY <1>1
<1>5. /\ [m EXCEPT !.blocks = x] = [pool |-> p, blocks |-> x, computed |-> c, hashes |-> d]
      /\ [m EXCEPT !.computed = x] = [pool |-> p, blocks |-> b, computed |-> x, hashes |-> d]
  OBVIOUS
<1>6. kv.blocks = b /\ kv.computed = c /\ kv.hashes = d
  BY <1>1
<1> HIDE DEF m
<1> QED
  BY <1>2, <1>3, <1>4, <1>5, <1>6

(* Only unreferenced blocks change: the tables keep their labels.          *)
LEMMA SameTablesOK ==
    ASSUME NEW kv, NEW prompt, KVOK(kv, prompt), NEW q, PoolOK(q),
           \A b \in Usable : q.refCount[b] = kv.pool.refCount[b],
           \A b \in Usable : kv.pool.refCount[b] > 0 => q.hash[b] = kv.pool.hash[b]
    PROVE  KVOK([kv EXCEPT !.pool = q], prompt)
<1> DEFINE new == [kv EXCEPT !.pool = q]
<1>1. /\ new.pool = q /\ new.blocks = kv.blocks
      /\ new.computed = kv.computed /\ new.hashes = kv.hashes
      /\ IsManager(new)
  BY DEF KVOK, IsManager
<1> HIDE DEF new
<1>2. RefsOK(q, kv.blocks) /\ HashesOK(new, prompt)
  BY <1>1 DEF KVOK, RefsOK, HashesOK
<1>3. \A r \in DOMAIN kv.blocks : \A i \in DOMAIN kv.blocks[r] :
         q.hash[kv.blocks[r][i]] = kv.pool.hash[kv.blocks[r][i]]
  <2> TAKE r \in DOMAIN kv.blocks
  <2> TAKE i \in DOMAIN kv.blocks[r]
  <2>1. kv.blocks[r][i] \in ToSet(kv.blocks[r])
    BY DEF ToSet
  <2> QED
    BY <2>1, ListedReferenced DEF KVOK
<1>4. PrefixMatchesOf(new, prompt)
  BY <1>1, <1>3 DEF KVOK, PrefixMatchesOf
<1>5. SharedAlike(new, prompt)
  BY <1>1, <1>3 DEF KVOK, SharedAlike
<1> QED
  BY <1>1, <1>2, <1>4, <1>5 DEF KVOK, new

(* Takes that are given back leave the counts as they were.                *)
LEMMA TakenGivenBack ==
    ASSUME NEW p, PoolOK(p), NEW x, Taken(p, x)
    PROVE  LET q == FreeAll(x.pool, x.got)
           IN  /\ PoolOK(q)
               /\ \A b \in Usable : q.refCount[b] = p.refCount[b]
               /\ \A b \in Usable : p.refCount[b] > 0 => q.hash[b] = p.hash[b]
<1> DEFINE q == FreeAll(x.pool, x.got)
<1>1. \A b \in ToSet(x.got) : b \in Usable /\ b \in Blocks
  BY BlockSets DEF Taken, ToSet
<1>2. \A b \in ToSet(x.got) : x.pool.refCount[b] > 0
  BY <1>1 DEF Taken
<1>3. /\ PoolOK(q) /\ q.hash = x.pool.hash
      /\ \A b \in Blocks : q.refCount[b] = IF b \in ToSet(x.got)
                                            THEN x.pool.refCount[b] - 1
                                            ELSE x.pool.refCount[b]
  BY <1>2, FreeAllEffect DEF Taken
<1> HIDE DEF q
<1>4. ASSUME NEW b \in Usable
      PROVE  q.refCount[b] = p.refCount[b] /\ (p.refCount[b] > 0 => q.hash[b] = p.hash[b])
  BY <1>3, BlockSets DEF Taken
<1> QED
  BY <1>3, <1>4 DEF q

LEMMA ConcatDistinct ==
    ASSUME NEW S, NEW s \in Seq(S), NEW t \in Seq(S), IsInjective(s), IsInjective(t),
           ToSet(s) \cap ToSet(t) = {}
    PROVE  /\ s \o t \in Seq(S)
           /\ IsInjective(s \o t)
           /\ ToSet(s \o t) = ToSet(s) \cup ToSet(t)
           /\ \A i \in DOMAIN (s \o t) :
                \/ i \in DOMAIN s /\ (s \o t)[i] = s[i]
                \/ (s \o t)[i] \in ToSet(t)
<1> DEFINE u == s \o t
           m == Len(s)
           n == Len(t)
<1>1. m \in Nat /\ n \in Nat /\ DOMAIN s = 1..m /\ DOMAIN t = 1..n
  OBVIOUS
<1>2. u \in Seq(S) /\ Len(u) = m + n /\ DOMAIN u = 1..(m + n)
  OBVIOUS
<1>3. \A i \in 1..(m + n) : u[i] = IF i <= m THEN s[i] ELSE t[i - m]
  BY ConcatProperties
<1> HIDE DEF u, m, n
<1>4. \A i \in 1..m : s[i] \in ToSet(s)
  BY <1>1 DEF ToSet
<1>5. \A i \in 1..n : t[i] \in ToSet(t)
  BY <1>1 DEF ToSet
<1>6. IsInjective(u)
  <2> SUFFICES ASSUME NEW i \in 1..(m + n), NEW j \in 1..(m + n), u[i] = u[j]
               PROVE  i = j
    BY <1>2 DEF IsInjective
  <2>1. CASE i <= m /\ j <= m
    BY <1>1, <1>3, <2>1 DEF IsInjective
  <2>2. CASE i > m /\ j > m
    <3>1. i - m \in 1..n /\ j - m \in 1..n /\ t[i - m] = t[j - m]
      BY <1>1, <1>3, <2>2
    <3>2. i - m = j - m
      BY <1>1, <3>1 DEF IsInjective
    <3> QED
      BY <1>1, <3>2
  <2>3. CASE i <= m /\ j > m
    BY <1>1, <1>3, <1>4, <1>5, <2>3
  <2>4. CASE i > m /\ j <= m
    BY <1>1, <1>3, <1>4, <1>5, <2>4
  <2> QED
    BY <1>1, <2>1, <2>2, <2>3, <2>4
<1>7. ToSet(u) = ToSet(s) \cup ToSet(t)
  <2>1. \A i \in 1..(m + n) : u[i] \in ToSet(s) \cup ToSet(t)
    <3> SUFFICES ASSUME NEW i \in 1..(m + n) PROVE u[i] \in ToSet(s) \cup ToSet(t)
      OBVIOUS
    <3>1. CASE i <= m
      BY <1>1, <1>3, <1>4, <3>1
    <3>2. CASE i > m
      <4>1. i - m \in 1..n /\ u[i] = t[i - m]
        BY <1>1, <1>3, <3>2
      <4> QED
        BY <1>5, <4>1
    <3> QED
      BY <1>1, <3>1, <3>2
  <2>2. \A i \in 1..m : u[i] = s[i]
    BY <1>1, <1>3
  <2>3. \A i \in 1..n : i + m \in 1..(m + n) /\ u[i + m] = t[i]
    BY <1>1, <1>3
  <2>4. ToSet(s) \subseteq ToSet(u)
    BY <1>1, <1>2, <2>2 DEF ToSet
  <2>5. ToSet(t) \subseteq ToSet(u)
    BY <1>1, <1>2, <2>3 DEF ToSet
  <2>6. ToSet(u) \subseteq ToSet(s) \cup ToSet(t)
    BY <1>2, <2>1 DEF ToSet
  <2> QED
    BY <2>4, <2>5, <2>6
<1>8. \A i \in DOMAIN u : (i \in DOMAIN s /\ u[i] = s[i]) \/ u[i] \in ToSet(t)
  BY <1>1, <1>2, <1>3, <1>5
<1> QED
  BY <1>2, <1>6, <1>7, <1>8 DEF u

LEMMA GrowTableOK ==
    ASSUME NEW kv, NEW prompt, KVOK(kv, prompt), NEW r, PromptOK(prompt[r]),
           NEW x, Taken(kv.pool, x)
    PROVE  KVOK([kv EXCEPT !.pool = x.pool,
                           !.blocks = Put(kv.blocks, r, Table(kv, r) \o x.got)], prompt)
<1> DEFINE old == Table(kv, r)
           table == old \o x.got
           grown == Put(kv.blocks, r, table)
           new == [kv EXCEPT !.pool = x.pool, !.blocks = grown]
<1>1. /\ new.pool = x.pool /\ new.blocks = grown
      /\ new.computed = kv.computed /\ new.hashes = kv.hashes
      /\ IsManager(new)
  <2> HIDE DEF grown
  <2>1. new = [pool |-> x.pool, blocks |-> grown,
               computed |-> kv.computed, hashes |-> kv.hashes]
    BY ManagerUpdates DEF KVOK
  <2> HIDE DEF new
  <2> QED
    BY <2>1 DEF IsManager
<1>2. /\ TablesOK(kv.blocks) /\ RefsOK(kv.pool, kv.blocks) /\ PoolOK(x.pool)
      /\ x.got \in Seq(Usable) /\ IsInjective(x.got) /\ Usable \subseteq Blocks
  BY BlockSets DEF KVOK, Taken
<1>3. /\ old = Lookup(kv.blocks, r, <<>>)
      /\ old \in Seq(Usable) /\ IsInjective(old)
  BY <1>2 DEF Table, Lookup, TablesOK, IsInjective
<1>4. \A s \in DOMAIN kv.blocks : \A b \in ToSet(kv.blocks[s]) :
         b \in Usable /\ b \notin ToSet(x.got) /\ x.pool.hash[b] = kv.pool.hash[b]
  BY <1>2, ListedReferenced DEF Taken
<1>5. r \in DOMAIN kv.blocks => old = kv.blocks[r]
  BY <1>3 DEF Lookup
<1>6. r \notin DOMAIN kv.blocks => old = <<>>
  BY <1>3 DEF Lookup
<1>7. ToSet(old) \cap ToSet(x.got) = {}
  BY <1>4, <1>5, <1>6 DEF ToSet
<1>8. /\ table \in Seq(Usable) /\ IsInjective(table)
      /\ ToSet(table) = ToSet(old) \cup ToSet(x.got)
      /\ \A i \in DOMAIN table : \/ i \in DOMAIN old /\ table[i] = old[i]
                                 \/ table[i] \in ToSet(x.got)
  BY <1>2, <1>3, <1>7, ConcatDistinct
<1> HIDE DEF new, grown, table, old
<1>9. \A b \in Usable : x.pool.refCount[b] = IF b \in ToSet(x.got)
                                             THEN kv.pool.refCount[b] + 1
                                             ELSE kv.pool.refCount[b]
  BY <1>2 DEF Taken
<1>10. TablesOK(new.blocks) /\ RefsOK(new.pool, new.blocks)
  <2> DEFINE more == ToSet(x.got)
  <2>1. /\ more \cap ToSet(Lookup(kv.blocks, r, <<>>)) = {}
        /\ ToSet(table) = ToSet(Lookup(kv.blocks, r, <<>>)) \cup more
    BY <1>3, <1>7, <1>8
  <2>2. \A b \in Usable : x.pool.refCount[b] = IF b \in more THEN kv.pool.refCount[b] + 1
                                               ELSE kv.pool.refCount[b]
    BY <1>9
  <2> HIDE DEF more
  <2>3. TablesOK(Put(kv.blocks, r, table)) /\ RefsOK(x.pool, Put(kv.blocks, r, table))
    BY <1>2, <1>8, <2>1, <2>2, RefsGrow
  <2> QED
    BY <1>1, <2>3 DEF grown
<1>11. /\ DOMAIN new.blocks = DOMAIN kv.blocks \cup {r}
       /\ \A s \in DOMAIN new.blocks : new.blocks[s] = IF s = r THEN table ELSE kv.blocks[s]
  BY <1>1 DEF Put, grown
<1>12. HashesOK(new, prompt)
  BY <1>1, <1>11 DEF KVOK, HashesOK
(* A position of a table is an old one or holds a block just taken.        *)
<1>13. ASSUME NEW s \in DOMAIN new.blocks, NEW i \in DOMAIN new.blocks[s]
       PROVE  \/ /\ s \in DOMAIN kv.blocks /\ i \in DOMAIN kv.blocks[s]
                 /\ new.blocks[s][i] = kv.blocks[s][i]
                 /\ new.blocks[s][i] \notin ToSet(x.got)
                 /\ new.pool.hash[new.blocks[s][i]] = kv.pool.hash[new.blocks[s][i]]
              \/ /\ s = r /\ new.blocks[s][i] \in ToSet(x.got)
                 /\ new.pool.hash[new.blocks[s][i]] = NoHash
  <2>1. ASSUME s \in DOMAIN kv.blocks, i \in DOMAIN kv.blocks[s],
               new.blocks[s][i] = kv.blocks[s][i]
        PROVE  /\ new.blocks[s][i] \notin ToSet(x.got)
               /\ new.pool.hash[new.blocks[s][i]] = kv.pool.hash[new.blocks[s][i]]
    <3>1. kv.blocks[s][i] \in ToSet(kv.blocks[s])
      BY <2>1 DEF ToSet
    <3> QED
      BY <1>1, <1>4, <2>1, <3>1
  <2>2. CASE s # r
    BY <1>11, <2>1, <2>2
  <2>3. CASE s = r
    <3>1. new.blocks[s] = table
      BY <1>11, <2>3
    <3>2. CASE i \in DOMAIN old /\ table[i] = old[i]
      <4>1. r \in DOMAIN kv.blocks /\ old = kv.blocks[r]
        BY <1>5, <1>6, <3>2
      <4> QED
        BY <2>1, <2>3, <3>1, <3>2, <4>1
    <3>3. CASE table[i] \in ToSet(x.got)
      <4>1. table[i] \in Blocks
        BY <1>2, <3>3 DEF ToSet
      <4> QED
        BY <1>1, <2>3, <3>1, <3>3, <4>1 DEF Taken
    <3> QED
      BY <1>8, <3>1, <3>2, <3>3
  <2> QED
    BY <2>2, <2>3
<1>14. PrefixMatchesOf(new, prompt)
  <2> SUFFICES ASSUME NEW s \in DOMAIN new.blocks, NEW i \in DOMAIN new.blocks[s],
                      new.pool.hash[new.blocks[s][i]] # NoHash
               PROVE  /\ i * BlockSize <= Len(prompt[s])
                      /\ new.pool.hash[new.blocks[s][i]] = SubSeq(prompt[s], 1, i * BlockSize)
    BY DEF PrefixMatchesOf
  <2> QED
    BY <1>13 DEF KVOK, PrefixMatchesOf
<1>15. SharedAlike(new, prompt)
  <2> SUFFICES ASSUME NEW s \in DOMAIN new.blocks, NEW t \in DOMAIN new.blocks,
                      NEW i \in DOMAIN new.blocks[s], NEW j \in DOMAIN new.blocks[t],
                      new.blocks[s][i] = new.blocks[t][j]
               PROVE  /\ i = j
                      /\ prompt[s] = prompt[t] \/ new.pool.hash[new.blocks[s][i]] # NoHash
    BY DEF SharedAlike
  <2>1. CASE new.blocks[s][i] \in ToSet(x.got)
    <3>1. s = r /\ t = r
      BY <1>13, <2>1
    <3> QED
      BY <1>8, <1>11, <3>1 DEF IsInjective
  <2>2. CASE new.blocks[s][i] \notin ToSet(x.got)
    BY <1>13, <2>2 DEF KVOK, SharedAlike
  <2> QED
    BY <2>1, <2>2
<1> QED
  BY <1>1, <1>2, <1>10, <1>12, <1>14, <1>15 DEF KVOK, new, grown, table, old

LEMMA MinLeast ==
    ASSUME NEW S, S \subseteq Nat, S # {}
    PROVE  Min(S) \in S /\ \A y \in S : Min(S) <= y
BY NatMinimum DEF Min

LEMMA BlocksForNat ==
    ASSUME NEW numTokens \in Nat, NEW numComputed \in Nat
    PROVE  BlocksFor(numTokens, numComputed) \in Nat
<1>1. Monus(numTokens, numComputed) \in Nat
  BY DEF Monus
<1>2. \A m \in Nat : CeilDiv(m, BlockSize) \in Nat
  BY KVAssumption DEF CeilDiv
<1> QED
  BY <1>1, <1>2 DEF BlocksFor

LEMMA AllocateSlotsOK ==
    ASSUME NEW kv, NEW prompt, KVOK(kv, prompt), NEW r, PromptOK(prompt[r]),
           NEW numTokens \in Nat, NEW numComputed \in Nat
    PROVE  KVOK(AllocateSlots(kv, r, numTokens, numComputed), prompt)
<1> DEFINE need == BlocksFor(numTokens, numComputed)
           free == Len(kv.pool.freeQueue)
           n    == Min({need, free})
           x    == AllocateMany(kv.pool, n)
<1>1. need \in Nat /\ free \in Nat /\ PoolOK(kv.pool)
  <2>1. need \in Nat
    BY BlocksForNat
  <2>2. PoolOK(kv.pool) /\ kv.pool.freeQueue \in Seq(Usable)
    BY DEF KVOK, PoolOK, Pool
  <2> QED
    BY <2>1, <2>2
<1>2. n \in Nat /\ n <= free
  <2> HIDE DEF need, free
  <2>1. Min({need, free}) \in {need, free} /\ Min({need, free}) <= free
    BY <1>1, MinLeast
  <2> QED
    BY <1>1, <2>1
<1>3. Taken(kv.pool, x)
  <2> HIDE DEF n
  <2> QED
    BY <1>1, <1>2, AllocateManyEffect
<1>4. AllocateSlots(kv, r, numTokens, numComputed) =
        IF need = 0 THEN kv
        ELSE IF need <= free
        THEN [kv EXCEPT !.pool = x.pool, !.blocks = Put(kv.blocks, r, Table(kv, r) \o x.got)]
        ELSE [kv EXCEPT !.pool = FreeAll(x.pool, x.got)]
  BY DEF AllocateSlots
<1> HIDE DEF need, free, n, x
<1>5. KVOK([kv EXCEPT !.pool = x.pool,
                      !.blocks = Put(kv.blocks, r, Table(kv, r) \o x.got)], prompt)
  BY <1>3, GrowTableOK
<1>6. KVOK([kv EXCEPT !.pool = FreeAll(x.pool, x.got)], prompt)
  BY <1>1, <1>3, TakenGivenBack, SameTablesOK
<1> QED
  BY <1>4, <1>5, <1>6

LEMMA ResetCacheOK ==
    ASSUME NEW kv, NEW prompt, KVOK(kv, prompt)
    PROVE  KVOK(ResetCache(kv), prompt)
<1> DEFINE p == ResetPrefixCache(kv.pool)
           new == [kv EXCEPT !.pool = p]
<1> SUFFICES ASSUME DOMAIN kv.blocks = {} PROVE KVOK(new, prompt)
  BY DEF ResetCache
<1>1. PoolOK(p)
  BY ResetPrefixCacheOK DEF KVOK
<1>2. p.refCount = kv.pool.refCount
  BY DEF ResetPrefixCache, KVOK, PoolOK, Pool
<1> HIDE DEF p
<1>3. /\ new.pool = p /\ new.blocks = kv.blocks
      /\ new.computed = kv.computed /\ new.hashes = kv.hashes
      /\ IsManager(new)
  BY DEF KVOK, IsManager
<1> HIDE DEF new
<1> QED
  BY <1>1, <1>2, <1>3
     DEF KVOK, TablesOK, RefsOK, HashesOK, PrefixMatchesOf, SharedAlike

(* A prefix lookup for a request without blocks.                           *)
LEMMA GetComputedBlocksOK ==
    ASSUME NEW kv, NEW prompt, KVOK(kv, prompt), NEW r, PromptOK(prompt[r]),
           Table(kv, r) = <<>>, NEW skip
    PROVE  KVOK(GetComputedBlocks(kv, r, prompt[r], skip), prompt)
<1> DEFINE hs    == BlockHashes(prompt[r])
           n     == HitLength(kv.pool, hs)
           table == [i \in 1..n |-> CachedBlock(kv.pool, hs[i])]
           p     == GetCachedAll(kv.pool, hs, n)
           new   == [pool     |-> p,
                     blocks   |-> Put(kv.blocks, r, table),
                     computed |-> Put(kv.computed, r, n * BlockSize),
                     hashes   |-> Put(kv.hashes, r, hs)]
<1> SUFFICES ASSUME CacheRead(prompt[r], skip) PROVE KVOK(new, prompt)
  BY DEF GetComputedBlocks, ComputedBlocks
<1>1. /\ Len(hs) \in Nat
      /\ Len(prompt[r]) \in Nat
      /\ \A i \in 1..Len(hs) : /\ hs[i] \in Hashes
                               /\ hs[i] = SubSeq(prompt[r], 1, i * BlockSize)
                               /\ i * BlockSize \in Nat /\ i * BlockSize <= Len(prompt[r])
      /\ \A i, j \in 1..Len(hs) : hs[i] = hs[j] => i = j
  BY BlockHashesProperties
<1>2. PoolOK(kv.pool) /\ TablesOK(kv.blocks) /\ RefsOK(kv.pool, kv.blocks)
  BY DEF KVOK
<1>3. hs = BlockHashes(prompt[r]) /\ PromptOK(prompt[r])
  OBVIOUS
<1> HIDE DEF hs
<1>4. n \in 0..Len(hs) /\ \A i \in 1..n : HasCached(kv.pool, hs[i])
  BY <1>1, HitLengthProperties
<1> HIDE DEF n
<1>5. n \in Nat /\ \A i \in 1..n : i \in 1..Len(hs)
  BY <1>1, <1>4
<1>6. /\ PoolOK(p) /\ p.hash = kv.pool.hash
      /\ \A b \in Blocks : p.refCount[b] =
            IF \E j \in 1..n : CachedBlock(kv.pool, hs[j]) = b
            THEN kv.pool.refCount[b] + 1 ELSE kv.pool.refCount[b]
  <2>1. \A i \in 1..n : hs[i] \in Hashes /\ HasCached(kv.pool, hs[i])
    BY <1>1, <1>4, <1>5
  <2>2. \A i, j \in 1..n : hs[i] = hs[j] => i = j
    BY <1>1, <1>5
  <2> QED
    BY <1>2, <1>5, <2>1, <2>2, GetCachedAllEffect
<1>7. \A i \in 1..n : /\ CachedBlock(kv.pool, hs[i]) \in Usable
                      /\ kv.pool.hash[CachedBlock(kv.pool, hs[i])] = hs[i]
  BY <1>1, <1>2, <1>4, <1>5, CachedBlockUsable
<1>8. /\ table \in Seq(Usable) /\ DOMAIN table = 1..n
      /\ \A i \in 1..n : table[i] \in Usable /\ kv.pool.hash[table[i]] = hs[i]
  <2>1. [i \in 1..n |-> CachedBlock(kv.pool, hs[i])] \in Seq(Usable)
    BY <1>5, <1>7, IsASeq
  <2> QED
    BY <1>7, <2>1
<1>9. \A b \in Blocks : p.refCount[b] = IF b \in ToSet(table)
                                         THEN kv.pool.refCount[b] + 1
                                         ELSE kv.pool.refCount[b]
  <2>1. \A b : b \in ToSet(table) <=> \E j \in 1..n : CachedBlock(kv.pool, hs[j]) = b
    BY DEF ToSet
  <2> QED
    BY <1>6, <2>1
<1>10. /\ new.pool = p /\ new.blocks = Put(kv.blocks, r, table)
       /\ new.computed = Put(kv.computed, r, n * BlockSize)
       /\ new.hashes = Put(kv.hashes, r, hs)
       /\ IsManager(new)
  <2> HIDE DEF p, table
  <2> QED
    BY DEF IsManager
<1> HIDE DEF new, p, table
<1>11. IsInjective(table)
  <2>1. \A i, j \in 1..n : hs[i] = hs[j] => i = j
    BY <1>1, <1>5
  <2> QED
    BY <1>8, <2>1 DEF IsInjective
<1>12. TablesOK(new.blocks) /\ RefsOK(new.pool, new.blocks)
  <2> DEFINE more == ToSet(table)
  <2>1. /\ more \cap ToSet(Lookup(kv.blocks, r, <<>>)) = {}
        /\ ToSet(table) = ToSet(Lookup(kv.blocks, r, <<>>)) \cup more
    BY DEF Table, ToSet
  <2>2. \A b \in Usable : p.refCount[b] = IF b \in more THEN kv.pool.refCount[b] + 1
                                           ELSE kv.pool.refCount[b]
    BY <1>9, BlockSets
  <2> HIDE DEF more
  <2>3. TablesOK(Put(kv.blocks, r, table)) /\ RefsOK(p, Put(kv.blocks, r, table))
    BY <1>2, <1>8, <1>11, <2>1, <2>2, RefsGrow
  <2> QED
    BY <1>10, <2>3
<1>13. /\ DOMAIN new.blocks = DOMAIN kv.blocks \cup {r}
       /\ \A s \in DOMAIN new.blocks : new.blocks[s] = IF s = r THEN table ELSE kv.blocks[s]
  BY <1>10 DEF Put
<1>14. HashesOK(new, prompt)
  <2>1. n * BlockSize \in Nat
    BY <1>5, KVAssumption
  <2> QED
    BY <1>3, <1>10, <1>13, <2>1 DEF KVOK, HashesOK, Put
<1>15. PrefixMatchesOf(new, prompt)
  <2> SUFFICES ASSUME NEW s \in DOMAIN new.blocks, NEW i \in DOMAIN new.blocks[s],
                      new.pool.hash[new.blocks[s][i]] # NoHash
               PROVE  /\ i * BlockSize <= Len(prompt[s])
                      /\ new.pool.hash[new.blocks[s][i]] = SubSeq(prompt[s], 1, i * BlockSize)
    BY DEF PrefixMatchesOf
  <2>1. CASE s = r
    <3>1. new.blocks[s] = table /\ i \in 1..n /\ new.pool.hash[table[i]] = hs[i]
      BY <1>6, <1>8, <1>10, <1>13, <2>1
    <3>2. i * BlockSize <= Len(prompt[r]) /\ hs[i] = SubSeq(prompt[r], 1, i * BlockSize)
      BY <1>1, <1>5, <3>1
    <3> QED
      BY <2>1, <3>1, <3>2
  <2>2. CASE s # r
    BY <1>6, <1>10, <1>13, <2>2 DEF KVOK, PrefixMatchesOf
  <2> QED
    BY <2>1, <2>2
(* A block the lookup finds in another table is at the same position.      *)
<1>16. ASSUME NEW s \in DOMAIN kv.blocks, NEW j \in DOMAIN kv.blocks[s],
              NEW i \in 1..n, kv.blocks[s][j] = table[i]
       PROVE  i = j /\ kv.pool.hash[table[i]] # NoHash
  <2>1. kv.pool.hash[table[i]] = hs[i] /\ hs[i] \in Hashes /\ hs[i] # NoHash
    BY <1>1, <1>5, <1>8, PoolAssumption
  <2>2. j * BlockSize <= Len(prompt[s]) /\ hs[i] = SubSeq(prompt[s], 1, j * BlockSize)
    BY <1>16, <2>1 DEF KVOK, PrefixMatchesOf
  <2>3. j \in Nat /\ j * BlockSize \in Nat
    <3>1. kv.blocks[s] \in Seq(Usable)
      BY <1>2 DEF TablesOK
    <3>2. j \in Nat
      BY <3>1
    <3> QED
      BY <3>2, KVAssumption
  <2>4. prompt[s] \in Seq(Nat)
    BY DEF KVOK, HashesOK, PromptOK
  <2>5. Len(SubSeq(prompt[s], 1, j * BlockSize)) = j * BlockSize
    BY <2>2, <2>3, <2>4
  <2>6. prompt[r] \in Seq(Nat)
    BY DEF PromptOK
  <2>7. Len(SubSeq(prompt[r], 1, i * BlockSize)) = i * BlockSize
    BY <1>1, <1>5, <2>6
  <2>8. i * BlockSize = j * BlockSize
    BY <1>1, <1>5, <2>2, <2>5, <2>7
  <2>9. i = j
    BY <2>3, <2>8, KVAssumption
  <2> QED
    BY <2>1, <2>9
<1>17. SharedAlike(new, prompt)
  <2> SUFFICES ASSUME NEW s \in DOMAIN new.blocks, NEW t \in DOMAIN new.blocks,
                      NEW i \in DOMAIN new.blocks[s], NEW j \in DOMAIN new.blocks[t],
                      new.blocks[s][i] = new.blocks[t][j]
               PROVE  /\ i = j
                      /\ prompt[s] = prompt[t] \/ new.pool.hash[new.blocks[s][i]] # NoHash
    BY DEF SharedAlike
  <2>1. CASE s # r /\ t # r
    BY <1>6, <1>10, <1>13, <2>1 DEF KVOK, SharedAlike
  <2>2. CASE s = r /\ t = r
    BY <1>11, <1>13, <2>2 DEF IsInjective
  <2>3. CASE s = r /\ t # r
    <3>1. /\ t \in DOMAIN kv.blocks /\ j \in DOMAIN kv.blocks[t] /\ i \in 1..n
          /\ new.blocks[s][i] = table[i] /\ kv.blocks[t][j] = table[i]
      BY <1>8, <1>13, <2>3
    <3>2. i = j /\ kv.pool.hash[table[i]] # NoHash
      BY <1>16, <3>1
    <3> QED
      BY <1>6, <1>10, <3>1, <3>2
  <2>4. CASE s # r /\ t = r
    <3>1. /\ s \in DOMAIN kv.blocks /\ i \in DOMAIN kv.blocks[s] /\ j \in 1..n
          /\ new.blocks[s][i] = table[j] /\ kv.blocks[s][i] = table[j]
      BY <1>8, <1>13, <2>4
    <3>2. j = i /\ kv.pool.hash[table[j]] # NoHash
      BY <1>16, <3>1
    <3> QED
      BY <1>6, <1>10, <3>1, <3>2
  <2> QED
    BY <2>1, <2>2, <2>3, <2>4
<1> QED
  BY <1>6, <1>10, <1>12, <1>14, <1>15, <1>17 DEF KVOK

LEMMA FullBlocks ==
    ASSUME NEW n \in Nat, NEW k \in Nat, k <= n \div BlockSize
    PROVE  k * BlockSize <= n
<1>1. BlockSize \in Nat /\ BlockSize > 0
  BY KVAssumption
<1>2. n \div BlockSize \in Nat /\ (n \div BlockSize) * BlockSize <= n
  BY <1>1
<1>3. k * BlockSize <= (n \div BlockSize) * BlockSize
  <2> DEFINE m == n \div BlockSize
  <2>1. m \in Nat /\ k <= m
    BY <1>2
  <2> HIDE DEF m
  <2>2. PICK d \in Nat : m = k + d
    <3>1. m - k \in Nat /\ m = k + (m - k)
      BY <2>1
    <3> QED
      BY <3>1
  <2>3. m * BlockSize = k * BlockSize + d * BlockSize /\ d * BlockSize \in Nat /\ k * BlockSize \in Nat
    BY <1>1, <2>2
  <2>4. k * BlockSize <= m * BlockSize
    BY <2>3
  <2> QED
    BY <2>4 DEF m
<1>4. k * BlockSize \in Nat /\ (n \div BlockSize) * BlockSize \in Nat
  BY <1>1, <1>2
<1> QED
  BY <1>2, <1>3, <1>4

(* What cache_blocks may do to the label at a position of any table.       *)
LabelAfter(kv, p, prompt, r, numComputed, s, j) ==
    LET b == kv.blocks[s][j]
    IN  \/ p.hash[b] = kv.pool.hash[b]
        \/ /\ kv.pool.hash[b] = NoHash
           /\ j \in DOMAIN kv.blocks[r] /\ kv.blocks[r][j] = b
           /\ j * BlockSize <= numComputed /\ j * BlockSize <= Len(prompt[r])
           /\ prompt[s] = prompt[r]
           /\ p.hash[b] = SubSeq(prompt[r], 1, j * BlockSize)
           /\ p.hash[b] \in Hashes

Relabelled(kv, q, prompt, r, numComputed) ==
    /\ q.blocks = kv.blocks /\ q.hashes = kv.hashes
    /\ q.computed = Put(kv.computed, r, numComputed) /\ IsManager(q)
    /\ PoolOK(q.pool) /\ q.pool.refCount = kv.pool.refCount
    /\ \A s \in DOMAIN kv.blocks : \A j \in DOMAIN kv.blocks[s] :
         LabelAfter(kv, q.pool, prompt, r, numComputed, s, j)

LEMMA CacheBlocksLabels ==
    ASSUME NEW kv, NEW prompt, KVOK(kv, prompt), NEW r, NEW numComputed \in Nat,
           EnablePrefixCaching, r \in DOMAIN kv.blocks, r \in DOMAIN kv.hashes
    PROVE  Relabelled(kv, CacheBlocks(kv, r, numComputed), prompt, r, numComputed)
<1> DEFINE table == kv.blocks[r]
           hs    == kv.hashes[r]
           from  == Lookup(kv.computed, r, 0) \div BlockSize
           upTo  == Min({numComputed \div BlockSize, Len(hs), Len(table)})
           p     == CacheRange(kv.pool, table, hs, from, upTo)
           comp  == Put(kv.computed, r, numComputed)
           new   == [kv EXCEPT !.pool = p, !.computed = comp]
<1>1. CacheBlocks(kv, r, numComputed) = new
  BY DEF CacheBlocks
<1>2. /\ PoolOK(kv.pool) /\ TablesOK(kv.blocks) /\ RefsOK(kv.pool, kv.blocks)
      /\ table \in Seq(Usable) /\ IsInjective(table)
  BY DEF KVOK, TablesOK
<1>3. /\ Len(hs) \in Nat
      /\ \A i \in 1..Len(hs) : hs[i] \in Hashes /\ hs[i] = SubSeq(prompt[r], 1, i * BlockSize)
  <2>1. PromptOK(prompt[r]) /\ hs = BlockHashes(prompt[r])
    BY DEF KVOK, HashesOK
  <2> HIDE DEF hs
  <2> QED
    BY <2>1, BlockHashesProperties
<1>4. Lookup(kv.computed, r, 0) \in Nat
  BY DEF KVOK, HashesOK, Lookup
<1>5. from \in Nat /\ numComputed \div BlockSize \in Nat
  BY <1>4, KVAssumption
<1>6. Len(table) \in Nat /\ DOMAIN table = 1..Len(table)
  BY <1>2
<1>7. upTo \in Nat /\ upTo <= Len(hs) /\ upTo <= Len(table) /\ upTo <= numComputed \div BlockSize
  <2> DEFINE a == numComputed \div BlockSize
             b == Len(hs)
             c == Len(table)
  <2>1. a \in Nat /\ b \in Nat /\ c \in Nat
    BY <1>3, <1>5, <1>6
  <2> HIDE DEF a, b, c
  <2>2. /\ Min({a, b, c}) \in {a, b, c}
        /\ Min({a, b, c}) <= a /\ Min({a, b, c}) <= b /\ Min({a, b, c}) <= c
    BY <2>1, MinLeast
  <2>3. Min({a, b, c}) \in Nat
    BY <2>1, <2>2
  <2> QED
    BY <2>2, <2>3 DEF a, b, c
<1> HIDE DEF from, upTo, hs
(* Labelling a block again gives it the label it has.                      *)
<1>8. ASSUME NEW i \in 1..upTo
      PROVE  /\ i \in DOMAIN table /\ hs[i] \in Hashes
             /\ hs[i] = SubSeq(prompt[r], 1, i * BlockSize)
             /\ kv.pool.refCount[table[i]] > 0
             /\ kv.pool.hash[table[i]] \in {NoHash, hs[i]}
  <2>1. i \in DOMAIN table /\ i \in 1..Len(hs)
    BY <1>3, <1>6, <1>7
  <2>2. hs[i] \in Hashes /\ hs[i] = SubSeq(prompt[r], 1, i * BlockSize)
    BY <1>3, <2>1
  <2>3. table[i] \in ToSet(table)
    BY <2>1 DEF ToSet
  <2>4. kv.pool.refCount[table[i]] > 0
    BY <1>2, <2>3, ListedReferenced
  <2>5. kv.pool.hash[table[i]] \in {NoHash, SubSeq(prompt[r], 1, i * BlockSize)}
    BY <2>1 DEF KVOK, PrefixMatchesOf
  <2> QED
    BY <2>1, <2>2, <2>4, <2>5
<1>9. /\ PoolOK(p) /\ p.refCount = kv.pool.refCount
      /\ \A b \in Blocks : \/ p.hash[b] = kv.pool.hash[b]
                           \/ \E i \in 1..upTo : b = table[i] /\ p.hash[b] = hs[i]
  <2>1. LabelsFit(kv.pool, table, hs, upTo)
    BY <1>8 DEF LabelsFit
  <2> HIDE DEF table
  <2>2. from \in Nat /\ upTo \in Nat /\ upTo <= Len(table)
    BY <1>5, <1>7
  <2>3. Labelled(kv.pool, CacheRange(kv.pool, table, hs, from, upTo), table, hs, upTo)
    BY <1>2, <2>1, <2>2, CacheRangeEffect
  <2> QED
    BY <2>3 DEF Labelled
<1>10. /\ new.pool = p /\ new.blocks = kv.blocks
       /\ new.computed = comp /\ new.hashes = kv.hashes
       /\ IsManager(new)
  <2> HIDE DEF p, comp
  <2>1. new = [pool |-> p, blocks |-> kv.blocks, computed |-> comp, hashes |-> kv.hashes]
    BY ManagerUpdates DEF KVOK
  <2> HIDE DEF new
  <2> QED
    BY <2>1 DEF IsManager
<1> HIDE DEF new, p
<1>11. ASSUME NEW s \in DOMAIN kv.blocks, NEW j \in DOMAIN kv.blocks[s],
              p.hash[kv.blocks[s][j]] # kv.pool.hash[kv.blocks[s][j]]
       PROVE  /\ kv.pool.hash[kv.blocks[s][j]] = NoHash
              /\ j \in DOMAIN table /\ table[j] = kv.blocks[s][j]
              /\ j * BlockSize <= numComputed /\ j * BlockSize <= Len(prompt[r])
              /\ prompt[s] = prompt[r]
              /\ p.hash[kv.blocks[s][j]] = SubSeq(prompt[r], 1, j * BlockSize)
              /\ p.hash[kv.blocks[s][j]] \in Hashes
  <2> DEFINE b == kv.blocks[s][j]
  <2>1. b \in Blocks
    <3>1. kv.blocks[s] \in Seq(Usable)
      BY <1>2 DEF TablesOK
    <3> QED
      BY <3>1, BlockSets
  <2>2. PICK i \in 1..upTo : b = table[i] /\ p.hash[b] = hs[i]
    BY <1>9, <1>11, <2>1
  <2>3. /\ kv.pool.hash[b] = NoHash /\ i \in DOMAIN table
        /\ hs[i] \in Hashes /\ hs[i] = SubSeq(prompt[r], 1, i * BlockSize)
    BY <1>8, <1>11, <2>2
  <2>4. i = j /\ prompt[r] = prompt[s]
    BY <2>2, <2>3 DEF KVOK, SharedAlike
  <2>5. i * BlockSize <= numComputed
    <3>1. i \in Nat /\ i <= numComputed \div BlockSize
      BY <1>5, <1>7
    <3> QED
      BY <3>1, FullBlocks
  <2>6. i * BlockSize <= Len(prompt[r])
    <3>1. hs = BlockHashes(prompt[r]) /\ PromptOK(prompt[r])
      BY DEF KVOK, HashesOK, hs
    <3>2. i \in 1..Len(hs)
      BY <1>3, <1>7
    <3> QED
      BY <3>1, <3>2, BlockHashesProperties
  <2> QED
    BY <2>2, <2>3, <2>4, <2>5, <2>6
<1>12. ASSUME NEW s \in DOMAIN kv.blocks, NEW j \in DOMAIN kv.blocks[s]
       PROVE  LabelAfter(kv, new.pool, prompt, r, numComputed, s, j)
  BY <1>10, <1>11 DEF LabelAfter
<1> QED
  BY <1>1, <1>9, <1>10, <1>12 DEF Relabelled

LEMMA CacheBlocksOK ==
    ASSUME NEW kv, NEW prompt, KVOK(kv, prompt), NEW r, NEW numComputed \in Nat
    PROVE  KVOK(CacheBlocks(kv, r, numComputed), prompt)
<1> SUFFICES ASSUME EnablePrefixCaching, r \in DOMAIN kv.blocks, r \in DOMAIN kv.hashes
             PROVE  KVOK(CacheBlocks(kv, r, numComputed), prompt)
  BY DEF CacheBlocks
<1> DEFINE new == CacheBlocks(kv, r, numComputed)
<1>1. Relabelled(kv, new, prompt, r, numComputed)
  BY CacheBlocksLabels
<1> HIDE DEF new
<1>2. /\ new.blocks = kv.blocks /\ new.hashes = kv.hashes
      /\ new.computed = Put(kv.computed, r, numComputed) /\ IsManager(new)
      /\ PoolOK(new.pool) /\ new.pool.refCount = kv.pool.refCount
  BY <1>1 DEF Relabelled
<1>3. ASSUME NEW s \in DOMAIN kv.blocks, NEW j \in DOMAIN kv.blocks[s]
      PROVE  LabelAfter(kv, new.pool, prompt, r, numComputed, s, j)
  BY <1>1 DEF Relabelled
<1>4. HashesOK(new, prompt)
  BY <1>2 DEF KVOK, HashesOK, Put
<1>5. PrefixMatchesOf(new, prompt)
  <2> SUFFICES ASSUME NEW s \in DOMAIN kv.blocks, NEW j \in DOMAIN kv.blocks[s],
                      new.pool.hash[kv.blocks[s][j]] # NoHash
               PROVE  /\ j * BlockSize <= Len(prompt[s])
                      /\ new.pool.hash[kv.blocks[s][j]] = SubSeq(prompt[s], 1, j * BlockSize)
    BY <1>2 DEF PrefixMatchesOf
  <2>1. CASE new.pool.hash[kv.blocks[s][j]] = kv.pool.hash[kv.blocks[s][j]]
    BY <2>1 DEF KVOK, PrefixMatchesOf
  <2>2. CASE new.pool.hash[kv.blocks[s][j]] # kv.pool.hash[kv.blocks[s][j]]
    BY <1>3, <2>2 DEF LabelAfter
  <2> QED
    BY <2>1, <2>2
<1>6. SharedAlike(new, prompt)
  <2>1. ASSUME NEW s \in DOMAIN kv.blocks, NEW j \in DOMAIN kv.blocks[s],
               kv.pool.hash[kv.blocks[s][j]] # NoHash
        PROVE  new.pool.hash[kv.blocks[s][j]] # NoHash
    BY <1>3, <2>1 DEF LabelAfter
  <2> QED
    BY <1>2, <2>1 DEF KVOK, SharedAlike
<1>7. TablesOK(new.blocks) /\ RefsOK(new.pool, new.blocks)
  BY <1>2 DEF KVOK, RefsOK
<1> QED
  BY <1>2, <1>4, <1>5, <1>6, <1>7 DEF KVOK, new

(* A fork into a request without blocks, which starts with the same tokens.*)
LEMMA ForkBlocksOK ==
    ASSUME NEW kv, NEW prompt, KVOK(kv, prompt), NEW parent, NEW child,
           child \notin DOMAIN kv.blocks, prompt[child] = prompt[parent]
    PROVE  KVOK(ForkBlocks(kv, parent, child), prompt)
<1> SUFFICES ASSUME parent \in DOMAIN kv.blocks
             PROVE  KVOK(ForkBlocks(kv, parent, child), prompt)
  BY DEF ForkBlocks
<1> DEFINE table == kv.blocks[parent]
           p     == IncrefAll(kv.pool, table)
           new   == ForkBlocks(kv, parent, child)
<1>1. /\ PoolOK(kv.pool) /\ TablesOK(kv.blocks) /\ RefsOK(kv.pool, kv.blocks)
      /\ table \in Seq(Usable) /\ IsInjective(table)
      /\ PromptOK(prompt[child])
  BY DEF KVOK, TablesOK, HashesOK
<1>2. \A b \in ToSet(table) : kv.pool.refCount[b] > 0
  BY <1>1, ListedReferenced
<1>3. /\ PoolOK(p) /\ p.hash = kv.pool.hash
      /\ \A b \in Blocks : p.refCount[b] = IF b \in ToSet(table)
                                            THEN kv.pool.refCount[b] + 1
                                            ELSE kv.pool.refCount[b]
  <2> HIDE DEF table
  <2> QED
    BY <1>1, <1>2, IncrefAllEffect
<1>4. /\ new.pool = p /\ new.blocks = Put(kv.blocks, child, table)
      /\ new.computed = IF parent \in DOMAIN kv.computed
                        THEN Put(kv.computed, child, kv.computed[parent]) ELSE kv.computed
      /\ new.hashes = IF parent \in DOMAIN kv.hashes
                      THEN Put(kv.hashes, child, kv.hashes[parent]) ELSE kv.hashes
      /\ IsManager(new)
  BY DEF ForkBlocks, IsManager
<1> HIDE DEF new, p
<1>5. TablesOK(new.blocks) /\ RefsOK(new.pool, new.blocks)
  <2> DEFINE more == ToSet(table)
  <2>1. /\ more \cap ToSet(Lookup(kv.blocks, child, <<>>)) = {}
        /\ ToSet(table) = ToSet(Lookup(kv.blocks, child, <<>>)) \cup more
    <3>1. Lookup(kv.blocks, child, <<>>) = <<>> /\ ToSet(<<>>) = {}
      BY DEF Lookup, ToSet
    <3> HIDE DEF table
    <3> QED
      BY <3>1
  <2>2. \A b \in Usable : p.refCount[b] = IF b \in more THEN kv.pool.refCount[b] + 1
                                           ELSE kv.pool.refCount[b]
    BY <1>3, BlockSets
  <2> HIDE DEF more, table
  <2>3. TablesOK(Put(kv.blocks, child, table)) /\ RefsOK(p, Put(kv.blocks, child, table))
    BY <1>1, <2>1, <2>2, RefsGrow
  <2> QED
    BY <1>4, <2>3
<1>6. /\ DOMAIN new.blocks = DOMAIN kv.blocks \cup {child}
      /\ \A s \in DOMAIN new.blocks :
            new.blocks[s] = IF s = child THEN table ELSE kv.blocks[s]
  BY <1>4 DEF Put
<1>7. HashesOK(new, prompt)
  <2>1. \A r \in DOMAIN new.blocks : PromptOK(prompt[r])
    BY <1>1, <1>6 DEF KVOK, HashesOK
  <2>2. \A r \in DOMAIN new.hashes : PromptOK(prompt[r]) /\ new.hashes[r] = BlockHashes(prompt[r])
    BY <1>1, <1>4 DEF KVOK, HashesOK, Put
  <2>3. \A r \in DOMAIN new.computed : new.computed[r] \in Nat
    BY <1>4 DEF KVOK, HashesOK, Put
  <2> QED
    BY <2>1, <2>2, <2>3 DEF HashesOK
<1>8. PrefixMatchesOf(new, prompt)
  BY <1>3, <1>4, <1>6 DEF KVOK, PrefixMatchesOf
<1>9. SharedAlike(new, prompt)
  BY <1>3, <1>4, <1>6 DEF KVOK, SharedAlike
<1> QED
  BY <1>3, <1>4, <1>5, <1>7, <1>8, <1>9 DEF KVOK, new

-----------------------------------------------------------------------------
(* The effect of each call on the tables, as its caller sees it, when no   *)
(* request was forked: two requests share labelled blocks only.            *)

Label(kv, r, i) == kv.pool.hash[Table(kv, r)[i]]

Unshared(kv) ==
    \A r, s \in DOMAIN kv.blocks : \A i \in DOMAIN kv.blocks[r] :
        r # s /\ kv.blocks[r][i] \in ToSet(kv.blocks[s])
            => kv.pool.hash[kv.blocks[r][i]] # NoHash

OthersKept(kv, q, r) ==
    \A s : s # r => /\ Table(q, s) = Table(kv, s)
                    /\ \A i \in DOMAIN Table(kv, s) : Label(q, s, i) = Label(kv, s, i)

TablesKept(kv, q) ==
    /\ q.blocks = kv.blocks
    /\ \A s \in DOMAIN kv.blocks : \A i \in DOMAIN kv.blocks[s] :
          q.pool.hash[kv.blocks[s][i]] = kv.pool.hash[kv.blocks[s][i]]

(* m blocks more, which nobody else has.                                   *)
Grown(kv, q, r, m) ==
    LET old == Table(kv, r)
        new == Table(q, r)
    IN  /\ Len(new) = Len(old) + m
        /\ \A i \in DOMAIN old : new[i] = old[i] /\ Label(q, r, i) = Label(kv, r, i)
        /\ \A i \in DOMAIN new \ DOMAIN old :
             Label(q, r, i) = NoHash /\ \A s : s # r => new[i] \notin ToSet(Table(q, s))

LEMMA TableType ==
    ASSUME NEW kv, TablesOK(kv.blocks), NEW r
    PROVE  /\ Table(kv, r) \in Seq(Usable) /\ IsInjective(Table(kv, r))
           /\ Len(Table(kv, r)) \in Nat /\ DOMAIN Table(kv, r) = 1..Len(Table(kv, r))
           /\ r \notin DOMAIN kv.blocks => Table(kv, r) = <<>>
           /\ r \in DOMAIN kv.blocks => Table(kv, r) = kv.blocks[r]
<1>1. Table(kv, r) \in Seq(Usable) /\ IsInjective(Table(kv, r))
  BY DEF TablesOK, Table, Lookup, IsInjective
<1>2. /\ r \notin DOMAIN kv.blocks => Table(kv, r) = <<>>
      /\ r \in DOMAIN kv.blocks => Table(kv, r) = kv.blocks[r]
  BY DEF Table, Lookup
<1> QED
  BY <1>1, <1>2

LEMMA UnsharedTables ==
    ASSUME NEW kv
    PROVE  Unshared(kv) <=>
             \A r, s : \A i \in DOMAIN Table(kv, r) :
                r # s /\ Table(kv, r)[i] \in ToSet(Table(kv, s)) => Label(kv, r, i) # NoHash
<1>1. \A r : r \notin DOMAIN kv.blocks => Table(kv, r) = <<>>
  BY DEF Table, Lookup
<1>2. \A r \in DOMAIN kv.blocks : Table(kv, r) = kv.blocks[r]
  BY DEF Table, Lookup
<1>3. DOMAIN <<>> = {} /\ ToSet(<<>>) = {}
  BY DEF ToSet
<1>4. ASSUME Unshared(kv), NEW r, NEW s, NEW i \in DOMAIN Table(kv, r),
             r # s, Table(kv, r)[i] \in ToSet(Table(kv, s))
      PROVE  Label(kv, r, i) # NoHash
  <2>1. r \in DOMAIN kv.blocks /\ s \in DOMAIN kv.blocks
    BY <1>1, <1>3, <1>4
  <2> QED
    BY <1>2, <1>4, <2>1 DEF Unshared, Label
<1>5. ASSUME \A r, s : \A i \in DOMAIN Table(kv, r) :
                r # s /\ Table(kv, r)[i] \in ToSet(Table(kv, s)) => Label(kv, r, i) # NoHash
      PROVE  Unshared(kv)
  BY <1>2, <1>5 DEF Unshared, Label
<1> QED
  BY <1>4, <1>5

(* Blocks keep apart when those of one request change.                     *)
LEMMA UnsharedKept ==
    ASSUME NEW kv, Unshared(kv), NEW q, NEW r, OthersKept(kv, q, r),
           \A i \in DOMAIN Table(q, r) :
              \/ Label(q, r, i) # NoHash
              \/ \A s : s # r => Table(q, r)[i] \notin ToSet(Table(q, s))
    PROVE  Unshared(q)
<1> SUFFICES ASSUME NEW t, NEW s, NEW i \in DOMAIN Table(q, t), t # s,
                    Table(q, t)[i] \in ToSet(Table(q, s))
             PROVE  Label(q, t, i) # NoHash
  BY UnsharedTables
<1>1. CASE t = r
  BY <1>1
<1>2. CASE t # r /\ s # r
  <2>1. /\ Table(q, t) = Table(kv, t) /\ Table(q, s) = Table(kv, s)
        /\ Label(q, t, i) = Label(kv, t, i)
    BY <1>2 DEF OthersKept
  <2> QED
    BY <2>1, UnsharedTables
<1>3. CASE t # r /\ s = r
  <2>1. PICK j \in DOMAIN Table(q, r) : Table(q, r)[j] = Table(q, t)[i]
    BY <1>3 DEF ToSet
  <2>2. Table(q, r)[j] \in ToSet(Table(q, t))
    BY <2>1 DEF ToSet
  <2>3. Label(q, r, j) # NoHash
    BY <1>3, <2>1, <2>2
  <2> QED
    BY <2>1, <2>3 DEF Label
<1> QED
  BY <1>1, <1>2, <1>3

LEMMA FreeRequestEffect ==
    ASSUME NEW kv, NEW prompt, KVOK(kv, prompt), Unshared(kv), NEW r
    PROVE  LET q == FreeRequest(kv, r)
           IN  /\ OthersKept(kv, q, r) /\ Table(q, r) = <<>>
               /\ DOMAIN q.blocks = DOMAIN kv.blocks \ {r} /\ Unshared(q)
<1> DEFINE q == FreeRequest(kv, r)
<1>1. q.blocks = Drop(kv.blocks, r) /\ q.pool.hash = kv.pool.hash
  <2> DEFINE bs == Table(kv, r)
  <2>1. PoolOK(kv.pool) /\ TablesOK(kv.blocks) /\ RefsOK(kv.pool, kv.blocks)
    BY DEF KVOK
  <2>2. bs \in Seq(Usable) /\ IsInjective(bs)
    BY <2>1, TableType
  <2>3. \A b \in ToSet(bs) : kv.pool.refCount[b] > 0
    <3>1. CASE r \in DOMAIN kv.blocks
      BY <2>1, <3>1, ListedReferenced DEF Table, Lookup
    <3>2. CASE r \notin DOMAIN kv.blocks
      BY <3>2 DEF Table, Lookup, ToSet
    <3> QED
      BY <3>1, <3>2
  <2>4. q.pool = FreeAll(kv.pool, bs) /\ q.blocks = Drop(kv.blocks, r)
    BY DEF FreeRequest
  <2> HIDE DEF bs, q
  <2> QED
    BY <2>1, <2>2, <2>3, <2>4, FreeAllEffect
<1> HIDE DEF q
<1>2. /\ DOMAIN q.blocks = DOMAIN kv.blocks \ {r}
      /\ \A s \in DOMAIN q.blocks : q.blocks[s] = kv.blocks[s]
  BY <1>1 DEF Drop, Restrict
<1>3. Table(q, r) = <<>> /\ \A s : s # r => Table(q, s) = Table(kv, s)
  BY <1>2 DEF Table, Lookup
<1>4. OthersKept(kv, q, r)
  BY <1>1, <1>3 DEF OthersKept, Label
<1>5. Unshared(q)
  BY <1>3, <1>4, UnsharedKept
<1> QED
  BY <1>2, <1>3, <1>4, <1>5 DEF q

(* allocate_slots with enough free blocks, and without.                    *)
LEMMA TakenEffect ==
    ASSUME NEW kv, NEW prompt, KVOK(kv, prompt), Unshared(kv), NEW r, NEW x, Taken(kv.pool, x),
           NEW q, q.pool = x.pool, q.blocks = Put(kv.blocks, r, Table(kv, r) \o x.got)
    PROVE  /\ OthersKept(kv, q, r) /\ Grown(kv, q, r, Len(x.got))
           /\ DOMAIN q.blocks = DOMAIN kv.blocks \cup {r} /\ Unshared(q)
<1> DEFINE old == Table(kv, r)
           new == old \o x.got
<1>1. TablesOK(kv.blocks) /\ RefsOK(kv.pool, kv.blocks)
  BY DEF KVOK
<1>2. /\ old \in Seq(Usable) /\ Len(old) \in Nat /\ DOMAIN old = 1..Len(old)
      /\ x.got \in Seq(Usable) /\ Len(x.got) \in Nat /\ DOMAIN x.got = 1..Len(x.got)
  BY <1>1, TableType DEF Taken
<1>3. /\ DOMAIN q.blocks = DOMAIN kv.blocks \cup {r} /\ q.blocks[r] = new
      /\ \A s \in DOMAIN kv.blocks : s # r => q.blocks[s] = kv.blocks[s]
  BY DEF Put
<1>4. Table(q, r) = new /\ \A s : s # r => Table(q, s) = Table(kv, s)
  <2> HIDE DEF new
  <2> QED
    BY <1>3 DEF Table, Lookup
(* A block of a table is referenced, so it was not taken.                  *)
<1>5. ASSUME NEW s, NEW b \in ToSet(Table(kv, s))
      PROVE  b \notin ToSet(x.got) /\ x.pool.hash[b] = kv.pool.hash[b]
  <2>1. s \in DOMAIN kv.blocks /\ Table(kv, s) = kv.blocks[s]
    BY <1>5 DEF Table, Lookup, ToSet
  <2>2. b \in Usable /\ kv.pool.refCount[b] > 0
    BY <1>1, <1>5, <2>1, ListedReferenced
  <2> QED
    BY <2>2, BlockSets DEF Taken
<1>6. OthersKept(kv, q, r)
  <2> SUFFICES ASSUME NEW s, s # r, NEW i \in DOMAIN Table(kv, s)
               PROVE  Label(q, s, i) = Label(kv, s, i)
    BY <1>4 DEF OthersKept
  <2>1. Table(kv, s)[i] \in ToSet(Table(kv, s))
    BY DEF ToSet
  <2> QED
    BY <1>4, <1>5, <2>1 DEF Label
<1>7. /\ Len(new) = Len(old) + Len(x.got)
      /\ \A i \in DOMAIN old : new[i] = old[i]
      /\ \A i \in DOMAIN new \ DOMAIN old : new[i] \in ToSet(x.got)
  <2>1. Len(new) = Len(old) + Len(x.got) /\ \A i \in DOMAIN old : new[i] = old[i]
    BY <1>2
  <2>2. ASSUME NEW i \in DOMAIN new \ DOMAIN old PROVE new[i] \in ToSet(x.got)
    <3>1. i - Len(old) \in DOMAIN x.got /\ new[i] = x.got[i - Len(old)]
      BY <1>2, <2>1
    <3> QED
      BY <3>1 DEF ToSet
  <2> QED
    BY <2>1, <2>2
<1> HIDE DEF new, old
<1>8. ASSUME NEW i \in DOMAIN old PROVE Label(q, r, i) = Label(kv, r, i)
  <2>1. old[i] \in ToSet(Table(kv, r))
    BY DEF ToSet, old
  <2> QED
    BY <1>4, <1>5, <1>7, <2>1 DEF Label, old
<1>9. ASSUME NEW i \in DOMAIN new \ DOMAIN old
      PROVE  Label(q, r, i) = NoHash /\ \A s : s # r => new[i] \notin ToSet(Table(q, s))
  <2>1. new[i] \in ToSet(x.got)
    BY <1>7
  <2>2. new[i] \in Blocks
    BY <1>2, <2>1, BlockSets DEF ToSet
  <2>3. x.pool.hash[new[i]] = NoHash
    BY <2>1, <2>2 DEF Taken
  <2> QED
    BY <1>4, <1>5, <2>1, <2>3 DEF Label
<1>10. Grown(kv, q, r, Len(x.got))
  BY <1>4, <1>7, <1>8, <1>9 DEF Grown, old
<1>11. Unshared(q)
  <2>1. ASSUME NEW i \in DOMAIN new, i \in DOMAIN old, Label(q, r, i) = NoHash,
               NEW s, s # r, new[i] \in ToSet(Table(q, s))
        PROVE  FALSE
    <3>1. Label(kv, r, i) = NoHash /\ old[i] \in ToSet(Table(kv, s))
      BY <1>4, <1>7, <1>8, <2>1
    <3> QED
      BY <2>1, <3>1, UnsharedTables DEF old
  <2>2. \A i \in DOMAIN Table(q, r) :
              \/ Label(q, r, i) # NoHash
              \/ \A s : s # r => Table(q, r)[i] \notin ToSet(Table(q, s))
    BY <1>4, <1>9, <2>1
  <2> QED
    BY <1>6, <2>2, UnsharedKept
<1> QED
  BY <1>3, <1>6, <1>10, <1>11

LEMMA TablesKeptEffect ==
    ASSUME NEW kv, Unshared(kv), NEW q, TablesKept(kv, q)
    PROVE  /\ Unshared(q) /\ \A r : OthersKept(kv, q, r)
           /\ \A s : /\ Table(q, s) = Table(kv, s)
                     /\ \A i \in DOMAIN Table(kv, s) : Label(q, s, i) = Label(kv, s, i)
<1>1. \A s : Table(q, s) = Table(kv, s)
  BY DEF TablesKept, Table, Lookup
<1>2. ASSUME NEW s, NEW i \in DOMAIN Table(kv, s) PROVE Label(q, s, i) = Label(kv, s, i)
  <2>1. s \in DOMAIN kv.blocks /\ Table(kv, s) = kv.blocks[s]
    BY <1>2 DEF Table, Lookup
  <2> QED
    BY <1>1, <1>2, <2>1 DEF TablesKept, Label
<1>3. Unshared(q)
  BY DEF Unshared, TablesKept
<1> QED
  BY <1>1, <1>2, <1>3 DEF OthersKept

LEMMA AllocateSlotsEffect ==
    ASSUME NEW kv, NEW prompt, KVOK(kv, prompt), Unshared(kv), NEW r,
           NEW numTokens \in Nat, NEW numComputed \in Nat,
           CanAllocateSlots(kv, numTokens, numComputed)
    PROVE  LET q == AllocateSlots(kv, r, numTokens, numComputed)
           IN  /\ OthersKept(kv, q, r) /\ Grown(kv, q, r, BlocksFor(numTokens, numComputed))
               /\ DOMAIN q.blocks \subseteq DOMAIN kv.blocks \cup {r} /\ Unshared(q)
<1> DEFINE need == BlocksFor(numTokens, numComputed)
           free == Len(kv.pool.freeQueue)
           n    == Min({need, free})
           x    == AllocateMany(kv.pool, n)
           q    == AllocateSlots(kv, r, numTokens, numComputed)
<1>1. need \in Nat /\ free \in Nat /\ PoolOK(kv.pool) /\ need <= free
  <2>1. need \in Nat
    BY BlocksForNat
  <2>2. PoolOK(kv.pool) /\ kv.pool.freeQueue \in Seq(Usable)
    BY DEF KVOK, PoolOK, Pool
  <2> QED
    BY <2>1, <2>2 DEF CanAllocateSlots
<1>2. n = need
  <2> HIDE DEF need, free
  <2>1. Min({need, free}) \in {need, free} /\ Min({need, free}) <= free /\ Min({need, free}) <= need
    BY <1>1, MinLeast
  <2> QED
    BY <1>1, <2>1
<1>3. Taken(kv.pool, x) /\ Len(x.got) = need
  <2> HIDE DEF n, need, free
  <2>1. n \in Nat /\ n <= Len(kv.pool.freeQueue)
    BY <1>1, <1>2 DEF free
  <2> QED
    BY <1>1, <1>2, <2>1, AllocateManyEffect
<1>4. q = IF need = 0 THEN kv
          ELSE IF need <= free
          THEN [kv EXCEPT !.pool = x.pool, !.blocks = Put(kv.blocks, r, Table(kv, r) \o x.got)]
          ELSE [kv EXCEPT !.pool = FreeAll(x.pool, x.got)]
  BY DEF AllocateSlots
<1> HIDE DEF need, free, n, x, q
<1>5. CASE need = 0
  <2>1. q = kv
    BY <1>4, <1>5
  <2>2. TablesOK(kv.blocks)
    BY DEF KVOK
  <2>3. Len(Table(kv, r)) \in Nat
    BY <2>2, TableType
  <2>4. Grown(kv, q, r, need) /\ OthersKept(kv, q, r)
    BY <1>5, <2>1, <2>3 DEF Grown, OthersKept
  <2> QED
    BY <2>1, <2>4 DEF q, need
<1>6. CASE need # 0
  <2> DEFINE t == Put(kv.blocks, r, Table(kv, r) \o x.got)
  <2>1. q = [kv EXCEPT !.pool = x.pool, !.blocks = t]
    BY <1>1, <1>4, <1>6
  <2> HIDE DEF t
  <2>2. q = [pool |-> x.pool, blocks |-> t, computed |-> kv.computed, hashes |-> kv.hashes]
    BY <2>1, ManagerUpdates DEF KVOK
  <2>3. q.pool = x.pool /\ q.blocks = t
    BY <2>2
  <2>4. q.blocks = Put(kv.blocks, r, Table(kv, r) \o x.got)
    BY <2>3 DEF t
  <2>5. /\ OthersKept(kv, q, r) /\ Grown(kv, q, r, Len(x.got))
        /\ DOMAIN q.blocks = DOMAIN kv.blocks \cup {r} /\ Unshared(q)
    BY <1>3, <2>3, <2>4, TakenEffect
  <2> QED
    BY <1>3, <2>5 DEF q, need
<1> QED
  BY <1>5, <1>6

LEMMA AllocateSlotsFails ==
    ASSUME NEW kv, NEW prompt, KVOK(kv, prompt), NEW r,
           NEW numTokens \in Nat, NEW numComputed \in Nat,
           ~CanAllocateSlots(kv, numTokens, numComputed)
    PROVE  TablesKept(kv, AllocateSlots(kv, r, numTokens, numComputed))
<1> DEFINE need == BlocksFor(numTokens, numComputed)
           free == Len(kv.pool.freeQueue)
           n    == Min({need, free})
           x    == AllocateMany(kv.pool, n)
           q    == AllocateSlots(kv, r, numTokens, numComputed)
<1>1. need \in Nat /\ free \in Nat /\ PoolOK(kv.pool) /\ ~(need <= free) /\ need # 0
  <2>1. need \in Nat
    BY BlocksForNat
  <2>2. PoolOK(kv.pool) /\ kv.pool.freeQueue \in Seq(Usable)
    BY DEF KVOK, PoolOK, Pool
  <2> QED
    BY <2>1, <2>2 DEF CanAllocateSlots
<1>2. n \in Nat /\ n <= free
  <2> HIDE DEF need, free
  <2>1. Min({need, free}) \in {need, free} /\ Min({need, free}) <= free
    BY <1>1, MinLeast
  <2> QED
    BY <1>1, <2>1
<1>3. Taken(kv.pool, x)
  <2> HIDE DEF n
  <2> QED
    BY <1>1, <1>2, AllocateManyEffect
<1>4. q = IF need = 0 THEN kv
          ELSE IF need <= free
          THEN [kv EXCEPT !.pool = x.pool, !.blocks = Put(kv.blocks, r, Table(kv, r) \o x.got)]
          ELSE [kv EXCEPT !.pool = FreeAll(x.pool, x.got)]
  BY DEF AllocateSlots
<1> HIDE DEF need, free, n, x, q
<1> DEFINE p == FreeAll(x.pool, x.got)
<1>5. \A b \in Usable : kv.pool.refCount[b] > 0 => p.hash[b] = kv.pool.hash[b]
  BY <1>1, <1>3, TakenGivenBack
<1>6. q = [kv EXCEPT !.pool = p]
  BY <1>1, <1>4
<1> HIDE DEF p
<1>7. q.pool = p /\ q.blocks = kv.blocks
  BY <1>6 DEF KVOK, IsManager
<1>8. ASSUME NEW s \in DOMAIN kv.blocks, NEW i \in DOMAIN kv.blocks[s]
      PROVE  p.hash[kv.blocks[s][i]] = kv.pool.hash[kv.blocks[s][i]]
  <2>1. kv.blocks[s][i] \in ToSet(kv.blocks[s])
    BY DEF ToSet
  <2>2. TablesOK(kv.blocks) /\ RefsOK(kv.pool, kv.blocks)
    BY DEF KVOK
  <2> QED
    BY <1>5, <2>1, <2>2, ListedReferenced
<1> QED
  BY <1>7, <1>8 DEF TablesKept, q

LEMMA ResetCacheEffect ==
    ASSUME NEW kv, NEW prompt, KVOK(kv, prompt)
    PROVE  TablesKept(kv, ResetCache(kv))
<1>1. CASE DOMAIN kv.blocks # {}
  BY <1>1 DEF ResetCache, TablesKept
<1>2. CASE DOMAIN kv.blocks = {}
  <2> DEFINE p == ResetPrefixCache(kv.pool)
  <2>1. ResetCache(kv) = [kv EXCEPT !.pool = p]
    BY <1>2 DEF ResetCache
  <2> HIDE DEF p
  <2>2. ResetCache(kv).blocks = kv.blocks
    BY <2>1 DEF KVOK, IsManager
  <2> QED
    BY <1>2, <2>2 DEF TablesKept
<1> QED
  BY <1>1, <1>2

(* The table of r became the found blocks, all labelled.                   *)
LookedUp(kv, q, r, found) ==
    /\ OthersKept(kv, q, r) /\ Table(q, r) = found /\ Unshared(q)
    /\ DOMAIN q.blocks \subseteq DOMAIN kv.blocks \cup {r}
    /\ \A i \in DOMAIN found : Label(q, r, i) # NoHash

(* The blocks a lookup finds are labelled.                                 *)
LEMMA GetComputedBlocksEffect ==
    ASSUME NEW kv, NEW prompt, KVOK(kv, prompt), Unshared(kv), NEW r, PromptOK(prompt[r]),
           Table(kv, r) = <<>>, NEW skip
    PROVE  LookedUp(kv, GetComputedBlocks(kv, r, prompt[r], skip), r,
                    ComputedBlocks(kv, prompt[r], skip))
<1> DEFINE hs    == BlockHashes(prompt[r])
           n     == HitLength(kv.pool, hs)
           table == [i \in 1..n |-> CachedBlock(kv.pool, hs[i])]
           q     == GetComputedBlocks(kv, r, prompt[r], skip)
<1>1. CASE ~CacheRead(prompt[r], skip)
  <2>1. q = kv /\ ComputedBlocks(kv, prompt[r], skip) = <<>>
    BY <1>1 DEF GetComputedBlocks, ComputedBlocks
  <2> HIDE DEF q
  <2> QED
    BY <2>1 DEF q, OthersKept, LookedUp
<1>2. CASE CacheRead(prompt[r], skip)
  <2>1. /\ Len(hs) \in Nat
        /\ \A i \in 1..Len(hs) : hs[i] \in Hashes
        /\ \A i, j \in 1..Len(hs) : hs[i] = hs[j] => i = j
    BY BlockHashesProperties
  <2>2. PoolOK(kv.pool)
    BY DEF KVOK
  <2>3. /\ q.pool = GetCachedAll(kv.pool, hs, n) /\ q.blocks = Put(kv.blocks, r, table)
        /\ ComputedBlocks(kv, prompt[r], skip) = table
    BY <1>2 DEF GetComputedBlocks, ComputedBlocks
  <2> HIDE DEF hs, q
  <2>4. n \in 0..Len(hs) /\ \A i \in 1..n : HasCached(kv.pool, hs[i])
    BY <2>1, HitLengthProperties
  <2> HIDE DEF n
  <2>5. n \in Nat /\ \A i \in 1..n : i \in 1..Len(hs)
    BY <2>1, <2>4
  <2>6. q.pool.hash = kv.pool.hash
    <3>1. \A i \in 1..n : hs[i] \in Hashes /\ HasCached(kv.pool, hs[i])
      BY <2>1, <2>4, <2>5
    <3>2. \A i, j \in 1..n : hs[i] = hs[j] => i = j
      BY <2>1, <2>5
    <3> QED
      BY <2>2, <2>3, <2>5, <3>1, <3>2, GetCachedAllEffect
  <2>7. DOMAIN table = 1..n /\ \A i \in 1..n : kv.pool.hash[table[i]] # NoHash
    <3> SUFFICES ASSUME NEW i \in 1..n PROVE kv.pool.hash[CachedBlock(kv.pool, hs[i])] # NoHash
      OBVIOUS
    <3>1. hs[i] \in Hashes /\ HasCached(kv.pool, hs[i])
      BY <2>1, <2>4, <2>5
    <3>2. kv.pool.hash[CachedBlock(kv.pool, hs[i])] = hs[i]
      BY <2>2, <3>1, CachedBlockUsable
    <3> QED
      BY <3>1, <3>2, PoolAssumption
  <2> HIDE DEF table
  <2>8. /\ DOMAIN q.blocks = DOMAIN kv.blocks \cup {r} /\ q.blocks[r] = table
        /\ \A s \in DOMAIN kv.blocks : s # r => q.blocks[s] = kv.blocks[s]
    BY <2>3 DEF Put
  <2>9. Table(q, r) = table /\ \A s : s # r => Table(q, s) = Table(kv, s)
    BY <2>8 DEF Table, Lookup
  <2>10. OthersKept(kv, q, r)
    BY <2>6, <2>9 DEF OthersKept, Label
  <2>11. \A i \in DOMAIN Table(q, r) : Label(q, r, i) # NoHash
    BY <2>6, <2>7, <2>9 DEF Label
  <2>12. Unshared(q)
    BY <2>10, <2>11, UnsharedKept
  <2> QED
    BY <2>3, <2>8, <2>9, <2>10, <2>11, <2>12 DEF q, LookedUp
<1> QED
  BY <1>1, <1>2

(* cache_blocks labels blocks whose tokens are all computed, and only its  *)
(* own.                                                                    *)
LEMMA CacheBlocksEffect ==
    ASSUME NEW kv, NEW prompt, KVOK(kv, prompt), Unshared(kv), NEW r, NEW numComputed \in Nat
    PROVE  LET q == CacheBlocks(kv, r, numComputed)
           IN  /\ OthersKept(kv, q, r) /\ Table(q, r) = Table(kv, r)
               /\ DOMAIN q.blocks = DOMAIN kv.blocks /\ Unshared(q)
               /\ \A i \in DOMAIN Table(kv, r) :
                     \/ Label(q, r, i) = Label(kv, r, i)
                     \/ Label(q, r, i) # NoHash /\ i * BlockSize <= numComputed
<1> DEFINE q == CacheBlocks(kv, r, numComputed)
<1>1. CASE ~(EnablePrefixCaching /\ r \in DOMAIN kv.blocks /\ r \in DOMAIN kv.hashes)
  <2>1. q = kv
    BY <1>1 DEF CacheBlocks
  <2> HIDE DEF q
  <2> QED
    BY <2>1 DEF q, OthersKept
<1>2. CASE EnablePrefixCaching /\ r \in DOMAIN kv.blocks /\ r \in DOMAIN kv.hashes
  <2>1. Relabelled(kv, q, prompt, r, numComputed)
    BY <1>2, CacheBlocksLabels
  <2> HIDE DEF q
  <2>2. q.blocks = kv.blocks
    BY <2>1 DEF Relabelled
  <2>3. /\ \A s : Table(q, s) = Table(kv, s)
        /\ \A s \in DOMAIN kv.blocks : Table(kv, s) = kv.blocks[s]
        /\ \A s : s \notin DOMAIN kv.blocks => Table(kv, s) = <<>>
    BY <2>2 DEF Table, Lookup
  <2>4. ASSUME NEW s \in DOMAIN kv.blocks, NEW i \in DOMAIN kv.blocks[s]
        PROVE  LabelAfter(kv, q.pool, prompt, r, numComputed, s, i)
    BY <2>1 DEF Relabelled
  <2>5. ASSUME NEW s, s # r, NEW i \in DOMAIN Table(kv, s)
        PROVE  Label(q, s, i) = Label(kv, s, i)
    <3>1. s \in DOMAIN kv.blocks /\ i \in DOMAIN kv.blocks[s]
      BY <2>3, <2>5
    <3> SUFFICES ASSUME q.pool.hash[kv.blocks[s][i]] # kv.pool.hash[kv.blocks[s][i]]
                 PROVE  FALSE
      BY <2>3, <3>1 DEF Label
    <3>2. /\ kv.pool.hash[kv.blocks[s][i]] = NoHash
          /\ i \in DOMAIN kv.blocks[r] /\ kv.blocks[r][i] = kv.blocks[s][i]
      BY <2>4, <3>1 DEF LabelAfter
    <3>3. kv.blocks[s][i] \in ToSet(kv.blocks[r])
      BY <3>2 DEF ToSet
    <3> QED
      BY <1>2, <2>5, <3>1, <3>2, <3>3 DEF Unshared
  <2>6. ASSUME NEW i \in DOMAIN Table(kv, r)
        PROVE  \/ Label(q, r, i) = Label(kv, r, i)
               \/ Label(q, r, i) # NoHash /\ i * BlockSize <= numComputed
    <3>1. i \in DOMAIN kv.blocks[r] /\ Table(q, r) = kv.blocks[r] /\ Table(kv, r) = kv.blocks[r]
      BY <1>2, <2>3
    <3>2. LabelAfter(kv, q.pool, prompt, r, numComputed, r, i)
      BY <1>2, <2>4, <3>1
    <3> QED
      BY <3>1, <3>2, PoolAssumption DEF LabelAfter, Label
  <2>7. OthersKept(kv, q, r)
    BY <2>3, <2>5 DEF OthersKept
  <2>8. Unshared(q)
    <3>1. ASSUME NEW i \in DOMAIN Table(q, r), Label(q, r, i) = NoHash, NEW s, s # r
          PROVE  Table(q, r)[i] \notin ToSet(Table(q, s))
      <4>1. Label(kv, r, i) = NoHash
        BY <2>3, <2>6, <3>1
      <4> QED
        BY <2>3, <3>1, <4>1, UnsharedTables
    <3> QED
      BY <2>7, <3>1, UnsharedKept
  <2> QED
    BY <2>2, <2>3, <2>6, <2>7, <2>8 DEF q
<1> QED
  BY <1>1, <1>2

(* An unlabelled block of a table has one reference.                       *)
LEMMA PrivateBlock ==
    ASSUME NEW kv, NEW prompt, KVOK(kv, prompt), Unshared(kv), NEW r,
           NEW i \in DOMAIN Table(kv, r), Label(kv, r, i) = NoHash
    PROVE  kv.pool.refCount[Table(kv, r)[i]] = 1
<1> DEFINE b == Table(kv, r)[i]
<1>1. TablesOK(kv.blocks) /\ RefsOK(kv.pool, kv.blocks)
  BY DEF KVOK
<1>2. r \in DOMAIN kv.blocks /\ Table(kv, r) = kv.blocks[r]
  BY DEF Table, Lookup
<1>3. b \in Usable /\ b \in ToSet(kv.blocks[r])
  BY <1>1, <1>2 DEF TablesOK, ToSet
<1>4. Users(kv.blocks, b) = {r}
  BY <1>2, <1>3 DEF Users, Unshared, Label
<1>5. Cardinality({r}) = 1
  BY FS_Singleton
<1> QED
  BY <1>1, <1>3, <1>4, <1>5 DEF RefsOK

=============================================================================
