--------------------------- MODULE BlockPoolProofs ---------------------------
(***************************************************************************)
(* The pool's invariants for every pool size and every set of hashes.      *)
(* Their conjunction, PoolOK, is inductive; KVLemmas shows that each       *)
(* operation keeps it.  Exact lists need each other: the active count      *)
(* rests on the free list holding exactly the unreferenced blocks, and a   *)
(* cache hit is a usable block only because hash_map is exact.             *)
(***************************************************************************)
EXTENDS BlockPool, KVLemmas

LEMMA NextPoolOK == PoolOK(pool) /\ [Next]_pool => PoolOK(pool)'
<1> SUFFICES ASSUME PoolOK(pool), [Next]_pool PROVE PoolOK(pool')
  OBVIOUS
<1>1. CASE DoAllocate
  BY <1>1, AllocateOK DEF DoAllocate
<1>2. ASSUME NEW b \in Blocks, DoFree(b) PROVE PoolOK(pool')
  BY <1>2, FreeOK DEF DoFree
<1>3. ASSUME NEW b \in Blocks, DoIncref(b) PROVE PoolOK(pool')
  BY <1>3, IncrefOK DEF DoIncref
<1>4. ASSUME NEW b \in Blocks, DoCopyOnWrite(b) PROVE PoolOK(pool')
  BY <1>4, CopyOnWriteOK DEF DoCopyOnWrite
<1>5. ASSUME NEW b \in Blocks, DoTouch(b) PROVE PoolOK(pool')
  BY <1>5, TouchOK DEF DoTouch
<1>6. ASSUME NEW h \in Hashes, DoGetCachedBlock(h) PROVE PoolOK(pool')
  BY <1>6, GetCachedBlockOK DEF DoGetCachedBlock
<1>7. ASSUME NEW b \in Blocks, NEW h \in Hashes, DoCacheBlock(b, h) PROVE PoolOK(pool')
  BY <1>7, CacheBlockOK DEF DoCacheBlock
<1>8. CASE DoResetPrefixCache
  BY <1>8, ResetPrefixCacheOK DEF DoResetPrefixCache
<1>9. CASE UNCHANGED pool
  BY <1>9
<1> QED
  BY <1>1, <1>2, <1>3, <1>4, <1>5, <1>6, <1>7, <1>8, <1>9 DEF Next

LEMMA AlwaysPoolOK == Spec => []PoolOK(pool)
<1>1. Init => PoolOK(pool)
  BY NewPoolOK DEF Init
<1> QED
  BY <1>1, NextPoolOK, PTL DEF Spec

(* The pool never loses, duplicates or double-books a block: the free      *)
(* queue is exactly the set of unreferenced blocks and the active counter  *)
(* is exact, after any sequence of calls (block_pool.rs:198-348).          *)
THEOREM PoolConserved == Spec => [](TypeOK /\ FreeListExact /\ ActiveExact)
<1>1. PoolOK(pool) => TypeOK /\ FreeListExact /\ ActiveExact
  BY DEF PoolOK, TypeOK, FreeListExact, ActiveExact
<1> QED
  BY <1>1, AlwaysPoolOK, PTL

(* hash_map lists exactly the blocks carrying each hash, so a prefix hit   *)
(* never returns a block that was evicted and handed to someone else       *)
(* (evict_lru, remove_hash_entry, get_cached_block, cache_block).          *)
THEOREM PoolIndexExact == Spec => []HashMapExact
<1>1. PoolOK(pool) => HashMapExact
  BY DEF PoolOK, HashMapExact
<1> QED
  BY <1>1, AlwaysPoolOK, PTL

-----------------------------------------------------------------------------
(* Evictions.                                                              *)

LEMMA SameHashes ==
    ASSUME NEW p \in Pool, NEW b \in Blocks
    PROVE  /\ Free(p, b).hash = p.hash
           /\ Incref(p, b).hash = p.hash
           /\ Touch(p, b).hash = p.hash
<1>1. Free(p, b).hash = p.hash
  BY DEF Pool, Free
<1>2. Incref(p, b).hash = p.hash
  BY DEF Pool, Incref
<1>3. Touch(p, b).hash = p.hash
  BY DEF Pool, Touch
<1> QED
  BY <1>1, <1>2, <1>3

LEMMA LookupKeepsHashes ==
    ASSUME NEW p, PoolOK(p), NEW h \in Hashes, HasCached(p, h)
    PROVE  GetCachedBlock(p, h).hash = p.hash
<1> DEFINE b == CachedBlock(p, h)
           t == Touch(p, b)
<1>1. b \in Blocks /\ p \in Pool
  BY CachedBlockUsable, BlockSets DEF PoolOK
<1>2. t.hash = p.hash /\ PoolOK(t)
  BY <1>1, SameHashes, TouchOK
<1>3. GetCachedBlock(p, h) =
         IF t.refCount[b] > 0 THEN [t EXCEPT !.refCount[b] = @ + 1]
         ELSE [t EXCEPT !.refCount[b] = 1, !.freeQueue = Unqueue(t, b), !.numActive = @ + 1]
  BY DEF GetCachedBlock
<1> HIDE DEF b, t
<1>4. t \in Pool
  BY <1>2 DEF PoolOK
<1> QED
  BY <1>2, <1>3, <1>4 DEF Pool

(* allocate takes a hash away only when no free block is uncached, and     *)
(* then from the block at the tail.                                        *)
LEMMA EvictsLast ==
    ASSUME NEW p, PoolOK(p), CanAllocate(p), NEW b \in Blocks,
           p.hash[b] # NoHash, Allocate(p).hash[b] = NoHash
    PROVE  UncachedFree(p) = {} /\ b = Last(p.freeQueue)
<1>1. /\ p.freeQueue \in Seq(Usable) /\ Len(p.freeQueue) \in Nat
      /\ DOMAIN p.freeQueue = 1..Len(p.freeQueue) /\ p.hash \in [Blocks -> Hashes \cup {NoHash}]
  BY DEF PoolOK, Pool
<1>2. Allocate(p).hash = [p.hash EXCEPT ![Victim(p)] = NoHash]
  BY DEF Allocate
<1>3. b = Victim(p)
  BY <1>1, <1>2
<1>4. UncachedFree(p) = {}
  <2> SUFFICES ASSUME UncachedFree(p) # {} PROVE FALSE
    OBVIOUS
  <2>1. Victim(p) = p.freeQueue[Min(UncachedFree(p))]
    BY DEF Victim, VictimIndex
  <2>2. UncachedFree(p) \subseteq Nat
    BY <1>1 DEF UncachedFree
  <2>3. Min(UncachedFree(p)) \in UncachedFree(p)
    BY <2>2, MinMember
  <2> QED
    BY <1>3, <2>1, <2>3 DEF UncachedFree
<1>5. CachedFree(p) = 1..Len(p.freeQueue) /\ VictimIndex(p) = Max(CachedFree(p))
  BY <1>1, <1>4 DEF CachedFree, UncachedFree, VictimIndex
<1>6. Len(p.freeQueue) > 0
  BY <1>1 DEF CanAllocate
<1>7. Max(CachedFree(p)) = Len(p.freeQueue)
  <2> DEFINE n == Len(p.freeQueue)
  <2>1. n \in Nat /\ n > 0
    BY <1>1, <1>6
  <2> HIDE DEF n
  <2>2. n \in 1..n /\ \A y \in 1..n : n >= y
    BY <2>1
  <2>3. Max(1..n) = n
    <3>1. \E x \in 1..n : \A y \in 1..n : x >= y
      BY <2>2
    <3>2. Max(1..n) \in 1..n /\ \A y \in 1..n : Max(1..n) >= y
      BY <3>1 DEF Max
    <3> QED
      BY <2>1, <2>2, <3>2
  <2> QED
    BY <1>5, <2>3 DEF n
<1> QED
  BY <1>3, <1>4, <1>5, <1>7 DEF Victim, Last

(* A cached prefix is given up only under pressure and from the least      *)
(* recently used end (block_pool.rs:195-261).                              *)
THEOREM EvictsInOrder == Spec => EvictionOrder
<1>1. PoolOK(pool) /\ [Next]_pool => [EvictsLeastRecent]_pool
  <2> SUFFICES ASSUME PoolOK(pool), Next PROVE EvictsLeastRecent
    OBVIOUS
  <2>1. CASE pool'.hash = pool.hash
    BY <2>1 DEF LosesHash, EvictsLeastRecent
  <2>2. pool \in Pool
    BY DEF PoolOK
  <2>3. CASE DoAllocate
    BY <2>3, EvictsLast DEF DoAllocate, LosesHash, EvictsLeastRecent
  <2>4. ASSUME NEW b \in Blocks, DoFree(b) \/ DoIncref(b) \/ DoTouch(b) PROVE EvictsLeastRecent
    BY <2>1, <2>2, <2>4, SameHashes DEF DoFree, DoIncref, DoTouch
  <2>5. ASSUME NEW b \in Blocks, DoCopyOnWrite(b) PROVE EvictsLeastRecent
    <3>1. CASE ~(IsShared(pool, b) /\ CanAllocate(pool))
      BY <2>1, <2>5, <3>1 DEF DoCopyOnWrite, CopyOnWrite
    <3>2. CASE IsShared(pool, b) /\ CanAllocate(pool)
      <4>1. pool' = Free(Allocate(pool), b)
        BY <2>5, <3>2 DEF DoCopyOnWrite, CopyOnWrite
      <4>2. PoolOK(Allocate(pool))
        BY <3>2, AllocateOK
      <4>3. pool'.hash = Allocate(pool).hash
        BY <4>1, <4>2, SameHashes DEF PoolOK
      <4> QED
        BY <3>2, <4>3, EvictsLast DEF LosesHash, EvictsLeastRecent
    <3> QED
      BY <3>1, <3>2
  <2>6. ASSUME NEW h \in Hashes, DoGetCachedBlock(h) PROVE EvictsLeastRecent
    BY <2>1, <2>6, LookupKeepsHashes DEF DoGetCachedBlock
  <2>7. ASSUME NEW b \in Blocks, NEW h \in Hashes, DoCacheBlock(b, h) PROVE EvictsLeastRecent
    <3>1. h # NoHash
      BY PoolAssumption
    <3>2. pool'.hash = pool.hash \/ pool'.hash = [pool.hash EXCEPT ![b] = h]
      BY <2>2, <2>7 DEF DoCacheBlock, CacheBlock, Pool
    <3>3. pool.hash \in [Blocks -> Hashes \cup {NoHash}]
      BY <2>2 DEF Pool
    <3> QED
      BY <3>1, <3>2, <3>3 DEF LosesHash, EvictsLeastRecent
  <2>8. CASE DoResetPrefixCache
    <3>1. pool'.numActive = pool.numActive /\ pool.numActive \in Int
      BY <2>2, <2>8 DEF DoResetPrefixCache, ResetPrefixCache, Pool
    <3> QED
      BY <3>1 DEF EvictsLeastRecent
  <2> QED
    BY <2>3, <2>4, <2>5, <2>6, <2>7, <2>8 DEF Next
<1> QED
  BY <1>1, AlwaysPoolOK, PTL DEF EvictionOrder, Spec

=============================================================================
