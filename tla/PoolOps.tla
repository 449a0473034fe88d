------------------------------- MODULE PoolOps -------------------------------
(***************************************************************************)
(* The operations of BlockPool (crates/rllm-cache/src/block_pool.rs) as    *)
(* functions from a pool to a pool, so that the state machine of the pool  *)
(* (BlockPool) and its only client (KVCacheManager, which makes several    *)
(* calls in one operation) share one definition of each.                   *)
(*                                                                         *)
(* The free queue is the sequence that FreeBlockQueue implements: its      *)
(* first element is the head, the most recently used block.  An absent key *)
(* of hash_map is an empty list.                                           *)
(***************************************************************************)
EXTENDS Integers, Sequences, FiniteSets, SequencesExt, FiniteSetsExt

CONSTANTS NumBlocks,   \* BlockPool::new's num_blocks, the null block included
          Hashes,      \* block hashes
          NoHash       \* KVCacheBlock.hash = None

ASSUME PoolAssumption == NumBlocks \in Nat \ {0} /\ NoHash \notin Hashes

Null == 0
Blocks == 0..(NumBlocks - 1)
Usable == 1..(NumBlocks - 1)

Pool == [refCount  : [Blocks -> Nat],
         hash      : [Blocks -> Hashes \cup {NoHash}],
         freeQueue : Seq(Usable),
         hashMap   : [Hashes -> Seq(Blocks)],
         numActive : Int]

NewPool ==
    [refCount  |-> [b \in Blocks |-> 0],
     hash      |-> [b \in Blocks |-> NoHash],
     freeQueue |-> [i \in Usable |-> i],
     hashMap   |-> [h \in Hashes |-> <<>>],
     numActive |-> 0]

-----------------------------------------------------------------------------
(* allocate: the first uncached free block from the head, otherwise the    *)
(* last cached one before the tail, whose hash entry is dropped.           *)

UncachedFree(p) == {i \in DOMAIN p.freeQueue : p.hash[p.freeQueue[i]] = NoHash}

CanAllocate(p) == p.freeQueue # <<>>

CachedFree(p) == {i \in DOMAIN p.freeQueue : p.hash[p.freeQueue[i]] # NoHash}

(* A faulty evict_lru that searches from the head.                         *)
VictimIndexMRU(p) ==
    IF UncachedFree(p) # {} THEN Min(UncachedFree(p)) ELSE Min(CachedFree(p))

(* The position pop_uncached, or else evict_lru, stops at.                 *)
VictimIndex(p) ==
    IF UncachedFree(p) # {} THEN Min(UncachedFree(p)) ELSE Max(CachedFree(p))

Victim(p) == p.freeQueue[VictimIndex(p)]

(* SmallVec::retain(|id| *id != b): the k-th element kept is the one with  *)
(* k kept positions up to its own.                                         *)
Kept(s, b) == {i \in DOMAIN s : s[i] # b}

KeptUpTo(s, b, i) == {j \in Kept(s, b) : j <= i}

Without(s, b) ==
    [k \in 1..Cardinality(Kept(s, b)) |->
        s[CHOOSE i \in Kept(s, b) : Cardinality(KeptUpTo(s, b, i)) = k]]

RemoveHashEntry(m, h, b) ==
    IF h = NoHash THEN m ELSE [m EXCEPT ![h] = Without(@, b)]

(* A faulty allocate that leaves the evicted block in hash_map.            *)
AllocateKeepsEntry(p) ==
    [refCount  |-> [p.refCount EXCEPT ![Victim(p)] = 1],
     hash      |-> [p.hash EXCEPT ![Victim(p)] = NoHash],
     freeQueue |-> RemoveAt(p.freeQueue, VictimIndex(p)),
     hashMap   |-> p.hashMap,
     numActive |-> p.numActive + 1]

(* The pool after a successful allocate; the caller gets Victim(p).        *)
Allocate(p) ==
    [refCount  |-> [p.refCount EXCEPT ![Victim(p)] = 1],
     hash      |-> [p.hash EXCEPT ![Victim(p)] = NoHash],
     freeQueue |-> RemoveAt(p.freeQueue, VictimIndex(p)),
     hashMap   |-> RemoveHashEntry(p.hashMap, p.hash[Victim(p)], Victim(p)),
     numActive |-> p.numActive + 1]

-----------------------------------------------------------------------------
(* free: the last reference puts the block at the head; its hash stays.    *)
Free(p, b) ==
    IF b = Null \/ p.refCount[b] = 0 THEN p
    ELSE IF p.refCount[b] > 1
    THEN [p EXCEPT !.refCount[b] = @ - 1]
    ELSE [p EXCEPT !.refCount[b] = 0,
                   !.freeQueue = <<b>> \o @,
                   !.numActive = @ - 1]

Incref(p, b) ==
    IF b # Null /\ p.refCount[b] > 0 THEN [p EXCEPT !.refCount[b] = @ + 1]
    ELSE p

IsShared(p, b) == b # Null /\ p.refCount[b] > 1

(* copy_on_write of a shared block: the caller gets Victim(p) in its place *)
(* and must copy the contents.                                             *)
CopyOnWrite(p, b) ==
    IF IsShared(p, b) /\ CanAllocate(p) THEN Free(Allocate(p), b) ELSE p

-----------------------------------------------------------------------------

QueueIndex(p, b) == CHOOSE i \in DOMAIN p.freeQueue : p.freeQueue[i] = b

Unqueue(p, b) ==
    IF b \in ToSet(p.freeQueue) THEN RemoveAt(p.freeQueue, QueueIndex(p, b))
    ELSE p.freeQueue

(* touch: an unreferenced cached block moves to the head of the queue.     *)
Touch(p, b) ==
    IF /\ p.refCount[b] = 0
       /\ b # Null
       /\ p.hash[b] # NoHash
       /\ b \in ToSet(p.freeQueue)
    THEN [p EXCEPT !.freeQueue = <<b>> \o Unqueue(p, b)]
    ELSE p

HasCached(p, h) == p.hashMap[h] # <<>>

CachedBlock(p, h) == Head(p.hashMap[h])

(* A faulty lookup that leaves the block in the free queue.                *)
GetCachedStaysQueued(p, h) ==
    LET b == CachedBlock(p, h)
        t == Touch(p, b)
    IN  IF t.refCount[b] > 0 THEN [t EXCEPT !.refCount[b] = @ + 1]
        ELSE [t EXCEPT !.refCount[b] = 1, !.numActive = @ + 1]

(* get_cached_block on a hit: touch, then take the block out of the queue  *)
(* if this is its first reference, then count the reference.               *)
GetCachedBlock(p, h) ==
    LET b == CachedBlock(p, h)
        t == Touch(p, b)
    IN  IF t.refCount[b] > 0 THEN [t EXCEPT !.refCount[b] = @ + 1]
        ELSE [t EXCEPT !.refCount[b] = 1,
                       !.freeQueue = Unqueue(t, b),
                       !.numActive = @ + 1]

CacheBlock(p, b, h) ==
    IF p.refCount[b] = 0 \/ b = Null THEN p
    ELSE [p EXCEPT !.hash[b] = h, !.hashMap[h] = Append(@, b)]

(* reset_prefix_cache refuses while a hashed block is referenced.          *)
CanResetCache(p) == \A b \in Blocks : p.hash[b] # NoHash => p.refCount[b] = 0

ResetPrefixCache(p) ==
    IF CanResetCache(p)
    THEN [p EXCEPT !.hash = [b \in Blocks |-> NoHash],
                   !.hashMap = [h \in Hashes |-> <<>>]]
    ELSE p

-----------------------------------------------------------------------------
(* What must hold of a pool between two calls.                             *)

FreeListExactOf(p) ==
    /\ IsInjective(p.freeQueue)
    /\ ToSet(p.freeQueue) = {b \in Usable : p.refCount[b] = 0}
    /\ p.refCount[Null] = 0

Active(p) == {b \in Blocks : p.refCount[b] > 0}

ActiveExactOf(p) ==
    /\ p.numActive = Cardinality(Active(p))
    /\ p.numActive + Len(p.freeQueue) = NumBlocks - 1

HashMapExactOf(p) ==
    /\ \A h \in Hashes : ToSet(p.hashMap[h]) = {b \in Blocks : p.hash[b] = h}
    /\ p.hash[Null] = NoHash

PoolOK(p) ==
    p \in Pool /\ FreeListExactOf(p) /\ ActiveExactOf(p) /\ HashMapExactOf(p)

=============================================================================
