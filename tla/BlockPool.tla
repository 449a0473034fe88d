------------------------------ MODULE BlockPool ------------------------------
(***************************************************************************)
(* BlockPool as a state machine: its client may make any call at any time. *)
(* The one obligation on the client, met by KVCacheManager (PoolConsistent *)
(* there), is that cache_block never gives a block a second, different     *)
(* hash: the code would leave the block listed under both.                 *)
(***************************************************************************)
EXTENDS PoolOps

CONSTANTS MaxRef,      \* bound: references per block the model counts to
          MaxEntries   \* bound: length of a hash_map list

ASSUME PoolBounds == MaxRef \in Nat /\ MaxEntries \in Nat

VARIABLE pool

Init == pool = NewPool

DoAllocate == CanAllocate(pool) /\ pool' = Allocate(pool)

DoFree(b) == pool' = Free(pool, b)

DoIncref(b) == pool.refCount[b] < MaxRef /\ pool' = Incref(pool, b)

DoCopyOnWrite(b) == pool' = CopyOnWrite(pool, b)

DoTouch(b) == pool' = Touch(pool, b)

DoGetCachedBlock(h) ==
    /\ HasCached(pool, h)
    /\ pool.refCount[CachedBlock(pool, h)] < MaxRef
    /\ pool' = GetCachedBlock(pool, h)

DoCacheBlock(b, h) ==
    /\ pool.hash[b] \in {NoHash, h}
    /\ Len(pool.hashMap[h]) < MaxEntries
    /\ pool' = CacheBlock(pool, b, h)

DoResetPrefixCache == pool' = ResetPrefixCache(pool)

Next ==
    \/ DoAllocate
    \/ \E b \in Blocks : DoFree(b)
    \/ \E b \in Blocks : DoIncref(b)
    \/ \E b \in Blocks : DoCopyOnWrite(b)
    \/ \E b \in Blocks : DoTouch(b)
    \/ \E h \in Hashes : DoGetCachedBlock(h)
    \/ \E b \in Blocks, h \in Hashes : DoCacheBlock(b, h)
    \/ DoResetPrefixCache

Spec == Init /\ [][Next]_pool

-----------------------------------------------------------------------------

TypeOK == pool \in Pool

(* The free queue holds every unreferenced block but the null block, each  *)
(* once: no block is lost, none is handed out while someone refers to it   *)
(* (block_pool.rs:198-261, 307-348).                                       *)
FreeListExact == FreeListExactOf(pool)

(* num_active_blocks, bumped and dropped in four places, counts the        *)
(* referenced blocks, and together with the free ones makes up the pool    *)
(* usage() reports.                                                        *)
ActiveExact == ActiveExactOf(pool)

(* hash_map lists exactly the blocks that carry the hash: a lookup finds   *)
(* every cached block and never a block that was evicted and reused        *)
(* (evict_lru, cache_block, reset_prefix_cache, remove_hash_entry).        *)
HashMapExact == HashMapExactOf(pool)

LosesHash(b) == pool.hash[b] # NoHash /\ pool'.hash[b] = NoHash

EvictsLeastRecent ==
    \A b \in Blocks :
        LosesHash(b) /\ pool'.numActive > pool.numActive
            => UncachedFree(pool) = {} /\ b = Last(pool.freeQueue)

(* A cached prefix is given up only under pressure and in LRU order: when  *)
(* a block loses its hash other than by a reset, no free block was         *)
(* uncached, and it was the block nearest to the tail (block_pool.rs:195). *)
EvictionOrder == [][EvictsLeastRecent]_pool

=============================================================================
