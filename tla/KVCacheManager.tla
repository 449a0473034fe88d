---------------------------- MODULE KVCacheManager ----------------------------
(***************************************************************************)
(* KVCacheManager as a state machine: the calls the scheduler may make, in *)
(* any order and for any request.  The caller's obligations are guards: a  *)
(* prefix lookup only for a request that holds no blocks and a fork only   *)
(* into a new one (the code overwrites the table, so its references would  *)
(* leak), and cache_blocks never beyond the request's blocks or backwards. *)
(***************************************************************************)
EXTENDS KVOps, KVLemmas

CONSTANTS Requests,   \* request ids
          Prompt,     \* the prompt tokens of each request
          SkipCache,  \* requests with skip_reading_prefix_cache
          MaxTable,   \* bound: blocks per table
          MaxEntries  \* bound: length of a hash_map list (cache_block appends
                      \* a block again each time a fork of its owner caches it)

ASSUME ManagerAssumption ==
    /\ SkipCache \subseteq Requests
    /\ MaxTable \in Nat /\ MaxEntries \in Nat
    /\ Prompt \in [Requests -> Seq(Nat)]
    /\ \A r \in Requests : ToSet(BlockHashes(Prompt[r])) \subseteq Hashes

VARIABLE kv

Init == kv = NewKV

DoGetComputedBlocks(r) ==
    /\ Table(kv, r) = <<>>
    /\ kv' = GetComputedBlocks(kv, r, Prompt[r], r \in SkipCache)

DoAllocateSlots(r, need) ==
    /\ CanAllocateSlots(kv, need, 0)
    /\ Len(Table(kv, r)) + BlocksFor(need, 0) <= MaxTable
    /\ kv' = AllocateSlots(kv, r, need, 0)

(* allocate_slots returns None.                                            *)
FailAllocateSlots(r, need) ==
    /\ ~CanAllocateSlots(kv, need, 0)
    /\ kv' = AllocateSlots(kv, r, need, 0)

DoFree(r) == kv' = FreeRequest(kv, r)

DoCacheBlocks(r, n) ==
    /\ n >= Lookup(kv.computed, r, 0)
    /\ n <= Len(Table(kv, r)) * BlockSize
    /\ kv' = CacheBlocks(kv, r, n)
    /\ \A h \in Hashes : Len(kv'.pool.hashMap[h]) <= MaxEntries

DoForkBlocks(parent, child) ==
    /\ parent # child
    /\ Prompt[child] = Prompt[parent]
    /\ child \notin DOMAIN kv.blocks \cup DOMAIN kv.computed
    /\ kv' = ForkBlocks(kv, parent, child)

DoResetCache == kv' = ResetCache(kv)

Next ==
    \/ \E r \in Requests : DoGetComputedBlocks(r)
    \/ \E r \in Requests, need \in 1..(MaxTable * BlockSize) : DoAllocateSlots(r, need)
    \/ \E r \in Requests, need \in 1..(MaxTable * BlockSize) : FailAllocateSlots(r, need)
    \/ \E r \in Requests : DoFree(r)
    \/ \E r \in Requests, n \in 0..(MaxTable * BlockSize) : DoCacheBlocks(r, n)
    \/ \E p, c \in Requests : DoForkBlocks(p, c)
    \/ DoResetCache

Spec == Init /\ [][Next]_kv

-----------------------------------------------------------------------------

TypeOK ==
    /\ kv.pool \in Pool
    /\ \A r \in DOMAIN kv.blocks : kv.blocks[r] \in Seq(Usable)
    /\ \A r \in DOMAIN kv.hashes : kv.hashes[r] = BlockHashes(Prompt[r])
    /\ DOMAIN kv.blocks \subseteq Requests
    /\ DOMAIN kv.computed \subseteq Requests

(* Whatever the manager asks of the pool, the pool stays consistent: the   *)
(* manager keeps the client's side of the BlockPool contract, above all    *)
(* that no block is given a second, different hash (block_pool.rs:353).    *)
PoolConsistent == PoolOK(kv.pool)

(* A block's reference count is the number of block tables that list it:   *)
(* no reference leaks when a lookup, a failed allocation, a fork or a free *)
(* takes several steps of the pool (manager.rs:80-242).                    *)
RefExact == RefExactOf(kv)

(* No table lists a block twice or lists the null block: a slot of the     *)
(* sequence is never another slot of it.                                   *)
TablesDistinct == TablesDistinctOf(kv)

(* The accounts of the manager are exact: tables, counts, the free queue   *)
(* and the hash index agree after every call, the failed ones included.    *)
TablesExact == PoolConsistent /\ TablesDistinct /\ RefExact

(* A cached block in a request's table was filled for exactly the tokens   *)
(* of that request up to that position, across evictions, reuse and forks. *)
PrefixMatches == PrefixMatchesOf(kv, Prompt)

(* What the comment on allocate_slots says: "On failure, no state is       *)
(* modified" (manager.rs:130).  Here only: the prefix cache is the same.   *)
FailureKeepsCache ==
    \A r \in Requests, need \in 1..(MaxTable * BlockSize) :
        ~CanAllocateSlots(kv, need, 0)
            => AllocateSlots(kv, r, need, 0).pool.hash = kv.pool.hash

-----------------------------------------------------------------------------
(* The manager keeps its accounts for any number of blocks and requests,   *)
(* any prompts and any sequence of calls.                                  *)

ManagerInv == KVOK(kv, Prompt)

LEMMA PromptsOK == ASSUME NEW r \in Requests PROVE PromptOK(Prompt[r])
BY ManagerAssumption DEF PromptOK

(* Every call keeps the inductive invariant.                               *)
THEOREM ManagerInvariant == Spec => []ManagerInv
<1>1. Init => ManagerInv
  BY NewKVOK DEF Init, ManagerInv
<1>2. ManagerInv /\ [Next]_kv => ManagerInv'
  <2> SUFFICES ASSUME ManagerInv, [Next]_kv PROVE KVOK(kv', Prompt)
    BY DEF ManagerInv
  <2> USE DEF ManagerInv
  <2>1. ASSUME NEW r \in Requests, DoGetComputedBlocks(r)
        PROVE  KVOK(kv', Prompt)
    BY <2>1, PromptsOK, GetComputedBlocksOK DEF DoGetComputedBlocks
  <2>2. ASSUME NEW r \in Requests, NEW need \in 1..(MaxTable * BlockSize),
               DoAllocateSlots(r, need) \/ FailAllocateSlots(r, need)
        PROVE  KVOK(kv', Prompt)
    <3>1. kv' = AllocateSlots(kv, r, need, 0) /\ need \in Nat /\ 0 \in Nat
      BY <2>2 DEF DoAllocateSlots, FailAllocateSlots
    <3> QED
      BY <3>1, PromptsOK, AllocateSlotsOK
  <2>3. ASSUME NEW r \in Requests, DoFree(r)
        PROVE  KVOK(kv', Prompt)
    BY <2>3, FreeRequestOK DEF DoFree
  <2>4. ASSUME NEW r \in Requests, NEW n \in 0..(MaxTable * BlockSize), DoCacheBlocks(r, n)
        PROVE  KVOK(kv', Prompt)
    <3>1. kv' = CacheBlocks(kv, r, n) /\ n \in Nat
      BY <2>4 DEF DoCacheBlocks
    <3> QED
      BY <3>1, CacheBlocksOK
  <2>5. ASSUME NEW p \in Requests, NEW c \in Requests, DoForkBlocks(p, c)
        PROVE  KVOK(kv', Prompt)
    <3>1. /\ kv' = ForkBlocks(kv, p, c)
          /\ c \notin DOMAIN kv.blocks /\ Prompt[c] = Prompt[p]
      BY <2>5 DEF DoForkBlocks
    <3> QED
      BY <3>1, ForkBlocksOK
  <2>6. CASE DoResetCache
    BY <2>6, ResetCacheOK DEF DoResetCache
  <2>7. CASE UNCHANGED kv
    BY <2>7
  <2> QED
    BY <2>1, <2>2, <2>3, <2>4, <2>5, <2>6, <2>7 DEF Next
<1> QED
  BY <1>1, <1>2, PTL DEF Spec

(* The accounts are exact after every call, the failed ones included: the  *)
(* pool is consistent, no table lists a block twice, and the reference     *)
(* count of a block is the number of tables that list it.                  *)
THEOREM AccountsExact == Spec => []TablesExact
<1>1. ManagerInv => TablesExact
  <2> SUFFICES ASSUME KVOK(kv, Prompt) PROVE TablesExact
    BY DEF ManagerInv
  <2>1. PoolConsistent
    BY DEF KVOK, PoolConsistent
  <2>2. TablesDistinct
    BY DEF KVOK, TablesOK, TablesDistinct, TablesDistinctOf, ToSet
  <2>3. RefExact
    BY RefsAreExact DEF KVOK, RefExact
  <2> QED
    BY <2>1, <2>2, <2>3 DEF TablesExact
<1> QED
  BY <1>1, ManagerInvariant, PTL

(* A labelled block in a table holds the request's own tokens up to its    *)
(* position, through evictions, reuse, forks and failed allocations.       *)
THEOREM CachedBlocksMatch == Spec => []PrefixMatches
<1>1. ManagerInv => PrefixMatches
  BY DEF ManagerInv, KVOK, PrefixMatches
<1> QED
  BY <1>1, ManagerInvariant, PTL

=============================================================================
