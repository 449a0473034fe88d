-------------------------------- MODULE KVOps --------------------------------
(***************************************************************************)
(* The operations of KVCacheManager (crates/rllm-cache/src/manager.rs) as  *)
(* functions of its state, a record                                        *)
(*   pool      the BlockPool                                               *)
(*   blocks    request_blocks: the block table of each tracked request     *)
(*   computed  request_computed_tokens                                     *)
(*   hashes    request_block_hashes                                        *)
(* The three maps are functions whose domain is the set of keys present.   *)
(*                                                                         *)
(* Block hashes are taken to be collision free.  A hash chains over all    *)
(* tokens up to the end of its block (prefix.rs, compute_block_hashes), so *)
(* a collision-free hash is that prefix of the prompt.                     *)
(***************************************************************************)
EXTENDS PoolOps

CONSTANTS BlockSize,            \* KVCacheSpec.block_size
          EnablePrefixCaching   \* KVCacheManager.enable_prefix_caching

ASSUME KVAssumption == BlockSize \in Nat \ {0} /\ EnablePrefixCaching \in BOOLEAN

CeilDiv(n, d) == (n + d - 1) \div d

Monus(a, b) == IF a > b THEN a - b ELSE 0    \* usize::saturating_sub

Put(f, k, v) == [x \in DOMAIN f \cup {k} |-> IF x = k THEN v ELSE f[x]]

Drop(f, k) == Restrict(f, DOMAIN f \ {k})

Lookup(f, k, default) == IF k \in DOMAIN f THEN f[k] ELSE default

NoKeys == [x \in {} |-> x]

NewKV == [pool |-> NewPool, blocks |-> NoKeys, computed |-> NoKeys, hashes |-> NoKeys]

Table(kv, r) == Lookup(kv.blocks, r, <<>>)

-----------------------------------------------------------------------------

(* Faulty hashes of the tokens of one block alone.                         *)
UnchainedHashes(prompt) ==
    [i \in 1..(Len(prompt) \div BlockSize) |->
        SubSeq(prompt, (i - 1) * BlockSize + 1, i * BlockSize)]

BlockHashes(prompt) ==
    [i \in 1..(Len(prompt) \div BlockSize) |-> SubSeq(prompt, 1, i * BlockSize)]

(* The lookups of get_computed_blocks stop at the first miss.              *)
HitLength(p, hs) ==
    Max({n \in 0..Len(hs) : \A i \in 1..n : HasCached(p, hs[i])})

CacheRead(prompt, skip) == EnablePrefixCaching /\ ~skip /\ prompt # <<>>

(* The blocks get_computed_blocks returns.                                 *)
ComputedBlocks(kv, prompt, skip) ==
    IF CacheRead(prompt, skip)
    THEN LET hs == BlockHashes(prompt)
         IN  [i \in 1..HitLength(kv.pool, hs) |-> CachedBlock(kv.pool, hs[i])]
    ELSE <<>>

(* The pool after get_cached_block for the first n hashes of hs.           *)
GetCachedAll(p, hs, n) ==
    LET run[i \in 0..n] == IF i = 0 THEN p ELSE GetCachedBlock(run[i - 1], hs[i])
    IN  run[n]

(* It takes a reference on each and makes them the request's table.        *)
GetComputedBlocks(kv, r, prompt, skip) ==
    IF ~CacheRead(prompt, skip) THEN kv
    ELSE LET hs == BlockHashes(prompt)
             n  == HitLength(kv.pool, hs)
         IN  [pool     |-> GetCachedAll(kv.pool, hs, n),
              blocks   |-> Put(kv.blocks, r, ComputedBlocks(kv, prompt, skip)),
              computed |-> Put(kv.computed, r, n * BlockSize),
              hashes   |-> Put(kv.hashes, r, hs)]

-----------------------------------------------------------------------------
(* allocate_slots takes blocks one by one and frees them again when the    *)
(* pool runs out before the last one.                                      *)

AllocateMany(p, n) ==
    LET run[i \in 0..n] ==
            IF i = 0 THEN [pool |-> p, got |-> <<>>]
            ELSE [pool |-> Allocate(run[i - 1].pool),
                  got  |-> Append(run[i - 1].got, Victim(run[i - 1].pool))]
    IN  run[n]

FreeAll(p, bs) ==
    LET run[i \in 0..Len(bs)] == IF i = 0 THEN p ELSE Free(run[i - 1], bs[i])
    IN  run[Len(bs)]

BlocksFor(numTokens, numComputed) == CeilDiv(Monus(numTokens, numComputed), BlockSize)

CanAllocateSlots(kv, numTokens, numComputed) ==
    Len(kv.pool.freeQueue) >= BlocksFor(numTokens, numComputed)

AllocateSlots(kv, r, numTokens, numComputed) ==
    LET need == BlocksFor(numTokens, numComputed)
        free == Len(kv.pool.freeQueue)
        got  == AllocateMany(kv.pool, Min({need, free}))
    IN  IF need = 0 THEN kv
        ELSE IF need <= free
        THEN [kv EXCEPT !.pool = got.pool,
                        !.blocks = Put(kv.blocks, r, Table(kv, r) \o got.got)]
        ELSE [kv EXCEPT !.pool = FreeAll(got.pool, got.got)]

-----------------------------------------------------------------------------

FreeRequest(kv, r) ==
    [pool     |-> FreeAll(kv.pool, Table(kv, r)),
     blocks   |-> Drop(kv.blocks, r),
     computed |-> Drop(kv.computed, r),
     hashes   |-> Drop(kv.hashes, r)]

(* cache_block for each position after `from`, up to `upTo`.               *)
CacheRange(p, table, hs, from, upTo) ==
    LET run[k \in 0..Monus(upTo, from)] ==
            IF k = 0 THEN p ELSE CacheBlock(run[k - 1], table[from + k], hs[from + k])
    IN  run[Monus(upTo, from)]

(* A faulty cache_blocks that takes the hashes from the front of the list. *)
CacheFirstHashes(kv, r, numComputed) ==
    IF ~(EnablePrefixCaching /\ r \in DOMAIN kv.blocks /\ r \in DOMAIN kv.hashes)
    THEN kv
    ELSE LET from == Lookup(kv.computed, r, 0) \div BlockSize
             upTo == Min({numComputed \div BlockSize, Len(kv.hashes[r]), Len(kv.blocks[r])})
             shifted == [i \in 1..upTo |-> kv.hashes[r][Max({i - from, 1})]]
         IN  [kv EXCEPT !.pool = CacheRange(kv.pool, kv.blocks[r], shifted, from, upTo),
                        !.computed = Put(kv.computed, r, numComputed)]

(* cache_blocks hashes the full blocks not yet counted as cached.          *)
CacheBlocks(kv, r, numComputed) ==
    IF ~(EnablePrefixCaching /\ r \in DOMAIN kv.blocks /\ r \in DOMAIN kv.hashes)
    THEN kv
    ELSE LET table == kv.blocks[r]
             hs    == kv.hashes[r]
             from  == Lookup(kv.computed, r, 0) \div BlockSize
             upTo  == Min({numComputed \div BlockSize, Len(hs), Len(table)})
         IN  [kv EXCEPT !.pool = CacheRange(kv.pool, table, hs, from, upTo),
                        !.computed = Put(kv.computed, r, numComputed)]

(* A faulty fork that takes no references.                                 *)
ForkUncounted(kv, parent, child) ==
    IF parent \notin DOMAIN kv.blocks THEN kv
    ELSE [kv EXCEPT !.blocks = Put(kv.blocks, child, kv.blocks[parent])]

IncrefAll(p, bs) ==
    LET run[i \in 0..Len(bs)] == IF i = 0 THEN p ELSE Incref(run[i - 1], bs[i])
    IN  run[Len(bs)]

(* fork_blocks: the child shares every block of the parent.                *)
ForkBlocks(kv, parent, child) ==
    IF parent \notin DOMAIN kv.blocks THEN kv
    ELSE [pool     |-> IncrefAll(kv.pool, kv.blocks[parent]),
          blocks   |-> Put(kv.blocks, child, kv.blocks[parent]),
          computed |-> IF parent \in DOMAIN kv.computed
                       THEN Put(kv.computed, child, kv.computed[parent])
                       ELSE kv.computed,
          hashes   |-> IF parent \in DOMAIN kv.hashes
                       THEN Put(kv.hashes, child, kv.hashes[parent])
                       ELSE kv.hashes]

ResetCache(kv) ==
    IF DOMAIN kv.blocks # {} THEN kv
    ELSE [kv EXCEPT !.pool = ResetPrefixCache(kv.pool)]

-----------------------------------------------------------------------------
(* What must hold of the manager between two calls.                        *)

(* The references to b that block tables hold.                             *)
Holders(kv, b) ==
    UNION {{<<r, i>> : i \in {j \in DOMAIN kv.blocks[r] : kv.blocks[r][j] = b}}
           : r \in DOMAIN kv.blocks}

RefExactOf(kv) ==
    \A b \in Usable : kv.pool.refCount[b] = Cardinality(Holders(kv, b))

TablesDistinctOf(kv) ==
    \A r \in DOMAIN kv.blocks :
        IsInjective(kv.blocks[r]) /\ ToSet(kv.blocks[r]) \subseteq Usable

(* A cached block in a table stands for the request's own tokens.          *)
PrefixMatchesOf(kv, prompt) ==
    \A r \in DOMAIN kv.blocks : \A i \in DOMAIN kv.blocks[r] :
        LET h == kv.pool.hash[kv.blocks[r][i]]
        IN  h # NoHash => /\ i * BlockSize <= Len(prompt[r])
                          /\ h = SubSeq(prompt[r], 1, i * BlockSize)

=============================================================================
