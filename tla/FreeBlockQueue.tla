--------------------------- MODULE FreeBlockQueue ---------------------------
(***************************************************************************)
(* The intrusive doubly linked list of free KV-cache blocks                *)
(* (crates/rllm-cache/src/block_pool.rs, FreeBlockQueue).  The links live  *)
(* in the block metadata (prev_free, next_free); the queue itself keeps    *)
(* only head, tail and a length counter.  The head is the most recently    *)
(* used end, the tail the least recently used one.                         *)
(*                                                                         *)
(* A push of a linked block or a removal of an unlinked one corrupts the   *)
(* list; BlockPool never does either (it pushes a block only when its      *)
(* reference count reaches zero and removes only queued blocks), so the    *)
(* two obligations are the guards of the actions here and BlockPool's      *)
(* FreeListExact discharges them.                                          *)
(***************************************************************************)
EXTENDS Naturals, FiniteSets, Sequences

CONSTANTS Blocks,  \* block indices that may be queued
          None     \* Rust's Option::None for head, tail and the links

ASSUME QueueAssumption == IsFiniteSet(Blocks) /\ None \notin Blocks

VARIABLES head, tail,          \* FreeBlockQueue.head, .tail
          len,                 \* FreeBlockQueue.len
          prevFree, nextFree   \* KVCacheBlock.prev_free, .next_free

vars == <<head, tail, len, prevFree, nextFree>>

(* The membership test BlockPool::touch and get_cached_block make.         *)
InQueue(b) == prevFree[b] # None \/ nextFree[b] # None \/ head = b

Queued == {b \in Blocks : InQueue(b)}

Init ==
    /\ head = None
    /\ tail = None
    /\ len = 0
    /\ prevFree = [b \in Blocks |-> None]
    /\ nextFree = [b \in Blocks |-> None]

(* A faulty push_front that links the block at the other end.              *)
PushFrontAtTail(b) ==
    /\ ~InQueue(b)
    /\ prevFree' = [prevFree EXCEPT ![b] = tail]
    /\ nextFree' = [c \in Blocks |-> IF c = b THEN None
                                     ELSE IF c = tail THEN b ELSE nextFree[c]]
    /\ head' = IF tail = None THEN b ELSE head
    /\ tail' = b
    /\ len' = len + 1

PushFront(b) ==
    /\ ~InQueue(b)
    /\ prevFree' = [c \in Blocks |-> IF c = b THEN None
                                     ELSE IF c = head THEN b ELSE prevFree[c]]
    /\ nextFree' = [nextFree EXCEPT ![b] = head]
    /\ tail' = IF head = None THEN b ELSE tail
    /\ head' = b
    /\ len' = len + 1

(* A faulty push_back that forgets the old tail's next_free.               *)
PushBackOneWay(b) ==
    /\ ~InQueue(b)
    /\ prevFree' = [prevFree EXCEPT ![b] = tail]
    /\ nextFree' = [nextFree EXCEPT ![b] = None]
    /\ head' = IF tail = None THEN b ELSE head
    /\ tail' = b
    /\ len' = len + 1

PushBack(b) ==
    /\ ~InQueue(b)
    /\ prevFree' = [prevFree EXCEPT ![b] = tail]
    /\ nextFree' = [c \in Blocks |-> IF c = b THEN None
                                     ELSE IF c = tail THEN b ELSE nextFree[c]]
    /\ head' = IF tail = None THEN b ELSE head
    /\ tail' = b
    /\ len' = len + 1

PopFront ==
    /\ head # None
    /\ head' = nextFree[head]
    /\ tail' = IF nextFree[head] = None THEN None ELSE tail
    /\ prevFree' = [c \in Blocks |-> IF c = head \/ c = nextFree[head]
                                     THEN None ELSE prevFree[c]]
    /\ nextFree' = [nextFree EXCEPT ![head] = None]
    /\ len' = len - 1

(* FreeBlockQueue::remove: unlink b wherever it stands.                    *)
Unlink(b) ==
    /\ InQueue(b)
    /\ head' = IF prevFree[b] = None THEN nextFree[b] ELSE head
    /\ tail' = IF nextFree[b] = None THEN prevFree[b] ELSE tail
    /\ nextFree' = [c \in Blocks |-> IF c = b THEN None
                                     ELSE IF c = prevFree[b] THEN nextFree[b]
                                     ELSE nextFree[c]]
    /\ prevFree' = [c \in Blocks |-> IF c = b THEN None
                                     ELSE IF c = nextFree[b] THEN prevFree[b]
                                     ELSE prevFree[c]]
    /\ len' = len - 1

Next ==
    \/ \E b \in Blocks : PushFront(b)
    \/ \E b \in Blocks : PushBack(b)
    \/ PopFront
    \/ \E b \in Blocks : Unlink(b)

Spec == Init /\ [][Next]_vars

-----------------------------------------------------------------------------

TypeOK ==
    /\ head \in Blocks \cup {None}
    /\ tail \in Blocks \cup {None}
    /\ len \in Nat
    /\ prevFree \in [Blocks -> Blocks \cup {None}]
    /\ nextFree \in [Blocks -> Blocks \cup {None}]

(* Every link is answered by the opposite link of the neighbour, and the   *)
(* two ends of the list are exactly the linked blocks with a missing link. *)
WellLinked ==
    /\ \A b \in Blocks : nextFree[b] # None => prevFree[nextFree[b]] = b
    /\ \A b \in Blocks : prevFree[b] # None => nextFree[prevFree[b]] = b
    /\ \A b \in Queued : prevFree[b] = None => head = b
    /\ \A b \in Queued : nextFree[b] = None => tail = b
    /\ head = None <=> tail = None
    /\ head # None => prevFree[head] = None
    /\ tail # None => tail \in Queued /\ nextFree[tail] = None

(* The counter `len`, which BlockPool::num_free and usage() report, is the *)
(* number of linked blocks.                                                *)
LenExact == len = Cardinality(Queued)

-----------------------------------------------------------------------------
(* The first n blocks along the links nxt from first.                      *)
Follow(first, nxt, n) ==
    LET at[i \in 1..n] == IF i = 1 THEN first ELSE nxt[at[i - 1]]
    IN  at

(* The list an iteration along next_free from the head visits.             *)
Walk == Follow(head, nextFree, len)

Abstract == INSTANCE FreeQueueSpec WITH q <- Walk

(* Each operation has the effect of its namesake on the walked list.       *)
ActsOnWalk ==
    /\ \A b \in Blocks : PushFront(b) => Abstract!PushFront(b)
    /\ \A b \in Blocks : PushBack(b) => Abstract!PushBack(b)
    /\ PopFront => Abstract!PopFront
    /\ \A b \in Blocks : Unlink(b) => Abstract!Unlink(b)

(* FreeBlockQueue implements an ordered list of distinct blocks: every     *)
(* push, pop and unlink of the pointer structure has exactly the effect on *)
(* the walked list that its name promises, and changes the order of no     *)
(* other block (block_pool.rs:53-121).                                     *)
ImplementsList == Abstract!Spec /\ [][ActsOnWalk]_vars

=============================================================================
