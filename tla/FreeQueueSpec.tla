--------------------------- MODULE FreeQueueSpec ----------------------------
(***************************************************************************)
(* What FreeBlockQueue promises its owner: an ordered list of distinct     *)
(* blocks with pushes at both ends, a pop at the head and removal from any *)
(* position that keeps the order of the rest (block_pool.rs:25-37).        *)
(***************************************************************************)
EXTENDS Naturals, Sequences, SequencesExt

CONSTANT Blocks

VARIABLE q   \* q[1] is the head (most recently used)

Init == q = <<>>

PushFront(b) == b \notin ToSet(q) /\ q' = <<b>> \o q

PushBack(b) == b \notin ToSet(q) /\ q' = Append(q, b)

PopFront == q # <<>> /\ q' = Tail(q)

Unlink(b) == \E i \in DOMAIN q : q[i] = b /\ q' = RemoveAt(q, i)

Next ==
    \/ \E b \in Blocks : PushFront(b)
    \/ \E b \in Blocks : PushBack(b)
    \/ PopFront
    \/ \E b \in Blocks : Unlink(b)

Spec == Init /\ [][Next]_q
=============================================================================
