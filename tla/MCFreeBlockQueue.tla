-------------------------- MODULE MCFreeBlockQueue --------------------------
(* FreeBlockQueue on a small set of blocks.                                *)
EXTENDS FreeBlockQueue
=============================================================================
