----------------------------- MODULE MCBlockPool -----------------------------
(* BlockPool on three usable blocks and two hashes.                        *)
EXTENDS BlockPool
=============================================================================
