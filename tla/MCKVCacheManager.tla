--------------------------- MODULE MCKVCacheManager ---------------------------
(* Three requests over two tokens: r1 and r2 share a prefix of one block.  *)
EXTENDS KVCacheManager

CONSTANTS r1, r2, r3

MCPrompt == (r1 :> <<0, 0>>) @@ (r2 :> <<0, 1>>) @@ (r3 :> <<0, 1>>)

MCHashes == UNION {ToSet(BlockHashes(MCPrompt[r])) : r \in Requests}
=============================================================================
