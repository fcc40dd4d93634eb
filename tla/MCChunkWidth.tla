---------------------------- MODULE MCChunkWidth ----------------------------
(* ChunkWidth for TLC: 2^31 becomes a small power of two.                  *)
EXTENDS ChunkWidth
=============================================================================
