---------------------------- MODULE MCChunkIndex ----------------------------
(* An entity and a record, two or three rebuilds.                           *)
EXTENDS ChunkIndex, TLC

Symmetry == Permutations(Builds)
=============================================================================
