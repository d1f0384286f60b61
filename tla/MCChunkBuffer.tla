---------------------------- MODULE MCChunkBuffer ----------------------------
(* Symmetry for model-checking ChunkBuffer; only the runs without liveness
   properties use it. *)
EXTENDS ChunkBuffer, TLC

Symmetry == Permutations(Endpoints)
=============================================================================
