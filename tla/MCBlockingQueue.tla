--------------------------- MODULE MCBlockingQueue ---------------------------
(* Constants and symmetry for model-checking BlockingQueue. *)
EXTENDS BlockingQueue, TLC

ProducerSymmetry == Permutations(Producers)
Symmetry == Permutations(Producers) \cup Permutations(Items)
=============================================================================
