------------------------------ MODULE MCResultSet ------------------------------
(* Symmetry of the C types that can be read, for an instance with several of them
   and no liveness property. *)
EXTENDS ResultSet, TLC

Symmetry == Permutations(Types \ NoAccessor)
================================================================================
