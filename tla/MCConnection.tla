---------------------------- MODULE MCConnection ----------------------------
(* Connection for model checking.  No symmetry: the run checks liveness, and *)
(* two statements are few.                                                   *)
EXTENDS Connection
=============================================================================
