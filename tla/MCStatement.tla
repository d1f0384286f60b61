------------------------------ MODULE MCStatement ------------------------------
(* Statement for TLC.  Statements, descriptors and buffers are interchangeable. *)
EXTENDS Statement, TLC

Symmetry ==
    Permutations(Executing) \union Permutations(Stmts \ Executing) \union
    Permutations(Descs) \union Permutations(Buffers)
================================================================================
