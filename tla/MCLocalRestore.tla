---------------------------- MODULE MCLocalRestore ----------------------------
(* TLC instances of LocalRestore. *)
EXTENDS LocalRestore, TLC

Symmetry == Permutations(Op)
===============================================================================
