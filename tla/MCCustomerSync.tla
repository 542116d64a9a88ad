---------------------------- MODULE MCCustomerSync ----------------------------
(* TLC instances of CustomerSync. *)
EXTENDS CustomerSync, TLC

Symmetry == Permutations(Own) \cup Permutations(Native) \cup Permutations(Email)
================================================================================
