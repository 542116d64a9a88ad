----------------------------- MODULE MCOfflineSync -----------------------------
(* TLC instances of OfflineSync. *)
EXTENDS OfflineSync, TLC

\* Orders differ in nothing but their name.
Symmetry == Permutations(Order)
===============================================================================
