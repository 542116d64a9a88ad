---------------------------- MODULE MCPullCursor ----------------------------
(* TLC instances of PullCursor. *)
EXTENDS PullCursor, TLC

Symmetry == Permutations(Row) \cup Permutations(Writer)
==============================================================================
