---------------------------- MODULE MCStockWriters ----------------------------
(* TLC instances of StockWriters: one movement takes, the other adds. *)
EXTENDS StockWriters, TLC

CONSTANTS sale, purchase

TakeAndAdd == (sale :> -1) @@ (purchase :> 1)

Symmetry == Permutations(Request)
================================================================================
