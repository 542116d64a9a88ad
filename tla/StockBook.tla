------------------------------- MODULE StockBook -------------------------------
(***************************************************************************)
(* What the cloud promises about stock: every committed change of stock is *)
(* one atomic step on the stock of that moment, which is never negative.   *)
(* An order takes all of its lines in one step, and whatever puts an       *)
(* order's stock back puts back all of its lines in one step.              *)
(***************************************************************************)
EXTENDS Integers

CONSTANTS Product, Order

VARIABLES
    stock,   \* units on hand
    taken    \* per order, the lines it took; all zero until it is placed

vars == <<stock, taken>>

Nothing == [p \in Product |-> 0]

Init ==
    /\ stock = Nothing
    /\ taken = [o \in Order |-> Nothing]

\* Opening stock, adjustments, synced movements: the level of one product
\* moves to some other level.
Adjust(p) ==
    /\ stock'[p] \in Nat
    /\ stock' = [stock EXCEPT ![p] = stock'[p]]
    /\ UNCHANGED taken

\* The order's lines leave stock in the step that records them.
Place(o) ==
    /\ taken[o] = Nothing
    /\ taken' = [taken EXCEPT ![o] = taken'[o]]
    /\ \A p \in Product : taken'[o][p] \in 0..stock[p]
    /\ stock' = [p \in Product |-> stock[p] - taken'[o][p]]

PutBack(o) ==
    /\ stock' = [p \in Product |-> stock[p] + taken[o][p]]
    /\ UNCHANGED taken

Next ==
    \/ \E p \in Product : Adjust(p)
    \/ \E o \in Order : Place(o) \/ PutBack(o)

Spec == Init /\ [][Next]_vars
================================================================================
