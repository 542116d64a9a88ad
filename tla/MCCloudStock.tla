----------------------------- MODULE MCCloudStock -----------------------------
(* Model values for CloudStock: requests, orders and products are            *)
(* interchangeable in the safety runs.                                       *)
EXTENDS CloudStock, TLC

Symmetry == Permutations(Request) \cup Permutations(Product) \cup Permutations(Order)

\* The liveness run leaves out bodies that name a status: a choice no client
\* is obliged to make, and no step of a handler depends on it.
PlainCreates ==
    \A r \in Request : call[r].op = "create" => call[r].status = "pending"
===============================================================================
