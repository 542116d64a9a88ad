----------------------------- MODULE MCSubscription -----------------------------
(* TLC instances of Subscription. *)
EXTENDS Subscription

CONSTANTS r1, r2, starter, professional

\* The second checkout is for the larger plan.
MCPlanOf == [r \in Ref |-> IF r = r1 THEN starter ELSE professional]

===============================================================================
