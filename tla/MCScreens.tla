------------------------------- MODULE MCScreens -------------------------------
(* TLC instances of Screens: the cloud's tables begin with a row of another     *)
(* business, so that an id means different rows on the two sides.               *)
EXTENDS Screens

CONSTANTS c1, c2, p1, p2, o1

MCOpening == [k \in Kind |-> IF k = "customer" THEN <<Foreign, c1>>
                            ELSE IF k = "product" THEN <<Foreign, p1, p2>> ELSE <<Foreign, o1>>]

\* Both customers are there from the start.
MCCrowded == [MCOpening EXCEPT !["customer"] = Append(@, c2)]
================================================================================
