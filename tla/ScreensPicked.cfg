\* The bounds of Screens.cfg, with one visit and one turn of the gate.
CONSTANTS
    c1 = c1
    c2 = c2
    p1 = p1
    p2 = p2
    o1 = o1
    Customer = {c1, c2}
    Product = {p1, p2}
    Order = {o1, o2}
    Foreign = foreign
    Opening <- MCCrowded
    Drafts = {{}, {p2}}
    MaxReads = 2
    MaxWrites = 1
    MaxVisits = 1
    MaxFlips = 1

SPECIFICATION Spec

INVARIANT PickedIsOrdered
