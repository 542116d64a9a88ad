\* Two customers, two products, an order in the cloud and one to create; the gate turns once.
CONSTANTS
    c1 = c1
    c2 = c2
    p1 = p1
    p2 = p2
    o1 = o1
    Customer = {c1, c2}
    Product = {p1, p2}
    Order = {o1, o2}
    Foreign = foreign
    Opening <- MCOpening
    Drafts = {{}, {p2}}
    MaxReads = 2
    MaxWrites = 2
    MaxVisits = 1
    MaxFlips = 1

SPECIFICATION Spec

INVARIANTS TypeOK EditsReachTheShownRow ViewedIsMeant ClosedGateOrders SavedHonestly
