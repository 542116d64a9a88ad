\* Liveness under FairSpec, so no symmetry; two products make deadlocks possible.
CONSTANTS
    Product = {p1, p2}
    Order = {o1, o2}
    Request = {r1, r2}
    MaxStock = 1
    MaxQty = 1
SPECIFICATION FairSpec
CONSTRAINT PlainCreates
PROPERTY EveryRequestAnswered
