\* Three requests, so that one can be overtaken by two others; an order of two lines.
CONSTANTS
    Product = {p1, p2}
    Order = {o1}
    Request = {r1, r2, r3}
    MaxStock = 1
    MaxQty = 1
SPECIFICATION Spec
SYMMETRY Symmetry
INVARIANTS
    TypeOK
    LedgerBalanced
    DeductedAtMostOnce
PROPERTIES
    OrdersPlacedWhole
    StockIsAtomic
