\* An order and one more operation in batches of two, another user, lost answers, restarts.
CONSTANTS
    Order = {o1}
    Opening = 0
    MaxQty = 1
    BatchSize = 2
    MaxOps = 4
    MaxOthers = 1
    MaxLate = 0
    CommitFails = FALSE

SPECIFICATION Spec

INVARIANTS TypeOK StockConverges CreatesDelivered StockIsLedger
PROPERTY CloudOrdersMoveForward
