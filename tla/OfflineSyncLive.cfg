\* A request can be served late, after or before its retry; an answer may stay uncommitted.
CONSTANTS
    Order = {o1}
    Opening = 0
    MaxQty = 1
    BatchSize = 2
    MaxOps = 3
    MaxOthers = 0
    MaxLate = 1
    CommitFails = TRUE

SPECIFICATION FairSpec

INVARIANT EffectAtMostOnce
PROPERTY QueueDrains
