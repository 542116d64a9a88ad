\* Two cycles at a time, one row, one change of the owner and one of others.
CONSTANTS
    Cycle = {c1, c2}
    Row = {r1}
    MaxOthers = 1

SPECIFICATION FairSpec
INVARIANTS TypeOK NothingSkipped GateAfterPull
PROPERTIES QueueDrains MirrorCatchesUp
