\* Two operations of the owner and three changes in the cloud; crashes and failures anywhere.
CONSTANTS
    Op = {o1, o2}
    MaxChanges = 3
    None = None
    Partial = Partial
    Torn = Torn

SYMMETRY Symmetry
SPECIFICATION Spec
\* With a torn file in place the application cannot start: the owner has to intervene.
CHECK_DEADLOCK FALSE

INVARIANTS TypeOK SwapKeepsLive NoWorkLost CursorHonest
