\* Two customers of the device and one of the cloud, two emails to fight over.
CONSTANTS
    Own = {c1, c2}
    Native = {n1}
    Email = {e1, e2}
    MaxOps = 3
    MaxOthers = 1

SYMMETRY Symmetry
SPECIFICATION Spec

INVARIANTS TypeOK OneOwner CreatesDelivered Converges
