\* Four requests: a push, two retries of it and another writer.
CONSTANTS
    sale = sale
    purchase = purchase
    Request = {r1, r2, r3, r4}
    Movement = {sale, purchase}
    Change <- TakeAndAdd
    Opening = 0

SYMMETRY Symmetry
SPECIFICATION Spec

INVARIANTS TypeOK MovementAppliedOnce
