\* Two carts, two additions and a read on either store, a failing call.
CONSTANTS
    Creates = {c1, c2}
    Adds = {a1, a2}
    Gets = {g1}
    Products = {p1, p2}
    Quantities = {1}
    NoCart = nocart
    Period = 2
    MaxInt = 2
    MaxAttempts = 3
    MaxTime = 3
    MaxFailures = 1
SPECIFICATION Spec
SYMMETRY Symmetry
INVARIANTS TypeOK TotalsExact ReadsCurrent NotFoundTruthful
CHECK_DEADLOCK FALSE
