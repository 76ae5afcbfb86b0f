SPECIFICATION Spec
CONSTANTS
    a1 = a1
    a2 = a2
    d1 = d1
    d2 = d2
    d3 = d3
    b1 = b1
    b2 = b2
    w1 = w1
    w2 = w2
    Nil = Nil
    Avatars = {a1, a2}
    Documents = {d1, d2, d3}
    TypeOf <- Types
    Bookings = {b1, b2}
    MaxUploads = 2
    Workers = {w1, w2}
INVARIANTS TypeOK NoMissingFile NothingForgotten OnePendingDocument CachesAreCurrent
SYMMETRY Symmetry
CHECK_DEADLOCK FALSE
