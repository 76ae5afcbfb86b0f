SPECIFICATION Spec
CONSTANTS
    b1 = b1
    b2 = b2
    a1 = a1
    a2 = a2
    a3 = a3
    w1 = w1
    w2 = w2
    w3 = w3
    Nil = Nil
    Bookings = {b1, b2}
    Attempts = {a1, a2, a3}
    Workers = {w1, w2, w3}
INVARIANTS NeverChargedTwice MoneyHasABooking OneAttemptCounts
PROPERTIES ResultsAreFinal ImplementsContract
SYMMETRY Symmetry
CHECK_DEADLOCK FALSE
