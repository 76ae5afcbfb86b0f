SPECIFICATION PageFairSpec
CONSTANTS
    b1 = b1
    a1 = a1
    a2 = a2
    w1 = w1
    w2 = w2
    c1 = c1
    c2 = c2
    Nil = Nil
    Bookings = {b1}
    Attempts = {a1}
    Workers = {w1, w2}
    Shown = b1
    Calls = {c1, c2}
    MaxClicks = 1
INVARIANTS PageTypeOK
PROPERTIES NeverShowsThePast OutcomeShown
CHECK_DEADLOCK FALSE
