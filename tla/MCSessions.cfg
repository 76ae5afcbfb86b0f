SPECIFICATION Spec
CONSTANTS
    v1 = v1
    v2 = v2
    r1 = r1
    w1 = w1
    w2 = w2
    c1 = c1
    Nil = Nil
    MaxSessions = 2
    Links = {v1, v2}
    Resets = {r1}
    Workers = {w1, w2}
    Sockets = {c1}
    MaxRefresh = 2
INVARIANTS TypeOK OneTimeTokens NothingOutlivesReset ReuseMeansLostReply NoDeliveryAfterNotice
SYMMETRY Symmetry
CHECK_DEADLOCK FALSE
