SPECIFICATION FairSpec
CONSTANTS
    m1 = m1
    m2 = m2
    p1 = p1
    Nil = Nil
    MyPosts = {m1}
    PeerPosts = {p1}
    PageSize = 1
    MaxDrafts = 1
    MaxFaults = 0
PROPERTIES NoMessageSkipped
CHECK_DEADLOCK FALSE
