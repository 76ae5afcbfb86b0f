SPECIFICATION FairSpec
CONSTANTS
    m1 = m1
    m2 = m2
    p1 = p1
    Nil = Nil
    MyPosts = {m1, m2}
    PeerPosts = {p1}
    PageSize = 1
    MaxDrafts = 1
    MaxFaults = 1
INVARIANTS TypeOK OneMessagePerDraft NothingSkipped
PROPERTIES ReceiptsAreTrue MessagesArrive
CHECK_DEADLOCK FALSE
