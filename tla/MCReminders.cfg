SPECIFICATION FairSpec
CONSTANTS
    s1 = s1
    s2 = s2
    s3 = s3
    w1 = w1
    Bookings = {1, 2}
    Slots = {s1, s2, s3}
    Start <- Starts
    FirstSlot <- Made
    Hour = 1
    Day = 2
    PageSize = 1
    Workers = {w1}
    MaxTime = 2
    MaxEvents = 2
INVARIANTS RunCoversSteady
PROPERTIES TrueWhenWritten RemindersCome
CHECK_DEADLOCK FALSE
