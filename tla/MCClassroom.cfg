SPECIFICATION Spec
CONSTANTS
    st1 = st1
    st2 = st2
    tu1 = tu1
    tu2 = tu2
    b1 = b1
    b2 = b2
    w1 = w1
    w2 = w2
    Nil = Nil
    Students = {st1}
    Tutors = {tu1}
    Bookings = {b1}
    Requests = {"r1"}
    Workers = {w1, w2}
    Slots <- MCSlots
    SlotTutor <- MCTutor
    StartAt <- MCStart
    EndAt <- MCEnd
    PostedAtStart <- MCPostedTwo
    Cutoff = 2
    MaxTime = 6
    Handlers = {"pay", "cancel", "classroom", "reschedule"}
INVARIANTS RowChecks ClaimProtectsCharge CompletedAfterClass
PROPERTIES ClosedIsFinal
SYMMETRY Symmetry
CHECK_DEADLOCK FALSE
