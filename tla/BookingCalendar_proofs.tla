----------------------- MODULE BookingCalendar_proofs -----------------------
(***************************************************************************)
(* No slot and no tutor is booked twice and no booked slot is deleted, for *)
(* any number of workers: what a transaction checks under the lock of a    *)
(* slot stays true until it commits.  From this, the booking desk          *)
(* implements SlotCalendar: seen through the open slots and the slot each  *)
(* active booking holds, every step of a handler is one indivisible        *)
(* operation on the calendar or none.                                      *)
(***************************************************************************)
EXTENDS BookingLocks_proofs

\* What a transaction has checked under a slot lock stays true until it commits.
SlotLockProtects ==
    \A t \in Workers :
        job[t].op \in {"create", "approving"} =>
            slot[job[t].s] = "LIVE" /\ ~Reserved(job[t].s)

\* Published slots of a tutor do not overlap.
LiveDisjoint == Disjoint({s \in Slots : slot[s] = "LIVE"})

\* A booking keeps to the slots of its tutor ...
OwnSlot ==
    \A b \in Bookings : booking[b].status # "NONE" =>
        booking[b].tutor = SlotTutor[booking[b].slot]

\* ... because a request to move it only names slots of that tutor ...
OwnTarget ==
    /\ \A r \in Requests : request[r].status # "NONE" =>
          /\ booking[request[r].b].status # "NONE"
          /\ SlotTutor[request[r].to] = booking[request[r].b].tutor
    /\ \A t \in Workers : job[t].op = "requestMove" =>
          SlotTutor[job[t].s] = booking[job[t].b].tutor

\* ... and an approval works on the booking and the slot of its request.
ApprovesRequest ==
    \A t \in Workers : job[t].op \in {"approve", "approving"} =>
        /\ request[job[t].r].status # "NONE"
        /\ request[job[t].r].b = job[t].b
        /\ request[job[t].r].to = job[t].s

CalendarInv ==
    /\ SlotLockProtects
    /\ NoDoubleBooking
    /\ ActiveSlotLive
    /\ LiveDisjoint
    /\ OwnSlot
    /\ OwnTarget
    /\ ApprovesRequest

-----------------------------------------------------------------------------
(* The shapes of a step *)

\* A step after which no booking holds a slot it did not hold, and which adds
\* no row.
Quiet ==
    /\ UNCHANGED slot
    /\ \A b \in Bookings :
          /\ Active(b)' => Active(b)
          /\ booking'[b].status = "NONE" <=> booking[b].status = "NONE"
          /\ booking'[b].slot = booking[b].slot
          /\ booking'[b].tutor = booking[b].tutor
    /\ \A r \in Requests :
          /\ request'[r].status = "NONE" <=> request[r].status = "NONE"
          /\ request'[r].b = request[r].b
          /\ request'[r].to = request[r].to

\* What is true of the rows alone survives a quiet step.
LEMMA QuietRows ==
    ASSUME TypeInv, CalendarInv, Quiet
    PROVE  /\ NoDoubleBooking'
           /\ ActiveSlotLive'
           /\ LiveDisjoint'
           /\ OwnSlot'
           /\ \A s \in Slots : Reserved(s)' => Reserved(s)
           /\ \A r \in Requests : request'[r].status # "NONE" =>
                 /\ booking'[request'[r].b].status # "NONE"
                 /\ SlotTutor[request'[r].to] = booking'[request'[r].b].tutor
<1>1. \A b \in Bookings, s \in Slots : Holds(b, s)' => Holds(b, s)
    BY DEF Quiet, Holds
<1>2. NoDoubleBooking'
    BY <1>1 DEF CalendarInv, NoDoubleBooking
<1>3. ActiveSlotLive'
    BY DEF CalendarInv, ActiveSlotLive, Quiet
<1>4. LiveDisjoint'
    BY DEF CalendarInv, LiveDisjoint, Quiet, Disjoint
<1>5. OwnSlot'
    BY DEF CalendarInv, OwnSlot, Quiet
<1>6. \A s \in Slots : Reserved(s)' => Reserved(s)
    BY <1>1 DEF Reserved
<1>7. ASSUME NEW r \in Requests, request'[r].status # "NONE"
      PROVE  /\ booking'[request'[r].b].status # "NONE"
             /\ SlotTutor[request'[r].to] = booking'[request'[r].b].tutor
    <2>1. request[r].status # "NONE" /\ request[r].b \in Bookings
        BY <1>7 DEF Quiet, TypeInv, GoodRequest
    <2>2. QED
        BY <2>1 DEF CalendarInv, OwnTarget, Quiet
<1>8. QED
    BY <1>2, <1>3, <1>4, <1>5, <1>6, <1>7

\* The rows a worker counts on exist.
LEMMA JobFields ==
    ASSUME TypeInv, NEW t \in Workers
    PROVE  /\ job[t].op \in {"create", "requestMove", "approve", "approving"}
              => job[t].b \in Bookings /\ job[t].s \in Slots
           /\ job[t].op \in {"requestMove", "approve", "approving"} => job[t].r \in Requests
BY DEF TypeInv, GoodJob

\* A quiet step in which each worker stays where it is or answers.
LEMMA CalendarQuiet ==
    ASSUME TypeInv, CalendarInv, Quiet,
           \A t \in Workers : job'[t] = job[t] \/ job'[t] = Idle
    PROVE  CalendarInv'
<1>1. \A t \in Workers : job'[t].op # "idle" => job'[t] = job[t]
    BY DEF Idle
<1>2. SlotLockProtects'
    BY <1>1, QuietRows, JobFields DEF CalendarInv, SlotLockProtects, Quiet
<1>3. OwnTarget'
    BY <1>1, QuietRows, JobFields DEF CalendarInv, OwnTarget, Quiet
<1>4. ApprovesRequest'
    BY <1>1, JobFields DEF CalendarInv, ApprovesRequest, Quiet
<1>5. QED
    BY <1>2, <1>3, <1>4, QuietRows DEF CalendarInv

\* What a worker must have checked of the rows when it starts to count on them.
Checked(j) ==
    /\ j.op \in {"create", "approving"} => slot[j.s] = "LIVE" /\ ~Reserved(j.s)
    /\ j.op = "requestMove" => SlotTutor[j.s] = booking[j.b].tutor
    /\ j.op \in {"approve", "approving"} =>
          /\ request[j.r].status # "NONE"
          /\ request[j.r].b = j.b
          /\ request[j.r].to = j.s

\* A step in which one worker reads or locks and nothing is written.
LEMMA CalendarRead ==
    ASSUME TypeInv, CalendarInv, NEW t \in Workers, UNCHANGED <<slot, booking, request>>,
           Checked(job'[t]), \A u \in Workers : u # t => job'[u] = job[u]
    PROVE  CalendarInv'
<1>1. Quiet
    BY DEF Quiet, Active
<1>2. SlotLockProtects'
    BY <1>1, JobFields DEF CalendarInv, SlotLockProtects, Checked, Reserved, Holds, Active
<1>3. OwnTarget'
    BY JobFields DEF CalendarInv, OwnTarget, Checked
<1>4. ApprovesRequest'
    BY JobFields DEF CalendarInv, ApprovesRequest, Checked
<1>5. QED
    BY <1>1, <1>2, <1>3, <1>4, QuietRows DEF CalendarInv

-----------------------------------------------------------------------------
(* The reads *)

\* Reads that count on nothing but the rows they will check again.
PlainRead(t) ==
    \/ \E s \in Slots : PostRead(t, s) \/ DeleteRead(t, s)
    \/ \E b \in Bookings, op \in {"confirm", "reject"} : DecideRead(t, b, op)
    \/ \E b \in Bookings, u \in Participants : CancelRead(t, b, u)
    \/ \E b \in Bookings : LinkRead(t, b) \/ AttendRead(t, b) \/ PayRead(t, b)

PlainOp == {"post", "delete", "confirm", "reject", "cancel", "link", "attend", "pay"}

LEMMA PlainReadEffect ==
    ASSUME TypeInv, NEW t \in Workers, PlainRead(t)
    PROVE  /\ job'[t].op \in PlainOp
           /\ \A u \in Workers : u # t => job'[u] = job[u]
           /\ UNCHANGED <<now, slot, booking, request>>
<1>1. ASSUME NEW s \in Slots, PostRead(t, s) \/ DeleteRead(t, s)
      PROVE  job'[t].op \in PlainOp /\ \A u \in Workers : u # t => job'[u] = job[u]
    BY <1>1 DEF PostRead, DeleteRead, Begin, Idle, TypeInv, PlainOp
<1>2. ASSUME NEW b \in Bookings, NEW op \in {"confirm", "reject"}, DecideRead(t, b, op)
      PROVE  job'[t].op \in PlainOp /\ \A u \in Workers : u # t => job'[u] = job[u]
    BY <1>2 DEF DecideRead, Begin, Idle, TypeInv, PlainOp
<1>3. ASSUME NEW b \in Bookings, NEW u \in Participants, CancelRead(t, b, u)
      PROVE  job'[t].op \in PlainOp /\ \A v \in Workers : v # t => job'[v] = job[v]
    BY <1>3 DEF CancelRead, Begin, Idle, TypeInv, PlainOp
<1>4. ASSUME NEW b \in Bookings, LinkRead(t, b) \/ AttendRead(t, b) \/ PayRead(t, b)
      PROVE  job'[t].op \in PlainOp /\ \A u \in Workers : u # t => job'[u] = job[u]
    BY <1>4 DEF LinkRead, AttendRead, PayRead, Begin, Idle, TypeInv, PlainOp
<1>5. UNCHANGED <<now, slot, booking, request>>
    BY DEF PlainRead, PostRead, DeleteRead, DecideRead, CancelRead, LinkRead, AttendRead,
           PayRead
<1>6. QED
    BY <1>1, <1>2, <1>3, <1>4, <1>5 DEF PlainRead

LEMMA CalendarPlainRead ==
    ASSUME TypeInv, CalendarInv, NEW t \in Workers, PlainRead(t)
    PROVE  CalendarInv'
<1>1. Checked(job'[t])
    BY PlainReadEffect DEF Checked, PlainOp
<1>2. QED
    BY <1>1, PlainReadEffect, CalendarRead

\* create has checked the slot it locks.
LEMMA CalendarCreateLock ==
    ASSUME TypeInv, CalendarInv, NEW t \in Workers, NEW b \in Bookings, NEW s \in Slots,
           NEW u \in Students, CreateLock(t, b, s, u)
    PROVE  CalendarInv'
<1>1. /\ job'[t].op = "create" /\ job'[t].s = s
      /\ \A v \in Workers : v # t => job'[v] = job[v]
    BY DEF CreateLock, Begin, Idle, TypeInv
<1>2. UNCHANGED <<slot, booking, request>> /\ Checked(job'[t])
    BY <1>1 DEF CreateLock, Bookable, Checked
<1>3. QED
    BY <1>1, <1>2, CalendarRead

\* A request asks for a slot of the booking's tutor.
LEMMA CalendarRequestLock ==
    ASSUME TypeInv, CalendarInv, NEW t \in Workers, NEW r \in Requests,
           NEW b \in Bookings, NEW s \in Slots, NEW u \in Participants,
           RequestLock(t, r, b, s, u)
    PROVE  CalendarInv'
<1>1. /\ job'[t].op = "requestMove" /\ job'[t].s = s /\ job'[t].b = b
      /\ \A v \in Workers : v # t => job'[v] = job[v]
    BY DEF RequestLock, Begin, Idle, TypeInv
<1>2. UNCHANGED <<slot, booking, request>> /\ Checked(job'[t])
    BY <1>1 DEF RequestLock, GoodTarget, Checked
<1>3. QED
    BY <1>1, <1>2, CalendarRead

LEMMA CalendarApproveLock ==
    ASSUME TypeInv, CalendarInv, NEW t \in Workers, NEW r \in Requests,
           NEW u \in Participants, ApproveLock(t, r, u)
    PROVE  CalendarInv'
<1>1. /\ job'[t].op = "approve" /\ job'[t].r = r
      /\ job'[t].b = request[r].b /\ job'[t].s = request[r].to
      /\ \A v \in Workers : v # t => job'[v] = job[v]
    BY DEF ApproveLock, Begin, Idle, TypeInv
<1>2. UNCHANGED <<slot, booking, request>> /\ Checked(job'[t])
    BY <1>1 DEF ApproveLock, Checked
<1>3. QED
    BY <1>1, <1>2, CalendarRead

\* approve has checked the target slot it locks.
LEMMA CalendarApproveTarget ==
    ASSUME TypeInv, CalendarInv, NEW t \in Workers, ApproveTarget(t)
    PROVE  CalendarInv'
<1>1. UNCHANGED <<slot, booking, request>>
    BY DEF ApproveTarget
<1>2. CASE Finish(t)
    <2>1. Checked(job'[t]) /\ \A v \in Workers : v # t => job'[v] = job[v]
        BY <1>2, FinishEffect DEF Idle, Checked
    <2>2. QED
        BY <1>1, <2>1, CalendarRead
<1>3. CASE BeforeCutoff(job[t].b) /\ GoodTarget(job[t].b, job[t].s)
    <2>1. /\ job'[t] = [job[t] EXCEPT !.op = "approving", !.at = now]
          /\ \A v \in Workers : v # t => job'[v] = job[v]
          /\ job[t].op = "approve" /\ job[t] \in GoodJob
        BY <1>3 DEF ApproveTarget, TypeInv
    <2>2. /\ job'[t].op = "approving" /\ job'[t].b = job[t].b
          /\ job'[t].s = job[t].s /\ job'[t].r = job[t].r
        BY <2>1 DEF GoodJob, Job
    <2>3. Checked(job'[t])
        BY <1>3, <2>1, <2>2 DEF Checked, GoodTarget, CalendarInv, ApprovesRequest
    <2>4. QED
        BY <1>1, <2>1, <2>3, CalendarRead
<1>4. QED
    BY <1>2, <1>3 DEF ApproveTarget

-----------------------------------------------------------------------------
(* The writes that take no slot *)

\* Commits that change one booking row and leave its slot alone or give it up.
PlainWrite(t) ==
    \/ ConfirmCommit(t)
    \/ RejectCommit(t)
    \/ CancelCommit(t)
    \/ LinkCommit(t)
    \/ \E value \in {"ATTENDED", "ABSENT"} : AttendCommit(t, value)
    \/ PayClaim(t)

\* The columns the calendar is about.
SameRow(b) ==
    /\ booking'[b].status = booking[b].status
    /\ booking'[b].slot = booking[b].slot
    /\ booking'[b].tutor = booking[b].tutor

\* The row keeps its slot and its tutor, and does not become active.
Kept(b) ==
    /\ booking'[b].status \in ActiveStatus => Active(b)
    /\ booking'[b].status # "NONE" /\ booking[b].status # "NONE"
    /\ booking'[b].slot = booking[b].slot
    /\ booking'[b].tutor = booking[b].tutor

LEMMA PlainWriteEffect ==
    ASSUME TypeInv, LockInv, NEW t \in Workers, PlainWrite(t)
    PROVE  /\ Finish(t)
           /\ UNCHANGED <<now, slot, request>>
           /\ job[t].b \in Bookings
           /\ Kept(job[t].b)
           /\ \A c \in Bookings : c # job[t].b => SameRow(c)
<1> DEFINE b == job[t].b
<1>1. Finish(t) /\ UNCHANGED <<now, slot, request>>
    BY DEF PlainWrite, ConfirmCommit, RejectCommit, CancelCommit, LinkCommit,
           AttendCommit, PayClaim
<1>2. job[t].op \in {"confirming", "reject", "cancel", "link", "attend", "pay"}
    BY DEF PlainWrite, ConfirmCommit, RejectCommit, CancelCommit, LinkCommit,
           AttendCommit, PayClaim
<1>3. b \in Bookings /\ booking[b] \in BookingRow /\ booking[b].status # "NONE"
    BY <1>2 DEF TypeInv, GoodJob, GoodBooking, JobRows, OnBooking, Op
<1>4. \A c \in Bookings : c # b => SameRow(c)
    BY DEF PlainWrite, ConfirmCommit, RejectCommit, CancelCommit, LinkCommit,
           AttendCommit, PayClaim, TypeInv, SameRow
<1>5. Kept(b)
    <2>1. CASE UNCHANGED booking
        BY <1>3, <2>1 DEF Kept, Active
    <2>2. CASE ConfirmCommit(t)
        <3>1. booking[b].status = "PENDING"
            BY <2>2 DEF ConfirmCommit, LockInv, ConfirmingPending
        <3>2. booking'[b] = [booking[b] EXCEPT !.status = "CONFIRMED"]
            BY <1>3, <2>2 DEF ConfirmCommit, TypeInv
        <3>3. QED
            BY <1>3, <3>1, <3>2 DEF Kept, Active, ActiveStatus, BookingRow
    <2>3. CASE ~UNCHANGED booking /\ RejectCommit(t)
        <3>1. booking'[b] = [booking[b] EXCEPT !.status = "CANCELED", !.closedAt = job[t].at,
                                               !.closedBy = "REJECT"]
            BY <1>3, <2>3 DEF RejectCommit, TypeInv
        <3>2. QED
            BY <1>3, <3>1 DEF Kept, Active, ActiveStatus, BookingRow
    <2>4. CASE ~UNCHANGED booking /\ CancelCommit(t)
        <3>1. booking'[b] = [booking[b] EXCEPT !.status = "CANCELED", !.closedAt = job[t].at,
                                               !.closedBy = "CANCEL"]
            BY <1>3, <2>4 DEF CancelCommit, TypeInv
        <3>2. QED
            BY <1>3, <3>1 DEF Kept, Active, ActiveStatus, BookingRow
    <2>5. CASE ~UNCHANGED booking /\ LinkCommit(t)
        <3>1. booking'[b] = [booking[b] EXCEPT !.link = TRUE]
            BY <1>3, <2>5 DEF LinkCommit, TypeInv
        <3>2. QED
            BY <1>3, <3>1 DEF Kept, Active, BookingRow
    <2>6. ASSUME ~UNCHANGED booking, NEW value \in {"ATTENDED", "ABSENT"},
                 AttendCommit(t, value)
          PROVE  Kept(b)
        <3>1. booking'[b] = [booking[b] EXCEPT !.status = "COMPLETED",
                                 !.attendance = value, !.closedAt = job[t].at]
            BY <1>3, <2>6 DEF AttendCommit, TypeInv
        <3>2. QED
            BY <1>3, <3>1 DEF Kept, Active, ActiveStatus, BookingRow
    <2>7. CASE PayClaim(t)
        BY <1>3, <2>7, ClaimKeepsStatus DEF Kept, Active
    <2>8. QED
        BY <2>1, <2>2, <2>3, <2>4, <2>5, <2>6, <2>7 DEF PlainWrite
<1>6. QED
    BY <1>1, <1>3, <1>4, <1>5

LEMMA CalendarPlainWrite ==
    ASSUME TypeInv, LockInv, CalendarInv, NEW t \in Workers, PlainWrite(t)
    PROVE  CalendarInv'
<1>1. Quiet
    BY PlainWriteEffect DEF Quiet, Kept, SameRow, Active
<1>2. \A u \in Workers : job'[u] = job[u] \/ job'[u] = Idle
    BY PlainWriteEffect, FinishEffect
<1>3. QED
    BY <1>1, <1>2, CalendarQuiet

\* ConfirmLock only changes what its worker does.
LEMMA CalendarConfirmLock ==
    ASSUME TypeInv, CalendarInv, NEW t \in Workers, ConfirmLock(t)
    PROVE  CalendarInv'
<1>1. /\ UNCHANGED <<slot, booking, request>>
      /\ \A u \in Workers : u # t => job'[u] = job[u]
    BY DEF ConfirmLock, Finish, TypeInv
<1>2. job'[t].op \in {"confirming", "idle"}
    BY DEF ConfirmLock, Finish, TypeInv, Idle, GoodJob, Job
<1>3. Checked(job'[t])
    BY <1>2 DEF Checked
<1>4. QED
    BY <1>1, <1>3, CalendarRead

\* Charge results and the decisions that leave a class where it is.
LEMMA CalendarCharge ==
    ASSUME TypeInv, CalendarInv, NEW b \in Bookings,
           (\E result \in AttemptStatus : ApplyCharge(b, result)) \/ ChargeRejected(b)
    PROVE  CalendarInv'
<1>1. Quiet /\ UNCHANGED job
    BY ChargeKeepsStatus DEF Quiet, Active
<1>2. QED
    BY <1>1, CalendarQuiet

LEMMA CloseRequestEffect ==
    ASSUME TypeInv, NEW r \in Requests, NEW u \in Participants,
           RejectRequest(r, u) \/ WithdrawRequest(r, u)
    PROVE  /\ UNCHANGED <<now, slot, booking, job>>
           /\ request[r].status = "PENDING"
           /\ request'[r].status \in {"REJECTED", "WITHDRAWN"}
           /\ request'[r].b = request[r].b
           /\ request'[r].to = request[r].to
           /\ request'[r].from = request[r].from
           /\ \A q \in Requests : q # r => request'[q] = request[q]
<1>1. request[r] \in RequestRow /\ request \in [Requests -> GoodRequest]
    BY DEF TypeInv, GoodRequest
<1>2. CASE RejectRequest(r, u)
    BY <1>1, <1>2 DEF RejectRequest, Decider, RequestRow
<1>3. CASE WithdrawRequest(r, u)
    BY <1>1, <1>3 DEF WithdrawRequest, RequestRow
<1>4. QED
    BY <1>2, <1>3

LEMMA CalendarCloseRequest ==
    ASSUME TypeInv, CalendarInv, NEW r \in Requests, NEW u \in Participants,
           RejectRequest(r, u) \/ WithdrawRequest(r, u)
    PROVE  CalendarInv'
<1>1. Quiet /\ UNCHANGED job
    BY CloseRequestEffect DEF Quiet, Active
<1>2. QED
    BY <1>1, CalendarQuiet

-----------------------------------------------------------------------------
(* The writes that publish, withdraw or take a slot *)

\* postAvailability adds a slot that overlaps no live slot of its tutor, or nothing.
LEMMA CalendarPostCommit ==
    ASSUME TypeInv, CalendarInv, NEW t \in Workers, PostCommit(t)
    PROVE  CalendarInv'
<1> DEFINE s == job[t].s
<1>1. s \in Slots /\ Finish(t) /\ UNCHANGED <<booking, request>>
    BY DEF PostCommit, TypeInv, GoodJob
<1>2. \A u \in Workers : job'[u].op # "idle" => job'[u] = job[u]
    BY <1>1, FinishEffect DEF Idle
<1>3. CASE UNCHANGED slot
    <2>1. Quiet /\ \A u \in Workers : job'[u] = job[u] \/ job'[u] = Idle
        BY <1>1, <1>3, FinishEffect DEF Quiet, Active
    <2>2. QED
        BY <2>1, CalendarQuiet
<1>4. CASE slot' = [slot EXCEPT ![s] = "LIVE"] /\ slot[s] = "ABSENT" /\ Conflicts(s) = {}
    <2>1. \A x \in Slots : slot[x] = "LIVE" => slot'[x] = "LIVE"
        BY <1>1, <1>4 DEF TypeInv
    <2>2. \A x \in Slots : Reserved(x)' <=> Reserved(x)
        BY <1>1 DEF Reserved, Holds, Active
    <2>3. SlotLockProtects'
        BY <1>2, <2>1, <2>2, JobFields DEF CalendarInv, SlotLockProtects
    <2>4. NoDoubleBooking' /\ OwnSlot'
        BY <1>1 DEF CalendarInv, NoDoubleBooking, Holds, Active, OwnSlot
    <2>5. ActiveSlotLive'
        <3>1. \A b \in Bookings : Active(b) => booking[b].slot \in Slots
            BY DEF Active, ActiveStatus, TypeInv, GoodBooking
        <3>2. QED
            BY <1>1, <2>1, <3>1 DEF CalendarInv, ActiveSlotLive, Active
    <2>6. LiveDisjoint'
        <3>1. \A x \in Slots : slot'[x] = "LIVE" <=> (slot[x] = "LIVE" \/ x = s)
            BY <1>1, <1>4 DEF TypeInv
        <3>2. \A x \in Slots : slot[x] = "LIVE" /\ SlotTutor[x] = SlotTutor[s] =>
                  ~Overlap(x, s) /\ ~Overlap(s, x)
            BY <1>4 DEF Conflicts, Overlap
        <3>3. \A x, y \in Slots :
                  /\ slot[x] = "LIVE" /\ slot[y] = "LIVE"
                  /\ x # y /\ SlotTutor[x] = SlotTutor[y]
                  => ~Overlap(x, y)
            BY DEF CalendarInv, LiveDisjoint, Disjoint
        <3> HIDE DEF s
        <3>4. \A x, y \in Slots :
                  /\ slot'[x] = "LIVE" /\ slot'[y] = "LIVE"
                  /\ x # y /\ SlotTutor[x] = SlotTutor[y]
                  => ~Overlap(x, y)
            BY <3>1, <3>2, <3>3
        <3>5. QED
            BY <3>4 DEF LiveDisjoint, Disjoint
    <2>7. OwnTarget' /\ ApprovesRequest'
        BY <1>1, <1>2, JobFields DEF CalendarInv, OwnTarget, ApprovesRequest
    <2>8. QED
        BY <2>3, <2>4, <2>5, <2>6, <2>7 DEF CalendarInv
<1>5. QED
    BY <1>3, <1>4 DEF PostCommit

\* deleteAvailability removes a slot that nobody holds or has locked, or nothing.
LEMMA CalendarDeleteCommit ==
    ASSUME TypeInv, CalendarInv, NEW t \in Workers, DeleteCommit(t)
    PROVE  CalendarInv'
<1> DEFINE s == job[t].s
<1>1. s \in Slots /\ Finish(t) /\ UNCHANGED <<booking, request>> /\ SlotFree(s)
    BY DEF DeleteCommit, TypeInv, GoodJob
<1>2. \A u \in Workers : job'[u].op # "idle" => job'[u] = job[u]
    BY <1>1, FinishEffect DEF Idle
<1>3. CASE UNCHANGED slot
    <2>1. Quiet /\ \A u \in Workers : job'[u] = job[u] \/ job'[u] = Idle
        BY <1>1, <1>3, FinishEffect DEF Quiet, Active
    <2>2. QED
        BY <2>1, CalendarQuiet
<1>4. CASE slot' = [slot EXCEPT ![s] = "DELETED"] /\ ~Reserved(s)
    <2>1. \A x \in Slots : slot'[x] = "LIVE" <=> (slot[x] = "LIVE" /\ x # s)
        BY <1>1, <1>4 DEF TypeInv
    <2>2. \A x \in Slots : Reserved(x)' <=> Reserved(x)
        BY <1>1 DEF Reserved, Holds, Active
    <2>3. \A u \in Workers : job[u].op \in {"create", "approving"} => job[u].s # s
        BY <1>1 DEF SlotFree, LocksSlot
    <2>4. SlotLockProtects'
        BY <1>2, <2>1, <2>2, <2>3, JobFields DEF CalendarInv, SlotLockProtects
    <2>5. NoDoubleBooking' /\ OwnSlot'
        BY <1>1 DEF CalendarInv, NoDoubleBooking, Holds, Active, OwnSlot
    <2>6. ActiveSlotLive'
        <3>1. \A b \in Bookings : Active(b) => booking[b].slot \in Slots /\ booking[b].slot # s
            BY <1>4 DEF Active, ActiveStatus, TypeInv, GoodBooking, Reserved, Holds
        <3>2. QED
            BY <1>1, <2>1, <3>1 DEF CalendarInv, ActiveSlotLive, Active
    <2>7. LiveDisjoint'
        BY <2>1 DEF CalendarInv, LiveDisjoint, Disjoint
    <2>8. OwnTarget' /\ ApprovesRequest'
        BY <1>1, <1>2, JobFields DEF CalendarInv, OwnTarget, ApprovesRequest
    <2>9. QED
        BY <2>4, <2>5, <2>6, <2>7, <2>8 DEF CalendarInv
<1>5. QED
    BY <1>3, <1>4 DEF DeleteCommit

\* What a new booking row holds.
LEMMA CreateEffect ==
    ASSUME TypeInv, LockInv, NEW t \in Workers, CreateCommit(t)
    PROVE  /\ job[t].b \in Bookings /\ job[t].s \in Slots
           /\ Finish(t) /\ UNCHANGED <<now, slot, request>>
           /\ booking[job[t].b].status = "NONE"
           /\ booking'[job[t].b].status = "PENDING"
           /\ booking'[job[t].b].slot = job[t].s
           /\ booking'[job[t].b].tutor = SlotTutor[job[t].s]
           /\ \A c \in Bookings : c # job[t].b => booking'[c] = booking[c]
<1>1. job[t].b \in Bookings /\ job[t].s \in Slots
    BY DEF CreateCommit, TypeInv, GoodJob
<1>2. booking[job[t].b].status = "NONE"
    BY DEF CreateCommit, LockInv, NewBookingFresh
<1>3. QED
    BY <1>1, <1>2 DEF CreateCommit, TypeInv, NoBooking

\* A move or a new booking: b now holds s, which was live, free and locked.
TakesSlot(t, b, s) ==
    /\ b \in Bookings /\ s \in Slots
    /\ job[t].op \in {"create", "approving"} /\ job[t].s = s
    /\ Finish(t)
    /\ UNCHANGED slot
    /\ booking'[b].status \in ActiveStatus
    /\ booking'[b].slot = s
    /\ booking'[b].tutor = SlotTutor[s]
    /\ booking[b].status # "NONE" => booking'[b].tutor = booking[b].tutor
    /\ \A c \in Bookings : c # b => booking'[c] = booking[c]
    /\ \A r \in Requests : /\ request'[r].status = "NONE" <=> request[r].status = "NONE"
                           /\ request'[r].b = request[r].b
                           /\ request'[r].to = request[r].to

LEMMA CalendarTake ==
    ASSUME TypeInv, LockInv, CalendarInv, NEW t \in Workers, NEW b \in Bookings,
           NEW s \in Slots, TakesSlot(t, b, s)
    PROVE  CalendarInv'
<1>1. slot[s] = "LIVE" /\ ~Reserved(s)
    BY DEF TakesSlot, CalendarInv, SlotLockProtects
<1>2. \A u \in Workers : job'[u].op # "idle" => job'[u] = job[u] /\ u # t
    BY FinishEffect DEF TakesSlot, Idle
<1>3. \A c \in Bookings, x \in Slots : Holds(c, x)' => (Holds(c, x) /\ c # b) \/ (c = b /\ x = s)
    BY DEF TakesSlot, Holds, Active
<1>4. NoDoubleBooking'
    BY <1>1, <1>3 DEF CalendarInv, NoDoubleBooking, Reserved
<1>5. ActiveSlotLive'
    BY <1>1 DEF CalendarInv, ActiveSlotLive, TakesSlot, Active
<1>6. LiveDisjoint'
    BY DEF CalendarInv, LiveDisjoint, TakesSlot, Disjoint
<1>7. OwnSlot'
    BY DEF CalendarInv, OwnSlot, TakesSlot
<1>8. SlotLockProtects'
    <2>1. ASSUME NEW u \in Workers, u # t, job[u].op \in {"create", "approving"}
          PROVE  job[u].s \in Slots /\ job[u].s # s
        BY <2>1, JobFields DEF LockInv, SlotLockExclusive, LocksSlot, TakesSlot
    <2>2. \A x \in Slots : x # s /\ Reserved(x)' => Reserved(x)
        BY <1>3 DEF Reserved
    <2>3. QED
        BY <1>2, <2>1, <2>2 DEF CalendarInv, SlotLockProtects, TakesSlot
<1>9. \A c \in Bookings : booking[c].status # "NONE" =>
          booking'[c].status # "NONE" /\ booking'[c].tutor = booking[c].tutor
    BY DEF TakesSlot, ActiveStatus
<1>10. OwnTarget'
    <2>1. ASSUME NEW r \in Requests, request'[r].status # "NONE"
          PROVE  /\ booking'[request'[r].b].status # "NONE"
                 /\ SlotTutor[request'[r].to] = booking'[request'[r].b].tutor
        <3>1. request[r].status # "NONE" /\ request[r].b \in Bookings
            BY <2>1 DEF TakesSlot, TypeInv, GoodRequest
        <3>2. QED
            BY <1>9, <3>1 DEF CalendarInv, OwnTarget, TakesSlot
    <2>2. ASSUME NEW u \in Workers, job'[u].op = "requestMove"
          PROVE  SlotTutor[job'[u].s] = booking'[job'[u].b].tutor
        <3>1. job'[u] = job[u] /\ job[u].b \in Bookings
            BY <1>2, <2>2, JobFields
        <3>2. booking[job[u].b].status # "NONE"
            BY <2>2, <3>1 DEF TypeInv, JobRows, OnBooking, Op
        <3>3. QED
            BY <1>9, <2>2, <3>1, <3>2 DEF CalendarInv, OwnTarget
    <2>3. QED
        BY <2>1, <2>2 DEF OwnTarget
<1>11. ApprovesRequest'
    BY <1>2, JobFields DEF CalendarInv, ApprovesRequest, TakesSlot
<1>12. QED
    BY <1>4, <1>5, <1>6, <1>7, <1>8, <1>10, <1>11 DEF CalendarInv

LEMMA CreateTakes ==
    ASSUME TypeInv, LockInv, CalendarInv, NEW t \in Workers, CreateCommit(t)
    PROVE  TakesSlot(t, job[t].b, job[t].s)
BY CreateEffect DEF TakesSlot, CreateCommit, ActiveStatus

\* The rows an approval writes.
LEMMA ApproveEffect ==
    ASSUME TypeInv, NEW t \in Workers, ApproveCommit(t), StillApprovable(t)
    PROVE  /\ job[t].b \in Bookings /\ job[t].r \in Requests
           /\ Finish(t) /\ UNCHANGED <<now, slot>>
           /\ booking[job[t].b].status = "CONFIRMED"
           /\ booking' = [booking EXCEPT ![job[t].b] =
                             [booking[job[t].b] EXCEPT !.slot = request[job[t].r].to]]
           /\ request[job[t].r].status = "PENDING"
           /\ request' = [request EXCEPT ![job[t].r] =
                             [request[job[t].r] EXCEPT !.status = "APPROVED",
                                 !.reviewer = job[t].who, !.decidedAt = job[t].at]]
BY DEF ApproveCommit, StillApprovable, TypeInv, GoodJob

LEMMA ApproveTakes ==
    ASSUME TypeInv, LockInv, CalendarInv, NEW t \in Workers,
           ApproveCommit(t), StillApprovable(t)
    PROVE  TakesSlot(t, job[t].b, job[t].s)
<1> DEFINE b == job[t].b
           r == job[t].r
<1>1. /\ b \in Bookings /\ job[t].s \in Slots /\ r \in Requests
      /\ job[t].op = "approving"
    BY DEF ApproveCommit, TypeInv, GoodJob
<1>2. request[r].b = b /\ request[r].to = job[t].s /\ request[r].status = "PENDING"
    BY <1>1, ApproveEffect DEF CalendarInv, ApprovesRequest
<1>3. SlotTutor[job[t].s] = booking[b].tutor
    BY <1>1, <1>2 DEF CalendarInv, OwnTarget
<1>4. booking[b] \in BookingRow /\ request[r] \in RequestRow
    BY <1>1 DEF TypeInv, GoodBooking, GoodRequest
<1>5. /\ booking'[b] = [booking[b] EXCEPT !.slot = request[r].to]
      /\ request'[r] = [request[r] EXCEPT !.status = "APPROVED",
                            !.reviewer = job[t].who, !.decidedAt = job[t].at]
    BY <1>1, ApproveEffect DEF TypeInv
<1>6. booking[b].status = "CONFIRMED"
    BY ApproveEffect
<1> HIDE DEF b, r
<1>7. /\ booking'[b].status = "CONFIRMED" /\ booking'[b].slot = job[t].s
      /\ booking'[b].tutor = booking[b].tutor
    BY <1>2, <1>4, <1>5, <1>6 DEF BookingRow
<1>8. /\ request'[r].status = "APPROVED" /\ request'[r].b = request[r].b
      /\ request'[r].to = request[r].to
    BY <1>4, <1>5 DEF RequestRow
<1>9. /\ \A c \in Bookings : c # b => booking'[c] = booking[c]
      /\ \A q \in Requests : q # r => request'[q] = request[q]
      /\ Finish(t) /\ UNCHANGED slot
    BY ApproveEffect DEF TypeInv, b, r
<1>10. TakesSlot(t, b, job[t].s)
    BY <1>1, <1>2, <1>3, <1>7, <1>8, <1>9 DEF TakesSlot, ActiveStatus
<1>11. QED
    BY <1>10 DEF b

LEMMA CalendarApproveCommit ==
    ASSUME TypeInv, LockInv, CalendarInv, NEW t \in Workers, ApproveCommit(t)
    PROVE  CalendarInv'
<1>1. CASE StillApprovable(t)
    <2>1. job[t].b \in Bookings /\ job[t].s \in Slots
        BY JobFields DEF ApproveCommit
    <2>2. QED
        BY <1>1, <2>1, ApproveTakes, CalendarTake
<1>2. CASE ~StillApprovable(t)
    <2>1. Quiet /\ \A u \in Workers : job'[u] = job[u] \/ job'[u] = Idle
        BY <1>2, FinishEffect DEF ApproveCommit, Quiet, Active
    <2>2. QED
        BY <2>1, CalendarQuiet
<1>3. QED
    BY <1>1, <1>2

\* The insert of a request names the slot that was asked for.
LEMMA CalendarRequestCommit ==
    ASSUME TypeInv, LockInv, CalendarInv, NEW t \in Workers, RequestCommit(t)
    PROVE  CalendarInv'
<1> DEFINE r == job[t].r
<1>1. /\ r \in Requests /\ job[t].b \in Bookings /\ job[t].s \in Slots
      /\ job[t].op = "requestMove"
    BY JobFields DEF RequestCommit
<1>2. Finish(t) /\ UNCHANGED <<slot, booking>>
    BY DEF RequestCommit
<1>3. /\ request'[r].b = job[t].b /\ request'[r].to = job[t].s
      /\ \A q \in Requests : q # r => request'[q] = request[q]
    BY <1>1 DEF RequestCommit, TypeInv, NoRequest
<1>4. /\ booking[job[t].b].status # "NONE"
      /\ SlotTutor[job[t].s] = booking[job[t].b].tutor
    BY <1>1 DEF TypeInv, JobRows, OnBooking, Op, CalendarInv, OwnTarget
<1>5. \A u \in Workers : job'[u].op # "idle" => job'[u] = job[u] /\ u # t
    BY <1>2, FinishEffect DEF Idle
<1>6. \A u \in Workers : u # t => job[u].r # r
    BY <1>1 DEF LockInv, NewRequestFresh
<1>7. \A x \in Slots : Reserved(x)' <=> Reserved(x)
    BY <1>2 DEF Reserved, Holds, Active
<1> HIDE DEF r
<1>8. SlotLockProtects'
    BY <1>2, <1>5, <1>7, JobFields DEF CalendarInv, SlotLockProtects
<1>9. NoDoubleBooking' /\ ActiveSlotLive' /\ LiveDisjoint' /\ OwnSlot'
    BY <1>2 DEF CalendarInv, NoDoubleBooking, Holds, Active, ActiveSlotLive,
                LiveDisjoint, Disjoint, OwnSlot
<1>10. OwnTarget'
    BY <1>2, <1>3, <1>4, <1>5, JobFields DEF CalendarInv, OwnTarget
<1>11. ApprovesRequest'
    BY <1>3, <1>5, <1>6, JobFields DEF CalendarInv, ApprovesRequest
<1>12. QED
    BY <1>8, <1>9, <1>10, <1>11 DEF CalendarInv

-----------------------------------------------------------------------------
(* Init and Next *)

LEMMA CalendarInit == Init => CalendarInv
<1> SUFFICES ASSUME Init PROVE CalendarInv
    OBVIOUS
<1>1. /\ \A b \in Bookings : booking[b].status = "NONE" /\ ~Active(b)
      /\ \A r \in Requests : request[r].status = "NONE"
      /\ \A t \in Workers : job[t].op = "idle"
    BY DEF Init, StoreInit, NoBooking, NoRequest, Idle, Active, ActiveStatus
<1>2. LiveDisjoint
    BY SlotAssumption DEF Init, StoreInit, LiveDisjoint, Disjoint
<1>3. QED
    BY <1>1, <1>2 DEF CalendarInv, SlotLockProtects, NoDoubleBooking, Holds, ActiveSlotLive,
                      OwnSlot, OwnTarget, ApprovesRequest

\* Every step of the desk is of one of these kinds.
LEMMA NextKinds ==
    ASSUME Next
    PROVE  \/ Tick
           \/ \E t \in Workers :
                 \/ Abort(t)
                 \/ PlainRead(t)
                 \/ PlainWrite(t)
                 \/ PostCommit(t)
                 \/ DeleteCommit(t)
                 \/ \E b \in Bookings, s \in Slots, u \in Students : CreateLock(t, b, s, u)
                 \/ CreateCommit(t)
                 \/ ConfirmLock(t)
                 \/ \E r \in Requests, b \in Bookings, s \in Slots, u \in Participants :
                       RequestLock(t, r, b, s, u)
                 \/ RequestCommit(t)
                 \/ \E r \in Requests, u \in Participants : ApproveLock(t, r, u)
                 \/ ApproveTarget(t)
                 \/ ApproveCommit(t)
           \/ \E r \in Requests, u \in Participants : RejectRequest(r, u) \/ WithdrawRequest(r, u)
           \/ \E b \in Bookings :
                 (\E result \in AttemptStatus : ApplyCharge(b, result)) \/ ChargeRejected(b)
BY DEF Next, Availability, BookSlot, Decide, Cancel, Classroom, Reschedule, Pay,
       PlainRead, PlainWrite

LEMMA CalendarStep == TypeInv /\ LockInv /\ CalendarInv /\ [Next]_vars => CalendarInv'
<1> SUFFICES ASSUME TypeInv, LockInv, CalendarInv, [Next]_vars
             PROVE  CalendarInv'
    OBVIOUS
<1>1. ASSUME Tick \/ UNCHANGED vars
      PROVE  CalendarInv'
    <2>1. Quiet /\ UNCHANGED job
        BY <1>1 DEF Tick, vars, Quiet, Active
    <2>2. QED
        BY <2>1, CalendarQuiet
<1>2. ASSUME NEW t \in Workers, Abort(t)
      PROVE  CalendarInv'
    <2>1. Quiet /\ \A u \in Workers : job'[u] = job[u] \/ job'[u] = Idle
        BY <1>2, FinishEffect DEF Abort, Quiet, Active
    <2>2. QED
        BY <2>1, CalendarQuiet
<1>3. ASSUME NEW t \in Workers, CreateCommit(t)
      PROVE  CalendarInv'
    BY <1>3, CreateTakes, CreateEffect, CalendarTake
<1>4. ASSUME NEW t \in Workers,
             \/ PlainRead(t) \/ PlainWrite(t) \/ ConfirmLock(t)
             \/ PostCommit(t) \/ DeleteCommit(t)
             \/ RequestCommit(t) \/ ApproveTarget(t) \/ ApproveCommit(t)
      PROVE  CalendarInv'
    BY <1>4, CalendarPlainRead, CalendarPlainWrite, CalendarConfirmLock, CalendarPostCommit,
       CalendarDeleteCommit, CalendarRequestCommit, CalendarApproveTarget,
       CalendarApproveCommit
<1>5. ASSUME NEW t \in Workers,
             \/ \E b \in Bookings, s \in Slots, u \in Students : CreateLock(t, b, s, u)
             \/ \E r \in Requests, b \in Bookings, s \in Slots, u \in Participants :
                   RequestLock(t, r, b, s, u)
             \/ \E r \in Requests, u \in Participants : ApproveLock(t, r, u)
      PROVE  CalendarInv'
    BY <1>5, CalendarCreateLock, CalendarRequestLock, CalendarApproveLock
<1>6. ASSUME NEW r \in Requests, NEW u \in Participants,
             RejectRequest(r, u) \/ WithdrawRequest(r, u)
      PROVE  CalendarInv'
    BY <1>6, CalendarCloseRequest
<1>7. ASSUME NEW b \in Bookings,
             (\E result \in AttemptStatus : ApplyCharge(b, result)) \/ ChargeRejected(b)
      PROVE  CalendarInv'
    BY <1>7, CalendarCharge
<1>8. QED
    BY <1>1, <1>2, <1>3, <1>4, <1>5, <1>6, <1>7, NextKinds

\* The invariant behind the three theorems that follow.
THEOREM CalendarInvariant == Spec => []CalendarInv
<1>1. Init => CalendarInv
    BY CalendarInit
<1>2. TypeInv /\ LockInv /\ CalendarInv /\ [Next]_vars => CalendarInv'
    BY CalendarStep
<1>3. QED
    BY <1>1, <1>2, TypeInvariant, LockInvariant, PTL DEF Spec

\* No slot is held by two active bookings, whatever the order in which create,
\* approve and the other handlers lock, check and commit.
THEOREM NeverDoubleBooked == Spec => []NoDoubleBooking
<1>1. CalendarInv => NoDoubleBooking
    BY DEF CalendarInv
<1>2. QED
    BY <1>1, CalendarInvariant, PTL

\* deleteAvailability never removes the slot of an active booking.
THEOREM ActiveSlotsStayLive == Spec => []ActiveSlotLive
<1>1. CalendarInv => ActiveSlotLive
    BY DEF CalendarInv
<1>2. QED
    BY <1>1, CalendarInvariant, PTL

\* A tutor has no two active classes at the same time.
THEOREM TutorsNeverDoubleBooked == Spec => []TutorNeverDoubleBooked
<1>1. TypeInv /\ CalendarInv => TutorNeverDoubleBooked
    <2> SUFFICES ASSUME TypeInv, CalendarInv, NEW b \in Bookings, NEW c \in Bookings,
                        b # c, Active(b), Active(c), booking[b].tutor = booking[c].tutor
                 PROVE  ~Overlap(booking[b].slot, booking[c].slot)
        BY DEF TutorNeverDoubleBooked
    <2>1. /\ booking[b].slot \in Slots /\ booking[c].slot \in Slots
          /\ booking[b].status # "NONE" /\ booking[c].status # "NONE"
        BY DEF Active, ActiveStatus, TypeInv, GoodBooking
    <2>2. slot[booking[b].slot] = "LIVE" /\ slot[booking[c].slot] = "LIVE"
        BY DEF CalendarInv, ActiveSlotLive
    <2>3. booking[b].slot # booking[c].slot
        BY <2>1 DEF CalendarInv, NoDoubleBooking, Holds
    <2>4. SlotTutor[booking[b].slot] = SlotTutor[booking[c].slot]
        BY <2>1 DEF CalendarInv, OwnSlot
    <2>5. QED
        BY <2>1, <2>2, <2>3, <2>4 DEF CalendarInv, LiveDisjoint, Disjoint
<1>2. QED
    BY <1>1, TypeInvariant, CalendarInvariant, PTL

-----------------------------------------------------------------------------
(* The refinement of SlotCalendar *)

\* The refinement mapping of BookingDesk!Calendar.
Open == {s \in Slots : slot[s] = "LIVE"}
Held == [b \in Bookings |-> IF Active(b) THEN booking[b].slot ELSE Nil]

CalendarStutter == Open' = Open /\ Held' = Held

-----------------------------------------------------------------------------
(* What the operations of the calendar are under the mapping *)

LEMMA PublishStep ==
    ASSUME NEW s \in Slots, s \notin Open, \A x \in Open : ~Calendar!Collides(s, x),
           Open' = Open \cup {s}, Held' = Held
    PROVE  Calendar!Next
<1>1. Calendar!Publish(s)
    BY DEF Calendar!Publish, Open, Held
<1>2. QED
    BY <1>1 DEF Calendar!Next

LEMMA WithdrawStep ==
    ASSUME NEW s \in Slots, s \in Open, \A b \in Bookings : Held[b] # s,
           Open' = Open \ {s}, Held' = Held
    PROVE  Calendar!Next
<1>1. Calendar!Withdraw(s)
    BY DEF Calendar!Withdraw, Calendar!Free, Open, Held
<1>2. QED
    BY <1>1 DEF Calendar!Next

LEMMA TakeStep ==
    ASSUME NEW b \in Bookings, NEW s \in Slots, s \in Open,
           \A c \in Bookings : Held[c] # s,
           Open' = Open, Held' = [Held EXCEPT ![b] = s]
    PROVE  Calendar!Next
<1>1. Calendar!Take(b, s)
    BY DEF Calendar!Take, Calendar!Free, Open, Held
<1>2. QED
    BY <1>1 DEF Calendar!Next

LEMMA ReleaseStep ==
    ASSUME NEW b \in Bookings, Held[b] # Nil,
           Open' = Open, Held' = [Held EXCEPT ![b] = Nil]
    PROVE  Calendar!Next
<1>1. Calendar!Release(b)
    BY DEF Calendar!Release, Open, Held
<1>2. QED
    BY <1>1 DEF Calendar!Next

\* A slot is held by some booking exactly when it is reserved.
LEMMA HeldReserved ==
    ASSUME NEW s \in Slots
    PROVE  Reserved(s) <=> \E b \in Bookings : Held[b] = s
BY NilAssumption DEF Reserved, Holds, Held

-----------------------------------------------------------------------------
(* The steps of the desk *)

\* A step that leaves these columns alone is none of the calendar.
LEMMA SameRowsStutter ==
    ASSUME UNCHANGED slot, \A b \in Bookings : SameRow(b)
    PROVE  CalendarStutter
<1>1. \A b \in Bookings : Active(b)' = Active(b)
    BY DEF SameRow, Active
<1>2. QED
    BY <1>1 DEF CalendarStutter, Open, Held, SameRow

\* A plain write either keeps a booking's slot or releases it.
LEMMA PlainWriteImplements ==
    ASSUME TypeInv, LockInv, NEW t \in Workers, PlainWrite(t)
    PROVE  Calendar!Next \/ CalendarStutter
<1> DEFINE b == job[t].b
<1>1. /\ UNCHANGED slot
      /\ b \in Bookings
      /\ booking'[b].slot = booking[b].slot
      /\ booking'[b].status \in ActiveStatus => Active(b)
      /\ \A c \in Bookings : c # b => SameRow(c)
    BY PlainWriteEffect DEF Kept
<1> HIDE DEF b
<1>2. Open' = Open
    BY <1>1 DEF Open
<1>3. \A c \in Bookings : c # b => Held'[c] = Held[c]
    BY <1>1 DEF Held, SameRow, Active
<1>4. CASE booking'[b].status \in ActiveStatus
    <2>1. Held'[b] = Held[b]
        BY <1>1, <1>4 DEF Held, Active
    <2>2. Held' = Held
        BY <1>3, <2>1 DEF Held
    <2>3. QED
        BY <1>2, <2>2 DEF CalendarStutter
<1>5. CASE booking'[b].status \notin ActiveStatus /\ ~Active(b)
    <2>1. Held'[b] = Held[b]
        BY <1>1, <1>5 DEF Held, Active
    <2>2. Held' = Held
        BY <1>3, <2>1 DEF Held
    <2>3. QED
        BY <1>2, <2>2 DEF CalendarStutter
<1>6. CASE booking'[b].status \notin ActiveStatus /\ Active(b)
    <2>1. Held[b] = booking[b].slot /\ booking[b].slot \in Slots
        BY <1>1, <1>6 DEF Held, Active, ActiveStatus, TypeInv, GoodBooking
    <2>2. Held[b] # Nil
        BY <2>1, NilAssumption
    <2>3. Held'[b] = Nil
        BY <1>1, <1>6 DEF Held, Active
    <2>4. Held' = [Held EXCEPT ![b] = Nil]
        BY <1>1, <1>3, <2>3 DEF Held
    <2>5. QED
        BY <1>1, <1>2, <2>2, <2>4, ReleaseStep
<1>7. QED
    BY <1>4, <1>5, <1>6

\* A commit that takes a slot takes a free one.
LEMMA TakeImplements ==
    ASSUME TypeInv, LockInv, CalendarInv, NEW t \in Workers, NEW b \in Bookings,
           NEW s \in Slots, TakesSlot(t, b, s)
    PROVE  Calendar!Next
<1>1. s \in Open /\ ~Reserved(s)
    BY DEF TakesSlot, CalendarInv, SlotLockProtects, Open
<1>2. \A c \in Bookings : Held[c] # s
    BY <1>1, HeldReserved
<1>3. Open' = Open
    BY DEF TakesSlot, Open
<1>4. \A c \in Bookings : Held'[c] = IF c = b THEN s ELSE Held[c]
    BY DEF TakesSlot, Held, Active
<1>5. Held' = [Held EXCEPT ![b] = s]
    BY <1>4 DEF Held
<1>6. QED
    BY <1>1, <1>2, <1>3, <1>5, TakeStep

LEMMA PostImplements ==
    ASSUME TypeInv, NEW t \in Workers, PostCommit(t)
    PROVE  Calendar!Next \/ CalendarStutter
<1> DEFINE s == job[t].s
<1>1. s \in Slots /\ UNCHANGED booking
    BY DEF PostCommit, TypeInv, GoodJob
<1>2. Held' = Held
    BY <1>1 DEF Held, Active
<1>3. CASE UNCHANGED slot
    BY <1>2, <1>3 DEF CalendarStutter, Open
<1>4. CASE slot' = [slot EXCEPT ![s] = "LIVE"] /\ slot[s] = "ABSENT" /\ Conflicts(s) = {}
    <2>1. s \notin Open
        BY <1>4 DEF Open
    <2>2. Open' = Open \cup {s}
        BY <1>1, <1>4 DEF Open, TypeInv
    <2>3. \A x \in Open : ~Calendar!Collides(s, x)
        BY <1>4 DEF Open, Conflicts, Overlap, Calendar!Collides
    <2> HIDE DEF s
    <2>4. QED
        BY <1>1, <1>2, <2>1, <2>2, <2>3, PublishStep
<1>5. QED
    BY <1>3, <1>4 DEF PostCommit

LEMMA DeleteImplements ==
    ASSUME TypeInv, NEW t \in Workers, DeleteCommit(t)
    PROVE  Calendar!Next \/ CalendarStutter
<1> DEFINE s == job[t].s
<1>1. s \in Slots /\ UNCHANGED booking
    BY DEF DeleteCommit, TypeInv, GoodJob
<1>2. Held' = Held
    BY <1>1 DEF Held, Active
<1>3. CASE UNCHANGED slot
    BY <1>2, <1>3 DEF CalendarStutter, Open
<1>4. CASE slot' = [slot EXCEPT ![s] = "DELETED"] /\ slot[s] = "LIVE" /\ ~Reserved(s)
    <2>1. s \in Open
        BY <1>1, <1>4 DEF Open
    <2>2. Open' = Open \ {s}
        BY <1>1, <1>4 DEF Open, TypeInv
    <2>3. \A b \in Bookings : Held[b] # s
        BY <1>1, <1>4, HeldReserved
    <2> HIDE DEF s
    <2>4. QED
        BY <1>1, <1>2, <2>1, <2>2, <2>3, WithdrawStep
<1>5. QED
    BY <1>3, <1>4 DEF DeleteCommit

LEMMA StepImplements ==
    ASSUME TypeInv, LockInv, CalendarInv, [Next]_vars
    PROVE  Calendar!Next \/ CalendarStutter
<1>1. ASSUME UNCHANGED <<slot, booking>>
      PROVE  CalendarStutter
    BY <1>1, SameRowsStutter DEF SameRow
<1>2. ASSUME Tick \/ UNCHANGED vars
      PROVE  CalendarStutter
    BY <1>1, <1>2 DEF Tick, vars
<1>3. ASSUME NEW t \in Workers,
             \/ Abort(t) \/ PlainRead(t) \/ ConfirmLock(t) \/ RequestCommit(t)
             \/ ApproveTarget(t)
             \/ \E b \in Bookings, s \in Slots, u \in Students : CreateLock(t, b, s, u)
             \/ \E r \in Requests, b \in Bookings, s \in Slots, u \in Participants :
                   RequestLock(t, r, b, s, u)
             \/ \E r \in Requests, u \in Participants : ApproveLock(t, r, u)
      PROVE  CalendarStutter
    <2>1. UNCHANGED <<slot, booking>>
        BY <1>3, PlainReadEffect DEF Abort, ConfirmLock, RequestCommit, ApproveTarget,
               CreateLock, RequestLock, ApproveLock
    <2>2. QED
        BY <1>1, <2>1
<1>4. ASSUME NEW t \in Workers, CreateCommit(t)
      PROVE  Calendar!Next
    BY <1>4, CreateTakes, CreateEffect, TakeImplements
<1>5. ASSUME NEW t \in Workers, ApproveCommit(t)
      PROVE  Calendar!Next \/ CalendarStutter
    <2>1. CASE StillApprovable(t)
        <3>1. job[t].b \in Bookings /\ job[t].s \in Slots
            BY <1>5, JobFields DEF ApproveCommit
        <3>2. QED
            BY <1>5, <2>1, <3>1, ApproveTakes, TakeImplements
    <2>2. CASE ~StillApprovable(t)
        BY <1>1, <1>5, <2>2 DEF ApproveCommit
    <2>3. QED
        BY <2>1, <2>2
<1>6. ASSUME NEW r \in Requests, NEW u \in Participants,
             RejectRequest(r, u) \/ WithdrawRequest(r, u)
      PROVE  CalendarStutter
    BY <1>1, <1>6, CloseRequestEffect
<1>7. ASSUME NEW b \in Bookings,
             (\E result \in AttemptStatus : ApplyCharge(b, result)) \/ ChargeRejected(b)
      PROVE  CalendarStutter
    BY <1>7, ChargeKeepsStatus, SameRowsStutter DEF SameRow
<1>8. QED
    BY <1>2, <1>3, <1>4, <1>5, <1>6, <1>7, NextKinds, PlainWriteImplements,
       PostImplements, DeleteImplements

LEMMA InitImplements == Init => Calendar!Init
<1> SUFFICES ASSUME Init PROVE Calendar!Init
    OBVIOUS
<1>1. \A b \in Bookings : ~Active(b)
    BY DEF Init, StoreInit, NoBooking, Active, ActiveStatus
<1>2. {s \in Slots : slot[s] = "LIVE"} = PostedAtStart
    BY SlotAssumption DEF Init, StoreInit
<1>3. QED
    BY <1>1, <1>2 DEF Calendar!Init

-----------------------------------------------------------------------------

\* However the handlers interleave, slots are published, withdrawn, reserved,
\* exchanged and released as if each request were one step.
THEOREM DeskImplementsCalendar == Spec => ImplementsCalendar
<1>1. Init => Calendar!Init
    BY InitImplements
<1>2. TypeInv /\ LockInv /\ CalendarInv /\ [Next]_vars
      => [Calendar!Next]_<<Open, Held>>
    BY StepImplements DEF CalendarStutter
<1>3. QED
    BY <1>1, <1>2, TypeInvariant, LockInvariant, CalendarInvariant, PTL
    DEF Spec, ImplementsCalendar, Calendar!Spec, Open, Held
=============================================================================
