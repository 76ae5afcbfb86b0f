------------------------ MODULE BookingLocks_proofs -------------------------
(***************************************************************************)
(* Types and locks of BookingDesk, for every number of workers, bookings,  *)
(* slots and requests: rows and workers keep the shape the handlers count  *)
(* on, a locked slot or booking has one holder, an id that is drawn for a  *)
(* new row has one user, and a confirmation that holds its booking still   *)
(* finds it undecided.                                                     *)
(***************************************************************************)
EXTENDS BookingDesk, TLAPS

-----------------------------------------------------------------------------
(* The inductive invariant *)

\* Operations that work on a booking which is in the table already.
OnBooking == Op \ {"idle", "post", "delete", "create"}

\* What the fields of a worker's record hold in each operation.
GoodJob ==
    {j \in Job :
        /\ j.op \in {"post", "delete", "create", "cancel", "attend", "requestMove",
                     "approve", "approving"} => j.s \in Slots
        /\ j.op \notin {"idle", "post", "delete"} => j.b \in Bookings
        /\ j.op = "create" => j.who \in Students
        /\ j.op \in {"requestMove", "approve", "approving"}
           => j.r \in Requests /\ j.who \in Participants}

\* The columns that are not null in a row that exists.
GoodBooking ==
    {row \in BookingRow :
        row.status # "NONE" =>
            row.slot \in Slots /\ row.student \in Students /\ row.tutor \in Tutors}

GoodRequest ==
    {row \in RequestRow :
        row.status # "NONE" => /\ row.b \in Bookings
                               /\ row.from \in Slots
                               /\ row.to \in Slots
                               /\ row.by \in Participants}

\* A worker's booking is not deleted under it.
JobRows ==
    \A t \in Workers : job[t].op \in OnBooking => booking[job[t].b].status # "NONE"

\* TypeOK is not inductive: the commits use what their reads have found.
TypeInv ==
    /\ now \in Nat
    /\ slot \in [Slots -> SlotState]
    /\ booking \in [Bookings -> GoodBooking]
    /\ request \in [Requests -> GoodRequest]
    /\ job \in [Workers -> GoodJob]
    /\ JobRows

\* No row disappears from the table in a step.
RowsStay == \A b \in Bookings : booking[b].status # "NONE" => booking'[b].status # "NONE"

-----------------------------------------------------------------------------
(* Workers *)

LEMMA TypeInvTypeOK == TypeInv => TypeOK
BY DEF TypeInv, TypeOK, GoodJob, GoodBooking, GoodRequest

LEMMA IdleGood == Idle \in GoodJob
BY DEF Idle, GoodJob, Job, Op

\* What Begin does to the table of workers.
LEMMA BeginEffect ==
    ASSUME TypeInv, NEW t \in Workers, NEW j \in GoodJob, Begin(t, j)
    PROVE  /\ job[t] = Idle
           /\ job' \in [Workers -> GoodJob]
           /\ job'[t] = [j EXCEPT !.at = now]
           /\ \A u \in Workers : u # t => job'[u] = job[u]
<1>1. [j EXCEPT !.at = now] \in GoodJob
    BY DEF GoodJob, Job, TypeInv
<1>2. QED
    BY <1>1 DEF Begin, TypeInv

\* What Finish does to the table of workers.
LEMMA FinishEffect ==
    ASSUME TypeInv, NEW t \in Workers, Finish(t)
    PROVE  /\ job' \in [Workers -> GoodJob]
           /\ job'[t] = Idle
           /\ \A u \in Workers : u # t => job'[u] = job[u]
BY IdleGood DEF Finish, TypeInv

\* A request that is taken up works on a row that exists.
LEMMA BeginRows ==
    ASSUME TypeInv, NEW t \in Workers, NEW j \in GoodJob, Begin(t, j),
           UNCHANGED booking,
           j.op \in OnBooking => booking[j.b].status # "NONE"
    PROVE  job' \in [Workers -> GoodJob] /\ JobRows'
<1>1. /\ job' \in [Workers -> GoodJob]
      /\ job'[t] = [j EXCEPT !.at = now]
      /\ \A u \in Workers : u # t => job'[u] = job[u]
    BY BeginEffect
<1>2. job'[t].op = j.op /\ job'[t].b = j.b
    BY <1>1 DEF GoodJob, Job
<1>3. QED
    BY <1>1, <1>2 DEF JobRows, TypeInv

\* A request that is answered leaves the rows of the others in place.
LEMMA FinishRows ==
    ASSUME TypeInv, NEW t \in Workers, Finish(t), RowsStay
    PROVE  job' \in [Workers -> GoodJob] /\ JobRows'
<1>1. job'[t].op \notin OnBooking
    BY FinishEffect DEF Idle, OnBooking
<1>2. ASSUME NEW u \in Workers, job'[u].op \in OnBooking
      PROVE  booking'[job'[u].b].status # "NONE"
    <2>1. u # t /\ job'[u] = job[u] /\ job[u] \in GoodJob
        BY <1>1, <1>2, FinishEffect DEF TypeInv
    <2>2. job[u].b \in Bookings
        BY <2>1, <1>2 DEF GoodJob, OnBooking
    <2>3. QED
        BY <1>2, <2>1, <2>2 DEF TypeInv, JobRows, RowsStay
<1>3. QED
    BY <1>2, FinishEffect DEF JobRows

\* A request that is taken up and only reads.
LEMMA TypeRead ==
    ASSUME TypeInv, NEW t \in Workers, NEW j \in GoodJob, Begin(t, j),
           j.op \in OnBooking => booking[j.b].status # "NONE",
           UNCHANGED <<now, slot, booking, request>>
    PROVE  TypeInv'
BY BeginRows DEF TypeInv

\* A request that writes one booking row and is answered.
LEMMA TypeWrite ==
    ASSUME TypeInv, NEW t \in Workers, NEW b \in Bookings, NEW row \in GoodBooking,
           booking[b].status # "NONE" => row.status # "NONE",
           booking' = [booking EXCEPT ![b] = row],
           Finish(t), UNCHANGED <<now, slot, request>>
    PROVE  TypeInv'
<1>1. booking' \in [Bookings -> GoodBooking] /\ RowsStay
    BY DEF TypeInv, RowsStay
<1>2. QED
    BY <1>1, FinishRows DEF TypeInv

\* A request that is answered without a write.
LEMMA TypeAnswer ==
    ASSUME TypeInv, NEW t \in Workers, Finish(t), UNCHANGED <<now, slot, booking, request>>
    PROVE  TypeInv'
BY FinishRows DEF TypeInv, RowsStay

\* A transaction that goes on to its next step with the same rows.
LEMMA TypeGoOn ==
    ASSUME TypeInv, NEW t \in Workers, NEW j \in GoodJob, job[t].op \in OnBooking,
           j.b = job[t].b, job' = [job EXCEPT ![t] = j],
           UNCHANGED <<now, slot, booking, request>>
    PROVE  TypeInv'
BY DEF TypeInv, JobRows

-----------------------------------------------------------------------------
(* The handlers, one lemma for each group of Next *)

LEMMA TypeInit == Init => TypeInv
<1> SUFFICES ASSUME Init PROVE TypeInv
    OBVIOUS
<1>1. NoBooking \in GoodBooking
    BY DEF NoBooking, GoodBooking, BookingRow, BookingStatus, AttemptStatus
<1>2. NoRequest \in GoodRequest
    BY DEF NoRequest, GoodRequest, RequestRow, RequestStatus
<1>3. JobRows
    BY DEF JobRows, Init, StoreInit, Idle, OnBooking
<1>4. QED
    BY <1>1, <1>2, <1>3, IdleGood DEF Init, StoreInit, TypeInv, SlotState

LEMMA TypeAvailability == TypeInv /\ Availability => TypeInv'
<1> SUFFICES ASSUME TypeInv, NEW t \in Workers,
                    \/ \E s \in Slots : PostRead(t, s) \/ DeleteRead(t, s)
                    \/ PostCommit(t)
                    \/ DeleteCommit(t)
             PROVE  TypeInv'
    BY DEF Availability
<1>1. ASSUME NEW s \in Slots, PostRead(t, s) \/ DeleteRead(t, s)
      PROVE  TypeInv'
    <2>1. PICK op \in {"post", "delete"} : Begin(t, [Idle EXCEPT !.op = op, !.s = s])
        BY <1>1 DEF PostRead, DeleteRead
    <2>2. /\ [Idle EXCEPT !.op = op, !.s = s] \in GoodJob
          /\ [Idle EXCEPT !.op = op, !.s = s].op \notin OnBooking
        BY DEF Idle, GoodJob, Job, Op, OnBooking
    <2>3. UNCHANGED <<now, slot, booking, request>>
        BY <1>1 DEF PostRead, DeleteRead
    <2>4. QED
        BY <2>1, <2>2, <2>3, BeginRows DEF TypeInv
<1>2. CASE PostCommit(t) \/ DeleteCommit(t)
    <2>1. job[t].op \in {"post", "delete"} => job[t].s \in Slots
        BY DEF TypeInv, GoodJob
    <2>2. slot' \in [Slots -> SlotState]
        BY <1>2, <2>1 DEF PostCommit, DeleteCommit, TypeInv, SlotState
    <2>3. Finish(t) /\ UNCHANGED <<now, booking, request>>
        BY <1>2 DEF PostCommit, DeleteCommit
    <2>4. QED
        BY <2>2, <2>3, FinishRows DEF TypeInv, RowsStay
<1>3. QED
    BY <1>1, <1>2

LEMMA TypeBookSlot == TypeInv /\ BookSlot => TypeInv'
<1> SUFFICES ASSUME TypeInv, NEW t \in Workers,
                    \/ \E b \in Bookings, s \in Slots, u \in Students :
                           CreateLock(t, b, s, u)
                    \/ CreateCommit(t)
             PROVE  TypeInv'
    BY DEF BookSlot
<1>1. ASSUME NEW b \in Bookings, NEW s \in Slots, NEW u \in Students,
             CreateLock(t, b, s, u)
      PROVE  TypeInv'
    <2> DEFINE j == [Idle EXCEPT !.op = "create", !.b = b, !.s = s, !.who = u]
    <2>1. j \in GoodJob /\ j.op \notin OnBooking
        BY DEF Idle, GoodJob, Job, Op, OnBooking, Participants
    <2>2. Begin(t, j) /\ UNCHANGED <<now, slot, booking, request>>
        BY <1>1 DEF CreateLock
    <2> HIDE DEF j
    <2>3. QED
        BY <2>1, <2>2, BeginRows DEF TypeInv
<1>2. CASE CreateCommit(t)
    <2> DEFINE row == [NoBooking EXCEPT !.status = "PENDING", !.slot = job[t].s,
                           !.student = job[t].who, !.tutor = SlotTutor[job[t].s]]
    <2>1. job[t].b \in Bookings /\ job[t].s \in Slots /\ job[t].who \in Students
        BY <1>2 DEF CreateCommit, TypeInv, GoodJob
    <2>2. row \in GoodBooking /\ row.status = "PENDING"
        BY <2>1, SlotAssumption
        DEF NoBooking, GoodBooking, BookingRow, BookingStatus, AttemptStatus
    <2>3. /\ booking' = [booking EXCEPT ![job[t].b] = row]
          /\ Finish(t)
          /\ UNCHANGED <<now, slot, request>>
        BY <1>2 DEF CreateCommit
    <2> HIDE DEF row
    <2>4. booking' \in [Bookings -> GoodBooking] /\ RowsStay
        BY <2>1, <2>2, <2>3 DEF TypeInv, RowsStay
    <2>5. QED
        BY <2>3, <2>4, FinishRows DEF TypeInv
<1>3. QED
    BY <1>1, <1>2

LEMMA TypeDecide == TypeInv /\ Decide => TypeInv'
<1> SUFFICES ASSUME TypeInv, NEW t \in Workers,
                    \/ \E b \in Bookings, op \in {"confirm", "reject"} : DecideRead(t, b, op)
                    \/ ConfirmLock(t)
                    \/ ConfirmCommit(t)
                    \/ RejectCommit(t)
             PROVE  TypeInv'
    BY DEF Decide
<1>1. ASSUME NEW b \in Bookings, NEW op \in {"confirm", "reject"}, DecideRead(t, b, op)
      PROVE  TypeInv'
    <2> DEFINE j == [Idle EXCEPT !.op = op, !.b = b, !.who = booking[b].tutor]
    <2>1. booking[b].status = "PENDING" /\ booking[b].tutor \in Tutors
        BY <1>1 DEF DecideRead, TypeInv, GoodBooking
    <2>2. j \in GoodJob /\ j.b = b
        BY <2>1 DEF Idle, GoodJob, Job, Op, Participants
    <2>3. Begin(t, j) /\ UNCHANGED <<now, slot, booking, request>>
        BY <1>1 DEF DecideRead
    <2> HIDE DEF j
    <2>4. QED
        BY <2>1, <2>2, <2>3, TypeRead
<1>2. CASE ConfirmLock(t)
    <2>1. CASE Finish(t)
        BY <1>2, <2>1, TypeAnswer DEF ConfirmLock
    <2>2. CASE job' = [job EXCEPT ![t].op = "confirming"]
        <3>1. job[t] \in GoodJob /\ job[t].op \in OnBooking
            BY <1>2 DEF TypeInv, ConfirmLock, OnBooking, Op
        <3> DEFINE j == [job[t] EXCEPT !.op = "confirming"]
        <3>2. j \in GoodJob /\ j.b = job[t].b
            BY <1>2, <3>1 DEF ConfirmLock, GoodJob, Job, Op
        <3>3. job' = [job EXCEPT ![t] = j]
            BY <2>2
        <3> HIDE DEF j
        <3>4. QED
            BY <1>2, <3>1, <3>2, <3>3, TypeGoOn DEF ConfirmLock
    <2>3. QED
        BY <1>2, <2>1, <2>2 DEF ConfirmLock
<1>3. CASE ConfirmCommit(t)
    <2> DEFINE b == job[t].b
               row == [booking[b] EXCEPT !.status = "CONFIRMED"]
    <2>1. b \in Bookings /\ booking[b] \in GoodBooking /\ booking[b].status # "NONE"
        BY <1>3 DEF ConfirmCommit, TypeInv, GoodJob, JobRows, OnBooking, Op
    <2>2. row \in GoodBooking /\ row.status = "CONFIRMED"
        BY <2>1 DEF GoodBooking, BookingRow, BookingStatus
    <2>3. booking' = [booking EXCEPT ![b] = row]
        BY <1>3 DEF ConfirmCommit
    <2> HIDE DEF b, row
    <2>4. QED
        BY <1>3, <2>1, <2>2, <2>3, TypeWrite DEF ConfirmCommit
<1>4. CASE RejectCommit(t)
    <2> DEFINE b == job[t].b
               row == [booking[b] EXCEPT !.status = "CANCELED", !.closedAt = job[t].at,
                                         !.closedBy = "REJECT"]
    <2>1. b \in Bookings /\ booking[b] \in GoodBooking /\ booking[b].status # "NONE"
        BY <1>4 DEF RejectCommit, TypeInv, GoodJob, JobRows, OnBooking, Op
    <2>2. row \in GoodBooking /\ row.status = "CANCELED"
        BY <2>1 DEF GoodBooking, BookingRow, BookingStatus, TypeInv, GoodJob, Job
    <2>3. booking' = [booking EXCEPT ![b] = row] \/ UNCHANGED booking
        BY <1>4 DEF RejectCommit
    <2> HIDE DEF b, row
    <2>4. QED
        BY <1>4, <2>1, <2>2, <2>3, TypeWrite, TypeAnswer DEF RejectCommit
<1>5. QED
    BY <1>1, <1>2, <1>3, <1>4

LEMMA TypeCancel == TypeInv /\ Cancel => TypeInv'
<1> SUFFICES ASSUME TypeInv, NEW t \in Workers,
                    \/ \E b \in Bookings, u \in Participants : CancelRead(t, b, u)
                    \/ CancelCommit(t)
             PROVE  TypeInv'
    BY DEF Cancel
<1>1. ASSUME NEW b \in Bookings, NEW u \in Participants, CancelRead(t, b, u)
      PROVE  TypeInv'
    <2> DEFINE j == [Idle EXCEPT !.op = "cancel", !.b = b, !.s = booking[b].slot,
                                 !.who = u]
    <2>1. booking[b].status # "NONE" /\ booking[b].slot \in Slots
        BY <1>1 DEF CancelRead, Active, ActiveStatus, TypeInv, GoodBooking
    <2>2. j \in GoodJob /\ j.b = b
        BY <2>1 DEF Idle, GoodJob, Job, Op
    <2>3. Begin(t, j) /\ UNCHANGED <<now, slot, booking, request>>
        BY <1>1 DEF CancelRead
    <2> HIDE DEF j
    <2>4. QED
        BY <2>1, <2>2, <2>3, TypeRead
<1>2. CASE CancelCommit(t)
    <2> DEFINE b == job[t].b
               row == [booking[b] EXCEPT !.status = "CANCELED", !.closedAt = job[t].at,
                                         !.closedBy = "CANCEL"]
    <2>1. b \in Bookings /\ booking[b] \in GoodBooking /\ booking[b].status # "NONE"
        BY <1>2 DEF CancelCommit, TypeInv, GoodJob, JobRows, OnBooking, Op
    <2>2. row \in GoodBooking /\ row.status = "CANCELED"
        BY <2>1 DEF GoodBooking, BookingRow, BookingStatus, TypeInv, GoodJob, Job
    <2>3. booking' = [booking EXCEPT ![b] = row] \/ UNCHANGED booking
        BY <1>2 DEF CancelCommit
    <2> HIDE DEF b, row
    <2>4. QED
        BY <1>2, <2>1, <2>2, <2>3, TypeWrite, TypeAnswer DEF CancelCommit
<1>3. QED
    BY <1>1, <1>2

LEMMA TypeClassroom == TypeInv /\ Classroom => TypeInv'
<1> SUFFICES ASSUME TypeInv, NEW t \in Workers,
                    \/ \E b \in Bookings : LinkRead(t, b) \/ AttendRead(t, b)
                    \/ LinkCommit(t)
                    \/ \E value \in {"ATTENDED", "ABSENT"} : AttendCommit(t, value)
             PROVE  TypeInv'
    BY DEF Classroom
<1>1. ASSUME NEW b \in Bookings, LinkRead(t, b)
      PROVE  TypeInv'
    <2> DEFINE j == [Idle EXCEPT !.op = "link", !.b = b]
    <2>1. booking[b].status # "NONE"
        BY <1>1 DEF LinkRead, LinkEditable
    <2>2. j \in GoodJob /\ j.b = b
        BY DEF Idle, GoodJob, Job, Op
    <2>3. Begin(t, j) /\ UNCHANGED <<now, slot, booking, request>>
        BY <1>1 DEF LinkRead
    <2> HIDE DEF j
    <2>4. QED
        BY <2>1, <2>2, <2>3, TypeRead
<1>2. ASSUME NEW b \in Bookings, AttendRead(t, b)
      PROVE  TypeInv'
    <2> DEFINE j == [Idle EXCEPT !.op = "attend", !.b = b, !.s = booking[b].slot]
    <2>1. booking[b].status # "NONE" /\ booking[b].slot \in Slots
        BY <1>2 DEF AttendRead, TypeInv, GoodBooking
    <2>2. j \in GoodJob /\ j.b = b
        BY <2>1 DEF Idle, GoodJob, Job, Op
    <2>3. Begin(t, j) /\ UNCHANGED <<now, slot, booking, request>>
        BY <1>2 DEF AttendRead
    <2> HIDE DEF j
    <2>4. QED
        BY <2>1, <2>2, <2>3, TypeRead
<1>3. CASE LinkCommit(t)
    <2> DEFINE b == job[t].b
               row == [booking[b] EXCEPT !.link = TRUE]
    <2>1. b \in Bookings /\ booking[b] \in GoodBooking /\ booking[b].status # "NONE"
        BY <1>3 DEF LinkCommit, TypeInv, GoodJob, JobRows, OnBooking, Op
    <2>2. row \in GoodBooking /\ row.status # "NONE"
        BY <2>1 DEF GoodBooking, BookingRow
    <2>3. booking' = [booking EXCEPT ![b] = row] \/ UNCHANGED booking
        BY <1>3 DEF LinkCommit
    <2> HIDE DEF b, row
    <2>4. QED
        BY <1>3, <2>1, <2>2, <2>3, TypeWrite, TypeAnswer DEF LinkCommit
<1>4. ASSUME NEW value \in {"ATTENDED", "ABSENT"}, AttendCommit(t, value)
      PROVE  TypeInv'
    <2> DEFINE b == job[t].b
               row == [booking[b] EXCEPT !.status = "COMPLETED", !.attendance = value,
                                         !.closedAt = job[t].at]
    <2>1. b \in Bookings /\ booking[b] \in GoodBooking /\ booking[b].status # "NONE"
        BY <1>4 DEF AttendCommit, TypeInv, GoodJob, JobRows, OnBooking, Op
    <2>2. row \in GoodBooking /\ row.status = "COMPLETED"
        BY <2>1 DEF GoodBooking, BookingRow, BookingStatus, TypeInv, GoodJob, Job
    <2>3. booking' = [booking EXCEPT ![b] = row] \/ UNCHANGED booking
        BY <1>4 DEF AttendCommit
    <2> HIDE DEF b, row
    <2>4. QED
        BY <1>4, <2>1, <2>2, <2>3, TypeWrite, TypeAnswer DEF AttendCommit
<1>5. QED
    BY <1>1, <1>2, <1>3, <1>4

LEMMA TypePay == TypeInv /\ Pay => TypeInv'
<1>1. ASSUME TypeInv, NEW t \in Workers, NEW b \in Bookings, PayRead(t, b)
      PROVE  TypeInv'
    <2> DEFINE j == [Idle EXCEPT !.op = "pay", !.b = b]
    <2>1. booking[b].status # "NONE"
        BY <1>1 DEF PayRead, Payable
    <2>2. j \in GoodJob /\ j.b = b
        BY DEF Idle, GoodJob, Job, Op
    <2>3. Begin(t, j) /\ UNCHANGED <<now, slot, booking, request>>
        BY <1>1 DEF PayRead
    <2> HIDE DEF j
    <2>4. QED
        BY <1>1, <2>1, <2>2, <2>3, TypeRead
<1>2. ASSUME TypeInv, NEW t \in Workers, PayClaim(t)
      PROVE  TypeInv'
    <2> DEFINE b == job[t].b
               row == [booking[b] EXCEPT !.pending = TRUE, !.attempt = "CREATING"]
    <2>1. b \in Bookings /\ booking[b] \in GoodBooking /\ booking[b].status # "NONE"
        BY <1>2 DEF PayClaim, TypeInv, GoodJob, JobRows, OnBooking, Op
    <2>2. row \in GoodBooking /\ row.status # "NONE"
        BY <2>1 DEF GoodBooking, BookingRow, AttemptStatus
    <2>3. booking' = [booking EXCEPT ![b] = row] \/ UNCHANGED booking
        BY <1>2 DEF PayClaim
    <2> HIDE DEF b, row
    <2>4. QED
        BY <1>2, <2>1, <2>2, <2>3, TypeWrite, TypeAnswer DEF PayClaim
<1>3. ASSUME TypeInv, NEW b \in Bookings,
             (\E result \in AttemptStatus : ApplyCharge(b, result)) \/ ChargeRejected(b)
      PROVE  TypeInv'
    <2>1. booking[b] \in GoodBooking
        BY <1>3 DEF TypeInv
    <2>2. PICK row \in GoodBooking : /\ booking' = [booking EXCEPT ![b] = row]
                                     /\ row.status = booking[b].status
        <3>1. ASSUME NEW result \in AttemptStatus, ApplyCharge(b, result)
              PROVE  \E row \in GoodBooking : /\ booking' = [booking EXCEPT ![b] = row]
                                              /\ row.status = booking[b].status
            <4> DEFINE kept == [booking[b] EXCEPT !.attempt = result]
                       paid == [booking[b] EXCEPT !.attempt = result, !.pending = FALSE,
                                                  !.payment = "PAID"]
                       failed == [booking[b] EXCEPT !.attempt = result, !.pending = FALSE]
            <4>1. \A row \in {kept, paid, failed} :
                      row \in GoodBooking /\ row.status = booking[b].status
                BY <2>1 DEF GoodBooking, BookingRow
            <4>2. \E row \in {kept, paid, failed} : booking' = [booking EXCEPT ![b] = row]
                BY <3>1 DEF ApplyCharge
            <4> HIDE DEF kept, paid, failed
            <4>3. QED
                BY <4>1, <4>2
        <3>2. ASSUME ChargeRejected(b)
              PROVE  \E row \in GoodBooking : /\ booking' = [booking EXCEPT ![b] = row]
                                              /\ row.status = booking[b].status
            <4> DEFINE row == [booking[b] EXCEPT !.attempt = "FAILED",
                                  !.pending = @ /\ booking[b].payment # "UNPAID"]
            <4>1. (booking[b].pending /\ booking[b].payment # "UNPAID") \in BOOLEAN
                BY <2>1 DEF GoodBooking, BookingRow
            <4>2. row \in GoodBooking /\ row.status = booking[b].status
                BY <2>1, <4>1 DEF GoodBooking, BookingRow, AttemptStatus
            <4>3. booking' = [booking EXCEPT ![b] = row]
                BY <3>2 DEF ChargeRejected
            <4> HIDE DEF row
            <4>4. QED
                BY <4>2, <4>3
        <3>3. QED
            BY <1>3, <3>1, <3>2
    <2>3. UNCHANGED <<now, slot, request, job>>
        BY <1>3 DEF ApplyCharge, ChargeRejected
    <2>4. QED
        BY <1>3, <2>2, <2>3 DEF TypeInv, JobRows
<1>4. QED
    BY <1>1, <1>2, <1>3 DEF Pay

LEMMA TypeReschedule == TypeInv /\ Reschedule => TypeInv'
<1>1. ASSUME TypeInv, NEW t \in Workers, NEW r \in Requests, NEW b \in Bookings,
             NEW s \in Slots, NEW u \in Participants, RequestLock(t, r, b, s, u)
      PROVE  TypeInv'
    <2> DEFINE j == [Idle EXCEPT !.op = "requestMove", !.b = b, !.s = s, !.r = r,
                                 !.who = u]
    <2>1. j \in GoodJob /\ j.b = b
        BY DEF Idle, GoodJob, Job, Op
    <2>2. /\ Begin(t, j)
          /\ UNCHANGED <<now, slot, booking, request>>
          /\ booking[b].status # "NONE"
        BY <1>1 DEF RequestLock
    <2> HIDE DEF j
    <2>3. QED
        BY <1>1, <2>1, <2>2, TypeRead
<1>2. ASSUME TypeInv, NEW t \in Workers, RequestCommit(t)
      PROVE  TypeInv'
    <2> DEFINE b == job[t].b
               row == [NoRequest EXCEPT !.status = "PENDING", !.b = b,
                           !.from = booking[b].slot, !.to = job[t].s, !.by = job[t].who]
    <2>1. /\ b \in Bookings /\ booking[b].status # "NONE"
          /\ job[t].s \in Slots /\ job[t].r \in Requests /\ job[t].who \in Participants
        BY <1>2 DEF RequestCommit, TypeInv, GoodJob, JobRows, OnBooking, Op
    <2>2. booking[b].slot \in Slots
        BY <1>2, <2>1 DEF TypeInv, GoodBooking
    <2>3. row \in GoodRequest
        BY <2>1, <2>2 DEF NoRequest, GoodRequest, RequestRow, RequestStatus
    <2>4. /\ request' = [request EXCEPT ![job[t].r] = row]
          /\ Finish(t)
          /\ UNCHANGED <<now, slot, booking>>
        BY <1>2 DEF RequestCommit
    <2> HIDE DEF b, row
    <2>5. QED
        BY <1>2, <2>1, <2>3, <2>4, FinishRows DEF TypeInv, RowsStay
<1>3. ASSUME TypeInv, NEW t \in Workers, NEW r \in Requests, NEW u \in Participants,
             ApproveLock(t, r, u)
      PROVE  TypeInv'
    <2> DEFINE b == request[r].b
               j == [Idle EXCEPT !.op = "approve", !.b = b, !.s = request[r].to,
                                 !.r = r, !.who = u]
    <2>1. b \in Bookings /\ request[r].to \in Slots
        BY <1>3 DEF ApproveLock, TypeInv, GoodRequest
    <2>2. j \in GoodJob /\ j.b = b
        BY <2>1 DEF Idle, GoodJob, Job, Op
    <2>3. /\ Begin(t, j)
          /\ UNCHANGED <<now, slot, booking, request>>
          /\ booking[b].status # "NONE"
        BY <1>3 DEF ApproveLock
    <2> HIDE DEF b, j
    <2>4. QED
        BY <1>3, <2>1, <2>2, <2>3, TypeRead
<1>4. ASSUME TypeInv, NEW t \in Workers, ApproveTarget(t)
      PROVE  TypeInv'
    <2>1. CASE Finish(t)
        BY <1>4, <2>1, TypeAnswer DEF ApproveTarget
    <2>2. CASE job' = [job EXCEPT ![t].op = "approving", ![t].at = now]
        <3> DEFINE j == [job[t] EXCEPT !.op = "approving", !.at = now]
        <3>1. job[t] \in GoodJob /\ job[t].op = "approve" /\ now \in Nat
            BY <1>4 DEF TypeInv, ApproveTarget
        <3>2. j \in GoodJob /\ j.b = job[t].b
            BY <3>1 DEF GoodJob, Job, Op
        <3>3. job' = [job EXCEPT ![t] = j]
            BY <2>2
        <3>4. job[t].op \in OnBooking
            BY <3>1 DEF OnBooking, Op
        <3> HIDE DEF j
        <3>5. QED
            BY <1>4, <3>2, <3>3, <3>4, TypeGoOn DEF ApproveTarget
    <2>3. QED
        BY <1>4, <2>1, <2>2 DEF ApproveTarget
<1>5. ASSUME TypeInv, NEW t \in Workers, ApproveCommit(t)
      PROVE  TypeInv'
    <2>1. CASE ~StillApprovable(t)
        BY <1>5, <2>1, TypeAnswer DEF ApproveCommit
    <2>2. CASE StillApprovable(t)
        <3> DEFINE b == job[t].b
                   r == job[t].r
                   closed == [request[r] EXCEPT !.status = "APPROVED",
                                 !.reviewer = job[t].who, !.decidedAt = job[t].at]
                   row == [booking[b] EXCEPT !.slot = request[r].to]
        <3>1. /\ b \in Bookings /\ r \in Requests
              /\ job[t].who \in Participants /\ job[t].at \in Nat
            BY <1>5 DEF ApproveCommit, TypeInv, GoodJob, Job
        <3>2. /\ request[r] \in GoodRequest /\ request[r].status = "PENDING"
              /\ booking[b] \in GoodBooking /\ booking[b].status = "CONFIRMED"
            BY <2>2, <3>1, <1>5 DEF StillApprovable, TypeInv
        <3>3. closed \in GoodRequest
            BY <3>1, <3>2 DEF GoodRequest, RequestRow, RequestStatus
        <3>4. row \in GoodBooking /\ row.status = "CONFIRMED"
            BY <3>2 DEF GoodBooking, BookingRow, GoodRequest
        <3>5. /\ request' = [request EXCEPT ![r] = closed]
              /\ booking' = [booking EXCEPT ![b] = row]
              /\ Finish(t)
              /\ UNCHANGED <<now, slot>>
            BY <1>5, <2>2 DEF ApproveCommit
        <3> HIDE DEF b, r, closed, row
        <3>6. booking' \in [Bookings -> GoodBooking] /\ RowsStay
            BY <1>5, <3>1, <3>4, <3>5 DEF TypeInv, RowsStay
        <3>7. request' \in [Requests -> GoodRequest]
            BY <1>5, <3>1, <3>3, <3>5 DEF TypeInv
        <3>8. QED
            BY <1>5, <3>5, <3>6, <3>7, FinishRows DEF TypeInv
    <2>3. QED
        BY <2>1, <2>2
<1>6. ASSUME TypeInv, NEW r \in Requests, NEW u \in Participants,
             RejectRequest(r, u) \/ WithdrawRequest(r, u)
      PROVE  TypeInv'
    <2> DEFINE rejected == [request[r] EXCEPT !.status = "REJECTED", !.reviewer = u,
                                              !.decidedAt = now]
               withdrawn == [request[r] EXCEPT !.status = "WITHDRAWN", !.decidedAt = now]
    <2>1. request[r] \in GoodRequest /\ request[r].status = "PENDING" /\ now \in Nat
        BY <1>6 DEF RejectRequest, WithdrawRequest, Decider, TypeInv
    <2>2. rejected \in GoodRequest /\ withdrawn \in GoodRequest
        BY <2>1 DEF GoodRequest, RequestRow, RequestStatus
    <2>3. /\ \/ request' = [request EXCEPT ![r] = rejected]
             \/ request' = [request EXCEPT ![r] = withdrawn]
          /\ UNCHANGED <<now, slot, booking, job>>
        BY <1>6 DEF RejectRequest, WithdrawRequest
    <2> HIDE DEF rejected, withdrawn
    <2>4. QED
        BY <1>6, <2>2, <2>3 DEF TypeInv, JobRows
<1>7. QED
    BY <1>1, <1>2, <1>3, <1>4, <1>5, <1>6 DEF Reschedule

LEMMA TypeTick == TypeInv /\ Tick => TypeInv'
BY DEF TypeInv, Tick, JobRows

LEMMA TypeAbort == TypeInv /\ (\E t \in Workers : Abort(t)) => TypeInv'
BY TypeAnswer DEF Abort

LEMMA TypeStep == TypeInv /\ [Next]_vars => TypeInv'
<1>1. TypeInv /\ UNCHANGED vars => TypeInv'
    BY DEF vars, TypeInv, JobRows
<1>2. TypeInv /\ Next => TypeInv'
    BY TypeTick, TypeAbort, TypeAvailability, TypeBookSlot, TypeDecide, TypeCancel,
       TypeClassroom, TypeReschedule, TypePay
    DEF Next
<1>3. QED
    BY <1>1, <1>2

-----------------------------------------------------------------------------

\* Rows and workers keep the shape the handlers count on: what a commit uses of
\* what its read found (a booking, a slot, a request) is there.
THEOREM TypeInvariant == Spec => []TypeInv
<1>1. Init => TypeInv
    BY TypeInit
<1>2. TypeInv /\ [Next]_vars => TypeInv'
    BY TypeStep
<1>3. QED
    BY <1>1, <1>2, PTL DEF Spec

\* Every row and every worker's record has its type, and no handler writes the
\* booking status EXPIRED.
THEOREM TypeCorrect == Spec => []TypeOK
BY TypeInvariant, TypeInvTypeOK, PTL

-----------------------------------------------------------------------------
(* Mutual exclusion on the rows *)

\* A slot row is locked by one transaction at a time.
SlotLockExclusive ==
    \A t, u \in Workers, s \in Slots : LocksSlot(t, s) /\ LocksSlot(u, s) => t = u

\* A booking row is locked by one transaction at a time.
BookingLockExclusive ==
    \A t, u \in Workers, b \in Bookings : LocksBooking(t, b) /\ LocksBooking(u, b) => t = u

\* The id drawn for a new booking is still unused, and nobody else works on it.
NewBookingFresh ==
    \A t \in Workers :
        job[t].op = "create" =>
            /\ booking[job[t].b].status = "NONE"
            /\ \A u \in Workers : u # t => job[u].b # job[t].b

\* The id drawn for a new request is still unused, and nobody else works on it.
NewRequestFresh ==
    \A t \in Workers :
        job[t].op = "requestMove" =>
            /\ request[job[t].r].status = "NONE"
            /\ \A u \in Workers : u # t => job[u].r # job[t].r

\* Nobody decides, cancels or moves a booking while its confirmation waits.
ConfirmingPending ==
    \A t \in Workers : job[t].op = "confirming" => booking[job[t].b].status = "PENDING"

LockInv ==
    /\ SlotLockExclusive
    /\ BookingLockExclusive
    /\ NewBookingFresh
    /\ NewRequestFresh
    /\ ConfirmingPending

-----------------------------------------------------------------------------
(* The three shapes of a step *)

\* A request may be taken up when the locks it takes are free and it draws
\* fresh ids for the rows it will add.
MayBegin(j) ==
    /\ j.op \notin {"confirming", "approving"}
    /\ j.op = "create" => SlotFree(j.s) /\ FreshBooking(j.b)
    /\ j.op # "create" => j.b = Nil \/ booking[j.b].status # "NONE"
    /\ j.op \in {"requestMove", "approve"} => BookingFree(j.b)
    /\ j.op = "requestMove" => FreshRequest(j.r)
    /\ j.op # "requestMove" => j.r = Nil \/ request[j.r].status # "NONE"

LEMMA LockBegin ==
    ASSUME TypeInv, LockInv, NEW t \in Workers, NEW j \in GoodJob, Begin(t, j),
           MayBegin(j), UNCHANGED <<booking, request>>
    PROVE  LockInv'
<1>1. /\ job[t] = Idle
      /\ job'[t] = [j EXCEPT !.at = now]
      /\ \A u \in Workers : u # t => job'[u] = job[u]
    BY BeginEffect
<1>2. job'[t].op = j.op /\ job'[t].b = j.b /\ job'[t].s = j.s /\ job'[t].r = j.r
    BY <1>1 DEF GoodJob, Job
<1>3. \A u \in Workers : u # t => job'[u] = job[u]
    BY <1>1
<1>4. SlotLockExclusive'
    <2>1. \A s \in Slots : LocksSlot(t, s)' => \A u \in Workers : ~LocksSlot(u, s)
        BY <1>2 DEF LocksSlot, MayBegin, SlotFree
    <2>2. \A u \in Workers, s \in Slots : u # t => (LocksSlot(u, s)' <=> LocksSlot(u, s))
        BY <1>3 DEF LocksSlot
    <2>3. QED
        BY <2>1, <2>2 DEF LockInv, SlotLockExclusive
<1>5. BookingLockExclusive'
    <2>1. \A b \in Bookings : LocksBooking(t, b)' => \A u \in Workers : ~LocksBooking(u, b)
        BY <1>2 DEF LocksBooking, MayBegin, BookingFree
    <2>2. \A u \in Workers, b \in Bookings :
              u # t => (LocksBooking(u, b)' <=> LocksBooking(u, b))
        BY <1>3 DEF LocksBooking
    <2>3. QED
        BY <2>1, <2>2 DEF LockInv, BookingLockExclusive
<1>6. NewBookingFresh'
    <2>1. ASSUME j.op = "create"
          PROVE  booking[j.b].status = "NONE" /\ \A u \in Workers : job[u].b # j.b
        BY <2>1 DEF MayBegin, FreshBooking
    <2>2. \A u \in Workers : job[u].op = "create" => job[u].b \in Bookings /\ job[u].b # j.b
        BY <2>1, NilAssumption DEF TypeInv, GoodJob, LockInv, NewBookingFresh, MayBegin
    <2>3. QED
        BY <1>2, <1>3, <2>1, <2>2 DEF LockInv, NewBookingFresh
<1>7. NewRequestFresh'
    <2>1. ASSUME j.op = "requestMove"
          PROVE  request[j.r].status = "NONE" /\ \A u \in Workers : job[u].r # j.r
        BY <2>1 DEF MayBegin, FreshRequest
    <2>2. \A u \in Workers :
              job[u].op = "requestMove" => job[u].r \in Requests /\ job[u].r # j.r
        BY <2>1, NilAssumption DEF TypeInv, GoodJob, LockInv, NewRequestFresh, MayBegin
    <2>3. QED
        BY <1>2, <1>3, <2>1, <2>2 DEF LockInv, NewRequestFresh
<1>8. ConfirmingPending'
    BY <1>2, <1>3 DEF LockInv, ConfirmingPending, MayBegin
<1>9. QED
    BY <1>4, <1>5, <1>6, <1>7, <1>8 DEF LockInv

\* A commit may change the status of rows nobody else counts on.
MayWrite(t) ==
    /\ \A b \in Bookings :
          booking'[b].status # booking[b].status =>
              \/ \A u \in Workers : u # t => job[u].b # b
              \/ /\ booking[b].status # "NONE"
                 /\ \A u \in Workers : u # t => ~LocksBooking(u, b)
    /\ \A r \in Requests :
          request'[r].status # request[r].status =>
              \/ \A u \in Workers : u # t => job[u].r # r
              \/ request[r].status # "NONE"

LEMMA LockFinish ==
    ASSUME TypeInv, LockInv, NEW t \in Workers, Finish(t), MayWrite(t)
    PROVE  LockInv'
<1>1. /\ job' \in [Workers -> GoodJob]
      /\ job'[t].op = "idle" /\ job'[t].b = Nil /\ job'[t].r = Nil
      /\ \A u \in Workers : u # t => job'[u] = job[u]
    BY FinishEffect DEF Idle
<1>2. SlotLockExclusive'
    BY <1>1 DEF LockInv, SlotLockExclusive, LocksSlot
<1>3. BookingLockExclusive'
    BY <1>1 DEF LockInv, BookingLockExclusive, LocksBooking
<1>4. \A u \in Workers :
          /\ job[u].op \in {"create", "confirming"} => job[u].b \in Bookings
          /\ job[u].op = "requestMove" => job[u].r \in Requests
    BY DEF TypeInv, GoodJob
<1>5. NewBookingFresh'
    BY <1>1, <1>4, NilAssumption DEF LockInv, NewBookingFresh, MayWrite
<1>6. NewRequestFresh'
    BY <1>1, <1>4, NilAssumption DEF LockInv, NewRequestFresh, MayWrite
<1>7. ConfirmingPending'
    BY <1>1, <1>4 DEF LockInv, ConfirmingPending, MayWrite, LocksBooking
<1>8. QED
    BY <1>2, <1>3, <1>5, <1>6, <1>7 DEF LockInv

\* A step that neither begins nor ends a request and changes no booking status.
LEMMA LockKeep ==
    ASSUME TypeInv, LockInv, UNCHANGED job,
           \A b \in Bookings : booking'[b].status = booking[b].status,
           \A r \in Requests : request[r].status = "NONE" => request'[r].status = "NONE"
    PROVE  LockInv'
<1>1. \A u \in Workers :
          /\ job[u].op \in {"create", "confirming"} => job[u].b \in Bookings
          /\ job[u].op = "requestMove" => job[u].r \in Requests
    BY DEF TypeInv, GoodJob
<1>2. SlotLockExclusive' /\ BookingLockExclusive'
    BY DEF LockInv, SlotLockExclusive, LocksSlot, BookingLockExclusive, LocksBooking
<1>3. NewBookingFresh' /\ NewRequestFresh' /\ ConfirmingPending'
    BY <1>1 DEF LockInv, NewBookingFresh, NewRequestFresh, ConfirmingPending
<1>4. QED
    BY <1>2, <1>3 DEF LockInv

\* A transaction that goes on to its next step: the locks it adds are free, and
\* a confirmation starts from an undecided booking.
LEMMA LockGoOn ==
    ASSUME TypeInv, LockInv, NEW t \in Workers, NEW j \in GoodJob,
           job' = [job EXCEPT ![t] = j],
           j.b = job[t].b, j.r = job[t].r, j.s = job[t].s,
           job[t].op \notin {"create", "requestMove"},
           \/ j.op = "approving" /\ job[t].op = "approve" /\ SlotFree(j.s)
           \/ j.op = "confirming" /\ BookingFree(j.b) /\ booking[j.b].status = "PENDING",
           UNCHANGED <<booking, request>>
    PROVE  LockInv'
<1>1. job'[t] = j /\ \A u \in Workers : u # t => job'[u] = job[u]
    BY DEF TypeInv
<1>2. SlotLockExclusive'
    BY <1>1 DEF LockInv, SlotLockExclusive, LocksSlot, SlotFree
<1>3. BookingLockExclusive'
    BY <1>1 DEF LockInv, BookingLockExclusive, LocksBooking, BookingFree
<1>4. NewBookingFresh' /\ NewRequestFresh' /\ ConfirmingPending'
    BY <1>1 DEF LockInv, NewBookingFresh, NewRequestFresh, ConfirmingPending
<1>5. QED
    BY <1>2, <1>3, <1>4 DEF LockInv

-----------------------------------------------------------------------------
(* Init and Next *)

LEMMA LockInit == Init => LockInv
BY DEF Init, StoreInit, Idle, LockInv, SlotLockExclusive, LocksSlot, BookingLockExclusive,
       LocksBooking, NewBookingFresh, NewRequestFresh, ConfirmingPending

\* An answer that changes no status.
LEMMA LockQuiet ==
    ASSUME TypeInv, LockInv, NEW t \in Workers, Finish(t),
           \A b \in Bookings : booking'[b].status = booking[b].status,
           UNCHANGED request
    PROVE  LockInv'
BY LockFinish DEF MayWrite

\* An answer that changes the status of one booking row, which is in the table
\* and which nobody else has locked.
LEMMA LockWrite ==
    ASSUME TypeInv, LockInv, NEW t \in Workers, Finish(t), NEW b \in Bookings,
           booking[b].status # "NONE",
           \A u \in Workers : u # t => ~LocksBooking(u, b),
           \A c \in Bookings : c # b => booking'[c] = booking[c],
           UNCHANGED request
    PROVE  LockInv'
BY LockFinish DEF MayWrite

LEMMA LockAvailability == TypeInv /\ LockInv /\ Availability => LockInv'
<1> SUFFICES ASSUME TypeInv, LockInv, NEW t \in Workers,
                    \/ \E s \in Slots : PostRead(t, s) \/ DeleteRead(t, s)
                    \/ PostCommit(t)
                    \/ DeleteCommit(t)
             PROVE  LockInv'
    BY DEF Availability
<1>1. ASSUME NEW s \in Slots, PostRead(t, s) \/ DeleteRead(t, s)
      PROVE  LockInv'
    <2>1. PICK op \in {"post", "delete"} : Begin(t, [Idle EXCEPT !.op = op, !.s = s])
        BY <1>1 DEF PostRead, DeleteRead
    <2> DEFINE j == [Idle EXCEPT !.op = op, !.s = s]
    <2>2. j \in GoodJob /\ j.op = op /\ j.b = Nil /\ j.r = Nil
        BY DEF Idle, GoodJob, Job, Op
    <2>3. UNCHANGED <<booking, request>>
        BY <1>1 DEF PostRead, DeleteRead
    <2> HIDE DEF j
    <2>4. MayBegin(j)
        BY <2>2 DEF MayBegin
    <2>5. QED
        BY <2>1, <2>2, <2>3, <2>4, LockBegin DEF j
<1>2. CASE PostCommit(t) \/ DeleteCommit(t)
    BY <1>2, LockQuiet DEF PostCommit, DeleteCommit
<1>3. QED
    BY <1>1, <1>2

LEMMA LockBookSlot == TypeInv /\ LockInv /\ BookSlot => LockInv'
<1> SUFFICES ASSUME TypeInv, LockInv, NEW t \in Workers,
                    \/ \E b \in Bookings, s \in Slots, u \in Students :
                           CreateLock(t, b, s, u)
                    \/ CreateCommit(t)
             PROVE  LockInv'
    BY DEF BookSlot
<1>1. ASSUME NEW b \in Bookings, NEW s \in Slots, NEW u \in Students,
             CreateLock(t, b, s, u)
      PROVE  LockInv'
    <2> DEFINE j == [Idle EXCEPT !.op = "create", !.b = b, !.s = s, !.who = u]
    <2>1. j \in GoodJob /\ j.op = "create" /\ j.b = b /\ j.s = s /\ j.r = Nil
        BY DEF Idle, GoodJob, Job, Op, Participants
    <2>2. Begin(t, j) /\ UNCHANGED <<booking, request>> /\ SlotFree(s) /\ FreshBooking(b)
        BY <1>1 DEF CreateLock
    <2> HIDE DEF j
    <2>3. MayBegin(j)
        BY <2>1, <2>2 DEF MayBegin
    <2>4. QED
        BY <2>1, <2>2, <2>3, LockBegin
<1>2. CASE CreateCommit(t)
    <2>1. /\ \A c \in Bookings : c # job[t].b => booking'[c] = booking[c]
          /\ Finish(t) /\ UNCHANGED request
        BY <1>2 DEF CreateCommit, TypeInv
    <2>2. \A u \in Workers : u # t => job[u].b # job[t].b
        BY <1>2 DEF CreateCommit, LockInv, NewBookingFresh
    <2>3. QED
        BY <2>1, <2>2, LockFinish DEF MayWrite
<1>3. QED
    BY <1>1, <1>2

LEMMA LockDecide == TypeInv /\ LockInv /\ Decide => LockInv'
<1> SUFFICES ASSUME TypeInv, LockInv, NEW t \in Workers,
                    \/ \E b \in Bookings, op \in {"confirm", "reject"} : DecideRead(t, b, op)
                    \/ ConfirmLock(t)
                    \/ ConfirmCommit(t)
                    \/ RejectCommit(t)
             PROVE  LockInv'
    BY DEF Decide
<1>1. ASSUME NEW b \in Bookings, NEW op \in {"confirm", "reject"}, DecideRead(t, b, op)
      PROVE  LockInv'
    <2> DEFINE j == [Idle EXCEPT !.op = op, !.b = b, !.who = booking[b].tutor]
    <2>1. booking[b].status = "PENDING" /\ booking[b].tutor \in Tutors
        BY <1>1 DEF DecideRead, TypeInv, GoodBooking
    <2>2. j \in GoodJob /\ j.op = op /\ j.b = b /\ j.r = Nil
        BY <2>1 DEF Idle, GoodJob, Job, Op, Participants
    <2>3. Begin(t, j) /\ UNCHANGED <<booking, request>>
        BY <1>1 DEF DecideRead
    <2> HIDE DEF j
    <2>4. MayBegin(j)
        BY <2>1, <2>2 DEF MayBegin
    <2>5. QED
        BY <2>2, <2>3, <2>4, LockBegin
<1>2. CASE ConfirmLock(t)
    <2>1. CASE ~Undecided(t)
        BY <1>2, <2>1, LockQuiet DEF ConfirmLock
    <2>2. CASE Undecided(t)
        <3> DEFINE j == [job[t] EXCEPT !.op = "confirming"]
        <3>1. job[t] \in GoodJob /\ job[t].op = "confirm"
            BY <1>2 DEF TypeInv, ConfirmLock
        <3>2. /\ j \in GoodJob /\ j.op = "confirming"
              /\ j.b = job[t].b /\ j.r = job[t].r /\ j.s = job[t].s
            BY <3>1 DEF GoodJob, Job, Op
        <3>3. /\ job' = [job EXCEPT ![t] = j]
              /\ BookingFree(job[t].b)
              /\ booking[job[t].b].status = "PENDING"
              /\ UNCHANGED <<booking, request>>
            BY <1>2, <2>2 DEF ConfirmLock, Undecided
        <3> HIDE DEF j
        <3>4. QED
            BY <3>1, <3>2, <3>3, LockGoOn
    <2>3. QED
        BY <2>1, <2>2
<1>3. CASE ConfirmCommit(t) \/ RejectCommit(t)
    <2>1. /\ job[t].b \in Bookings /\ booking[job[t].b].status # "NONE"
          /\ job[t].op \in {"confirming", "reject"}
        BY <1>3 DEF ConfirmCommit, RejectCommit, TypeInv, GoodJob, JobRows, OnBooking, Op
    <2>2. /\ Finish(t) /\ UNCHANGED request
          /\ \A c \in Bookings : c # job[t].b => booking'[c] = booking[c]
        BY <1>3 DEF ConfirmCommit, RejectCommit, TypeInv
    <2>3. \A u \in Workers : u # t => ~LocksBooking(u, job[t].b)
        <3>1. CASE ConfirmCommit(t)
            BY <2>1, <3>1 DEF ConfirmCommit, LockInv, BookingLockExclusive, LocksBooking
        <3>2. CASE RejectCommit(t)
            BY <3>2 DEF RejectCommit, BookingFree
        <3>3. QED
            BY <1>3, <3>1, <3>2
    <2>4. QED
        BY <2>1, <2>2, <2>3, LockWrite
<1>4. QED
    BY <1>1, <1>2, <1>3

LEMMA LockCancel == TypeInv /\ LockInv /\ Cancel => LockInv'
<1> SUFFICES ASSUME TypeInv, LockInv, NEW t \in Workers,
                    \/ \E b \in Bookings, u \in Participants : CancelRead(t, b, u)
                    \/ CancelCommit(t)
             PROVE  LockInv'
    BY DEF Cancel
<1>1. ASSUME NEW b \in Bookings, NEW u \in Participants, CancelRead(t, b, u)
      PROVE  LockInv'
    <2> DEFINE j == [Idle EXCEPT !.op = "cancel", !.b = b, !.s = booking[b].slot,
                                 !.who = u]
    <2>1. booking[b].status # "NONE" /\ booking[b].slot \in Slots
        BY <1>1 DEF CancelRead, Active, ActiveStatus, TypeInv, GoodBooking
    <2>2. j \in GoodJob /\ j.op = "cancel" /\ j.b = b /\ j.r = Nil
        BY <2>1 DEF Idle, GoodJob, Job, Op
    <2>3. Begin(t, j) /\ UNCHANGED <<booking, request>>
        BY <1>1 DEF CancelRead
    <2> HIDE DEF j
    <2>4. MayBegin(j)
        BY <2>1, <2>2 DEF MayBegin
    <2>5. QED
        BY <2>2, <2>3, <2>4, LockBegin
<1>2. CASE CancelCommit(t)
    <2>1. job[t].b \in Bookings /\ booking[job[t].b].status # "NONE"
        BY <1>2 DEF CancelCommit, TypeInv, GoodJob, JobRows, OnBooking, Op
    <2>2. /\ Finish(t) /\ UNCHANGED request
          /\ \A c \in Bookings : c # job[t].b => booking'[c] = booking[c]
        BY <1>2 DEF CancelCommit, TypeInv
    <2>3. \A u \in Workers : u # t => ~LocksBooking(u, job[t].b)
        BY <1>2 DEF CancelCommit, BookingFree
    <2>4. QED
        BY <2>1, <2>2, <2>3, LockWrite
<1>3. QED
    BY <1>1, <1>2

LEMMA LockClassroom == TypeInv /\ LockInv /\ Classroom => LockInv'
<1> SUFFICES ASSUME TypeInv, LockInv, NEW t \in Workers,
                    \/ \E b \in Bookings : LinkRead(t, b) \/ AttendRead(t, b)
                    \/ LinkCommit(t)
                    \/ \E value \in {"ATTENDED", "ABSENT"} : AttendCommit(t, value)
             PROVE  LockInv'
    BY DEF Classroom
<1>1. ASSUME NEW b \in Bookings, LinkRead(t, b)
      PROVE  LockInv'
    <2> DEFINE j == [Idle EXCEPT !.op = "link", !.b = b]
    <2>1. j \in GoodJob /\ j.op = "link" /\ j.b = b /\ j.r = Nil
        BY DEF Idle, GoodJob, Job, Op
    <2>2. Begin(t, j) /\ UNCHANGED <<booking, request>> /\ booking[b].status # "NONE"
        BY <1>1 DEF LinkRead, LinkEditable
    <2> HIDE DEF j
    <2>3. MayBegin(j)
        BY <2>1, <2>2 DEF MayBegin
    <2>4. QED
        BY <2>1, <2>2, <2>3, LockBegin
<1>2. ASSUME NEW b \in Bookings, AttendRead(t, b)
      PROVE  LockInv'
    <2> DEFINE j == [Idle EXCEPT !.op = "attend", !.b = b, !.s = booking[b].slot]
    <2>1. booking[b].status # "NONE" /\ booking[b].slot \in Slots
        BY <1>2 DEF AttendRead, TypeInv, GoodBooking
    <2>2. j \in GoodJob /\ j.op = "attend" /\ j.b = b /\ j.r = Nil
        BY <2>1 DEF Idle, GoodJob, Job, Op
    <2>3. Begin(t, j) /\ UNCHANGED <<booking, request>>
        BY <1>2 DEF AttendRead
    <2> HIDE DEF j
    <2>4. MayBegin(j)
        BY <2>1, <2>2 DEF MayBegin
    <2>5. QED
        BY <2>2, <2>3, <2>4, LockBegin
<1>3. CASE LinkCommit(t)
    <2>1. job[t].b \in Bookings /\ booking[job[t].b].status # "NONE"
        BY <1>3 DEF LinkCommit, TypeInv, GoodJob, JobRows, OnBooking, Op
    <2>2. /\ Finish(t) /\ UNCHANGED request
          /\ \A c \in Bookings : c # job[t].b => booking'[c] = booking[c]
        BY <1>3 DEF LinkCommit, TypeInv
    <2>3. \A u \in Workers : u # t => ~LocksBooking(u, job[t].b)
        BY <1>3 DEF LinkCommit, BookingFree
    <2>4. QED
        BY <2>1, <2>2, <2>3, LockWrite
<1>4. ASSUME NEW value \in {"ATTENDED", "ABSENT"}, AttendCommit(t, value)
      PROVE  LockInv'
    <2>1. job[t].b \in Bookings /\ booking[job[t].b].status # "NONE"
        BY <1>4 DEF AttendCommit, TypeInv, GoodJob, JobRows, OnBooking, Op
    <2>2. /\ Finish(t) /\ UNCHANGED request
          /\ \A c \in Bookings : c # job[t].b => booking'[c] = booking[c]
        BY <1>4 DEF AttendCommit, TypeInv
    <2>3. \A u \in Workers : u # t => ~LocksBooking(u, job[t].b)
        BY <1>4 DEF AttendCommit, BookingFree
    <2>4. QED
        BY <2>1, <2>2, <2>3, LockWrite
<1>5. QED
    BY <1>1, <1>2, <1>3, <1>4

\* A charge result changes no booking status.
LEMMA ChargeKeepsStatus ==
    ASSUME TypeInv, NEW b \in Bookings,
           (\E result \in AttemptStatus : ApplyCharge(b, result)) \/ ChargeRejected(b)
    PROVE  /\ UNCHANGED <<now, slot, request, job>>
           /\ \A c \in Bookings : /\ booking'[c].status = booking[c].status
                                  /\ booking'[c].slot = booking[c].slot
                                  /\ booking'[c].tutor = booking[c].tutor
<1>1. booking \in [Bookings -> GoodBooking] /\ booking[b] \in BookingRow
    BY DEF TypeInv, GoodBooking
<1>2. ASSUME NEW result \in AttemptStatus, ApplyCharge(b, result)
      PROVE  \A c \in Bookings : /\ booking'[c].status = booking[c].status
                                 /\ booking'[c].slot = booking[c].slot
                                 /\ booking'[c].tutor = booking[c].tutor
    <2> DEFINE kept == [booking[b] EXCEPT !.attempt = result]
               paid == [booking[b] EXCEPT !.attempt = result, !.pending = FALSE,
                                          !.payment = "PAID"]
               failed == [booking[b] EXCEPT !.attempt = result, !.pending = FALSE]
    <2>1. \A row \in {kept, paid, failed} :
              /\ row.status = booking[b].status
              /\ row.slot = booking[b].slot
              /\ row.tutor = booking[b].tutor
        BY <1>1 DEF BookingRow
    <2>2. \E row \in {kept, paid, failed} : booking' = [booking EXCEPT ![b] = row]
        BY <1>2 DEF ApplyCharge
    <2> HIDE DEF kept, paid, failed
    <2>3. QED
        BY <1>1, <2>1, <2>2
<1>3. ASSUME ChargeRejected(b)
      PROVE  \A c \in Bookings : /\ booking'[c].status = booking[c].status
                                 /\ booking'[c].slot = booking[c].slot
                                 /\ booking'[c].tutor = booking[c].tutor
    BY <1>1, <1>3 DEF ChargeRejected, BookingRow
<1>4. QED
    BY <1>2, <1>3 DEF ApplyCharge, ChargeRejected

\* A payment claim changes no booking status.
LEMMA ClaimKeepsStatus ==
    ASSUME TypeInv, NEW t \in Workers, PayClaim(t)
    PROVE  /\ Finish(t)
           /\ UNCHANGED <<now, slot, request>>
           /\ \A c \in Bookings : /\ booking'[c].status = booking[c].status
                                  /\ booking'[c].slot = booking[c].slot
                                  /\ booking'[c].tutor = booking[c].tutor
BY DEF PayClaim, TypeInv, GoodBooking, BookingRow

LEMMA LockPay == TypeInv /\ LockInv /\ Pay => LockInv'
<1>1. ASSUME TypeInv, LockInv, NEW t \in Workers, NEW b \in Bookings, PayRead(t, b)
      PROVE  LockInv'
    <2> DEFINE j == [Idle EXCEPT !.op = "pay", !.b = b]
    <2>1. j \in GoodJob /\ j.op = "pay" /\ j.b = b /\ j.r = Nil
        BY DEF Idle, GoodJob, Job, Op
    <2>2. Begin(t, j) /\ UNCHANGED <<booking, request>> /\ booking[b].status # "NONE"
        BY <1>1 DEF PayRead, Payable
    <2> HIDE DEF j
    <2>3. MayBegin(j)
        BY <2>1, <2>2 DEF MayBegin
    <2>4. QED
        BY <1>1, <2>1, <2>2, <2>3, LockBegin
<1>2. ASSUME TypeInv, LockInv, NEW t \in Workers, PayClaim(t)
      PROVE  LockInv'
    BY <1>2, ClaimKeepsStatus, LockQuiet
<1>3. ASSUME TypeInv, LockInv, NEW b \in Bookings,
             (\E result \in AttemptStatus : ApplyCharge(b, result)) \/ ChargeRejected(b)
      PROVE  LockInv'
    BY <1>3, ChargeKeepsStatus, LockKeep
<1>4. QED
    BY <1>1, <1>2, <1>3 DEF Pay

LEMMA LockReschedule == TypeInv /\ LockInv /\ Reschedule => LockInv'
<1>1. ASSUME TypeInv, LockInv, NEW t \in Workers, NEW r \in Requests, NEW b \in Bookings,
             NEW s \in Slots, NEW u \in Participants, RequestLock(t, r, b, s, u)
      PROVE  LockInv'
    <2> DEFINE j == [Idle EXCEPT !.op = "requestMove", !.b = b, !.s = s, !.r = r,
                                 !.who = u]
    <2>1. j \in GoodJob /\ j.op = "requestMove" /\ j.b = b /\ j.r = r
        BY DEF Idle, GoodJob, Job, Op
    <2>2. /\ Begin(t, j)
          /\ UNCHANGED <<booking, request>>
          /\ booking[b].status # "NONE"
          /\ BookingFree(b) /\ FreshRequest(r)
        BY <1>1 DEF RequestLock
    <2> HIDE DEF j
    <2>3. MayBegin(j)
        BY <2>1, <2>2 DEF MayBegin
    <2>4. QED
        BY <1>1, <2>1, <2>2, <2>3, LockBegin
<1>2. ASSUME TypeInv, LockInv, NEW t \in Workers, RequestCommit(t)
      PROVE  LockInv'
    <2>1. /\ \A q \in Requests : q # job[t].r => request'[q] = request[q]
          /\ Finish(t) /\ UNCHANGED booking
        BY <1>2 DEF RequestCommit, TypeInv
    <2>2. \A u \in Workers : u # t => job[u].r # job[t].r
        BY <1>2 DEF RequestCommit, LockInv, NewRequestFresh
    <2>3. QED
        BY <1>2, <2>1, <2>2, LockFinish DEF MayWrite
<1>3. ASSUME TypeInv, LockInv, NEW t \in Workers, NEW r \in Requests,
             NEW u \in Participants, ApproveLock(t, r, u)
      PROVE  LockInv'
    <2> DEFINE b == request[r].b
               j == [Idle EXCEPT !.op = "approve", !.b = b, !.s = request[r].to,
                                 !.r = r, !.who = u]
    <2>1. b \in Bookings /\ request[r].to \in Slots
        BY <1>3 DEF ApproveLock, TypeInv, GoodRequest
    <2>2. j \in GoodJob /\ j.op = "approve" /\ j.b = b /\ j.r = r
        BY <2>1 DEF Idle, GoodJob, Job, Op
    <2>3. /\ Begin(t, j)
          /\ UNCHANGED <<booking, request>>
          /\ booking[b].status # "NONE" /\ request[r].status # "NONE"
          /\ BookingFree(b)
        BY <1>3 DEF ApproveLock
    <2> HIDE DEF b, j
    <2>4. MayBegin(j)
        BY <2>2, <2>3 DEF MayBegin
    <2>5. QED
        BY <1>3, <2>2, <2>3, <2>4, LockBegin
<1>4. ASSUME TypeInv, LockInv, NEW t \in Workers, ApproveTarget(t)
      PROVE  LockInv'
    <2>1. CASE Finish(t)
        BY <1>4, <2>1, LockQuiet DEF ApproveTarget
    <2>2. CASE job' = [job EXCEPT ![t].op = "approving", ![t].at = now]
        <3> DEFINE j == [job[t] EXCEPT !.op = "approving", !.at = now]
        <3>1. job[t] \in GoodJob /\ job[t].op = "approve" /\ now \in Nat
            BY <1>4 DEF TypeInv, ApproveTarget
        <3>2. /\ j \in GoodJob /\ j.op = "approving"
              /\ j.b = job[t].b /\ j.r = job[t].r /\ j.s = job[t].s
            BY <3>1 DEF GoodJob, Job, Op
        <3>3. /\ job' = [job EXCEPT ![t] = j]
              /\ SlotFree(job[t].s)
              /\ UNCHANGED <<booking, request>>
            BY <1>4, <2>2 DEF ApproveTarget
        <3> HIDE DEF j
        <3>4. QED
            BY <1>4, <3>1, <3>2, <3>3, LockGoOn
    <2>3. QED
        BY <1>4, <2>1, <2>2 DEF ApproveTarget
<1>5. ASSUME TypeInv, LockInv, NEW t \in Workers, ApproveCommit(t)
      PROVE  LockInv'
    <2>1. Finish(t) /\ \A b \in Bookings : booking'[b].status = booking[b].status
        BY <1>5 DEF ApproveCommit, TypeInv, GoodBooking, BookingRow
    <2>2. \A r \in Requests :
              request'[r].status # request[r].status => request[r].status # "NONE"
        BY <1>5 DEF ApproveCommit, StillApprovable, TypeInv
    <2>3. QED
        BY <1>5, <2>1, <2>2, LockFinish DEF MayWrite
<1>6. ASSUME TypeInv, LockInv, NEW r \in Requests, NEW u \in Participants,
             RejectRequest(r, u) \/ WithdrawRequest(r, u)
      PROVE  LockInv'
    <2>1. \A q \in Requests : request[q].status = "NONE" => request'[q].status = "NONE"
        BY <1>6 DEF RejectRequest, WithdrawRequest, Decider, TypeInv
    <2>2. UNCHANGED <<booking, job>>
        BY <1>6 DEF RejectRequest, WithdrawRequest
    <2>3. QED
        BY <1>6, <2>1, <2>2, LockKeep
<1>7. QED
    BY <1>1, <1>2, <1>3, <1>4, <1>5, <1>6 DEF Reschedule

LEMMA LockStep == TypeInv /\ LockInv /\ [Next]_vars => LockInv'
<1>1. TypeInv /\ LockInv /\ (Tick \/ UNCHANGED vars) => LockInv'
    BY LockKeep DEF Tick, vars
<1>2. TypeInv /\ LockInv /\ (\E t \in Workers : Abort(t)) => LockInv'
    BY LockQuiet DEF Abort
<1>3. QED
    BY <1>1, <1>2, LockAvailability, LockBookSlot, LockDecide, LockCancel,
       LockClassroom, LockPay, LockReschedule
    DEF Next

-----------------------------------------------------------------------------

\* FOR UPDATE works as the handlers expect: one holder for a slot and for a
\* booking, and a confirmation that waits for its slot is not overtaken by
\* another decision on its booking.
THEOREM LockInvariant == Spec => []LockInv
<1>1. Init => LockInv
    BY LockInit
<1>2. TypeInv /\ LockInv /\ [Next]_vars => LockInv'
    BY LockStep
<1>3. QED
    BY <1>1, <1>2, TypeInvariant, PTL DEF Spec
=============================================================================
