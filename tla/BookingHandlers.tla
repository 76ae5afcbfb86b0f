-------------------------- MODULE BookingHandlers ---------------------------
(***************************************************************************)
(* BookingsService: a student books a slot, the tutor confirms or rejects, *)
(* either of them cancels, and the tutor sets the meeting link and records *)
(* attendance.                                                             *)
(***************************************************************************)
EXTENDS BookingStore

-----------------------------------------------------------------------------
(* create *)

\* What create checks once it holds the slot: not deleted, not started, no
\* active booking.
Bookable(s) == slot[s] = "LIVE" /\ StartAt[s] > now /\ ~Reserved(s)

\* Mutation of CreateLock: a SELECT without FOR UPDATE.
CreateLockUnlocked(t, b, s, u) ==
    /\ FreshBooking(b)
    /\ Bookable(s)
    /\ Begin(t, [Idle EXCEPT !.op = "create", !.b = b, !.s = s, !.who = u])
    /\ UNCHANGED <<now, slot, booking, request>>

\* SELECT ... FOR UPDATE on the slot, then the checks.
CreateLock(t, b, s, u) ==
    /\ FreshBooking(b)
    /\ SlotFree(s)
    /\ Bookable(s)
    /\ Begin(t, [Idle EXCEPT !.op = "create", !.b = b, !.s = s, !.who = u])
    /\ UNCHANGED <<now, slot, booking, request>>

\* Insert the PENDING row and commit.
CreateCommit(t) ==
    /\ job[t].op = "create"
    /\ booking' = [booking EXCEPT ![job[t].b] =
           [NoBooking EXCEPT !.status = "PENDING", !.slot = job[t].s,
                             !.student = job[t].who, !.tutor = SlotTutor[job[t].s]]]
    /\ Finish(t)
    /\ UNCHANGED <<now, slot, request>>

-----------------------------------------------------------------------------
(* confirm and reject: transitionPendingBooking *)

\* The first read, outside the transaction.
DecideRead(t, b, op) ==
    /\ booking[b].status = "PENDING"
    /\ Begin(t, [Idle EXCEPT !.op = op, !.b = b, !.who = booking[b].tutor])
    /\ UNCHANGED <<now, slot, booking, request>>

\* The row a decision still applies to: the WHERE of the update.
Undecided(t) == /\ booking[job[t].b].status = "PENDING"
                /\ booking[job[t].b].tutor = job[t].who

\* Mutation of ConfirmLock: the loser of a race tries again instead of answering.
ConfirmLockRetry(t) ==
    /\ job[t].op = "confirm"
    /\ BookingFree(job[t].b)
    /\ Undecided(t)
    /\ job' = [job EXCEPT ![t].op = "confirming"]
    /\ UNCHANGED <<now, slot, booking, request>>

\* The conditional update of a confirmation locks the booking; when it matches,
\* the trigger on the active status goes on to lock the slot.
ConfirmLock(t) ==
    /\ job[t].op = "confirm"
    /\ BookingFree(job[t].b)
    /\ IF Undecided(t)
       THEN job' = [job EXCEPT ![t].op = "confirming"]
       ELSE Finish(t)
    /\ UNCHANGED <<now, slot, booking, request>>

\* The trigger has the slot and the transaction commits.
ConfirmCommit(t) ==
    LET b == job[t].b IN
    /\ job[t].op = "confirming"
    /\ SlotFree(booking[b].slot)
    /\ booking' = [booking EXCEPT ![b].status = "CONFIRMED"]
    /\ Finish(t)
    /\ UNCHANGED <<now, slot, request>>

\* Mutation of RejectCommit: a status that no code writes.
RejectCommitExpired(t) ==
    /\ job[t].op = "reject"
    /\ BookingFree(job[t].b)
    /\ booking' = [booking EXCEPT ![job[t].b].status = "EXPIRED"]
    /\ Finish(t)
    /\ UNCHANGED <<now, slot, request>>

\* A rejection cancels; no trigger fires for an inactive status.
RejectCommit(t) ==
    LET b == job[t].b IN
    /\ job[t].op = "reject"
    /\ BookingFree(b)
    /\ booking' =
         IF Undecided(t)
         THEN [booking EXCEPT ![b].status = "CANCELED", ![b].closedAt = job[t].at,
                              ![b].closedBy = "REJECT"]
         ELSE booking
    /\ Finish(t)
    /\ UNCHANGED <<now, slot, request>>

-----------------------------------------------------------------------------
(* cancelBooking *)

\* The booking and the start of its slot are read without a lock; the slot the
\* cutoff was checked against is remembered.
CancelRead(t, b, u) ==
    /\ Participant(b, u)
    /\ booking[b].payment # "PAID"
    /\ ~booking[b].pending
    /\ Active(b)
    /\ StartAt[booking[b].slot] >= now + Cutoff
    /\ Begin(t, [Idle EXCEPT !.op = "cancel", !.b = b, !.s = booking[b].slot,
                             !.who = u])
    /\ UNCHANGED <<now, slot, booking, request>>

\* Mutation of StillCancelable: the slot the cutoff was checked for is forgotten.
StillCancelableAnySlot(t) ==
    LET row == booking[job[t].b] IN
    row.payment = "UNPAID" /\ ~row.pending /\ row.status \in ActiveStatus

\* Mutation of StillCancelable: a claim made since the read is ignored.
StillCancelableClaimed(t) ==
    LET row == booking[job[t].b] IN
    row.payment = "UNPAID" /\ row.slot = job[t].s /\ row.status \in ActiveStatus

\* The WHERE of the cancellation's update.
StillCancelable(t) ==
    LET row == booking[job[t].b] IN
    /\ row.payment = "UNPAID"
    /\ ~row.pending
    /\ row.slot = job[t].s
    /\ row.status \in ActiveStatus

CancelCommit(t) ==
    LET b == job[t].b IN
    /\ job[t].op = "cancel"
    /\ BookingFree(b)
    /\ booking' =
         IF StillCancelable(t)
         THEN [booking EXCEPT ![b].status = "CANCELED", ![b].closedAt = job[t].at,
                              ![b].closedBy = "CANCEL"]
         ELSE booking
    /\ Finish(t)
    /\ UNCHANGED <<now, slot, request>>

-----------------------------------------------------------------------------
(* updateMeetingLink and updateAttendance *)

\* The meeting link may be set on a paid class, before or after it is completed.
LinkEditable(b) == /\ booking[b].status \in {"CONFIRMED", "COMPLETED"}
                   /\ booking[b].payment = "PAID"

LinkRead(t, b) ==
    /\ LinkEditable(b)
    /\ Begin(t, [Idle EXCEPT !.op = "link", !.b = b])
    /\ UNCHANGED <<now, slot, booking, request>>

LinkCommit(t) ==
    LET b == job[t].b IN
    /\ job[t].op = "link"
    /\ BookingFree(b)
    /\ booking' = IF LinkEditable(b) THEN [booking EXCEPT ![b].link = TRUE] ELSE booking
    /\ Finish(t)
    /\ UNCHANGED <<now, slot, request>>

\* The read of updateAttendance: a completed class only replays its answer, so
\* it writes nothing and is left out.
AttendRead(t, b) ==
    /\ booking[b].status = "CONFIRMED"
    /\ ~booking[b].pending
    /\ booking[b].payment = "PAID"
    /\ EndAt[booking[b].slot] <= now
    /\ Begin(t, [Idle EXCEPT !.op = "attend", !.b = b, !.s = booking[b].slot])
    /\ UNCHANGED <<now, slot, booking, request>>

\* Mutation of Recordable: a recording that committed since the read is ignored.
RecordableAgain(t) ==
    LET row == booking[job[t].b] IN
    ~row.pending /\ row.payment = "PAID" /\ EndAt[job[t].s] <= job[t].at

\* The WHERE of the attendance update: only the first recording wins.  Its
\* condition on the slot is a subquery, which PostgreSQL does not run again when
\* the update had to wait for the row: it speaks of the slot that was read.
Recordable(t) ==
    LET row == booking[job[t].b] IN
    /\ row.attendance = "NONE"
    /\ ~row.pending
    /\ row.payment = "PAID"
    /\ EndAt[job[t].s] <= job[t].at
    /\ row.status = "CONFIRMED"

AttendCommit(t, value) ==
    LET b == job[t].b IN
    /\ job[t].op = "attend"
    /\ BookingFree(b)
    /\ booking' =
         IF Recordable(t)
         THEN [booking EXCEPT ![b].status = "COMPLETED", ![b].attendance = value,
                              ![b].closedAt = job[t].at]
         ELSE booking
    /\ Finish(t)
    /\ UNCHANGED <<now, slot, request>>
=============================================================================
