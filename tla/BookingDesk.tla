---------------------------- MODULE BookingDesk -----------------------------
(***************************************************************************)
(* The booking desk: all handlers that read or write slots, bookings and   *)
(* reschedule requests, served at the same time on one database.           *)
(***************************************************************************)
EXTENDS TutorAvailability, BookingHandlers, RescheduleRequests, PaymentClaims

CONSTANT Handlers   \* the groups of endpoints that are called

Init == StoreInit

Availability ==
    \E t \in Workers :
        \/ \E s \in Slots : PostRead(t, s) \/ DeleteRead(t, s)
        \/ PostCommit(t)
        \/ DeleteCommit(t)

BookSlot ==
    \E t \in Workers :
        \/ \E b \in Bookings, s \in Slots, u \in Students : CreateLock(t, b, s, u)
        \/ CreateCommit(t)

Decide ==
    \E t \in Workers :
        \/ \E b \in Bookings, op \in {"confirm", "reject"} : DecideRead(t, b, op)
        \/ ConfirmLock(t)
        \/ ConfirmCommit(t)
        \/ RejectCommit(t)

Cancel ==
    \E t \in Workers :
        \/ \E b \in Bookings, u \in Participants : CancelRead(t, b, u)
        \/ CancelCommit(t)

Classroom ==
    \E t \in Workers :
        \/ \E b \in Bookings : LinkRead(t, b) \/ AttendRead(t, b)
        \/ LinkCommit(t)
        \/ \E value \in {"ATTENDED", "ABSENT"} : AttendCommit(t, value)

Reschedule ==
    \/ \E t \in Workers :
        \/ \E r \in Requests, b \in Bookings, s \in Slots, u \in Participants :
              RequestLock(t, r, b, s, u)
        \/ RequestCommit(t)
        \/ \E r \in Requests, u \in Participants : ApproveLock(t, r, u)
        \/ ApproveTarget(t)
        \/ ApproveCommit(t)
    \/ \E r \in Requests, u \in Participants : RejectRequest(r, u) \/ WithdrawRequest(r, u)

Pay ==
    \/ \E t \in Workers :
        \/ \E b \in Bookings : PayRead(t, b)
        \/ PayClaim(t)
    \/ \E b \in Bookings :
        \/ \E result \in AttemptStatus : ApplyCharge(b, result)
        \/ ChargeRejected(b)

Next ==
    \/ Tick
    \/ \E t \in Workers : Abort(t)
    \/ "availability" \in Handlers /\ Availability
    \/ BookSlot
    \/ Decide
    \/ "cancel" \in Handlers /\ Cancel
    \/ "classroom" \in Handlers /\ Classroom
    \/ "reschedule" \in Handlers /\ Reschedule
    \/ "pay" \in Handlers /\ Pay

Spec == Init /\ [][Next]_vars

\* Every request taken up is eventually answered: PostgreSQL grants a row lock
\* to its waiters in turn, so a step that can be taken again and again is taken.
Answer(t) ==
    \/ PostCommit(t)
    \/ DeleteCommit(t)
    \/ CreateCommit(t)
    \/ ConfirmLock(t)
    \/ ConfirmCommit(t)
    \/ RejectCommit(t)
    \/ CancelCommit(t)
    \/ LinkCommit(t)
    \/ \E value \in {"ATTENDED", "ABSENT"} : AttendCommit(t, value)
    \/ RequestCommit(t)
    \/ ApproveTarget(t)
    \/ ApproveCommit(t)
    \/ PayClaim(t)

FairSpec == Spec /\ \A t \in Workers : SF_vars(Answer(t))

-----------------------------------------------------------------------------
(* Safety *)

\* The promise kept by the desk as a whole, on the columns it is about: which
\* slots are open and which slot each active booking holds.
Calendar ==
    INSTANCE SlotCalendar WITH
        open <- {s \in Slots : slot[s] = "LIVE"},
        held <- [b \in Bookings |-> IF Active(b) THEN booking[b].slot ELSE Nil]

\* However the handlers interleave, slots are published, withdrawn, reserved,
\* released and exchanged as if each request were a single step.
ImplementsCalendar == Calendar!Spec

\* A slot is held by at most one active booking.  The row lock of create and of
\* approve is enough for this: the unique index Booking_active_slot_key is never
\* what decides.
NoDoubleBooking ==
    \A b, c \in Bookings, s \in Slots : Holds(b, s) /\ Holds(c, s) => b = c

\* The slot of an active booking is never deleted, however deletion, booking and
\* rescheduling interleave.
ActiveSlotLive ==
    \A b \in Bookings : Active(b) => slot[booking[b].slot] = "LIVE"

\* A tutor never has two active classes at the same time, although slots are
\* deleted and posted again, and bookings are moved between slots.
TutorNeverDoubleBooked ==
    \A b, c \in Bookings :
        b # c /\ Active(b) /\ Active(c) /\ booking[b].tutor = booking[c].tutor
        => ~Overlap(booking[b].slot, booking[c].slot)

\* A cancellation was checked at least 24 hours before the class that it
\* cancels, even if the class was moved between the check and the update.
CancelRespectsCutoff ==
    \A b \in Bookings :
        booking[b].closedBy = "CANCEL"
        => StartAt[booking[b].slot] >= booking[b].closedAt + Cutoff

\* An approved move left a class that was at least 24 hours away and went to a
\* slot that had not started.
MoveRespectsCutoff ==
    \A r \in Requests :
        request[r].status = "APPROVED"
        => /\ StartAt[request[r].from] >= request[r].decidedAt + Cutoff
           /\ StartAt[request[r].to] > request[r].decidedAt

\* The CHECK constraints of Booking on payment, cancellation and attendance hold
\* of every row written: no handler runs into them and answers 500.
RowChecks ==
    \A b \in Bookings :
        LET row == booking[b] IN
        /\ row.payment = "PAID" => row.status \in {"CONFIRMED", "COMPLETED"}
        /\ row.pending => row.payment = "UNPAID" /\ row.status = "CONFIRMED"
        /\ row.attendance # "NONE" => row.status = "COMPLETED"
        /\ row.closedBy # "NONE" <=> row.status = "CANCELED"

\* While a charge may still succeed its booking stays confirmed, unpaid and
\* claimed, so that the result can be recorded: applyCharge never finds its
\* booking canceled or completed.
ClaimProtectsCharge ==
    \A b \in Bookings : booking[b].attempt \in ActiveAttempt => Claimed(b)

\* A class is completed only by an attendance recorded after its end, and only
\* when it is paid.
CompletedAfterClass ==
    \A b \in Bookings :
        booking[b].status = "COMPLETED"
        => /\ EndAt[booking[b].slot] <= booking[b].closedAt
           /\ booking[b].payment = "PAID"

\* A booking has at most one pending reschedule request.  The booking lock is
\* enough: the index RescheduleRequest_pending_booking_key never decides.
OnePendingRequest ==
    \A q, r \in Requests :
        /\ request[q].status = "PENDING" /\ request[r].status = "PENDING"
        /\ request[q].b = request[r].b
        => q = r

-----------------------------------------------------------------------------
(* What a step may never do *)

\* A booking changes its slot exactly when one of its requests is approved by
\* the participant who did not ask for the move, from the slot it was in to the
\* slot that was asked for.
Moved(b) ==
    \E r \in Requests :
        /\ request[r].status = "PENDING"
        /\ request'[r].status = "APPROVED"
        /\ request[r].b = b
        /\ request'[r].reviewer \in {booking[b].student, booking[b].tutor} \ {request[r].by}
        /\ booking[b].slot = request[r].from
        /\ booking'[b].slot = request[r].to

MoveNeedsConsent ==
    [][/\ \A b \in Bookings :
             booking[b].status # "NONE" /\ booking'[b].slot # booking[b].slot => Moved(b)
       /\ \A r \in Requests :
             request[r].status # "APPROVED" /\ request'[r].status = "APPROVED"
             => Moved(request[r].b)]_vars

\* What is closed stays as it is: a canceled booking, the attendance and the
\* slot of a completed class, a payment, a decided request.
ClosedIsFinal ==
    [][/\ \A b \in Bookings :
            /\ booking[b].status = "CANCELED" => booking'[b] = booking[b]
            /\ booking[b].status = "COMPLETED" =>
                 booking'[b] = [booking[b] EXCEPT !.link = booking'[b].link]
            /\ booking[b].payment = "PAID" => booking'[b].payment = "PAID"
       /\ \A r \in Requests :
            request[r].status \notin {"NONE", "PENDING"} => request'[r] = request[r]]_vars

-----------------------------------------------------------------------------
(* Liveness *)

\* No request waits for ever: locks are taken in the order booking, slot, and
\* every holder commits or is rolled back.
RequestsAnswered == \A t \in Workers : job[t].op # "idle" ~> job[t].op = "idle"
=============================================================================
