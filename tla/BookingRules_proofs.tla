------------------------ MODULE BookingRules_proofs -------------------------
(***************************************************************************)
(* The rules about bookings and reschedule requests: cutoffs, consent,     *)
(* payment, attendance and what is final.  First what a step does to a     *)
(* booking, to a request and to a worker, whichever action it is; then the *)
(* invariant behind the rules, which only refers to these effects.         *)
(***************************************************************************)
EXTENDS BookingCalendar_proofs

-----------------------------------------------------------------------------
(* What a step does to a booking *)

\* How an answer of worker t writes the row of its booking.
Added(t) ==
    /\ job[t].op = "create"
    /\ booking'[job[t].b] =
           [NoBooking EXCEPT !.status = "PENDING", !.slot = job[t].s,
                             !.student = job[t].who, !.tutor = SlotTutor[job[t].s]]

Confirmed(t) ==
    /\ job[t].op = "confirming"
    /\ booking'[job[t].b] = [booking[job[t].b] EXCEPT !.status = "CONFIRMED"]

Rejected(t) ==
    /\ job[t].op = "reject" /\ Undecided(t)
    /\ booking'[job[t].b] =
           [booking[job[t].b] EXCEPT !.status = "CANCELED", !.closedAt = job[t].at,
                                     !.closedBy = "REJECT"]

Canceled(t) ==
    /\ job[t].op = "cancel" /\ StillCancelable(t)
    /\ booking'[job[t].b] =
           [booking[job[t].b] EXCEPT !.status = "CANCELED", !.closedAt = job[t].at,
                                     !.closedBy = "CANCEL"]

Linked(t) ==
    /\ job[t].op = "link" /\ LinkEditable(job[t].b)
    /\ booking'[job[t].b] = [booking[job[t].b] EXCEPT !.link = TRUE]

Attended(t) ==
    /\ job[t].op = "attend" /\ Recordable(t)
    /\ \E value \in {"ATTENDED", "ABSENT"} :
          booking'[job[t].b] =
              [booking[job[t].b] EXCEPT !.status = "COMPLETED", !.attendance = value,
                                        !.closedAt = job[t].at]

ClaimMade(t) ==
    /\ job[t].op = "pay" /\ Payable(job[t].b)
    /\ booking'[job[t].b] =
           [booking[job[t].b] EXCEPT !.pending = TRUE, !.attempt = "CREATING"]

Approved(t) ==
    /\ job[t].op = "approving" /\ StillApprovable(t)
    /\ request'[job[t].r] =
           [request[job[t].r] EXCEPT !.status = "APPROVED", !.reviewer = job[t].who,
                                     !.decidedAt = job[t].at]
    /\ booking'[job[t].b] = [booking[job[t].b] EXCEPT !.slot = request[job[t].r].to]

Written(t) ==
    \/ Added(t)
    \/ Confirmed(t)
    \/ Rejected(t)
    \/ Canceled(t)
    \/ Linked(t)
    \/ Attended(t)
    \/ ClaimMade(t)
    \/ Approved(t)

\* How a charge result writes the row it is about.
Charged(b) ==
    \/ /\ booking[b].attempt \in ActiveAttempt
       /\ booking'[b] = [booking[b] EXCEPT !.attempt = "PENDING"]
    \/ /\ booking[b].attempt \in ActiveAttempt /\ Claimed(b)
       /\ booking'[b] = [booking[b] EXCEPT !.attempt = "SUCCESSFUL", !.pending = FALSE,
                                           !.payment = "PAID"]
    \/ /\ booking[b].attempt \in ActiveAttempt /\ Claimed(b)
       /\ \E result \in {"FAILED", "EXPIRED"} :
             booking'[b] = [booking[b] EXCEPT !.attempt = result, !.pending = FALSE]
    \/ /\ booking[b].attempt = "CREATING"
       /\ booking'[b] = [booking[b] EXCEPT !.attempt = "FAILED",
                             !.pending = @ /\ booking[b].payment # "UNPAID"]

RowStep(b) ==
    \/ booking'[b] = booking[b]
    \/ \E t \in Workers : job[t].b = b /\ job'[t] = Idle /\ Written(t)
    \/ Charged(b)

-----------------------------------------------------------------------------
(* What a step does to a request, to a worker and to the clock *)

Requested(t) ==
    /\ job[t].op = "requestMove"
    /\ request'[job[t].r] =
           [NoRequest EXCEPT !.status = "PENDING", !.b = job[t].b,
                             !.from = booking[job[t].b].slot, !.to = job[t].s,
                             !.by = job[t].who]

Declined(r) ==
    /\ request[r].status = "PENDING"
    /\ \/ \E u \in Participants :
             request'[r] = [request[r] EXCEPT !.status = "REJECTED", !.reviewer = u,
                                              !.decidedAt = now]
       \/ request'[r] = [request[r] EXCEPT !.status = "WITHDRAWN", !.decidedAt = now]

RequestStep(r) ==
    \/ request'[r] = request[r]
    \/ \E t \in Workers : job[t].r = r /\ job'[t] = Idle /\ (Requested(t) \/ Approved(t))
    \/ Declined(r)

\* What a handler has checked when it takes up a request.
Vetted(j) ==
    /\ j.op \notin {"confirming", "approving"}
    /\ j.op = "cancel" => StartAt[j.s] >= now + Cutoff
    /\ j.op = "attend" => EndAt[j.s] <= now /\ booking[j.b].slot = j.s
    /\ j.op = "approve" => Decider(j.r, j.who) /\ request[j.r].b = j.b
    /\ j.op = "requestMove" => ~PendingRequest(j.b)

TakenUp(t) ==
    /\ UNCHANGED <<now, booking, request>>
    /\ Vetted(job'[t])
    /\ job'[t].at = now

\* A transaction that has got the lock it was waiting for.
GoneOn(t) ==
    /\ UNCHANGED <<now, booking, request>>
    /\ \/ /\ job[t].op = "confirm"
          /\ job'[t] = [job[t] EXCEPT !.op = "confirming"]
       \/ /\ job[t].op = "approve"
          /\ BeforeCutoff(job[t].b) /\ StartAt[job[t].s] > now
          /\ job'[t] = [job[t] EXCEPT !.op = "approving", !.at = now]

JobStep(t) ==
    \/ job'[t] = job[t]
    \/ job'[t] = Idle
    \/ TakenUp(t)
    \/ GoneOn(t)

\* Nobody is in the middle of a handler for longer than a tick.
ClockStep ==
    \/ now' = now
    \/ now' = now + 1 /\ \A t \in Workers : job[t] = Idle \/ job[t].at = now

Effects ==
    /\ \A b \in Bookings : RowStep(b)
    /\ \A r \in Requests : RequestStep(r)
    /\ \A t \in Workers : JobStep(t)
    /\ ClockStep

-----------------------------------------------------------------------------
(* The shapes of a step *)

LEMMA EffectsTakeUp ==
    ASSUME TypeInv, NEW t \in Workers, NEW j \in GoodJob, Begin(t, j), Vetted(j),
           UNCHANGED <<now, slot, booking, request>>
    PROVE  Effects
<1>1. /\ job'[t] = [j EXCEPT !.at = now]
      /\ \A u \in Workers : u # t => job'[u] = job[u]
    BY BeginEffect
<1>2. /\ job'[t].op = j.op /\ job'[t].b = j.b /\ job'[t].s = j.s /\ job'[t].r = j.r
      /\ job'[t].who = j.who /\ job'[t].at = now
    BY <1>1 DEF GoodJob, Job
<1>3. TakenUp(t)
    BY <1>2 DEF TakenUp, Vetted
<1>4. QED
    BY <1>1, <1>3 DEF Effects, RowStep, RequestStep, JobStep, ClockStep

LEMMA EffectsAnswer ==
    ASSUME TypeInv, NEW t \in Workers, Finish(t), UNCHANGED <<now, booking, request>>
    PROVE  Effects
BY FinishEffect DEF Effects, RowStep, RequestStep, JobStep, ClockStep

LEMMA EffectsWrite ==
    ASSUME TypeInv, NEW t \in Workers, Finish(t), UNCHANGED <<now, request>>, Written(t),
           \A c \in Bookings : c # job[t].b => booking'[c] = booking[c]
    PROVE  Effects
<1>1. \A u \in Workers : JobStep(u)
    BY FinishEffect DEF JobStep
<1>2. \A b \in Bookings : RowStep(b)
    BY FinishEffect DEF RowStep
<1>3. QED
    BY <1>1, <1>2 DEF Effects, RequestStep, ClockStep

-----------------------------------------------------------------------------
(* The handlers, one lemma for each group of Next *)

LEMMA EffectsAvailability == TypeInv /\ Availability => Effects
<1> SUFFICES ASSUME TypeInv, NEW t \in Workers,
                    \/ \E s \in Slots : PostRead(t, s) \/ DeleteRead(t, s)
                    \/ PostCommit(t)
                    \/ DeleteCommit(t)
             PROVE  Effects
    BY DEF Availability
<1>1. ASSUME NEW s \in Slots, PostRead(t, s) \/ DeleteRead(t, s)
      PROVE  Effects
    <2>1. PICK op \in {"post", "delete"} : Begin(t, [Idle EXCEPT !.op = op, !.s = s])
        BY <1>1 DEF PostRead, DeleteRead
    <2> DEFINE j == [Idle EXCEPT !.op = op, !.s = s]
    <2>2. j \in GoodJob /\ j.op = op
        BY DEF Idle, GoodJob, Job, Op
    <2>3. UNCHANGED <<now, slot, booking, request>>
        BY <1>1 DEF PostRead, DeleteRead
    <2> HIDE DEF j
    <2>4. Vetted(j)
        BY <2>2 DEF Vetted
    <2>5. QED
        BY <2>1, <2>2, <2>3, <2>4, EffectsTakeUp DEF j
<1>2. CASE PostCommit(t) \/ DeleteCommit(t)
    BY <1>2, EffectsAnswer DEF PostCommit, DeleteCommit
<1>3. QED
    BY <1>1, <1>2

LEMMA EffectsBookSlot == TypeInv /\ BookSlot => Effects
<1> SUFFICES ASSUME TypeInv, NEW t \in Workers,
                    \/ \E b \in Bookings, s \in Slots, u \in Students :
                           CreateLock(t, b, s, u)
                    \/ CreateCommit(t)
             PROVE  Effects
    BY DEF BookSlot
<1>1. ASSUME NEW b \in Bookings, NEW s \in Slots, NEW u \in Students,
             CreateLock(t, b, s, u)
      PROVE  Effects
    <2> DEFINE j == [Idle EXCEPT !.op = "create", !.b = b, !.s = s, !.who = u]
    <2>1. j \in GoodJob /\ j.op = "create"
        BY DEF Idle, GoodJob, Job, Op, Participants
    <2>2. Begin(t, j) /\ UNCHANGED <<now, slot, booking, request>>
        BY <1>1 DEF CreateLock
    <2> HIDE DEF j
    <2>3. QED
        BY <2>1, <2>2, EffectsTakeUp DEF Vetted
<1>2. CASE CreateCommit(t)
    <2>1. job[t].b \in Bookings
        BY <1>2 DEF CreateCommit, TypeInv, GoodJob
    <2>2. /\ Finish(t) /\ UNCHANGED <<now, request>>
          /\ \A c \in Bookings : c # job[t].b => booking'[c] = booking[c]
        BY <1>2, <2>1 DEF CreateCommit, TypeInv
    <2>3. Added(t)
        BY <1>2, <2>1 DEF CreateCommit, TypeInv, Added
    <2>4. QED
        BY <2>2, <2>3, EffectsWrite DEF Written
<1>3. QED
    BY <1>1, <1>2

LEMMA EffectsDecide == TypeInv /\ Decide => Effects
<1> SUFFICES ASSUME TypeInv, NEW t \in Workers,
                    \/ \E b \in Bookings, op \in {"confirm", "reject"} : DecideRead(t, b, op)
                    \/ ConfirmLock(t)
                    \/ ConfirmCommit(t)
                    \/ RejectCommit(t)
             PROVE  Effects
    BY DEF Decide
<1>1. ASSUME NEW b \in Bookings, NEW op \in {"confirm", "reject"}, DecideRead(t, b, op)
      PROVE  Effects
    <2> DEFINE j == [Idle EXCEPT !.op = op, !.b = b, !.who = booking[b].tutor]
    <2>1. booking[b].tutor \in Tutors
        BY <1>1 DEF DecideRead, TypeInv, GoodBooking
    <2>2. j \in GoodJob /\ j.op = op
        BY <2>1 DEF Idle, GoodJob, Job, Op, Participants
    <2>3. Begin(t, j) /\ UNCHANGED <<now, slot, booking, request>>
        BY <1>1 DEF DecideRead
    <2> HIDE DEF j
    <2>4. Vetted(j)
        BY <2>2 DEF Vetted
    <2>5. QED
        BY <2>2, <2>3, <2>4, EffectsTakeUp
<1>2. CASE ConfirmLock(t)
    <2>1. CASE Finish(t)
        BY <1>2, <2>1, EffectsAnswer DEF ConfirmLock
    <2>2. CASE job' = [job EXCEPT ![t].op = "confirming"]
        <3>1. /\ job'[t] = [job[t] EXCEPT !.op = "confirming"]
              /\ \A u \in Workers : u # t => job'[u] = job[u]
            BY <2>2 DEF TypeInv
        <3>2. UNCHANGED <<now, booking, request>> /\ job[t].op = "confirm"
            BY <1>2 DEF ConfirmLock
        <3>3. GoneOn(t)
            BY <3>1, <3>2 DEF GoneOn
        <3>4. QED
            BY <3>1, <3>2, <3>3 DEF Effects, RowStep, RequestStep, JobStep, ClockStep
    <2>3. QED
        BY <1>2, <2>1, <2>2 DEF ConfirmLock
<1>3. CASE ConfirmCommit(t) \/ RejectCommit(t)
    <2>1. job[t].b \in Bookings
        BY <1>3 DEF ConfirmCommit, RejectCommit, TypeInv, GoodJob
    <2>2. /\ Finish(t) /\ UNCHANGED <<now, request>>
          /\ \A c \in Bookings : c # job[t].b => booking'[c] = booking[c]
        BY <1>3, <2>1 DEF ConfirmCommit, RejectCommit, TypeInv
    <2>3. CASE ConfirmCommit(t)
        <3>1. Confirmed(t)
            BY <2>1, <2>3 DEF ConfirmCommit, TypeInv, Confirmed
        <3>2. QED
            BY <2>2, <3>1, EffectsWrite DEF Written
    <2>4. CASE RejectCommit(t)
        <3>1. Rejected(t) \/ UNCHANGED booking
            BY <2>1, <2>4 DEF RejectCommit, TypeInv, Rejected
        <3>2. QED
            BY <2>2, <3>1, EffectsWrite, EffectsAnswer DEF Written
    <2>5. QED
        BY <1>3, <2>3, <2>4
<1>4. QED
    BY <1>1, <1>2, <1>3

LEMMA EffectsCancel == TypeInv /\ Cancel => Effects
<1> SUFFICES ASSUME TypeInv, NEW t \in Workers,
                    \/ \E b \in Bookings, u \in Participants : CancelRead(t, b, u)
                    \/ CancelCommit(t)
             PROVE  Effects
    BY DEF Cancel
<1>1. ASSUME NEW b \in Bookings, NEW u \in Participants, CancelRead(t, b, u)
      PROVE  Effects
    <2> DEFINE j == [Idle EXCEPT !.op = "cancel", !.b = b, !.s = booking[b].slot,
                                 !.who = u]
    <2>1. booking[b].slot \in Slots
        BY <1>1 DEF CancelRead, Active, ActiveStatus, TypeInv, GoodBooking
    <2>2. j \in GoodJob /\ j.op = "cancel" /\ j.s = booking[b].slot
        BY <2>1 DEF Idle, GoodJob, Job, Op
    <2>3. /\ Begin(t, j) /\ UNCHANGED <<now, slot, booking, request>>
          /\ StartAt[booking[b].slot] >= now + Cutoff
        BY <1>1 DEF CancelRead
    <2> HIDE DEF j
    <2>4. Vetted(j)
        BY <2>2, <2>3 DEF Vetted
    <2>5. QED
        BY <2>2, <2>3, <2>4, EffectsTakeUp
<1>2. CASE CancelCommit(t)
    <2>1. job[t].b \in Bookings
        BY <1>2 DEF CancelCommit, TypeInv, GoodJob
    <2>2. /\ Finish(t) /\ UNCHANGED <<now, request>>
          /\ \A c \in Bookings : c # job[t].b => booking'[c] = booking[c]
        BY <1>2, <2>1 DEF CancelCommit, TypeInv
    <2>3. Canceled(t) \/ UNCHANGED booking
        BY <1>2, <2>1 DEF CancelCommit, TypeInv, Canceled
    <2>4. QED
        BY <2>2, <2>3, EffectsWrite, EffectsAnswer DEF Written
<1>3. QED
    BY <1>1, <1>2

LEMMA EffectsClassroom == TypeInv /\ Classroom => Effects
<1> SUFFICES ASSUME TypeInv, NEW t \in Workers,
                    \/ \E b \in Bookings : LinkRead(t, b) \/ AttendRead(t, b)
                    \/ LinkCommit(t)
                    \/ \E value \in {"ATTENDED", "ABSENT"} : AttendCommit(t, value)
             PROVE  Effects
    BY DEF Classroom
<1>1. ASSUME NEW b \in Bookings, LinkRead(t, b)
      PROVE  Effects
    <2> DEFINE j == [Idle EXCEPT !.op = "link", !.b = b]
    <2>1. j \in GoodJob /\ j.op = "link"
        BY DEF Idle, GoodJob, Job, Op
    <2>2. Begin(t, j) /\ UNCHANGED <<now, slot, booking, request>>
        BY <1>1 DEF LinkRead
    <2> HIDE DEF j
    <2>3. QED
        BY <2>1, <2>2, EffectsTakeUp DEF Vetted
<1>2. ASSUME NEW b \in Bookings, AttendRead(t, b)
      PROVE  Effects
    <2> DEFINE j == [Idle EXCEPT !.op = "attend", !.b = b, !.s = booking[b].slot]
    <2>1. booking[b].slot \in Slots
        BY <1>2 DEF AttendRead, TypeInv, GoodBooking
    <2>2. j \in GoodJob /\ j.op = "attend" /\ j.b = b /\ j.s = booking[b].slot
        BY <2>1 DEF Idle, GoodJob, Job, Op
    <2>3. /\ Begin(t, j) /\ UNCHANGED <<now, slot, booking, request>>
          /\ EndAt[booking[b].slot] <= now
        BY <1>2 DEF AttendRead
    <2> HIDE DEF j
    <2>4. Vetted(j)
        BY <2>2, <2>3 DEF Vetted
    <2>5. QED
        BY <2>2, <2>3, <2>4, EffectsTakeUp
<1>3. ASSUME LinkCommit(t) \/ \E value \in {"ATTENDED", "ABSENT"} : AttendCommit(t, value)
      PROVE  Effects
    <2>1. job[t].b \in Bookings
        BY <1>3 DEF LinkCommit, AttendCommit, TypeInv, GoodJob
    <2>2. /\ Finish(t) /\ UNCHANGED <<now, request>>
          /\ \A c \in Bookings : c # job[t].b => booking'[c] = booking[c]
        BY <1>3, <2>1 DEF LinkCommit, AttendCommit, TypeInv
    <2>3. Linked(t) \/ Attended(t) \/ UNCHANGED booking
        BY <1>3, <2>1 DEF LinkCommit, AttendCommit, TypeInv, Linked, Attended
    <2>4. QED
        BY <2>2, <2>3, EffectsWrite, EffectsAnswer DEF Written
<1>4. QED
    BY <1>1, <1>2, <1>3

LEMMA EffectsPay == TypeInv /\ Pay => Effects
<1>1. ASSUME TypeInv, NEW t \in Workers, NEW b \in Bookings, PayRead(t, b)
      PROVE  Effects
    <2> DEFINE j == [Idle EXCEPT !.op = "pay", !.b = b]
    <2>1. j \in GoodJob /\ j.op = "pay"
        BY DEF Idle, GoodJob, Job, Op
    <2>2. Begin(t, j) /\ UNCHANGED <<now, slot, booking, request>>
        BY <1>1 DEF PayRead
    <2> HIDE DEF j
    <2>3. QED
        BY <1>1, <2>1, <2>2, EffectsTakeUp DEF Vetted
<1>2. ASSUME TypeInv, NEW t \in Workers, PayClaim(t)
      PROVE  Effects
    <2>1. job[t].b \in Bookings
        BY <1>2 DEF PayClaim, TypeInv, GoodJob
    <2>2. /\ Finish(t) /\ UNCHANGED <<now, request>>
          /\ \A c \in Bookings : c # job[t].b => booking'[c] = booking[c]
        BY <1>2, <2>1 DEF PayClaim, TypeInv
    <2>3. ClaimMade(t) \/ UNCHANGED booking
        BY <1>2, <2>1 DEF PayClaim, TypeInv, ClaimMade
    <2>4. QED
        BY <1>2, <2>2, <2>3, EffectsWrite, EffectsAnswer DEF Written
<1>3. ASSUME TypeInv, NEW b \in Bookings,
             (\E result \in AttemptStatus : ApplyCharge(b, result)) \/ ChargeRejected(b)
      PROVE  Effects
    <2>1. /\ UNCHANGED <<now, request, job>>
          /\ \A c \in Bookings : c # b => booking'[c] = booking[c]
        BY <1>3 DEF ApplyCharge, ChargeRejected, TypeInv
    <2>2. Charged(b)
        <3>1. ASSUME NEW result \in AttemptStatus, ApplyCharge(b, result)
              PROVE  Charged(b)
            BY <1>3, <3>1 DEF ApplyCharge, Charged, TypeInv
        <3>2. ASSUME ChargeRejected(b)
              PROVE  Charged(b)
            BY <1>3, <3>2 DEF ChargeRejected, Charged, TypeInv
        <3>3. QED
            BY <1>3, <3>1, <3>2
    <2>3. QED
        BY <2>1, <2>2 DEF Effects, RowStep, RequestStep, JobStep, ClockStep
<1>4. QED
    BY <1>1, <1>2, <1>3 DEF Pay

LEMMA EffectsReschedule == TypeInv /\ Reschedule => Effects
<1>1. ASSUME TypeInv, NEW t \in Workers, NEW r \in Requests, NEW b \in Bookings,
             NEW s \in Slots, NEW u \in Participants, RequestLock(t, r, b, s, u)
      PROVE  Effects
    <2> DEFINE j == [Idle EXCEPT !.op = "requestMove", !.b = b, !.s = s, !.r = r,
                                 !.who = u]
    <2>1. j \in GoodJob /\ j.op = "requestMove" /\ j.b = b
        BY DEF Idle, GoodJob, Job, Op
    <2>2. /\ Begin(t, j) /\ UNCHANGED <<now, slot, booking, request>>
          /\ ~PendingRequest(b)
        BY <1>1 DEF RequestLock
    <2> HIDE DEF j
    <2>3. QED
        BY <1>1, <2>1, <2>2, EffectsTakeUp DEF Vetted
<1>2. ASSUME TypeInv, NEW t \in Workers, RequestCommit(t)
      PROVE  Effects
    <2>1. job[t].r \in Requests
        BY <1>2 DEF RequestCommit, TypeInv, GoodJob
    <2>2. /\ Finish(t) /\ UNCHANGED <<now, booking>>
          /\ \A r \in Requests : r # job[t].r => request'[r] = request[r]
        BY <1>2, <2>1 DEF RequestCommit, TypeInv
    <2>3. Requested(t)
        BY <1>2, <2>1 DEF RequestCommit, TypeInv, Requested
    <2>4. QED
        BY <1>2, <2>2, <2>3, FinishEffect
        DEF Effects, RowStep, RequestStep, JobStep, ClockStep
<1>3. ASSUME TypeInv, NEW t \in Workers, NEW r \in Requests, NEW u \in Participants,
             ApproveLock(t, r, u)
      PROVE  Effects
    <2> DEFINE j == [Idle EXCEPT !.op = "approve", !.b = request[r].b,
                                 !.s = request[r].to, !.r = r, !.who = u]
    <2>1. request[r].b \in Bookings /\ request[r].to \in Slots
        BY <1>3 DEF ApproveLock, TypeInv, GoodRequest
    <2>2. /\ j \in GoodJob /\ j.op = "approve" /\ j.b = request[r].b
          /\ j.r = r /\ j.who = u
        BY <2>1 DEF Idle, GoodJob, Job, Op
    <2>3. /\ Begin(t, j) /\ UNCHANGED <<now, slot, booking, request>>
          /\ Decider(r, u)
        BY <1>3 DEF ApproveLock
    <2> HIDE DEF j
    <2>4. Vetted(j)
        BY <2>2, <2>3 DEF Vetted
    <2>5. QED
        BY <1>3, <2>2, <2>3, <2>4, EffectsTakeUp
<1>4. ASSUME TypeInv, NEW t \in Workers, ApproveTarget(t)
      PROVE  Effects
    <2>1. CASE Finish(t)
        BY <1>4, <2>1, EffectsAnswer DEF ApproveTarget
    <2>2. CASE ~Finish(t)
        <3>1. /\ job' = [job EXCEPT ![t].op = "approving", ![t].at = now]
              /\ job[t].op = "approve"
              /\ BeforeCutoff(job[t].b) /\ GoodTarget(job[t].b, job[t].s)
              /\ UNCHANGED <<now, booking, request>>
            BY <1>4, <2>2 DEF ApproveTarget
        <3>2. /\ job'[t] = [job[t] EXCEPT !.op = "approving", !.at = now]
              /\ \A u \in Workers : u # t => job'[u] = job[u]
            BY <1>4, <3>1 DEF TypeInv
        <3>3. GoneOn(t)
            BY <3>1, <3>2 DEF GoneOn, GoodTarget
        <3>4. QED
            BY <3>1, <3>2, <3>3 DEF Effects, RowStep, RequestStep, JobStep, ClockStep
    <2>3. QED
        BY <2>1, <2>2
<1>5. ASSUME TypeInv, NEW t \in Workers, ApproveCommit(t)
      PROVE  Effects
    <2>1. CASE ~StillApprovable(t)
        BY <1>5, <2>1, EffectsAnswer DEF ApproveCommit
    <2>2. CASE StillApprovable(t)
        <3>1. job[t].r \in Requests /\ job[t].b \in Bookings
            BY <1>5 DEF ApproveCommit, TypeInv, GoodJob
        <3>2. /\ Finish(t) /\ UNCHANGED now
              /\ \A r \in Requests : r # job[t].r => request'[r] = request[r]
              /\ \A b \in Bookings : b # job[t].b => booking'[b] = booking[b]
            BY <1>5, <2>2, <3>1 DEF ApproveCommit, TypeInv
        <3>3. Approved(t)
            BY <1>5, <2>2, <3>1 DEF ApproveCommit, TypeInv, Approved
        <3>4. QED
            BY <1>5, <3>2, <3>3, FinishEffect
            DEF Effects, RowStep, RequestStep, JobStep, ClockStep, Written
    <2>3. QED
        BY <2>1, <2>2
<1>6. ASSUME TypeInv, NEW r \in Requests, NEW u \in Participants,
             RejectRequest(r, u) \/ WithdrawRequest(r, u)
      PROVE  Effects
    <2>1. /\ UNCHANGED <<now, booking, job>>
          /\ \A q \in Requests : q # r => request'[q] = request[q]
        BY <1>6 DEF RejectRequest, WithdrawRequest, TypeInv
    <2>2. Declined(r)
        BY <1>6 DEF RejectRequest, WithdrawRequest, Decider, Declined, TypeInv
    <2>3. QED
        BY <2>1, <2>2 DEF Effects, RowStep, RequestStep, JobStep, ClockStep
<1>7. QED
    BY <1>1, <1>2, <1>3, <1>4, <1>5, <1>6 DEF Reschedule

LEMMA StepEffects == TypeInv /\ [Next]_vars => Effects
<1>1. TypeInv /\ (Tick \/ UNCHANGED vars) => Effects
    BY DEF Tick, vars, Effects, RowStep, RequestStep, JobStep, ClockStep
<1>2. TypeInv /\ (\E t \in Workers : Abort(t)) => Effects
    BY EffectsAnswer DEF Abort
<1>3. QED
    BY <1>1, <1>2, EffectsAvailability, EffectsBookSlot, EffectsDecide, EffectsCancel,
       EffectsClassroom, EffectsPay, EffectsReschedule
    DEF Next

-----------------------------------------------------------------------------
(* What never changes once it is there *)

\* Participants are never exchanged, and only an approval moves a booking.
LEMMA RowKept ==
    ASSUME TypeInv, LockInv, Effects, NEW b \in Bookings, booking[b].status # "NONE"
    PROVE  /\ booking'[b].student = booking[b].student
           /\ booking'[b].tutor = booking[b].tutor
           /\ \/ booking'[b].slot = booking[b].slot
              \/ \E t \in Workers : job[t].b = b /\ job'[t] = Idle /\ Approved(t)
<1>1. booking[b] \in BookingRow /\ RowStep(b)
    BY DEF TypeInv, GoodBooking, Effects
<1>2. ASSUME NEW t \in Workers, job[t].b = b, job'[t] = Idle, Written(t)
      PROVE  /\ booking'[b].student = booking[b].student
             /\ booking'[b].tutor = booking[b].tutor
             /\ booking'[b].slot = booking[b].slot \/ Approved(t)
    <2>1. ~Added(t)
        BY <1>2 DEF Added, LockInv, NewBookingFresh
    <2>2. CASE Confirmed(t) \/ Rejected(t) \/ Canceled(t)
        BY <1>1, <1>2, <2>2 DEF Confirmed, Rejected, Canceled, BookingRow
    <2>3. CASE Linked(t) \/ Attended(t) \/ ClaimMade(t)
        BY <1>1, <1>2, <2>3 DEF Linked, Attended, ClaimMade, BookingRow
    <2>4. CASE Approved(t)
        BY <1>1, <1>2, <2>4 DEF Approved, BookingRow
    <2>5. QED
        BY <1>2, <2>1, <2>2, <2>3, <2>4 DEF Written
<1>3. ASSUME Charged(b)
      PROVE  /\ booking'[b].student = booking[b].student
             /\ booking'[b].tutor = booking[b].tutor
             /\ booking'[b].slot = booking[b].slot
    BY <1>1, <1>3 DEF Charged, BookingRow
<1>4. QED
    BY <1>1, <1>2, <1>3 DEF RowStep

\* A request keeps what it asks for and who asks.
LEMMA RequestKept ==
    ASSUME TypeInv, LockInv, Effects, NEW r \in Requests, request[r].status # "NONE"
    PROVE  /\ request'[r].b = request[r].b
           /\ request'[r].from = request[r].from
           /\ request'[r].to = request[r].to
           /\ request'[r].by = request[r].by
<1>1. request[r] \in RequestRow /\ RequestStep(r)
    BY DEF TypeInv, GoodRequest, Effects
<1>2. ASSUME NEW t \in Workers, job[t].r = r
      PROVE  ~Requested(t)
    BY <1>2 DEF Requested, LockInv, NewRequestFresh
<1>3. ASSUME NEW t \in Workers, job[t].r = r, Approved(t)
      PROVE  /\ request'[r].b = request[r].b
             /\ request'[r].from = request[r].from
             /\ request'[r].to = request[r].to
             /\ request'[r].by = request[r].by
    BY <1>1, <1>3 DEF Approved, RequestRow
<1>4. ASSUME Declined(r)
      PROVE  /\ request'[r].b = request[r].b
             /\ request'[r].from = request[r].from
             /\ request'[r].to = request[r].to
             /\ request'[r].by = request[r].by
    BY <1>1, <1>4 DEF Declined, RequestRow
<1>5. QED
    BY <1>1, <1>2, <1>3, <1>4 DEF RequestStep

\* A decision on a request is made once.
LEMMA DecisionKept ==
    ASSUME TypeInv, LockInv, Effects, NEW r \in Requests,
           request[r].status \notin {"NONE", "PENDING"}
    PROVE  request'[r] = request[r]
<1>1. RequestStep(r)
    BY DEF Effects
<1>2. ASSUME NEW t \in Workers, job[t].r = r
      PROVE  ~Requested(t) /\ ~Approved(t)
    BY <1>2 DEF Requested, Approved, StillApprovable, LockInv, NewRequestFresh
<1>3. QED
    BY <1>1, <1>2 DEF RequestStep, Declined

-----------------------------------------------------------------------------
(* The inductive invariant *)

\* The columns of a booking about payment, attendance and closing agree.
SoundRow(b) ==
    LET row == booking[b] IN
    /\ row.pending <=> row.attempt \in ActiveAttempt
    /\ row.pending => row.status = "CONFIRMED" /\ row.payment = "UNPAID"
    /\ row.payment = "PAID" => row.status \in {"CONFIRMED", "COMPLETED"}
    /\ row.attendance # "NONE" => row.status = "COMPLETED"
    /\ row.status = "COMPLETED" => row.payment = "PAID"
    /\ row.closedBy # "NONE" <=> row.status = "CANCELED"

RowsSound == \A b \in Bookings : SoundRow(b)

\* What a handler has read of the clock is at most one tick old.
RecentClock ==
    \A t \in Workers : job[t].op # "idle" => job[t].at <= now /\ now <= job[t].at + 1

\* A cancellation under way was in time for the slot it has read.
CancelInTime ==
    \A t \in Workers : job[t].op = "cancel" => StartAt[job[t].s] >= job[t].at + Cutoff

\* A recording of attendance under way has read the slot its booking still has:
\* a class that is over cannot be moved any more.
AttendAfterEnd ==
    \A t \in Workers : job[t].op = "attend" =>
        EndAt[job[t].s] <= job[t].at /\ booking[job[t].b].slot = job[t].s

\* An approval under way is by the participant who did not ask ...
ApprovedByOther ==
    \A t \in Workers : job[t].op \in {"approve", "approving"} =>
        job[t].who \in {booking[job[t].b].student, booking[job[t].b].tutor}
                       \ {request[job[t].r].by}

\* ... and, once it holds the target slot, in time for both classes.
ApprovalInTime ==
    \A t \in Workers : job[t].op = "approving" =>
        /\ StartAt[booking[job[t].b].slot] >= job[t].at + Cutoff
        /\ StartAt[job[t].s] > job[t].at

\* A booking for which a request is being inserted has no pending one.
NoOtherRequest ==
    \A t \in Workers : job[t].op = "requestMove" => ~PendingRequest(job[t].b)

\* None of the rules is inductive: a commit trusts what its handler checked in an
\* earlier step.
RulesInv ==
    /\ RowsSound
    /\ RecentClock
    /\ CancelInTime
    /\ AttendAfterEnd
    /\ ApprovedByOther
    /\ ApprovalInTime
    /\ NoOtherRequest
    /\ CompletedAfterClass
    /\ CancelRespectsCutoff
    /\ MoveRespectsCutoff
    /\ OnePendingRequest

LEMMA RulesInit == Init => RulesInv
<1> SUFFICES ASSUME Init PROVE RulesInv
    OBVIOUS
<1>1. /\ \A b \in Bookings : booking[b] = NoBooking
      /\ \A r \in Requests : request[r] = NoRequest
      /\ \A t \in Workers : job[t].op = "idle"
    BY DEF Init, StoreInit, Idle
<1>2. RowsSound
    BY <1>1 DEF RowsSound, SoundRow, NoBooking, ActiveAttempt
<1>3. CompletedAfterClass /\ CancelRespectsCutoff
    BY <1>1 DEF CompletedAfterClass, CancelRespectsCutoff, NoBooking
<1>4. MoveRespectsCutoff /\ OnePendingRequest
    BY <1>1 DEF MoveRespectsCutoff, OnePendingRequest, NoRequest
<1>5. QED
    BY <1>1, <1>2, <1>3, <1>4
    DEF RulesInv, RecentClock, CancelInTime, AttendAfterEnd, ApprovedByOther,
        ApprovalInTime, NoOtherRequest

LEMMA RowsSoundStep ==
    ASSUME TypeInv, LockInv, Effects, RowsSound
    PROVE  RowsSound'
<1> SUFFICES ASSUME NEW b \in Bookings PROVE SoundRow(b)'
    BY DEF RowsSound
<1>1. booking[b] \in BookingRow /\ RowStep(b) /\ SoundRow(b)
    BY DEF TypeInv, GoodBooking, Effects, RowsSound
<1>2. ASSUME NEW t \in Workers, job[t].b = b, Written(t)
      PROVE  SoundRow(b)'
    <2>1. CASE Added(t)
        BY <1>2, <2>1 DEF Added, NoBooking, SoundRow, ActiveAttempt
    <2>2. CASE Confirmed(t)
        <3>1. booking[b].status = "PENDING"
            BY <1>2, <2>2 DEF Confirmed, LockInv, ConfirmingPending
        <3>2. QED
            BY <1>1, <1>2, <2>2, <3>1 DEF Confirmed, SoundRow, BookingRow
    <2>3. CASE Rejected(t)
        BY <1>1, <1>2, <2>3 DEF Rejected, Undecided, SoundRow, BookingRow
    <2>4. CASE Canceled(t)
        BY <1>1, <1>2, <2>4 DEF Canceled, StillCancelable, ActiveStatus, SoundRow, BookingRow
    <2>5. CASE Linked(t)
        BY <1>1, <1>2, <2>5 DEF Linked, SoundRow, BookingRow
    <2>6. CASE Attended(t)
        BY <1>1, <1>2, <2>6 DEF Attended, Recordable, SoundRow, BookingRow
    <2>7. CASE ClaimMade(t)
        BY <1>1, <1>2, <2>7 DEF ClaimMade, Payable, SoundRow, BookingRow, ActiveAttempt
    <2>8. CASE Approved(t)
        BY <1>1, <1>2, <2>8 DEF Approved, SoundRow, BookingRow
    <2>9. QED
        BY <1>2, <2>1, <2>2, <2>3, <2>4, <2>5, <2>6, <2>7, <2>8 DEF Written
<1>3. CASE Charged(b)
    BY <1>1, <1>3 DEF Charged, Claimed, SoundRow, BookingRow, ActiveAttempt
<1>4. CASE booking'[b] = booking[b]
    BY <1>1, <1>4 DEF SoundRow
<1>5. QED
    BY <1>1, <1>2, <1>3, <1>4 DEF RowStep

LEMMA RecentClockStep ==
    ASSUME TypeInv, Effects, RecentClock
    PROVE  RecentClock'
<1> SUFFICES ASSUME NEW t \in Workers, job'[t].op # "idle"
             PROVE  job'[t].at <= now' /\ now' <= job'[t].at + 1
    BY DEF RecentClock
<1>1. JobStep(t) /\ ClockStep /\ now \in Nat /\ job[t] \in Job
    BY DEF Effects, TypeInv, GoodJob
<1>2. CASE job'[t] = job[t]
    BY <1>1, <1>2 DEF RecentClock, ClockStep, Idle, Job
<1>3. CASE TakenUp(t)
    BY <1>1, <1>3 DEF TakenUp
<1>4. CASE GoneOn(t)
    <2>1. now' = now /\ job[t].op \in {"confirm", "approve"}
        BY <1>4 DEF GoneOn
    <2>2. job'[t].at = job[t].at \/ job'[t].at = now
        BY <1>1, <1>4 DEF GoneOn, Job
    <2>3. job[t].at <= now /\ now <= job[t].at + 1
        BY <2>1 DEF RecentClock
    <2>4. QED
        BY <1>1, <2>1, <2>2, <2>3
<1>5. QED
    BY <1>1, <1>2, <1>3, <1>4 DEF JobStep, Idle

\* A worker that is not idle after a step has kept on, has been given a new
\* request, or has got a lock.
LEMMA JobOrigin ==
    ASSUME TypeInv, Effects, NEW t \in Workers, job'[t].op # "idle"
    PROVE  \/ job'[t] = job[t]
           \/ TakenUp(t) /\ job'[t].op \notin {"confirming", "approving"}
           \/ GoneOn(t) /\ job[t].op = "confirm" /\ job'[t].op = "confirming"
           \/ GoneOn(t) /\ job[t].op = "approve" /\ job'[t].op = "approving"
<1>1. JobStep(t) /\ job[t] \in Job
    BY DEF Effects, TypeInv, GoodJob
<1>2. CASE GoneOn(t)
    BY <1>1, <1>2 DEF GoneOn, Job
<1>3. QED
    BY <1>1, <1>2 DEF JobStep, Idle, TakenUp, Vetted

LEMMA CancelInTimeStep ==
    ASSUME TypeInv, Effects, CancelInTime
    PROVE  CancelInTime'
BY JobOrigin DEF CancelInTime, TakenUp, Vetted

\* The class of a booking that a worker is about to move has not started.
LEMMA NotStarted ==
    ASSUME TypeInv, LockInv, RecentClock, ApprovalInTime, NEW t \in Workers, Approved(t)
    PROVE  /\ booking[job[t].b].slot \in Slots
           /\ now < StartAt[booking[job[t].b].slot]
<1>1. /\ job[t] \in GoodJob /\ job[t].op = "approving" /\ now \in Nat
      /\ booking[job[t].b].status = "CONFIRMED"
    BY DEF Approved, StillApprovable, TypeInv
<1>2. job[t].b \in Bookings /\ job[t].at \in Nat
    BY <1>1 DEF GoodJob, Job
<1>3. booking[job[t].b].slot \in Slots
    BY <1>1, <1>2 DEF TypeInv, GoodBooking
<1>4. StartAt[booking[job[t].b].slot] >= job[t].at + Cutoff /\ now <= job[t].at + 1
    BY <1>1 DEF ApprovalInTime, RecentClock
<1>5. StartAt[booking[job[t].b].slot] \in Nat /\ Cutoff \in Nat /\ Cutoff >= 2
    BY <1>3, SlotAssumption, TimeAssumption
<1>6. QED
    BY <1>1, <1>2, <1>3, <1>4, <1>5

LEMMA AttendAfterEndStep ==
    ASSUME TypeInv, LockInv, Effects, RecentClock, ApprovalInTime, AttendAfterEnd
    PROVE  AttendAfterEnd'
<1> SUFFICES ASSUME NEW t \in Workers, job'[t].op = "attend"
             PROVE  /\ EndAt[job'[t].s] <= job'[t].at
                    /\ booking'[job'[t].b].slot = job'[t].s
    BY DEF AttendAfterEnd
<1>1. CASE TakenUp(t)
    BY <1>1 DEF TakenUp, Vetted
<1>2. CASE job'[t] = job[t]
    <2> DEFINE b == job[t].b
               s == job[t].s
    <2>1. /\ b \in Bookings /\ booking[b].status # "NONE" /\ s \in Slots
          /\ job[t].at \in Nat /\ now \in Nat
        BY <1>2 DEF TypeInv, GoodJob, Job, JobRows, OnBooking, Op
    <2>2. EndAt[s] <= job[t].at /\ booking[b].slot = s /\ job[t].at <= now
        BY <1>2 DEF AttendAfterEnd, RecentClock
    <2>3. StartAt[s] \in Nat /\ EndAt[s] \in Nat /\ StartAt[s] < EndAt[s]
        BY <2>1, SlotAssumption
    <2>4. ASSUME NEW u \in Workers, job[u].b = b, Approved(u)
          PROVE  FALSE
        <3>1. now < StartAt[s]
            BY <2>2, <2>4, NotStarted
        <3>2. QED
            BY <2>1, <2>2, <2>3, <3>1
    <2>5. booking'[b].slot = s
        BY <2>1, <2>2, <2>4, RowKept
    <2>6. QED
        BY <1>2, <2>2, <2>5
<1>3. QED
    BY <1>1, <1>2, JobOrigin

LEMMA ApprovedByOtherStep ==
    ASSUME TypeInv, LockInv, CalendarInv, Effects, ApprovedByOther
    PROVE  ApprovedByOther'
<1> SUFFICES ASSUME NEW t \in Workers, job'[t].op \in {"approve", "approving"}
             PROVE  job'[t].who \in {booking'[job'[t].b].student, booking'[job'[t].b].tutor}
                                    \ {request'[job'[t].r].by}
    BY DEF ApprovedByOther
<1>1. CASE TakenUp(t)
    <2>1. UNCHANGED <<booking, request>> /\ job'[t].op = "approve"
        BY <1>1, JobOrigin DEF TakenUp, Vetted
    <2>2. Decider(job'[t].r, job'[t].who) /\ request[job'[t].r].b = job'[t].b
        BY <1>1, <2>1 DEF TakenUp, Vetted
    <2>3. QED
        BY <2>1, <2>2 DEF Decider, Participant
<1>2. CASE ~TakenUp(t)
    <2>1. /\ job[t].op \in {"approve", "approving"} /\ job[t] \in Job
          /\ job'[t] = job[t] \/ GoneOn(t)
        BY <1>2, JobOrigin DEF TypeInv, GoodJob
    <2>2. /\ job'[t].b = job[t].b /\ job'[t].r = job[t].r /\ job'[t].who = job[t].who
        BY <2>1 DEF GoneOn, Job
    <2>3. /\ job[t].b \in Bookings /\ booking[job[t].b].status # "NONE"
          /\ job[t].r \in Requests /\ request[job[t].r].status # "NONE"
        BY <2>1 DEF TypeInv, GoodJob, JobRows, OnBooking, Op, CalendarInv, ApprovesRequest
    <2>4. /\ booking'[job[t].b].student = booking[job[t].b].student
          /\ booking'[job[t].b].tutor = booking[job[t].b].tutor
          /\ request'[job[t].r].by = request[job[t].r].by
        BY <2>3, RowKept, RequestKept
    <2>5. QED
        BY <2>1, <2>2, <2>4 DEF ApprovedByOther
<1>3. QED
    BY <1>1, <1>2

LEMMA ApprovalInTimeStep ==
    ASSUME TypeInv, LockInv, Effects, ApprovalInTime
    PROVE  ApprovalInTime'
<1> SUFFICES ASSUME NEW t \in Workers, job'[t].op = "approving"
             PROVE  /\ StartAt[booking'[job'[t].b].slot] >= job'[t].at + Cutoff
                    /\ StartAt[job'[t].s] > job'[t].at
    BY DEF ApprovalInTime
<1>1. job[t] \in Job
    BY DEF TypeInv, GoodJob
<1>2. CASE GoneOn(t)
    BY <1>1, <1>2 DEF GoneOn, BeforeCutoff, Job
<1>3. CASE job'[t] = job[t]
    <2>1. job[t].b \in Bookings /\ booking[job[t].b].status # "NONE"
        BY <1>3 DEF TypeInv, GoodJob, JobRows, OnBooking, Op
    <2>2. ASSUME NEW u \in Workers, job[u].b = job[t].b, job'[u] = Idle, Approved(u)
          PROVE  FALSE
        <3>1. LocksBooking(u, job[t].b) /\ LocksBooking(t, job[t].b)
            BY <1>3, <2>2 DEF Approved, LocksBooking
        <3>2. u = t
            BY <2>1, <3>1 DEF LockInv, BookingLockExclusive
        <3>3. QED
            BY <2>2, <3>2 DEF Idle
    <2>3. booking'[job[t].b].slot = booking[job[t].b].slot
        BY <2>1, <2>2, RowKept
    <2>4. QED
        BY <1>3, <2>3 DEF ApprovalInTime
<1>4. QED
    BY <1>2, <1>3, JobOrigin

LEMMA NoOtherRequestStep ==
    ASSUME TypeInv, LockInv, Effects, NoOtherRequest
    PROVE  NoOtherRequest'
<1> SUFFICES ASSUME NEW t \in Workers, job'[t].op = "requestMove",
                    NEW r \in Requests, request'[r].b = job'[t].b,
                    request'[r].status = "PENDING"
             PROVE  FALSE
    BY DEF NoOtherRequest, PendingRequest
<1>1. CASE TakenUp(t)
    BY <1>1 DEF TakenUp, Vetted, PendingRequest
<1>2. CASE job'[t] = job[t]
    <2>1. job[t].b \in Bookings /\ ~PendingRequest(job[t].b)
        BY <1>2 DEF TypeInv, GoodJob, NoOtherRequest
    <2>2. request[r] \in RequestRow /\ RequestStep(r)
        BY DEF TypeInv, GoodRequest, Effects
    <2>3. request'[r] # request[r]
        BY <1>2, <2>1 DEF PendingRequest
    <2>4. ASSUME NEW u \in Workers, job[u].r = r, job'[u] = Idle, Requested(u)
          PROVE  FALSE
        <3>1. request'[r].b = job[u].b
            BY <2>4 DEF Requested, NoRequest
        <3>2. LocksBooking(u, job[t].b) /\ LocksBooking(t, job[t].b)
            BY <1>2, <2>4, <3>1 DEF Requested, LocksBooking
        <3>3. u = t
            BY <2>1, <3>2 DEF LockInv, BookingLockExclusive
        <3>4. QED
            BY <2>4, <3>3 DEF Idle
    <2>5. ASSUME NEW u \in Workers, job[u].r = r, Approved(u)
          PROVE  FALSE
        BY <2>2, <2>5 DEF Approved, RequestRow
    <2>6. ~Declined(r)
        BY <2>2 DEF Declined, RequestRow
    <2>7. QED
        BY <2>2, <2>3, <2>4, <2>5, <2>6 DEF RequestStep
<1>3. QED
    BY <1>1, <1>2, JobOrigin

\* A request that is pending after a step was so before, or has been inserted.
LEMMA PendingOrigin ==
    ASSUME TypeInv, Effects, NEW r \in Requests, request'[r].status = "PENDING"
    PROVE  \/ request'[r] = request[r]
           \/ \E t \in Workers : /\ job[t].op = "requestMove"
                                 /\ job[t].r = r
                                 /\ request'[r].b = job[t].b
<1>1. request[r] \in RequestRow /\ RequestStep(r)
    BY DEF TypeInv, GoodRequest, Effects
<1>2. ASSUME NEW t \in Workers, job[t].r = r, Approved(t)
      PROVE  FALSE
    BY <1>1, <1>2 DEF Approved, RequestRow
<1>3. ~Declined(r)
    BY <1>1 DEF Declined, RequestRow
<1>4. ASSUME NEW t \in Workers, job[t].r = r, Requested(t)
      PROVE  job[t].op = "requestMove" /\ request'[r].b = job[t].b
    BY <1>4 DEF Requested, NoRequest
<1>5. QED
    BY <1>1, <1>2, <1>3, <1>4 DEF RequestStep

LEMMA OnePendingRequestStep ==
    ASSUME TypeInv, LockInv, Effects, NoOtherRequest, OnePendingRequest
    PROVE  OnePendingRequest'
<1> SUFFICES ASSUME NEW q \in Requests, NEW r \in Requests,
                    request'[q].status = "PENDING", request'[r].status = "PENDING",
                    request'[q].b = request'[r].b
             PROVE  q = r
    BY DEF OnePendingRequest
<1>1. ASSUME NEW x \in Requests, NEW y \in Requests, NEW t \in Workers,
             request'[x] = request[x], request'[x].status = "PENDING",
             job[t].op = "requestMove", request'[x].b = job[t].b
      PROVE  FALSE
    BY <1>1 DEF NoOtherRequest, PendingRequest
<1>2. ASSUME NEW t \in Workers, NEW u \in Workers,
             job[t].op = "requestMove", job[t].r = q, request'[q].b = job[t].b,
             job[u].op = "requestMove", job[u].r = r, request'[r].b = job[u].b
      PROVE  q = r
    <2>1. job[t].b \in Bookings
        BY <1>2 DEF TypeInv, GoodJob
    <2>2. LocksBooking(t, job[t].b) /\ LocksBooking(u, job[t].b)
        BY <1>2 DEF LocksBooking
    <2>3. t = u
        BY <2>1, <2>2 DEF LockInv, BookingLockExclusive
    <2>4. QED
        BY <1>2, <2>3
<1>3. CASE request'[q] = request[q] /\ request'[r] = request[r]
    BY <1>3 DEF OnePendingRequest
<1>4. QED
    BY <1>1, <1>2, <1>3, PendingOrigin

\* A completed row has just been completed, or keeps slot and time.
LEMMA CompletedOrigin ==
    ASSUME TypeInv, LockInv, RowsSound, Effects, NEW b \in Bookings,
           booking'[b].status = "COMPLETED"
    PROVE  \/ \E t \in Workers : job[t].b = b /\ Attended(t)
           \/ /\ booking[b].status = "COMPLETED"
              /\ booking'[b] = [booking[b] EXCEPT !.link = booking'[b].link]
<1>1. booking[b] \in BookingRow /\ RowStep(b) /\ SoundRow(b)
    BY DEF TypeInv, GoodBooking, Effects, RowsSound
<1>2. ASSUME NEW t \in Workers, job[t].b = b, Written(t), ~Attended(t)
      PROVE  /\ booking[b].status = "COMPLETED"
             /\ booking'[b] = [booking[b] EXCEPT !.link = booking'[b].link]
    <2>1. ~Added(t)
        BY <1>2 DEF Added, NoBooking
    <2>2. ~Confirmed(t) /\ ~Rejected(t) /\ ~Canceled(t)
        BY <1>1, <1>2 DEF Confirmed, Rejected, Canceled, BookingRow
    <2>3. ~ClaimMade(t) /\ ~Approved(t)
        BY <1>1, <1>2 DEF ClaimMade, Payable, Approved, StillApprovable, BookingRow
    <2>4. Linked(t)
        BY <1>2, <2>1, <2>2, <2>3 DEF Written
    <2>5. QED
        BY <1>1, <1>2, <2>4 DEF Linked, BookingRow
<1>3. ~Charged(b)
    BY <1>1 DEF Charged, Claimed, SoundRow, BookingRow, ActiveAttempt
<1>4. ASSUME booking'[b] = booking[b]
      PROVE  booking'[b] = [booking[b] EXCEPT !.link = booking'[b].link]
    BY <1>1, <1>4 DEF BookingRow
<1>5. QED
    BY <1>1, <1>2, <1>3, <1>4 DEF RowStep

\* A canceled row has just been canceled or is as it was.
LEMMA CanceledOrigin ==
    ASSUME TypeInv, LockInv, RowsSound, Effects, NEW b \in Bookings,
           booking'[b].status = "CANCELED" \/ booking[b].status = "CANCELED"
    PROVE  \/ booking'[b] = booking[b]
           \/ \E t \in Workers : job[t].b = b /\ (Rejected(t) \/ Canceled(t))
<1>1. booking[b] \in BookingRow /\ RowStep(b) /\ SoundRow(b)
    BY DEF TypeInv, GoodBooking, Effects, RowsSound
<1>2. ASSUME NEW t \in Workers, job[t].b = b, Written(t)
      PROVE  Rejected(t) \/ Canceled(t)
    <2>1. ~Added(t)
        BY <1>2 DEF Added, NoBooking, LockInv, NewBookingFresh
    <2>2. ~Confirmed(t)
        BY <1>1, <1>2 DEF Confirmed, BookingRow, LockInv, ConfirmingPending
    <2>3. ~Linked(t) /\ ~Attended(t)
        BY <1>1, <1>2 DEF Linked, LinkEditable, Attended, Recordable, BookingRow
    <2>4. ~ClaimMade(t) /\ ~Approved(t)
        BY <1>1, <1>2 DEF ClaimMade, Payable, Approved, StillApprovable, BookingRow
    <2>5. QED
        BY <1>2, <2>1, <2>2, <2>3, <2>4 DEF Written
<1>3. ~Charged(b)
    BY <1>1 DEF Charged, Claimed, SoundRow, BookingRow, ActiveAttempt
<1>4. QED
    BY <1>1, <1>2, <1>3 DEF RowStep

LEMMA CompletedAfterClassStep ==
    ASSUME TypeInv, LockInv, RowsSound, RowsSound', AttendAfterEnd, CompletedAfterClass,
           Effects
    PROVE  CompletedAfterClass'
<1> SUFFICES ASSUME NEW b \in Bookings, booking'[b].status = "COMPLETED"
             PROVE  /\ EndAt[booking'[b].slot] <= booking'[b].closedAt
                    /\ booking'[b].payment = "PAID"
    BY DEF CompletedAfterClass
<1>1. booking[b] \in BookingRow
    BY DEF TypeInv, GoodBooking
<1>2. booking'[b].payment = "PAID"
    BY DEF RowsSound, SoundRow
<1>3. ASSUME NEW t \in Workers, job[t].b = b, Attended(t)
      PROVE  EndAt[booking'[b].slot] <= booking'[b].closedAt
    <2>1. booking'[b].slot = booking[b].slot /\ booking'[b].closedAt = job[t].at
        BY <1>1, <1>3 DEF Attended, BookingRow
    <2>2. EndAt[booking[b].slot] <= job[t].at
        BY <1>3 DEF Attended, AttendAfterEnd
    <2>3. QED
        BY <2>1, <2>2
<1>4. ASSUME booking[b].status = "COMPLETED",
             booking'[b] = [booking[b] EXCEPT !.link = booking'[b].link]
      PROVE  EndAt[booking'[b].slot] <= booking'[b].closedAt
    <2>1. booking'[b].slot = booking[b].slot /\ booking'[b].closedAt = booking[b].closedAt
        BY <1>1, <1>4 DEF BookingRow
    <2>2. QED
        BY <1>4, <2>1 DEF CompletedAfterClass
<1>5. QED
    BY <1>2, <1>3, <1>4, CompletedOrigin

LEMMA CancelRespectsCutoffStep ==
    ASSUME TypeInv, LockInv, RowsSound, RowsSound', CancelInTime, CancelRespectsCutoff,
           Effects
    PROVE  CancelRespectsCutoff'
<1> SUFFICES ASSUME NEW b \in Bookings, booking'[b].closedBy = "CANCEL"
             PROVE  StartAt[booking'[b].slot] >= booking'[b].closedAt + Cutoff
    BY DEF CancelRespectsCutoff
<1>1. booking[b] \in BookingRow
    BY DEF TypeInv, GoodBooking
<1>2. booking'[b].status = "CANCELED"
    BY DEF RowsSound, SoundRow
<1>3. ASSUME NEW t \in Workers, job[t].b = b, Canceled(t)
      PROVE  StartAt[booking'[b].slot] >= booking'[b].closedAt + Cutoff
    <2>1. booking'[b].slot = job[t].s /\ booking'[b].closedAt = job[t].at
        BY <1>1, <1>3 DEF Canceled, StillCancelable, BookingRow
    <2>2. StartAt[job[t].s] >= job[t].at + Cutoff
        BY <1>3 DEF Canceled, CancelInTime
    <2>3. QED
        BY <2>1, <2>2
<1>4. ASSUME NEW t \in Workers, job[t].b = b
      PROVE  ~Rejected(t)
    BY <1>1, <1>4 DEF Rejected, BookingRow
<1>5. QED
    BY <1>2, <1>3, <1>4, CanceledOrigin DEF CancelRespectsCutoff

LEMMA MoveRespectsCutoffStep ==
    ASSUME TypeInv, LockInv, CalendarInv, ApprovalInTime, MoveRespectsCutoff, Effects
    PROVE  MoveRespectsCutoff'
<1> SUFFICES ASSUME NEW r \in Requests, request'[r].status = "APPROVED"
             PROVE  /\ StartAt[request'[r].from] >= request'[r].decidedAt + Cutoff
                    /\ StartAt[request'[r].to] > request'[r].decidedAt
    BY DEF MoveRespectsCutoff
<1>1. request[r] \in RequestRow /\ RequestStep(r)
    BY DEF TypeInv, GoodRequest, Effects
<1>2. ASSUME NEW t \in Workers, job[t].r = r, Approved(t)
      PROVE  /\ StartAt[request'[r].from] >= request'[r].decidedAt + Cutoff
             /\ StartAt[request'[r].to] > request'[r].decidedAt
    <2>1. /\ request'[r].from = request[r].from /\ request'[r].to = request[r].to
          /\ request'[r].decidedAt = job[t].at
        BY <1>1, <1>2 DEF Approved, RequestRow
    <2>2. request[r].from = booking[job[t].b].slot /\ request[r].to = job[t].s
        BY <1>2 DEF Approved, StillApprovable, CalendarInv, ApprovesRequest
    <2>3. /\ StartAt[booking[job[t].b].slot] >= job[t].at + Cutoff
          /\ StartAt[job[t].s] > job[t].at
        BY <1>2 DEF Approved, ApprovalInTime
    <2>4. QED
        BY <2>1, <2>2, <2>3
<1>3. ASSUME NEW t \in Workers, job[t].r = r
      PROVE  ~Requested(t)
    BY <1>3 DEF Requested, NoRequest
<1>4. ~Declined(r)
    BY <1>1 DEF Declined, RequestRow
<1>5. QED
    BY <1>1, <1>2, <1>3, <1>4 DEF RequestStep, MoveRespectsCutoff

LEMMA RulesStep ==
    TypeInv /\ LockInv /\ CalendarInv /\ RulesInv /\ [Next]_vars => RulesInv'
<1> SUFFICES ASSUME TypeInv, LockInv, CalendarInv, RulesInv, Effects
             PROVE  RulesInv'
    BY StepEffects
<1>1. RowsSound'
    BY RowsSoundStep DEF RulesInv
<1>2. RecentClock' /\ CancelInTime' /\ AttendAfterEnd'
    BY RecentClockStep, CancelInTimeStep, AttendAfterEndStep DEF RulesInv
<1>3. ApprovedByOther' /\ ApprovalInTime'
    BY ApprovedByOtherStep, ApprovalInTimeStep DEF RulesInv
<1>4. NoOtherRequest' /\ OnePendingRequest'
    BY NoOtherRequestStep, OnePendingRequestStep DEF RulesInv
<1>5. CompletedAfterClass' /\ CancelRespectsCutoff' /\ MoveRespectsCutoff'
    BY <1>1, CompletedAfterClassStep, CancelRespectsCutoffStep, MoveRespectsCutoffStep
    DEF RulesInv
<1>6. QED
    BY <1>1, <1>2, <1>3, <1>4, <1>5 DEF RulesInv

-----------------------------------------------------------------------------
(* What a step may never do *)

\* A completed row only gets another link.
LEMMA CompletedKept ==
    ASSUME TypeInv, LockInv, RowsSound, Effects, NEW b \in Bookings,
           booking[b].status = "COMPLETED"
    PROVE  booking'[b] = [booking[b] EXCEPT !.link = booking'[b].link]
<1>1. booking[b] \in BookingRow /\ RowStep(b) /\ SoundRow(b)
    BY DEF TypeInv, GoodBooking, Effects, RowsSound
<1>2. ASSUME NEW t \in Workers, job[t].b = b, Written(t)
      PROVE  Linked(t)
    <2>1. ~Added(t)
        BY <1>2 DEF Added, LockInv, NewBookingFresh
    <2>2. ~Confirmed(t) /\ ~Rejected(t)
        BY <1>2 DEF Confirmed, LockInv, ConfirmingPending, Rejected, Undecided
    <2>3. ~Canceled(t) /\ ~Attended(t)
        BY <1>2 DEF Canceled, StillCancelable, ActiveStatus, Attended, Recordable
    <2>4. ~ClaimMade(t) /\ ~Approved(t)
        BY <1>2 DEF ClaimMade, Payable, Approved, StillApprovable
    <2>5. QED
        BY <1>2, <2>1, <2>2, <2>3, <2>4 DEF Written
<1>3. ~Charged(b)
    BY <1>1 DEF Charged, SoundRow, ActiveAttempt
<1>4. ASSUME booking'[b] = booking[b]
      PROVE  booking'[b] = [booking[b] EXCEPT !.link = booking'[b].link]
    BY <1>1, <1>4 DEF BookingRow
<1>5. ASSUME NEW t \in Workers, job[t].b = b, Linked(t)
      PROVE  booking'[b] = [booking[b] EXCEPT !.link = booking'[b].link]
    BY <1>1, <1>5 DEF Linked, BookingRow
<1>6. QED
    BY <1>1, <1>2, <1>3, <1>4, <1>5 DEF RowStep

LEMMA PaidKept ==
    ASSUME TypeInv, LockInv, RowsSound, Effects, NEW b \in Bookings,
           booking[b].payment = "PAID"
    PROVE  booking'[b].payment = "PAID"
<1>1. booking[b] \in BookingRow /\ RowStep(b) /\ SoundRow(b)
    BY DEF TypeInv, GoodBooking, Effects, RowsSound
<1>2. ASSUME NEW t \in Workers, job[t].b = b, Written(t)
      PROVE  booking'[b].payment = "PAID"
    <2>1. ~Added(t)
        BY <1>1, <1>2 DEF Added, LockInv, NewBookingFresh, SoundRow
    <2>2. CASE Confirmed(t) \/ Rejected(t) \/ Canceled(t) \/ Linked(t)
        BY <1>1, <1>2, <2>2 DEF Confirmed, Rejected, Canceled, Linked, BookingRow
    <2>3. CASE Attended(t) \/ ClaimMade(t) \/ Approved(t)
        BY <1>1, <1>2, <2>3 DEF Attended, ClaimMade, Approved, BookingRow
    <2>4. QED
        BY <1>2, <2>1, <2>2, <2>3 DEF Written
<1>3. CASE Charged(b)
    BY <1>1, <1>3 DEF Charged, BookingRow
<1>4. QED
    BY <1>1, <1>2, <1>3 DEF RowStep

\* An approval is the consent to the move it makes.
LEMMA ApprovedMoves ==
    ASSUME TypeInv, CalendarInv, RulesInv, NEW t \in Workers, Approved(t)
    PROVE  Moved(job[t].b)
<1> DEFINE r == job[t].r
           b == job[t].b
<1>1. /\ job[t].op = "approving" /\ r \in Requests /\ b \in Bookings
      /\ request[r].status = "PENDING" /\ request[r].from = booking[b].slot
    BY DEF Approved, StillApprovable, TypeInv, GoodJob
<1>2. request[r].b = b
    BY <1>1 DEF CalendarInv, ApprovesRequest
<1>3. request[r] \in RequestRow /\ booking[b] \in BookingRow
    BY <1>1 DEF TypeInv, GoodRequest, GoodBooking
<1>4. /\ request'[r].status = "APPROVED" /\ request'[r].reviewer = job[t].who
      /\ booking'[b].slot = request[r].to
    BY <1>3 DEF Approved, RequestRow, BookingRow
<1>5. job[t].who \in {booking[b].student, booking[b].tutor} \ {request[r].by}
    BY <1>1 DEF RulesInv, ApprovedByOther
<1>6. QED
    BY <1>1, <1>2, <1>4, <1>5 DEF Moved

-----------------------------------------------------------------------------
(* The rules *)

\* What handlers checked before they waited for a lock still holds when they
\* write, or the write looks at it again.
THEOREM RulesInvariant == Spec => []RulesInv
<1>1. Init => RulesInv
    BY RulesInit
<1>2. TypeInv /\ LockInv /\ CalendarInv /\ RulesInv /\ [Next]_vars => RulesInv'
    BY RulesStep
<1>3. QED
    BY <1>1, <1>2, TypeInvariant, LockInvariant, CalendarInvariant, PTL DEF Spec

\* No handler writes a row that the CHECK constraints of Booking refuse.
THEOREM RowChecksNeverFail == Spec => []RowChecks
<1>1. RulesInv => RowChecks
    BY DEF RulesInv, RowsSound, SoundRow, RowChecks
<1>2. QED
    BY <1>1, RulesInvariant, PTL

\* Whatever a charge comes to, its booking is still waiting for it.
THEOREM ClaimsProtectCharges == Spec => []ClaimProtectsCharge
<1>1. RulesInv => ClaimProtectsCharge
    BY DEF RulesInv, RowsSound, SoundRow, ClaimProtectsCharge, Claimed
<1>2. QED
    BY <1>1, RulesInvariant, PTL

\* Attendance is recorded after the class, even if a move of the class and the
\* recording are under way at the same time.
THEOREM CompletedAfterItsClass == Spec => []CompletedAfterClass
<1>1. RulesInv => CompletedAfterClass
    BY DEF RulesInv
<1>2. QED
    BY <1>1, RulesInvariant, PTL

\* A cancellation is in time for the class it cancels.
THEOREM CancelsInTime == Spec => []CancelRespectsCutoff
<1>1. RulesInv => CancelRespectsCutoff
    BY DEF RulesInv
<1>2. QED
    BY <1>1, RulesInvariant, PTL

\* A move leaves its class in time, for one that has not started.
THEOREM MovesInTime == Spec => []MoveRespectsCutoff
<1>1. RulesInv => MoveRespectsCutoff
    BY DEF RulesInv
<1>2. QED
    BY <1>1, RulesInvariant, PTL

\* The booking lock keeps the second request for a booking out.
THEOREM OneRequestPends == Spec => []OnePendingRequest
<1>1. RulesInv => OnePendingRequest
    BY DEF RulesInv
<1>2. QED
    BY <1>1, RulesInvariant, PTL

\* No step closes a row again, reopens it or takes a payment back.
THEOREM ClosedStaysFinal == Spec => ClosedIsFinal
<1> DEFINE Final ==
        /\ \A b \in Bookings :
             /\ booking[b].status = "CANCELED" => booking'[b] = booking[b]
             /\ booking[b].status = "COMPLETED" =>
                  booking'[b] = [booking[b] EXCEPT !.link = booking'[b].link]
             /\ booking[b].payment = "PAID" => booking'[b].payment = "PAID"
        /\ \A r \in Requests :
             request[r].status \notin {"NONE", "PENDING"} => request'[r] = request[r]
<1>1. TypeInv /\ LockInv /\ RulesInv /\ [Next]_vars => Final
    <2> SUFFICES ASSUME TypeInv, LockInv, RowsSound, Effects
                 PROVE  Final
        BY StepEffects DEF RulesInv
    <2>1. ASSUME NEW b \in Bookings, booking[b].status = "CANCELED"
          PROVE  booking'[b] = booking[b]
        BY <2>1, CanceledOrigin
        DEF Rejected, Canceled, Undecided, StillCancelable, ActiveStatus
    <2>2. ASSUME NEW b \in Bookings, booking[b].status = "COMPLETED"
          PROVE  booking'[b] = [booking[b] EXCEPT !.link = booking'[b].link]
        BY <2>2, CompletedKept
    <2>3. ASSUME NEW b \in Bookings, booking[b].payment = "PAID"
          PROVE  booking'[b].payment = "PAID"
        BY <2>3, PaidKept
    <2>4. QED
        BY <2>1, <2>2, <2>3, DecisionKept
<1>2. Spec => [][Final]_vars
    BY <1>1, TypeInvariant, LockInvariant, RulesInvariant, PTL DEF Spec
<1>3. QED
    BY <1>2 DEF ClosedIsFinal

\* Nobody moves a booking without the consent of both sides.
THEOREM MovesNeedConsent == Spec => MoveNeedsConsent
<1> DEFINE Consented ==
        /\ \A b \in Bookings :
             booking[b].status # "NONE" /\ booking'[b].slot # booking[b].slot => Moved(b)
        /\ \A r \in Requests :
             request[r].status # "APPROVED" /\ request'[r].status = "APPROVED"
             => Moved(request[r].b)
<1>1. TypeInv /\ LockInv /\ CalendarInv /\ RulesInv /\ [Next]_vars => Consented
    <2> SUFFICES ASSUME TypeInv, LockInv, CalendarInv, RulesInv, Effects
                 PROVE  Consented
        BY StepEffects
    <2>1. ASSUME NEW b \in Bookings, booking[b].status # "NONE",
                 booking'[b].slot # booking[b].slot
          PROVE  Moved(b)
        <3>1. PICK t \in Workers : job[t].b = b /\ Approved(t)
            BY <2>1, RowKept
        <3>2. QED
            BY <3>1, ApprovedMoves
    <2>2. ASSUME NEW r \in Requests, request[r].status # "APPROVED",
                 request'[r].status = "APPROVED"
          PROVE  Moved(request[r].b)
        <3>1. request[r] \in RequestRow /\ RequestStep(r)
            BY DEF TypeInv, GoodRequest, Effects
        <3>2. ~Declined(r)
            BY <2>2, <3>1 DEF Declined, RequestRow
        <3>3. PICK t \in Workers : job[t].r = r /\ (Requested(t) \/ Approved(t))
            BY <2>2, <3>1, <3>2 DEF RequestStep
        <3>4. ~Requested(t)
            BY <2>2, <3>3 DEF Requested, NoRequest
        <3>5. request[r].b = job[t].b
            BY <3>3, <3>4 DEF Approved, CalendarInv, ApprovesRequest
        <3>6. QED
            BY <3>3, <3>4, <3>5, ApprovedMoves
    <2>3. QED
        BY <2>1, <2>2
<1>2. Spec => [][Consented]_vars
    BY <1>1, TypeInvariant, LockInvariant, CalendarInvariant, RulesInvariant, PTL DEF Spec
<1>3. QED
    BY <1>2 DEF MoveNeedsConsent
=============================================================================
