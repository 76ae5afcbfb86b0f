---------------------------- MODULE BookingStore ----------------------------
(***************************************************************************)
(* The PostgreSQL tables the booking handlers share, and the concurrency   *)
(* rules they rely on (READ COMMITTED, row locks held until commit).       *)
(*                                                                         *)
(* A request is served by a worker.  What a worker has read but not yet    *)
(* written, and the row locks its open transaction holds, are in job[t];   *)
(* the other variables are the committed rows.  A handler is split where   *)
(* another transaction can come in between: after a read that takes no     *)
(* lock and after a lock it has to wait for.  Statements between the last  *)
(* wait and the commit are one step.                                       *)
(*                                                                         *)
(* Constraints of the schema that a handler can run into (the exclusion    *)
(* constraint on slots, the trigger on deletion) are guards of the step.   *)
(* The others (unique indexes, CHECKs, the slot trigger of a booking) are  *)
(* stated as invariants in BookingDesk: no handler ever reaches them.      *)
(***************************************************************************)
EXTENDS Naturals

CONSTANTS
    Students, Tutors,
    Slots,          \* identities of availability slots
    Bookings,       \* identities of booking rows
    Requests,       \* identities of reschedule requests
    Workers,        \* requests the API serves at the same time
    SlotTutor,      \* the tutor who offers a slot
    StartAt, EndAt, \* startAtUtc and endAtUtc of a slot
    PostedAtStart,  \* slots that are published in the initial state
    Cutoff,         \* the 24 hours before a class, in ticks
    MaxTime,        \* bound of the clock
    Nil             \* NULL

Participants == Students \cup Tutors

Overlap(s, t) == StartAt[s] < EndAt[t] /\ StartAt[t] < EndAt[s]

\* No two of these slots belong to one tutor and overlap.
Disjoint(set) ==
    \A s, t \in set : s # t /\ SlotTutor[s] = SlotTutor[t] => ~Overlap(s, t)

ASSUME NilAssumption ==
    Nil \notin Participants \cup Slots \cup Bookings \cup Requests
ASSUME RoleAssumption == Students \cap Tutors = {}
ASSUME SlotAssumption ==
    /\ SlotTutor \in [Slots -> Tutors]
    /\ StartAt \in [Slots -> Nat]
    /\ EndAt \in [Slots -> Nat]
    /\ \A s \in Slots : StartAt[s] < EndAt[s]
    /\ PostedAtStart \subseteq Slots
    /\ Disjoint(PostedAtStart)
ASSUME TimeAssumption == Cutoff \in Nat /\ Cutoff >= 2 /\ MaxTime \in Nat

VARIABLES
    now,      \* the clock the handlers read with new Date()
    slot,     \* AvailabilitySlot rows
    booking,  \* Booking rows, with the status of their latest PaymentAttempt
    request,  \* RescheduleRequest rows
    job       \* what each worker is in the middle of

vars == <<now, slot, booking, request, job>>

-----------------------------------------------------------------------------
(* Rows *)

SlotState == {"ABSENT", "LIVE", "DELETED"}

\* EXPIRED is in the enum of the schema but no code writes it.
BookingStatus == {"NONE", "PENDING", "CONFIRMED", "COMPLETED", "CANCELED"}
ActiveStatus == {"PENDING", "CONFIRMED"}
AttemptStatus == {"NONE", "CREATING", "PENDING", "SUCCESSFUL", "FAILED", "EXPIRED"}
ActiveAttempt == {"CREATING", "PENDING"}
RequestStatus == {"NONE", "PENDING", "APPROVED", "REJECTED", "WITHDRAWN"}

BookingRow ==
    [status : BookingStatus, slot : Slots \cup {Nil},
     student : Students \cup {Nil}, tutor : Tutors \cup {Nil},
     payment : {"UNPAID", "PAID"}, pending : BOOLEAN, attempt : AttemptStatus,
     link : BOOLEAN,                             \* meetingUrl is set
     attendance : {"NONE", "ATTENDED", "ABSENT"},
     closedAt : Nat,                             \* canceledAt or attendanceMarkedAt
     closedBy : {"NONE", "REJECT", "CANCEL"}]    \* event written with CANCELED

NoBooking ==
    [status |-> "NONE", slot |-> Nil, student |-> Nil, tutor |-> Nil,
     payment |-> "UNPAID", pending |-> FALSE, attempt |-> "NONE", link |-> FALSE,
     attendance |-> "NONE", closedAt |-> 0, closedBy |-> "NONE"]

RequestRow ==
    [status : RequestStatus, b : Bookings \cup {Nil},
     from : Slots \cup {Nil}, to : Slots \cup {Nil},
     by : Participants \cup {Nil}, reviewer : Participants \cup {Nil},
     decidedAt : Nat]

NoRequest ==
    [status |-> "NONE", b |-> Nil, from |-> Nil, to |-> Nil,
     by |-> Nil, reviewer |-> Nil, decidedAt |-> 0]

Active(b) == booking[b].status \in ActiveStatus
Holds(b, s) == Active(b) /\ booking[b].slot = s
Reserved(s) == \E b \in Bookings : Holds(b, s)
Participant(b, u) == u \in {booking[b].student, booking[b].tutor}

-----------------------------------------------------------------------------
(* Workers and row locks *)

Op == {"idle", "post", "delete", "create", "confirm", "confirming", "reject",
       "cancel", "attend", "link", "requestMove", "approve", "approving", "pay"}

Job ==
    [op : Op, b : Bookings \cup {Nil}, s : Slots \cup {Nil},
     r : Requests \cup {Nil}, who : Participants \cup {Nil}, at : Nat]

Idle == [op |-> "idle", b |-> Nil, s |-> Nil, r |-> Nil, who |-> Nil, at |-> 0]

\* Transactions that keep a Booking row locked between their steps: the UPDATE
\* of a confirmation while its trigger waits for the slot, and SELECT FOR UPDATE.
LocksBooking(t, b) ==
    job[t].b = b /\ job[t].op \in {"confirming", "requestMove", "approve", "approving"}

\* Transactions that keep an AvailabilitySlot row locked FOR UPDATE.
LocksSlot(t, s) == job[t].s = s /\ job[t].op \in {"create", "approving"}

BookingFree(b) == \A t \in Workers : ~LocksBooking(t, b)
SlotFree(s) == \A t \in Workers : ~LocksSlot(t, s)

\* Ids no row has and no worker has drawn: ids are random UUIDs, the bound is
\* the size of Bookings and of Requests.
FreshBooking(b) == booking[b].status = "NONE" /\ \A t \in Workers : job[t].b # b
FreshRequest(r) == request[r].status = "NONE" /\ \A t \in Workers : job[t].r # r

\* A request is taken up by an idle worker, at this time.
Begin(t, j) == job[t] = Idle /\ job' = [job EXCEPT ![t] = [j EXCEPT !.at = now]]

\* Commit, rollback or an answer without a write: the locks are released.
Finish(t) == job' = [job EXCEPT ![t] = Idle]

\* The transaction is rolled back: the process died, the connection was lost
\* or Prisma's transaction timeout passed.
Abort(t) ==
    /\ job[t] # Idle
    /\ Finish(t)
    /\ UNCHANGED <<now, slot, booking, request>>

\* A tick is half the cutoff or less, hours, while a transaction is rolled back
\* after seconds: a request sees at most one tick go by.
Tick ==
    /\ now < MaxTime
    /\ \A t \in Workers : job[t] = Idle \/ job[t].at = now
    /\ now' = now + 1
    /\ UNCHANGED <<slot, booking, request, job>>

StoreInit ==
    /\ now = 0
    /\ slot = [s \in Slots |-> IF s \in PostedAtStart THEN "LIVE" ELSE "ABSENT"]
    /\ booking = [b \in Bookings |-> NoBooking]
    /\ request = [r \in Requests |-> NoRequest]
    /\ job = [t \in Workers |-> Idle]

TypeOK ==
    /\ now \in Nat
    /\ slot \in [Slots -> SlotState]
    /\ booking \in [Bookings -> BookingRow]
    /\ request \in [Requests -> RequestRow]
    /\ job \in [Workers -> Job]
=============================================================================
