------------------------------ MODULE Reminders -----------------------------
(***************************************************************************)
(* The reminder job: every minute each API process scans the confirmed     *)
(* bookings of the next day, page by page, and writes the class and        *)
(* payment reminders that are missing, while bookings are confirmed, paid, *)
(* moved and canceled.                                                     *)
(*                                                                         *)
(* Time is a number; what is an hour and a day of it is a constant.  A     *)
(* booking is its number in the order of the ids.  The handlers that       *)
(* change bookings lock the row, as the job does; their own guards are in  *)
(* BookingHandlers and RescheduleRequests and are left out here, so the    *)
(* bookings change in more ways than they can.                             *)
(***************************************************************************)
EXTENDS Naturals, FiniteSets

CONSTANTS
    Bookings,    \* their ids, numbers
    Slots,
    Start,       \* when each slot starts
    FirstSlot,   \* the slot each booking was made for
    Hour, Day,   \* the two windows
    PageSize,    \* bookings on a page of the scan
    Workers,     \* API processes
    MaxTime,     \* bound: the clock
    MaxEvents    \* bound: cancellations, moves, failures and closed accounts

ASSUME RemindersAssumption ==
    /\ Bookings \subseteq Nat \ {0}
    /\ Start \in [Slots -> Nat]
    /\ FirstSlot \in [Bookings -> Slots]
    /\ Hour \in Nat /\ Day \in Nat /\ Hour < Day
    /\ PageSize \in Nat \ {0}
    /\ MaxTime \in Nat /\ MaxEvents \in Nat

VARIABLES
    now,
    booking,   \* Booking rows, with the slot
    active,    \* the participants whose accounts are active
    sent,      \* the reminders stored, by their unique key
    run,       \* the run of each process
    events

vars == <<now, booking, active, sent, run, events>>

Users == {"STUDENT", "TUTOR"}
Bands == {"24H", "1H"}
Kinds == {"CLASS", "PAYMENT"}

\* userId and eventKey of a reminder.
Note == [b : Bookings, slot : Slots, band : Bands, kind : Kinds, to : Users]
Row == [status : {"PENDING", "CONFIRMED", "CLOSED"}, paid : BOOLEAN, slot : Slots]

\* A scanned row: where it is in the scan, and what is planned from it.
Scanned == [b : Bookings, at : Nat, plan : SUBSET Note]

Cursor == ({0} \cup {Start[s] : s \in Slots}) \X ({0} \cup Bookings)

\* cursor is the position of the last row of a page; steady is history: the
\* bookings that did not change since the run began.
Run == [step : {"idle", "scan", "keys", "rows"}, now : Nat,
        page : SUBSET Scanned, full : BOOLEAN, cursor : Cursor,
        stored : SUBSET Note, failed : BOOLEAN, steady : SUBSET Bookings]
NoRun == [step |-> "idle", now |-> 0, page |-> {}, full |-> FALSE, cursor |-> <<0, 0>>,
          stored |-> {}, failed |-> FALSE, steady |-> {}]

TypeOK ==
    /\ now \in Nat
    /\ booking \in [Bookings -> Row]
    /\ active \subseteq Users
    /\ sent \subseteq Note
    /\ run \in [Workers -> Run]
    /\ events \in Nat

Init ==
    /\ now = 0
    /\ booking = [b \in Bookings |->
           [status |-> "PENDING", paid |-> FALSE, slot |-> FirstSlot[b]]]
    /\ active = Users
    /\ sent = {}
    /\ run = [w \in Workers |-> NoRun]
    /\ events = 0

-----------------------------------------------------------------------------
(* The policy *)

Within(slot, at, window) == at < Start[slot] /\ Start[slot] <= at + window

\* selectReminderBand: one band, also for a late first run.
InBand(slot, at, band) ==
    IF band = "1H" THEN Within(slot, at, Hour)
    ELSE Within(slot, at, Day) /\ ~Within(slot, at, Hour)

\* planReminders: the class for both, the payment for a student who has not paid.
Plan(b, at) ==
    LET row == booking[b] IN
    IF row.status # "CONFIRMED" THEN {}
    ELSE [b : {b}, slot : {row.slot}, band : {band \in Bands : InBand(row.slot, at, band)},
          to : active, kind : IF row.paid THEN {"CLASS"} ELSE Kinds]
         \ [b : {b}, slot : {row.slot}, band : Bands, to : {"TUTOR"}, kind : {"PAYMENT"}]

Event == events < MaxEvents /\ events' = events + 1

-----------------------------------------------------------------------------
(* What happens to the bookings and the clock *)

Change(b, row) ==
    /\ booking' = [booking EXCEPT ![b] = row]
    /\ run' = [w \in Workers |-> [run[w] EXCEPT !.steady = @ \ {b}]]
    /\ UNCHANGED <<now, active, sent>>

Confirm(b) ==
    /\ booking[b].status = "PENDING"
    /\ Change(b, [booking[b] EXCEPT !.status = "CONFIRMED"])
    /\ UNCHANGED events

\* A rejection, a cancellation or the end of the class.
Close(b) ==
    /\ booking[b].status # "CLOSED"
    /\ Change(b, [booking[b] EXCEPT !.status = "CLOSED"])
    /\ Event

Pay(b) ==
    /\ booking[b].status = "CONFIRMED" /\ ~booking[b].paid
    /\ Change(b, [booking[b] EXCEPT !.paid = TRUE])
    /\ UNCHANGED events

\* An approved reschedule request.
Move(b, slot) ==
    /\ booking[b].status = "CONFIRMED" /\ now < Start[slot]
    /\ \A c \in Bookings : booking[c].status # "CLOSED" => booking[c].slot # slot
    /\ Change(b, [booking[b] EXCEPT !.slot = slot])
    /\ Event

Deactivate(u) ==
    /\ u \in active /\ Event
    /\ active' = active \ {u}
    /\ UNCHANGED <<now, booking, sent, run>>

Advance ==
    /\ now < MaxTime
    /\ now' = now + 1
    /\ UNCHANGED <<booking, active, sent, run, events>>

-----------------------------------------------------------------------------
(* The job *)

\* One run at a time in a process.  The run keeps the time it began at.
Tick(w) ==
    /\ run[w].step = "idle"
    /\ run' = [run EXCEPT ![w] = [NoRun EXCEPT !.step = "scan", !.now = now, !.steady = Bookings]]
    /\ UNCHANGED <<now, booking, active, sent, events>>

\* Mutation of After: by the start alone.
AfterStart(b, cursor) == Start[booking[b].slot] > cursor[1]

\* The scan is ordered by (startAtUtc, id).
After(b, cursor) ==
    \/ Start[booking[b].slot] > cursor[1]
    \/ Start[booking[b].slot] = cursor[1] /\ b > cursor[2]

Ahead(b, c) ==
    \/ Start[booking[b].slot] < Start[booking[c].slot]
    \/ Start[booking[b].slot] = Start[booking[c].slot] /\ b < c

Matches(b, at) == booking[b].status = "CONFIRMED" /\ Within(booking[b].slot, at, Day)

\* The first rows, as many as fit on a page.
Page(page, rest) ==
    /\ \A b \in page, c \in rest \ page : Ahead(b, c)
    /\ Cardinality(page) = PageSize \/ (Cardinality(page) < PageSize /\ page = rest)

Snapshot(b, at) == [b |-> b, at |-> Start[booking[b].slot], plan |-> Plan(b, at)]

\* scanPage, and the cursor for the next page.
Scan(w) ==
    /\ run[w].step = "scan"
    /\ LET rest == {b \in Bookings : Matches(b, run[w].now) /\ After(b, run[w].cursor)}
       IN  \E page \in SUBSET rest, cursor \in Cursor :
           /\ Page(page, rest)
           /\ IF page = {} THEN cursor = run[w].cursor
              ELSE \E b \in page : /\ cursor = <<Start[booking[b].slot], b>>
                                   /\ \A c \in page : c = b \/ Ahead(c, b)
           /\ run' = [run EXCEPT ![w].step = "keys", ![w].cursor = cursor,
                                 ![w].page = {Snapshot(b, run[w].now) : b \in page},
                                 ![w].full = Cardinality(page) = PageSize]
    /\ UNCHANGED <<now, booking, active, sent, events>>

\* storedReminderKeys, of the bookings on the page.
Keys(w) ==
    /\ run[w].step = "keys"
    /\ run' = [run EXCEPT ![w].step = "rows",
                          ![w].stored = {n \in sent : \E r \in run[w].page : r.b = n.b}]
    /\ UNCHANGED <<now, booking, active, sent, events>>

\* r is the next row of the page.
NextRow(w, r) ==
    /\ run[w].step = "rows" /\ r \in run[w].page
    /\ \A q \in run[w].page : r.at < q.at \/ (r.at = q.at /\ r.b <= q.b)

Drop(w, r, failed) ==
    run' = [run EXCEPT ![w].page = @ \ {r}, ![w].failed = @ \/ failed]

\* All that was planned from the scan is stored: no lock is taken.
Skip(w, r) ==
    /\ NextRow(w, r) /\ r.plan \subseteq run[w].stored
    /\ Drop(w, r, FALSE)
    /\ UNCHANGED <<now, booking, active, sent, events>>

\* Mutation of Remind: what was planned from the scan is written.
RemindStale(w, r) ==
    /\ NextRow(w, r) /\ ~(r.plan \subseteq run[w].stored)
    /\ sent' = sent \cup r.plan
    /\ Drop(w, r, FALSE)
    /\ UNCHANGED <<now, booking, active, events>>

\* The transaction locks the booking and plans again from what it reads then.
Remind(w, r) ==
    /\ NextRow(w, r) /\ ~(r.plan \subseteq run[w].stored)
    /\ sent' = sent \cup Plan(r.b, run[w].now)
    /\ Drop(w, r, FALSE)
    /\ UNCHANGED <<now, booking, active, events>>

\* It fails, or its commit is not acknowledged: the booking is skipped.
RemindFailed(w, r) ==
    /\ NextRow(w, r) /\ ~(r.plan \subseteq run[w].stored)
    /\ Event
    /\ sent' \in {sent, sent \cup Plan(r.b, run[w].now)}
    /\ Drop(w, r, TRUE)
    /\ UNCHANGED <<now, booking, active>>

\* A page that was full may be followed by another; else the run is over.
PageEnd(w) ==
    /\ run[w].step = "rows" /\ run[w].page = {}
    /\ run' = [run EXCEPT ![w] = IF run[w].full THEN [@ EXCEPT !.step = "scan", !.stored = {}]
                                 ELSE NoRun]
    /\ UNCHANGED <<now, booking, active, sent, events>>

\* Mutation of Abort: the job still counts as running.
AbortHeld(w) ==
    /\ run[w].step # "idle" /\ Event
    /\ run' = [run EXCEPT ![w] = [NoRun EXCEPT !.step = "failed"]]
    /\ UNCHANGED <<now, booking, active, sent>>

\* A scan fails, or the process stops: the next tick begins again.
Abort(w) ==
    /\ run[w].step # "idle" /\ Event
    /\ run' = [run EXCEPT ![w] = NoRun]
    /\ UNCHANGED <<now, booking, active, sent>>

-----------------------------------------------------------------------------
Job(w) ==
    \/ Tick(w) \/ Scan(w) \/ Keys(w) \/ PageEnd(w)
    \/ \E r \in run[w].page : Skip(w, r) \/ Remind(w, r)

Next ==
    \/ \E w \in Workers : \/ Tick(w) \/ Scan(w) \/ Keys(w) \/ PageEnd(w) \/ Abort(w)
                          \/ \E r \in run[w].page : Skip(w, r) \/ Remind(w, r) \/ RemindFailed(w, r)
    \/ \E b \in Bookings : \/ Confirm(b) \/ Close(b) \/ Pay(b)
                           \/ \E slot \in Slots : Move(b, slot)
    \/ \E u \in Users : Deactivate(u)
    \/ Advance

Spec == Init /\ [][Next]_vars

\* Cron ticks again and again, and a run goes on until it ends.
FairSpec == Spec /\ \A w \in Workers : WF_vars(Job(w))

-----------------------------------------------------------------------------
(* Properties *)

\* What is stored is true of the booking at that moment: confirmed, at that
\* time, and not paid if it asks for the payment - although it was planned from
\* an earlier scan (remindBooking).
TrueWhenWritten ==
    [][\A n \in sent' \ sent : \E w \in Workers : n \in Plan(n.b, run[w].now)]_vars

Ending(w) == run[w].step = "rows" /\ run[w].page = {} /\ ~run[w].full

\* A run that ends without a failure leaves nothing out: every booking that
\* did not change meanwhile has its reminders, however the pages moved under
\* the scan (runOnce; reminder-job.service.ts:134).
RunCoversSteady ==
    \A w \in Workers : Ending(w) /\ ~run[w].failed =>
        \A b \in run[w].steady : Plan(b, run[w].now) \subseteq sent

\* What a failure left out is written by a later tick, as long as the booking
\* stays and its class has not begun ("retrying next tick").
RemindersCome ==
    []<>(\A b \in Bookings : Plan(b, now) \subseteq sent)
=============================================================================
