------------------------------ MODULE Payments ------------------------------
(***************************************************************************)
(* PaymentsService and the PromptPay provider.  A payment claims the       *)
(* booking in one transaction, posts the charge outside of any, and books  *)
(* the result in another; status reads and webhooks look the charge up and *)
(* book its result too.  Requests to the provider and its answers may be   *)
(* lost or late, and the process may stop between any two steps.           *)
(*                                                                         *)
(* Amounts and currencies are left out: they never change once a booking   *)
(* exists.  Of the other handlers of a booking, cancellation and           *)
(* attendance are here as the conditional updates they commit.             *)
(***************************************************************************)
CONSTANTS Bookings, Attempts, Workers, Nil

ASSUME PaymentNilAssumption == Nil \notin Bookings \cup Attempts

VARIABLES
    booking,   \* Booking rows
    attempt,   \* PaymentAttempt rows
    charge,    \* what the provider knows of the charge of an attempt
    wire,      \* attempts whose charge request is on its way to the provider
    job        \* what each worker is in the middle of

vars == <<booking, attempt, charge, wire, job>>

ActiveStatus == {"CREATING", "PENDING"}
Outcome == {"SUCCESSFUL", "FAILED", "EXPIRED"}
AttemptStatus == {"NONE"} \cup ActiveStatus \cup Outcome
ChargeStatus == {"PENDING"} \cup Outcome

BookingRow == [status : {"CONFIRMED", "CANCELED", "COMPLETED"},
               paid : BOOLEAN, pending : BOOLEAN]
AttemptRow == [status : AttemptStatus, b : Bookings \cup {Nil}]
NoAttempt == [status |-> "NONE", b |-> Nil]

\* chargeId is known once an attempt is no longer CREATING.  result is the
\* status in a charge that was received and not yet applied.
Job == [op : {"idle", "claim", "post", "wait", "rejected", "lookup", "apply"},
        b : Bookings \cup {Nil}, a : Attempts \cup {Nil},
        result : {"NONE"} \cup ChargeStatus]
Idle == [op |-> "idle", b |-> Nil, a |-> Nil, result |-> "NONE"]

TypeOK ==
    /\ booking \in [Bookings -> BookingRow]
    /\ attempt \in [Attempts -> AttemptRow]
    /\ \A a \in Attempts : attempt[a].b = Nil <=> attempt[a].status = "NONE"
    /\ charge \in [Attempts -> {"NONE"} \cup ChargeStatus]
    /\ wire \subseteq Attempts
    /\ job \in [Workers -> Job]

Init ==
    /\ booking = [b \in Bookings |-> [status |-> "CONFIRMED", paid |-> FALSE, pending |-> FALSE]]
    /\ attempt = [a \in Attempts |-> NoAttempt]
    /\ charge = [a \in Attempts |-> "NONE"]
    /\ wire = {}
    /\ job = [t \in Workers |-> Idle]

Begin(t, j) == job[t] = Idle /\ job' = [job EXCEPT ![t] = j]
Finish(t) == job' = [job EXCEPT ![t] = Idle]

Active(a) == attempt[a].status \in ActiveStatus

-----------------------------------------------------------------------------
(* create *)

Payable(b) == /\ booking[b].status = "CONFIRMED"
              /\ ~booking[b].paid
              /\ ~booking[b].pending

\* The first read; the id of the attempt is drawn before the claim.
PayRead(t, b, a) ==
    /\ Payable(b)
    /\ attempt[a].status = "NONE"
    /\ \A u \in Workers : job[u].a # a
    /\ Begin(t, [Idle EXCEPT !.op = "claim", !.b = b, !.a = a])
    /\ UNCHANGED <<booking, attempt, charge, wire>>

\* Mutation of Claim: the first read is trusted.
ClaimUnchecked(t) ==
    LET j == job[t] IN
    /\ j.op = "claim"
    /\ booking' = [booking EXCEPT ![j.b].pending = TRUE]
    /\ attempt' = [attempt EXCEPT ![j.a] = [status |-> "CREATING", b |-> j.b]]
    /\ job' = [job EXCEPT ![t].op = "post"]
    /\ UNCHANGED <<charge, wire>>

\* The conditional update of the booking and the new attempt, one transaction.
Claim(t) ==
    LET j == job[t] IN
    /\ j.op = "claim"
    /\ IF Payable(j.b)
       THEN /\ booking' = [booking EXCEPT ![j.b].pending = TRUE]
            /\ attempt' = [attempt EXCEPT ![j.a] = [status |-> "CREATING", b |-> j.b]]
            /\ job' = [job EXCEPT ![t].op = "post"]
       ELSE Finish(t) /\ UNCHANGED <<booking, attempt>>
    /\ UNCHANGED <<charge, wire>>

\* createCharge: the only POST there ever is for this attempt.
Post(t) ==
    /\ job[t].op = "post"
    /\ wire' = wire \cup {job[t].a}
    /\ job' = [job EXCEPT ![t].op = "wait"]
    /\ UNCHANGED <<booking, attempt, charge>>

\* Mutation of Rejected: no answer is taken for a rejection.
RejectedOrLost(t) ==
    LET a == job[t].a IN
    /\ job[t].op \in {"wait", "rejected"}
    /\ IF attempt[a].status = "CREATING"
       THEN /\ attempt' = [attempt EXCEPT ![a].status = "FAILED"]
            /\ booking' = [booking EXCEPT ![job[t].b].pending = FALSE]
       ELSE UNCHANGED <<attempt, booking>>
    /\ Finish(t)
    /\ UNCHANGED <<charge, wire>>

\* A definitive rejection: the attempt fails and the claim is released.
Rejected(t) ==
    LET a == job[t].a
        b == job[t].b IN
    /\ job[t].op = "rejected"
    /\ IF attempt[a].status = "CREATING"
       THEN /\ attempt' = [attempt EXCEPT ![a].status = "FAILED"]
            /\ booking' = IF booking[b].paid THEN booking
                          ELSE [booking EXCEPT ![b].pending = FALSE]
       ELSE UNCHANGED <<attempt, booking>>
    /\ Finish(t)
    /\ UNCHANGED <<charge, wire>>

-----------------------------------------------------------------------------
(* getStatus and webhook *)

\* getStatus of an active attempt.  The code takes the latest attempt of the
\* booking; no attempt is made while one is active, so an active one is the latest.
StatusRead(t, a) ==
    /\ Active(a)
    /\ Begin(t, [Idle EXCEPT !.op = "lookup", !.b = attempt[a].b, !.a = a])
    /\ UNCHANGED <<booking, attempt, charge, wire>>

\* An event about a charge routes to its attempt, whatever became of it.  Events
\* may be lost, repeated and late.
Webhook(t, a) ==
    /\ charge[a] # "NONE"
    /\ Begin(t, [Idle EXCEPT !.op = "lookup", !.b = attempt[a].b, !.a = a])
    /\ UNCHANGED <<booking, attempt, charge, wire>>

\* Mutation of Lookup: a charge that is not found is taken for a failed one.
LookupAbsent(t) ==
    /\ job[t].op = "lookup"
    /\ job' = [job EXCEPT ![t].op = "apply",
                          ![t].result = IF charge[job[t].a] = "NONE" THEN "FAILED"
                                        ELSE charge[job[t].a]]
    /\ UNCHANGED <<booking, attempt, charge, wire>>

\* Mutation of Lookup: the answer is not checked for a missing charge.
LookupBlind(t) ==
    /\ job[t].op = "lookup"
    /\ job' = [job EXCEPT ![t].op = "apply", ![t].result = charge[job[t].a]]
    /\ UNCHANGED <<booking, attempt, charge, wire>>

\* retrieveCharge by id, or findCharge by the attempt in the metadata: a charge
\* that is not there is no result.  findCharge is skipped for the first 15
\* seconds, which only makes it rarer.
Lookup(t) ==
    LET found == charge[job[t].a] IN
    /\ job[t].op = "lookup"
    /\ IF found = "NONE"
       THEN Finish(t)
       ELSE job' = [job EXCEPT ![t].op = "apply", ![t].result = found]
    /\ UNCHANGED <<booking, attempt, charge, wire>>

-----------------------------------------------------------------------------
(* applyCharge *)

Claimed(b) == /\ booking[b].status = "CONFIRMED"
              /\ ~booking[b].paid
              /\ booking[b].pending

\* Mutation of Apply: an attempt that has a result takes another one.
ApplyAgain(t) ==
    LET j == job[t]
        b == attempt[j.a].b IN
    /\ j.op = "apply"
    /\ attempt' = [attempt EXCEPT ![j.a].status = j.result]
    /\ booking' = IF j.result = "PENDING" THEN booking
                  ELSE [booking EXCEPT ![b].pending = FALSE,
                                       ![b].paid = @ \/ j.result = "SUCCESSFUL"]
    /\ Finish(t)
    /\ UNCHANGED <<charge, wire>>

\* One transaction under the lock of the booking.  An attempt that has its
\* result keeps it; a result whose booking is not claimed rolls back.
Apply(t) ==
    LET j == job[t]
        b == attempt[j.a].b IN
    /\ j.op = "apply"
    /\ IF Active(j.a) /\ (j.result = "PENDING" \/ Claimed(b))
       THEN /\ attempt' = [attempt EXCEPT ![j.a].status = j.result]
            /\ booking' = IF j.result = "PENDING" THEN booking
                          ELSE [booking EXCEPT ![b].pending = FALSE,
                                               ![b].paid = (j.result = "SUCCESSFUL")]
       ELSE UNCHANGED <<attempt, booking>>
    /\ Finish(t)
    /\ UNCHANGED <<charge, wire>>

\* The process stops, a transaction is rolled back, or the provider cannot be
\* reached or does not answer in 12 seconds: nothing is written.
Abort(t) ==
    /\ job[t].op # "idle"
    /\ Finish(t)
    /\ UNCHANGED <<booking, attempt, charge, wire>>

-----------------------------------------------------------------------------
(* The provider and the network *)

\* An answer reaches the worker that waits for it, or is lost.
Answer(a, op, result) ==
    \/ job' = job
    \/ \E t \in Workers :
        /\ job[t].op = "wait" /\ job[t].a = a
        /\ job' = [job EXCEPT ![t].op = op, ![t].result = result]

\* The charge is created, and may have failed at once.
Accept(a, status) ==
    /\ a \in wire
    /\ wire' = wire \ {a}
    /\ charge' = [charge EXCEPT ![a] = status]
    /\ Answer(a, "apply", status)
    /\ UNCHANGED <<booking, attempt>>

\* A 4xx status: there is no charge.
Refuse(a) ==
    /\ a \in wire
    /\ wire' = wire \ {a}
    /\ Answer(a, "rejected", "NONE")
    /\ UNCHANGED <<booking, attempt, charge>>

LoseRequest(a) ==
    /\ a \in wire
    /\ wire' = wire \ {a}
    /\ UNCHANGED <<booking, attempt, charge, job>>

\* The customer pays, the payment fails, or the QR code expires.
Settle(a, outcome) ==
    /\ charge[a] = "PENDING"
    /\ charge' = [charge EXCEPT ![a] = outcome]
    /\ UNCHANGED <<booking, attempt, wire, job>>

-----------------------------------------------------------------------------
(* Other handlers of the booking: the update each of them commits *)

\* Mutation of Cancel: a claim does not prevent it.
CancelClaimed(b) ==
    /\ booking[b].status = "CONFIRMED"
    /\ ~booking[b].paid
    /\ booking' = [booking EXCEPT ![b].status = "CANCELED", ![b].pending = FALSE]
    /\ UNCHANGED <<attempt, charge, wire, job>>

Cancel(b) ==
    /\ Payable(b)
    /\ booking' = [booking EXCEPT ![b].status = "CANCELED"]
    /\ UNCHANGED <<attempt, charge, wire, job>>

Complete(b) ==
    /\ booking[b].status = "CONFIRMED"
    /\ booking[b].paid
    /\ ~booking[b].pending
    /\ booking' = [booking EXCEPT ![b].status = "COMPLETED"]
    /\ UNCHANGED <<attempt, charge, wire, job>>

-----------------------------------------------------------------------------

Continue(t) == Claim(t) \/ Post(t) \/ Rejected(t) \/ Lookup(t) \/ Apply(t)

Provider(a) ==
    \/ \E status \in {"PENDING", "FAILED"} : Accept(a, status)
    \/ Refuse(a)
    \/ LoseRequest(a)
    \/ \E outcome \in Outcome : Settle(a, outcome)

Next ==
    \/ \E t \in Workers :
        \/ \E b \in Bookings, a \in Attempts : PayRead(t, b, a)
        \/ \E a \in Attempts : StatusRead(t, a) \/ Webhook(t, a)
        \/ Continue(t)
        \/ Abort(t)
    \/ \E a \in Attempts : Provider(a)
    \/ \E b \in Bookings : Cancel(b) \/ Complete(b)

Spec == Init /\ [][Next]_vars

-----------------------------------------------------------------------------
(* Properties *)

\* Nobody pays twice for a class, whatever is lost or late: of all charges made
\* for a booking at most one succeeds.
NeverChargedTwice ==
    \A a, c \in Attempts :
        /\ charge[a] = "SUCCESSFUL" /\ charge[c] = "SUCCESSFUL"
        /\ attempt[a].b = attempt[c].b
        => a = c

\* Money is never taken for nothing: a successful charge is recorded in its
\* booking, or its attempt is open and the booking still claimed for it.
MoneyHasABooking ==
    \A a \in Attempts :
        charge[a] = "SUCCESSFUL" =>
            IF Active(a) THEN Claimed(attempt[a].b)
            ELSE attempt[a].status = "SUCCESSFUL" /\ booking[attempt[a].b].paid

\* The attempts of a booking whose status is one of these.
Of(b, set) == {a \in Attempts : attempt[a].b = b /\ attempt[a].status \in set}

\* A booking is claimed exactly while one of its attempts is open, and paid
\* exactly when one has succeeded; the unique indexes on open and on successful
\* attempts and the CHECK on paymentPending are never what decides.
OneAttemptCounts ==
    \A b \in Bookings :
        /\ \A a, c \in Of(b, ActiveStatus \cup {"SUCCESSFUL"}) : a = c
        /\ booking[b].pending <=> Of(b, ActiveStatus) # {}
        /\ booking[b].paid <=> Of(b, {"SUCCESSFUL"}) # {}
        /\ booking[b].pending => booking[b].status = "CONFIRMED"

\* Repeated, late or stale answers never change a result, and never take an
\* attempt back to CREATING.
ResultsAreFinal ==
    [][\A a \in Attempts :
         /\ attempt[a].status \in Outcome => attempt'[a] = attempt[a]
         /\ attempt[a].status = "PENDING" => attempt'[a].status # "CREATING"]_vars

\* How the payment of a booking stands, and the money taken for it.
Deal(b) ==
    CASE booking[b].paid -> "PAID"
      [] booking[b].pending /\ ~booking[b].paid -> "CLAIMED"
      [] Payable(b) -> "OPEN"
      [] OTHER -> "CLOSED"

Money(b) == {a \in Attempts : attempt[a].b = b /\ charge[a] = "SUCCESSFUL"}

\* The promise of the payment service: a claim, then at most one capture of
\* money, recorded in the end, or none and the claim given back.
Contract ==
    INSTANCE PaymentContract WITH
        Charges <- Attempts,
        deal <- [b \in Bookings |-> Deal(b)],
        money <- [b \in Bookings |-> Money(b)]

\* Each step of the service, the provider and the network is a step of the
\* contract or none.
ImplementsContract == Contract!Spec
=============================================================================
