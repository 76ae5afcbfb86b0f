--------------------------- MODULE PaymentClaims ----------------------------
(***************************************************************************)
(* PaymentsService as the other booking handlers see it: the claim that    *)
(* marks a booking as being paid, and the transactions that end the claim. *)
(* The provider is any source of charge results.                           *)
(***************************************************************************)
EXTENDS BookingStore

Payable(b) == /\ booking[b].status = "CONFIRMED"
              /\ booking[b].payment = "UNPAID"
              /\ ~booking[b].pending

\* create: the first read, outside the transaction.
PayRead(t, b) ==
    /\ Payable(b)
    /\ Begin(t, [Idle EXCEPT !.op = "pay", !.b = b])
    /\ UNCHANGED <<now, slot, booking, request>>

\* Mutation of PayClaim: the first read is trusted.
PayClaimUnchecked(t) ==
    /\ job[t].op = "pay"
    /\ BookingFree(job[t].b)
    /\ booking' = [booking EXCEPT ![job[t].b].pending = TRUE,
                                  ![job[t].b].attempt = "CREATING"]
    /\ Finish(t)
    /\ UNCHANGED <<now, slot, request>>

\* The claim: the conditional update and the new attempt commit together.  The
\* charge is posted after the commit.
PayClaim(t) ==
    LET b == job[t].b IN
    /\ job[t].op = "pay"
    /\ BookingFree(b)
    /\ booking' = IF Payable(b)
                  THEN [booking EXCEPT ![b].pending = TRUE, ![b].attempt = "CREATING"]
                  ELSE booking
    /\ Finish(t)
    /\ UNCHANGED <<now, slot, request>>

\* Where a terminal charge may be booked: the WHERE of applyCharge's update.
Claimed(b) == /\ booking[b].status = "CONFIRMED"
              /\ booking[b].payment = "UNPAID"
              /\ booking[b].pending

\* applyCharge, whoever learnt the result: a terminal one ends the claim.  An
\* update that matches no row rolls the attempt back too.
ApplyCharge(b, result) ==
    /\ BookingFree(b)
    /\ booking[b].attempt \in ActiveAttempt
    /\ \/ /\ result = "PENDING"
          /\ booking' = [booking EXCEPT ![b].attempt = result]
       \/ /\ result = "SUCCESSFUL"
          /\ Claimed(b)
          /\ booking' = [booking EXCEPT ![b].attempt = result, ![b].pending = FALSE,
                                        ![b].payment = "PAID"]
       \/ /\ result \in {"FAILED", "EXPIRED"}
          /\ Claimed(b)
          /\ booking' = [booking EXCEPT ![b].attempt = result, ![b].pending = FALSE]
    /\ UNCHANGED <<now, slot, request, job>>

\* The provider refused the charge: no charge exists and the claim is released.
ChargeRejected(b) ==
    /\ BookingFree(b)
    /\ booking[b].attempt = "CREATING"
    /\ booking' = [booking EXCEPT ![b].attempt = "FAILED",
                       ![b].pending = @ /\ booking[b].payment # "UNPAID"]
    /\ UNCHANGED <<now, slot, request, job>>
=============================================================================
