-------------------------- MODULE PaymentContract ---------------------------
(***************************************************************************)
(* What the payment service promises a customer: money is captured only    *)
(* under a claim, at most once for a booking, and a claim ends only by     *)
(* recording the money or, when there is none, by giving the booking back. *)
(* A booking is closed without payment only when nobody claims it.         *)
(***************************************************************************)
CONSTANTS Bookings, Charges

VARIABLES
    deal,   \* OPEN, CLAIMED, PAID or CLOSED
    money   \* the charges captured for each booking

Move(b, from, to) == deal[b] = from /\ deal' = [deal EXCEPT ![b] = to] /\ money' = money

Claim(b) == Move(b, "OPEN", "CLAIMED")
Release(b) == money[b] = {} /\ Move(b, "CLAIMED", "OPEN")
Record(b) == money[b] # {} /\ Move(b, "CLAIMED", "PAID")
Close(b) == Move(b, "OPEN", "CLOSED")

Capture(b, c) ==
    /\ deal[b] = "CLAIMED"
    /\ money[b] = {}
    /\ money' = [money EXCEPT ![b] = {c}]
    /\ deal' = deal

Init == /\ deal = [b \in Bookings |-> "OPEN"]
        /\ money = [b \in Bookings |-> {}]

Next == \E b \in Bookings :
    \/ Claim(b)
    \/ Release(b)
    \/ Record(b)
    \/ Close(b)
    \/ \E c \in Charges : Capture(b, c)

Spec == Init /\ [][Next]_<<deal, money>>
=============================================================================
