---------------------------- MODULE SlotCalendar ----------------------------
(***************************************************************************)
(* What the booking desk promises about time: tutors open slots that do    *)
(* not overlap, a booking holds at most one open slot, no slot is held     *)
(* twice, and a booking leaves its slot only for nothing or for a free     *)
(* one.  Each operation is one indivisible step.                           *)
(***************************************************************************)
CONSTANTS Slots, Bookings, SlotTutor, StartAt, EndAt, PostedAtStart, Nil

LOCAL INSTANCE Naturals

VARIABLES
    open,   \* slots that are published
    held    \* the slot each booking holds, or Nil

Free(s) == s \in open /\ \A b \in Bookings : held[b] # s

Collides(s, x) == /\ SlotTutor[s] = SlotTutor[x]
                  /\ StartAt[s] < EndAt[x]
                  /\ StartAt[x] < EndAt[s]

Init == open = PostedAtStart /\ held = [b \in Bookings |-> Nil]

Publish(s) ==
    /\ s \notin open
    /\ \A x \in open : ~Collides(s, x)
    /\ open' = open \cup {s}
    /\ held' = held

Withdraw(s) ==
    /\ Free(s)
    /\ open' = open \ {s}
    /\ held' = held

\* Reserve a free slot, or exchange the one held for it.
Take(b, s) ==
    /\ Free(s)
    /\ held' = [held EXCEPT ![b] = s]
    /\ open' = open

Release(b) ==
    /\ held[b] # Nil
    /\ held' = [held EXCEPT ![b] = Nil]
    /\ open' = open

Next ==
    \/ \E s \in Slots : Publish(s) \/ Withdraw(s)
    \/ \E b \in Bookings, s \in Slots : Take(b, s)
    \/ \E b \in Bookings : Release(b)

Spec == Init /\ [][Next]_<<open, held>>
=============================================================================
