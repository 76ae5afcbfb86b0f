--------------------------- MODULE MCBookingDesk ----------------------------
(* Small instances of BookingDesk. *)
EXTENDS BookingDesk, TLC

CONSTANTS st1, st2, tu1, tu2, b1, b2, w1, w2

\* One tutor and three slots: "early" and "late" are apart, "clash" overlaps
\* "late" and only one of the two can be open.
MCSlots == {"early", "late", "clash"}
MCTutor == [s \in MCSlots |-> tu1]
MCStart == [s \in MCSlots |-> CASE s = "early" -> 3 [] s = "late" -> 5 [] OTHER -> 4]
MCEnd == [s \in MCSlots |-> CASE s = "early" -> 4 [] s = "late" -> 6 [] OTHER -> 6]
MCPosted == {"early"}
MCPostedTwo == {"early", "late"}

\* A second tutor offers the slot that overlaps "late", so all can be open.
MCTutorOfTwo == [s \in MCSlots |-> IF s = "clash" THEN tu2 ELSE tu1]

Symmetry == Permutations({w1, w2}) \cup Permutations({b1, b2})
=============================================================================
