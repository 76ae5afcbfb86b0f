------------------------------ MODULE MCRecords -----------------------------
(* A small instance of TutorRecords: three documents of two types. *)
EXTENDS TutorRecords, TLC

CONSTANTS a1, a2, d1, d2, d3, b1, b2, w1, w2

Types == (d1 :> 1) @@ (d2 :> 1) @@ (d3 :> 2)

Symmetry == Permutations({w1, w2}) \cup Permutations({a1, a2})
            \cup Permutations({d1, d2}) \cup Permutations({b1, b2})
=============================================================================
