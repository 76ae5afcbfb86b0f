----------------------------- MODULE MCPayments -----------------------------
(* Small instances of Payments. *)
EXTENDS Payments, TLC

CONSTANTS b1, b2, a1, a2, a3, w1, w2, w3

Symmetry == Permutations({w1, w2, w3}) \cup Permutations({a1, a2, a3}) \cup Permutations({b1, b2})
=============================================================================
