----------------------------- MODULE MCSessions -----------------------------
(* A small instance of AuthSessions. *)
EXTENDS AuthSessions, TLC

CONSTANTS v1, v2, r1, w1, w2, c1

Symmetry == Permutations({w1, w2}) \cup Permutations({v1, v2})
=============================================================================
