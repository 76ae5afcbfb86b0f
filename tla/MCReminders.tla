---------------------------- MODULE MCReminders -----------------------------
(* A small instance of Reminders: two of the classes start together. *)
EXTENDS Reminders, TLC

CONSTANTS s1, s2, s3, w1

Starts == (s1 :> 2) @@ (s2 :> 3) @@ (s3 :> 3)
Made == (1 :> s2) @@ (2 :> s3)
=============================================================================
