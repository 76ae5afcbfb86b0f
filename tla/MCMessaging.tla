----------------------------- MODULE MCMessaging ----------------------------
(* A small instance of Messaging: a page holds fewer messages than come. *)
EXTENDS Messaging

CONSTANTS m1, m2, p1
=============================================================================
