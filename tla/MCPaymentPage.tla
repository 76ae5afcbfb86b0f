---------------------------- MODULE MCPaymentPage ----------------------------
(* A small instance of PaymentPage. *)
EXTENDS PaymentPage, TLC

CONSTANTS b1, a1, a2, w1, w2, c1, c2
=============================================================================
