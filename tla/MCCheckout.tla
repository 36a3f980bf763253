---------------------------- MODULE MCCheckout ----------------------------
(* Two requests with one key: a retry that overlaps the first.             *)
EXTENDS Checkout
CONSTANTS k1, q1, q2
=============================================================================
