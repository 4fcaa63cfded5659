----------------------------- MODULE MCDelivery -----------------------------
(***************************************************************************)
(* Small deliveries for TLC: one order, two API processes.                 *)
(***************************************************************************)
EXTENDS Delivery

CONSTANTS i1, i2, s1

=============================================================================
