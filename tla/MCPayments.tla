------------------------------ MODULE MCPayments ------------------------------
(***************************************************************************)
(* Payments with one order: concurrent deliveries compete for one order,   *)
(* and Payments_proofs covers any number of orders.                        *)
(***************************************************************************)
EXTENDS Payments
=============================================================================
