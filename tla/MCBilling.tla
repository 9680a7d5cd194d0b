---- MODULE MCBilling ----
(* A bounded instance of Billing. *)
EXTENDS Billing
====
