---- MODULE MCUnsubscribe ----
(* A bounded instance of Unsubscribe. *)
EXTENDS Unsubscribe
====
