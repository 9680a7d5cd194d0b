---- MODULE MCEmailSend ----
(* A bounded instance of EmailSend. *)
EXTENDS EmailSend
====
