---- MODULE MCDeletion ----
(* A bounded instance of Deletion. *)
EXTENDS Deletion
====
