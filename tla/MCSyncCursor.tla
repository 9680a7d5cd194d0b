----------------------------- MODULE MCSyncCursor -----------------------------
(* Instances of SyncCursor for TLC.                                         *)
EXTENDS SyncCursor
===============================================================================
