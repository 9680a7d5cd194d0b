---------------------------- MODULE MCLaterReturn ----------------------------
(* Instances of LaterReturn for TLC.                                        *)
EXTENDS LaterReturn
==============================================================================
