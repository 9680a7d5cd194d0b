------------------------------- MODULE MCOutbox -------------------------------
(* Small instances of Outbox for TLC: two events of one unit, the others   *)
(* alone in theirs.                                                        *)
EXTENDS Outbox

CONSTANTS e1, e2, u1, u2

MCUnitOf == [e \in Events |-> IF e \in {e1, e2} THEN u1 ELSE u2]

===============================================================================
