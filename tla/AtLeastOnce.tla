----------------------------- MODULE AtLeastOnce -----------------------------
(***************************************************************************)
(* The contract between the outbox and its consumers, apart from ticks,    *)
(* batches, locks and deadlines: a published event is settled once and for *)
(* good, as dispatched after its consumer has returned, or as failed for   *)
(* one of the two causes there are, and the observer hears of each failed  *)
(* event once at most.  Several events may settle in one step.             *)
(***************************************************************************)
EXTENDS Naturals

CONSTANT Events

VARIABLES
  status,  \* of each event: "absent", "pending", "dispatched" or "failed"
  heard,   \* the events a consumer call of which has returned
  causes,  \* the events there is a cause to give up
  told     \* how often the observer was told of each

vars == <<status, heard, causes, told>>

Init ==
  /\ status = [e \in Events |-> "absent"]
  /\ heard = {} /\ causes = {}
  /\ told = [e \in Events |-> 0]

Publish(e) == status[e] = "absent" /\ status'[e] = "pending"

Dispatch(e) == status[e] = "pending" /\ status'[e] = "dispatched" /\ e \in heard'

GiveUp(e) == status[e] = "pending" /\ status'[e] = "failed" /\ e \in causes'

Tell(e) == told[e] = 0 /\ told'[e] = 1 /\ status'[e] = "failed"

(* A consumer hears of published events only, and nothing is unheard.      *)
Hearing == heard \subseteq heard' /\ \A e \in heard' \ heard : status[e] # "absent"

Next ==
  /\ Hearing
  /\ causes \subseteq causes'
  /\ \A e \in Events :
       /\ status'[e] = status[e] \/ Publish(e) \/ Dispatch(e) \/ GiveUp(e)
       /\ told'[e] = told[e] \/ Tell(e)

Spec == Init /\ [][Next]_vars
-------------------------------------------------------------------------------
(* What the contract comes to.                                             *)

(* Accounted: behind every outcome there is what it claims.  A dispatched  *)
(* event was heard, a failed one has its cause, only a failed one was told *)
(* and that once, and no consumer heard of an event not yet published.     *)
Accounted ==
  \A e \in Events :
    /\ status[e] \in {"absent", "pending", "dispatched", "failed"}
    /\ e \in heard => status[e] # "absent"
    /\ status[e] = "dispatched" => e \in heard
    /\ status[e] = "failed" => e \in causes
    /\ told[e] = 0 \/ (told[e] = 1 /\ status[e] = "failed")

(* SettledStays: an outcome is final, what was heard stays heard, and      *)
(* nobody is told of an outcome again.                                     *)
Stays(e) ==
  /\ status[e] \in {"dispatched", "failed"} => status'[e] = status[e]
  /\ e \in heard => e \in heard'
  /\ told[e] = 1 => told'[e] = 1

AllStay == \A e \in Events : Stays(e)
SettledStays == [][AllStay]_vars
===============================================================================
