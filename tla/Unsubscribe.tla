------------------------------ MODULE Unsubscribe ------------------------------
(***************************************************************************)
(* Unsubscribing from one sender: the requests that record an intent (a    *)
(* click, a bulk selection, an Autopilot match), the worker that sends the *)
(* one-click POST, the outbox events that project the outcome into the     *)
(* sender's chip, and the user's manual progress on the mailto path.       *)
(***************************************************************************)
EXTENDS Naturals, FiniteSets

CONSTANTS
  Requests,      \* unsubscribe requests, each with an Idempotency-Key of its own
  HasMailto,     \* the sender advertises a mailto address as well
  Bulk, Autopilot,    \* the ones of a bulk selection, and the ones of Autopilot
  Runs,          \* worker runs that can be alive at once
  MaxAttempts,   \* UNSUB_MAX_ATTEMPTS
  MaxStalls,     \* BullMQ's maxStalledCount
  FaultKinds,    \* the kinds of fault the environment may inject
  MaxFaults,     \* bound: faults in one behaviour
  MaxActive,     \* bound: jobs held at once (the worker's concurrency)
  MaxFlips,      \* bound: changes of the sender, of its protection and of the switch
  None           \* nobody, nothing

AllFaults == {"network", "db", "crash", "stall", "api", "add", "landed", "redeliver"}

ASSUME SetsAssumption ==
  /\ IsFiniteSet(Requests) /\ Bulk \subseteq Requests /\ Autopilot \subseteq Requests \ Bulk
  /\ IsFiniteSet(Runs) /\ Runs \cap (Requests \cup {"none", "waiting", "ended"}) = {}
  /\ None \notin Requests \cup Runs
  /\ FaultKinds \subseteq AllFaults /\ HasMailto \in BOOLEAN

ASSUME BoundsAssumption ==
  /\ MaxAttempts \in Nat \ {0}
  /\ {MaxStalls, MaxFaults, MaxFlips, MaxActive} \subseteq Nat

VARIABLES
  sender,    \* what the index knows: method, a mailto fallback, is_protected
  sending,   \* UNSUB_SEND_ENABLED
  status,    \* sender_policies.unsub_status: the chip (absent: no policy row)
  req,       \* the request: where it is, the method it read, the consent it carries
  row,       \* action_jobs: queued, executing or what it ended as
  job,       \* BullMQ: none, waiting, ended, or the run that holds it
  consent,   \* the job carries protectedConfirmed
  tries,     \* failed attempts of the job
  stalls,    \* times BullMQ took the job back
  run,       \* the worker runs
  posts,     \* requests on the wire
  events,    \* outbox rows still to be consumed
  log,       \* outcome rows in the activity log
  flips, faults,
  accepted,  \* ghost: requests whose endpoint answered 2xx
  open,      \* ghost: requests whose sender was not Protected at some time since the click
  blurred,   \* ghost: two writers: a stalled run, or one that read the row before it was given up
  orphans,   \* ghost: requests left with a row and nothing to run it
  early      \* ghost: refused before its intent was projected

world == <<sender, sending>>
queue == <<job, consent, tries, stalls>>
ghosts == <<accepted, open, blurred, orphans, early>>
vars == <<world, status, req, row, queue, run, posts, events, log, flips, faults, ghosts>>

-------------------------------------------------------------------------------
Outcomes == {"endpoint_accepted", "unconfirmed", "action_required", "failed"}
Live == {"queued", "executing"}
Progress == {"draft_opened", "user_marked_sent"}
Chips == {"absent", "null", "requested", "unavailable"} \cup Outcomes \cup Progress

IdleRun == [pc |-> "idle", key |-> None, recheck |-> FALSE, resp |-> None]

Fault(kind) ==
  /\ kind \in FaultKinds
  /\ faults < MaxFaults
  /\ faults' = faults + 1

(* initialUnsubscribeLifecycleStatus. *)
Initial(method) ==
  CASE method = "one_click" -> "requested"
    [] method = "mailto"    -> "action_required"
    [] method = "none"      -> "unavailable"

Intent(k, method) == [key |-> k, kind |-> "intent", says |-> Initial(method)]
Executed(k, outcome) == [key |-> k, kind |-> "executed", says |-> outcome]

(* A refusal or an unreported failure resolves the chip only while it      *)
(* still claims a request is on its way.                                   *)
Resolved(chip) == IF chip = "requested" THEN "failed" ELSE chip

-------------------------------------------------------------------------------
(* The user, the index and the operator. *)

Flip ==
  /\ flips < MaxFlips /\ flips' = flips + 1
  /\ \/ /\ sender' = [sender EXCEPT !.protected = ~ @]
        /\ status' = IF status = "absent" THEN "null" ELSE status
        /\ sending' = sending
        /\ open' = IF sender.protected THEN open \cup {k \in Requests : req[k].pc # "new"} ELSE open
     \/ /\ \E m \in {"one_click", "mailto", "none"} \ {sender.method} : sender' = [sender EXCEPT !.method = m]
        /\ UNCHANGED <<sending, status, open>>
     \/ sending' = ~ sending /\ UNCHANGED <<sender, status, open>>
  /\ UNCHANGED <<req, row, queue, run, posts, events, log, faults, accepted, blurred, orphans, early>>

(* recordUnsubscribeManualStatus. *)
ManualOpen == sender.method = "mailto" \/ (sender.method = "one_click" /\ status \in {"action_required"} \cup Progress)

MarkProgress ==
  /\ ManualOpen
  /\ \/ status = "action_required" /\ status' \in Progress
     \/ status = "draft_opened" /\ status' = "user_marked_sent"
  /\ UNCHANGED <<world, req, row, queue, run, posts, events, log, flips, faults, ghosts>>

-------------------------------------------------------------------------------
(* The API. *)

InFlight(k) == \E j \in Requests \ {k} : row[j] \in Live

(* What is read before the transaction: the method, the protection, the    *)
(* kill switch and whether a request is already on its way.                *)
Probe(k) ==
  /\ req[k].pc = "new" /\ k \notin Autopilot
  /\ \E override \in IF k \in Bulk THEN {FALSE} ELSE BOOLEAN :
       req' = [req EXCEPT ![k] =
         [pc |-> IF \/ sender.method = "one_click" /\ (~ sending \/ InFlight(k))
                    \/ k \in Bulk /\ sender.protected
                 THEN "refused" ELSE "probed",
          method |-> sender.method,
          consent |-> override /\ sender.protected]]
  /\ open' = IF sender.protected THEN open ELSE open \cup {k}
  /\ UNCHANGED <<world, status, row, queue, run, posts, events, log, flips, faults,
                 accepted, blurred, orphans, early>>

(* The transaction: the rows, the chip, the intent event. *)
Committed(k) == IF req[k].method = "one_click" THEN "add" ELSE "answered"

Commit(k) ==
  /\ req[k].pc = "probed"
  /\ req' = [req EXCEPT ![k].pc = Committed(k)]
  /\ row' = [row EXCEPT ![k] = IF req[k].method = "one_click" THEN "queued" ELSE @]
  /\ status' = IF k \in Bulk /\ req[k].method # "one_click" /\ (status \in Progress \/ req[k].method = "none")
               THEN status ELSE Initial(req[k].method)
  /\ events' = events \cup {Intent(k, req[k].method)}
  /\ UNCHANGED <<world, queue, run, posts, log, flips, faults, ghosts>>

(* Autopilot: the match is not Protected; the chip is left to the event.   *)
AutoCommit(k) ==
  /\ k \in Autopilot /\ req[k].pc = "new"
  /\ ~ sender.protected
  /\ sender.method = "one_click" => sending
  /\ req' = [req EXCEPT ![k] = [pc |-> IF sender.method = "one_click" THEN "add" ELSE "answered",
                                method |-> sender.method, consent |-> FALSE]]
  /\ row' = [row EXCEPT ![k] = IF sender.method = "one_click" THEN "queued" ELSE @]
  /\ events' = events \cup {Intent(k, sender.method)}
  /\ open' = open \cup {k}
  /\ UNCHANGED <<world, status, queue, run, posts, log, flips, faults, accepted, blurred, orphans, early>>

(* enqueueUnsubExecution: the job id is the key, so a second add changes   *)
(* nothing; an add may throw, with or without its job having landed.       *)
Lands(k) ==
  /\ job' = [job EXCEPT ![k] = IF @ = "none" THEN "waiting" ELSE @]
  /\ consent' = [consent EXCEPT ![k] = IF job[k] = "none" THEN req[k].consent ELSE @]

Add(k) ==
  /\ req[k].pc = "add"
  /\ \/ Lands(k) /\ req' = [req EXCEPT ![k].pc = "answered"] /\ faults' = faults
     \/ Fault("add") /\ req' = [req EXCEPT ![k].pc = "undo"] /\ UNCHANGED <<job, consent>>
     \/ Fault("landed") /\ Lands(k) /\ req' = [req EXCEPT ![k].pc = "undo"]
  /\ UNCHANGED <<world, status, row, tries, stalls, run, posts, events, log, flips, ghosts>>

(* The catch: only a row still queued is the request's to fail. *)
UndoableAlways(k) == TRUE
Undoable(k) == row[k] = "queued"

AddFailed(k) ==
  /\ req[k].pc = "undo"
  /\ req' = [req EXCEPT ![k].pc = "answered"]
  /\ IF Undoable(k)
     THEN /\ row' = [row EXCEPT ![k] = "enqueue_failed"]
          /\ log' = [log EXCEPT ![k] = @ + 1]
          /\ IF k \in Autopilot
             THEN events' = events \cup {Executed(k, "failed")} /\ status' = status
             ELSE status' = Resolved(status) /\ events' = events
     ELSE UNCHANGED <<row, log, events, status>>
  /\ blurred' = IF row[k] = "queued" /\ \E r \in Runs : run[r].key = k THEN blurred \cup {k} ELSE blurred
  /\ UNCHANGED <<world, queue, run, posts, flips, faults, accepted, open, orphans, early>>

(* The process dies between two steps. *)
ApiDies(k) ==
  /\ req[k].pc \in {"probed", "add", "undo"}
  /\ Fault("api")
  /\ req' = [req EXCEPT ![k].pc = "dead"]
  /\ orphans' = IF row[k] = "queued" /\ job[k] = "none" THEN orphans \cup {k} ELSE orphans
  /\ UNCHANGED <<world, status, row, queue, run, posts, events, log, flips, accepted, open, blurred, early>>

(* The same key again: the intent is replayed, and a row that still waits  *)
(* is added again, except by the bulk route, which adds only fresh rows.   *)
Replay(k) ==
  /\ req[k].pc = "dead" /\ k \notin Autopilot
  /\ req' = [req EXCEPT ![k].pc =
       IF row[k] = "none" THEN "new" ELSE IF row[k] = "queued" /\ k \notin Bulk THEN "add" ELSE "answered"]
  /\ orphans' = IF req'[k].pc = "add" THEN orphans \ {k} ELSE orphans
  /\ UNCHANGED <<world, status, row, queue, run, posts, events, log, flips, faults, accepted, open, blurred, early>>

-------------------------------------------------------------------------------
(* UnsubExecutionWorker. *)

(* BullMQ takes the job back from a dead process, or from a live one that  *)
(* did not renew its lock; once too often and it fails the job itself.     *)
TakenBack(k) ==
  /\ stalls' = [stalls EXCEPT ![k] = @ + 1]
  /\ job' = [job EXCEPT ![k] = IF stalls[k] < MaxStalls THEN "waiting" ELSE "ended"]
  /\ orphans' = IF stalls[k] < MaxStalls THEN orphans ELSE orphans \cup {k}

(* The run returns and BullMQ completes its job, or the process dies just  *)
(* before that.                                                            *)
Ends(r, k, holds) ==
  /\ run' = [run EXCEPT ![r] = IdleRun]
  /\ \/ /\ job' = IF holds THEN [job EXCEPT ![k] = "ended"] ELSE job
        /\ UNCHANGED <<stalls, orphans, faults>>
     \/ holds /\ Fault("crash") /\ TakenBack(k)

(* recordSenderProtected and recordSendDisabled: nothing was attempted. *)
Refuse(k) ==
  /\ row' = [row EXCEPT ![k] = "refused"]
  /\ status' = Resolved(status)
  /\ early' = IF status \in {"absent", "null"} /\ Intent(k, "one_click") \in events
              THEN early \cup {k} ELSE early
  /\ UNCHANGED <<events, log>>

(* recordOutcome: one transaction, whatever the row and the chip say now.  *)
Record(k, outcome) ==
  /\ row' = [row EXCEPT ![k] = outcome]
  /\ status' = IF status = "absent" THEN status ELSE outcome
  /\ log' = [log EXCEPT ![k] = @ + 1]
  /\ events' = events \cup {Executed(k, outcome)}
  /\ early' = early

(* Runs are alike: the next job goes to any of the idle ones. *)
Spare == LET idle == {r \in Runs : run[r].pc = "idle"} IN IF idle = {} THEN None ELSE CHOOSE r \in idle : TRUE

(* A row that already ended is answered from the row. *)
AlreadyDoneNever(k) == FALSE
AlreadyDone(k) == row[k] \notin Live

RecheckNever(k) == FALSE
Recheck(k) == row[k] # "executing" /\ ~ consent[k]

(* A run reads its row, then the protection, the method and its URL, the   *)
(* switch and the target.                                                  *)
Start(r) ==
  /\ r = Spare
  /\ Cardinality({k \in Requests : job[k] \in Runs}) < MaxActive
  /\ \E k \in Requests :
       /\ job[k] = "waiting"
       /\ \/ /\ AlreadyDone(k)
             /\ Ends(r, k, TRUE) /\ UNCHANGED <<row, status, log, events, early>>
          \/ /\ ~ AlreadyDone(k)
             /\ \/ Recheck(k) /\ sender.protected
                \/ sender.method = "one_click" /\ ~ sending
             /\ Ends(r, k, TRUE) /\ Refuse(k)
          \/ /\ ~ AlreadyDone(k)
             /\ ~ (Recheck(k) /\ sender.protected)
             /\ sender.method # "one_click" \/ sending      \* no channel, or no valid target
             /\ Ends(r, k, TRUE) /\ Record(k, "failed")
          \/ /\ ~ AlreadyDone(k)
             /\ ~ (Recheck(k) /\ sender.protected)
             /\ sender.method = "one_click" /\ sending
             /\ job' = [job EXCEPT ![k] = r]
             /\ run' = [run EXCEPT ![r] = [pc |-> "mark", key |-> k, recheck |-> Recheck(k), resp |-> None]]
             /\ UNCHANGED <<row, status, log, events, early, stalls, orphans, faults>>
  /\ UNCHANGED <<world, req, consent, tries, posts, flips, accepted, open, blurred>>

(* The write of executing, which refuses a sender protected by now. *)
Markable(r) == ~ (run[r].recheck /\ sender.protected)

Mark(r) ==
  LET k == run[r].key IN
  /\ run[r].pc = "mark"
  /\ IF Markable(r)
     THEN /\ row' = [row EXCEPT ![k] = "executing"]
          /\ run' = [run EXCEPT ![r].pc = "post"]
          /\ UNCHANGED <<status, log, events, early, job, stalls, orphans, faults>>
     ELSE Refuse(k) /\ Ends(r, k, job[k] = r)
  /\ UNCHANGED <<world, req, consent, tries, posts, flips, accepted, open, blurred>>

Post(r) ==
  LET k == run[r].key IN
  /\ run[r].pc = "post"
  /\ posts' = [posts EXCEPT ![k] = @ + 1]
  /\ \E resp \in {"2xx", "3xx", "4xx", "silence"} :
       /\ IF resp = "silence" THEN Fault("network") ELSE faults' = faults
       /\ run' = [run EXCEPT ![r].pc = "record", ![r].resp = resp]
       /\ accepted' = IF resp = "2xx" THEN accepted \cup {k} ELSE accepted
  /\ UNCHANGED <<world, status, req, row, queue, events, log, flips, open, blurred, orphans, early>>

(* The classification of an answer; a refusal is handed to the user when   *)
(* the sender has a mailto address too.                                    *)
ClassifiedLoosely(resp) == IF resp = "4xx" THEN "failed" ELSE "endpoint_accepted"
Classified(resp) ==
  CASE resp = "2xx" -> "endpoint_accepted"
    [] resp = "3xx" -> "unconfirmed"
    [] resp = "4xx" -> IF HasMailto THEN "action_required" ELSE "failed"
    [] resp = "silence" -> "failed"

(* A thrown attempt: BullMQ retries it, or onTerminalFailure ends the row. *)
LastTry(k) == tries[k] + 1 >= MaxAttempts

Throws(r) ==
  LET k == run[r].key IN
  /\ run' = [run EXCEPT ![r] = IdleRun]
  /\ tries' = [tries EXCEPT ![k] = @ + 1]
  /\ job' = IF job[k] # r THEN job ELSE [job EXCEPT ![k] = IF LastTry(k) THEN "ended" ELSE "waiting"]
  /\ IF LastTry(k)
     THEN /\ status' = Resolved(status)
          /\ IF row[k] \in Live
             THEN row' = [row EXCEPT ![k] = "failed"] /\ log' = [log EXCEPT ![k] = @ + 1]
             ELSE UNCHANGED <<row, log>>
     ELSE UNCHANGED <<status, row, log>>
  /\ UNCHANGED <<events, stalls, orphans, early>>

RecordAnswer(r) ==
  LET k == run[r].key IN
  /\ run[r].pc = "record"
  /\ IF run[r].resp = "silence" /\ ~ LastTry(k)
     THEN Throws(r) /\ faults' = faults
     ELSE Record(k, Classified(run[r].resp)) /\ Ends(r, k, job[k] = r) /\ tries' = tries
  /\ UNCHANGED <<world, req, consent, posts, flips, accepted, open, blurred>>

RunThrows(r) ==
  /\ run[r].pc \in {"mark", "record"}
  /\ Fault("db")
  /\ Throws(r)
  /\ UNCHANGED <<world, req, consent, posts, flips, accepted, open, blurred>>

Crash(r) ==
  LET k == run[r].key IN
  /\ run[r].pc # "idle" /\ job[k] = r
  /\ Fault("crash")
  /\ run' = [run EXCEPT ![r] = IdleRun]
  /\ TakenBack(k)
  /\ UNCHANGED <<world, status, req, row, consent, tries, posts, events, log, flips, accepted, open, blurred, early>>

(* The run goes on although its job was taken back. *)
Stall(r) ==
  LET k == run[r].key IN
  /\ run[r].pc # "idle" /\ job[k] = r
  /\ Fault("stall")
  /\ TakenBack(k)
  /\ blurred' = blurred \cup {k}
  /\ UNCHANGED <<world, status, req, row, consent, tries, run, posts, events, log, flips, accepted, open, early>>

-------------------------------------------------------------------------------
(* The outbox consumer: an intent only fills an empty chip, an outcome     *)
(* overwrites it.  A delivered event may come again.                       *)
ProjectedIntentAlways(chip, says) == says
ProjectedIntent(chip, says) == IF chip \in {"absent", "null"} THEN says ELSE chip

Deliver(e) ==
  /\ e \in events
  /\ status' = IF e.kind = "executed" THEN e.says ELSE ProjectedIntent(status, e.says)
  /\ \/ events' = events \ {e} /\ faults' = faults
     \/ Fault("redeliver") /\ events' = events
  /\ UNCHANGED <<world, req, row, queue, run, posts, log, flips, ghosts>>

-------------------------------------------------------------------------------
Init ==
  /\ sender \in [method : {"one_click"}, protected : BOOLEAN]
  /\ sending = TRUE
  /\ status = IF sender.protected THEN "null" ELSE "absent"
  /\ req = [k \in Requests |-> [pc |-> "new", method |-> None, consent |-> FALSE]]
  /\ row = [k \in Requests |-> "none"]
  /\ job = [k \in Requests |-> "none"]
  /\ consent = [k \in Requests |-> FALSE]
  /\ tries = [k \in Requests |-> 0]
  /\ stalls = [k \in Requests |-> 0]
  /\ run = [r \in Runs |-> IdleRun]
  /\ posts = [k \in Requests |-> 0]
  /\ events = {}
  /\ log = [k \in Requests |-> 0]
  /\ flips = 0 /\ faults = 0
  /\ accepted = {} /\ open = {} /\ blurred = {} /\ orphans = {} /\ early = {}

ApiSteps(k) == Commit(k) \/ Add(k) \/ AddFailed(k)
RunSteps(r) == Mark(r) \/ Post(r) \/ RecordAnswer(r)

Next ==
  \/ Flip \/ MarkProgress
  \/ \E k \in Requests : Probe(k) \/ AutoCommit(k) \/ ApiSteps(k) \/ ApiDies(k) \/ Replay(k)
  \/ \E r \in Runs : Start(r) \/ RunSteps(r) \/ RunThrows(r) \/ Crash(r) \/ Stall(r)
  \/ \E e \in events : Deliver(e)

Spec == Init /\ [][Next]_vars

(* A request that started goes on, the worker takes its jobs and the       *)
(* dispatcher its events.                                                  *)
LiveSpec ==
  /\ Spec
  /\ \A k \in Requests : WF_vars(ApiSteps(k))
  /\ \A r \in Runs : WF_vars(RunSteps(r))
  /\ WF_vars(\E r \in Runs : Start(r))
  /\ \A k \in Requests : WF_vars(\E e \in events : e.key = k /\ Deliver(e))

-------------------------------------------------------------------------------
TypeOK ==
  /\ sender.method \in {"one_click", "mailto", "none"}
  /\ status \in Chips
  /\ \A k \in Requests :
       /\ row[k] \in {"none", "refused", "enqueue_failed"} \cup Live \cup Outcomes
       /\ job[k] \in {"none", "waiting", "ended"} \cup Runs
       /\ tries[k] \in 0 .. MaxAttempts + stalls[k]
       /\ job[k] # "none" => row[k] # "none"
  /\ \A r \in Runs : run[r].pc = "idle" <=> run[r].key = None

(* AcceptedWasHeard: neither the job nor the chip claims acceptance unless *)
(* the endpoint of that request, or of some request, answered 2xx.         *)
AcceptedWasHeard ==
  /\ \A k \in Requests : row[k] = "endpoint_accepted" => k \in accepted
  /\ status = "endpoint_accepted" => accepted # {}

(* ConsentCoversProtection: a request goes out only if the user confirmed  *)
(* the protection shown at the click, or the sender was not Protected at   *)
(* some moment since the click: protection that never lapsed is honoured   *)
(* through every retry, crash and late check.                              *)
ConsentCoversProtection == \A k \in Requests : posts[k] > 0 => consent[k] \/ k \in open

(* OutcomeLoggedOnce: a request that was attempted has one outcome in the  *)
(* activity log, one that still runs or was refused has none.              *)
OutcomeLoggedOnce ==
  \A k \in Requests \ blurred :
    log[k] = IF row[k] \in Outcomes \cup {"enqueue_failed"} THEN 1 ELSE 0

(* RecordedIsFinal: once a request has ended nothing is sent for it and    *)
(* its row stays as it is, unless two writers were at it.                  *)
RecordedIsFinal ==
  [][\A k \in Requests \ blurred' :
       row[k] \notin Live \cup {"none"} => posts'[k] = posts[k] /\ row'[k] = row[k]]_vars

(* Settles: every request that got a row ends, and in the end the chip     *)
(* does not claim that one is on its way, unless nothing was left to run   *)
(* it, or Autopilot's intent was projected after its refusal.              *)
Settles ==
  <>[](/\ \A k \in Requests \ orphans : row[k] \notin Live
       /\ status = "requested" => orphans \cup early # {})

================================================================================
