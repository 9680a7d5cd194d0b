----------------------------- MODULE LabelActions -----------------------------
(***************************************************************************)
(* Archive, Later and Delete of one sender's mail in one mailbox: the path *)
(* of an action from the click, through the queue and the worker, to Gmail,*)
(* and back again through Undo or through the review of a failed attempt.  *)
(*                                                                         *)
(* Actors: the API (ActionsService, ActionRecoveryService), BullMQ, the    *)
(* workers that run LabelActionWorker, the user, and Gmail.  The workers   *)
(* take steps between which every other actor may act: a step is one       *)
(* database statement or transaction, or one Gmail request.                *)
(*                                                                         *)
(* An action a owns at most two action_jobs rows: Fwd(a), and Rev(a), the  *)
(* Undo of it, whose idempotency key is revert-<token of a>.               *)
(***************************************************************************)
EXTENDS Naturals, FiniteSets, MailLabels

CONSTANTS
  Actions,      \* ids of forward action_jobs rows (clicks and reviewed retries)
  Messages,     \* the sender's messages
  Workers,      \* concurrent processors of the label-action queue
  Verbs,        \* the verbs the user clicks
  Reaches,      \* the reaches the user picks for a Delete
  Wakes,        \* the return times the user picks for a Later
  ChunkMax,     \* GMAIL_BATCH_MODIFY_MAX_IDS
  MaxAttempts,  \* attempts of a queue job (perMailboxPolicy.maxAttempts)
  MaxStalls,    \* BullMQ's maxStalledCount
  FaultKinds,   \* the kinds of fault the environment may inject
  MaxFaults,    \* bound: faults in one behaviour
  MaxFlips,     \* bound: changes of protection and of placement by the user
  MayMove,      \* whether the user also moves mail in Gmail
  None          \* no owner, no job, no return time

AllFaults == {"crash", "stall", "lock_timeout", "database", "unacked", "client",
              "refused", "ambiguous", "enqueue", "api_crash"}

ASSUME SetsAssumption ==
  /\ Verbs \subseteq LabelVerbs
  /\ Reaches \subseteq ActionReaches
  /\ FaultKinds \subseteq AllFaults
  /\ MayMove \in BOOLEAN

ASSUME BoundsAssumption ==
  /\ ChunkMax \in Nat \ {0}
  /\ MaxAttempts \in Nat \ {0}
  /\ MaxStalls \in Nat
  /\ MaxFaults \in Nat
  /\ MaxFlips \in Nat

ASSUME FinitenessAssumption == IsFiniteSet(Messages) /\ IsFiniteSet(Actions)

ASSUME NoneAssumption ==
  /\ None \notin Actions \X {"forward", "reverse"}
  /\ None \notin Workers
  /\ None \notin Wakes

VARIABLES
  gmail,    \* Gmail's labels of every message
  mirror,   \* mail_messages.label_ids
  policy,   \* sender_policies of the sender: is_protected, snoozed_until
  row,      \* action_jobs
  journal,  \* undo_journal, one entry per forward action
  ledger,   \* activity_log rows (each with its outbox event) per forward action
  preview,  \* action_recovery_previews: the latest of each lineage root
  api,      \* what a request still owes a committed row
  queue,    \* BullMQ
  wk,       \* the workers
  mlock,    \* the mailbox advisory lock
  faults, flips,
  applied,  \* ghost: messages some Gmail request of the action changed
  racing,   \* ghost: workers past their hook when the sender was protected
  home,     \* ghost: messages in the inbox at the start
  disowned  \* ghost: actions marked failed though a run of them was not over

data == <<gmail, mirror, policy>>
records == <<row, journal, ledger, preview>>
ghosts == <<applied, racing, home, disowned>>
bounds == <<faults, flips>>
vars == <<data, records, api, queue, wk, mlock, bounds, ghosts>>

-------------------------------------------------------------------------------
(* Rows and jobs.                                                          *)

Fwd(a) == <<a, "forward">>
Rev(a) == <<a, "reverse">>
Jobs == Actions \X {"forward", "reverse"}

Forward(j) == j[2] = "forward"

Stores == [Messages -> SUBSET Labels]

(* selector.deleteUndo: where the messages of a Delete were.               *)
NoPlacement == [state |-> "none", ids |-> {}, inbox |-> {}]
UnknownPlacement(ids) == [state |-> "unknown", ids |-> ids, inbox |-> {}]
Placements == [state : {"none", "known", "unknown"},
               ids : SUBSET Messages, inbox : SUBSET Messages]

Errors == {"RateLimitError", "TransientError", "InvalidGrantError",
           "PermanentError", "ValidationError"}
Codes == Errors \cup {"none", "ENQUEUE_FAILED", "LABEL_SENDER_PROTECTED",
                      "RECOVERY_SENDER_PROTECTED"}

Rows == [status : {"absent", "queued", "executing", "done", "failed"},
         err : Codes, verb : LabelVerbs, reach : ActionReaches,
         ids : SUBSET Messages, undo : Placements, wake : Wakes \cup {None},
         attempt : Nat, root : Actions]

NewRow(a, verb, reach, wake) ==
  [status |-> "queued", err |-> "none", verb |-> verb, reach |-> reach,
   ids |-> {}, undo |-> NoPlacement, wake |-> wake, attempt |-> 0, root |-> a]

AbsentRow(a) ==
  [status |-> "absent", err |-> "none", verb |-> "archive", reach |-> "inbox_only",
   ids |-> {}, undo |-> NoPlacement, wake |-> None, attempt |-> 0, root |-> a]

Live(r) == r.status \in {"queued", "executing"}

(* Provably untouched by Gmail: still queued, or failed only because the   *)
(* enqueue call threw.                                                     *)
NeverReachedGmail(r) ==
  \/ r.status = "queued"
  \/ r.status = "failed" /\ r.err = "ENQUEUE_FAILED"

NoEntry == [state |-> "none", known |-> FALSE, inbox |-> {}]
Entries == [state : {"none", "live", "reverted"}, known : BOOLEAN,
            inbox : SUBSET Messages]

Lineage(root) == {a \in Actions : row[Fwd(a)].status # "absent"
                                  /\ row[Fwd(a)].root = root}

NoPreview(a) == [state |-> "none", current |-> a, target |-> {}]
Previews == [state : {"none", "verifying", "ready", "consumed", "failed"},
             current : Actions, target : SUBSET Messages]

(* The queue: one BullMQ job per row, its id the row's idempotency key.    *)
NoQueueJob == [state |-> "none", owner |-> None, made |-> 0, stalls |-> 0,
               conf |-> FALSE]
QueueJobs == [state : {"none", "waiting", "active", "completed", "failed"},
              owner : Workers \cup {None}, made : Nat, stalls : Nat,
              conf : BOOLEAN]

(* An API request: what is left of it once its transaction committed.      *)
NoRequest == [at |-> "idle", conf |-> FALSE]
Requests == [at : {"idle", "reset", "add", "caught"}, conf : BOOLEAN]

(* A worker: program counter, its job, which attempt this is, whether the  *)
(* payload says protectedConfirmed, whether the row it loaded had never    *)
(* reached Gmail, whether a request of this attempt landed, the messages   *)
(* still to send, and the error on its way out.                            *)
Critical == {"load", "check", "resolve", "empty", "client", "hook", "send",
             "refused", "timer", "commit", "revsend", "revcommit"}
Points == Critical \cup {"idle", "lock", "terminal", "end"}

IdleWorker == [pc |-> "idle", job |-> None, try |-> 0, conf |-> FALSE,
               clean |-> FALSE, landed |-> FALSE, todo |-> {}, err |-> "none"]
WorkerStates == [pc : Points, job : Jobs \cup {None}, try : Nat, conf : BOOLEAN,
                 clean : BOOLEAN, landed : BOOLEAN, todo : SUBSET Messages,
                 err : Errors \cup {"none"}]

-------------------------------------------------------------------------------
TypeOK ==
  /\ gmail \in Stores /\ mirror \in Stores
  /\ policy \in [protected : BOOLEAN, until : Wakes \cup {None}]
  /\ row \in [Jobs -> Rows]
  /\ journal \in [Actions -> Entries]
  /\ ledger \in [Actions -> Nat]
  /\ preview \in [Actions -> Previews]
  /\ api \in [Jobs -> Requests]
  /\ queue \in [Jobs -> QueueJobs]
  /\ wk \in [Workers -> WorkerStates]
  /\ mlock \in Workers \cup {None}
  /\ faults \in Nat /\ flips \in Nat
  /\ applied \in [Actions -> SUBSET Messages]
  /\ racing \subseteq Workers
  /\ home \subseteq Messages /\ disowned \subseteq Actions

(* The sender has mail in the inbox or the archive, in sync with Gmail; no *)
(* action was ever taken.                                                  *)
Init ==
  /\ home \in SUBSET Messages
  /\ gmail = [m \in Messages |-> IF m \in home THEN {"INBOX"} ELSE {}]
  /\ mirror = gmail
  /\ policy = [protected |-> FALSE, until |-> None]
  /\ row = [j \in Jobs |-> AbsentRow(j[1])]
  /\ journal = [a \in Actions |-> NoEntry]
  /\ ledger = [a \in Actions |-> 0]
  /\ preview = [a \in Actions |-> NoPreview(a)]
  /\ api = [j \in Jobs |-> NoRequest]
  /\ queue = [j \in Jobs |-> NoQueueJob]
  /\ wk = [w \in Workers |-> IdleWorker]
  /\ mlock = None
  /\ faults = 0 /\ flips = 0
  /\ applied = [a \in Actions |-> {}]
  /\ racing = {} /\ disowned = {}

(* The environment spends one fault of the given kind.                     *)
Fault(kind) ==
  /\ kind \in FaultKinds
  /\ faults < MaxFaults
  /\ faults' = faults + 1
  /\ UNCHANGED flips

Flip ==
  /\ flips < MaxFlips
  /\ flips' = flips + 1
  /\ UNCHANGED faults

-------------------------------------------------------------------------------
(* Delivery: BullMQ and the sealed run lifecycle of BaseDeclutrWorker.     *)

Job(w) == wk[w].job
Row(w) == row[Job(w)]
Act(w) == Job(w)[1]

Goto(w, pc) == wk' = [wk EXCEPT ![w].pc = pc]

NonRetryable(e) == e \in {"PermanentError", "InvalidGrantError", "ValidationError"}

Terminal(e, try) == NonRetryable(e) \/ try >= MaxAttempts

(* processJob returned: the mailbox lock is released on the way out.       *)
Return(w) ==
  /\ wk' = [wk EXCEPT ![w].pc = "end", ![w].err = "none"]
  /\ mlock' = IF mlock = w THEN None ELSE mlock

(* Mutant: an attempt that throws keeps the mailbox lock.                  *)
ThrowHoldingLock(w, e) ==
  /\ wk' = [wk EXCEPT ![w].pc = IF Terminal(e, wk[w].try) THEN "terminal" ELSE "end",
                      ![w].err = e]
  /\ UNCHANGED mlock

(* Mutant: only an error that is not retryable is recorded, not the last   *)
(* of the attempts.                                                        *)
ThrowExhausted(w, e) ==
  /\ wk' = [wk EXCEPT ![w].pc = IF NonRetryable(e) THEN "terminal" ELSE "end",
                      ![w].err = e]
  /\ mlock' = IF mlock = w THEN None ELSE mlock

(* processJob threw e: the lock is released, and a failure that no retry   *)
(* follows goes through onTerminalFailure first.                           *)
Throw(w, e) ==
  /\ wk' = [wk EXCEPT ![w].pc = IF Terminal(e, wk[w].try) THEN "terminal" ELSE "end",
                      ![w].err = e]
  /\ mlock' = IF mlock = w THEN None ELSE mlock

(* A processor picks up a waiting job.                                     *)
Take(w, j) ==
  /\ wk[w].pc = "idle"
  /\ queue[j].state = "waiting"
  /\ queue' = [queue EXCEPT ![j].state = "active", ![j].owner = w]
  /\ wk' = [wk EXCEPT ![w] =
               [pc |-> "lock", job |-> j, try |-> queue[j].made + 1,
                conf |-> queue[j].conf, clean |-> FALSE, landed |-> FALSE,
                todo |-> {}, err |-> "none"]]
  /\ UNCHANGED <<data, records, api, mlock, bounds, ghosts>>

AcquireLock(w) ==
  /\ wk[w].pc = "lock" /\ mlock = None
  /\ mlock' = w
  /\ Goto(w, "load")
  /\ UNCHANGED <<data, records, api, queue, bounds, ghosts>>

(* The bounded wait for the advisory lock ran out while another worker     *)
(* held it.                                                                *)
LockTimesOut(w) ==
  /\ wk[w].pc = "lock" /\ mlock # None
  /\ Fault("lock_timeout")
  /\ Throw(w, "TransientError")
  /\ UNCHANGED <<data, records, api, queue, ghosts>>

(* A failure is recorded beside a run that is at work, or after the commit *)
(* (a ghost's condition).                                                  *)
Outlived(w) ==
  \/ Row(w).status = "done"
  \/ \E u \in Workers \ {w} : Job(u) = Job(w) /\ wk[u].pc \in Critical \ {"load"}

Disown(a, cond) == disowned' = IF cond THEN disowned \cup {a} ELSE disowned

(* onTerminalFailure: written by row id alone, outside the mailbox lock.   *)
RecordFailure(w) ==
  /\ wk[w].pc = "terminal"
  /\ row' = [row EXCEPT ![Job(w)].status = "failed", ![Job(w)].err = wk[w].err]
  /\ Goto(w, "end")
  /\ Disown(Act(w), Forward(Job(w)) /\ Outlived(w))
  /\ UNCHANGED <<data, journal, ledger, preview, api, queue, mlock, bounds,
                 applied, racing, home>>

(* A failure to record the failure is logged and swallowed.                *)
RecordFailureLost(w) ==
  /\ wk[w].pc = "terminal"
  /\ Fault("database")
  /\ Goto(w, "end")
  /\ UNCHANGED <<data, records, api, queue, mlock, ghosts>>

(* BullMQ moves the job on, unless it took the job back meanwhile.         *)
Settle(w) ==
  /\ wk[w].pc = "end"
  /\ queue' = IF queue[Job(w)].owner # w THEN queue
              ELSE [queue EXCEPT
                     ![Job(w)].owner = None,
                     ![Job(w)].made = IF wk[w].err = "none" THEN @ ELSE @ + 1,
                     ![Job(w)].state =
                        CASE wk[w].err = "none" -> "completed"
                          [] wk[w].err # "none" /\ Terminal(wk[w].err, wk[w].try) -> "failed"
                          [] OTHER -> "waiting"]
  /\ wk' = [wk EXCEPT ![w] = IdleWorker]
  /\ UNCHANGED <<data, records, api, mlock, bounds, ghosts>>

(* The process dies: the session's advisory lock goes with it, the job     *)
(* stays active until the stall check finds it.                            *)
Crash(w) ==
  /\ wk[w].pc # "idle"
  /\ Fault("crash")
  /\ wk' = [wk EXCEPT ![w] = IdleWorker]
  /\ mlock' = IF mlock = w THEN None ELSE mlock
  /\ queue' = IF queue[Job(w)].owner # w THEN queue
              ELSE [queue EXCEPT ![Job(w)].owner = None]
  /\ racing' = racing \ {w}
  /\ UNCHANGED <<data, records, api, applied, home, disowned>>

(* The stall check: a job whose worker died, or stopped renewing its lock  *)
(* while it still runs, is delivered again with its attempts unchanged;    *)
(* past the stall limit BullMQ fails it itself, and no handler of this     *)
(* code runs.                                                              *)
Stall(j) ==
  /\ queue[j].state = "active"
  /\ IF queue[j].owner = None THEN UNCHANGED bounds ELSE Fault("stall")
  /\ queue' = [queue EXCEPT
                 ![j].owner = None,
                 ![j].state = IF queue[j].stalls < MaxStalls THEN "waiting" ELSE "failed",
                 ![j].stalls = IF queue[j].stalls < MaxStalls THEN @ + 1 ELSE @]
  /\ UNCHANGED <<data, records, api, wk, mlock, ghosts>>

-------------------------------------------------------------------------------
(* LabelActionWorker.execute: what the durable row says.                   *)

(* Mutant: a delivery of a done row runs it again.                         *)
SettledUnlessDone(j) ==
  row[j].status = "failed" /\ Forward(j) /\ row[j].err # "ENQUEUE_FAILED"

(* A done row is replayed; a failed forward row is final, unless it failed *)
(* only because its enqueue call threw.                                    *)
Settled(j) ==
  \/ row[j].status = "done"
  \/ /\ row[j].status = "failed" /\ Forward(j)
     /\ row[j].err # "ENQUEUE_FAILED"

SkipSettled(w) ==
  /\ wk[w].pc = "load" /\ Settled(Job(w))
  /\ Return(w)
  /\ UNCHANGED <<data, records, api, queue, bounds, ghosts>>

StartForward(w) ==
  /\ wk[w].pc = "load" /\ ~Settled(Job(w)) /\ Forward(Job(w))
  /\ wk' = [wk EXCEPT ![w].pc = "check", ![w].clean = NeverReachedGmail(Row(w))]
  /\ UNCHANGED <<data, records, api, queue, mlock, bounds, ghosts>>

(* Mutant: a status the action_status enum does not have.                  *)
StoppedRowSkipped(w) ==
  [Row(w) EXCEPT !.status = "skipped", !.err = "LABEL_SENDER_PROTECTED"]

(* Mutant: every Protected stop of a first attempt is reported as a skip.  *)
StoppedRowAlwaysSkip(w) ==
  [Row(w) EXCEPT !.status = "done", !.err = "LABEL_SENDER_PROTECTED"]

(* The sender is Protected and the user did not confirm.  When nothing of  *)
(* the job can have reached Gmail a first attempt ends as a skip;          *)
(* otherwise the row fails and stays reviewable (stopProtected).           *)
StoppedRow(w) ==
  IF wk[w].clean /\ ~wk[w].landed /\ Row(w).attempt = 0
    THEN [Row(w) EXCEPT !.status = "done", !.err = "LABEL_SENDER_PROTECTED"]
    ELSE [Row(w) EXCEPT !.status = "failed", !.err = "RECOVERY_SENDER_PROTECTED"]

StopProtected(w) ==
  /\ row' = [row EXCEPT ![Job(w)] = StoppedRow(w)]
  /\ Return(w)

MustStop(w) == policy.protected /\ ~wk[w].conf

CheckProtected(w) ==
  /\ wk[w].pc = "check"
  /\ \/ MustStop(w) /\ StopProtected(w)
     \/ ~MustStop(w) /\ Goto(w, "resolve") /\ UNCHANGED <<row, mlock>>
  /\ UNCHANGED <<data, journal, ledger, preview, api, queue, bounds, ghosts>>

(* Mutant: every attempt resolves the sender's current mail.               *)
ExecutionSetFresh(r) == SenderActionIds(mirror, r.reach)

(* The durable execution set: resolved from the mirror once and saved      *)
(* before anything is sent; a retry reuses it.                             *)
ExecutionSet(r) == IF r.ids = {} THEN SenderActionIds(mirror, r.reach) ELSE r.ids

ResolveIds(w) ==
  /\ wk[w].pc = "resolve"
  /\ LET ids == ExecutionSet(Row(w))
     IN /\ row' = [row EXCEPT ![Job(w)].ids = ids]
        /\ wk' = [wk EXCEPT ![w].pc = IF ids = {} THEN "empty" ELSE "client",
                            ![w].todo = ids]
  /\ UNCHANGED <<data, journal, ledger, preview, api, queue, mlock, bounds, ghosts>>

(* Nothing matched: the decision is recorded, with no Undo.                *)
CommitEmpty(w) ==
  /\ wk[w].pc = "empty"
  /\ row' = [row EXCEPT ![Job(w)].status = "done"]
  /\ ledger' = [ledger EXCEPT ![Act(w)] = @ + 1]
  /\ Return(w)
  /\ UNCHANGED <<data, journal, preview, api, queue, bounds, ghosts>>

(* The Gmail client and the label ids, before anything is sent: a failure  *)
(* here leaves the row as it was.                                          *)
GetClient(w) ==
  /\ wk[w].pc = "client"
  /\ \/ Goto(w, "hook") /\ UNCHANGED <<mlock, bounds>>
     \/ /\ Fault("client")
        /\ \E e \in Errors \ {"ValidationError"} : Throw(w, e)
  /\ UNCHANGED <<data, records, api, queue, ghosts>>

(* Mutant: the snapshot is bound to the inbox messages alone.              *)
MeasuredInboxOnly(w) ==
  [state |-> "known", ids |-> Row(w).ids \cap Carrying(mirror, "INBOX"),
   inbox |-> Row(w).ids \cap Carrying(mirror, "INBOX")]

(* Where a Delete's messages were (prepareDeleteUndo, storedDeleteUndo):   *)
(* measured on the mirror for a first attempt nothing of which reached     *)
(* Gmail; inherited and narrowed otherwise, and unknown when there is      *)
(* nothing to inherit.                                                     *)
MeasuredPlacement(w) ==
  [state |-> "known", ids |-> Row(w).ids,
   inbox |-> Row(w).ids \cap Carrying(mirror, "INBOX")]

StoredPlacement(r) ==
  [r.undo EXCEPT !.ids = r.ids, !.inbox = @ \cap r.ids]

(* Mutant: every attempt measures the placement anew.                      *)
DeleteUndoMeasured(w) == MeasuredPlacement(w)

DeleteUndo(w) ==
  IF Row(w).attempt = 0 /\ wk[w].clean THEN MeasuredPlacement(w)
  ELSE IF Row(w).undo.state = "none" THEN UnknownPlacement(Row(w).ids)
  ELSE StoredPlacement(Row(w))

(* A stored placement that does not cover the execution set is refused.    *)
PlacementRefused(w) ==
  /\ Row(w).verb = "delete"
  /\ ~(Row(w).attempt = 0 /\ wk[w].clean)
  /\ Row(w).undo.state # "none"
  /\ ~(Row(w).ids \subseteq Row(w).undo.ids)

(* The hook of the first request (beforeFirstRequest): executing, and the  *)
(* placement of a Delete, in one statement with the Protected check.       *)
MarkExecuting(w) ==
  /\ wk[w].pc = "hook" /\ ~wk[w].landed
  /\ \/ PlacementRefused(w) /\ Throw(w, "ValidationError") /\ UNCHANGED row
     \/ ~PlacementRefused(w) /\ MustStop(w) /\ StopProtected(w)
     \/ /\ ~PlacementRefused(w) /\ ~MustStop(w)
        /\ row' = [row EXCEPT
                     ![Job(w)].status = "executing",
                     ![Job(w)].undo = IF Row(w).verb = "delete" THEN DeleteUndo(w) ELSE @]
        /\ Goto(w, "send")
        /\ UNCHANGED mlock
  /\ UNCHANGED <<data, journal, ledger, preview, api, queue, bounds, ghosts>>

(* Mutant: only the first request of a job re-reads the protection.        *)
AssertNotProtectedNever(w) ==
  /\ wk[w].pc = "hook" /\ wk[w].landed
  /\ Goto(w, "send")
  /\ UNCHANGED <<data, records, api, queue, mlock, bounds, ghosts>>

(* The hook of every later request (assertNotProtected).                   *)
AssertNotProtected(w) ==
  /\ wk[w].pc = "hook" /\ wk[w].landed
  /\ \/ MustStop(w) /\ StopProtected(w)
     \/ ~MustStop(w) /\ Goto(w, "send") /\ UNCHANGED <<row, mlock>>
  /\ UNCHANGED <<data, journal, ledger, preview, api, queue, bounds, ghosts>>

(* One batchModify request takes at most ChunkMax of the remaining ids.    *)
Chunks(todo) ==
  {c \in SUBSET todo : Cardinality(c) = IF Cardinality(todo) < ChunkMax
                                          THEN Cardinality(todo) ELSE ChunkMax}

Apply(w, ids) ==
  /\ gmail' = Modify(gmail, ids, ForwardChange(Row(w).verb))
  /\ applied' = [applied EXCEPT ![Act(w)] = @ \cup ids]

AfterLanding(todo) == IF todo = {} THEN "commit" ELSE "hook"

RequestLands(w) ==
  /\ wk[w].pc = "send"
  /\ \E ids \in Chunks(wk[w].todo) :
       /\ Apply(w, ids)
       /\ wk' = [wk EXCEPT
                   ![w].landed = TRUE, ![w].todo = @ \ ids,
                   ![w].pc = IF Row(w).verb = "later" /\ ~wk[w].landed THEN "timer"
                             ELSE AfterLanding(wk[w].todo \ ids)]
  /\ racing' = racing \ {w}
  /\ UNCHANGED <<mirror, policy, records, api, queue, mlock, bounds, home, disowned>>

(* Gmail refuses: quota, a rejected token, a bad request, a revoked grant. *)
RequestRefused(w) ==
  /\ wk[w].pc = "send"
  /\ Fault("refused")
  /\ \E e \in {"RateLimitError", "InvalidGrantError", "PermanentError"} :
       wk' = [wk EXCEPT ![w].pc = "refused", ![w].err = e]
  /\ racing' = racing \ {w}
  /\ UNCHANGED <<data, records, api, queue, mlock, applied, home, disowned>>

(* Mutant: any refusal puts the row back to queued.                        *)
ResetRefusedAlways(w) ==
  /\ wk[w].pc = "refused"
  /\ row' = IF Row(w).status = "executing"
              THEN [row EXCEPT ![Job(w)].status = "queued"] ELSE row
  /\ Throw(w, wk[w].err)
  /\ UNCHANGED <<data, journal, ledger, preview, api, queue, bounds, ghosts>>

(* Refused before any request landed, on a row that never reached Gmail:   *)
(* back to queued, so that the retry is checked like a first attempt.      *)
ResetRefused(w) ==
  /\ wk[w].pc = "refused"
  /\ row' = IF wk[w].clean /\ ~wk[w].landed /\ Row(w).status = "executing"
              THEN [row EXCEPT ![Job(w)].status = "queued"] ELSE row
  /\ Throw(w, wk[w].err)
  /\ UNCHANGED <<data, journal, ledger, preview, api, queue, bounds, ghosts>>

(* A network error, a timeout or a 5xx: Gmail may have applied it or not.  *)
RequestUncertain(w) ==
  /\ wk[w].pc = "send"
  /\ Fault("ambiguous")
  /\ \/ \E ids \in Chunks(wk[w].todo) : Apply(w, ids)
     \/ UNCHANGED <<gmail, applied>>
  /\ Throw(w, "TransientError")
  /\ racing' = racing \ {w}
  /\ UNCHANGED <<mirror, policy, records, api, queue, home, disowned>>

(* The return timer of a Later, as its first request lands.                *)
ScheduleReturn(w) ==
  /\ wk[w].pc = "timer"
  /\ policy' = [policy EXCEPT !.until = Row(w).wake]
  /\ Goto(w, AfterLanding(wk[w].todo))
  /\ UNCHANGED <<gmail, mirror, records, api, queue, mlock, bounds, ghosts>>

-------------------------------------------------------------------------------
(* The terminal transaction of a forward action.                           *)

UndoEntry(r) ==
  [state |-> "live", known |-> r.verb = "delete" /\ r.undo.state = "known",
   inbox |-> IF r.verb = "delete" THEN r.undo.inbox \cap r.ids ELSE {}]

TerminalTx(w) ==
  /\ journal' = [journal EXCEPT ![Act(w)] = UndoEntry(Row(w))]
  /\ ledger' = [ledger EXCEPT ![Act(w)] = @ + 1]
  /\ mirror' = Modify(mirror, Row(w).ids, ForwardChange(Row(w).verb))
  /\ policy' = [policy EXCEPT !.until = IF Row(w).verb = "later" THEN Row(w).wake ELSE @]
  /\ row' = [row EXCEPT ![Job(w)].status = "done"]

Commit(w) ==
  /\ wk[w].pc = "commit"
  /\ TerminalTx(w)
  /\ Return(w)
  /\ UNCHANGED <<gmail, preview, api, queue, bounds, ghosts>>

(* The transaction commits but its acknowledgement is lost.                *)
CommitUnacknowledged(w) ==
  /\ wk[w].pc = "commit"
  /\ Fault("unacked")
  /\ TerminalTx(w)
  /\ Throw(w, "TransientError")
  /\ UNCHANGED <<gmail, preview, api, queue, ghosts>>

(* Any statement of the worker fails and changes nothing.                  *)
DatabaseFails(w) ==
  /\ wk[w].pc \in Critical \ {"client", "send", "revsend"}
  /\ Fault("database")
  /\ Throw(w, "TransientError")
  /\ UNCHANGED <<data, records, api, queue, ghosts>>

-------------------------------------------------------------------------------
(* Undo, in the worker (executeReverse).                                   *)

StartReverse(w) ==
  /\ wk[w].pc = "load" /\ ~Settled(Job(w)) /\ ~Forward(Job(w))
  /\ row' = [row EXCEPT ![Job(w)].status = "executing"]
  /\ wk' = [wk EXCEPT ![w].pc = "revsend", ![w].todo = Row(w).ids]
  /\ UNCHANGED <<data, journal, ledger, preview, api, queue, mlock, bounds, ghosts>>

(* Mutant: every Undo is one group, back to the inbox.                     *)
ToInboxUniform(w) == Row(w).ids

(* reverseChangeGroups: a Delete splits on the placement its journal       *)
(* entry recorded, and restores to the archive when that is unknown; any   *)
(* other verb is one group, back to the inbox.                             *)
ToInbox(w) ==
  IF Row(w).verb = "delete" THEN journal[Act(w)].inbox \cap Row(w).ids ELSE Row(w).ids

RestoreTo(store, w, ids) ==
  LET inbox   == ids \cap ToInbox(w)
      archive == ids \ ToInbox(w)
  IN Modify(Modify(store, inbox, ReverseChange(Row(w).verb)),
            archive, ArchiveReverseChange(Row(w).verb))

(* One request per group, the inbox group first.                           *)
NextGroup(w) ==
  IF wk[w].todo \cap ToInbox(w) # {} THEN wk[w].todo \cap ToInbox(w) ELSE wk[w].todo

(* Mutant: the archive group is not sent.                                  *)
ReverseLandsFirstGroup(w) ==
  /\ wk[w].pc = "revsend"
  /\ gmail' = RestoreTo(gmail, w, NextGroup(w))
  /\ wk' = [wk EXCEPT ![w].todo = {}, ![w].pc = "revcommit"]
  /\ UNCHANGED <<mirror, policy, records, api, queue, mlock, bounds, ghosts>>

ReverseLands(w) ==
  /\ wk[w].pc = "revsend"
  /\ gmail' = RestoreTo(gmail, w, NextGroup(w))
  /\ wk' = [wk EXCEPT ![w].todo = @ \ NextGroup(w),
                      ![w].pc = IF wk[w].todo = NextGroup(w) THEN "revcommit" ELSE "revsend"]
  /\ UNCHANGED <<mirror, policy, records, api, queue, mlock, bounds, ghosts>>

(* The client, or a request, fails; the request may have been applied.     *)
ReverseFails(w) ==
  /\ wk[w].pc = "revsend"
  /\ \/ Fault("ambiguous") /\ gmail' = RestoreTo(gmail, w, NextGroup(w))
        /\ Throw(w, "TransientError")
     \/ Fault("refused") /\ UNCHANGED gmail
        /\ \E e \in Errors \ {"ValidationError"} : Throw(w, e)
  /\ UNCHANGED <<mirror, policy, records, api, queue, ghosts>>

(* The terminal transaction of an Undo.  The sender's one timer is cleared *)
(* only if it is this Later's, and no mail is left in Later.               *)
CommitReverse(w) ==
  /\ wk[w].pc = "revcommit"
  /\ journal' = [journal EXCEPT ![Act(w)].state = "reverted"]
  /\ mirror' = RestoreTo(mirror, w, Row(w).ids)
  /\ policy' = IF /\ Row(w).verb = "later"
                  /\ policy.until = Row(w).wake
                  /\ Carrying(mirror', "LATER") = {}
                 THEN [policy EXCEPT !.until = None] ELSE policy
  /\ row' = [row EXCEPT ![Job(w)].status = "done"]
  /\ Return(w)
  /\ UNCHANGED <<gmail, ledger, preview, api, queue, bounds, ghosts>>

-------------------------------------------------------------------------------
(* The API: a click, and what follows its transaction.                     *)

(* enqueueComposite: a Protected sender needs the "...anyway" confirm, and *)
(* a sender with a live forward row refuses another.  The row is committed *)
(* before the job is added.                                                *)
Click(a, verb, reach, wake, override) ==
  /\ row[Fwd(a)].status = "absent"
  /\ verb # "delete" => reach = "inbox_only"
  /\ (verb = "later") = (wake # None)
  /\ policy.protected => override
  /\ \A b \in Actions : ~Live(row[Fwd(b)])
  /\ row' = [row EXCEPT ![Fwd(a)] = NewRow(a, verb, reach, wake)]
  /\ api' = [api EXCEPT ![Fwd(a)] = [at |-> "add", conf |-> override /\ policy.protected]]
  /\ UNCHANGED <<data, journal, ledger, preview, queue, wk, mlock, bounds, ghosts>>

(* queue.add is a no-op when a job of that id exists in any state.         *)
Added(j) ==
  IF queue[j].state = "none"
    THEN [queue EXCEPT ![j] = [state |-> "waiting", owner |-> None, made |-> 0,
                               stalls |-> 0, conf |-> api[j].conf]]
    ELSE queue

QueueAdd(j) ==
  /\ api[j].at = "add"
  /\ queue' = Added(j)
  /\ api' = [api EXCEPT ![j] = NoRequest]
  /\ UNCHANGED <<data, records, wk, mlock, bounds, ghosts>>

(* The add throws, and may have landed.  A reviewed retry stays queued; a  *)
(* click or an Undo goes on to mark its row.                               *)
QueueAddThrows(j) ==
  /\ api[j].at = "add"
  /\ Fault("enqueue")
  /\ queue' \in {queue, Added(j)}
  /\ api' = [api EXCEPT ![j] = IF row[j].attempt > 0 /\ Forward(j) THEN NoRequest
                               ELSE [@ EXCEPT !.at = "caught"]]
  /\ UNCHANGED <<data, records, wk, mlock, ghosts>>

(* Mutant: the mark does not look at the status.                           *)
EnqueueFailedAlways(j) ==
  /\ api[j].at = "caught"
  /\ row' = [row EXCEPT ![j].status = "failed", ![j].err = "ENQUEUE_FAILED"]
  /\ api' = [api EXCEPT ![j] = NoRequest]
  /\ UNCHANGED <<data, journal, ledger, preview, queue, wk, mlock, bounds, ghosts>>

(* ... failed, but only while still queued: the job may be running.        *)
EnqueueFailed(j) ==
  /\ api[j].at = "caught"
  /\ row' = IF row[j].status = "queued"
              THEN [row EXCEPT ![j].status = "failed", ![j].err = "ENQUEUE_FAILED"]
              ELSE row
  /\ api' = [api EXCEPT ![j] = NoRequest]
  /\ Disown(j[1], Forward(j) /\ row[j].status = "queued" /\ queue[j].state # "none")
  /\ UNCHANGED <<data, journal, ledger, preview, queue, wk, mlock, bounds,
                 applied, racing, home>>

ApiCrash(j) ==
  /\ api[j].at # "idle"
  /\ Fault("api_crash")
  /\ api' = [api EXCEPT ![j] = NoRequest]
  /\ UNCHANGED <<data, records, queue, wk, mlock, ghosts>>

(* Undo: findRevertable, then enqueueRevert.  A second click finds the     *)
(* reverse row and, unless it read it done, goes on to reset it.           *)
Undo(a) ==
  /\ journal[a].state = "live"
  /\ api[Rev(a)].at = "idle"
  /\ \/ /\ row[Rev(a)].status = "absent"
        /\ row' = [row EXCEPT ![Rev(a)] = [row[Fwd(a)] EXCEPT !.status = "queued",
                                                              !.err = "none"]]
        /\ api' = [api EXCEPT ![Rev(a)].at = "add"]
     \/ /\ row[Rev(a)].status \notin {"absent", "done"}
        /\ api' = [api EXCEPT ![Rev(a)].at = "reset"]
        /\ UNCHANGED row
  /\ UNCHANGED <<data, journal, ledger, preview, queue, wk, mlock, bounds, ghosts>>

(* The reset is written by row id alone; a job BullMQ has locked cannot be *)
(* removed.                                                                *)
ResetRevert(a) ==
  /\ api[Rev(a)].at = "reset"
  /\ row' = [row EXCEPT ![Rev(a)].status = "queued", ![Rev(a)].err = "none"]
  /\ queue' = IF queue[Rev(a)].state = "active" THEN queue
              ELSE [queue EXCEPT ![Rev(a)] = NoQueueJob]
  /\ api' = [api EXCEPT ![Rev(a)].at = "add"]
  /\ UNCHANGED <<data, journal, ledger, preview, wk, mlock, bounds, ghosts>>

-------------------------------------------------------------------------------
(* The review of a failed attempt.                                         *)

(* createPreview: a failed forward attempt, the latest of its lineage,     *)
(* none of which is done, and no review of it is open.                     *)
Reviewable(a) ==
  /\ row[Fwd(a)].status = "failed"
  /\ \A b \in Lineage(row[Fwd(a)].root) :
       row[Fwd(b)].status # "done" /\ row[Fwd(b)].attempt <= row[Fwd(a)].attempt

OpenReview(a) ==
  /\ Reviewable(a)
  /\ preview[row[Fwd(a)].root].state \notin {"verifying", "ready"}
  /\ preview' = [preview EXCEPT ![row[Fwd(a)].root] =
                   [state |-> "verifying", current |-> a, target |-> {}]]
  /\ UNCHANGED <<data, row, journal, ledger, api, queue, wk, mlock, bounds, ghosts>>

(* ActionRecoveryWorker: freeze the target, refuse a deterministic         *)
(* failure, read Gmail, and offer what exists there.  A retry's selection  *)
(* is frozen; a first attempt that never resolved resolves now.            *)
ReviewTarget(r) == IF r.attempt > 0 THEN r.ids ELSE ExecutionSet(r)

VerifiedState(r) ==
  IF r.status # "failed" THEN "failed"
  ELSE IF ReviewTarget(r) = {} THEN "consumed"
  ELSE IF r.err \in {"PermanentError", "ValidationError"} THEN "failed"
  ELSE "ready"

VerifyReview(root) ==
  /\ preview[root].state = "verifying"
  /\ LET r == row[Fwd(preview[root].current)]
     IN preview' = [preview EXCEPT ![root].state = VerifiedState(r),
                                   ![root].target = ReviewTarget(r)]
  /\ UNCHANGED <<data, row, journal, ledger, api, queue, wk, mlock, bounds, ghosts>>

(* The review fails to read Gmail, fails to enqueue, or expires.           *)
CloseReview(root) ==
  /\ preview[root].state \in {"verifying", "ready"}
  /\ preview' = [preview EXCEPT ![root].state = "failed"]
  /\ UNCHANGED <<data, row, journal, ledger, api, queue, wk, mlock, bounds, ghosts>>

(* A Later whose sender already has a return time is not replayed.         *)
TimerSuperseded(r) == r.verb = "later" /\ policy.until # None

ConfirmReview(root, child, ack) ==
  LET parent == row[Fwd(preview[root].current)]
  IN /\ preview[root].state = "ready"
     /\ row[Fwd(child)].status = "absent"
     /\ parent.status = "failed"
     /\ preview[root].target # {}
     /\ policy.protected => ack
     /\ ~TimerSuperseded(parent)
     /\ row' = [row EXCEPT ![Fwd(child)] =
                  [parent EXCEPT !.status = "queued", !.err = "none",
                                 !.ids = preview[root].target,
                                 !.attempt = Cardinality(Lineage(root)), !.root = root]]
     /\ preview' = [preview EXCEPT ![root].state = "consumed"]
     /\ api' = [api EXCEPT ![Fwd(child)] =
                  [at |-> "add", conf |-> ack /\ policy.protected]]
     /\ UNCHANGED <<data, journal, ledger, queue, wk, mlock, bounds, ghosts>>

(* The same confirmation again: a retry still queued is added again.       *)
ReplayConfirm(a, ack) ==
  /\ row[Fwd(a)].attempt > 0 /\ row[Fwd(a)].status = "queued"
  /\ api[Fwd(a)].at = "idle"
  /\ api' = [api EXCEPT ![Fwd(a)] = [at |-> "add", conf |-> ack /\ policy.protected]]
  /\ UNCHANGED <<data, records, queue, wk, mlock, bounds, ghosts>>

-------------------------------------------------------------------------------
(* The user and the sync.                                                  *)

(* Protect or unprotect the sender.  A request already past its hook is    *)
(* racing the change.                                                      *)
SetProtected ==
  /\ Flip
  /\ policy' = [policy EXCEPT !.protected = ~@]
  /\ racing' = {w \in Workers : wk[w].pc = "send"}
  /\ UNCHANGED <<gmail, mirror, records, api, queue, wk, mlock, applied, home, disowned>>

(* The user moves a message into or out of the inbox in Gmail itself.      *)
MoveMail(m) ==
  /\ MayMove /\ Flip
  /\ gmail[m] \subseteq {"INBOX"}
  /\ gmail' = [gmail EXCEPT ![m] = {"INBOX"} \ @]
  /\ UNCHANGED <<mirror, policy, records, api, queue, wk, mlock, ghosts>>

(* Sync brings the mirror of a message up to date.  The initial scan takes *)
(* no mailbox lock; an incremental run's lock is left out.                 *)
SyncMessage(m) ==
  /\ mirror[m] # gmail[m]
  /\ mirror' = [mirror EXCEPT ![m] = gmail[m]]
  /\ UNCHANGED <<gmail, policy, records, api, queue, wk, mlock, bounds, ghosts>>

-------------------------------------------------------------------------------
(* What a worker does unless something fails.                              *)
WorkerStep(w) ==
  \/ AcquireLock(w) \/ SkipSettled(w) \/ StartForward(w) \/ StartReverse(w)
  \/ CheckProtected(w) \/ ResolveIds(w) \/ CommitEmpty(w) \/ GetClient(w)
  \/ MarkExecuting(w) \/ AssertNotProtected(w) \/ RequestLands(w)
  \/ ResetRefused(w) \/ ScheduleReturn(w) \/ Commit(w)
  \/ ReverseLands(w) \/ CommitReverse(w)
  \/ RecordFailure(w) \/ Settle(w)

WorkerFault(w) ==
  \/ LockTimesOut(w) \/ RecordFailureLost(w) \/ Crash(w)
  \/ RequestRefused(w) \/ RequestUncertain(w) \/ CommitUnacknowledged(w)
  \/ DatabaseFails(w) \/ ReverseFails(w)

ApiStep(j) == QueueAdd(j) \/ EnqueueFailed(j) \/ QueueAddThrows(j) \/ ApiCrash(j)

UserStep ==
  \/ \E a \in Actions, verb \in Verbs, reach \in Reaches, wake \in Wakes \cup {None},
        override \in BOOLEAN : Click(a, verb, reach, wake, override)
  \/ \E a \in Actions : Undo(a) \/ ResetRevert(a)
  \/ \E a \in Actions : OpenReview(a) \/ VerifyReview(a) \/ CloseReview(a)
  \/ \E a \in Actions, ack \in BOOLEAN :
       \/ ReplayConfirm(a, ack)
       \/ \E child \in Actions : ConfirmReview(a, child, ack)
  \/ SetProtected
  \/ \E m \in Messages : MoveMail(m) \/ SyncMessage(m)

Next ==
  \/ \E w \in Workers : WorkerStep(w) \/ WorkerFault(w) \/ \E j \in Jobs : Take(w, j)
  \/ \E j \in Jobs : ApiStep(j) \/ Stall(j)
  \/ UserStep

Spec == Init /\ [][Next]_vars

(* A worker that can step does; the advisory lock and the queue serve      *)
(* waiters in turn; a request that committed a row goes on to its add; the *)
(* stall check finds a job whose worker died.  Faults are never fair.      *)
Fairness ==
  /\ \A w \in Workers : WF_vars(WorkerStep(w)) /\ SF_vars(AcquireLock(w))
  /\ \A j \in Jobs :
       /\ SF_vars(\E w \in Workers : Take(w, j))
       /\ WF_vars(QueueAdd(j) \/ EnqueueFailed(j))
       /\ WF_vars(queue[j].owner = None /\ Stall(j))

LiveSpec == Spec /\ Fairness

-------------------------------------------------------------------------------
(* Properties.                                                             *)

(* A row that reads "queued", or failed only because its enqueue call      *)
(* threw, has changed nothing in Gmail.  The worker's Protected skip, the  *)
(* refresh of a Delete's placement and the reset after a refusal all rest  *)
(* on reading the status this way (neverReachedGmail).                     *)
QueuedNeverReachedGmail ==
  \A a \in Actions : NeverReachedGmail(row[Fwd(a)]) => applied[a] = {}

(* A row that ends as a Protected skip tells the truth: no message of it   *)
(* changed, and neither Activity, nor an event, nor Undo mentions it       *)
(* (recordProtected).                                                      *)
SkipIsTrue ==
  \A a \in Actions :
    row[Fwd(a)].err = "LABEL_SENDER_PROTECTED" =>
      applied[a] = {} /\ ledger[a] = 0 /\ journal[a] = NoEntry

(* Whatever an action changed in Gmail, over all its attempts and          *)
(* deliveries, lies in the execution set it saved; and once the action is  *)
(* recorded as done its Undo covers all of it.                             *)
ChangedIsUndoable ==
  \A a \in Actions :
    /\ applied[a] \subseteq row[Fwd(a)].ids
    /\ row[Fwd(a)].status = "done" /\ applied[a] # {} => journal[a].state # "none"

(* Retries, stalled duplicates and late deliveries record an action in     *)
(* Activity, and announce it in the outbox, at most once.                  *)
RecordedOnce == \A a \in Actions : ledger[a] <= 1

(* A Delete's Undo never puts into the inbox a message that was not there  *)
(* before, and a known placement is the true one, whatever retries, syncs  *)
(* and reviews happened between the first request and the journal entry,   *)
(* as long as no other decision, and no attempt marked failed before its   *)
(* run, touched the same messages.                                         *)
(* Stated for behaviours in which only Delete and its Undo move mail.      *)
PlacementIsTrue ==
  \A a \in Actions :
    LET r == row[Fwd(a)]
    IN /\ journal[a].inbox \subseteq home
       /\ journal[a].known /\ (\A b \in Actions : applied[b] \cap r.ids # {} =>
                                  row[Fwd(b)].root = r.root /\ b \notin disowned)
            => journal[a].inbox = home \cap r.ids

(* Undo never floods the inbox: where only Delete and its Undo move mail,  *)
(* what is in the inbox was there at the start (ADR-0028).                 *)
InboxNeverFlooded == Carrying(gmail, "INBOX") \subseteq home

(* Two requested Undos place the messages they share alike.                *)
UndosAgree(a, b) ==
  LET shared == row[Rev(a)].ids \cap row[Rev(b)].ids
  IN shared \cap journal[a].inbox = shared \cap journal[b].inbox

(* When an Undo of a Delete is recorded as reverted, however often it was  *)
(* retried, all its messages are out of the trash and exactly the ones its *)
(* journal entry places in the inbox are there; as long as no other Undo   *)
(* of the same messages places them elsewhere.                             *)
UndoRestoresDelete ==
  [][\A a \in Actions :
       LET ids == row[Rev(a)].ids
       IN (/\ journal[a].state = "live" /\ journal'[a].state = "reverted"
           /\ \A b \in Actions : UndosAgree(a, b)) =>
            /\ ids \cap Carrying(gmail', "TRASH") = {}
            /\ ids \cap Carrying(gmail', "INBOX") = ids \cap journal[a].inbox]_vars

(* A decision and its reviewed retries apply, and issue an Undo, at most   *)
(* once between them; unless one of the two was marked failed while a run  *)
(* of it was still to come, under way or over with a commit.  Neither the  *)
(* API's mark after an add that threw, nor onTerminalFailure, nor the      *)
(* review looks for such a run.                                            *)
OneAttemptSucceeds ==
  \A a, b \in Actions :
    (journal[a] # NoEntry /\ journal[b] # NoEntry
       /\ row[Fwd(a)].root = row[Fwd(b)].root) => a = b \/ {a, b} \cap disowned # {}

(* The stored placement of a Delete covers the set a retry of it sends, so *)
(* the worker's scope refusal is never met: unless an attempt of the       *)
(* lineage was marked failed with its run still to come, in which case the *)
(* review may freeze one set while that run saves, and measures, another.  *)
PlacementCovers ==
  \A w \in Workers :
    wk[w].pc = "hook" /\ PlacementRefused(w) => Lineage(Row(w).root) \cap disowned # {}

(* No message of a Protected sender changes without the user's confirm,    *)
(* except by a request that had already passed its check when the sender   *)
(* was protected.                                                          *)
ProtectedMailStays ==
  [][\A w \in Workers :
       (gmail' # gmail /\ wk[w].pc = "send" /\ wk'[w] # wk[w] /\ policy.protected)
         => wk[w].conf \/ w \in racing]_vars

(* The run that holds the job will end its row, or have it run again.      *)
AtWork(w, j) ==
  /\ queue[j].owner = w /\ wk[w].job = j /\ wk[w].pc # "idle"
  /\ wk[w].pc = "end" => wk[w].err # "none" /\ ~Terminal(wk[w].err, wk[w].try)

Carried(j) ==
  \/ api[j].at = "add" /\ queue[j].state = "none"
  \/ api[j].at = "caught" /\ row[j].status = "queued"
  \/ queue[j].state = "waiting"
  \/ queue[j].state = "active" /\ (queue[j].owner = None \/ \E w \in Workers : AtWork(w, j))

(* The ways there are to lose a row: the API died before the add; the add  *)
(* of a reviewed retry threw, and confirming it again adds it; BullMQ gave *)
(* up a job past its stalls; the failure of its last run could not be      *)
(* recorded; or one was recorded beside a run that was not over.           *)
Forgotten(j) ==
  \/ /\ queue[j].state = "none" /\ row[j].status = "queued"
     /\ "api_crash" \in FaultKinds \/ row[j].attempt > 0
  \/ queue[j].state = "failed" /\ queue[j].stalls >= MaxStalls
  \/ /\ "database" \in FaultKinds
     /\ queue[j].state = "failed" \/ \E w \in Workers : queue[j].owner = w /\ wk[w].pc = "end"
  \/ j[1] \in disowned

(* No click is forgotten: whatever crashes, stalls, throws or overtakes, a *)
(* live row, which blocks every later action of its sender, has somebody   *)
(* left who will end it, but for the ways named above.                     *)
ClickIsCarried ==
  \A a \in Actions : Live(row[Fwd(a)]) => Carried(Fwd(a)) \/ Forgotten(Fwd(a))

(* Every click settles: its row ends done or failed, so that it neither    *)
(* spins in the UI nor blocks the sender's next action for good.           *)
EveryClickSettles ==
  \A a \in Actions : Live(row[Fwd(a)]) ~> ~Live(row[Fwd(a)])

===============================================================================
