-------------------------------- MODULE Outbox --------------------------------
(***************************************************************************)
(* The transactional outbox: events committed with the writes they         *)
(* announce (OutboxPublisher), and the OutboxDispatcherWorker that hands   *)
(* each to its consumer.                                                   *)
(*                                                                         *)
(* A tick claims a batch with FOR UPDATE SKIP LOCKED and runs the          *)
(* consumers inside the claim's transaction, so what it writes is a draft  *)
(* until the commit.  A consumer call that outlives its deadline is        *)
(* abandoned and keeps running: until it settles, no event of its unit --  *)
(* its (topic, aggregateId), orphanGuardKey -- is handed out again by the  *)
(* same process.                                                           *)
(***************************************************************************)
EXTENDS Naturals, FiniteSets

CONSTANTS
  Events,       \* outbox rows
  Units,        \* the (topic, aggregateId) pairs
  UnitOf,       \* the unit of each event
  Processes,    \* dispatcher processes
  Overlap,      \* whether two may be live at once (a deploy)
  BatchMax,     \* claimBatchSize
  MaxAttempts,  \* maxAttempts
  Ceiling,      \* timeoutStuckCeilingMs, in clock ticks
  FaultKinds,   \* the kinds of fault the environment may inject
  MaxFaults,    \* bound: faults in one behaviour
  None          \* no event, no streak

AllFaults == {"crash", "stop", "admission", "connection", "unacked", "escalation"}

ASSUME UnitAssumption == UnitOf \in [Events -> Units]

ASSUME EventsAssumption == IsFiniteSet(Events) /\ None \notin Events

ASSUME LimitsAssumption ==
  /\ BatchMax \in Nat \ {0}
  /\ MaxAttempts \in Nat \ {0}
  /\ Ceiling \in Nat \ {0}
  /\ None \notin 0..Ceiling

ASSUME FaultsAssumption ==
  /\ MaxFaults \in Nat
  /\ FaultKinds \subseteq AllFaults
  /\ Overlap \in BOOLEAN

VARIABLES
  outbox,    \* outbox_events, as committed
  tick,      \* per process: the tick it runs
  draft,     \* per process: what the tick's transaction wrote
  orphans,   \* per process: orphanedEvents, by unit
  streak,    \* per process: age of each event's timeoutStuckSince
  detached,  \* per process: abandoned consumer calls still running
  faults,
  consumed,  \* ghost: events a consumer call of which returned to its tick
  throws,    \* ghost: consumer failures of each event that were no timeout
  stuck,     \* ghost: events that timed out for as long as the ceiling
  reports    \* ghost: times the observer was told that an event failed

memory == <<orphans, streak>>
ghosts == <<consumed, throws, stuck, reports>>
vars == <<outbox, tick, draft, memory, detached, faults, ghosts>>

-------------------------------------------------------------------------------
(* attempts saturates at MaxAttempts: the code compares it with no more.   *)
Rows == [status : {"absent", "pending", "dispatched", "failed"},
         attempts : 0..MaxAttempts, born : Nat]
AbsentRow == [status |-> "absent", attempts |-> 0, born |-> 0]

(* A tick: where it is, the event handed to the consumer, the rows its     *)
(* transaction locks, those not yet handed out, the failures to report     *)
(* once it commits, and whether its connection broke.                      *)
Points == {"down", "idle", "loop", "call", "report", "escalate"}
Ticks == [pc : Points, cur : Events \cup {None}, held : SUBSET Events,
          left : SUBSET Events, failed : SUBSET Events, broken : BOOLEAN,
          stopping : BOOLEAN]
NoTick(pc, stopping) ==
  [pc |-> pc, cur |-> None, held |-> {}, left |-> {}, failed |-> {},
   broken |-> FALSE, stopping |-> stopping]

NoOrphan == [event |-> None, age |-> 0, escalated |-> FALSE]
Orphans == [event : Events \cup {None}, age : 0..Ceiling, escalated : BOOLEAN]

Ages == 0..Ceiling \cup {None}

TypeOK ==
  /\ outbox \in [Events -> Rows]
  /\ tick \in [Processes -> Ticks]
  /\ draft \in [Processes -> [Events -> Rows]]
  /\ orphans \in [Processes -> [Units -> Orphans]]
  /\ streak \in [Processes -> [Events -> Ages]]
  /\ detached \in [Processes -> SUBSET Events]
  /\ faults \in Nat
  /\ consumed \subseteq Events /\ stuck \subseteq Events
  /\ throws \in [Events -> 0..MaxAttempts]
  /\ reports \in [Events -> Nat]

NoDraft == [e \in Events |-> AbsentRow]
NoOrphans == [u \in Units |-> NoOrphan]
NoStreaks == [e \in Events |-> None]

Init ==
  /\ outbox = [e \in Events |-> AbsentRow]
  /\ tick = [p \in Processes |-> NoTick("down", FALSE)]
  /\ draft = [p \in Processes |-> NoDraft]
  /\ orphans = [p \in Processes |-> NoOrphans]
  /\ streak = [p \in Processes |-> NoStreaks]
  /\ detached = [p \in Processes |-> {}]
  /\ faults = 0
  /\ consumed = {} /\ stuck = {}
  /\ throws = [e \in Events |-> 0]
  /\ reports = [e \in Events |-> 0]

Fault(kind) ==
  /\ kind \in FaultKinds
  /\ faults < MaxFaults
  /\ faults' = faults + 1

Bumped(n) == IF n < MaxAttempts THEN n + 1 ELSE n

Live(p) == tick[p].pc # "down"
Pending(e) == outbox[e].status = "pending"

(* The guard of a unit holds until its abandoned call settles.             *)
Orphaned(p, e) == orphans[p][UnitOf[e]].event # None
Open(p) == tick[p].pc = "loop" /\ ~tick[p].broken

-------------------------------------------------------------------------------
(* OutboxPublisher.publish, inside the transaction of the business write.  *)
(* A deterministic id that exists already is left alone.                   *)
Publish(e) ==
  /\ outbox[e].status = "absent"
  /\ outbox' = [outbox EXCEPT ![e] =
                  [status |-> "pending", attempts |-> 0,
                   born |-> 1 + Cardinality({f \in Events : outbox[f].status # "absent"})]]
  /\ UNCHANGED <<tick, draft, memory, detached, faults, ghosts>>

(* start(): its first tick is an ordinary one.                             *)
Start(p) ==
  /\ ~Live(p)
  /\ Overlap \/ \A q \in Processes : ~Live(q)
  /\ tick' = [tick EXCEPT ![p] = NoTick("idle", FALSE)]
  /\ UNCHANGED <<outbox, draft, memory, detached, faults, ghosts>>

(* What the claim of p can see: pending rows no other transaction locks,   *)
(* of units with no abandoned call of this process.                        *)
Claimable(p) ==
  {e \in Events : /\ Pending(e) /\ ~Orphaned(p, e)
                  /\ \A q \in Processes \ {p} : e \notin tick[q].held}

(* The oldest BatchMax of them.                                            *)
Batches(p) ==
  {b \in SUBSET Claimable(p) :
     /\ Cardinality(b) = IF Cardinality(Claimable(p)) < BatchMax
                           THEN Cardinality(Claimable(p)) ELSE BatchMax
     /\ \A e \in b, f \in Claimable(p) \ b : outbox[e].born < outbox[f].born}

(* tick(): a notification or the poll finds no tick in flight.             *)
Claim(p) ==
  /\ tick[p].pc = "idle" /\ ~tick[p].stopping
  /\ \E b \in Batches(p) :
       /\ tick' = [tick EXCEPT ![p].pc = "loop", ![p].held = b, ![p].left = b]
       /\ draft' = [draft EXCEPT ![p] = [e \in Events |-> IF e \in b THEN outbox[e]
                                                           ELSE AbsentRow]]
  /\ UNCHANGED <<outbox, memory, detached, faults, ghosts>>

(* The admission is refused, or the claim fails: nothing is claimed, and   *)
(* the tick goes on to its escalations.                                    *)
ClaimRefused(p) ==
  /\ tick[p].pc = "idle" /\ ~tick[p].stopping
  /\ Fault("admission")
  /\ tick' = [tick EXCEPT ![p].pc = "escalate"]
  /\ UNCHANGED <<outbox, draft, memory, detached, ghosts>>

NextRow(p, e) == e \in tick[p].left /\ \A f \in tick[p].left : outbox[e].born <= outbox[f].born

(* Mutant: a row of a unit orphaned earlier in the batch is not skipped.   *)
SkipOrphanedNever(p, e) == FALSE

(* A row whose unit was orphaned earlier in this very batch.               *)
SkipOrphaned(p, e) == Orphaned(p, e)

Skip(p) ==
  /\ Open(p)
  /\ \E e \in Events :
       /\ NextRow(p, e) /\ SkipOrphaned(p, e)
       /\ tick' = [tick EXCEPT ![p].left = @ \ {e}]
  /\ UNCHANGED <<outbox, draft, memory, detached, faults, ghosts>>

Invoke(p) ==
  /\ Open(p)
  /\ \E e \in Events :
       /\ NextRow(p, e) /\ ~SkipOrphaned(p, e)
       /\ tick' = [tick EXCEPT ![p].pc = "call", ![p].cur = e, ![p].left = @ \ {e}]
  /\ UNCHANGED <<outbox, draft, memory, detached, faults, ghosts>>

-------------------------------------------------------------------------------
(* The consumer call, awaited by the tick.                                 *)

(* The row is written in the draft and the loop goes on.                   *)
Bookkeep(p, e, r) ==
  /\ draft' = [draft EXCEPT ![p][e] = r]
  /\ tick' = [tick EXCEPT ![p].pc = "loop", ![p].cur = None,
                          ![p].failed = IF r.status = "failed" THEN @ \cup {e} ELSE @]

CallReturns(p) ==
  LET e == tick[p].cur
  IN /\ tick[p].pc = "call"
     /\ Bookkeep(p, e, [draft[p][e] EXCEPT !.status = "dispatched"])
     /\ streak' = [streak EXCEPT ![p][e] = None]
     /\ consumed' = consumed \cup {e}
     /\ UNCHANGED <<outbox, orphans, detached, faults, throws, stuck, reports>>

(* A failure that is no timeout counts, and ends the event once it makes   *)
(* the count maxAttempts.                                                  *)
AfterThrow(r) ==
  [r EXCEPT !.attempts = Bumped(@),
            !.status = IF Bumped(r.attempts) >= MaxAttempts THEN "failed" ELSE @]

(* The consumer throws, or it succeeds and the mark of its row fails.      *)
CallThrows(p) ==
  LET e == tick[p].cur
  IN /\ tick[p].pc = "call"
     /\ Bookkeep(p, e, AfterThrow(draft[p][e]))
     /\ streak' = [streak EXCEPT ![p][e] = None]
     /\ throws' = [throws EXCEPT ![e] = Bumped(@)]
     /\ UNCHANGED <<outbox, orphans, detached, faults, consumed, stuck, reports>>

(* Whether this timeout's streak has lasted as long as the ceiling.        *)
StreakOver(p, e) == streak[p][e] = Ceiling

(* Mutant: a timeout is a success of the call that goes on.                *)
AfterTimeoutDone(p, e) ==
  [draft[p][e] EXCEPT !.attempts = Bumped(@), !.status = "dispatched"]

(* A timeout counts as an attempt; only the ceiling ends the event.        *)
AfterTimeout(p, e) ==
  [draft[p][e] EXCEPT !.attempts = Bumped(@),
                      !.status = IF StreakOver(p, e) THEN "failed" ELSE @]

(* The deadline passes first: the call goes on, tracked by its unit.       *)
CallTimesOut(p) ==
  LET e == tick[p].cur
  IN /\ tick[p].pc = "call"
     /\ Bookkeep(p, e, AfterTimeout(p, e))
     /\ detached' = [detached EXCEPT ![p] = @ \cup {e}]
     /\ orphans' = [orphans EXCEPT ![p][UnitOf[e]] =
                      [event |-> e, age |-> 0, escalated |-> FALSE]]
     /\ streak' = [streak EXCEPT ![p][e] = IF StreakOver(p, e) THEN None
                                           ELSE IF @ = None THEN 0 ELSE @]
     /\ stuck' = IF StreakOver(p, e) THEN stuck \cup {e} ELSE stuck
     /\ UNCHANGED <<outbox, faults, consumed, throws, reports>>

(* An abandoned call settles, either way, and stops guarding its unit.     *)
Settle(p, e) ==
  /\ e \in detached[p]
  /\ detached' = [detached EXCEPT ![p] = @ \ {e}]
  /\ orphans' = IF orphans[p][UnitOf[e]].event = e
                  THEN [orphans EXCEPT ![p][UnitOf[e]] = NoOrphan] ELSE orphans
  /\ UNCHANGED <<outbox, tick, draft, streak, faults, ghosts>>

-------------------------------------------------------------------------------
(* The end of the tick's transaction.                                      *)

Committed(p) ==
  [e \in Events |-> IF e \in tick[p].held THEN draft[p][e] ELSE outbox[e]]

CloseTx(p, pc, failed) ==
  /\ tick' = [tick EXCEPT ![p] = [NoTick(pc, @.stopping) EXCEPT !.failed = failed]]
  /\ draft' = [draft EXCEPT ![p] = NoDraft]

Commit(p) ==
  /\ Open(p) /\ tick[p].left = {}
  /\ outbox' = Committed(p)
  /\ CloseTx(p, "report", tick[p].failed)
  /\ UNCHANGED <<memory, detached, faults, ghosts>>

(* The commit lands but the connection dies before the answer.             *)
CommitUnacknowledged(p) ==
  /\ Open(p) /\ tick[p].left = {}
  /\ Fault("unacked")
  /\ outbox' = Committed(p)
  /\ CloseTx(p, "escalate", {})
  /\ UNCHANGED <<memory, detached, ghosts>>

(* The transaction's connection dies: its locks and its draft are gone,    *)
(* whatever the process is doing.                                          *)
ConnectionLost(p) ==
  /\ tick[p].pc \in {"loop", "call"} /\ ~tick[p].broken
  /\ Fault("connection")
  /\ tick' = [tick EXCEPT ![p].broken = TRUE, ![p].held = {}]
  /\ UNCHANGED <<outbox, draft, memory, detached, ghosts>>

(* The next statement on it throws out of the tick.                        *)
Abort(p) ==
  /\ tick[p].pc = "loop" /\ tick[p].broken
  /\ CloseTx(p, "escalate", {})
  /\ UNCHANGED <<outbox, memory, detached, faults, ghosts>>

(* Failures are reported once the transaction has committed them.          *)
Report(p) ==
  /\ tick[p].pc = "report"
  /\ reports' = [e \in Events |-> IF e \in tick[p].failed THEN reports[e] + 1 ELSE reports[e]]
  /\ tick' = [tick EXCEPT ![p].pc = "escalate", ![p].failed = {}]
  /\ UNCHANGED <<outbox, draft, memory, detached, faults, consumed, throws, stuck>>

-------------------------------------------------------------------------------
(* escalateStuckOrphans: an abandoned call that outlives the ceiling.      *)

(* Mutant: what was orphaned waits for its call, however long it runs.    *)
DueNever(p, u) == FALSE

Due(p, u) ==
  LET o == orphans[p][u]
  IN o.event # None /\ ~o.escalated /\ o.age = Ceiling

Escalates(e) == Pending(e)

(* The update waits for a lock another process holds, then re-reads.       *)
EscalateOne(p, u) ==
  LET e == orphans[p][u].event
  IN /\ tick[p].pc = "escalate" /\ Due(p, u)
     /\ \A q \in Processes : e \notin tick[q].held
     /\ outbox' = IF Escalates(e) THEN [outbox EXCEPT ![e].status = "failed"] ELSE outbox
     /\ reports' = IF Escalates(e) THEN [reports EXCEPT ![e] = @ + 1] ELSE reports
     /\ stuck' = stuck \cup {e}
     /\ orphans' = [orphans EXCEPT ![p][u].escalated = TRUE]
     /\ streak' = [streak EXCEPT ![p][e] = None]
     /\ UNCHANGED <<tick, draft, detached, faults, consumed, throws>>

EndTick(p) ==
  /\ tick[p].pc = "escalate"
  /\ \A u \in Units : ~Due(p, u)
  /\ tick' = [tick EXCEPT ![p].pc = "idle"]
  /\ UNCHANGED <<outbox, draft, memory, detached, faults, ghosts>>

(* The update throws: the next tick tries again.                           *)
EscalationFails(p) ==
  /\ tick[p].pc = "escalate" /\ \E u \in Units : Due(p, u)
  /\ Fault("escalation")
  /\ tick' = [tick EXCEPT ![p].pc = "idle"]
  /\ UNCHANGED <<outbox, draft, memory, detached, ghosts>>

-------------------------------------------------------------------------------
(* The process.                                                            *)

Die(p) ==
  /\ tick' = [tick EXCEPT ![p] = NoTick("down", FALSE)]
  /\ draft' = [draft EXCEPT ![p] = NoDraft]
  /\ orphans' = [orphans EXCEPT ![p] = NoOrphans]
  /\ streak' = [streak EXCEPT ![p] = NoStreaks]
  /\ detached' = [detached EXCEPT ![p] = {}]

(* Its locks, its draft, its memory and its calls go with it.              *)
Crash(p) ==
  /\ Live(p)
  /\ Fault("crash")
  /\ Die(p)
  /\ UNCHANGED <<outbox, ghosts>>

(* stop(): no new tick starts, the running one drains.                     *)
Stop(p) ==
  /\ Live(p) /\ ~tick[p].stopping
  /\ Fault("stop")
  /\ tick' = [tick EXCEPT ![p].stopping = TRUE]
  /\ UNCHANGED <<outbox, draft, memory, detached, ghosts>>

(* ... and the process ends without waiting for its abandoned calls.       *)
Exit(p) ==
  /\ tick[p].stopping /\ tick[p].pc = "idle"
  /\ Die(p)
  /\ UNCHANGED <<outbox, faults, ghosts>>

Older(age) == IF age \in 0..(Ceiling - 1) THEN age + 1 ELSE age

(* Time passes; past the ceiling, ages are not told apart.                 *)
Clock ==
  /\ orphans' = [p \in Processes |-> [u \in Units |->
                   IF orphans[p][u].event = None THEN NoOrphan
                   ELSE [orphans[p][u] EXCEPT !.age = Older(@)]]]
  /\ streak' = [p \in Processes |-> [e \in Events |-> Older(streak[p][e])]]
  /\ memory' # memory
  /\ UNCHANGED <<outbox, tick, draft, detached, faults, ghosts>>

-------------------------------------------------------------------------------
(* What a running tick does by itself.  The deadline bounds every call.    *)
TickStep(p) ==
  \/ Skip(p) \/ Invoke(p) \/ CallReturns(p) \/ CallThrows(p) \/ CallTimesOut(p)
  \/ Commit(p) \/ Abort(p) \/ Report(p)
  \/ (\E u \in Units : EscalateOne(p, u)) \/ EndTick(p)

TickFault(p) ==
  \/ ClaimRefused(p) \/ CommitUnacknowledged(p) \/ ConnectionLost(p)
  \/ EscalationFails(p) \/ Crash(p) \/ Stop(p)

Next ==
  \/ \E e \in Events : Publish(e)
  \/ \E p \in Processes :
       \/ Start(p) \/ Exit(p) \/ Claim(p) \/ TickStep(p) \/ TickFault(p)
       \/ \E e \in Events : Settle(p, e)
  \/ Clock

Spec == Init /\ [][Next]_vars

(* The poll starts ticks, a tick goes on, time passes, and the platform    *)
(* restarts a process that is gone.  Nothing makes an abandoned call end.  *)
Fairness ==
  /\ \A p \in Processes : WF_vars(Claim(p)) /\ WF_vars(TickStep(p))
                          /\ WF_vars(Start(p)) /\ WF_vars(Exit(p))
  /\ WF_vars(Clock)

LiveSpec == Spec /\ Fairness

-------------------------------------------------------------------------------
(* Properties.                                                             *)

(* The consumer calls of a process that run for a unit.                    *)
Running(p, u) ==
  {c \in Events \X {"awaited", "abandoned"} :
     /\ UnitOf[c[1]] = u
     /\ IF c[2] = "awaited" THEN tick[p].pc = "call" /\ c[1] = tick[p].cur
                            ELSE c[1] \in detached[p]}

(* "The same event's consumer is never invoked again while a previous call *)
(* for it is still running", nor is that of another event of its unit, by  *)
(* the same process: no timeout in mid-batch, rollback, refused admission  *)
(* or failed escalation lets two calls of a unit overlap.                  *)
NeverOverlapsItself ==
  \A p \in Processes, u \in Units : Cardinality(Running(p, u)) <= 1

(* An event may be given up for the reasons the code names: its budget is  *)
(* spent and a failure of it was the consumer's own, or it did nothing but *)
(* time out for as long as the ceiling.                                    *)
Causes ==
  {e \in Events : e \in stuck \/ (outbox[e].attempts = MaxAttempts /\ throws[e] > 0)}

(* The dispatcher keeps the contract of its consumers, although two        *)
(* processes of a deploy claim, commit, escalate and die side by side: a   *)
(* row is dispatched only after a call of its consumer returned to the     *)
(* tick that awaited it (an abandoned call never counts), is given up only *)
(* for cause, never changes once it left pending, and is reported once at  *)
(* most, never when its failure was rolled back.                           *)
Contract == INSTANCE AtLeastOnce
  WITH status <- [e \in Events |-> outbox[e].status],
       heard <- consumed, causes <- Causes, told <- reports
ContractKept == Contract!Spec

(* Every event is dispatched or given up, unless it waits behind a call of *)
(* another event of its unit that was abandoned: not even a call that      *)
(* never settles holds up its own event, or the events of other units.     *)
EveryEventSettles ==
  \A e \in Events :
    Pending(e) ~> \/ ~Pending(e)
                  \/ \E p \in Processes, f \in Events \ {e} :
                       f \in detached[p] /\ UnitOf[f] = UnitOf[e]

===============================================================================
