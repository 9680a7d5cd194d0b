----------------------------- MODULE OutboxProofs -----------------------------
(***************************************************************************)
(* Proofs about Outbox, for every finite set of events, every assignment   *)
(* of them to units, every batch size, attempt limit and ceiling, any      *)
(* number of live dispatcher processes and of faults of any kind.          *)
(*                                                                         *)
(* Two arguments carry it.  The rows a tick's transaction locks are        *)
(* pending and locked by nobody else, so the draft it will commit is the   *)
(* only one there is of them, and says of each row what a consumer call    *)
(* made true (DraftInv).  And a process remembers each abandoned call in   *)
(* the guard of its unit, and awaits a call only in a unit whose guard is  *)
(* free (GuardInv).                                                        *)
(***************************************************************************)
EXTENDS Outbox, FiniteSetTheorems, TLAPS

-------------------------------------------------------------------------------
(* The inductive invariant.                                                *)

InTx(p) == tick[p].pc \in {"loop", "call"}

(* A row is reported only once it failed; one never published is untouched. *)
RowInv(e) ==
  /\ outbox[e].status = "absent" => outbox[e].attempts = 0
  /\ reports[e] > 0 => outbox[e].status = "failed"

TickInv(p) ==
  /\ ~InTx(p) => tick[p].held = {} /\ tick[p].left = {} /\ ~tick[p].broken
  /\ ~tick[p].broken => tick[p].left \subseteq tick[p].held
  /\ \A e \in tick[p].left : outbox[e].status # "absent"
  /\ tick[p].pc = "call" =>
       /\ tick[p].cur \in Events \ tick[p].left
       /\ outbox[tick[p].cur].status # "absent"
       /\ ~tick[p].broken => tick[p].cur \in tick[p].held

(* What a tick has noted as failed, it has failed in its draft, and then   *)
(* in the table, where nobody has reported it yet.                         *)
FailedInv(p) ==
  /\ tick[p].pc \in {"down", "idle", "escalate"} => tick[p].failed = {}
  /\ InTx(p) /\ ~tick[p].broken =>
       \A e \in tick[p].failed : e \in tick[p].held /\ draft[p][e].status = "failed"
  /\ tick[p].pc = "report" =>
       \A e \in tick[p].failed : outbox[e].status = "failed" /\ reports[e] = 0

Unhandled(p, e) == e \in tick[p].left \/ (tick[p].pc = "call" /\ tick[p].cur = e)

(* A row the transaction of p locks, and the draft it has of it.           *)
DraftInv(p, e) ==
  /\ Pending(e)
  /\ draft[p][e].status # "absent"
  /\ Unhandled(p, e) => draft[p][e].status = "pending"
  /\ outbox[e].attempts <= draft[p][e].attempts
  /\ draft[p][e].status = "dispatched" => e \in consumed
  /\ draft[p][e].status = "failed" =>
       e \in stuck \/ (draft[p][e].attempts = MaxAttempts /\ throws[e] > 0)

(* No row is locked twice, and no failure is two processes' to report.     *)
Apart(p, q) ==
  /\ tick[p].held \cap tick[q].held = {}
  /\ tick[p].pc = "report" /\ tick[q].pc = "report" =>
       tick[p].failed \cap tick[q].failed = {}

GuardInv(p) ==
  /\ \A e \in detached[p] : orphans[p][UnitOf[e]].event = e
  /\ tick[p].pc = "call" => ~Orphaned(p, tick[p].cur)

TxInv(p) ==
  TickInv(p) /\ FailedInv(p) /\ \A e \in tick[p].held : DraftInv(p, e)

TableInv ==
  /\ \A e \in Events : RowInv(e)
  /\ \A p \in Processes : TxInv(p)
  /\ \A p, q \in Processes : p # q => Apart(p, q)

IInv == TypeOK /\ TableInv /\ \A p \in Processes : GuardInv(p)
-------------------------------------------------------------------------------
(* What a step does to the process that takes it.                          *)

USE UnitAssumption, EventsAssumption, LimitsAssumption, FaultsAssumption
USE DEF vars, memory, ghosts

(* Only the tick of p moves, and it becomes t.                             *)
Moves(p, t) ==
  /\ tick' \in [Processes -> Ticks]
  /\ tick'[p] = t
  /\ \A q \in Processes \ {p} : tick'[q] = tick[q]

(* Only p's draft is written, and it becomes d.                            *)
Writes(p, d) ==
  /\ draft' \in [Processes -> [Events -> Rows]]
  /\ draft'[p] = d
  /\ \A q \in Processes \ {p} : draft'[q] = draft[q]

(* A tick that is set to a tick moves to it.                               *)
LEMMA TickMoves ==
  ASSUME TypeOK, NEW p \in Processes, NEW t \in Ticks, tick' = [tick EXCEPT ![p] = t]
  PROVE  Moves(p, t)
  BY DEF TypeOK, Moves

(* A draft that is set to rows is written.                                 *)
LEMMA DraftWrites ==
  ASSUME TypeOK, NEW p \in Processes, NEW d \in [Events -> Rows],
         draft' = [draft EXCEPT ![p] = d]
  PROVE  Writes(p, d)
  BY DEF TypeOK, Writes

(* Every tick is a tick.                                                   *)
LEMMA TickType ==
  ASSUME TypeOK, NEW p \in Processes
  PROVE  tick[p] \in Ticks
  BY DEF TypeOK

(* A fault is one more, and nothing else.                                  *)
LEMMA FaultType ==
  ASSUME TypeOK, NEW kind, Fault(kind)
  PROVE  faults' \in Nat
  BY DEF TypeOK, Fault

(* The attempt count stays within its bound.                               *)
LEMMA BumpedType ==
  ASSUME NEW n \in 0..MaxAttempts
  PROVE  Bumped(n) \in 0..MaxAttempts /\ n <= Bumped(n) /\ Bumped(n) > 0
  BY DEF Bumped

(* A tick that has nothing in hand is a tick; the empty draft is a draft.  *)
LEMMA Blank ==
  /\ \A pc \in Points, stopping \in BOOLEAN : NoTick(pc, stopping) \in Ticks
  /\ AbsentRow \in Rows
  /\ NoDraft \in [Events -> Rows]
  /\ NoOrphan \in Orphans
  /\ NoOrphans \in [Units -> Orphans]
  /\ NoStreaks \in [Events -> Ages]
<1>1. \A pc \in Points, stopping \in BOOLEAN : NoTick(pc, stopping) \in Ticks
  BY DEF NoTick, Ticks
<1>2. AbsentRow \in Rows
  BY DEF AbsentRow, Rows
<1>3. NoDraft \in [Events -> Rows]
  BY <1>2 DEF NoDraft
<1>4. NoOrphan \in Orphans
  BY DEF NoOrphan, Orphans
<1>5. NoOrphans \in [Units -> Orphans]
  BY <1>4 DEF NoOrphans
<1>6. NoStreaks \in [Events -> Ages]
  BY DEF NoStreaks, Ages
<1> QED
  BY <1>1, <1>2, <1>3, <1>4, <1>5, <1>6

(* The event handed to a consumer is an event.                             *)
LEMMA CurIsEvent ==
  ASSUME IInv, NEW p \in Processes, tick[p].pc = "call"
  PROVE  /\ tick[p].cur \in Events
         /\ draft[p][tick[p].cur] \in Rows
         /\ UnitOf[tick[p].cur] \in Units
  BY DEF IInv, TableInv, TxInv, TickInv, TypeOK

(* A process that starts has nothing in hand.                              *)
LEMMA StartEffect ==
  ASSUME TypeOK, NEW p \in Processes, Start(p)
  PROVE  Moves(p, NoTick("idle", FALSE))
  BY TickMoves, Blank DEF Start, Points

(* A process that ends loses its tick, its draft and its memory.           *)
LEMMA DieEffect ==
  ASSUME TypeOK, NEW p \in Processes, Die(p)
  PROVE  /\ Moves(p, NoTick("down", FALSE)) /\ Writes(p, NoDraft)
         /\ orphans' \in [Processes -> [Units -> Orphans]]
         /\ \A q \in Processes \ {p} : orphans'[q] = orphans[q]
         /\ streak' \in [Processes -> [Events -> Ages]]
         /\ detached' \in [Processes -> SUBSET Events] /\ detached'[p] = {}
         /\ \A q \in Processes \ {p} : detached'[q] = detached[q]
<1>1. Moves(p, NoTick("down", FALSE))
  BY TickMoves, Blank DEF Die, Points
<1>2. Writes(p, NoDraft)
  BY DraftWrites, Blank DEF Die
<1>3. /\ orphans' \in [Processes -> [Units -> Orphans]]
      /\ \A q \in Processes \ {p} : orphans'[q] = orphans[q]
  BY Blank DEF Die, TypeOK
<1>4. streak' \in [Processes -> [Events -> Ages]]
  BY Blank DEF Die, TypeOK
<1>5. /\ detached' \in [Processes -> SUBSET Events] /\ detached'[p] = {}
      /\ \A q \in Processes \ {p} : detached'[q] = detached[q]
  BY DEF Die, TypeOK
<1> QED
  BY <1>1, <1>2, <1>3, <1>4, <1>5

(* A claim locks a batch of what p could claim, and drafts it as it is.    *)
LEMMA ClaimEffect ==
  ASSUME TypeOK, NEW p \in Processes, Claim(p)
  PROVE  \E b \in SUBSET Claimable(p) :
           /\ Moves(p, [tick[p] EXCEPT !.pc = "loop", !.held = b, !.left = b])
           /\ Writes(p, [e \in Events |-> IF e \in b THEN outbox[e] ELSE AbsentRow])
<1>1. PICK b \in SUBSET Claimable(p) :
        /\ tick' = [tick EXCEPT ![p].pc = "loop", ![p].held = b, ![p].left = b]
        /\ draft' = [draft EXCEPT ![p] = [e \in Events |-> IF e \in b THEN outbox[e]
                                                            ELSE AbsentRow]]
  BY DEF Claim, Batches
<1>2. b \in SUBSET Events
  BY DEF Claimable
<1> DEFINE t == [tick[p] EXCEPT !.pc = "loop", !.held = b, !.left = b]
<1>3. tick' = [tick EXCEPT ![p] = t]
  BY <1>1
<1>4. t \in Ticks
  BY <1>2, TickType DEF Ticks, Points
<1>5. Moves(p, t)
  BY <1>3, <1>4, TickMoves
<1>6. [e \in Events |-> IF e \in b THEN outbox[e] ELSE AbsentRow] \in [Events -> Rows]
  BY Blank DEF TypeOK
<1>7. Writes(p, [e \in Events |-> IF e \in b THEN outbox[e] ELSE AbsentRow])
  BY <1>1, <1>6, DraftWrites
<1> QED
  BY <1>5, <1>7

(* Where the tick alone moves on, without its transaction.                 *)
LEMMA GotoEffect ==
  ASSUME TypeOK, NEW p \in Processes, NEW pc \in Points, tick' = [tick EXCEPT ![p].pc = pc]
  PROVE  Moves(p, [tick[p] EXCEPT !.pc = pc])
<1> DEFINE t == [tick[p] EXCEPT !.pc = pc]
<1>1. t \in Ticks
  BY TickType DEF Ticks
<1>2. tick' = [tick EXCEPT ![p] = t]
  OBVIOUS
<1> QED
  BY <1>1, <1>2, TickMoves

(* A row of a unit that was orphaned in this batch is passed over.         *)
LEMMA SkipEffect ==
  ASSUME TypeOK, NEW p \in Processes, Skip(p)
  PROVE  \E e \in tick[p].left : Moves(p, [tick[p] EXCEPT !.left = @ \ {e}])
<1>1. PICK e \in tick[p].left : tick' = [tick EXCEPT ![p].left = @ \ {e}]
  BY DEF Skip, NextRow
<1> DEFINE t == [tick[p] EXCEPT !.left = @ \ {e}]
<1>2. t \in Ticks
  BY TickType DEF Ticks
<1>3. tick' = [tick EXCEPT ![p] = t]
  BY <1>1
<1> QED
  BY <1>2, <1>3, TickMoves

(* A row of a unit whose guard is free is handed to its consumer.          *)
LEMMA InvokeEffect ==
  ASSUME TypeOK, NEW p \in Processes, Invoke(p)
  PROVE  \E e \in tick[p].left :
           /\ ~Orphaned(p, e)
           /\ Moves(p, [tick[p] EXCEPT !.pc = "call", !.cur = e, !.left = @ \ {e}])
<1>1. PICK e \in tick[p].left :
        /\ ~Orphaned(p, e)
        /\ tick' = [tick EXCEPT ![p].pc = "call", ![p].cur = e, ![p].left = @ \ {e}]
  BY DEF Invoke, NextRow, SkipOrphaned
<1> DEFINE t == [tick[p] EXCEPT !.pc = "call", !.cur = e, !.left = @ \ {e}]
<1>2. t \in Ticks
  BY TickType DEF Ticks, Points
<1>3. tick' = [tick EXCEPT ![p] = t]
  BY <1>1
<1> QED
  BY <1>1, <1>2, <1>3, TickMoves

(* The bookkeeping of a call writes its row and goes on with the loop.     *)
LEMMA BookkeepEffect ==
  ASSUME TypeOK, NEW p \in Processes, NEW e \in Events, NEW r \in Rows, Bookkeep(p, e, r)
  PROVE  /\ Writes(p, [draft[p] EXCEPT ![e] = r])
         /\ Moves(p, [tick[p] EXCEPT !.pc = "loop", !.cur = None,
                        !.failed = IF r.status = "failed" THEN @ \cup {e} ELSE @])
<1>1. draft' = [draft EXCEPT ![p] = [draft[p] EXCEPT ![e] = r]]
  BY DEF Bookkeep
<1>2. [draft[p] EXCEPT ![e] = r] \in [Events -> Rows]
  BY DEF TypeOK
<1>3. Writes(p, [draft[p] EXCEPT ![e] = r])
  BY <1>1, <1>2, DraftWrites
<1> DEFINE failed == IF r.status = "failed" THEN tick[p].failed \cup {e} ELSE tick[p].failed
           t == [tick[p] EXCEPT !.pc = "loop", !.cur = None, !.failed = failed]
<1>4. t \in Ticks
  <2>1. tick[p] \in Ticks /\ failed \in SUBSET Events
    BY DEF TypeOK, Ticks
  <2> HIDE DEF failed
  <2> QED
    BY <2>1 DEF Ticks, Points
<1>5. tick' = [tick EXCEPT ![p] = t]
  BY DEF Bookkeep
<1> QED
  BY <1>3, <1>4, <1>5, TickMoves

(* Closing the transaction leaves a tick with nothing in hand.             *)
LEMMA CloseTxEffect ==
  ASSUME TypeOK, NEW p \in Processes, NEW pc \in Points, NEW failed \in SUBSET Events,
         CloseTx(p, pc, failed)
  PROVE  /\ Moves(p, [NoTick(pc, tick[p].stopping) EXCEPT !.failed = failed])
         /\ Writes(p, NoDraft)
<1> DEFINE t == [NoTick(pc, tick[p].stopping) EXCEPT !.failed = failed]
<1>1. t \in Ticks
  <2>1. tick[p].stopping \in BOOLEAN
    BY DEF TypeOK, Ticks
  <2> QED
    BY <2>1 DEF NoTick, Ticks
<1>2. tick' = [tick EXCEPT ![p] = t]
  BY DEF CloseTx
<1> QED
  BY <1>1, <1>2, TickMoves, DraftWrites, Blank DEF CloseTx

(* A broken connection takes the locks with it.                            *)
LEMMA ConnectionLostEffect ==
  ASSUME TypeOK, NEW p \in Processes, ConnectionLost(p)
  PROVE  Moves(p, [tick[p] EXCEPT !.broken = TRUE, !.held = {}])
<1> DEFINE t == [tick[p] EXCEPT !.broken = TRUE, !.held = {}]
<1>1. t \in Ticks
  BY TickType DEF Ticks
<1>2. tick' = [tick EXCEPT ![p] = t]
  BY DEF ConnectionLost
<1> QED
  BY <1>1, <1>2, TickMoves

(* A stop is noted, and the tick goes on.                                  *)
LEMMA StopEffect ==
  ASSUME TypeOK, NEW p \in Processes, Stop(p)
  PROVE  Moves(p, [tick[p] EXCEPT !.stopping = TRUE])
<1> DEFINE t == [tick[p] EXCEPT !.stopping = TRUE]
<1>1. t \in Ticks
  BY TickType DEF Ticks
<1>2. tick' = [tick EXCEPT ![p] = t]
  BY DEF Stop
<1> QED
  BY <1>1, <1>2, TickMoves

(* The report empties the list of failures.                                *)
LEMMA ReportEffect ==
  ASSUME TypeOK, NEW p \in Processes, Report(p)
  PROVE  Moves(p, [tick[p] EXCEPT !.pc = "escalate", !.failed = {}])
<1> DEFINE t == [tick[p] EXCEPT !.pc = "escalate", !.failed = {}]
<1>1. t \in Ticks
  BY TickType DEF Ticks, Points
<1>2. tick' = [tick EXCEPT ![p] = t]
  BY DEF Report
<1> QED
  BY <1>1, <1>2, TickMoves

(* An escalation is of an event, which it fails where it is pending.       *)
LEMMA EscalateEffect ==
  ASSUME TypeOK, NEW p \in Processes, NEW u \in Units, EscalateOne(p, u)
  PROVE  LET e == orphans[p][u].event
         IN  /\ e \in Events
             /\ outbox' \in [Events -> Rows]
             /\ \A f \in Events : f # e \/ ~Pending(e) =>
                  outbox'[f] = outbox[f] /\ reports'[f] = reports[f]
             /\ Pending(e) => /\ outbox'[e].status = "failed"
                              /\ outbox'[e].attempts = outbox[e].attempts
                              /\ reports'[e] = reports[e] + 1
<1> DEFINE e == orphans[p][u].event
<1>1. e \in Events
  BY DEF EscalateOne, Due, TypeOK, Orphans
<1>2. CASE Pending(e)
  <2>1. outbox' = [outbox EXCEPT ![e].status = "failed"] /\ reports' = [reports EXCEPT ![e] = @ + 1]
    BY <1>2 DEF EscalateOne, Escalates
  <2>2. [outbox[e] EXCEPT !.status = "failed"] \in Rows
    <3>1. outbox[e] \in Rows
      BY <1>1 DEF TypeOK
    <3> QED
      BY <3>1 DEF Rows
  <2>3. outbox' = [outbox EXCEPT ![e] = [outbox[e] EXCEPT !.status = "failed"]]
    BY <2>1
  <2> HIDE DEF e
  <2>4. /\ outbox' \in [Events -> Rows]
        /\ outbox'[e] = [outbox[e] EXCEPT !.status = "failed"]
        /\ \A f \in Events : f # e => outbox'[f] = outbox[f]
    BY <1>1, <2>2, <2>3 DEF TypeOK
  <2>5. outbox'[e].status = "failed" /\ outbox'[e].attempts = outbox[e].attempts
    <3>1. outbox[e] \in Rows
      BY <1>1 DEF TypeOK, e
    <3> QED
      BY <2>4, <3>1 DEF Rows
  <2>6. /\ reports'[e] = reports[e] + 1
        /\ \A f \in Events : f # e => reports'[f] = reports[f]
    BY <1>1, <2>1 DEF TypeOK
  <2> QED
    BY <1>1, <1>2, <2>4, <2>5, <2>6 DEF e
<1>3. CASE ~Pending(e)
  BY <1>1, <1>3 DEF EscalateOne, Escalates, TypeOK
<1> QED
  BY <1>1, <1>2, <1>3
-------------------------------------------------------------------------------
(* Every step keeps the types.                                             *)
LEMMA TypeStep ==
  ASSUME IInv, [Next]_vars
  PROVE  TypeOK'
<1>0. TypeOK
  BY DEF IInv
<1>1. CASE UNCHANGED vars
  BY <1>0, <1>1 DEF TypeOK
<1>2. ASSUME NEW e \in Events, Publish(e) PROVE TypeOK'
  <2>1. Cardinality({f \in Events : outbox[f].status # "absent"}) \in Nat
    BY FS_Subset, FS_CardinalityType
  <2>2. outbox' \in [Events -> Rows]
    BY <1>0, <1>2, <2>1 DEF TypeOK, Publish, Rows
  <2> QED
    BY <1>0, <1>2, <2>2 DEF TypeOK, Publish
<1>3. CASE Clock
  <2>1. ASSUME NEW age \in Ages PROVE Older(age) \in Ages
    BY DEF Older, Ages
  <2>2. streak' \in [Processes -> [Events -> Ages]]
    BY <1>0, <1>3, <2>1 DEF TypeOK, Clock
  <2>3. ASSUME NEW o \in Orphans PROVE [o EXCEPT !.age = Older(@)] \in Orphans
    BY DEF Orphans, Older
  <2>4. orphans' \in [Processes -> [Units -> Orphans]]
    BY <1>0, <1>3, <2>3, Blank DEF TypeOK, Clock
  <2> QED
    BY <1>0, <1>3, <2>2, <2>4 DEF TypeOK, Clock
<1>4. ASSUME NEW p \in Processes, Start(p) PROVE TypeOK'
  BY <1>0, <1>4, StartEffect DEF TypeOK, Start, Moves
<1>5. ASSUME NEW p \in Processes, Exit(p) \/ Crash(p) PROVE TypeOK'
  BY <1>0, <1>5, DieEffect, FaultType DEF TypeOK, Exit, Crash, Moves, Writes
<1>6. ASSUME NEW p \in Processes, Claim(p) PROVE TypeOK'
  BY <1>0, <1>6, ClaimEffect DEF TypeOK, Claim, Moves, Writes
<1>7. ASSUME NEW p \in Processes, ClaimRefused(p) \/ EndTick(p) \/ EscalationFails(p)
      PROVE  TypeOK'
  <2>1. tick' \in [Processes -> Ticks]
    BY <1>0, <1>7, GotoEffect DEF ClaimRefused, EndTick, EscalationFails, Moves, Points
  <2>2. faults' \in Nat
    BY <1>0, <1>7, FaultType DEF TypeOK, ClaimRefused, EndTick, EscalationFails
  <2> QED
    BY <1>0, <1>7, <2>1, <2>2 DEF TypeOK, ClaimRefused, EndTick, EscalationFails
<1>8. ASSUME NEW p \in Processes, ConnectionLost(p) \/ Stop(p) PROVE TypeOK'
  BY <1>0, <1>8, FaultType, ConnectionLostEffect, StopEffect
     DEF TypeOK, ConnectionLost, Stop, Moves
<1>9. ASSUME NEW p \in Processes, CallReturns(p) PROVE TypeOK'
  <2> DEFINE e == tick[p].cur
             r == [draft[p][e] EXCEPT !.status = "dispatched"]
  <2>1. e \in Events /\ draft[p][e] \in Rows
    BY <1>9, CurIsEvent DEF CallReturns
  <2>2. r \in Rows
    BY <2>1 DEF Rows
  <2>3. /\ tick' \in [Processes -> Ticks]
        /\ draft' \in [Processes -> [Events -> Rows]]
    BY <1>0, <1>9, <2>1, <2>2, BookkeepEffect DEF CallReturns, Moves, Writes
  <2>4. streak' \in [Processes -> [Events -> Ages]] /\ consumed' \subseteq Events
    BY <1>0, <1>9, <2>1 DEF TypeOK, CallReturns, Ages
  <2> QED
    BY <1>0, <1>9, <2>3, <2>4 DEF TypeOK, CallReturns
<1>10. ASSUME NEW p \in Processes, CallThrows(p) PROVE TypeOK'
  <2> DEFINE e == tick[p].cur
  <2>1. e \in Events /\ draft[p][e] \in Rows
    BY <1>10, CurIsEvent DEF CallThrows
  <2>2. AfterThrow(draft[p][e]) \in Rows
    BY <2>1, BumpedType DEF AfterThrow, Rows
  <2>3. /\ tick' \in [Processes -> Ticks]
        /\ draft' \in [Processes -> [Events -> Rows]]
    BY <1>0, <1>10, <2>1, <2>2, BookkeepEffect DEF CallThrows, Moves, Writes
  <2>4. streak' \in [Processes -> [Events -> Ages]]
    BY <1>0, <1>10, <2>1 DEF TypeOK, CallThrows, Ages
  <2>5. throws' \in [Events -> 0..MaxAttempts]
    BY <1>0, <1>10, <2>1, BumpedType DEF TypeOK, CallThrows
  <2> QED
    BY <1>0, <1>10, <2>3, <2>4, <2>5 DEF TypeOK, CallThrows
<1>11. ASSUME NEW p \in Processes, CallTimesOut(p) PROVE TypeOK'
  <2> DEFINE e == tick[p].cur
  <2>1. e \in Events /\ draft[p][e] \in Rows /\ UnitOf[e] \in Units
    BY <1>11, CurIsEvent DEF CallTimesOut
  <2>2. AfterTimeout(p, e) \in Rows
    BY <2>1, BumpedType DEF AfterTimeout, Rows
  <2>3. /\ tick' \in [Processes -> Ticks]
        /\ draft' \in [Processes -> [Events -> Rows]]
    BY <1>0, <1>11, <2>1, <2>2, BookkeepEffect DEF CallTimesOut, Moves, Writes
  <2>4. [event |-> e, age |-> 0, escalated |-> FALSE] \in Orphans
    BY <2>1 DEF Orphans
  <2>5. orphans' \in [Processes -> [Units -> Orphans]]
    BY <1>0, <1>11, <2>1, <2>4 DEF TypeOK, CallTimesOut
  <2>6. streak' \in [Processes -> [Events -> Ages]]
    BY <1>0, <1>11, <2>1 DEF TypeOK, CallTimesOut, Ages
  <2>7. detached' \in [Processes -> SUBSET Events] /\ stuck' \subseteq Events
    BY <1>0, <1>11, <2>1 DEF TypeOK, CallTimesOut
  <2> QED
    BY <1>0, <1>11, <2>3, <2>5, <2>6, <2>7 DEF TypeOK, CallTimesOut
<1>12. ASSUME NEW p \in Processes,
              Commit(p) \/ CommitUnacknowledged(p) \/ Abort(p) PROVE TypeOK'
  <2>1. tick[p].failed \in SUBSET Events
    BY <1>0, TickType DEF Ticks
  <2>2. PICK pc \in Points, failed \in SUBSET Events : CloseTx(p, pc, failed)
    BY <1>12, <2>1 DEF Commit, CommitUnacknowledged, Abort, Points
  <2>3. /\ tick' \in [Processes -> Ticks]
        /\ draft' \in [Processes -> [Events -> Rows]]
    BY <1>0, <2>2, CloseTxEffect DEF Moves, Writes
  <2>4. Committed(p) \in [Events -> Rows]
    BY <1>0 DEF Committed, TypeOK
  <2>5. outbox' \in [Events -> Rows] /\ faults' \in Nat
    BY <1>0, <1>12, <2>4, FaultType DEF Commit, CommitUnacknowledged, Abort, TypeOK
  <2> QED
    BY <1>0, <1>12, <2>3, <2>5 DEF TypeOK, Commit, CommitUnacknowledged, Abort
<1>13. ASSUME NEW p \in Processes, Report(p) PROVE TypeOK'
  <2>1. reports' \in [Events -> Nat]
    BY <1>0, <1>13 DEF TypeOK, Report
  <2> QED
    BY <1>0, <1>13, <2>1, ReportEffect DEF TypeOK, Report, Moves
<1>14. ASSUME NEW p \in Processes, NEW u \in Units, EscalateOne(p, u) PROVE TypeOK'
  <2> DEFINE e == orphans[p][u].event
  <2>1. e \in Events /\ outbox' \in [Events -> Rows]
    BY <1>0, <1>14, EscalateEffect
  <2>2. reports' \in [Events -> Nat] /\ stuck' \subseteq Events
    BY <1>0, <1>14, <2>1 DEF EscalateOne, TypeOK
  <2>3. [orphans[p][u] EXCEPT !.escalated = TRUE] \in Orphans
    <3>1. orphans[p][u] \in Orphans
      BY <1>0 DEF TypeOK
    <3> QED
      BY <3>1 DEF Orphans
  <2>4. orphans' = [orphans EXCEPT ![p] = [orphans[p] EXCEPT ![u] =
                      [orphans[p][u] EXCEPT !.escalated = TRUE]]]
    BY <1>14 DEF EscalateOne
  <2>5. orphans' \in [Processes -> [Units -> Orphans]]
    BY <1>0, <2>3, <2>4 DEF TypeOK
  <2>6. streak' \in [Processes -> [Events -> Ages]]
    BY <1>0, <1>14, <2>1 DEF EscalateOne, TypeOK, Ages
  <2> QED
    BY <1>0, <1>14, <2>1, <2>2, <2>5, <2>6 DEF TypeOK, EscalateOne
<1>15. ASSUME NEW p \in Processes, NEW e \in Events, Settle(p, e) PROVE TypeOK'
  <2>1. orphans' \in [Processes -> [Units -> Orphans]]
    BY <1>0, <1>15, Blank DEF Settle, TypeOK
  <2> QED
    BY <1>0, <1>15, <2>1 DEF TypeOK, Settle
<1>16. ASSUME NEW p \in Processes, Skip(p) \/ Invoke(p) PROVE TypeOK'
  BY <1>0, <1>16, SkipEffect, InvokeEffect DEF TypeOK, Skip, Invoke, Moves
<1> QED
  BY <1>1, <1>2, <1>3, <1>4, <1>5, <1>6, <1>7, <1>8, <1>9, <1>10, <1>11, <1>12,
     <1>13, <1>14, <1>15, <1>16
     DEF Next, TickStep, TickFault
-------------------------------------------------------------------------------
(* Who is not affected by a step.                                          *)

(* The ghosts only grow.                                                   *)
GhostsGrow ==
  /\ consumed \subseteq consumed' /\ stuck \subseteq stuck'
  /\ \A e \in Events : throws[e] > 0 => throws'[e] > 0

(* The step leaves alone the rows that q locks and those it has to report. *)
Respects(q) ==
  /\ \A e \in Events : /\ outbox[e].status # "absent" => outbox'[e].status # "absent"
                       /\ outbox[e].status = "failed" => outbox'[e].status = "failed"
  /\ \A e \in tick[q].held : outbox'[e] = outbox[e]
  /\ tick[q].pc = "report" => \A e \in tick[q].failed : reports'[e] = reports[e]

(* A process that does not step keeps its invariant.                       *)
LEMMA Bystander ==
  ASSUME IInv, NEW q \in Processes, tick'[q] = tick[q], draft'[q] = draft[q],
         GhostsGrow, Respects(q)
  PROVE  TxInv(q)'
<1> DEFINE t == tick[q]
<1>1. t \in Ticks /\ tick'[q] = t
  BY TickType DEF IInv
<1>2. TxInv(q)
  BY DEF IInv, TableInv
<1>3. TickInv(q)'
  BY <1>1, <1>2 DEF TxInv, TickInv, InTx, Ticks, Respects
<1>4. FailedInv(q)'
  BY <1>1, <1>2 DEF TxInv, FailedInv, InTx, Ticks, Respects
<1>5. ASSUME NEW e \in t.held PROVE DraftInv(q, e)'
  <2>1. DraftInv(q, e) /\ e \in Events
    BY <1>1, <1>2 DEF TxInv, Ticks
  <2> QED
    BY <1>1, <2>1 DEF DraftInv, Pending, Unhandled, Respects, GhostsGrow
<1> QED
  BY <1>1, <1>3, <1>4, <1>5 DEF TxInv

(* Processes stay apart when one of them locks nothing new and has nothing *)
(* new to report.                                                          *)
LEMMA ApartStands ==
  ASSUME IInv, NEW p \in Processes, \A q \in Processes \ {p} : tick'[q] = tick[q],
         tick'[p].held \subseteq tick[p].held,
         tick'[p].pc = "report" =>
           tick[p].pc = "report" /\ tick'[p].failed \subseteq tick[p].failed
  PROVE  \A q, r \in Processes : q # r => Apart(q, r)'
<1> SUFFICES ASSUME NEW q \in Processes, NEW r \in Processes, q # r
             PROVE  Apart(q, r)'
  OBVIOUS
<1>1. Apart(q, r)
  BY DEF IInv, TableInv
<1> QED
  BY <1>1 DEF Apart

(* A step of p inside the process: the table and the reports stand.        *)
LEMMA OwnStep ==
  ASSUME IInv, NEW p \in Processes, UNCHANGED <<outbox, reports>>, GhostsGrow,
         \A q \in Processes \ {p} : tick'[q] = tick[q] /\ draft'[q] = draft[q],
         tick'[p].held \subseteq tick[p].held,
         tick'[p].pc = "report" =>
           tick[p].pc = "report" /\ tick'[p].failed \subseteq tick[p].failed,
         TxInv(p)'
  PROVE  TableInv'
<1>1. \A e \in Events : RowInv(e)'
  BY DEF IInv, TableInv, RowInv
<1>2. ASSUME NEW q \in Processes \ {p} PROVE TxInv(q)'
  <2>1. Respects(q)
    BY DEF Respects
  <2> QED
    BY <2>1, Bystander
<1>3. \A q, r \in Processes : q # r => Apart(q, r)'
  BY ApartStands
<1> QED
  BY <1>1, <1>2, <1>3 DEF TableInv

(* A tick that has nothing in hand satisfies its invariant.                *)
LEMMA Resting ==
  ASSUME IInv, NEW p \in Processes, tick'[p].pc \in {"down", "idle", "escalate"},
         tick'[p].held = {}, tick'[p].left = {}, tick'[p].failed = {}, ~tick'[p].broken
  PROVE  TxInv(p)'
  BY DEF TxInv, TickInv, FailedInv, InTx

-------------------------------------------------------------------------------
(* The table's invariant, one step at a time.                              *)

(* Publishing touches a row that nobody locks and nobody has to report.    *)
LEMMA PublishTable ==
  ASSUME IInv, NEW e \in Events, Publish(e)
  PROVE  TableInv'
<1>1. /\ outbox'[e].status = "pending" /\ outbox'[e].attempts = 0
      /\ \A f \in Events \ {e} : outbox'[f] = outbox[f]
      /\ outbox[e].status = "absent"
  BY DEF Publish, IInv, TypeOK
<1>2. \A f \in Events : RowInv(f)'
  BY <1>1 DEF IInv, TableInv, RowInv, Publish
<1>3. ASSUME NEW q \in Processes PROVE TxInv(q)'
  <2>1. e \notin tick[q].held /\ tick[q].held \subseteq Events
    BY <1>1, TickType DEF IInv, TableInv, TxInv, DraftInv, Pending, Ticks
  <2>2. Respects(q)
    BY <1>1, <2>1 DEF Respects, Publish
  <2> QED
    BY <2>2, Bystander DEF Publish, GhostsGrow
<1>4. \A q, r \in Processes : q # r => Apart(q, r)'
  BY DEF IInv, TableInv, Apart, Publish
<1> QED
  BY <1>2, <1>3, <1>4 DEF TableInv

(* Steps that leave the process with nothing in hand.                      *)
LEMMA RestTable ==
  ASSUME IInv, NEW p \in Processes,
         \/ Start(p) \/ Exit(p) \/ Crash(p) \/ ClaimRefused(p) \/ Abort(p)
         \/ EndTick(p) \/ EscalationFails(p)
  PROVE  TableInv'
<1>0. TypeOK /\ tick[p] \in Ticks /\ TickInv(p) /\ FailedInv(p)
  BY TickType DEF IInv, TableInv, TxInv
<1>1. PICK t \in Ticks : /\ Moves(p, t)
                         /\ t.pc \in {"down", "idle", "escalate"}
                         /\ t.held = {} /\ t.left = {} /\ t.failed = {} /\ ~t.broken
  <2>1. CASE Start(p)
    BY <1>0, <2>1, StartEffect, Blank DEF NoTick, Points
  <2>2. CASE Exit(p) \/ Crash(p)
    BY <1>0, <2>2, DieEffect, Blank DEF Exit, Crash, NoTick, Points
  <2>3. CASE ClaimRefused(p)
    <3>1. Moves(p, [tick[p] EXCEPT !.pc = "escalate"])
      BY <1>0, <2>3, GotoEffect DEF ClaimRefused, Points
    <3> QED
      BY <1>0, <2>3, <3>1 DEF ClaimRefused, TickInv, FailedInv, InTx, Ticks, Points
  <2>4. CASE EndTick(p) \/ EscalationFails(p)
    <3>1. Moves(p, [tick[p] EXCEPT !.pc = "idle"])
      BY <1>0, <2>4, GotoEffect DEF EndTick, EscalationFails, Points
    <3> QED
      BY <1>0, <2>4, <3>1
         DEF EndTick, EscalationFails, TickInv, FailedInv, InTx, Ticks, Points
  <2>5. CASE Abort(p)
    <3>1. Moves(p, [NoTick("escalate", tick[p].stopping) EXCEPT !.failed = {}])
      BY <1>0, <2>5, CloseTxEffect DEF Abort, Points
    <3> DEFINE t == [NoTick("escalate", tick[p].stopping) EXCEPT !.failed = {}]
    <3>2. /\ t.pc = "escalate" /\ t.held = {} /\ t.left = {} /\ t.failed = {}
          /\ t.broken = FALSE
      BY DEF NoTick
    <3> QED
      BY <3>1, <3>2 DEF Moves
  <2> QED
    BY <2>1, <2>2, <2>3, <2>4, <2>5
<1>2. TxInv(p)'
  BY <1>1, Resting DEF Moves
<1>3. \A q \in Processes \ {p} : tick'[q] = tick[q] /\ draft'[q] = draft[q]
  <2>1. Exit(p) \/ Crash(p) \/ Abort(p) => \A q \in Processes \ {p} : draft'[q] = draft[q]
    BY <1>0 DEF Exit, Crash, Die, Abort, CloseTx, TypeOK
  <2> QED
    BY <1>1, <2>1 DEF Moves, Start, ClaimRefused, EndTick, EscalationFails
<1>4. UNCHANGED <<outbox, reports>> /\ GhostsGrow
  BY DEF Start, Exit, Crash, ClaimRefused, Abort, EndTick, EscalationFails,
         GhostsGrow
<1> QED
  BY <1>1, <1>2, <1>3, <1>4, OwnStep DEF Moves

(* A tick that goes on within its transaction drafts nothing new.          *)
LEMMA LoopTable ==
  ASSUME IInv, NEW p \in Processes,
         Skip(p) \/ Invoke(p) \/ ConnectionLost(p) \/ Stop(p)
  PROVE  TableInv'
<1>0. TypeOK /\ tick[p] \in Ticks /\ TxInv(p)
  BY TickType DEF IInv, TableInv
<1>1. UNCHANGED <<outbox, draft, reports, ghosts>>
  BY DEF Skip, Invoke, ConnectionLost, Stop
<1>2. CASE Skip(p)
  <2>1. PICK e \in tick[p].left : Moves(p, [tick[p] EXCEPT !.left = @ \ {e}])
    BY <1>0, <1>2, SkipEffect
  <2> DEFINE t == [tick[p] EXCEPT !.left = @ \ {e}]
  <2>2. /\ tick'[p] = t /\ t.pc = tick[p].pc /\ t.cur = tick[p].cur
        /\ t.held = tick[p].held /\ t.left = tick[p].left \ {e}
        /\ t.failed = tick[p].failed /\ t.broken = tick[p].broken
    BY <1>0, <2>1 DEF Moves, Ticks
  <2> HIDE DEF t
  <2>3. TxInv(p)'
    BY <1>0, <1>1, <2>2 DEF TxInv, TickInv, FailedInv, DraftInv, InTx, Unhandled, Pending
  <2> QED
    BY <1>1, <2>1, <2>2, <2>3, OwnStep DEF Moves, GhostsGrow
<1>3. CASE Invoke(p)
  <2>1. PICK e \in tick[p].left :
          Moves(p, [tick[p] EXCEPT !.pc = "call", !.cur = e, !.left = @ \ {e}])
    BY <1>0, <1>3, InvokeEffect
  <2> DEFINE t == [tick[p] EXCEPT !.pc = "call", !.cur = e, !.left = @ \ {e}]
  <2>2. /\ tick'[p] = t /\ t.pc = "call" /\ t.cur = e
        /\ t.held = tick[p].held /\ t.left = tick[p].left \ {e}
        /\ t.failed = tick[p].failed /\ t.broken = tick[p].broken
    BY <1>0, <2>1 DEF Moves, Ticks
  <2>3. e \in Events /\ tick[p].pc = "loop"
    BY <1>0, <1>3 DEF Invoke, Open, Ticks
  <2> HIDE DEF t
  <2>4. TxInv(p)'
    BY <1>0, <1>1, <2>2, <2>3
       DEF TxInv, TickInv, FailedInv, DraftInv, InTx, Unhandled, Pending
  <2> QED
    BY <1>1, <2>1, <2>2, <2>4, OwnStep DEF Moves, GhostsGrow
<1>4. CASE ConnectionLost(p)
  <2> DEFINE t == [tick[p] EXCEPT !.broken = TRUE, !.held = {}]
  <2>1. Moves(p, t)
    BY <1>0, <1>4, ConnectionLostEffect
  <2>2. /\ tick'[p] = t /\ t.pc = tick[p].pc /\ t.cur = tick[p].cur
        /\ t.held = {} /\ t.left = tick[p].left
        /\ t.failed = tick[p].failed /\ t.broken
    BY <1>0, <2>1 DEF Moves, Ticks
  <2>3. tick[p].pc \in {"loop", "call"}
    BY <1>4 DEF ConnectionLost
  <2> HIDE DEF t
  <2>4. TxInv(p)'
    BY <1>0, <1>1, <2>2, <2>3
       DEF TxInv, TickInv, FailedInv, DraftInv, InTx, Unhandled, Pending
  <2> QED
    BY <1>1, <2>1, <2>2, <2>4, OwnStep DEF Moves, GhostsGrow
<1>5. CASE Stop(p)
  <2> DEFINE t == [tick[p] EXCEPT !.stopping = TRUE]
  <2>1. Moves(p, t)
    BY <1>0, <1>5, StopEffect
  <2>2. /\ tick'[p] = t /\ t.pc = tick[p].pc /\ t.cur = tick[p].cur
        /\ t.held = tick[p].held /\ t.left = tick[p].left
        /\ t.failed = tick[p].failed /\ t.broken = tick[p].broken
    BY <1>0, <2>1 DEF Moves, Ticks
  <2> HIDE DEF t
  <2>3. TxInv(p)'
    BY <1>0, <1>1, <2>2
       DEF TxInv, TickInv, FailedInv, DraftInv, InTx, Unhandled, Pending
  <2> QED
    BY <1>1, <2>1, <2>2, <2>3, OwnStep DEF Moves, GhostsGrow
<1> QED
  BY <1>2, <1>3, <1>4, <1>5

(* The claim locks rows that nobody else has, and drafts them unchanged.   *)
LEMMA ClaimTable ==
  ASSUME IInv, NEW p \in Processes, Claim(p)
  PROVE  TableInv'
<1>0. TypeOK /\ tick[p] \in Ticks /\ TxInv(p)
  BY TickType DEF IInv, TableInv
<1>1. PICK b \in SUBSET Claimable(p) :
        /\ Moves(p, [tick[p] EXCEPT !.pc = "loop", !.held = b, !.left = b])
        /\ Writes(p, [e \in Events |-> IF e \in b THEN outbox[e] ELSE AbsentRow])
  BY <1>0, ClaimEffect
<1> DEFINE t == [tick[p] EXCEPT !.pc = "loop", !.held = b, !.left = b]
<1>2. /\ tick'[p] = t /\ t.pc = "loop" /\ t.held = b /\ t.left = b
      /\ t.failed = tick[p].failed /\ t.broken = tick[p].broken
  BY <1>0, <1>1 DEF Moves, Ticks
<1> HIDE DEF t
<1>3. \A e \in b : /\ e \in Events /\ Pending(e) /\ draft'[p][e] = outbox[e]
                   /\ \A q \in Processes \ {p} : e \notin tick[q].held
  BY <1>1 DEF Claimable, Writes
<1>4. tick[p].failed = {}
  BY <1>0 DEF TxInv, FailedInv, Claim
<1>5. UNCHANGED <<outbox, reports, ghosts>>
  BY DEF Claim
<1>6. TxInv(p)'
  <2>1. TickInv(p)' /\ FailedInv(p)'
    BY <1>0, <1>2, <1>3, <1>4, <1>5 DEF TickInv, FailedInv, InTx, Pending
  <2>2. ASSUME NEW e \in b PROVE DraftInv(p, e)'
    <3>1. outbox[e].attempts \in Nat
      BY <1>0, <1>3 DEF TypeOK, Rows
    <3> QED
      BY <1>2, <1>3, <1>5, <3>1 DEF DraftInv, Pending, Unhandled
  <2> QED
    BY <1>2, <2>1, <2>2 DEF TxInv
<1>7. ASSUME NEW q \in Processes \ {p} PROVE TxInv(q)'
  BY <1>1, <1>5, Bystander DEF Moves, Writes, GhostsGrow, Respects
<1>8. ASSUME NEW q \in Processes, NEW r \in Processes, q # r PROVE Apart(q, r)'
  <2>1. Apart(q, r)
    BY <1>8 DEF IInv, TableInv
  <2> QED
    BY <1>1, <1>2, <1>3, <1>8, <2>1 DEF Apart, Moves
<1>9. \A e \in Events : RowInv(e)'
  BY <1>5 DEF IInv, TableInv, RowInv
<1> QED
  BY <1>6, <1>7, <1>8, <1>9 DEF TableInv
(* What a call may write of its event.                                     *)
Justified(p, e, r) ==
  /\ r.status # "absent" /\ draft[p][e].attempts <= r.attempts
  /\ r.status = "dispatched" => e \in consumed'
  /\ r.status = "failed" => e \in stuck' \/ (r.attempts = MaxAttempts /\ throws'[e] > 0)

(* The end of a call writes one row of the draft, for which it has a       *)
(* reason; the row is not handed out a second time.                        *)
LEMMA BookkeepTable ==
  ASSUME IInv, NEW p \in Processes, tick[p].pc = "call", NEW r \in Rows,
         Bookkeep(p, tick[p].cur, r), UNCHANGED <<outbox, reports>>, GhostsGrow,
         tick[p].cur \in tick[p].held => Justified(p, tick[p].cur, r)
  PROVE  TableInv'
<1> DEFINE e == tick[p].cur
           failed == IF r.status = "failed" THEN tick[p].failed \cup {e} ELSE tick[p].failed
           t == [tick[p] EXCEPT !.pc = "loop", !.cur = None, !.failed = failed]
<1>0. TypeOK /\ tick[p] \in Ticks /\ TxInv(p)
  BY TickType DEF IInv, TableInv
<1>1. e \in Events
  BY CurIsEvent
<1>2. Moves(p, t) /\ Writes(p, [draft[p] EXCEPT ![e] = r])
  BY <1>0, <1>1, BookkeepEffect
<1>3. /\ tick'[p] = t /\ t.pc = "loop" /\ t.held = tick[p].held /\ t.left = tick[p].left
      /\ t.failed = failed /\ t.broken = tick[p].broken
  BY <1>0, <1>2 DEF Moves, Ticks
<1>4. /\ draft'[p][e] = r
      /\ \A f \in Events \ {e} : draft'[p][f] = draft[p][f]
  BY <1>0, <1>1, <1>2 DEF Writes, TypeOK
<1>5. tick[p].held \subseteq Events /\ tick[p].failed \subseteq Events
  BY <1>0 DEF Ticks
<1> HIDE DEF t
<1>6. TickInv(p)'
  BY <1>0, <1>3 DEF TxInv, TickInv, InTx
<1>7. FailedInv(p)'
  BY <1>0, <1>1, <1>3, <1>4, <1>5 DEF TxInv, TickInv, FailedInv, DraftInv, InTx, Unhandled
<1>8. ASSUME NEW f \in tick[p].held PROVE DraftInv(p, f)'
  <2>1. DraftInv(p, f) /\ f \in Events
    BY <1>0, <1>5 DEF TxInv
  <2>2. CASE f = e
    <3>1. /\ outbox[e].attempts \in Nat /\ draft[p][e].attempts \in Nat
          /\ r.attempts \in Nat
      BY <1>0, <1>1 DEF TypeOK, Rows
    <3>2. e \notin tick[p].left
      BY <1>0 DEF TxInv, TickInv
    <3> QED
      BY <1>3, <1>4, <2>1, <2>2, <3>1, <3>2 DEF DraftInv, Justified, Pending, Unhandled
  <2>3. CASE f # e
    BY <1>3, <1>4, <2>1, <2>3 DEF DraftInv, Pending, Unhandled, GhostsGrow
  <2> QED
    BY <2>2, <2>3
<1>9. TxInv(p)'
  BY <1>3, <1>6, <1>7, <1>8 DEF TxInv
<1> HIDE DEF failed
<1> QED
  BY <1>2, <1>3, <1>9, OwnStep DEF Moves, Writes

(* A call that returns: its event is dispatched, and was consumed.         *)
LEMMA CallReturnsTable ==
  ASSUME IInv, NEW p \in Processes, CallReturns(p)
  PROVE  TableInv'
<1> DEFINE e == tick[p].cur
           r == [draft[p][e] EXCEPT !.status = "dispatched"]
<1>1. e \in Events /\ draft[p][e] \in Rows /\ tick[p].pc = "call"
  BY CurIsEvent DEF CallReturns
<1>2. r \in Rows /\ r.status = "dispatched" /\ r.attempts = draft[p][e].attempts
  BY <1>1 DEF Rows
<1>3. draft[p][e].attempts <= r.attempts
  BY <1>1, <1>2 DEF Rows
<1>4. GhostsGrow /\ e \in consumed' /\ UNCHANGED <<outbox, reports>> /\ Bookkeep(p, e, r)
  BY DEF CallReturns, GhostsGrow
<1> HIDE DEF r
<1>5. Justified(p, e, r)
  BY <1>2, <1>3, <1>4 DEF Justified
<1> QED
  BY <1>1, <1>2, <1>4, <1>5, BookkeepTable

(* A call that throws: its event fails with the last attempt of the budget.*)
LEMMA CallThrowsTable ==
  ASSUME IInv, NEW p \in Processes, CallThrows(p)
  PROVE  TableInv'
<1> DEFINE e == tick[p].cur
           r == AfterThrow(draft[p][e])
<1>1. e \in Events /\ draft[p][e] \in Rows /\ tick[p].pc = "call"
  BY CurIsEvent DEF CallThrows
<1>2. r \in Rows /\ r.attempts = Bumped(draft[p][e].attempts)
  BY <1>1, BumpedType DEF AfterThrow, Rows
<1>3. /\ draft[p][e].attempts <= r.attempts
      /\ r.status = "failed" => draft[p][e].status = "failed" \/ r.attempts = MaxAttempts
      /\ r.status \in {"failed", draft[p][e].status}
  BY <1>1, <1>2, BumpedType DEF AfterThrow, Rows
<1>4. throws' = [throws EXCEPT ![e] = Bumped(@)] /\ UNCHANGED <<consumed, stuck>>
  BY DEF CallThrows
<1>5. throws[e] \in 0..MaxAttempts /\ throws \in [Events -> 0..MaxAttempts]
  BY <1>1 DEF IInv, TypeOK
<1>6. throws'[e] > 0 /\ GhostsGrow
  BY <1>1, <1>4, <1>5, BumpedType DEF GhostsGrow
<1>7. UNCHANGED <<outbox, reports>> /\ Bookkeep(p, e, r)
  BY DEF CallThrows
<1>8. ASSUME e \in tick[p].held PROVE draft[p][e].status = "pending"
  BY <1>1, <1>8 DEF IInv, TableInv, TxInv, DraftInv, Unhandled
<1> HIDE DEF r
<1>9. e \in tick[p].held => Justified(p, e, r)
  BY <1>3, <1>6, <1>8 DEF Justified
<1> QED
  BY <1>1, <1>2, <1>6, <1>7, <1>9, BookkeepTable

(* A call that is abandoned: its event fails only when it has timed out    *)
(* for as long as the ceiling.                                             *)
LEMMA CallTimesOutTable ==
  ASSUME IInv, NEW p \in Processes, CallTimesOut(p)
  PROVE  TableInv'
<1> DEFINE e == tick[p].cur
           r == AfterTimeout(p, e)
<1>1. e \in Events /\ draft[p][e] \in Rows /\ tick[p].pc = "call"
  BY CurIsEvent DEF CallTimesOut
<1>2. r \in Rows /\ r.attempts = Bumped(draft[p][e].attempts)
  BY <1>1, BumpedType DEF AfterTimeout, Rows
<1>3. /\ draft[p][e].attempts <= r.attempts
      /\ r.status = IF StreakOver(p, e) THEN "failed" ELSE draft[p][e].status
  BY <1>1, <1>2, BumpedType DEF AfterTimeout, Rows
<1>4. /\ GhostsGrow /\ (StreakOver(p, e) => e \in stuck')
      /\ UNCHANGED <<outbox, reports>> /\ Bookkeep(p, e, r)
  BY DEF CallTimesOut, GhostsGrow
<1>5. ASSUME e \in tick[p].held PROVE draft[p][e].status = "pending"
  BY <1>1, <1>5 DEF IInv, TableInv, TxInv, DraftInv, Unhandled
<1> HIDE DEF r
<1>6. e \in tick[p].held => Justified(p, e, r)
  BY <1>3, <1>4, <1>5 DEF Justified
<1> QED
  BY <1>1, <1>2, <1>4, <1>6, BookkeepTable

(* The commit settles rows that nobody else locks, and hands the failures  *)
(* to be reported to nobody else.                                          *)
LEMMA CommitTable ==
  ASSUME IInv, NEW p \in Processes, Commit(p) \/ CommitUnacknowledged(p)
  PROVE  TableInv'
<1>0. TypeOK /\ tick[p] \in Ticks /\ TxInv(p)
  BY TickType DEF IInv, TableInv
<1>1. PICK pc \in {"report", "escalate"}, failed \in SUBSET Events :
        /\ CloseTx(p, pc, failed) /\ failed \subseteq tick[p].failed
        /\ pc = "escalate" => failed = {}
  BY <1>0 DEF Commit, CommitUnacknowledged, Ticks
<1> DEFINE t == [NoTick(pc, tick[p].stopping) EXCEPT !.failed = failed]
<1>2. Moves(p, t) /\ Writes(p, NoDraft)
  BY <1>0, <1>1, CloseTxEffect DEF Points
<1>3. /\ tick'[p] = t /\ t.pc = pc /\ t.held = {} /\ t.left = {}
      /\ t.failed = failed /\ t.broken = FALSE
  BY <1>2 DEF NoTick, Moves
<1> HIDE DEF t
<1>4. /\ \A e \in tick[p].held : outbox'[e] = draft[p][e]
      /\ \A e \in Events \ tick[p].held : outbox'[e] = outbox[e]
      /\ UNCHANGED <<reports, ghosts>>
  BY <1>0 DEF Commit, CommitUnacknowledged, Committed, Ticks
<1>5. \A e \in tick[p].held : e \in Events /\ DraftInv(p, e) /\ reports[e] = 0
  <2>1. \A e \in tick[p].held : e \in Events /\ DraftInv(p, e)
    BY <1>0 DEF TxInv, Ticks
  <2>2. \A e \in Events : reports[e] \in Nat /\ (reports[e] > 0 => outbox[e].status = "failed")
    BY <1>0 DEF IInv, TableInv, RowInv, TypeOK
  <2> QED
    BY <2>1, <2>2 DEF DraftInv, Pending
<1>6. \A e \in failed : e \in tick[p].held /\ draft[p][e].status = "failed"
  BY <1>0, <1>1 DEF TxInv, FailedInv, Commit, CommitUnacknowledged, Open, InTx
<1>7. TxInv(p)'
  BY <1>1, <1>3, <1>4, <1>5, <1>6 DEF TxInv, TickInv, FailedInv, InTx
<1>8. ASSUME NEW q \in Processes \ {p} PROVE TxInv(q)'
  <2>1. Apart(p, q) /\ TxInv(q) /\ tick[q] \in Ticks
    BY <1>0, TickType DEF IInv, TableInv
  <2>2. Respects(q)
    BY <1>4, <1>5, <2>1 DEF Respects, Apart, DraftInv, Pending, Ticks
  <2> QED
    BY <1>2, <1>4, <2>2, Bystander DEF Moves, Writes, GhostsGrow
<1>9. \A e \in Events : RowInv(e)'
  BY <1>4, <1>5 DEF IInv, TableInv, RowInv, DraftInv
<1>10. ASSUME NEW q \in Processes \ {p} PROVE Apart(p, q)' /\ Apart(q, p)'
  <2>1. TxInv(q) /\ tick'[q] = tick[q]
    BY <1>2 DEF IInv, TableInv, Moves
  <2>2. tick[q].pc = "report" => \A e \in tick[q].failed : outbox[e].status = "failed"
    BY <2>1 DEF TxInv, FailedInv
  <2>3. tick[q].pc = "report" => failed \cap tick[q].failed = {}
    BY <1>5, <1>6, <2>2 DEF DraftInv, Pending
  <2> QED
    BY <1>3, <2>1, <2>3 DEF Apart
<1>11. ASSUME NEW q \in Processes \ {p}, NEW r \in Processes \ {p}, q # r PROVE Apart(q, r)'
  BY <1>2, <1>11 DEF IInv, TableInv, Apart, Moves
<1> QED
  BY <1>7, <1>8, <1>9, <1>10, <1>11 DEF TableInv

(* A report tells of failures that nobody else has to report.              *)
LEMMA ReportTable ==
  ASSUME IInv, NEW p \in Processes, Report(p)
  PROVE  TableInv'
<1>0. TypeOK /\ tick[p] \in Ticks /\ TxInv(p)
  BY TickType DEF IInv, TableInv
<1> DEFINE t == [tick[p] EXCEPT !.pc = "escalate", !.failed = {}]
<1>1. Moves(p, t)
  BY <1>0, ReportEffect
<1>2. /\ tick'[p] = t /\ t.pc = "escalate" /\ t.held = tick[p].held /\ t.left = tick[p].left
      /\ t.failed = {} /\ t.broken = tick[p].broken
  BY <1>0, <1>1 DEF Moves, Ticks
<1> HIDE DEF t
<1>3. TxInv(p)'
  BY <1>0, <1>2, Resting DEF TxInv, TickInv, InTx, Report
<1>4. UNCHANGED <<outbox, draft, consumed, throws, stuck>>
  BY DEF Report
<1>5. \A e \in Events : e \notin tick[p].failed => reports'[e] = reports[e]
  BY DEF Report
<1>6. ASSUME NEW q \in Processes \ {p} PROVE TxInv(q)'
  <2>1. Apart(p, q) /\ tick[q] \in Ticks
    BY <1>0, TickType DEF IInv, TableInv
  <2>2. Respects(q)
    BY <1>4, <1>5, <2>1 DEF Respects, Apart, Report, Ticks
  <2> QED
    BY <1>1, <1>4, <2>2, Bystander DEF Moves, GhostsGrow
<1>7. \A e \in Events : RowInv(e)'
  BY <1>0, <1>4, <1>5 DEF IInv, TableInv, RowInv, TxInv, FailedInv, Report
<1> QED
  BY <1>1, <1>2, <1>3, <1>6, <1>7, ApartStands DEF TableInv, Moves

(* An escalation fails a pending row that nobody locks, and reports it.    *)
LEMMA EscalateTable ==
  ASSUME IInv, NEW p \in Processes, NEW u \in Units, EscalateOne(p, u)
  PROVE  TableInv'
<1> DEFINE e == orphans[p][u].event
<1>0. TypeOK
  BY DEF IInv
<1>1. /\ e \in Events
      /\ \A f \in Events : f # e \/ ~Pending(e) =>
            outbox'[f] = outbox[f] /\ reports'[f] = reports[f]
      /\ Pending(e) => outbox'[e].status = "failed"
  BY <1>0, EscalateEffect
<1>2. \A q \in Processes : e \notin tick[q].held
  BY DEF EscalateOne
<1>3. UNCHANGED <<tick, draft, consumed, throws>> /\ stuck \subseteq stuck'
  BY DEF EscalateOne
<1> HIDE DEF e
<1>4. ASSUME NEW q \in Processes PROVE TxInv(q)'
  <2>1. TxInv(q) /\ tick[q] \in Ticks
    BY <1>0, TickType DEF IInv, TableInv
  <2>2. Respects(q)
    BY <1>1, <1>2, <2>1 DEF Respects, TxInv, FailedInv, Pending, Ticks
  <2> QED
    BY <1>3, <2>2, Bystander DEF GhostsGrow
<1>5. \A f \in Events : RowInv(f)'
  BY <1>1 DEF IInv, TableInv, RowInv, Pending
<1> QED
  BY <1>3, <1>4, <1>5 DEF IInv, TableInv, Apart

(* Every step keeps the table's invariant.                                 *)
LEMMA TableStep ==
  ASSUME IInv, [Next]_vars
  PROVE  TableInv'
<1>1. CASE UNCHANGED <<outbox, tick, draft, ghosts>>
  BY <1>1 DEF IInv, TableInv, RowInv, TxInv, TickInv, FailedInv, DraftInv, InTx, Unhandled,
              Pending, Apart
<1>2. CASE UNCHANGED vars
  BY <1>1, <1>2
<1>3. ASSUME NEW e \in Events, Publish(e) PROVE TableInv'
  BY <1>3, PublishTable
<1>4. ASSUME NEW p \in Processes, NEW e \in Events, Settle(p, e) PROVE TableInv'
  BY <1>1, <1>4 DEF Settle
<1>5. CASE Clock
  BY <1>1, <1>5 DEF Clock
<1>6. ASSUME NEW p \in Processes,
             Start(p) \/ Exit(p) \/ Claim(p) \/ TickStep(p) \/ TickFault(p)
      PROVE  TableInv'
  BY <1>6, RestTable, LoopTable, ClaimTable, CallReturnsTable, CallThrowsTable,
     CallTimesOutTable, CommitTable, ReportTable, EscalateTable
     DEF TickStep, TickFault
<1> QED
  BY <1>2, <1>3, <1>4, <1>5, <1>6 DEF Next
-------------------------------------------------------------------------------
(* The guards of units.                                                    *)

(* The guards stand when no call of p starts or is abandoned.              *)
LEMMA GuardsStand ==
  ASSUME IInv, NEW p \in Processes, orphans'[p] = orphans[p], detached'[p] = detached[p],
         tick'[p].pc = "call" => tick[p].pc = "call" /\ tick'[p].cur = tick[p].cur
  PROVE  GuardInv(p)'
  BY DEF IInv, GuardInv, Orphaned

(* Every step keeps every guard in place.                                  *)
LEMMA GuardStep ==
  ASSUME IInv, [Next]_vars
  PROVE  \A p \in Processes : GuardInv(p)'
<1>0. TypeOK
  BY DEF IInv
<1>1. ASSUME UNCHANGED <<tick, orphans, detached>> PROVE \A p \in Processes : GuardInv(p)'
  BY <1>1, GuardsStand
<1>2. CASE UNCHANGED vars
  BY <1>1, <1>2
<1>3. ASSUME NEW e \in Events, Publish(e) PROVE \A p \in Processes : GuardInv(p)'
  BY <1>1, <1>3 DEF Publish
<1>4. CASE Clock
  <2>1. ASSUME NEW p \in Processes, NEW u \in Units
        PROVE  orphans'[p][u].event = orphans[p][u].event
    <3>1. orphans[p][u] \in Orphans
      BY <1>0 DEF TypeOK
    <3> QED
      BY <1>4, <3>1 DEF Clock, NoOrphan, Orphans
  <2>2. ASSUME NEW p \in Processes PROVE GuardInv(p)'
    <3>1. tick[p].pc = "call" => tick[p].cur \in Events
      BY CurIsEvent
    <3> QED
      BY <1>0, <1>4, <2>1, <3>1 DEF IInv, GuardInv, Orphaned, Clock, TypeOK
  <2> QED
    BY <2>2
<1>5. ASSUME NEW p \in Processes, Exit(p) \/ Crash(p)
      PROVE  \A q \in Processes : GuardInv(q)'
  <2>1. /\ Moves(p, NoTick("down", FALSE)) /\ detached'[p] = {}
        /\ \A q \in Processes \ {p} : orphans'[q] = orphans[q] /\ detached'[q] = detached[q]
    BY <1>0, <1>5, DieEffect DEF Exit, Crash
  <2>2. tick'[p].pc = "down"
    BY <2>1 DEF Moves, NoTick
  <2>3. GuardInv(p)'
    BY <2>1, <2>2 DEF GuardInv
  <2>4. ASSUME NEW q \in Processes \ {p} PROVE GuardInv(q)'
    BY <2>1, GuardsStand DEF Moves
  <2> QED
    BY <2>3, <2>4
<1>6. ASSUME NEW p \in Processes, NEW e \in Events, Settle(p, e)
      PROVE  \A q \in Processes : GuardInv(q)'
  <2>1. orphans[p][UnitOf[e]].event = e /\ UnitOf[e] \in Units
    BY <1>6 DEF IInv, GuardInv, Settle
  <2>2. /\ orphans' = [orphans EXCEPT ![p][UnitOf[e]] = NoOrphan]
        /\ detached' = [detached EXCEPT ![p] = @ \ {e}] /\ tick' = tick
    BY <1>6, <2>1 DEF Settle
  <2>3. ASSUME NEW q \in Processes \ {p} PROVE GuardInv(q)'
    BY <1>0, <2>2, GuardsStand DEF TypeOK
  <2>4. \A f \in detached[p] \ {e} : UnitOf[f] # UnitOf[e]
    BY <2>1 DEF IInv, GuardInv
  <2>5. tick[p].pc = "call" => tick[p].cur \in Events
    BY CurIsEvent
  <2>6. detached'[p] = detached[p] \ {e}
    BY <1>0, <2>2 DEF TypeOK
  <2>7. \A v \in Units : orphans'[p][v] = IF v = UnitOf[e] THEN NoOrphan ELSE orphans[p][v]
    BY <1>0, <2>1, <2>2 DEF TypeOK
  <2>8. detached[p] \subseteq Events
    BY <1>0 DEF TypeOK
  <2>9. GuardInv(p)'
    BY <2>2, <2>4, <2>5, <2>6, <2>7, <2>8 DEF IInv, GuardInv, Orphaned, NoOrphan
  <2> QED
    BY <2>3, <2>9
<1>7. ASSUME NEW p \in Processes, CallTimesOut(p)
      PROVE  \A q \in Processes : GuardInv(q)'
  <2> DEFINE e == tick[p].cur
             o == [event |-> e, age |-> 0, escalated |-> FALSE]
  <2>1. e \in Events /\ UnitOf[e] \in Units /\ draft[p][e] \in Rows
    BY <1>7, CurIsEvent DEF CallTimesOut
  <2>2. AfterTimeout(p, e) \in Rows
    BY <2>1, BumpedType DEF AfterTimeout, Rows
  <2>3. /\ \A q \in Processes \ {p} : tick'[q] = tick[q]
        /\ tick'[p].pc = "loop"
    <3>1. Moves(p, [tick[p] EXCEPT !.pc = "loop", !.cur = None,
                    !.failed = IF AfterTimeout(p, e).status = "failed" THEN @ \cup {e} ELSE @])
      BY <1>0, <1>7, <2>1, <2>2, BookkeepEffect DEF CallTimesOut
    <3>2. tick[p] \in Ticks
      BY <1>0, TickType
    <3> QED
      BY <3>1, <3>2 DEF Moves, Ticks
  <2>4. /\ detached'[p] = detached[p] \cup {e}
        /\ \A q \in Processes \ {p} : detached'[q] = detached[q] /\ orphans'[q] = orphans[q]
    BY <1>0, <1>7 DEF CallTimesOut, TypeOK
  <2>5. \A v \in Units : orphans'[p][v] = IF v = UnitOf[e] THEN o ELSE orphans[p][v]
    BY <1>0, <1>7, <2>1 DEF CallTimesOut, TypeOK
  <2>6. orphans[p][UnitOf[e]].event = None
    BY <1>7 DEF IInv, GuardInv, Orphaned, CallTimesOut
  <2>7. \A f \in detached[p] : f \in Events /\ UnitOf[f] # UnitOf[e]
    BY <1>0, <2>6 DEF IInv, GuardInv, TypeOK
  <2>8. GuardInv(p)'
    <3>1. ASSUME NEW f \in detached[p] PROVE orphans'[p][UnitOf[f]].event = f
      <4>1. UnitOf[f] \in Units \ {UnitOf[e]}
        BY <2>7
      <4> QED
        BY <2>5, <4>1 DEF IInv, GuardInv
    <3>2. orphans'[p][UnitOf[e]].event = e
      BY <2>1, <2>5
    <3> QED
      BY <2>3, <2>4, <3>1, <3>2 DEF GuardInv
  <2>9. ASSUME NEW q \in Processes \ {p} PROVE GuardInv(q)'
    BY <2>3, <2>4, GuardsStand
  <2> QED
    BY <2>8, <2>9
<1>8. ASSUME NEW p \in Processes, NEW u \in Units, EscalateOne(p, u)
      PROVE  \A q \in Processes : GuardInv(q)'
  <2>1. orphans' = [orphans EXCEPT ![p] = [orphans[p] EXCEPT ![u] =
                      [orphans[p][u] EXCEPT !.escalated = TRUE]]]
    BY <1>8 DEF EscalateOne
  <2>2. ASSUME NEW q \in Processes, NEW v \in Units
        PROVE  orphans'[q][v].event = orphans[q][v].event
    <3>1. orphans[p][u] \in Orphans
      BY <1>0 DEF TypeOK
    <3>2. [orphans[p][u] EXCEPT !.escalated = TRUE].event = orphans[p][u].event
      BY <3>1 DEF Orphans
    <3> QED
      BY <1>0, <2>1, <3>2 DEF TypeOK
  <2>3. ASSUME NEW q \in Processes PROVE GuardInv(q)'
    <3>1. tick[q].pc = "call" => tick[q].cur \in Events
      BY CurIsEvent
    <3> QED
      BY <1>0, <1>8, <2>2, <3>1 DEF IInv, GuardInv, Orphaned, EscalateOne, TypeOK
  <2> QED
    BY <2>3
<1>9. ASSUME NEW p \in Processes, Invoke(p)
      PROVE  \A q \in Processes : GuardInv(q)'
  <2>1. PICK e \in tick[p].left :
          /\ ~Orphaned(p, e)
          /\ Moves(p, [tick[p] EXCEPT !.pc = "call", !.cur = e, !.left = @ \ {e}])
    BY <1>0, <1>9, InvokeEffect
  <2>2. tick'[p].cur = e
    BY <1>0, <2>1, TickType DEF Moves, Ticks
  <2>3. orphans' = orphans /\ detached' = detached
    BY <1>9 DEF Invoke
  <2>4. GuardInv(p)'
    BY <2>1, <2>2, <2>3 DEF IInv, GuardInv, Orphaned
  <2>5. ASSUME NEW q \in Processes \ {p} PROVE GuardInv(q)'
    BY <2>1, <2>3, GuardsStand DEF Moves
  <2> QED
    BY <2>4, <2>5
<1>10. ASSUME NEW p \in Processes, NEW t, Moves(p, t),
              t.pc = "call" => tick[p].pc = "call" /\ t.cur = tick[p].cur,
              UNCHANGED <<orphans, detached>>
       PROVE  \A q \in Processes : GuardInv(q)'
  BY <1>10, GuardsStand DEF Moves
<1>11. ASSUME NEW p \in Processes, Start(p) PROVE \A q \in Processes : GuardInv(q)'
  BY <1>0, <1>10, <1>11, StartEffect DEF Start, NoTick
<1>12. ASSUME NEW p \in Processes, Claim(p) PROVE \A q \in Processes : GuardInv(q)'
  <2>1. PICK b : Moves(p, [tick[p] EXCEPT !.pc = "loop", !.held = b, !.left = b])
    BY <1>0, <1>12, ClaimEffect
  <2> QED
    BY <1>0, <1>10, <1>12, <2>1, TickType DEF Claim, Ticks
<1>13. ASSUME NEW p \in Processes, ClaimRefused(p) \/ EndTick(p) \/ EscalationFails(p)
       PROVE  \A q \in Processes : GuardInv(q)'
  <2>1. PICK pc \in {"escalate", "idle"} : Moves(p, [tick[p] EXCEPT !.pc = pc])
    BY <1>0, <1>13, GotoEffect DEF ClaimRefused, EndTick, EscalationFails, Points
  <2>2. [tick[p] EXCEPT !.pc = pc].pc # "call"
    BY <1>0, TickType DEF Ticks
  <2> QED
    BY <1>10, <1>13, <2>1, <2>2 DEF ClaimRefused, EndTick, EscalationFails
<1>14. ASSUME NEW p \in Processes, Skip(p) PROVE \A q \in Processes : GuardInv(q)'
  <2>1. PICK e \in tick[p].left : Moves(p, [tick[p] EXCEPT !.left = @ \ {e}])
    BY <1>0, <1>14, SkipEffect
  <2> QED
    BY <1>0, <1>10, <1>14, <2>1, TickType DEF Skip, Ticks
<1>15. ASSUME NEW p \in Processes, CallReturns(p) \/ CallThrows(p)
       PROVE  \A q \in Processes : GuardInv(q)'
  <2> DEFINE e == tick[p].cur
  <2>1. PICK r \in Rows : Bookkeep(p, e, r)
    <3>1. e \in Events /\ draft[p][e] \in Rows
      BY <1>15, CurIsEvent DEF CallReturns, CallThrows
    <3>2. [draft[p][e] EXCEPT !.status = "dispatched"] \in Rows
      BY <3>1 DEF Rows
    <3>3. AfterThrow(draft[p][e]) \in Rows
      BY <3>1, BumpedType DEF AfterThrow, Rows
    <3> QED
      BY <1>15, <3>2, <3>3 DEF CallReturns, CallThrows
  <2>2. e \in Events
    BY <1>15, CurIsEvent DEF CallReturns, CallThrows
  <2>3. Moves(p, [tick[p] EXCEPT !.pc = "loop", !.cur = None,
                    !.failed = IF r.status = "failed" THEN @ \cup {e} ELSE @])
    BY <1>0, <2>1, <2>2, BookkeepEffect
  <2>4. tick'[p].pc = "loop"
    BY <1>0, <2>3, TickType DEF Moves, Ticks
  <2> QED
    BY <1>15, <2>3, <2>4, GuardsStand DEF CallReturns, CallThrows, Moves
<1>16. ASSUME NEW p \in Processes, Commit(p) \/ CommitUnacknowledged(p) \/ Abort(p)
       PROVE  \A q \in Processes : GuardInv(q)'
  <2>1. tick[p].failed \in SUBSET Events
    BY <1>0, TickType DEF Ticks
  <2>2. PICK pc \in {"report", "escalate"}, failed \in SUBSET Events : CloseTx(p, pc, failed)
    BY <1>16, <2>1 DEF Commit, CommitUnacknowledged, Abort
  <2>3. Moves(p, [NoTick(pc, tick[p].stopping) EXCEPT !.failed = failed])
    BY <1>0, <2>2, CloseTxEffect DEF Points
  <2> QED
    BY <1>10, <1>16, <2>3 DEF Commit, CommitUnacknowledged, Abort, NoTick
<1>17. ASSUME NEW p \in Processes, Report(p) PROVE \A q \in Processes : GuardInv(q)'
  BY ZenonT(40), <1>0, <1>10, <1>17, ReportEffect, TickType DEF Report, Ticks
<1>18. ASSUME NEW p \in Processes, ConnectionLost(p) PROVE \A q \in Processes : GuardInv(q)'
  BY <1>0, <1>10, <1>18, ConnectionLostEffect, TickType DEF ConnectionLost, Ticks
<1>19. ASSUME NEW p \in Processes, Stop(p) PROVE \A q \in Processes : GuardInv(q)'
  BY <1>0, <1>10, <1>19, StopEffect, TickType DEF Stop, Ticks
<1> QED
  BY <1>2, <1>3, <1>4, <1>5, <1>6, <1>7, <1>8, <1>9, <1>11, <1>12, <1>13, <1>14, <1>15,
     <1>16, <1>17, <1>18, <1>19
     DEF Next, TickStep, TickFault
-------------------------------------------------------------------------------
(* The initial states satisfy the invariant.                               *)
LEMMA InitIInv == Init => IInv
<1> SUFFICES ASSUME Init PROVE IInv
  OBVIOUS
<1>1. \A p \in Processes : /\ tick[p].pc = "down" /\ tick[p].held = {} /\ tick[p].left = {}
                           /\ tick[p].failed = {} /\ tick[p].broken = FALSE
  BY DEF Init, NoTick
<1>2. TypeOK
  <2>1. outbox \in [Events -> Rows] /\ draft \in [Processes -> [Events -> Rows]]
    BY Blank DEF Init
  <2>2. tick \in [Processes -> Ticks]
    BY Blank DEF Init, Points
  <2>3. /\ orphans \in [Processes -> [Units -> Orphans]]
        /\ streak \in [Processes -> [Events -> Ages]]
    BY Blank DEF Init
  <2>4. /\ detached \in [Processes -> SUBSET Events] /\ faults \in Nat
        /\ consumed \subseteq Events /\ stuck \subseteq Events
    BY DEF Init
  <2>5. throws \in [Events -> 0..MaxAttempts] /\ reports \in [Events -> Nat]
    BY DEF Init
  <2> QED
    BY <2>1, <2>2, <2>3, <2>4, <2>5 DEF TypeOK
<1>3. TableInv
  <2>1. \A e \in Events : RowInv(e)
    BY DEF Init, AbsentRow, RowInv
  <2>2. \A p \in Processes : TxInv(p)
    BY <1>1 DEF TxInv, TickInv, FailedInv, InTx
  <2>3. \A p, q \in Processes : Apart(p, q)
    BY <1>1 DEF Apart
  <2> QED
    BY <2>1, <2>2, <2>3 DEF TableInv
<1>4. \A p \in Processes : GuardInv(p)
  BY <1>1 DEF Init, GuardInv
<1> QED
  BY <1>2, <1>3, <1>4 DEF IInv

(* The invariant is inductive.                                             *)
LEMMA NextIInv == IInv /\ [Next]_vars => IInv'
  BY TypeStep, TableStep, GuardStep DEF IInv

(* In every reachable state, each row a dispatcher's transaction locks is  *)
(* pending and locked by no other, its draft is justified by what its      *)
(* consumer did, and each abandoned call guards its unit.                  *)
THEOREM Invariance == Spec => []IInv
<1>1. Init => IInv
  BY InitIInv
<1>2. IInv /\ [Next]_vars => IInv'
  BY NextIInv
<1> QED
  BY <1>1, <1>2, PTL DEF Spec

(* Every variable of the dispatcher keeps its type.                        *)
THEOREM TypeCorrect == Spec => []TypeOK
<1>1. IInv => TypeOK
  BY DEF IInv
<1> QED
  BY <1>1, Invariance, PTL

-------------------------------------------------------------------------------
(* No two calls of a unit.                                                 *)

(* A set whose elements are all equal has one at most.                     *)
LEMMA AtMostOne ==
  ASSUME NEW S, \A x, y \in S : x = y
  PROVE  Cardinality(S) <= 1
<1>1. CASE S = {}
  BY <1>1, FS_EmptySet
<1>2. CASE S # {}
  <2>1. PICK x \in S : S = {x}
    BY <1>2
  <2> QED
    BY <2>1, FS_Singleton
<1> QED
  BY <1>1, <1>2

(* The calls of a unit are one.                                            *)
LEMMA OneCall ==
  ASSUME IInv, NEW p \in Processes, NEW u \in Units
  PROVE  \A c, d \in Running(p, u) : c = d
<1> SUFFICES ASSUME NEW c \in Running(p, u), NEW d \in Running(p, u) PROVE c = d
  OBVIOUS
<1>1. /\ c \in Events \X {"awaited", "abandoned"} /\ d \in Events \X {"awaited", "abandoned"}
      /\ UnitOf[c[1]] = u /\ UnitOf[d[1]] = u
      /\ c[2] = "awaited" => tick[p].pc = "call" /\ c[1] = tick[p].cur
      /\ d[2] = "awaited" => tick[p].pc = "call" /\ d[1] = tick[p].cur
      /\ c[2] # "awaited" => c[1] \in detached[p]
      /\ d[2] # "awaited" => d[1] \in detached[p]
  BY DEF Running
<1>2. \A e \in detached[p] : orphans[p][UnitOf[e]].event = e /\ e # None
  BY DEF IInv, GuardInv, TypeOK
<1>3. tick[p].pc = "call" => orphans[p][UnitOf[tick[p].cur]].event = None
  BY DEF IInv, GuardInv, Orphaned
<1>4. c[2] = d[2] /\ c[1] = d[1]
  BY <1>1, <1>2, <1>3
<1> QED
  BY <1>1, <1>4

(* A consumer is never invoked for a unit while an earlier call of that    *)
(* unit still runs in the same process, abandoned by its deadline or not.  *)
THEOREM NoOverlap == Spec => []NeverOverlapsItself
<1>1. IInv => NeverOverlapsItself
  BY OneCall, AtMostOne DEF NeverOverlapsItself
<1> QED
  BY <1>1, Invariance, PTL

-------------------------------------------------------------------------------
(* The contract with the consumers.                                        *)

(* What the contract asks of a step, said of the dispatcher's variables.   *)
Heard ==
  /\ consumed \subseteq consumed'
  /\ \A e \in consumed' \ consumed : e \in Events /\ outbox[e].status # "absent"

Settles(e) ==
  \/ outbox'[e].status = outbox[e].status
  \/ outbox[e].status = "absent" /\ outbox'[e].status = "pending"
  \/ outbox[e].status = "pending" /\ outbox'[e].status = "dispatched" /\ e \in consumed'
  \/ outbox[e].status = "pending" /\ outbox'[e].status = "failed" /\ e \in Causes'

Told(e) ==
  \/ reports'[e] = reports[e]
  \/ reports[e] = 0 /\ reports'[e] = 1 /\ outbox'[e].status = "failed"

Keeps ==
  /\ Heard /\ Causes \subseteq Causes'
  /\ \A e \in Events : Settles(e) /\ Told(e)

(* ... is what the contract asks.                                          *)
LEMMA KeepsIsNext ==
  ASSUME Keeps
  PROVE  Contract!Next
<1> DEFINE status == [e \in Events |-> outbox[e].status]
<1>1. Contract!Hearing
  BY DEF Keeps, Heard, Contract!Hearing
<1>2. ASSUME NEW e \in Events
      PROVE  status'[e] = status[e] \/ Contract!Publish(e) \/ Contract!Dispatch(e)
                                   \/ Contract!GiveUp(e)
  <2>1. Settles(e)
    BY DEF Keeps
  <2> QED
    BY <2>1 DEF Settles, Contract!Publish, Contract!Dispatch, Contract!GiveUp
<1>3. ASSUME NEW e \in Events PROVE reports'[e] = reports[e] \/ Contract!Tell(e)
  <2>1. Told(e)
    BY DEF Keeps
  <2> QED
    BY <2>1 DEF Told, Contract!Tell
<1> QED
  BY <1>1, <1>2, <1>3 DEF Keeps, Contract!Next
(* A step that settles and reports nothing keeps the contract.             *)
LEMMA QuietKeeps ==
  ASSUME IInv, UNCHANGED <<outbox, reports>>, GhostsGrow, Heard
  PROVE  Keeps
<1>1. Causes \subseteq Causes'
  BY DEF Causes, GhostsGrow
<1> QED
  BY <1>1 DEF Keeps, Settles, Told

(* A publication keeps the contract: it makes an absent row pending.       *)
LEMMA PublishKeeps ==
  ASSUME IInv, NEW e \in Events, Publish(e)
  PROVE  Keeps
<1>1. /\ outbox'[e].status = "pending" /\ outbox'[e].attempts = 0
      /\ \A f \in Events \ {e} : outbox'[f] = outbox[f]
      /\ outbox[e].status = "absent" /\ outbox[e].attempts = 0
  BY DEF Publish, IInv, TypeOK, TableInv, RowInv
<1>2. Causes \subseteq Causes'
  BY <1>1 DEF Causes, Publish
<1> QED
  BY <1>1, <1>2 DEF Keeps, Heard, Settles, Told, Publish

(* So does a commit: each row it changes was pending, and its draft is     *)
(* justified.                                                              *)
LEMMA CommitKeeps ==
  ASSUME IInv, NEW p \in Processes, Commit(p) \/ CommitUnacknowledged(p)
  PROVE  Keeps
<1>0. TypeOK /\ tick[p] \in Ticks /\ TxInv(p) /\ TypeOK'
  <2>1. [Next]_vars
    BY DEF Next, TickStep, TickFault
  <2> QED
    BY <2>1, TickType, TypeStep DEF IInv, TableInv
<1>1. /\ \A e \in tick[p].held : outbox'[e] = draft[p][e]
      /\ \A e \in Events \ tick[p].held : outbox'[e] = outbox[e]
      /\ UNCHANGED <<reports, ghosts>>
  BY <1>0 DEF Commit, CommitUnacknowledged, Committed, Ticks
<1>2. ASSUME NEW e \in Events
      PROVE  Settles(e) /\ (e \in Causes => e \in Causes')
  <2>1. CASE e \notin tick[p].held
    BY <1>1, <2>1 DEF Settles, Causes
  <2>2. CASE e \in tick[p].held
    <3>1. DraftInv(p, e) /\ outbox'[e] = draft[p][e] /\ draft[p][e] \in Rows
      BY <1>0, <1>1, <2>2 DEF TxInv, TypeOK
    <3>2. outbox[e].attempts = MaxAttempts => draft[p][e].attempts = MaxAttempts
      BY <1>0, <3>1 DEF DraftInv, TypeOK, Rows
    <3>3. e \in Causes => e \in Causes'
      BY <1>1, <3>1, <3>2 DEF Causes
    <3>4. draft[p][e].status = "failed" => e \in Causes'
      BY <1>1, <3>1 DEF DraftInv, Causes
    <3>5. draft[p][e].status \in {"pending", "dispatched", "failed"}
      BY <3>1 DEF DraftInv, Rows
    <3> QED
      BY <1>1, <3>1, <3>3, <3>4, <3>5 DEF DraftInv, Pending, Settles
  <2> QED
    BY <2>1, <2>2
<1>3. Causes \subseteq Causes'
  BY <1>2 DEF Causes
<1> QED
  BY <1>1, <1>2, <1>3 DEF Keeps, Heard, Told

(* So does a report: what it tells of has failed and was never told of.    *)
LEMMA ReportKeeps ==
  ASSUME IInv, NEW p \in Processes, Report(p)
  PROVE  Keeps
<1>1. \A e \in tick[p].failed : outbox[e].status = "failed" /\ reports[e] = 0
  BY DEF IInv, TableInv, TxInv, FailedInv, Report
<1>2. UNCHANGED <<outbox, consumed, stuck, throws>>
  BY DEF Report
<1>3. \A e \in Events : Told(e)
  BY <1>1, <1>2 DEF Told, Report
<1>4. Causes \subseteq Causes'
  BY <1>2 DEF Causes
<1> QED
  BY <1>2, <1>3, <1>4 DEF Keeps, Heard, Settles

(* So does an escalation, whose event has a cause from then on.            *)
LEMMA EscalateKeeps ==
  ASSUME IInv, NEW p \in Processes, NEW u \in Units, EscalateOne(p, u)
  PROVE  Keeps
<1> DEFINE e == orphans[p][u].event
<1>1. /\ e \in Events
      /\ \A f \in Events : f # e \/ ~Pending(e) =>
            outbox'[f] = outbox[f] /\ reports'[f] = reports[f]
      /\ Pending(e) => /\ outbox'[e].status = "failed"
                       /\ outbox'[e].attempts = outbox[e].attempts
                       /\ reports'[e] = reports[e] + 1
  BY EscalateEffect DEF IInv
<1>2. UNCHANGED <<consumed, throws>> /\ stuck' = stuck \cup {e}
  BY DEF EscalateOne
<1> HIDE DEF e
<1>3. Pending(e) => reports[e] = 0
  <2>1. reports[e] \in Nat /\ RowInv(e)
    BY <1>1 DEF IInv, TableInv, TypeOK
  <2> QED
    BY <2>1 DEF RowInv, Pending
<1>4. \A f \in Events : f \in Causes => f \in Causes'
  BY <1>1, <1>2 DEF Causes
<1>5. e \in Causes'
  BY <1>1, <1>2 DEF Causes
<1>6. ASSUME NEW f \in Events PROVE Settles(f) /\ Told(f)
  BY <1>1, <1>3, <1>5 DEF Settles, Told, Pending
<1>7. Causes \subseteq Causes'
  BY <1>4 DEF Causes
<1> QED
  BY <1>2, <1>6, <1>7 DEF Keeps, Heard

(* Every step of the dispatcher is a step of the contract.                 *)
LEMMA StepKeeps ==
  ASSUME IInv, [Next]_vars
  PROVE  Keeps
<1>1. ASSUME UNCHANGED <<outbox, reports, ghosts>> PROVE Keeps
  BY <1>1, QuietKeeps DEF GhostsGrow, Heard
<1>2. ASSUME NEW p \in Processes, CallReturns(p) PROVE Keeps
  <2>1. tick[p].cur \in Events /\ outbox[tick[p].cur].status # "absent"
    BY <1>2 DEF CallReturns, IInv, TableInv, TxInv, TickInv
  <2> QED
    BY <1>2, <2>1, QuietKeeps DEF CallReturns, GhostsGrow, Heard
<1>3. ASSUME NEW p \in Processes, CallThrows(p) PROVE Keeps
  <2>1. tick[p].cur \in Events
    BY <1>3, CurIsEvent DEF CallThrows
  <2>2. GhostsGrow
    BY <1>3, <2>1, BumpedType DEF CallThrows, GhostsGrow, IInv, TypeOK
  <2> QED
    BY <1>3, <2>2, QuietKeeps DEF CallThrows, Heard
<1>4. ASSUME NEW p \in Processes, CallTimesOut(p) PROVE Keeps
  BY <1>4, QuietKeeps DEF CallTimesOut, GhostsGrow, Heard
<1>5. ASSUME NEW p \in Processes,
             \/ Start(p) \/ Exit(p) \/ Claim(p) \/ Skip(p) \/ Invoke(p) \/ Abort(p)
             \/ EndTick(p) \/ ClaimRefused(p) \/ ConnectionLost(p) \/ EscalationFails(p)
             \/ Crash(p) \/ Stop(p) \/ (\E e \in Events : Settle(p, e))
      PROVE  Keeps
  BY <1>1, <1>5 DEF Start, Exit, Claim, Skip, Invoke, Abort, EndTick, ClaimRefused,
                    ConnectionLost, EscalationFails, Crash, Stop, Settle
<1>6. CASE Clock \/ UNCHANGED vars
  BY <1>1, <1>6 DEF Clock
<1> QED
  BY <1>2, <1>3, <1>4, <1>5, <1>6, PublishKeeps, CommitKeeps, ReportKeeps, EscalateKeeps
     DEF Next, TickStep, TickFault

(* The dispatcher implements the contract of its consumers, whatever its   *)
(* processes do side by side: a row is settled once and for good, as       *)
(* dispatched only after a call of its consumer returned, as failed only   *)
(* for cause, and its failure is reported once at most, once committed.    *)
THEOREM ContractRefined == Spec => ContractKept
<1>1. Init => Contract!Init
  BY DEF Init, AbsentRow, Contract!Init, Causes
<1>2. IInv /\ [Next]_vars => [Contract!Next]_(Contract!vars)
  BY StepKeeps, KeepsIsNext
<1> QED
  BY <1>1, <1>2, Invariance, PTL DEF Spec, ContractKept, Contract!Spec

(* What the contract comes to, carried over to the dispatcher: each step   *)
(* of the contract keeps it.                                               *)
LEMMA ContractAccounts ==
  ASSUME Contract!Accounted, [Contract!Next]_(Contract!vars)
  PROVE  Contract!Accounted'
<1>1. CASE UNCHANGED Contract!vars
  BY <1>1 DEF Contract!Accounted, Contract!vars
<1>2. CASE Contract!Next
  BY <1>2 DEF Contract!Accounted, Contract!Next, Contract!Hearing, Contract!Publish,
              Contract!Dispatch, Contract!GiveUp, Contract!Tell
<1> QED
  BY <1>1, <1>2

(* Behind every outcome there is what it claims: a dispatched row was      *)
(* consumed, a failed one has a cause, whichever process settled it.       *)
THEOREM AccountedFor == Spec => []Contract!Accounted
<1>1. Contract!Init => Contract!Accounted
  BY DEF Contract!Init, Contract!Accounted
<1>2. Contract!Spec => []Contract!Accounted
  BY <1>1, ContractAccounts, PTL DEF Contract!Spec
<1> QED
  BY <1>2, ContractRefined, PTL DEF ContractKept

(* An outcome is final, whatever later ticks, processes and reports do.    *)
THEOREM OutcomesStay == Spec => Contract!SettledStays
<1>1. Contract!Accounted /\ [Contract!Next]_(Contract!vars)
        => [Contract!AllStay]_(Contract!vars)
  BY DEF Contract!Next, Contract!Publish, Contract!Dispatch, Contract!GiveUp, Contract!Tell,
         Contract!Hearing, Contract!AllStay, Contract!Stays
<1> QED
  BY <1>1, AccountedFor, ContractRefined, PTL DEF ContractKept, Contract!Spec, Contract!SettledStays
===============================================================================
