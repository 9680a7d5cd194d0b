-------------------------- MODULE LabelActionsProofs --------------------------
(***************************************************************************)
(* Proofs about LabelActions, for every set of actions, messages and       *)
(* workers, every chunk size, attempt and stall limit, and any number of   *)
(* faults of any kind.                                                     *)
(*                                                                         *)
(* The argument rests on the mailbox lock: only its holder is between the  *)
(* load of a row and the end of the attempt (WorkerInv), so what that      *)
(* worker read of its row can be changed under it only by the three writes *)
(* that ignore the lock: onTerminalFailure of a stalled twin, the API's    *)
(* enqueue-failure mark, and the reset of an Undo.  ActionInv says what    *)
(* those leave true of a row whoever reads it next.                        *)
(*                                                                         *)
(* Three more invariants rest on the first, in the order of the file: what *)
(* a worker has left to send is part of the set its row saved (UndoInv);   *)
(* of the attempts of a decision all but the latest are over, if none was  *)
(* marked failed before its run (AttemptsInv); and the placement stored    *)
(* for a Delete covers what is sent under it and, where only Delete and    *)
(* its Undo move mail, tells where the messages were (PlacedInv).          *)
(* After them, what a change of labels comes to when it is repeated or     *)
(* undone; and the invariant that says who will end a live row (CarryInv). *)
(***************************************************************************)
EXTENDS LabelActions, FiniteSetTheorems, TLAPS

-------------------------------------------------------------------------------
(* The inductive invariant.                                                *)

ForwardPoints == {"check", "resolve", "empty", "client", "hook", "send",
                  "refused", "timer", "commit"}
ReversePoints == {"revsend", "revcommit"}

(* Nothing of the action has happened, in Gmail or in the records.         *)
Untouched(a) == applied[a] = {} /\ ledger[a] = 0 /\ journal[a] = NoEntry

(* The worker is past the hook that marks its row executing.               *)
Sent(w) ==
  \/ wk[w].pc \in {"send", "refused", "timer", "commit"}
  \/ wk[w].pc = "hook" /\ wk[w].landed

(* What a worker in the forward path can rely on about its own row.        *)
RunningInv(w) ==
  /\ ledger[Act(w)] = 0 /\ journal[Act(w)] = NoEntry
  /\ Row(w).err # "LABEL_SENDER_PROTECTED"
  /\ wk[w].clean /\ ~wk[w].landed => applied[Act(w)] = {}
  /\ Sent(w) => ~NeverReachedGmail(Row(w))

WorkerInv(w) ==
  /\ wk[w].pc # "idle" => wk[w].job \in Jobs /\ Row(w).status # "absent"
  /\ wk[w].pc \in Critical => mlock = w
  /\ wk[w].pc \in ForwardPoints => Forward(wk[w].job) /\ RunningInv(w)
  /\ wk[w].pc \in ReversePoints => ~Forward(wk[w].job)
  /\ wk[w].pc \in {"lock", "load", "check", "resolve", "empty", "client"}
       => ~wk[w].landed
  /\ wk[w].pc = "send" /\ policy.protected => wk[w].conf \/ w \in racing

ActionInv(a) ==
  /\ row[Fwd(a)].status = "absent" \/ NeverReachedGmail(row[Fwd(a)]) => Untouched(a)
  /\ ledger[a] <= 1
  /\ ~Settled(Fwd(a)) => ledger[a] = 0 /\ journal[a] = NoEntry
  /\ row[Fwd(a)].err = "LABEL_SENDER_PROTECTED" =>
       row[Fwd(a)].status = "done" /\ Untouched(a)
  /\ row[Rev(a)].status # "absent" => journal[a].state # "none"

DeliveryInv(j) ==
  api[j].at # "idle" \/ queue[j].state # "none" => row[j].status # "absent"

IInv ==
  /\ TypeOK
  /\ \A w \in Workers : WorkerInv(w)
  /\ \A a \in Actions : ActionInv(a)
  /\ \A j \in Jobs : DeliveryInv(j)

-------------------------------------------------------------------------------
(* What a step does to the worker that takes it and to its row.            *)

OnlyWorker(w) ==
  wk' \in [Workers -> WorkerStates] /\ \A u \in Workers \ {w} : wk'[u] = wk[u]

KeepsJob(w) ==
  wk'[w].job = wk[w].job /\ wk'[w].conf = wk[w].conf /\ wk'[w].clean = wk[w].clean

FreesLock(w) ==
  mlock' \in Workers \cup {None} /\ (mlock # w => mlock' = mlock)

(* The attempt is over: what follows touches the queue and the row's       *)
(* failure mark only.                                                      *)
Leaves(w) ==
  /\ OnlyWorker(w) /\ KeepsJob(w) /\ FreesLock(w)
  /\ wk'[w].pc \in {"terminal", "end"}

OnlyRow(j) == row' \in [Jobs -> Rows] /\ \A i \in Jobs \ {j} : row'[i] = row[i]

USE DEF data, records, bounds, ghosts

(* Goto moves one worker's program counter and nothing else.               *)
LEMMA GotoEffect ==
  ASSUME TypeOK, NEW w \in Workers, NEW pc \in Points, Goto(w, pc)
  PROVE  OnlyWorker(w) /\ KeepsJob(w) /\ wk'[w].pc = pc /\ wk'[w].landed = wk[w].landed
  BY SMTT(30) DEF TypeOK, Goto, WorkerStates, OnlyWorker, KeepsJob

(* An attempt that returns leaves the critical section.                    *)
LEMMA ReturnEffect ==
  ASSUME TypeOK, NEW w \in Workers, Return(w)
  PROVE  Leaves(w)
<1> DEFINE r == [wk[w] EXCEPT !.pc = "end", !.err = "none"]
<1>1. wk' = [wk EXCEPT ![w] = r]
  BY DEF Return
<1>2. wk \in [Workers -> WorkerStates] /\ wk[w] \in WorkerStates
  BY DEF TypeOK
<1>3. r \in WorkerStates
  BY <1>2 DEF WorkerStates, Points
<1>4. OnlyWorker(w) /\ wk'[w] = r
  BY <1>1, <1>2, <1>3 DEF OnlyWorker
<1>5. KeepsJob(w) /\ wk'[w].pc = "end"
  BY <1>2, <1>4 DEF KeepsJob, WorkerStates
<1>6. FreesLock(w)
  BY DEF FreesLock, Return, TypeOK
<1> QED
  BY <1>4, <1>5, <1>6 DEF Leaves

(* So does an attempt that throws.                                         *)
LEMMA ThrowEffect ==
  ASSUME TypeOK, NEW w \in Workers, NEW e \in Errors \cup {"none"}, Throw(w, e)
  PROVE  Leaves(w)
<1> DEFINE pc == IF Terminal(e, wk[w].try) THEN "terminal" ELSE "end"
           r  == [wk[w] EXCEPT !.pc = pc, !.err = e]
<1>1. pc \in {"terminal", "end"}
  OBVIOUS
<1> HIDE DEF pc
<1>2. wk' = [wk EXCEPT ![w] = r]
  BY DEF Throw, pc
<1>3. wk \in [Workers -> WorkerStates] /\ wk[w] \in WorkerStates
  BY DEF TypeOK
<1>4. r \in WorkerStates
  BY <1>1, <1>3 DEF WorkerStates, Points
<1>5. OnlyWorker(w) /\ wk'[w] = r
  BY <1>2, <1>3, <1>4 DEF OnlyWorker
<1>6. KeepsJob(w) /\ wk'[w].pc = pc
  BY <1>3, <1>5 DEF KeepsJob, WorkerStates
<1>7. FreesLock(w)
  BY DEF FreesLock, Throw, TypeOK
<1> QED
  BY <1>1, <1>5, <1>6, <1>7 DEF Leaves

-------------------------------------------------------------------------------
(* Who is not affected by a step.                                          *)

(* A worker keeps its invariant when another steps and no record changes.  *)
LEMMA Bystander ==
  ASSUME IInv, NEW u \in Workers, wk'[u] = wk[u],
         UNCHANGED <<row, journal, ledger, applied>>,
         policy'.protected = policy.protected,
         u \in racing => u \in racing', mlock = u => mlock' = u
  PROVE  WorkerInv(u)'
  BY DEF IInv, WorkerInv, RunningInv, Sent, Row, Act, Job

(* A worker outside the critical section relies on its row's existence     *)
(* only.                                                                   *)
LEMMA Outsider ==
  ASSUME IInv, NEW u \in Workers, wk'[u] = wk[u], wk[u].pc \notin Critical,
         wk[u].pc # "idle" => row'[wk[u].job].status # "absent"
  PROVE  WorkerInv(u)'
  BY DEF IInv, WorkerInv, Row, Job, Critical, ForwardPoints, ReversePoints

(* While one worker is in the critical section, the others are outside.    *)
LEMMA MutualExclusion ==
  ASSUME IInv, NEW w \in Workers, wk[w].pc \in Critical, NEW u \in Workers \ {w}
  PROVE  wk[u].pc \notin Critical
  BY DEF IInv, WorkerInv

(* A worker that is done with its attempt relies on nothing but its row.   *)
LEMMA LeaverSettles ==
  ASSUME IInv, NEW w \in Workers, wk[w].pc # "idle", Leaves(w),
         row'[wk[w].job].status # "absent"
  PROVE  WorkerInv(w)'
  BY DEF IInv, WorkerInv, Row, Job, Leaves, KeepsJob, Critical, ForwardPoints, ReversePoints

(* Leaving the critical section, with whatever the holder wrote to its own *)
(* row, preserves every worker's invariant.                                *)
LEMMA LeavingSection ==
  ASSUME IInv, NEW w \in Workers, wk[w].pc \in Critical, Leaves(w),
         OnlyRow(wk[w].job), row'[wk[w].job].status # "absent"
  PROVE  \A u \in Workers : WorkerInv(u)'
<1>1. WorkerInv(w)'
  BY LeaverSettles DEF Critical
<1>2. ASSUME NEW u \in Workers \ {w} PROVE WorkerInv(u)'
  <2>1. wk[u].pc \notin Critical /\ wk'[u] = wk[u]
    BY MutualExclusion DEF Leaves, OnlyWorker
  <2>2. wk[u].pc # "idle" => row'[wk[u].job].status # "absent"
    BY DEF IInv, WorkerInv, Row, Job, OnlyRow
  <2> QED
    BY <2>1, <2>2, Outsider
<1> QED
  BY <1>1, <1>2

(* Moving inside the critical section: only the holder needs a look.       *)
LEMMA InsideSection ==
  ASSUME IInv, NEW w \in Workers, wk[w].pc \in Critical, OnlyWorker(w),
         OnlyRow(wk[w].job), row'[wk[w].job].status # "absent", WorkerInv(w)'
  PROVE  \A u \in Workers : WorkerInv(u)'
<1>1. ASSUME NEW u \in Workers \ {w} PROVE WorkerInv(u)'
  <2>1. wk[u].pc \notin Critical /\ wk'[u] = wk[u]
    BY MutualExclusion DEF OnlyWorker
  <2>2. wk[u].pc # "idle" => row'[wk[u].job].status # "absent"
    BY DEF IInv, WorkerInv, Row, Job, OnlyRow
  <2> QED
    BY <2>1, <2>2, Outsider
<1> QED
  BY <1>1

(* The records' invariant holds while the records stand still.             *)
LEMMA RecordsStand ==
  ASSUME IInv, UNCHANGED <<row, journal, ledger, applied>>
  PROVE  \A a \in Actions : ActionInv(a)'
  BY DEF IInv, ActionInv, Untouched, Settled

(* ... and for every action but the one a step is about.                   *)
LEMMA OtherActions ==
  ASSUME IInv, NEW j \in Jobs, OnlyRow(j),
         NEW b \in Actions, b # j[1], ledger'[b] = ledger[b],
         journal'[b] = journal[b], applied'[b] = applied[b]
  PROVE  ActionInv(b)'
  BY DEF IInv, ActionInv, Untouched, Settled, OnlyRow, Fwd, Rev, Jobs

(* A delivery keeps pointing at a row that exists.                         *)
LEMMA DeliveryStands ==
  ASSUME IInv, NEW j \in Jobs, OnlyRow(j), row'[j].status # "absent",
         UNCHANGED <<api, queue>>
  PROVE  \A i \in Jobs : DeliveryInv(i)'
  BY DEF IInv, DeliveryInv, OnlyRow

(* A step that touches neither rows, queue nor requests keeps it.          *)
LEMMA DeliveryStandsStill ==
  ASSUME IInv, UNCHANGED <<row, api, queue>>
  PROVE  \A i \in Jobs : DeliveryInv(i)'
  BY DEF IInv, DeliveryInv

-------------------------------------------------------------------------------
(* Delivery.                                                               *)

(* A processor that picks up a job starts outside the lock, knowing nothing. *)
LEMMA TakeKeeps ==
  ASSUME IInv, NEW w \in Workers, NEW j \in Jobs, Take(w, j)
  PROVE  IInv'
<1> DEFINE r == [pc |-> "lock", job |-> j, try |-> queue[j].made + 1,
                 conf |-> queue[j].conf, clean |-> FALSE, landed |-> FALSE,
                 todo |-> {}, err |-> "none"]
           q == [queue[j] EXCEPT !.state = "active", !.owner = w]
<1>1. queue \in [Jobs -> QueueJobs] /\ queue[j] \in QueueJobs
  BY DEF IInv, TypeOK
<1>2. r \in WorkerStates /\ wk' = [wk EXCEPT ![w] = r]
  BY <1>1 DEF Take, WorkerStates, Points, QueueJobs
<1>3. OnlyWorker(w) /\ wk'[w] = r
  BY <1>2 DEF IInv, TypeOK, OnlyWorker
<1>4. q \in QueueJobs /\ q.state = "active" /\ queue' = [queue EXCEPT ![j] = q]
  BY <1>1 DEF Take, QueueJobs
<1>5. TypeOK'
  BY <1>1, <1>3, <1>4 DEF IInv, TypeOK, Take, OnlyWorker
<1>6. row[j].status # "absent"
  BY DEF IInv, DeliveryInv, Take
<1>7. WorkerInv(w)'
  BY <1>3, <1>6 DEF Take, WorkerInv, Row, Job, Critical, ForwardPoints, ReversePoints
<1>8. ASSUME NEW u \in Workers \ {w} PROVE WorkerInv(u)'
  BY <1>3, Bystander DEF Take, OnlyWorker
<1>9. \A a \in Actions : ActionInv(a)'
  BY RecordsStand DEF Take
<1>10. \A i \in Jobs : DeliveryInv(i)'
  BY <1>1, <1>4, <1>6 DEF Take, IInv, DeliveryInv
<1> QED
  BY <1>5, <1>7, <1>8, <1>9, <1>10 DEF IInv

(* The lock is free, so the worker that enters is alone.                   *)
LEMMA AcquireLockKeeps ==
  ASSUME IInv, NEW w \in Workers, AcquireLock(w)
  PROVE  IInv'
<1>1. OnlyWorker(w) /\ KeepsJob(w) /\ wk'[w].pc = "load" /\ wk'[w].landed = wk[w].landed
  BY GotoEffect DEF IInv, AcquireLock, Points, Critical
<1>2. TypeOK'
  BY <1>1 DEF IInv, TypeOK, AcquireLock, OnlyWorker
<1>3. WorkerInv(w)'
  BY <1>1 DEF IInv, AcquireLock, WorkerInv, KeepsJob, Row, Job, ForwardPoints, ReversePoints
<1>4. ASSUME NEW u \in Workers \ {w} PROVE WorkerInv(u)'
  BY <1>1, Bystander, NoneAssumption DEF AcquireLock, OnlyWorker
<1> QED
  BY <1>2, <1>3, <1>4, RecordsStand, DeliveryStandsStill DEF IInv, AcquireLock

(* A worker that never entered leaves the section as it found it.          *)
LEMMA LockTimesOutKeeps ==
  ASSUME IInv, NEW w \in Workers, LockTimesOut(w)
  PROVE  IInv'
<1>1. Leaves(w)
  BY ThrowEffect DEF IInv, LockTimesOut, Errors
<1>2. TypeOK'
  BY <1>1 DEF IInv, TypeOK, LockTimesOut, Fault, Leaves, OnlyWorker, FreesLock
<1>3. WorkerInv(w)'
  BY <1>1, LeaverSettles DEF IInv, LockTimesOut, WorkerInv, Row, Job
<1>4. ASSUME NEW u \in Workers \ {w} PROVE WorkerInv(u)'
  BY <1>1, Bystander DEF LockTimesOut, Leaves, OnlyWorker, FreesLock
<1> QED
  BY <1>2, <1>3, <1>4, RecordsStand, DeliveryStandsStill DEF IInv, LockTimesOut

(* onTerminalFailure takes no lock: it may land under a running twin of    *)
(* the same row, which then still finds a row that reached Gmail.          *)
LEMMA RecordFailureKeeps ==
  ASSUME IInv, NEW w \in Workers, RecordFailure(w)
  PROVE  IInv'
<1> DEFINE j == wk[w].job
           r == [row[j] EXCEPT !.status = "failed", !.err = wk[w].err]
<1>1. /\ row \in [Jobs -> Rows] /\ wk[w] \in WorkerStates /\ j \in Jobs
      /\ row[j] \in Rows /\ wk[w].err \in Errors \cup {"none"}
  BY DEF IInv, TypeOK, WorkerInv, RecordFailure, WorkerStates
<1>2. row' = [row EXCEPT ![j] = r]
  BY DEF RecordFailure, Job
<1>3. r \in Rows /\ r.status = "failed" /\ r.err = wk[w].err
  BY <1>1 DEF Rows, Codes
<1>4. OnlyRow(j) /\ row'[j].status = "failed" /\ row'[j].err = wk[w].err
  BY <1>1, <1>2, <1>3 DEF OnlyRow
<1>5. /\ OnlyWorker(w) /\ KeepsJob(w) /\ wk'[w].pc = "end"
  BY GotoEffect DEF IInv, RecordFailure, Points
<1>6. TypeOK'
  <2>1. disowned' \subseteq Actions
    BY <1>1 DEF IInv, TypeOK, RecordFailure, Disown, Act, Job, Jobs
  <2> QED
    BY <1>4, <1>5, <2>1 DEF IInv, TypeOK, RecordFailure, OnlyWorker, OnlyRow
<1>7. WorkerInv(w)'
  BY <1>1, <1>4, <1>5 DEF WorkerInv, KeepsJob, Row, Job, Critical, ForwardPoints, ReversePoints
<1>8. ASSUME NEW u \in Workers \ {w} PROVE WorkerInv(u)'
  <2>1. wk'[u] = wk[u] /\ WorkerInv(u)
    BY <1>5 DEF OnlyWorker, IInv
  <2>2. CASE wk[u].pc # "idle" /\ wk[u].job = j
    <3>1. RunningInv(u) => RunningInv(u)'
      BY <2>1, <2>2, <1>1, <1>4 DEF RunningInv, RecordFailure, Act, Row, Job, Sent,
         NeverReachedGmail, Errors
    <3> QED
      BY <2>1, <2>2, <1>1, <1>4, <3>1 DEF RecordFailure, WorkerInv, Row, Job
  <2>3. CASE wk[u].pc # "idle" /\ wk[u].job # j
    <3>1. RunningInv(u) => RunningInv(u)'
      BY <2>1, <2>3, <1>4 DEF RunningInv, RecordFailure, Act, Row, Job, Sent, WorkerInv, OnlyRow
    <3> QED
      BY <2>1, <2>3, <1>4, <3>1 DEF RecordFailure, WorkerInv, Row, Job, OnlyRow
  <2>4. CASE wk[u].pc = "idle"
    BY <2>1, <2>4 DEF WorkerInv, Critical, ForwardPoints, ReversePoints
  <2> QED
    BY <2>2, <2>3, <2>4
<1>9. ASSUME NEW a \in Actions PROVE ActionInv(a)'
  <2>1. ActionInv(a) /\ Fwd(a) \in Jobs /\ Rev(a) \in Jobs /\ Fwd(a) # Rev(a)
    BY DEF IInv, Jobs, Fwd, Rev
  <2>2. row[j].status # "absent"
    BY DEF IInv, WorkerInv, RecordFailure, Row, Job
  <2>3. row'[Rev(a)].status # "absent" => row[Rev(a)].status # "absent"
    BY <1>4, <2>1, <2>2 DEF OnlyRow
  <2>4. CASE j = Fwd(a)
    BY <1>1, <1>4, <2>1, <2>2, <2>3, <2>4 DEF ActionInv, RecordFailure, Settled,
       NeverReachedGmail, Untouched, Errors, Forward, Fwd
  <2>5. CASE j # Fwd(a)
    BY <1>4, <2>1, <2>3, <2>5 DEF ActionInv, RecordFailure, Settled, Untouched, OnlyRow
  <2> QED
    BY <2>4, <2>5
<1>10. \A i \in Jobs : DeliveryInv(i)'
  BY <1>1, <1>4, DeliveryStands DEF RecordFailure
<1> QED
  BY <1>6, <1>7, <1>8, <1>9, <1>10 DEF IInv

(* A failure that is not recorded changes no record.                       *)
LEMMA RecordFailureLostKeeps ==
  ASSUME IInv, NEW w \in Workers, RecordFailureLost(w)
  PROVE  IInv'
<1>1. OnlyWorker(w) /\ KeepsJob(w) /\ wk'[w].pc = "end"
  BY GotoEffect DEF IInv, RecordFailureLost, Points
<1>2. TypeOK'
  BY <1>1 DEF IInv, TypeOK, RecordFailureLost, Fault, OnlyWorker
<1>3. WorkerInv(w)'
  BY <1>1 DEF IInv, RecordFailureLost, WorkerInv, KeepsJob, Row, Job, Critical,
     ForwardPoints, ReversePoints
<1>4. ASSUME NEW u \in Workers \ {w} PROVE WorkerInv(u)'
  BY <1>1, Bystander DEF RecordFailureLost, OnlyWorker
<1> QED
  BY <1>2, <1>3, <1>4, RecordsStand, DeliveryStandsStill DEF IInv, RecordFailureLost

(* BullMQ's bookkeeping changes queue records only.                        *)
LEMMA QueueUpdate ==
  ASSUME IInv, NEW j \in Jobs, NEW q \in QueueJobs, queue[j].state # "none",
         queue' = [queue EXCEPT ![j] = q], UNCHANGED <<row, api>>
  PROVE  queue' \in [Jobs -> QueueJobs] /\ \A i \in Jobs : DeliveryInv(i)'
  BY DEF IInv, TypeOK, DeliveryInv

(* BullMQ moves the job of a finished attempt on.                          *)
LEMMA SettleKeeps ==
  ASSUME IInv, NEW w \in Workers, Settle(w)
  PROVE  IInv'
<1> DEFINE j == wk[w].job
           s == CASE wk[w].err = "none" -> "completed"
                  [] wk[w].err # "none" /\ Terminal(wk[w].err, wk[w].try) -> "failed"
                  [] OTHER -> "waiting"
           n == IF wk[w].err = "none" THEN queue[j].made ELSE queue[j].made + 1
           q == [queue[j] EXCEPT !.owner = None, !.made = n, !.state = s]
<1>1. j \in Jobs /\ queue \in [Jobs -> QueueJobs] /\ queue[j] \in QueueJobs
  BY DEF IInv, TypeOK, WorkerInv, Settle
<1>2. s \in {"completed", "failed", "waiting"}
  OBVIOUS
<1>3. n \in Nat
  BY <1>1, SMTT(30) DEF QueueJobs
<1>4. queue' = queue \/ queue' = [queue EXCEPT ![j] = q]
  BY <1>1 DEF Settle, Job, QueueJobs
<1> HIDE DEF s, n
<1>5. q \in QueueJobs /\ q.state # "none"
  BY <1>1, <1>2, <1>3 DEF QueueJobs
<1>6. row[j].status # "absent"
  BY DEF IInv, WorkerInv, Settle, Row, Job
<1>7. queue' \in [Jobs -> QueueJobs] /\ \A i \in Jobs : DeliveryInv(i)'
  BY <1>1, <1>4, <1>5, <1>6, ZenonT(40) DEF IInv, DeliveryInv, Settle
<1>8. IdleWorker \in WorkerStates
  BY DEF IdleWorker, WorkerStates, Points
<1>9. OnlyWorker(w) /\ wk'[w] = IdleWorker
  BY <1>8 DEF Settle, IInv, TypeOK, OnlyWorker
<1>10. TypeOK'
  BY <1>7, <1>9 DEF IInv, TypeOK, Settle, OnlyWorker
<1>11. WorkerInv(w)'
  BY <1>9 DEF WorkerInv, IdleWorker, Critical, ForwardPoints, ReversePoints
<1>12. ASSUME NEW u \in Workers \ {w} PROVE WorkerInv(u)'
  BY <1>9, Bystander DEF Settle, OnlyWorker
<1>13. \A a \in Actions : ActionInv(a)'
  BY RecordsStand DEF Settle
<1> QED
  BY <1>7, <1>10, <1>11, <1>12, <1>13 DEF IInv

(* A worker that dies takes nothing with it but its lock.                  *)
LEMMA CrashKeeps ==
  ASSUME IInv, NEW w \in Workers, Crash(w)
  PROVE  IInv'
<1> DEFINE j == wk[w].job
           q == [queue[j] EXCEPT !.owner = None]
<1>1. j \in Jobs /\ queue \in [Jobs -> QueueJobs] /\ queue[j] \in QueueJobs
  BY DEF IInv, TypeOK, WorkerInv, Crash
<1>2. queue' = queue \/ queue' = [queue EXCEPT ![j] = q]
  BY DEF Crash, Job
<1>3. q \in QueueJobs /\ row[j].status # "absent"
  BY <1>1 DEF QueueJobs, IInv, WorkerInv, Crash, Row, Job
<1>4. queue' \in [Jobs -> QueueJobs] /\ \A i \in Jobs : DeliveryInv(i)'
  BY <1>1, <1>2, <1>3 DEF IInv, DeliveryInv, Crash
<1>5. IdleWorker \in WorkerStates
  BY DEF IdleWorker, WorkerStates, Points
<1>6. OnlyWorker(w) /\ wk'[w] = IdleWorker
  BY <1>5 DEF Crash, IInv, TypeOK, OnlyWorker
<1>7. mlock' \in Workers \cup {None} /\ (mlock # w => mlock' = mlock)
  BY DEF Crash, IInv, TypeOK
<1>8. TypeOK'
  BY <1>4, <1>6, <1>7 DEF IInv, TypeOK, Crash, Fault, OnlyWorker
<1>9. WorkerInv(w)'
  BY <1>6 DEF WorkerInv, IdleWorker, Critical, ForwardPoints, ReversePoints
<1>10. ASSUME NEW u \in Workers \ {w} PROVE WorkerInv(u)'
  BY <1>6, <1>7, Bystander DEF Crash, OnlyWorker
<1>11. \A a \in Actions : ActionInv(a)'
  BY RecordsStand DEF Crash
<1> QED
  BY <1>4, <1>8, <1>9, <1>10, <1>11 DEF IInv

(* The stall check only moves a queue job.                                 *)
LEMMA StallKeeps ==
  ASSUME IInv, NEW j \in Jobs, Stall(j)
  PROVE  IInv'
<1> DEFINE s == IF queue[j].stalls < MaxStalls THEN "waiting" ELSE "failed"
           n == IF queue[j].stalls < MaxStalls THEN queue[j].stalls + 1 ELSE queue[j].stalls
           q == [queue[j] EXCEPT !.owner = None, !.state = s, !.stalls = n]
<1>1. queue \in [Jobs -> QueueJobs] /\ queue[j] \in QueueJobs
  BY DEF IInv, TypeOK
<1>2. s \in {"waiting", "failed"} /\ n \in Nat
  BY <1>1 DEF QueueJobs
<1>3. queue' = [queue EXCEPT ![j] = q]
  BY <1>1 DEF Stall, QueueJobs
<1> HIDE DEF s, n
<1>4. q \in QueueJobs
  BY <1>1, <1>2 DEF QueueJobs
<1>5. queue' \in [Jobs -> QueueJobs] /\ \A i \in Jobs : DeliveryInv(i)'
  BY <1>3, <1>4, QueueUpdate DEF Stall
<1>6. faults' \in Nat /\ flips' \in Nat
  BY DEF Stall, Fault, IInv, TypeOK
<1>7. TypeOK'
  BY <1>5, <1>6 DEF IInv, TypeOK, Stall
<1>8. \A u \in Workers : WorkerInv(u)'
  BY Bystander DEF Stall
<1> QED
  BY <1>5, <1>7, <1>8, RecordsStand DEF IInv, Stall

-------------------------------------------------------------------------------
(* The forward path, up to the first request.                              *)

(* A settled row is replayed without a write.                              *)
LEMMA SkipSettledKeeps ==
  ASSUME IInv, NEW w \in Workers, SkipSettled(w)
  PROVE  IInv'
<1>1. Leaves(w)
  BY ReturnEffect DEF IInv, SkipSettled
<1>2. TypeOK'
  BY <1>1 DEF IInv, TypeOK, SkipSettled, Leaves, OnlyWorker, FreesLock
<1>3. WorkerInv(w)'
  BY <1>1, LeaverSettles DEF IInv, SkipSettled, WorkerInv, Row, Job
<1>4. ASSUME NEW u \in Workers \ {w} PROVE WorkerInv(u)'
  BY <1>1, Bystander DEF SkipSettled, Leaves, OnlyWorker, FreesLock
<1> QED
  BY <1>2, <1>3, <1>4, RecordsStand, DeliveryStandsStill DEF IInv, SkipSettled

(* A row that is not settled has no record of its action; and if it never  *)
(* reached Gmail, no message of it changed.                                *)
LEMMA StartForwardKeeps ==
  ASSUME IInv, NEW w \in Workers, StartForward(w)
  PROVE  IInv'
<1> DEFINE c == NeverReachedGmail(row[wk[w].job])
           r == [wk[w] EXCEPT !.pc = "check", !.clean = c]
<1>1. /\ wk \in [Workers -> WorkerStates] /\ wk[w] \in WorkerStates
      /\ wk[w].job \in Jobs /\ row[wk[w].job].status # "absent"
      /\ wk[w].pc = "load" /\ mlock = w /\ ~wk[w].landed
  BY DEF IInv, TypeOK, WorkerInv, StartForward, Row, Job, Critical
<1>2. c \in BOOLEAN /\ wk' = [wk EXCEPT ![w] = r]
  BY DEF StartForward, Row, Job, NeverReachedGmail
<1>3. r \in WorkerStates /\ r.pc = "check" /\ r.job = wk[w].job /\ r.clean = c
      /\ r.landed = wk[w].landed
  BY <1>1, <1>2 DEF WorkerStates, Points, Critical
<1>4. OnlyWorker(w) /\ wk'[w] = r
  BY <1>1, <1>2, <1>3 DEF OnlyWorker
<1> HIDE DEF r
<1>5. TypeOK'
  BY <1>4 DEF IInv, TypeOK, StartForward, OnlyWorker
<1>6. PICK a \in Actions : wk[w].job = Fwd(a)
  BY <1>1 DEF StartForward, Forward, Jobs, Fwd, Job
<1>7. ActionInv(a) /\ ~Settled(Fwd(a)) /\ Forward(Fwd(a))
  BY <1>6 DEF IInv, StartForward, Job
<1>8. RunningInv(w)'
  <2>1. ledger[a] = 0 /\ journal[a] = NoEntry
    BY <1>7 DEF ActionInv
  <2>2. row[Fwd(a)].err # "LABEL_SENDER_PROTECTED"
    BY <1>7 DEF ActionInv, Settled
  <2>3. c => applied[a] = {}
    BY <1>6, <1>7 DEF ActionInv, Untouched
  <2> QED
    BY <1>1, <1>3, <1>4, <1>6, <2>1, <2>2, <2>3
       DEF RunningInv, StartForward, Act, Row, Job, Sent, Fwd
<1>9. WorkerInv(w)'
  BY <1>1, <1>3, <1>4, <1>6, <1>7, <1>8 DEF WorkerInv, StartForward, Row, Job, ReversePoints
<1>10. ASSUME NEW u \in Workers \ {w} PROVE WorkerInv(u)'
  BY <1>4, Bystander DEF StartForward, OnlyWorker
<1> QED
  BY <1>5, <1>9, <1>10, RecordsStand, DeliveryStandsStill DEF IInv, StartForward

(* What a worker in the forward path knows, spelled out.                   *)
LEMMA Holder ==
  ASSUME IInv, NEW w \in Workers, wk[w].pc \in ForwardPoints
  PROVE  \E a \in Actions :
           /\ wk[w].job = Fwd(a) /\ Act(w) = a /\ Row(w) = row[Fwd(a)] /\ Fwd(a) \in Jobs
           /\ wk[w] \in WorkerStates /\ wk[w].pc \in Critical /\ mlock = w
           /\ row[Fwd(a)] \in Rows /\ row[Fwd(a)].status # "absent"
           /\ row[Fwd(a)].err # "LABEL_SENDER_PROTECTED"
           /\ ledger[a] = 0 /\ journal[a] = NoEntry
           /\ wk[w].clean /\ ~wk[w].landed => applied[a] = {}
           /\ Sent(w) => ~NeverReachedGmail(row[Fwd(a)])
           /\ row[Rev(a)].status = "absent"
<1>1. /\ wk[w] \in WorkerStates /\ wk[w].pc \in Critical /\ wk[w].job \in Jobs /\ mlock = w
      /\ Row(w).status # "absent" /\ Forward(wk[w].job) /\ RunningInv(w)
  BY DEF IInv, TypeOK, WorkerInv, ForwardPoints, Critical
<1>2. PICK a \in Actions : wk[w].job = Fwd(a)
  BY <1>1 DEF Jobs, Forward, Fwd
<1>3. Act(w) = a /\ Row(w) = row[Fwd(a)] /\ row[Fwd(a)] \in Rows
  BY <1>1, <1>2 DEF IInv, TypeOK, Row, Job, Act, Fwd
<1>4. journal[a] = NoEntry /\ row[Rev(a)].status = "absent"
  BY <1>1, <1>3 DEF IInv, ActionInv, RunningInv, NoEntry
<1> QED
  BY <1>1, <1>2, <1>3, <1>4 DEF RunningInv

(* A forward attempt that ends: its own action's records are all that is   *)
(* left to check.                                                          *)
LEMMA ForwardLeaves ==
  ASSUME IInv, NEW w \in Workers, wk[w].pc \in ForwardPoints, Leaves(w), TypeOK',
         NEW a \in Actions, wk[w].job = Fwd(a),
         OnlyRow(Fwd(a)), row'[Fwd(a)].status # "absent", UNCHANGED <<api, queue>>,
         \A b \in Actions \ {a} :
            ledger'[b] = ledger[b] /\ journal'[b] = journal[b] /\ applied'[b] = applied[b],
         ActionInv(a)'
  PROVE  IInv'
<1>1. wk[w].pc \in Critical /\ Fwd(a) \in Jobs /\ Fwd(a)[1] = a
  BY DEF ForwardPoints, Critical, Fwd, Jobs
<1>2. \A u \in Workers : WorkerInv(u)'
  BY <1>1, LeavingSection
<1>3. ASSUME NEW b \in Actions PROVE ActionInv(b)'
  BY <1>1, OtherActions
<1>4. \A i \in Jobs : DeliveryInv(i)'
  BY <1>1, DeliveryStands
<1> QED
  BY <1>2, <1>3, <1>4 DEF IInv

(* The same, when the attempt ends without touching any record.            *)
LEMMA LeavesUnchanged ==
  ASSUME IInv, NEW w \in Workers, wk[w].pc \in Critical, Leaves(w), TypeOK',
         UNCHANGED <<row, journal, ledger, applied, api, queue>>
  PROVE  IInv'
<1>1. wk[w].job \in Jobs /\ row'[wk[w].job].status # "absent"
  BY DEF IInv, WorkerInv, Critical, Row, Job
<1>2. OnlyRow(wk[w].job)
  BY DEF IInv, TypeOK, OnlyRow
<1> QED
  BY <1>1, <1>2, LeavingSection, RecordsStand, DeliveryStandsStill DEF IInv

(* A Protected stop reports a skip only for an attempt nothing of which    *)
(* reached Gmail.                                                          *)
LEMMA StopProtectedKeeps ==
  ASSUME IInv, NEW w \in Workers, wk[w].pc \in ForwardPoints, StopProtected(w),
         UNCHANGED <<data, journal, ledger, preview, api, queue, bounds, ghosts>>
  PROVE  IInv'
<1>1. PICK a \in Actions :
        /\ wk[w].job = Fwd(a) /\ Row(w) = row[Fwd(a)] /\ Fwd(a) \in Jobs
        /\ row[Fwd(a)] \in Rows /\ ledger[a] = 0 /\ journal[a] = NoEntry
        /\ wk[w].clean /\ ~wk[w].landed => applied[a] = {}
        /\ row[Rev(a)].status = "absent"
  BY Holder
<1> DEFINE s == StoppedRow(w)
<1>2. /\ s \in Rows
      /\ \/ /\ s.status = "done" /\ s.err = "LABEL_SENDER_PROTECTED"
            /\ wk[w].clean /\ ~wk[w].landed
         \/ s.status = "failed" /\ s.err = "RECOVERY_SENDER_PROTECTED"
  <2>1. [row[Fwd(a)] EXCEPT !.status = "done", !.err = "LABEL_SENDER_PROTECTED"] \in Rows
    BY <1>1 DEF Rows, Codes
  <2>2. [row[Fwd(a)] EXCEPT !.status = "failed", !.err = "RECOVERY_SENDER_PROTECTED"] \in Rows
    BY <1>1 DEF Rows, Codes
  <2>3. CASE wk[w].clean /\ ~wk[w].landed /\ Row(w).attempt = 0
    <3>1. s = [row[Fwd(a)] EXCEPT !.status = "done", !.err = "LABEL_SENDER_PROTECTED"]
      BY <1>1, <2>3 DEF StoppedRow
    <3>2. s.status = "done" /\ s.err = "LABEL_SENDER_PROTECTED"
      BY <1>1, <3>1 DEF Rows
    <3> QED
      BY <2>1, <2>3, <3>1, <3>2
  <2>4. CASE ~(wk[w].clean /\ ~wk[w].landed /\ Row(w).attempt = 0)
    <3>1. s = [row[Fwd(a)] EXCEPT !.status = "failed", !.err = "RECOVERY_SENDER_PROTECTED"]
      BY <1>1, <2>4 DEF StoppedRow
    <3>2. s.status = "failed" /\ s.err = "RECOVERY_SENDER_PROTECTED"
      BY <1>1, <3>1 DEF Rows
    <3> QED
      BY <2>2, <2>4, <3>1, <3>2
  <2> QED
    BY <2>3, <2>4
<1> HIDE DEF s
<1>3. row' = [row EXCEPT ![Fwd(a)] = s] /\ row \in [Jobs -> Rows]
  BY <1>1 DEF StopProtected, Job, s, IInv, TypeOK
<1>4. OnlyRow(Fwd(a)) /\ row'[Fwd(a)] = s
  BY <1>1, <1>2, <1>3 DEF OnlyRow
<1>5. Leaves(w)
  BY ReturnEffect DEF StopProtected, IInv
<1>6. TypeOK'
  BY <1>4, <1>5 DEF IInv, TypeOK, Leaves, OnlyWorker, FreesLock, OnlyRow
<1>7. row'[Rev(a)] = row[Rev(a)]
  BY <1>4 DEF OnlyRow, Rev, Fwd, Jobs
<1>8. ActionInv(a)'
  BY <1>1, <1>2, <1>4, <1>7 DEF ActionInv, Untouched, Settled, NeverReachedGmail
<1> QED
  BY <1>1, <1>2, <1>4, <1>5, <1>6, <1>8, ForwardLeaves

(* The holder moves on without touching any record.                        *)
LEMMA AdvancesUnchanged ==
  ASSUME IInv, NEW w \in Workers, wk[w].pc \in Critical, OnlyWorker(w), TypeOK',
         UNCHANGED <<row, journal, ledger, applied, api, queue>>, WorkerInv(w)'
  PROVE  IInv'
<1>1. wk[w].job \in Jobs /\ row'[wk[w].job].status # "absent" /\ OnlyRow(wk[w].job)
  BY DEF IInv, TypeOK, WorkerInv, Critical, Row, Job, OnlyRow
<1> QED
  BY <1>1, InsideSection, RecordsStand, DeliveryStandsStill DEF IInv

(* The first look at the protection stops the job or lets it on.           *)
LEMMA CheckProtectedKeeps ==
  ASSUME IInv, NEW w \in Workers, CheckProtected(w)
  PROVE  IInv'
<1>1. wk[w].pc = "check" /\ wk[w].pc \in ForwardPoints /\ wk[w].pc \in Critical
  BY DEF CheckProtected, ForwardPoints, Critical
<1>2. CASE StopProtected(w)
  BY <1>1, <1>2, StopProtectedKeeps DEF CheckProtected
<1>3. CASE ~StopProtected(w)
  <2>1. Goto(w, "resolve") /\ UNCHANGED <<row, mlock>>
    BY <1>3 DEF CheckProtected
  <2>2. OnlyWorker(w) /\ KeepsJob(w) /\ wk'[w].pc = "resolve" /\ wk'[w].landed = wk[w].landed
    BY <2>1, GotoEffect DEF IInv, Points, Critical
  <2>3. TypeOK'
    BY <2>1, <2>2 DEF IInv, TypeOK, CheckProtected, OnlyWorker
  <2>4. WorkerInv(w)'
    <3>1. WorkerInv(w) /\ RunningInv(w) /\ ~wk[w].landed
      BY <1>1 DEF IInv, WorkerInv
    <3>2. RunningInv(w)'
      BY <2>1, <2>2, <3>1 DEF CheckProtected, RunningInv, Act, Row, Job, Sent, KeepsJob
    <3> QED
      BY <1>1, <2>1, <2>2, <3>1, <3>2
         DEF CheckProtected, WorkerInv, Row, Job, KeepsJob, ReversePoints
  <2> QED
    BY <1>1, <2>1, <2>2, <2>3, <2>4, AdvancesUnchanged DEF CheckProtected
<1> QED
  BY <1>2, <1>3

(* The execution set is a set of the sender's messages.                    *)
LEMMA ExecutionSetType ==
  ASSUME TypeOK, NEW r \in Rows
  PROVE  ExecutionSet(r) \in SUBSET Messages
  BY DEF TypeOK, Rows, ExecutionSet, SenderActionIds, Carrying, Stores

(* Saving the execution set is no sign of having reached Gmail.            *)
LEMMA ResolveIdsKeeps ==
  ASSUME IInv, NEW w \in Workers, ResolveIds(w)
  PROVE  IInv'
<1>1. wk[w].pc = "resolve" /\ wk[w].pc \in ForwardPoints
  BY DEF ResolveIds, ForwardPoints
<1>2. PICK a \in Actions :
        /\ wk[w].job = Fwd(a) /\ Row(w) = row[Fwd(a)] /\ Fwd(a) \in Jobs /\ Act(w) = a
        /\ wk[w] \in WorkerStates /\ wk[w].pc \in Critical /\ mlock = w
        /\ row[Fwd(a)] \in Rows /\ row[Fwd(a)].status # "absent"
        /\ row[Fwd(a)].err # "LABEL_SENDER_PROTECTED"
        /\ ledger[a] = 0 /\ journal[a] = NoEntry
        /\ wk[w].clean /\ ~wk[w].landed => applied[a] = {}
  BY <1>1, Holder
<1> DEFINE ids == ExecutionSet(row[Fwd(a)])
           pc  == IF ids = {} THEN "empty" ELSE "client"
           r   == [row[Fwd(a)] EXCEPT !.ids = ids]
           v   == [wk[w] EXCEPT !.pc = pc, !.todo = ids]
<1>3. ids \in SUBSET Messages /\ pc \in {"empty", "client"}
  BY <1>2, ExecutionSetType DEF IInv
<1>4. row' = [row EXCEPT ![Fwd(a)] = r] /\ wk' = [wk EXCEPT ![w] = v]
  BY <1>2 DEF ResolveIds, Job
<1> HIDE DEF ids, pc
<1>5. r \in Rows /\ r.status = row[Fwd(a)].status /\ r.err = row[Fwd(a)].err
  BY <1>2, <1>3 DEF Rows
<1>6. v \in WorkerStates /\ v.pc = pc /\ v.job = wk[w].job /\ v.clean = wk[w].clean
      /\ v.landed = wk[w].landed
  BY <1>2, <1>3 DEF WorkerStates, Points, Critical
<1> HIDE DEF r, v
<1>7. OnlyRow(Fwd(a)) /\ row'[Fwd(a)] = r /\ OnlyWorker(w) /\ wk'[w] = v
  BY <1>2, <1>4, <1>5, <1>6 DEF IInv, TypeOK, OnlyRow, OnlyWorker
<1>8. TypeOK'
  BY <1>7 DEF IInv, TypeOK, ResolveIds, OnlyRow, OnlyWorker
<1>9. WorkerInv(w) /\ ~wk[w].landed
  BY <1>1 DEF IInv, WorkerInv
<1>10. RunningInv(w)'
  BY <1>2, <1>3, <1>5, <1>6, <1>7, <1>9 DEF ResolveIds, RunningInv, Act, Row, Job, Sent, Fwd
<1>11. WorkerInv(w)'
  BY <1>1, <1>2, <1>3, <1>5, <1>6, <1>7, <1>9, <1>10
     DEF ResolveIds, WorkerInv, Row, Job, ReversePoints
<1>12. \A u \in Workers : WorkerInv(u)'
  BY <1>2, <1>5, <1>7, <1>11, InsideSection
<1>13. ASSUME NEW b \in Actions PROVE ActionInv(b)'
  <2>1. ActionInv(b) /\ Fwd(b) \in Jobs /\ Rev(b) \in Jobs /\ Rev(b) # Fwd(a)
    BY DEF IInv, Fwd, Rev, Jobs
  <2>2. row'[Rev(b)] = row[Rev(b)] /\ row'[Fwd(b)].status = row[Fwd(b)].status
        /\ row'[Fwd(b)].err = row[Fwd(b)].err
    BY <1>5, <1>7, <2>1 DEF OnlyRow
  <2> QED
    BY <2>1, <2>2 DEF ResolveIds, ActionInv, Untouched, Settled, NeverReachedGmail
<1>14. \A i \in Jobs : DeliveryInv(i)'
  BY <1>2, <1>5, <1>7, DeliveryStands DEF ResolveIds
<1> QED
  BY <1>8, <1>12, <1>13, <1>14 DEF IInv

(* An action nothing matched is recorded once, and settles.                *)
LEMMA CommitEmptyKeeps ==
  ASSUME IInv, NEW w \in Workers, CommitEmpty(w)
  PROVE  IInv'
<1>1. wk[w].pc \in ForwardPoints
  BY DEF CommitEmpty, ForwardPoints
<1>2. PICK a \in Actions :
        /\ wk[w].job = Fwd(a) /\ Fwd(a) \in Jobs /\ Act(w) = a
        /\ row[Fwd(a)] \in Rows /\ row[Fwd(a)].err # "LABEL_SENDER_PROTECTED"
        /\ ledger[a] = 0 /\ journal[a] = NoEntry /\ row[Rev(a)].status = "absent"
  BY <1>1, Holder
<1> DEFINE r == [row[Fwd(a)] EXCEPT !.status = "done"]
<1>3. r \in Rows /\ r.status = "done" /\ r.err = row[Fwd(a)].err
  BY <1>2 DEF Rows
<1>4. row' = [row EXCEPT ![Fwd(a)] = r]
  BY <1>2 DEF CommitEmpty, Job
<1> HIDE DEF r
<1>5. OnlyRow(Fwd(a)) /\ row'[Fwd(a)] = r /\ row'[Rev(a)] = row[Rev(a)]
  BY <1>2, <1>3, <1>4 DEF IInv, TypeOK, OnlyRow, Fwd, Rev, Jobs
<1>6. /\ ledger' \in [Actions -> Nat] /\ ledger'[a] = 1
      /\ \A b \in Actions \ {a} : ledger'[b] = ledger[b]
  BY <1>2 DEF CommitEmpty, IInv, TypeOK
<1>7. Leaves(w)
  BY ReturnEffect DEF CommitEmpty, IInv
<1>8. TypeOK'
  BY <1>5, <1>6, <1>7 DEF CommitEmpty, IInv, TypeOK, Leaves, OnlyWorker, FreesLock, OnlyRow
<1>9. ActionInv(a)'
  <2>1. ~NeverReachedGmail(row'[Fwd(a)]) /\ row'[Fwd(a)].status # "absent"
    BY <1>3, <1>5 DEF NeverReachedGmail
  <2>2. Settled(Fwd(a))'
    BY <1>3, <1>5 DEF Settled
  <2>3. row'[Fwd(a)].err # "LABEL_SENDER_PROTECTED" /\ row'[Rev(a)].status = "absent"
    BY <1>2, <1>3, <1>5
  <2> QED
    BY <1>6, <2>1, <2>2, <2>3 DEF ActionInv
<1> QED
  BY <1>1, <1>2, <1>3, <1>5, <1>6, <1>7, <1>8, <1>9, ForwardLeaves DEF CommitEmpty

(* A failure to get the client leaves the row as it was.                   *)
LEMMA GetClientKeeps ==
  ASSUME IInv, NEW w \in Workers, GetClient(w)
  PROVE  IInv'
<1>1. wk[w].pc = "client" /\ wk[w].pc \in ForwardPoints /\ wk[w].pc \in Critical
  BY DEF GetClient, ForwardPoints, Critical
<1>2. CASE Goto(w, "hook") /\ UNCHANGED <<mlock, bounds>>
  <2>1. OnlyWorker(w) /\ KeepsJob(w) /\ wk'[w].pc = "hook" /\ wk'[w].landed = wk[w].landed
    BY <1>2, GotoEffect DEF IInv, Points, Critical
  <2>2. TypeOK'
    BY <1>2, <2>1 DEF IInv, TypeOK, GetClient, OnlyWorker
  <2>3. WorkerInv(w)'
    <3>1. WorkerInv(w) /\ RunningInv(w) /\ ~wk[w].landed
      BY <1>1 DEF IInv, WorkerInv
    <3>2. RunningInv(w)'
      BY <2>1, <3>1 DEF GetClient, RunningInv, Act, Row, Job, Sent, KeepsJob
    <3> QED
      BY <1>1, <1>2, <2>1, <3>1, <3>2
         DEF GetClient, WorkerInv, Row, Job, KeepsJob, ReversePoints
  <2> QED
    BY <1>1, <2>1, <2>2, <2>3, AdvancesUnchanged DEF GetClient
<1>3. CASE Fault("client") /\ \E e \in Errors \ {"ValidationError"} : Throw(w, e)
  <2>1. Leaves(w)
    BY <1>3, ThrowEffect DEF IInv
  <2>2. TypeOK'
    BY <1>3, <2>1 DEF IInv, TypeOK, GetClient, Fault, Leaves, OnlyWorker, FreesLock
  <2> QED
    BY <1>1, <2>1, <2>2, LeavesUnchanged DEF GetClient
<1> QED
  BY <1>2, <1>3 DEF GetClient

-------------------------------------------------------------------------------
(* The requests.                                                           *)

(* The placement of a Delete is a placement.                               *)
LEMMA DeleteUndoType ==
  ASSUME IInv, NEW w \in Workers, Row(w) \in Rows
  PROVE  DeleteUndo(w) \in Placements
<1>1. Row(w).undo \in Placements /\ Row(w).ids \in SUBSET Messages
  BY DEF Rows
<1>2. MeasuredPlacement(w) \in Placements
  BY <1>1 DEF MeasuredPlacement, Placements
<1>3. UnknownPlacement(Row(w).ids) \in Placements
  BY <1>1 DEF UnknownPlacement, Placements
<1>4. StoredPlacement(Row(w)) \in Placements
  <2> DEFINE p == Row(w).undo
             i == p.inbox \cap Row(w).ids
  <2>1. StoredPlacement(Row(w)) = [p EXCEPT !.ids = Row(w).ids, !.inbox = i]
    BY <1>1 DEF StoredPlacement, Placements
  <2>2. i \in SUBSET Messages
    BY <1>1
  <2> HIDE DEF i
  <2>3. [p EXCEPT !.ids = Row(w).ids, !.inbox = i] \in Placements
    BY <1>1, <2>2 DEF Placements
  <2> QED
    BY <2>1, <2>3
<1> QED
  BY <1>2, <1>3, <1>4 DEF DeleteUndo

(* The first hook marks the row before anything is sent, so that from here *)
(* on the row is never taken for one that did not reach Gmail.             *)
LEMMA MarkExecutingKeeps ==
  ASSUME IInv, NEW w \in Workers, MarkExecuting(w)
  PROVE  IInv'
<1>1. wk[w].pc = "hook" /\ wk[w].pc \in ForwardPoints /\ ~wk[w].landed
  BY DEF MarkExecuting, ForwardPoints
<1>2. PICK a \in Actions :
        /\ wk[w].job = Fwd(a) /\ Row(w) = row[Fwd(a)] /\ Fwd(a) \in Jobs /\ Act(w) = a
        /\ wk[w] \in WorkerStates /\ wk[w].pc \in Critical /\ mlock = w
        /\ row[Fwd(a)] \in Rows /\ row[Fwd(a)].status # "absent"
        /\ row[Fwd(a)].err # "LABEL_SENDER_PROTECTED"
        /\ ledger[a] = 0 /\ journal[a] = NoEntry
        /\ wk[w].clean /\ ~wk[w].landed => applied[a] = {}
        /\ row[Rev(a)].status = "absent"
  BY <1>1, Holder
<1>3. CASE Throw(w, "ValidationError") /\ UNCHANGED row
  <2>1. Leaves(w)
    BY <1>3, ThrowEffect DEF IInv, Errors
  <2>2. TypeOK'
    BY <1>3, <2>1 DEF IInv, TypeOK, MarkExecuting, Leaves, OnlyWorker, FreesLock
  <2> QED
    BY <1>2, <1>3, <2>1, <2>2, LeavesUnchanged DEF MarkExecuting
<1>4. CASE StopProtected(w)
  BY <1>1, <1>4, StopProtectedKeeps DEF MarkExecuting
<1>5. CASE /\ ~MustStop(w)
           /\ row' = [row EXCEPT
                        ![Job(w)].status = "executing",
                        ![Job(w)].undo = IF Row(w).verb = "delete" THEN DeleteUndo(w) ELSE @]
           /\ Goto(w, "send")
           /\ UNCHANGED mlock
  <2> DEFINE p == IF Row(w).verb = "delete" THEN DeleteUndo(w) ELSE row[Fwd(a)].undo
             r == [row[Fwd(a)] EXCEPT !.status = "executing", !.undo = p]
  <2>1. p \in Placements
    BY <1>2, DeleteUndoType DEF Rows
  <2>2. row' = [row EXCEPT ![Fwd(a)] = r]
    BY <1>2, <1>5 DEF Job, Rows
  <2> HIDE DEF p
  <2>3. r \in Rows /\ r.status = "executing" /\ r.err = row[Fwd(a)].err
    BY <1>2, <2>1 DEF Rows
  <2> HIDE DEF r
  <2>4. OnlyRow(Fwd(a)) /\ row'[Fwd(a)] = r /\ row'[Rev(a)] = row[Rev(a)]
    BY <1>2, <2>2, <2>3 DEF IInv, TypeOK, OnlyRow, Fwd, Rev, Jobs
  <2>5. OnlyWorker(w) /\ KeepsJob(w) /\ wk'[w].pc = "send" /\ wk'[w].landed = wk[w].landed
    BY <1>5, GotoEffect DEF IInv, Points, Critical
  <2>6. TypeOK'
    BY <1>5, <2>4, <2>5 DEF IInv, TypeOK, MarkExecuting, OnlyWorker, OnlyRow
  <2>7. RunningInv(w)'
    BY <1>2, <2>3, <2>4, <2>5
       DEF MarkExecuting, RunningInv, Act, Row, Job, Fwd, KeepsJob, NeverReachedGmail
  <2>8. policy'.protected => wk'[w].conf
    BY <1>5, <2>5 DEF MarkExecuting, MustStop, KeepsJob
  <2>9. WorkerInv(w)'
    BY <1>2, <1>5, <2>3, <2>4, <2>5, <2>7, <2>8
       DEF WorkerInv, Row, Job, KeepsJob, ReversePoints, Forward, Fwd
  <2>10. \A u \in Workers : WorkerInv(u)'
    BY <1>2, <2>3, <2>4, <2>5, <2>9, InsideSection
  <2>11. ActionInv(a)'
    <3>1. ~NeverReachedGmail(row'[Fwd(a)]) /\ row'[Fwd(a)].status # "absent"
      BY <2>3, <2>4 DEF NeverReachedGmail
    <3>2. ledger'[a] = 0 /\ journal'[a] = NoEntry
      BY <1>2 DEF MarkExecuting
    <3>3. row'[Fwd(a)].err # "LABEL_SENDER_PROTECTED" /\ row'[Rev(a)].status = "absent"
      BY <1>2, <2>3, <2>4
    <3> QED
      BY <3>1, <3>2, <3>3 DEF ActionInv
  <2>12. ASSUME NEW b \in Actions PROVE ActionInv(b)'
    <3>1. Fwd(a)[1] = a
      BY DEF Fwd
    <3> QED
      BY <1>2, <2>4, <2>11, <3>1, OtherActions DEF MarkExecuting
  <2>13. \A i \in Jobs : DeliveryInv(i)'
    BY <1>2, <2>3, <2>4, DeliveryStands DEF MarkExecuting
  <2> QED
    BY <2>6, <2>10, <2>12, <2>13 DEF IInv
<1> QED
  BY <1>3, <1>4, <1>5 DEF MarkExecuting

(* A stop between two requests is never reported as a skip.                *)
LEMMA AssertNotProtectedKeeps ==
  ASSUME IInv, NEW w \in Workers, AssertNotProtected(w)
  PROVE  IInv'
<1>1. wk[w].pc = "hook" /\ wk[w].pc \in ForwardPoints /\ wk[w].pc \in Critical /\ wk[w].landed
  BY DEF AssertNotProtected, ForwardPoints, Critical
<1>2. CASE StopProtected(w)
  BY <1>1, <1>2, StopProtectedKeeps DEF AssertNotProtected
<1>3. CASE ~StopProtected(w)
  <2>1. ~MustStop(w) /\ Goto(w, "send") /\ UNCHANGED <<row, mlock>>
    BY <1>3 DEF AssertNotProtected
  <2>2. OnlyWorker(w) /\ KeepsJob(w) /\ wk'[w].pc = "send" /\ wk'[w].landed = wk[w].landed
    BY <2>1, GotoEffect DEF IInv, Points, Critical
  <2>3. TypeOK'
    BY <2>1, <2>2 DEF IInv, TypeOK, AssertNotProtected, OnlyWorker
  <2>4. WorkerInv(w)'
    <3>1. WorkerInv(w) /\ RunningInv(w)
      BY <1>1 DEF IInv, WorkerInv
    <3>2. RunningInv(w)'
      BY <1>1, <2>1, <2>2, <3>1 DEF AssertNotProtected, RunningInv, Act, Row, Job, Sent, KeepsJob
    <3>3. policy'.protected => wk'[w].conf
      BY <2>1, <2>2 DEF AssertNotProtected, MustStop, KeepsJob
    <3> QED
      BY <1>1, <2>1, <2>2, <3>1, <3>2, <3>3
         DEF AssertNotProtected, WorkerInv, Row, Job, KeepsJob, ReversePoints
  <2> QED
    BY <1>1, <2>1, <2>2, <2>3, <2>4, AdvancesUnchanged DEF AssertNotProtected
<1> QED
  BY <1>2, <1>3

(* A refused request changes nothing in Gmail.                             *)
LEMMA RequestRefusedKeeps ==
  ASSUME IInv, NEW w \in Workers, RequestRefused(w)
  PROVE  IInv'
<1>1. wk[w].pc = "send" /\ wk[w].pc \in ForwardPoints /\ wk[w].pc \in Critical
  BY DEF RequestRefused, ForwardPoints, Critical
<1>2. PICK e \in Errors : wk' = [wk EXCEPT ![w].pc = "refused", ![w].err = e]
  BY DEF RequestRefused, Errors
<1> DEFINE v == [wk[w] EXCEPT !.pc = "refused", !.err = e]
<1>3. wk \in [Workers -> WorkerStates] /\ wk[w] \in WorkerStates
  BY DEF IInv, TypeOK
<1>4. v \in WorkerStates /\ v.pc = "refused" /\ v.job = wk[w].job /\ v.clean = wk[w].clean
      /\ v.landed = wk[w].landed /\ v.conf = wk[w].conf
  BY <1>3 DEF WorkerStates, Points, Critical
<1>5. wk' = [wk EXCEPT ![w] = v]
  BY <1>2
<1> HIDE DEF v
<1>6. OnlyWorker(w) /\ wk'[w] = v
  BY <1>3, <1>4, <1>5 DEF OnlyWorker
<1>7. TypeOK'
  BY <1>6 DEF IInv, TypeOK, RequestRefused, Fault, OnlyWorker
<1>8. WorkerInv(w) /\ RunningInv(w)
  BY <1>1 DEF IInv, WorkerInv
<1>9. RunningInv(w)'
  BY <1>1, <1>4, <1>6, <1>8 DEF RequestRefused, RunningInv, Act, Row, Job, Sent
<1>10. WorkerInv(w)'
  BY <1>1, <1>4, <1>6, <1>8, <1>9 DEF RequestRefused, WorkerInv, Row, Job, ReversePoints
<1> QED
  BY <1>1, <1>6, <1>7, <1>10, AdvancesUnchanged DEF RequestRefused

(* Back to queued, for a row no message of which changed.                  *)
LEMMA ResetRefusedKeeps ==
  ASSUME IInv, NEW w \in Workers, ResetRefused(w)
  PROVE  IInv'
<1>1. wk[w].pc = "refused" /\ wk[w].pc \in ForwardPoints
  BY DEF ResetRefused, ForwardPoints
<1>2. PICK a \in Actions :
        /\ wk[w].job = Fwd(a) /\ Row(w) = row[Fwd(a)] /\ Fwd(a) \in Jobs
        /\ wk[w] \in WorkerStates /\ wk[w].pc \in Critical
        /\ row[Fwd(a)] \in Rows /\ row[Fwd(a)].status # "absent"
        /\ row[Fwd(a)].err # "LABEL_SENDER_PROTECTED"
        /\ ledger[a] = 0 /\ journal[a] = NoEntry
        /\ wk[w].clean /\ ~wk[w].landed => applied[a] = {}
        /\ row[Rev(a)].status = "absent"
  BY <1>1, Holder
<1>3. wk[w].err \in Errors \cup {"none"}
  BY <1>2 DEF WorkerStates
<1>4. Leaves(w)
  BY <1>3, ThrowEffect DEF IInv, ResetRefused
<1>5. CASE row' = row
  <2>1. TypeOK'
    BY <1>4, <1>5 DEF ResetRefused, IInv, TypeOK, Leaves, OnlyWorker, FreesLock
  <2> QED
    BY <1>2, <1>4, <1>5, <2>1, LeavesUnchanged DEF ResetRefused
<1>6. CASE row' # row
  <2> DEFINE r == [row[Fwd(a)] EXCEPT !.status = "queued"]
  <2>1. row' = [row EXCEPT ![Fwd(a)] = r] /\ applied[a] = {}
    BY <1>2, <1>6 DEF ResetRefused, Job
  <2>2. r \in Rows /\ r.status = "queued" /\ r.err = row[Fwd(a)].err
    BY <1>2 DEF Rows
  <2> HIDE DEF r
  <2>3. OnlyRow(Fwd(a)) /\ row'[Fwd(a)] = r /\ row'[Rev(a)] = row[Rev(a)]
    BY <1>2, <2>1, <2>2 DEF IInv, TypeOK, OnlyRow, Fwd, Rev, Jobs
  <2>4. TypeOK'
    BY <1>4, <2>3 DEF ResetRefused, IInv, TypeOK, Leaves, OnlyWorker, FreesLock, OnlyRow
  <2>5. ActionInv(a)'
    <3>1. Untouched(a)' /\ ledger'[a] = 0 /\ journal'[a] = NoEntry
      BY <1>2, <2>1 DEF ResetRefused, Untouched
    <3>2. row'[Fwd(a)].err # "LABEL_SENDER_PROTECTED" /\ row'[Rev(a)].status = "absent"
      BY <1>2, <2>2, <2>3
    <3> QED
      BY <3>1, <3>2 DEF ActionInv
  <2> QED
    BY <1>1, <1>2, <1>4, <2>2, <2>3, <2>4, <2>5, ForwardLeaves DEF ResetRefused
<1> QED
  BY <1>5, <1>6

(* What a change of labels makes of a store is a store.                    *)
LEMMA ModifyType ==
  ASSUME NEW store \in Stores, NEW ids,
         NEW change, change.add \subseteq Labels
  PROVE  Modify(store, ids, change) \in Stores
  BY DEF Modify, Stores

(* A forward change adds known labels.                                     *)
LEMMA ForwardChangeType ==
  ASSUME NEW verb \in LabelVerbs
  PROVE  ForwardChange(verb).add \subseteq Labels
  BY DEF LabelVerbs, ForwardChange, LabelChange, Labels

(* A reverse change adds known labels.                                     *)
LEMMA ReverseChangeType ==
  ASSUME NEW verb \in LabelVerbs
  PROVE  /\ ReverseChange(verb).add \subseteq Labels
         /\ ArchiveReverseChange(verb).add \subseteq Labels
  BY DEF LabelVerbs, ReverseChange, ArchiveReverseChange, LabelChange, Labels

(* A request adds its messages to what its action changed.                 *)
LEMMA ApplyEffect ==
  ASSUME IInv, NEW w \in Workers, NEW ids \in SUBSET Messages, NEW a \in Actions,
         Act(w) = a, Row(w) \in Rows, Apply(w, ids)
  PROVE  /\ gmail' \in Stores
         /\ applied' \in [Actions -> SUBSET Messages]
         /\ \A b \in Actions \ {a} : applied'[b] = applied[b]
<1>1. gmail' \in Stores
  BY ModifyType, ForwardChangeType DEF Apply, IInv, TypeOK, Rows
<1> QED
  BY <1>1 DEF Apply, IInv, TypeOK

(* The records of an action whose row has reached Gmail do not depend on   *)
(* which messages changed.                                                 *)
LEMMA SentRecords ==
  ASSUME NEW a \in Actions, row[Fwd(a)].status # "absent", ~NeverReachedGmail(row[Fwd(a)]),
         row[Fwd(a)].err # "LABEL_SENDER_PROTECTED", ActionInv(a),
         UNCHANGED <<row, ledger, journal>>
  PROVE  ActionInv(a)'
  BY DEF ActionInv, Settled

(* A request whose outcome is unknown was sent from an executing row.      *)
LEMMA RequestUncertainKeeps ==
  ASSUME IInv, NEW w \in Workers, RequestUncertain(w)
  PROVE  IInv'
<1>1. wk[w].pc = "send" /\ wk[w].pc \in ForwardPoints /\ Sent(w)
  BY DEF RequestUncertain, ForwardPoints, Sent
<1>2. PICK a \in Actions :
        /\ wk[w].job = Fwd(a) /\ Row(w) = row[Fwd(a)] /\ Fwd(a) \in Jobs /\ Act(w) = a
        /\ wk[w] \in WorkerStates /\ row[Fwd(a)] \in Rows /\ row[Fwd(a)].status # "absent"
        /\ row[Fwd(a)].err # "LABEL_SENDER_PROTECTED"
        /\ ~NeverReachedGmail(row[Fwd(a)])
  BY <1>1, Holder
<1>3. Leaves(w)
  BY ThrowEffect DEF IInv, RequestUncertain, Errors
<1>4. /\ gmail' \in Stores /\ applied' \in [Actions -> SUBSET Messages]
      /\ \A b \in Actions \ {a} : applied'[b] = applied[b]
  <2>1. CASE UNCHANGED <<gmail, applied>>
    BY <2>1 DEF IInv, TypeOK
  <2>2. CASE \E ids \in Chunks(wk[w].todo) : Apply(w, ids)
    <3>1. PICK ids \in Chunks(wk[w].todo) : Apply(w, ids)
      BY <2>2
    <3>2. ids \in SUBSET Messages
      BY <1>2, <3>1 DEF Chunks, WorkerStates
    <3> QED
      BY <1>2, <3>1, <3>2, ApplyEffect
  <2> QED
    BY <2>1, <2>2 DEF RequestUncertain
<1>5. TypeOK'
  BY <1>3, <1>4 DEF RequestUncertain, Fault, IInv, TypeOK, Leaves, OnlyWorker, FreesLock
<1>6. OnlyRow(Fwd(a)) /\ ActionInv(a)'
  BY <1>2, SentRecords DEF IInv, TypeOK, OnlyRow, RequestUncertain
<1> QED
  BY <1>1, <1>2, <1>3, <1>4, <1>5, <1>6, ForwardLeaves DEF RequestUncertain

(* A request that lands was sent from an executing row.                    *)
LEMMA RequestLandsKeeps ==
  ASSUME IInv, NEW w \in Workers, RequestLands(w)
  PROVE  IInv'
<1>1. wk[w].pc = "send" /\ wk[w].pc \in ForwardPoints /\ Sent(w)
  BY DEF RequestLands, ForwardPoints, Sent
<1>2. PICK a \in Actions :
        /\ wk[w].job = Fwd(a) /\ Row(w) = row[Fwd(a)] /\ Fwd(a) \in Jobs /\ Act(w) = a
        /\ wk[w] \in WorkerStates /\ wk[w].pc \in Critical /\ mlock = w
        /\ row[Fwd(a)] \in Rows /\ row[Fwd(a)].status # "absent"
        /\ row[Fwd(a)].err # "LABEL_SENDER_PROTECTED"
        /\ ledger[a] = 0 /\ journal[a] = NoEntry
        /\ ~NeverReachedGmail(row[Fwd(a)])
  BY <1>1, Holder
<1>3. PICK ids \in Chunks(wk[w].todo) :
        /\ Apply(w, ids)
        /\ wk' = [wk EXCEPT
                    ![w].landed = TRUE, ![w].todo = @ \ ids,
                    ![w].pc = IF Row(w).verb = "later" /\ ~wk[w].landed THEN "timer"
                              ELSE AfterLanding(wk[w].todo \ ids)]
  BY DEF RequestLands
<1>4. ids \in SUBSET Messages
  BY <1>2, <1>3 DEF Chunks, WorkerStates
<1> DEFINE pc == IF Row(w).verb = "later" /\ ~wk[w].landed THEN "timer"
                 ELSE AfterLanding(wk[w].todo \ ids)
           todo == wk[w].todo \ ids
           v == [wk[w] EXCEPT !.landed = TRUE, !.todo = todo, !.pc = pc]
<1>5. pc \in {"timer", "commit", "hook"} /\ todo \in SUBSET Messages
  BY <1>2 DEF AfterLanding, WorkerStates
<1>6. wk' = [wk EXCEPT ![w] = v]
  BY <1>2, <1>3 DEF WorkerStates
<1> HIDE DEF pc, todo
<1>7. v \in WorkerStates /\ v.pc = pc /\ v.job = wk[w].job /\ v.landed = TRUE
  BY <1>2, <1>5 DEF WorkerStates, Points, Critical
<1> HIDE DEF v
<1>8. OnlyWorker(w) /\ wk'[w] = v
  BY <1>6, <1>7 DEF IInv, TypeOK, OnlyWorker
<1>9. /\ gmail' \in Stores /\ applied' \in [Actions -> SUBSET Messages]
      /\ \A b \in Actions \ {a} : applied'[b] = applied[b]
  BY <1>2, <1>3, <1>4, ApplyEffect
<1>10. TypeOK'
  BY <1>8, <1>9 DEF IInv, TypeOK, RequestLands, OnlyWorker
<1>11. RunningInv(w)'
  BY <1>2, <1>7, <1>8 DEF RequestLands, RunningInv, Act, Row, Job, Fwd
<1>12. WorkerInv(w)'
  <2>1. /\ wk'[w].pc \notin {"lock", "load", "check", "resolve", "empty", "client", "send"}
        /\ wk'[w].pc \notin ReversePoints
    BY <1>5, <1>7, <1>8 DEF ReversePoints
  <2>2. wk'[w].job \in Jobs /\ Forward(wk'[w].job) /\ Row(w)'.status # "absent" /\ mlock' = w
    BY <1>2, <1>7, <1>8 DEF RequestLands, Row, Job, Fwd, Forward
  <2> QED
    BY <1>11, <2>1, <2>2 DEF WorkerInv
<1>13. OnlyRow(Fwd(a)) /\ ActionInv(a)'
  BY <1>2, SentRecords DEF IInv, TypeOK, OnlyRow, RequestLands
<1>14. \A u \in Workers : WorkerInv(u)'
  BY <1>2, <1>8, <1>12, <1>13, InsideSection DEF RequestLands
<1>15. ASSUME NEW b \in Actions PROVE ActionInv(b)'
  <2>1. Fwd(a)[1] = a
    BY DEF Fwd
  <2> QED
    BY <1>2, <1>9, <1>13, <2>1, OtherActions DEF RequestLands
<1> QED
  BY <1>10, <1>14, <1>15, DeliveryStandsStill DEF IInv, RequestLands

(* The return timer touches the policy alone.                              *)
LEMMA ScheduleReturnKeeps ==
  ASSUME IInv, NEW w \in Workers, ScheduleReturn(w)
  PROVE  IInv'
<1>1. wk[w].pc = "timer" /\ wk[w].pc \in ForwardPoints /\ Sent(w)
  BY DEF ScheduleReturn, ForwardPoints, Sent
<1>2. PICK a \in Actions :
        /\ wk[w].job = Fwd(a) /\ Row(w) = row[Fwd(a)] /\ wk[w].pc \in Critical
        /\ row[Fwd(a)] \in Rows
  BY <1>1, Holder
<1> DEFINE pc == AfterLanding(wk[w].todo)
<1>3. pc \in {"commit", "hook"} /\ pc \in Points
  BY DEF AfterLanding, Points, Critical
<1>4. OnlyWorker(w) /\ KeepsJob(w) /\ wk'[w].pc = pc /\ wk'[w].landed = wk[w].landed
  BY <1>3, GotoEffect DEF IInv, ScheduleReturn
<1>5. policy' \in [protected : BOOLEAN, until : Wakes \cup {None}]
  BY <1>2 DEF ScheduleReturn, IInv, TypeOK, Rows
<1>6. TypeOK'
  BY <1>4, <1>5 DEF IInv, TypeOK, ScheduleReturn, OnlyWorker
<1>7. WorkerInv(w) /\ RunningInv(w)
  BY <1>1 DEF IInv, WorkerInv
<1>8. RunningInv(w)'
  BY <1>1, <1>4, <1>7 DEF ScheduleReturn, RunningInv, Act, Row, Job, Sent, KeepsJob
<1>9. WorkerInv(w)'
  <2>1. /\ wk'[w].pc \notin {"lock", "load", "check", "resolve", "empty", "client", "send"}
        /\ wk'[w].pc \notin ReversePoints
    BY <1>3, <1>4 DEF ReversePoints
  <2>2. wk'[w].job \in Jobs /\ Forward(wk'[w].job) /\ Row(w)'.status # "absent" /\ mlock' = w
    BY <1>1, <1>2, <1>4, <1>7 DEF WorkerInv, ScheduleReturn, Row, Job, KeepsJob
  <2> QED
    BY <1>8, <2>1, <2>2 DEF WorkerInv
<1> QED
  BY <1>2, <1>4, <1>6, <1>9, AdvancesUnchanged DEF ScheduleReturn

(* The terminal transaction, whether or not its acknowledgement arrives.   *)
LEMMA TerminalTxKeeps ==
  ASSUME IInv, NEW w \in Workers, wk[w].pc = "commit", TerminalTx(w), Leaves(w),
         faults' \in Nat, flips' \in Nat, UNCHANGED <<gmail, preview, api, queue, ghosts>>
  PROVE  IInv'
<1>1. wk[w].pc \in ForwardPoints
  BY DEF ForwardPoints
<1>2. PICK a \in Actions :
        /\ wk[w].job = Fwd(a) /\ Row(w) = row[Fwd(a)] /\ Fwd(a) \in Jobs /\ Act(w) = a
        /\ row[Fwd(a)] \in Rows /\ row[Fwd(a)].err # "LABEL_SENDER_PROTECTED"
        /\ ledger[a] = 0 /\ row[Rev(a)].status = "absent"
  BY <1>1, Holder
<1> DEFINE r == [row[Fwd(a)] EXCEPT !.status = "done"]
<1>3. r \in Rows /\ r.status = "done" /\ r.err = row[Fwd(a)].err
  BY <1>2 DEF Rows
<1>4. row' = [row EXCEPT ![Fwd(a)] = r]
  BY <1>2 DEF TerminalTx, Job
<1> HIDE DEF r
<1>5. OnlyRow(Fwd(a)) /\ row'[Fwd(a)] = r /\ row'[Rev(a)] = row[Rev(a)]
  BY <1>2, <1>3, <1>4 DEF IInv, TypeOK, OnlyRow, Fwd, Rev, Jobs
<1>6. /\ ledger' \in [Actions -> Nat] /\ ledger'[a] = 1
      /\ \A b \in Actions \ {a} : ledger'[b] = ledger[b]
  BY <1>2 DEF TerminalTx, IInv, TypeOK
<1>7. UndoEntry(row[Fwd(a)]) \in Entries
  <2>1. row[Fwd(a)].undo \in Placements /\ row[Fwd(a)].ids \in SUBSET Messages
    BY <1>2 DEF Rows
  <2>2. row[Fwd(a)].undo.inbox \in SUBSET Messages
    BY <2>1 DEF Placements
  <2> QED
    BY <2>1, <2>2 DEF UndoEntry, Entries
<1>8. /\ journal' \in [Actions -> Entries]
      /\ \A b \in Actions \ {a} : journal'[b] = journal[b]
  BY <1>2, <1>7 DEF TerminalTx, IInv, TypeOK
<1>9. mirror' \in Stores
  BY <1>2, ModifyType, ForwardChangeType DEF TerminalTx, IInv, TypeOK, Rows
<1>10. policy' \in [protected : BOOLEAN, until : Wakes \cup {None}]
  BY <1>2 DEF TerminalTx, IInv, TypeOK, Rows
<1>11. TypeOK'
  BY <1>5, <1>6, <1>8, <1>9, <1>10 DEF IInv, TypeOK, Leaves, OnlyWorker, FreesLock, OnlyRow
<1>12. ActionInv(a)'
  <2>1. ~NeverReachedGmail(row'[Fwd(a)]) /\ row'[Fwd(a)].status # "absent"
    BY <1>3, <1>5 DEF NeverReachedGmail
  <2>2. Settled(Fwd(a))'
    BY <1>3, <1>5 DEF Settled
  <2>3. row'[Fwd(a)].err # "LABEL_SENDER_PROTECTED" /\ row'[Rev(a)].status = "absent"
    BY <1>2, <1>3, <1>5
  <2> QED
    BY <1>6, <2>1, <2>2, <2>3 DEF ActionInv
<1> QED
  BY <1>1, <1>2, <1>3, <1>5, <1>6, <1>8, <1>11, <1>12, ForwardLeaves

(* The terminal transaction, acknowledged.                                 *)
LEMMA CommitKeeps ==
  ASSUME IInv, NEW w \in Workers, Commit(w)
  PROVE  IInv'
<1>1. Leaves(w)
  BY ReturnEffect DEF IInv, Commit
<1>2. faults' \in Nat /\ flips' \in Nat
  BY DEF IInv, TypeOK, Commit
<1> QED
  BY <1>1, <1>2, TerminalTxKeeps DEF Commit

(* The terminal transaction, its acknowledgement lost.                     *)
LEMMA CommitUnacknowledgedKeeps ==
  ASSUME IInv, NEW w \in Workers, CommitUnacknowledged(w)
  PROVE  IInv'
<1>1. Leaves(w)
  BY ThrowEffect DEF IInv, CommitUnacknowledged, Errors
<1>2. faults' \in Nat /\ flips' \in Nat
  BY DEF IInv, TypeOK, CommitUnacknowledged, Fault
<1> QED
  BY <1>1, <1>2, TerminalTxKeeps DEF CommitUnacknowledged

(* A failed statement changes no record.                                   *)
LEMMA DatabaseFailsKeeps ==
  ASSUME IInv, NEW w \in Workers, DatabaseFails(w)
  PROVE  IInv'
<1>1. Leaves(w)
  BY ThrowEffect DEF IInv, DatabaseFails, Errors
<1>2. TypeOK'
  BY <1>1 DEF IInv, TypeOK, DatabaseFails, Fault, Leaves, OnlyWorker, FreesLock
<1> QED
  BY <1>1, <1>2, LeavesUnchanged DEF DatabaseFails

-------------------------------------------------------------------------------
(* Undo, in the worker.                                                    *)

(* What a worker that runs an Undo knows.                                  *)
LEMMA Reverter ==
  ASSUME IInv, NEW w \in Workers, wk[w].pc \in Critical, ~Forward(wk[w].job)
  PROVE  \E a \in Actions :
           /\ wk[w].job = Rev(a) /\ Act(w) = a /\ Row(w) = row[Rev(a)]
           /\ Rev(a) \in Jobs /\ wk[w] \in WorkerStates /\ mlock = w
           /\ row[Rev(a)] \in Rows /\ row[Rev(a)].status # "absent"
           /\ journal[a] \in Entries /\ journal[a].state # "none"
<1>1. /\ wk[w] \in WorkerStates /\ wk[w].job \in Jobs /\ Row(w).status # "absent" /\ mlock = w
  BY DEF IInv, TypeOK, WorkerInv, Critical
<1>2. PICK a \in Actions : wk[w].job = Rev(a)
  BY <1>1 DEF Jobs, Forward, Rev
<1>3. Act(w) = a /\ Row(w) = row[Rev(a)] /\ row[Rev(a)] \in Rows
  BY <1>1, <1>2 DEF IInv, TypeOK, Row, Job, Act, Rev
<1>4. journal[a] \in Entries /\ journal[a].state # "none"
  BY <1>1, <1>3 DEF IInv, TypeOK, ActionInv
<1> QED
  BY <1>1, <1>2, <1>3, <1>4

(* Every action's records survive a change of a reverse row.               *)
LEMMA ReverseRecords ==
  ASSUME IInv, NEW a \in Actions, OnlyRow(Rev(a)), row[Rev(a)].status # "absent",
         UNCHANGED <<ledger, applied>>,
         \A b \in Actions \ {a} : journal'[b] = journal[b],
         journal'[a] = journal[a] \/ journal'[a].state = "reverted"
  PROVE  \A b \in Actions : ActionInv(b)'
<1> SUFFICES ASSUME NEW b \in Actions PROVE ActionInv(b)'
  OBVIOUS
<1>1. /\ ActionInv(a) /\ ActionInv(b) /\ row'[Fwd(b)] = row[Fwd(b)]
      /\ b # a => row'[Rev(b)] = row[Rev(b)]
  BY DEF IInv, OnlyRow, Fwd, Rev, Jobs
<1>2. journal[a] # NoEntry /\ (journal[a].state # "none")
  BY <1>1 DEF ActionInv, NoEntry
<1>3. CASE b = a
  BY <1>1, <1>2, <1>3 DEF ActionInv, Untouched, Settled
<1>4. CASE b # a
  BY <1>1, <1>4 DEF ActionInv, Untouched, Settled
<1> QED
  BY <1>3, <1>4

(* An Undo marks its own row executing.                                    *)
LEMMA StartReverseKeeps ==
  ASSUME IInv, NEW w \in Workers, StartReverse(w)
  PROVE  IInv'
<1>1. wk[w].pc = "load" /\ wk[w].pc \in Critical /\ ~Forward(wk[w].job)
  BY DEF StartReverse, Critical, Job
<1>2. PICK a \in Actions :
        /\ wk[w].job = Rev(a) /\ Row(w) = row[Rev(a)] /\ Rev(a) \in Jobs
        /\ wk[w] \in WorkerStates /\ mlock = w
        /\ row[Rev(a)] \in Rows /\ row[Rev(a)].status # "absent"
  BY <1>1, Reverter
<1> DEFINE r == [row[Rev(a)] EXCEPT !.status = "executing"]
           ids == row[Rev(a)].ids
           v == [wk[w] EXCEPT !.pc = "revsend", !.todo = ids]
<1>3. row' = [row EXCEPT ![Rev(a)] = r] /\ wk' = [wk EXCEPT ![w] = v]
  BY <1>2 DEF StartReverse, Job
<1>4. ids \in SUBSET Messages /\ r \in Rows /\ r.status = "executing"
  BY <1>2 DEF Rows
<1> HIDE DEF r, ids
<1>5. v \in WorkerStates /\ v.pc = "revsend" /\ v.job = wk[w].job
  BY <1>2, <1>4 DEF WorkerStates, Points, Critical
<1> HIDE DEF v
<1>6. OnlyRow(Rev(a)) /\ row'[Rev(a)] = r /\ OnlyWorker(w) /\ wk'[w] = v
  BY <1>2, <1>3, <1>4, <1>5 DEF IInv, TypeOK, OnlyRow, OnlyWorker
<1>7. TypeOK'
  BY <1>6 DEF IInv, TypeOK, StartReverse, OnlyWorker, OnlyRow
<1>8. WorkerInv(w)'
  BY <1>1, <1>2, <1>4, <1>5, <1>6
     DEF StartReverse, WorkerInv, Row, Job, ForwardPoints
<1>9. \A u \in Workers : WorkerInv(u)'
  BY <1>1, <1>2, <1>4, <1>6, <1>8, InsideSection
<1>10. \A b \in Actions : ActionInv(b)'
  BY <1>2, <1>6, ReverseRecords DEF StartReverse
<1>11. \A i \in Jobs : DeliveryInv(i)'
  BY <1>2, <1>4, <1>6, DeliveryStands DEF StartReverse
<1> QED
  BY <1>7, <1>9, <1>10, <1>11 DEF IInv

(* What an Undo makes of a store is a store.                               *)
LEMMA RestoreToType ==
  ASSUME NEW store \in Stores, NEW w, Row(w) \in Rows, NEW ids
  PROVE  RestoreTo(store, w, ids) \in Stores
  BY ModifyType, ReverseChangeType DEF RestoreTo, Rows

(* An Undo's request touches no forward record.                            *)
LEMMA ReverseLandsKeeps ==
  ASSUME IInv, NEW w \in Workers, ReverseLands(w)
  PROVE  IInv'
<1>1. wk[w].pc = "revsend" /\ wk[w].pc \in Critical /\ ~Forward(wk[w].job)
  BY DEF IInv, WorkerInv, ReverseLands, Critical, ReversePoints
<1>2. PICK a \in Actions :
        /\ wk[w].job = Rev(a) /\ Row(w) = row[Rev(a)] /\ Rev(a) \in Jobs
        /\ wk[w] \in WorkerStates /\ mlock = w
        /\ row[Rev(a)] \in Rows /\ row[Rev(a)].status # "absent"
  BY <1>1, Reverter
<1> DEFINE pc == IF wk[w].todo = NextGroup(w) THEN "revcommit" ELSE "revsend"
           todo == wk[w].todo \ NextGroup(w)
           v == [wk[w] EXCEPT !.todo = todo, !.pc = pc]
<1>3. pc \in {"revcommit", "revsend"} /\ todo \in SUBSET Messages
  BY <1>2 DEF WorkerStates
<1>4. wk' = [wk EXCEPT ![w] = v]
  BY <1>2 DEF ReverseLands, WorkerStates
<1> HIDE DEF pc, todo
<1>5. v \in WorkerStates /\ v.pc = pc /\ v.job = wk[w].job
  BY <1>2, <1>3 DEF WorkerStates, Points, Critical
<1> HIDE DEF v
<1>6. OnlyWorker(w) /\ wk'[w] = v
  BY <1>4, <1>5 DEF IInv, TypeOK, OnlyWorker
<1>7. gmail' \in Stores
  BY <1>2, RestoreToType DEF ReverseLands, IInv, TypeOK
<1>8. TypeOK'
  BY <1>6, <1>7 DEF IInv, TypeOK, ReverseLands, OnlyWorker
<1>9. WorkerInv(w)'
  BY <1>1, <1>2, <1>3, <1>5, <1>6 DEF ReverseLands, WorkerInv, Row, Job, ForwardPoints
<1> QED
  BY <1>1, <1>6, <1>8, <1>9, AdvancesUnchanged DEF ReverseLands

(* Nor does one that fails, or may have.                                   *)
LEMMA ReverseFailsKeeps ==
  ASSUME IInv, NEW w \in Workers, ReverseFails(w)
  PROVE  IInv'
<1>1. wk[w].pc = "revsend" /\ wk[w].pc \in Critical /\ ~Forward(wk[w].job)
  BY DEF IInv, WorkerInv, ReverseFails, Critical, ReversePoints
<1>2. Row(w) \in Rows
  BY <1>1, Reverter
<1>3. Leaves(w)
  BY ThrowEffect DEF IInv, ReverseFails, Errors
<1>4. gmail' \in Stores
  BY <1>2, RestoreToType DEF ReverseFails, IInv, TypeOK
<1>5. TypeOK'
  BY <1>3, <1>4 DEF IInv, TypeOK, ReverseFails, Fault, Leaves, OnlyWorker, FreesLock
<1> QED
  BY <1>1, <1>3, <1>5, LeavesUnchanged DEF ReverseFails

(* The terminal transaction of an Undo keeps the entry it reverts.         *)
LEMMA CommitReverseKeeps ==
  ASSUME IInv, NEW w \in Workers, CommitReverse(w)
  PROVE  IInv'
<1>1. wk[w].pc = "revcommit" /\ wk[w].pc \in Critical /\ ~Forward(wk[w].job)
  BY DEF IInv, WorkerInv, CommitReverse, Critical, ReversePoints
<1>2. PICK a \in Actions :
        /\ wk[w].job = Rev(a) /\ Act(w) = a /\ Row(w) = row[Rev(a)] /\ Rev(a) \in Jobs
        /\ row[Rev(a)] \in Rows /\ row[Rev(a)].status # "absent"
        /\ journal[a] \in Entries
  BY <1>1, Reverter
<1> DEFINE r == [row[Rev(a)] EXCEPT !.status = "done"]
           e == [journal[a] EXCEPT !.state = "reverted"]
<1>3. row' = [row EXCEPT ![Rev(a)] = r] /\ journal' = [journal EXCEPT ![a] = e]
  BY <1>2 DEF CommitReverse, Job
<1>4. r \in Rows /\ r.status = "done" /\ e \in Entries /\ e.state = "reverted"
  BY <1>2 DEF Rows, Entries
<1> HIDE DEF r, e
<1>5. /\ OnlyRow(Rev(a)) /\ row'[Rev(a)] = r
      /\ journal' \in [Actions -> Entries] /\ journal'[a] = e
      /\ \A b \in Actions \ {a} : journal'[b] = journal[b]
  BY <1>2, <1>3, <1>4 DEF IInv, TypeOK, OnlyRow
<1>6. Leaves(w)
  BY ReturnEffect DEF IInv, CommitReverse
<1>7. mirror' \in Stores
  BY <1>2, RestoreToType DEF CommitReverse, IInv, TypeOK
<1>8. policy' \in [protected : BOOLEAN, until : Wakes \cup {None}]
  BY DEF CommitReverse, IInv, TypeOK
<1>9. TypeOK'
  BY <1>5, <1>6, <1>7, <1>8
     DEF IInv, TypeOK, CommitReverse, Leaves, OnlyWorker, FreesLock, OnlyRow
<1>10. \A u \in Workers : WorkerInv(u)'
  BY <1>1, <1>2, <1>4, <1>5, <1>6, LeavingSection
<1>11. \A b \in Actions : ActionInv(b)'
  BY <1>2, <1>4, <1>5, ReverseRecords DEF CommitReverse
<1>12. \A i \in Jobs : DeliveryInv(i)'
  BY <1>2, <1>4, <1>5, DeliveryStands DEF CommitReverse
<1> QED
  BY <1>9, <1>10, <1>11, <1>12 DEF IInv

-------------------------------------------------------------------------------
(* The API.                                                                *)

(* No worker runs a row that does not exist yet.                           *)
LEMMA NewRowWorkers ==
  ASSUME IInv, NEW j \in Jobs, row[j].status = "absent", OnlyRow(j),
         UNCHANGED <<wk, mlock, policy, journal, ledger, ghosts>>
  PROVE  \A u \in Workers : WorkerInv(u)'
<1> SUFFICES ASSUME NEW u \in Workers PROVE WorkerInv(u)'
  OBVIOUS
<1>1. WorkerInv(u)
  BY DEF IInv
<1>2. CASE wk[u].pc = "idle"
  BY <1>2 DEF WorkerInv, Critical, ForwardPoints, ReversePoints
<1>3. CASE wk[u].pc # "idle"
  <2>1. row'[wk[u].job] = row[wk[u].job]
    BY <1>1, <1>3 DEF WorkerInv, Row, Job, OnlyRow
  <2> QED
    BY <1>1, <2>1 DEF WorkerInv, RunningInv, Sent, Row, Act, Job
<1> QED
  BY <1>2, <1>3

(* A write to a reverse row disturbs no worker.                            *)
LEMMA ReverseRowWorkers ==
  ASSUME IInv, NEW a \in Actions, OnlyRow(Rev(a)), row'[Rev(a)].status # "absent",
         UNCHANGED <<wk, mlock, policy, journal, ledger, ghosts>>
  PROVE  \A u \in Workers : WorkerInv(u)'
<1> SUFFICES ASSUME NEW u \in Workers PROVE WorkerInv(u)'
  OBVIOUS
<1>1. WorkerInv(u) /\ ~Forward(Rev(a))
  BY DEF IInv, Forward, Rev
<1>2. CASE wk[u].pc # "idle" /\ wk[u].job # Rev(a)
  <2>1. row'[wk[u].job] = row[wk[u].job]
    BY <1>1, <1>2 DEF WorkerInv, OnlyRow
  <2> QED
    BY <1>1, <2>1 DEF WorkerInv, RunningInv, Sent, Row, Act, Job
<1>3. CASE wk[u].pc # "idle" /\ wk[u].job = Rev(a)
  BY <1>1, <1>3 DEF WorkerInv, Row, Job
<1>4. CASE wk[u].pc = "idle"
  BY <1>4 DEF WorkerInv, Critical, ForwardPoints, ReversePoints
<1> QED
  BY <1>2, <1>3, <1>4

(* A forward row that appears has touched nothing.                         *)
LEMMA NewRowRecords ==
  ASSUME IInv, NEW a \in Actions, row[Fwd(a)].status = "absent", OnlyRow(Fwd(a)),
         row'[Fwd(a)].status = "queued", row'[Fwd(a)].err = "none",
         UNCHANGED <<journal, ledger, applied>>
  PROVE  \A b \in Actions : ActionInv(b)'
<1>1. Fwd(a) \in Jobs /\ Fwd(a)[1] = a /\ row'[Rev(a)] = row[Rev(a)]
  BY DEF Fwd, Rev, Jobs, OnlyRow
<1>2. ActionInv(a) /\ Untouched(a)
  BY DEF IInv, ActionInv
<1>3. ActionInv(a)'
  BY <1>1, <1>2 DEF ActionInv, Untouched
<1> QED
  BY <1>1, <1>3, OtherActions

(* A click commits a row no worker runs yet.                               *)
LEMMA ClickKeeps ==
  ASSUME IInv, NEW a \in Actions, NEW verb \in Verbs, NEW reach \in Reaches,
         NEW wake \in Wakes \cup {None}, NEW override \in BOOLEAN,
         Click(a, verb, reach, wake, override)
  PROVE  IInv'
<1> DEFINE r == NewRow(a, verb, reach, wake)
           q == [at |-> "add", conf |-> override /\ policy.protected]
<1>1. r \in Rows /\ r.status = "queued" /\ r.err = "none"
  BY SetsAssumption DEF NewRow, Rows, Codes, NoPlacement, Placements
<1>2. Fwd(a) \in Jobs /\ row' = [row EXCEPT ![Fwd(a)] = r] /\ row[Fwd(a)].status = "absent"
  BY DEF Click, Fwd, Jobs
<1>3. q \in Requests /\ api' = [api EXCEPT ![Fwd(a)] = q]
  BY DEF Click, Requests, IInv, TypeOK
<1> HIDE DEF r, q
<1>4. OnlyRow(Fwd(a)) /\ row'[Fwd(a)] = r
  BY <1>1, <1>2 DEF IInv, TypeOK, OnlyRow
<1>5. TypeOK'
  BY <1>3, <1>4 DEF IInv, TypeOK, Click, OnlyRow
<1>6. \A u \in Workers : WorkerInv(u)'
  BY <1>2, <1>4, NewRowWorkers DEF Click
<1>7. \A b \in Actions : ActionInv(b)'
  BY <1>1, <1>2, <1>4, NewRowRecords DEF Click
<1>8. ASSUME NEW i \in Jobs PROVE DeliveryInv(i)'
  BY <1>1, <1>2, <1>3, <1>4 DEF IInv, TypeOK, DeliveryInv, OnlyRow, Click
<1> QED
  BY <1>5, <1>6, <1>7, <1>8 DEF IInv

(* What an add makes of the queue is a queue.                              *)
LEMMA AddedType ==
  ASSUME IInv, NEW j \in Jobs
  PROVE  /\ Added(j) \in [Jobs -> QueueJobs]
         /\ \A i \in Jobs \ {j} : Added(j)[i] = queue[i]
<1> DEFINE q == [state |-> "waiting", owner |-> None, made |-> 0, stalls |-> 0,
                 conf |-> api[j].conf]
<1>1. queue \in [Jobs -> QueueJobs] /\ api[j] \in Requests
  BY DEF IInv, TypeOK
<1>2. q \in QueueJobs
  BY <1>1 DEF QueueJobs, Requests
<1>3. Added(j) = queue \/ Added(j) = [queue EXCEPT ![j] = q]
  BY DEF Added
<1> QED
  BY <1>1, <1>2, <1>3

(* A request that only hands a row to the queue.                           *)
LEMMA HandOver ==
  ASSUME IInv, NEW j \in Jobs, row[j].status # "absent",
         api' \in [Jobs -> Requests], \A i \in Jobs \ {j} : api'[i] = api[i],
         queue' \in [Jobs -> QueueJobs], \A i \in Jobs \ {j} : queue'[i] = queue[i],
         faults' \in Nat, flips' \in Nat,
         UNCHANGED <<data, records, wk, mlock, ghosts>>
  PROVE  IInv'
<1>1. TypeOK'
  BY DEF IInv, TypeOK
<1>2. \A u \in Workers : WorkerInv(u)'
  BY Bystander
<1>3. \A i \in Jobs : DeliveryInv(i)'
  BY DEF IInv, DeliveryInv
<1> QED
  BY <1>1, <1>2, <1>3, RecordsStand DEF IInv

(* An add that returns.                                                    *)
LEMMA QueueAddKeeps ==
  ASSUME IInv, NEW j \in Jobs, QueueAdd(j)
  PROVE  IInv'
<1>1. row[j].status # "absent"
  BY DEF IInv, DeliveryInv, QueueAdd
<1>2. NoRequest \in Requests
  BY DEF NoRequest, Requests
<1>3. api' \in [Jobs -> Requests] /\ \A i \in Jobs \ {j} : api'[i] = api[i]
  BY <1>2 DEF QueueAdd, IInv, TypeOK
<1>4. faults' \in Nat /\ flips' \in Nat
  BY DEF QueueAdd, IInv, TypeOK
<1> QED
  BY <1>1, <1>3, <1>4, AddedType, HandOver DEF QueueAdd

(* An add that throws, whether or not it landed.                           *)
LEMMA QueueAddThrowsKeeps ==
  ASSUME IInv, NEW j \in Jobs, QueueAddThrows(j)
  PROVE  IInv'
<1>1. row[j].status # "absent" /\ api[j] \in Requests /\ queue \in [Jobs -> QueueJobs]
  BY DEF IInv, TypeOK, DeliveryInv, QueueAddThrows
<1> DEFINE q == [api[j] EXCEPT !.at = "caught"]
<1>2. NoRequest \in Requests /\ q \in Requests
  BY <1>1 DEF NoRequest, Requests
<1>3. api' = [api EXCEPT ![j] = NoRequest] \/ api' = [api EXCEPT ![j] = q]
  BY DEF QueueAddThrows
<1> HIDE DEF q
<1>4. api' \in [Jobs -> Requests] /\ \A i \in Jobs \ {j} : api'[i] = api[i]
  BY <1>2, <1>3 DEF IInv, TypeOK
<1>5. faults' \in Nat /\ flips' \in Nat
  BY DEF QueueAddThrows, Fault, IInv, TypeOK
<1>6. queue' \in [Jobs -> QueueJobs] /\ \A i \in Jobs \ {j} : queue'[i] = queue[i]
  BY <1>1, AddedType DEF QueueAddThrows
<1> QED
  BY <1>1, <1>4, <1>5, <1>6, HandOver DEF QueueAddThrows

(* A request that dies leaves its row behind.                              *)
LEMMA ApiCrashKeeps ==
  ASSUME IInv, NEW j \in Jobs, ApiCrash(j)
  PROVE  IInv'
<1>1. row[j].status # "absent"
  BY DEF IInv, DeliveryInv, ApiCrash
<1>2. NoRequest \in Requests
  BY DEF NoRequest, Requests
<1>3. api' \in [Jobs -> Requests] /\ \A i \in Jobs \ {j} : api'[i] = api[i]
  BY <1>2 DEF ApiCrash, IInv, TypeOK
<1>4. faults' \in Nat /\ flips' \in Nat /\ queue' \in [Jobs -> QueueJobs] /\ queue' = queue
  BY DEF ApiCrash, Fault, IInv, TypeOK
<1> QED
  BY <1>1, <1>3, <1>4, HandOver DEF ApiCrash

(* A repeated confirmation only asks for another add.                      *)
LEMMA ReplayConfirmKeeps ==
  ASSUME IInv, NEW a \in Actions, NEW ack \in BOOLEAN, ReplayConfirm(a, ack)
  PROVE  IInv'
<1> DEFINE q == [at |-> "add", conf |-> ack /\ policy.protected]
<1>1. q \in Requests /\ Fwd(a) \in Jobs /\ row[Fwd(a)].status # "absent"
  BY DEF ReplayConfirm, Requests, Fwd, Jobs, IInv, TypeOK
<1>2. api' = [api EXCEPT ![Fwd(a)] = q]
  BY DEF ReplayConfirm
<1> HIDE DEF q
<1>3. api' \in [Jobs -> Requests] /\ \A i \in Jobs \ {Fwd(a)} : api'[i] = api[i]
  BY <1>1, <1>2 DEF IInv, TypeOK
<1>4. faults' \in Nat /\ flips' \in Nat /\ queue' \in [Jobs -> QueueJobs] /\ queue' = queue
  BY DEF ReplayConfirm, IInv, TypeOK
<1> QED
  BY <1>1, <1>3, <1>4, HandOver DEF ReplayConfirm

(* The mark of a failed add takes no lock, but touches a queued row only:  *)
(* a row no running worker has sent anything for.                          *)
LEMMA EnqueueFailedKeeps ==
  ASSUME IInv, NEW j \in Jobs, EnqueueFailed(j)
  PROVE  IInv'
<1>1. row[j].status # "absent" /\ row[j] \in Rows /\ row \in [Jobs -> Rows]
  BY DEF IInv, TypeOK, DeliveryInv, EnqueueFailed
<1>2. NoRequest \in Requests
  BY DEF NoRequest, Requests
<1>3. api' \in [Jobs -> Requests] /\ \A i \in Jobs \ {j} : api'[i] = api[i]
  BY <1>2 DEF EnqueueFailed, IInv, TypeOK
<1>4. CASE row[j].status # "queued"
  <2>1. faults' \in Nat /\ flips' \in Nat /\ queue' \in [Jobs -> QueueJobs] /\ queue' = queue
    BY DEF EnqueueFailed, IInv, TypeOK
  <2>2. row' = row /\ disowned' = disowned
    BY <1>4 DEF EnqueueFailed, Disown
  <2> QED
    BY <1>1, <1>3, <2>1, <2>2, HandOver DEF EnqueueFailed
<1>5. CASE row[j].status = "queued"
  <2> DEFINE r == [row[j] EXCEPT !.status = "failed", !.err = "ENQUEUE_FAILED"]
  <2>1. row[j].status = "queued" /\ row' = [row EXCEPT ![j] = r]
    BY <1>5 DEF EnqueueFailed
  <2>2. r \in Rows /\ r.status = "failed" /\ r.err = "ENQUEUE_FAILED"
    BY <1>1 DEF Rows, Codes
  <2> HIDE DEF r
  <2>3. OnlyRow(j) /\ row'[j] = r
    BY <1>1, <2>1, <2>2 DEF OnlyRow
  <2>4. TypeOK'
    <3>1. disowned' \subseteq Actions
      BY DEF IInv, TypeOK, EnqueueFailed, Disown, Jobs
    <3> QED
      BY <1>3, <2>3, <3>1 DEF IInv, TypeOK, EnqueueFailed, OnlyRow
  <2>5. ASSUME NEW u \in Workers PROVE WorkerInv(u)'
    <3>1. WorkerInv(u) /\ NeverReachedGmail(row[j])
      BY <2>1 DEF IInv, NeverReachedGmail
    <3>2. CASE wk[u].pc # "idle" /\ wk[u].job # j
      <4>1. row'[wk[u].job] = row[wk[u].job]
        BY <2>3, <3>1, <3>2 DEF WorkerInv, OnlyRow
      <4> QED
        BY <3>1, <4>1 DEF EnqueueFailed, WorkerInv, RunningInv, Sent, Row, Act, Job
    <3>3. CASE wk[u].pc # "idle" /\ wk[u].job = j
      <4>1. RunningInv(u) => RunningInv(u)'
        BY <2>2, <2>3, <3>1, <3>3 DEF EnqueueFailed, RunningInv, Sent, Row, Act, Job
      <4> QED
        BY <2>2, <2>3, <3>1, <3>3, <4>1 DEF EnqueueFailed, WorkerInv, Row, Job
    <3>4. CASE wk[u].pc = "idle"
      BY <3>4 DEF EnqueueFailed, WorkerInv, Critical, ForwardPoints, ReversePoints
    <3> QED
      BY <3>2, <3>3, <3>4
  <2>6. ASSUME NEW a \in Actions PROVE ActionInv(a)'
    <3>1. ActionInv(a) /\ Fwd(a) \in Jobs /\ Rev(a) \in Jobs
      BY DEF IInv, Fwd, Rev, Jobs
    <3>2. row'[Rev(a)].status # "absent" => row[Rev(a)].status # "absent"
      BY <1>1, <2>3, <3>1 DEF OnlyRow
    <3>3. CASE j = Fwd(a)
      <4>1. Untouched(a)
        BY <2>1, <3>1, <3>3 DEF ActionInv, NeverReachedGmail
      <4>2. Untouched(a)' /\ journal' = journal
        BY <4>1 DEF Untouched, EnqueueFailed
      <4> QED
        BY <2>2, <2>3, <3>1, <3>2, <3>3, <4>2 DEF ActionInv, Untouched
    <3>4. CASE j # Fwd(a)
      <4>1. row'[Fwd(a)] = row[Fwd(a)]
        BY <2>3, <3>1, <3>4 DEF OnlyRow
      <4> QED
        BY <3>1, <3>2, <4>1 DEF EnqueueFailed, ActionInv, Untouched, Settled
    <3> QED
      BY <3>3, <3>4
  <2>7. \A i \in Jobs : DeliveryInv(i)'
    BY <1>1, <1>3, <2>2, <2>3 DEF IInv, DeliveryInv, OnlyRow, EnqueueFailed
  <2> QED
    BY <2>4, <2>5, <2>6, <2>7 DEF IInv
<1> QED
  BY <1>4, <1>5

(* An Undo creates or finds the reverse row, and no forward row moves.     *)
LEMMA UndoKeeps ==
  ASSUME IInv, NEW a \in Actions, Undo(a)
  PROVE  IInv'
<1>1. /\ Rev(a) \in Jobs /\ Fwd(a) \in Jobs /\ row \in [Jobs -> Rows] /\ row[Fwd(a)] \in Rows
      /\ api \in [Jobs -> Requests] /\ api[Rev(a)] \in Requests
  BY DEF IInv, TypeOK, Fwd, Rev, Jobs
<1>2. CASE /\ row[Rev(a)].status = "absent"
           /\ row' = [row EXCEPT ![Rev(a)] = [row[Fwd(a)] EXCEPT !.status = "queued",
                                                                 !.err = "none"]]
           /\ api' = [api EXCEPT ![Rev(a)].at = "add"]
  <2> DEFINE r == [row[Fwd(a)] EXCEPT !.status = "queued", !.err = "none"]
             q == [api[Rev(a)] EXCEPT !.at = "add"]
  <2>1. r \in Rows /\ r.status = "queued" /\ q \in Requests
    BY <1>1 DEF Rows, Codes, Requests
  <2>2. row' = [row EXCEPT ![Rev(a)] = r] /\ api' = [api EXCEPT ![Rev(a)] = q]
    BY <1>2
  <2> HIDE DEF r, q
  <2>3. /\ OnlyRow(Rev(a)) /\ row'[Rev(a)] = r
        /\ api' \in [Jobs -> Requests] /\ \A i \in Jobs \ {Rev(a)} : api'[i] = api[i]
    BY <1>1, <2>1, <2>2 DEF OnlyRow
  <2>4. TypeOK'
    BY <2>3 DEF IInv, TypeOK, Undo, OnlyRow
  <2>5. \A u \in Workers : WorkerInv(u)'
    BY <2>1, <2>3, ReverseRowWorkers DEF Undo
  <2>6. ASSUME NEW b \in Actions PROVE ActionInv(b)'
    <3>1. row'[Fwd(b)] = row[Fwd(b)] /\ (b # a => row'[Rev(b)] = row[Rev(b)])
      BY <2>3 DEF OnlyRow, Fwd, Rev, Jobs
    <3>2. ActionInv(b) /\ journal[a].state # "none"
      BY DEF IInv, Undo
    <3> QED
      BY <3>1, <3>2 DEF Undo, ActionInv, Untouched, Settled
  <2>7. \A i \in Jobs : DeliveryInv(i)'
    BY <2>1, <2>3 DEF IInv, DeliveryInv, OnlyRow, Undo
  <2> QED
    BY <2>4, <2>5, <2>6, <2>7 DEF IInv
<1>3. CASE /\ row[Rev(a)].status \notin {"absent", "done"}
           /\ api' = [api EXCEPT ![Rev(a)].at = "reset"]
           /\ UNCHANGED row
  <2> DEFINE q == [api[Rev(a)] EXCEPT !.at = "reset"]
  <2>1. q \in Requests /\ api' = [api EXCEPT ![Rev(a)] = q]
    BY <1>1, <1>3 DEF Requests
  <2> HIDE DEF q
  <2>2. api' \in [Jobs -> Requests] /\ \A i \in Jobs \ {Rev(a)} : api'[i] = api[i]
    BY <1>1, <2>1
  <2>3. faults' \in Nat /\ flips' \in Nat /\ queue' \in [Jobs -> QueueJobs] /\ queue' = queue
    BY DEF Undo, IInv, TypeOK
  <2> QED
    BY <1>1, <1>3, <2>2, <2>3, HandOver DEF Undo
<1> QED
  BY <1>2, <1>3 DEF Undo

(* The reset of an Undo writes the reverse row alone.                      *)
LEMMA ResetRevertKeeps ==
  ASSUME IInv, NEW a \in Actions, ResetRevert(a)
  PROVE  IInv'
<1>1. /\ Rev(a) \in Jobs /\ row \in [Jobs -> Rows] /\ row[Rev(a)] \in Rows
      /\ api \in [Jobs -> Requests] /\ api[Rev(a)] \in Requests
      /\ row[Rev(a)].status # "absent"
  BY DEF IInv, TypeOK, Rev, Jobs, ResetRevert, DeliveryInv
<1> DEFINE r == [row[Rev(a)] EXCEPT !.status = "queued", !.err = "none"]
           q == [api[Rev(a)] EXCEPT !.at = "add"]
<1>2. r \in Rows /\ r.status = "queued" /\ q \in Requests /\ NoQueueJob \in QueueJobs
  BY <1>1 DEF Rows, Codes, Requests, NoQueueJob, QueueJobs
<1>3. row' = [row EXCEPT ![Rev(a)] = r] /\ api' = [api EXCEPT ![Rev(a)] = q]
  BY DEF ResetRevert
<1> HIDE DEF r, q
<1>4. /\ OnlyRow(Rev(a)) /\ row'[Rev(a)] = r
      /\ api' \in [Jobs -> Requests] /\ \A i \in Jobs \ {Rev(a)} : api'[i] = api[i]
      /\ queue' \in [Jobs -> QueueJobs] /\ \A i \in Jobs \ {Rev(a)} : queue'[i] = queue[i]
  <2>1. OnlyRow(Rev(a)) /\ row'[Rev(a)] = r
    BY <1>1, <1>2, <1>3 DEF OnlyRow
  <2>2. api' \in [Jobs -> Requests] /\ \A i \in Jobs \ {Rev(a)} : api'[i] = api[i]
    BY <1>1, <1>2, <1>3
  <2>3. queue' = queue \/ queue' = [queue EXCEPT ![Rev(a)] = NoQueueJob]
    BY DEF ResetRevert
  <2>4. queue' \in [Jobs -> QueueJobs] /\ \A i \in Jobs \ {Rev(a)} : queue'[i] = queue[i]
    BY <1>1, <1>2, <2>3 DEF IInv, TypeOK
  <2> QED
    BY <2>1, <2>2, <2>4
<1>5. TypeOK'
  BY <1>4 DEF IInv, TypeOK, ResetRevert, OnlyRow
<1>6. \A u \in Workers : WorkerInv(u)'
  BY <1>2, <1>4, ReverseRowWorkers DEF ResetRevert
<1>7. \A b \in Actions : ActionInv(b)'
  BY <1>1, <1>4, ReverseRecords DEF ResetRevert
<1>8. \A i \in Jobs : DeliveryInv(i)'
  BY <1>2, <1>4 DEF IInv, DeliveryInv, OnlyRow
<1> QED
  BY <1>5, <1>6, <1>7, <1>8 DEF IInv

-------------------------------------------------------------------------------
(* The review, the user and the sync.                                      *)

(* A step of the environment that only reads the records.                  *)
LEMMA Elsewhere ==
  ASSUME IInv, TypeOK', policy'.protected = policy.protected,
         UNCHANGED <<row, journal, ledger, api, queue, wk, mlock, ghosts>>
  PROVE  IInv'
<1>1. \A u \in Workers : WorkerInv(u)'
  BY Bystander
<1> QED
  BY <1>1, RecordsStand, DeliveryStandsStill DEF IInv

(* Opening, verifying and closing a review write the preview alone.        *)
LEMMA ReviewKeeps ==
  ASSUME IInv, NEW a \in Actions, OpenReview(a) \/ VerifyReview(a) \/ CloseReview(a)
  PROVE  IInv'
<1>0. preview \in [Actions -> Previews] /\ preview[a] \in Previews
  BY DEF IInv, TypeOK
<1>1. CASE OpenReview(a)
  <2>1. [state |-> "verifying", current |-> a, target |-> {}] \in Previews
    BY DEF Previews
  <2>2. preview' \in [Actions -> Previews]
    BY <1>0, <1>1, <2>1 DEF OpenReview
  <2>3. TypeOK'
    BY <1>1, <2>2 DEF OpenReview, IInv, TypeOK
  <2> QED
    BY <1>1, <2>3, Elsewhere DEF OpenReview
<1>2. CASE VerifyReview(a)
  <2> DEFINE r == row[Fwd(preview[a].current)]
             s == VerifiedState(r)
             t == ReviewTarget(r)
             p == [preview[a] EXCEPT !.state = s, !.target = t]
  <2>1. r \in Rows
    BY <1>0 DEF Previews, IInv, TypeOK, Fwd, Jobs
  <2>2. s \in {"failed", "consumed", "ready"} /\ t \in SUBSET Messages
    BY <2>1, ExecutionSetType DEF VerifiedState, ReviewTarget, Rows, IInv
  <2>3. preview' = [preview EXCEPT ![a] = p]
    BY <1>2 DEF VerifyReview
  <2> HIDE DEF s, t
  <2>4. p \in Previews
    BY <1>0, <2>2 DEF Previews
  <2> HIDE DEF p
  <2>5. preview' \in [Actions -> Previews]
    BY <1>0, <2>3, <2>4
  <2>6. TypeOK'
    BY <1>2, <2>5 DEF VerifyReview, IInv, TypeOK
  <2> QED
    BY <1>2, <2>6, Elsewhere DEF VerifyReview
<1>3. CASE CloseReview(a)
  <2>1. [preview[a] EXCEPT !.state = "failed"] \in Previews
    BY <1>0 DEF Previews
  <2>2. preview' \in [Actions -> Previews]
    BY <1>0, <1>3, <2>1 DEF CloseReview
  <2>3. TypeOK'
    BY <1>3, <2>2 DEF CloseReview, IInv, TypeOK
  <2> QED
    BY <1>3, <2>3, Elsewhere DEF CloseReview
<1> QED
  BY <1>1, <1>2, <1>3

(* A confirmed review commits a row no worker runs yet.                    *)
LEMMA ConfirmReviewKeeps ==
  ASSUME IInv, NEW root \in Actions, NEW child \in Actions, NEW ack \in BOOLEAN,
         ConfirmReview(root, child, ack)
  PROVE  IInv'
<1> DEFINE parent == row[Fwd(preview[root].current)]
           t == preview[root].target
           n == Cardinality(Lineage(root))
           r == [parent EXCEPT !.status = "queued", !.err = "none", !.ids = t,
                               !.attempt = n, !.root = root]
           q == [at |-> "add", conf |-> ack /\ policy.protected]
           p == [preview[root] EXCEPT !.state = "consumed"]
<1>1. n \in Nat
  <2>1. Lineage(root) \subseteq Actions
    BY DEF Lineage
  <2> QED
    BY <2>1, FinitenessAssumption, FS_Subset, FS_CardinalityType
<1>2. preview \in [Actions -> Previews] /\ preview[root] \in Previews
  BY DEF IInv, TypeOK
<1>3. parent \in Rows /\ t \in SUBSET Messages /\ p \in Previews
  BY <1>2 DEF Previews, IInv, TypeOK, Fwd, Jobs
<1>4. /\ row' = [row EXCEPT ![Fwd(child)] = r] /\ api' = [api EXCEPT ![Fwd(child)] = q]
      /\ preview' = [preview EXCEPT ![root] = p]
  BY DEF ConfirmReview
<1> HIDE DEF parent, t, n, p
<1>5. r \in Rows /\ r.status = "queued" /\ r.err = "none"
  BY <1>1, <1>3 DEF Rows, Codes
<1>6. q \in Requests /\ Fwd(child) \in Jobs /\ row[Fwd(child)].status = "absent"
  BY DEF ConfirmReview, Requests, Fwd, Jobs, IInv, TypeOK
<1> HIDE DEF r, q
<1>7. /\ OnlyRow(Fwd(child)) /\ row'[Fwd(child)] = r
      /\ api' \in [Jobs -> Requests] /\ \A i \in Jobs \ {Fwd(child)} : api'[i] = api[i]
      /\ preview' \in [Actions -> Previews]
  BY <1>2, <1>3, <1>4, <1>5, <1>6 DEF IInv, TypeOK, OnlyRow
<1>8. TypeOK'
  BY <1>7 DEF IInv, TypeOK, ConfirmReview, OnlyRow
<1>9. \A u \in Workers : WorkerInv(u)'
  BY <1>6, <1>7, NewRowWorkers DEF ConfirmReview
<1>10. \A b \in Actions : ActionInv(b)'
  BY <1>5, <1>6, <1>7, NewRowRecords DEF ConfirmReview
<1>11. \A i \in Jobs : DeliveryInv(i)'
  BY <1>5, <1>6, <1>7 DEF IInv, DeliveryInv, OnlyRow, ConfirmReview
<1> QED
  BY <1>8, <1>9, <1>10, <1>11 DEF IInv

(* Protecting a sender makes the requests already past their hook racers.  *)
LEMMA SetProtectedKeeps ==
  ASSUME IInv, SetProtected
  PROVE  IInv'
<1>1. policy' \in [protected : BOOLEAN, until : Wakes \cup {None}] /\ racing' \subseteq Workers
  BY DEF SetProtected, IInv, TypeOK
<1>2. TypeOK'
  BY <1>1 DEF SetProtected, Flip, IInv, TypeOK
<1>3. ASSUME NEW u \in Workers PROVE WorkerInv(u)'
  <2>1. WorkerInv(u) /\ (wk[u].pc = "send" => u \in racing')
    BY DEF IInv, SetProtected
  <2> QED
    BY <2>1 DEF SetProtected, WorkerInv, RunningInv, Sent, Row, Act, Job
<1> QED
  BY <1>2, <1>3, RecordsStand, DeliveryStandsStill DEF IInv, SetProtected

(* The user's own moves are no action's.                                   *)
LEMMA MoveMailKeeps ==
  ASSUME IInv, NEW m \in Messages, MoveMail(m)
  PROVE  IInv'
<1>1. gmail' \in Stores
  BY DEF MoveMail, IInv, TypeOK, Stores, Labels
<1>2. TypeOK'
  BY <1>1 DEF MoveMail, Flip, IInv, TypeOK
<1> QED
  BY <1>2, Elsewhere DEF MoveMail

(* The sync writes the mirror alone.                                       *)
LEMMA SyncMessageKeeps ==
  ASSUME IInv, NEW m \in Messages, SyncMessage(m)
  PROVE  IInv'
<1>1. mirror' \in Stores
  BY DEF SyncMessage, IInv, TypeOK, Stores
<1>2. TypeOK'
  BY <1>1 DEF SyncMessage, IInv, TypeOK
<1> QED
  BY <1>2, Elsewhere DEF SyncMessage

-------------------------------------------------------------------------------
(* The invariant holds at the start and every step keeps it.               *)

(* The inductive invariant holds before any click.                         *)
LEMMA InitEstablishes == Init => IInv
<1> SUFFICES ASSUME Init PROVE IInv
  OBVIOUS
<1>1. TypeOK
  <2>1. \A a \in Actions : AbsentRow(a) \in Rows
    BY DEF AbsentRow, Rows, Codes, LabelVerbs, ActionReaches, NoPlacement, Placements
  <2>2. row \in [Jobs -> Rows]
    BY <2>1 DEF Init, Jobs
  <2>3. gmail \in Stores /\ mirror \in Stores
    BY DEF Init, Stores, Labels
  <2>4. journal \in [Actions -> Entries] /\ preview \in [Actions -> Previews]
    BY DEF Init, NoEntry, Entries, NoPreview, Previews
  <2>5. api \in [Jobs -> Requests] /\ queue \in [Jobs -> QueueJobs]
    BY DEF Init, NoRequest, Requests, NoQueueJob, QueueJobs
  <2>6. wk \in [Workers -> WorkerStates]
    BY DEF Init, IdleWorker, WorkerStates, Points
  <2> QED
    BY <2>2, <2>3, <2>4, <2>5, <2>6 DEF Init, TypeOK
<1>2. \A w \in Workers : WorkerInv(w)
  BY DEF Init, WorkerInv, IdleWorker, Critical, ForwardPoints, ReversePoints
<1>3. \A j \in Jobs : row[j].status = "absent" /\ row[j].err = "none"
  BY DEF Init, AbsentRow
<1>4. ASSUME NEW a \in Actions PROVE ActionInv(a)
  <2>1. Untouched(a) /\ ledger[a] = 0 /\ journal[a] = NoEntry
    BY DEF Init, Untouched
  <2>2. Fwd(a) \in Jobs /\ Rev(a) \in Jobs
    BY DEF Fwd, Rev, Jobs
  <2> QED
    BY <1>3, <2>1, <2>2 DEF ActionInv
<1>5. \A j \in Jobs : DeliveryInv(j)
  BY DEF Init, DeliveryInv, NoRequest, NoQueueJob
<1> QED
  BY <1>1, <1>2, <1>4, <1>5 DEF IInv

(* Every step of every actor preserves the inductive invariant.            *)
LEMMA NextPreserves == IInv /\ [Next]_vars => IInv'
<1> SUFFICES ASSUME IInv, [Next]_vars PROVE IInv'
  OBVIOUS
<1>1. ASSUME NEW w \in Workers, WorkerStep(w) PROVE IInv'
  BY <1>1, AcquireLockKeeps, SkipSettledKeeps, StartForwardKeeps, StartReverseKeeps,
     CheckProtectedKeeps, ResolveIdsKeeps, CommitEmptyKeeps, GetClientKeeps,
     MarkExecutingKeeps, AssertNotProtectedKeeps, RequestLandsKeeps, ResetRefusedKeeps,
     ScheduleReturnKeeps, CommitKeeps, ReverseLandsKeeps, CommitReverseKeeps,
     RecordFailureKeeps, SettleKeeps DEF WorkerStep
<1>2. ASSUME NEW w \in Workers, WorkerFault(w) PROVE IInv'
  BY <1>2, LockTimesOutKeeps, RecordFailureLostKeeps, CrashKeeps, RequestRefusedKeeps,
     RequestUncertainKeeps, CommitUnacknowledgedKeeps, DatabaseFailsKeeps,
     ReverseFailsKeeps DEF WorkerFault
<1>3. ASSUME NEW j \in Jobs, ApiStep(j) \/ Stall(j) PROVE IInv'
  BY <1>3, QueueAddKeeps, EnqueueFailedKeeps, QueueAddThrowsKeeps, ApiCrashKeeps,
     StallKeeps DEF ApiStep
<1>4. CASE UserStep
  BY <1>4, ClickKeeps, UndoKeeps, ResetRevertKeeps, ReviewKeeps, ReplayConfirmKeeps,
     ConfirmReviewKeeps, SetProtectedKeeps, MoveMailKeeps, SyncMessageKeeps DEF UserStep
<1>5. CASE UNCHANGED vars
  <2>1. TypeOK'
    BY <1>5 DEF IInv, TypeOK, vars
  <2> QED
    BY <1>5, <2>1, Elsewhere DEF vars
<1> QED
  BY <1>1, <1>2, <1>3, <1>4, <1>5, TakeKeeps DEF Next

(* The inductive invariant holds always.                                   *)
LEMMA Invariance == Spec => []IInv
  BY InitEstablishes, NextPreserves, PTL DEF Spec

(* Every reachable state of the model is well typed: no status, error      *)
(* code, program point or counter outside the ones the code has.           *)
THEOREM TypeCorrect == Spec => []TypeOK
<1>1. IInv => TypeOK
  BY DEF IInv
<1> QED
  BY <1>1, Invariance, PTL

(* neverReachedGmail is right: a row that reads queued, or failed with     *)
(* ENQUEUE_FAILED, changed no message, whatever faults, redeliveries and   *)
(* writes outside the lock came before.                                    *)
THEOREM QueuedIsUntouched == Spec => []QueuedNeverReachedGmail
<1>1. IInv => QueuedNeverReachedGmail
  BY DEF IInv, ActionInv, QueuedNeverReachedGmail, Untouched
<1> QED
  BY <1>1, Invariance, PTL

(* recordProtected is right: a row reported as a Protected skip changed no *)
(* message and left no trace in Activity, in the outbox or in Undo.        *)
THEOREM SkipTellsTheTruth == Spec => []SkipIsTrue
<1>1. IInv => SkipIsTrue
  BY DEF IInv, ActionInv, SkipIsTrue, Untouched
<1> QED
  BY <1>1, Invariance, PTL

(* At most one Activity row and one outbox event per action, for any       *)
(* number of retries, stalls and late deliveries.                          *)
THEOREM AtMostOneRecord == Spec => []RecordedOnce
<1>1. IInv => RecordedOnce
  BY DEF IInv, ActionInv, RecordedOnce
<1> QED
  BY <1>1, Invariance, PTL

(* No request of any worker changes the mail of a Protected sender without *)
(* the user's confirm, unless it had passed its check before the sender    *)
(* was protected.                                                          *)
THEOREM ProtectionHolds == Spec => ProtectedMailStays
<1>1. IInv => \A w \in Workers : wk[w].pc = "send" /\ policy.protected
                                   => wk[w].conf \/ w \in racing
  BY DEF IInv, WorkerInv
<1>2. IInv /\ [Next]_vars =>
        [\A w \in Workers :
           (gmail' # gmail /\ wk[w].pc = "send" /\ wk'[w] # wk[w] /\ policy.protected)
             => wk[w].conf \/ w \in racing]_vars
  BY <1>1
<1> QED
  BY <1>2, Invariance, PTL DEF Spec, ProtectedMailStays

-------------------------------------------------------------------------------
(* Undo covers what was changed: a second invariant.                       *)

(* Past the point at which the execution set is saved.                     *)
Resolved == {"client", "hook", "send", "refused", "timer", "commit"}

(* What is left to send is part of the set the row saved, and the row of a *)
(* running attempt is not done.                                            *)
SetInv(w) ==
  /\ wk[w].pc \in Resolved => wk[w].todo \subseteq Row(w).ids /\ Row(w).ids # {}
  /\ wk[w].pc = "empty" => Row(w).ids = {}
  /\ wk[w].pc \in ForwardPoints => Row(w).status # "done"

CoveredInv(a) ==
  /\ applied[a] \subseteq row[Fwd(a)].ids
  /\ row[Fwd(a)].status = "done" /\ applied[a] # {} => journal[a].state # "none"

UndoInv ==
  /\ \A w \in Workers : SetInv(w)
  /\ \A a \in Actions : CoveredInv(a)

-------------------------------------------------------------------------------
(* One attempt of a decision succeeds: a third invariant.                  *)

(* An attempt that failed, and was not disowned, is over: nothing runs on  *)
(* it, and nothing will.                                                   *)
OverInv(a) ==
  row[Fwd(a)].status = "failed" /\ a \notin disowned =>
    /\ \A w \in Workers : wk[w].pc \in ForwardPoints => wk[w].job # Fwd(a)
    /\ row[Fwd(a)].err = "ENQUEUE_FAILED" =>
         queue[Fwd(a)].state = "none" /\ api[Fwd(a)].at = "idle"

(* A forward job that a worker holds is in the queue.                      *)
HeldInv(w) ==
  wk[w].pc # "idle" /\ Forward(wk[w].job) => queue[wk[w].job].state # "none"

(* An action with a journal entry is done, unless a failure was written    *)
(* over it.                                                                *)
EntryInv(a) ==
  journal[a] # NoEntry => row[Fwd(a)].status = "done" \/ a \in disowned

Exists(a) == row[Fwd(a)].status # "absent"

Akin(a, b) == Exists(a) /\ Exists(b) /\ row[Fwd(a)].root = row[Fwd(b)].root

(* The attempts of a lineage are numbered as they were made, and all but   *)
(* the latest have failed.                                                 *)
LineageInv(a) ==
  Exists(a) =>
    /\ Exists(row[Fwd(a)].root)
    /\ row[Fwd(a)].attempt < Cardinality(Lineage(row[Fwd(a)].root))
    /\ \A b \in Actions \ {a} : Akin(a, b) =>
         /\ row[Fwd(a)].attempt # row[Fwd(b)].attempt
         /\ row[Fwd(a)].attempt < row[Fwd(b)].attempt =>
              row[Fwd(a)].status = "failed" \/ a \in disowned

(* An open review is of the latest attempt of its lineage.                 *)
ReviewInv(root) ==
  preview[root].state \in {"verifying", "ready"} =>
    LET c == preview[root].current
    IN /\ Exists(c) /\ row[Fwd(c)].root = root
       /\ \A b \in Actions : Akin(c, b) => row[Fwd(b)].attempt <= row[Fwd(c)].attempt

AttemptsInv ==
  /\ \A w \in Workers : HeldInv(w)
  /\ \A a \in Actions : OverInv(a) /\ EntryInv(a) /\ LineageInv(a) /\ ReviewInv(a)

-------------------------------------------------------------------------------
(* Calm steps: the ones that write no forward row.                         *)

(* What a calm step may do to a worker: take it out of the forward path,   *)
(* let it in through the load of a row that is not settled, or move it on  *)
(* with no more left to send than before.                                  *)
CalmWorker(w) ==
  \/ /\ wk'[w].pc \notin ForwardPoints
     /\ \/ wk'[w].pc = "idle"
        \/ wk[w].pc # "idle" /\ wk'[w].job = wk[w].job
        \/ queue'[wk'[w].job].state # "none"
  \/ /\ wk[w].pc = "load" /\ wk'[w].pc = "check" /\ wk'[w].job = wk[w].job
     /\ ~Settled(wk[w].job) /\ Forward(wk[w].job)
  \/ /\ wk[w].pc \in ForwardPoints /\ wk'[w].job = wk[w].job
     /\ wk'[w].pc \in Resolved => wk[w].pc \in Resolved /\ wk'[w].todo \subseteq wk[w].todo
     /\ wk'[w].pc = "empty" => wk[w].pc = "empty"

(* ... and to an action: send more of its set, and hand its row over.      *)
CalmAction(a) ==
  /\ row'[Fwd(a)] = row[Fwd(a)]
  /\ journal'[a] = journal[a] \/ (journal[a].state # "none" /\ journal'[a].state # "none")
  /\ \/ applied'[a] = applied[a]
     \/ \E w \in Workers : /\ wk[w].pc = "send" /\ wk[w].job = Fwd(a)
                           /\ applied'[a] \subseteq applied[a] \cup wk[w].todo
  /\ queue[Fwd(a)].state # "none" => queue'[Fwd(a)].state # "none"
  /\ row[Fwd(a)].status = "failed" /\ queue[Fwd(a)].state = "none" /\ api[Fwd(a)].at = "idle"
       => queue'[Fwd(a)].state = "none" /\ api'[Fwd(a)].at = "idle"

Calm ==
  /\ \A w \in Workers : CalmWorker(w)
  /\ \A a \in Actions : CalmAction(a)
  /\ UNCHANGED <<preview, disowned>>

(* The job of a worker in the forward path is some action's forward row.   *)
LEMMA ForwardJob ==
  ASSUME IInv, NEW w \in Workers, wk[w].pc # "idle", Forward(wk[w].job)
  PROVE  \E a \in Actions : wk[w].job = Fwd(a)
<1>1. wk[w].job \in Jobs
  BY DEF IInv, WorkerInv
<1> QED
  BY <1>1 DEF Jobs, Forward, Fwd

(* A calm step leaves Undo as wide as it was.                              *)
LEMMA CalmUndo ==
  ASSUME IInv, UndoInv, Calm
  PROVE  UndoInv'
<1>1. ASSUME NEW w \in Workers PROVE SetInv(w)'
  <2>1. CASE wk'[w].pc \notin ForwardPoints
    BY <2>1 DEF SetInv, Resolved, ForwardPoints
  <2>2. CASE wk'[w].pc \in ForwardPoints
    <3>1. /\ wk[w].pc # "idle" /\ Forward(wk[w].job) /\ wk'[w].job = wk[w].job
          /\ wk[w].pc \notin ForwardPoints => ~Settled(wk[w].job)
          /\ wk'[w].pc \in Resolved => wk[w].pc \in Resolved /\ wk'[w].todo \subseteq wk[w].todo
          /\ wk'[w].pc = "empty" => wk[w].pc = "empty"
      BY <2>2 DEF Calm, CalmWorker, IInv, WorkerInv, ForwardPoints, Resolved
    <3>2. PICK a \in Actions : wk[w].job = Fwd(a)
      BY <3>1, ForwardJob
    <3>3. Row(w)' = row[Fwd(a)] /\ Row(w) = row[Fwd(a)]
      BY <3>1, <3>2 DEF Row, Job, Calm, CalmAction
    <3>4. SetInv(w) /\ (wk[w].pc \notin ForwardPoints => row[Fwd(a)].status # "done")
      BY <3>1, <3>2 DEF UndoInv, Settled
    <3> QED
      BY <3>1, <3>3, <3>4 DEF SetInv
  <2> QED
    BY <2>1, <2>2
<1>2. ASSUME NEW a \in Actions PROVE CoveredInv(a)'
  <2>1. CoveredInv(a) /\ CalmAction(a)
    BY DEF UndoInv, Calm
  <2>2. CASE applied'[a] = applied[a]
    BY <2>1, <2>2 DEF CoveredInv, CalmAction
  <2>3. ASSUME NEW w \in Workers, wk[w].pc = "send", wk[w].job = Fwd(a),
               applied'[a] \subseteq applied[a] \cup wk[w].todo
        PROVE  CoveredInv(a)'
    <3>1. wk[w].todo \subseteq row[Fwd(a)].ids /\ row[Fwd(a)].status # "done"
      BY <2>3 DEF UndoInv, SetInv, Resolved, ForwardPoints, Row, Job
    <3> QED
      BY <2>1, <2>3, <3>1 DEF CoveredInv, CalmAction
  <2> QED
    BY <2>1, <2>2, <2>3 DEF CalmAction
<1> QED
  BY <1>1, <1>2 DEF UndoInv

(* A lineage is what it was while no forward row changes its place in one. *)
LEMMA SameLineages ==
  ASSUME \A a \in Actions : (row'[Fwd(a)].status = "absent") <=> (row[Fwd(a)].status = "absent"),
         \A a \in Actions : row'[Fwd(a)].root = row[Fwd(a)].root
  PROVE  \A root : Lineage(root)' = Lineage(root)
  BY DEF Lineage

(* The order of a lineage survives every step that keeps the place of its  *)
(* attempts, and brings none back that has failed.                         *)
LEMMA LineageStands ==
  ASSUME IInv, AttemptsInv, UNCHANGED preview, disowned \subseteq disowned',
         \A a \in Actions :
           /\ (row'[Fwd(a)].status = "absent") <=> (row[Fwd(a)].status = "absent")
           /\ row'[Fwd(a)].root = row[Fwd(a)].root
           /\ row'[Fwd(a)].attempt = row[Fwd(a)].attempt
           /\ row[Fwd(a)].status = "failed" => row'[Fwd(a)].status = "failed" \/ a \in disowned'
  PROVE  \A a \in Actions : LineageInv(a)' /\ ReviewInv(a)'
<1>1. \A root : Lineage(root)' = Lineage(root)
  BY SameLineages
<1>2. \A a, b \in Actions : /\ Exists(a)' <=> Exists(a)
                            /\ Akin(a, b)' <=> Akin(a, b)
  BY DEF Exists, Akin
<1>3. \A a \in Actions : row[Fwd(a)].root \in Actions /\ preview[a].current \in Actions
  BY DEF IInv, TypeOK, Fwd, Jobs, Rows, Previews
<1>4. ASSUME NEW a \in Actions PROVE LineageInv(a)'
  <2>1. LineageInv(a)
    BY DEF AttemptsInv
  <2>2. ASSUME Exists(a)'
        PROVE  /\ Exists(row[Fwd(a)].root)'
               /\ row'[Fwd(a)].attempt < Cardinality(Lineage(row[Fwd(a)].root)')
    BY <1>1, <1>2, <1>3, <2>1, <2>2 DEF LineageInv
  <2>3. ASSUME NEW b \in Actions \ {a}, Akin(a, b)'
        PROVE  /\ row'[Fwd(a)].attempt # row'[Fwd(b)].attempt
               /\ row'[Fwd(a)].attempt < row'[Fwd(b)].attempt =>
                    row'[Fwd(a)].status = "failed" \/ a \in disowned'
    <3>1. Akin(a, b) /\ Exists(a)
      BY <1>2, <2>3 DEF Akin
    <3> QED
      BY <2>1, <3>1 DEF LineageInv
  <2> QED
    BY <1>1, <2>2, <2>3 DEF LineageInv
<1>5. ASSUME NEW a \in Actions PROVE ReviewInv(a)'
  <2>1. ReviewInv(a)
    BY DEF AttemptsInv
  <2> QED
    BY <1>2, <1>3, <2>1 DEF ReviewInv
<1> QED
  BY <1>4, <1>5

(* A calm step leaves the attempts in their order, and what is over, over. *)
LEMMA CalmAttempts ==
  ASSUME IInv, AttemptsInv, Calm
  PROVE  AttemptsInv'
<1>1. ASSUME NEW w \in Workers PROVE HeldInv(w)'
  <2>1. HeldInv(w) /\ CalmWorker(w)
    BY DEF AttemptsInv, Calm
  <2>2. CASE wk'[w].pc = "idle" \/ queue'[wk'[w].job].state # "none"
    BY <2>2 DEF HeldInv
  <2>3. CASE wk[w].pc # "idle" /\ wk'[w].job = wk[w].job /\ Forward(wk[w].job)
    <3>1. PICK a \in Actions : wk[w].job = Fwd(a)
      BY <2>3, ForwardJob
    <3> QED
      BY <2>1, <2>3, <3>1 DEF HeldInv, Calm, CalmAction
  <2> QED
    BY <2>1, <2>2, <2>3 DEF CalmWorker, HeldInv, ForwardPoints
<1>2. ASSUME NEW a \in Actions PROVE OverInv(a)' /\ EntryInv(a)'
  <2>1. OverInv(a) /\ EntryInv(a) /\ CalmAction(a)
    BY DEF AttemptsInv, Calm
  <2>2. EntryInv(a)'
    BY <2>1 DEF EntryInv, CalmAction, Calm, NoEntry
  <2>3. ASSUME row[Fwd(a)].status = "failed", a \notin disowned,
               NEW w \in Workers, wk'[w].pc \in ForwardPoints, wk'[w].job = Fwd(a)
        PROVE  FALSE
    <3>1. CalmWorker(w) /\ HeldInv(w)
      BY DEF Calm, AttemptsInv
    <3>2. CASE wk[w].pc \in ForwardPoints /\ wk'[w].job = wk[w].job
      BY <2>1, <2>3, <3>2 DEF OverInv
    <3>3. CASE wk[w].pc = "load" /\ wk'[w].job = wk[w].job /\ ~Settled(wk[w].job)
               /\ Forward(wk[w].job)
      <4>1. row[Fwd(a)].err = "ENQUEUE_FAILED"
        BY <2>3, <3>3 DEF Settled
      <4> QED
        BY <2>1, <2>3, <3>1, <3>3, <4>1 DEF OverInv, HeldInv
    <3> QED
      BY <2>3, <3>1, <3>2, <3>3 DEF CalmWorker
  <2> QED
    BY <2>1, <2>2, <2>3 DEF OverInv, CalmAction, Calm
<1>3. \A a \in Actions : LineageInv(a)' /\ ReviewInv(a)'
  BY LineageStands DEF Calm, CalmAction
<1> QED
  BY <1>1, <1>2, <1>3 DEF AttemptsInv

-------------------------------------------------------------------------------
(* The holder's own row, and nothing else.                                 *)

LEMMA HolderWrites ==
  ASSUME IInv, UndoInv, AttemptsInv,
         NEW w \in Workers, NEW a \in Actions,
         wk[w].pc \in ForwardPoints, wk[w].job = Fwd(a),
         OnlyWorker(w), wk'[w].job = wk[w].job, OnlyRow(Fwd(a)),
         row'[Fwd(a)].status # "absent",
         row'[Fwd(a)].root = row[Fwd(a)].root, row'[Fwd(a)].attempt = row[Fwd(a)].attempt,
         UNCHANGED <<queue, api, preview, disowned, applied>>,
         \A b \in Actions \ {a} : journal'[b] = journal[b],
         SetInv(w)', CoveredInv(a)', EntryInv(a)',
         row'[Fwd(a)].status = "failed" => a \in disowned \/
            (wk'[w].pc \notin ForwardPoints /\ row'[Fwd(a)].err # "ENQUEUE_FAILED")
  PROVE  UndoInv' /\ AttemptsInv'
<1>1. /\ Fwd(a) \in Jobs /\ row[Fwd(a)].status # "absent"
      /\ \A b \in Actions \ {a} : Fwd(b) \in Jobs /\ Fwd(b) # Fwd(a)
                                  /\ row'[Fwd(b)] = row[Fwd(b)]
  <2>1. row[Fwd(a)].status # "absent"
    BY DEF IInv, WorkerInv, ForwardPoints, Row, Job
  <2>2. Fwd(a) \in Jobs /\ \A b \in Actions \ {a} : Fwd(b) \in Jobs /\ Fwd(b) # Fwd(a)
    BY DEF Fwd, Jobs
  <2> QED
    BY <2>1, <2>2 DEF OnlyRow
<1>2. ASSUME NEW u \in Workers \ {w}
      PROVE  wk'[u] = wk[u] /\ wk[u].pc \notin ForwardPoints
  <2>1. wk[w].pc \in Critical /\ ForwardPoints \subseteq Critical
    BY DEF ForwardPoints, Critical
  <2>2. wk[u].pc \notin Critical
    BY <2>1, MutualExclusion
  <2> QED
    BY <2>1, <2>2 DEF OnlyWorker
<1>3. row[Fwd(a)].status = "failed" => a \in disowned
  BY DEF AttemptsInv, OverInv
<1>4. UndoInv'
  <2>1. ASSUME NEW u \in Workers \ {w} PROVE SetInv(u)'
    BY <1>2 DEF SetInv, Resolved, ForwardPoints
  <2>2. ASSUME NEW b \in Actions \ {a} PROVE CoveredInv(b)'
    BY <1>1 DEF UndoInv, CoveredInv
  <2> QED
    BY <2>1, <2>2 DEF UndoInv
<1>5. ASSUME NEW u \in Workers PROVE HeldInv(u)'
  <2>1. HeldInv(u) /\ wk'[u].job = wk[u].job /\ (wk'[u].pc # "idle" => wk[u].pc # "idle")
    BY <1>2 DEF AttemptsInv, ForwardPoints
  <2> QED
    BY <2>1 DEF HeldInv
<1>6. ASSUME NEW b \in Actions \ {a} PROVE OverInv(b)' /\ EntryInv(b)'
  <2>1. OverInv(b) /\ EntryInv(b)
    BY DEF AttemptsInv
  <2>2. EntryInv(b)'
    BY <1>1, <2>1 DEF EntryInv, NoEntry
  <2>3. \A u \in Workers : wk'[u].job # Fwd(b) \/ wk'[u].pc \notin ForwardPoints
    BY <1>1, <1>2
  <2> QED
    BY <1>1, <2>1, <2>2, <2>3 DEF OverInv
<1>7. OverInv(a)'
  <2>1. ASSUME row'[Fwd(a)].status = "failed", a \notin disowned,
               NEW u \in Workers, wk'[u].pc \in ForwardPoints
        PROVE  FALSE
    BY <1>2, <2>1
  <2> QED
    BY <2>1 DEF OverInv
<1>8. \A b \in Actions : LineageInv(b)' /\ ReviewInv(b)'
  <2>1. \A b \in Actions :
           /\ (row'[Fwd(b)].status = "absent") <=> (row[Fwd(b)].status = "absent")
           /\ row'[Fwd(b)].root = row[Fwd(b)].root
           /\ row'[Fwd(b)].attempt = row[Fwd(b)].attempt
           /\ row[Fwd(b)].status = "failed" => row'[Fwd(b)].status = "failed" \/ b \in disowned'
    BY <1>1, <1>3
  <2> QED
    BY <2>1, LineageStands
<1> QED
  BY <1>4, <1>5, <1>6, <1>7, <1>8 DEF AttemptsInv

-------------------------------------------------------------------------------
(* Which steps are calm.                                                   *)

LEMMA CalmRecords ==
  ASSUME UNCHANGED <<row, journal, applied, api, queue>>
  PROVE  \A a \in Actions : CalmAction(a)
  BY DEF CalmAction

LEMMA OthersCalm ==
  ASSUME NEW w \in Workers, OnlyWorker(w), CalmWorker(w)
  PROVE  \A u \in Workers : CalmWorker(u)
<1>1. ASSUME NEW u \in Workers \ {w} PROVE CalmWorker(u)
  BY DEF OnlyWorker, CalmWorker
<1> QED
  BY <1>1

(* A worker that leaves, and writes nothing.                               *)
LEMMA LeavingCalm ==
  ASSUME NEW w \in Workers, wk[w].pc # "idle", Leaves(w),
         UNCHANGED <<row, journal, applied, api, queue, preview, disowned>>
  PROVE  Calm
<1>1. CalmWorker(w) /\ OnlyWorker(w)
  BY DEF Leaves, KeepsJob, CalmWorker, ForwardPoints
<1> QED
  BY <1>1, OthersCalm, CalmRecords DEF Calm

(* A worker's program counter alone moves.                                 *)
LEMMA GotoCalm ==
  ASSUME IInv, NEW w \in Workers, wk[w].pc # "idle", NEW pc \in Points, Goto(w, pc),
         pc \in ForwardPoints => wk[w].pc \in ForwardPoints,
         pc \in Resolved => wk[w].pc \in Resolved, pc # "empty",
         UNCHANGED <<row, journal, applied, api, queue, preview, disowned>>
  PROVE  Calm
<1>1. wk[w] \in WorkerStates /\ wk' = [wk EXCEPT ![w] = [wk[w] EXCEPT !.pc = pc]]
  BY DEF IInv, TypeOK, Goto
<1>2. wk'[w].pc = pc /\ wk'[w].job = wk[w].job /\ wk'[w].todo = wk[w].todo
  BY <1>1 DEF WorkerStates, IInv, TypeOK
<1>3. OnlyWorker(w)
  BY GotoEffect DEF IInv
<1>4. CalmWorker(w)
  BY <1>2 DEF CalmWorker
<1> QED
  BY <1>3, <1>4, OthersCalm, CalmRecords DEF Calm

LEMMA TakeCalm ==
  ASSUME IInv, NEW w \in Workers, NEW j \in Jobs, Take(w, j)
  PROVE  Calm
<1> DEFINE r == [pc |-> "lock", job |-> j, try |-> queue[j].made + 1,
                 conf |-> queue[j].conf, clean |-> FALSE, landed |-> FALSE,
                 todo |-> {}, err |-> "none"]
           q == [queue[j] EXCEPT !.state = "active", !.owner = w]
<1>1. queue \in [Jobs -> QueueJobs] /\ queue[j] \in QueueJobs
  BY DEF IInv, TypeOK
<1>2. r \in WorkerStates /\ wk' = [wk EXCEPT ![w] = r]
  BY <1>1 DEF Take, WorkerStates, Points, QueueJobs
<1>3. OnlyWorker(w) /\ wk'[w] = r
  BY <1>2 DEF IInv, TypeOK, OnlyWorker
<1>4. q.state = "active" /\ queue' = [queue EXCEPT ![j] = q]
  BY <1>1 DEF Take, QueueJobs
<1>5. CalmWorker(w)
  BY <1>1, <1>3, <1>4 DEF CalmWorker, ForwardPoints
<1>6. ASSUME NEW a \in Actions PROVE CalmAction(a)
  <2>1. Fwd(a) \in Jobs
    BY DEF Fwd, Jobs
  <2> QED
    BY <1>1, <1>4, <2>1 DEF Take, CalmAction
<1> QED
  BY <1>3, <1>5, <1>6, OthersCalm DEF Calm, Take

LEMMA AcquireLockCalm ==
  ASSUME IInv, NEW w \in Workers, AcquireLock(w)
  PROVE  Calm
  BY GotoCalm DEF AcquireLock, Points, Critical, ForwardPoints, Resolved

LEMMA LockTimesOutCalm ==
  ASSUME IInv, NEW w \in Workers, LockTimesOut(w)
  PROVE  Calm
<1>1. Leaves(w)
  BY ThrowEffect DEF IInv, LockTimesOut, Errors
<1> QED
  BY <1>1, LeavingCalm DEF LockTimesOut

LEMMA RecordFailureLostCalm ==
  ASSUME IInv, NEW w \in Workers, RecordFailureLost(w)
  PROVE  Calm
  BY GotoCalm DEF RecordFailureLost, Points, Critical, ForwardPoints, Resolved

(* What BullMQ and the reset of an Undo do to one job: a forward job that  *)
(* is there stays there.                                                   *)
LEMMA QueueCalm ==
  ASSUME IInv, NEW j \in Jobs, NEW q,
         Forward(j) => queue[j].state # "none" /\ q.state # "none",
         queue' = queue \/ queue' = [queue EXCEPT ![j] = q],
         NEW a \in Actions
  PROVE  /\ queue[Fwd(a)].state # "none" => queue'[Fwd(a)].state # "none"
         /\ queue[Fwd(a)].state = "none" => queue'[Fwd(a)].state = "none"
<1>1. Fwd(a) \in Jobs /\ queue \in [Jobs -> QueueJobs] /\ Forward(Fwd(a))
  BY DEF Fwd, Jobs, Forward, IInv, TypeOK
<1> QED
  BY <1>1

LEMMA SettleCalm ==
  ASSUME IInv, AttemptsInv, NEW w \in Workers, Settle(w)
  PROVE  Calm
<1> DEFINE j == wk[w].job
           s == CASE wk[w].err = "none" -> "completed"
                  [] wk[w].err # "none" /\ Terminal(wk[w].err, wk[w].try) -> "failed"
                  [] OTHER -> "waiting"
           n == IF wk[w].err = "none" THEN queue[j].made ELSE queue[j].made + 1
           q == [queue[j] EXCEPT !.owner = None, !.made = n, !.state = s]
<1>1. j \in Jobs /\ queue \in [Jobs -> QueueJobs] /\ queue[j] \in QueueJobs
  BY DEF IInv, TypeOK, WorkerInv, Settle
<1>2. s # "none"
  BY SMTT(30)
<1>3. queue' = queue \/ queue' = [queue EXCEPT ![j] = q]
  BY <1>1 DEF Settle, Job, QueueJobs
<1> HIDE DEF s, n
<1>4. q.state # "none"
  BY <1>1, <1>2 DEF QueueJobs
<1> HIDE DEF q
<1>5. ASSUME NEW a \in Actions PROVE CalmAction(a)
  <2>1. Forward(j) => queue[j].state # "none"
    BY DEF AttemptsInv, HeldInv, Settle
  <2>2. /\ queue[Fwd(a)].state # "none" => queue'[Fwd(a)].state # "none"
        /\ queue[Fwd(a)].state = "none" => queue'[Fwd(a)].state = "none"
    BY <1>1, <1>3, <1>4, <2>1, QueueCalm
  <2> QED
    BY <2>2 DEF Settle, CalmAction
<1>6. OnlyWorker(w) /\ CalmWorker(w)
  <2>1. IdleWorker \in WorkerStates
    BY DEF IdleWorker, WorkerStates, Points
  <2>2. OnlyWorker(w) /\ wk'[w] = IdleWorker
    BY <2>1 DEF Settle, IInv, TypeOK, OnlyWorker
  <2> QED
    BY <2>2 DEF IdleWorker, CalmWorker, ForwardPoints
<1> QED
  BY <1>5, <1>6, OthersCalm DEF Calm, Settle

LEMMA CrashCalm ==
  ASSUME IInv, AttemptsInv, NEW w \in Workers, Crash(w)
  PROVE  Calm
<1> DEFINE j == wk[w].job
           q == [queue[j] EXCEPT !.owner = None]
<1>1. /\ j \in Jobs /\ queue \in [Jobs -> QueueJobs] /\ queue[j] \in QueueJobs
      /\ Forward(j) => queue[j].state # "none"
  BY DEF IInv, TypeOK, WorkerInv, Crash, AttemptsInv, HeldInv
<1>2. /\ queue' = queue \/ queue' = [queue EXCEPT ![j] = q]
      /\ q.state = queue[j].state
  BY <1>1 DEF Crash, Job, QueueJobs
<1> HIDE DEF q
<1>3. ASSUME NEW a \in Actions PROVE CalmAction(a)
  <2>1. /\ queue[Fwd(a)].state # "none" => queue'[Fwd(a)].state # "none"
        /\ queue[Fwd(a)].state = "none" => queue'[Fwd(a)].state = "none"
    BY <1>1, <1>2, QueueCalm
  <2> QED
    BY <2>1 DEF Crash, CalmAction
<1>4. OnlyWorker(w) /\ CalmWorker(w)
  <2>1. IdleWorker \in WorkerStates
    BY DEF IdleWorker, WorkerStates, Points
  <2>2. OnlyWorker(w) /\ wk'[w] = IdleWorker
    BY <2>1 DEF Crash, IInv, TypeOK, OnlyWorker
  <2> QED
    BY <2>2 DEF IdleWorker, CalmWorker, ForwardPoints
<1> QED
  BY <1>3, <1>4, OthersCalm DEF Calm, Crash

(* Nothing moves in the workers.                                           *)
LEMMA StillWorkers ==
  ASSUME UNCHANGED wk
  PROVE  \A w \in Workers : CalmWorker(w)
  BY DEF CalmWorker

LEMMA StallCalm ==
  ASSUME IInv, NEW j \in Jobs, Stall(j)
  PROVE  Calm
<1> DEFINE s == IF queue[j].stalls < MaxStalls THEN "waiting" ELSE "failed"
           n == IF queue[j].stalls < MaxStalls THEN queue[j].stalls + 1 ELSE queue[j].stalls
           q == [queue[j] EXCEPT !.owner = None, !.state = s, !.stalls = n]
<1>1. queue \in [Jobs -> QueueJobs] /\ queue[j] \in QueueJobs /\ queue[j].state # "none"
  BY DEF IInv, TypeOK, Stall
<1>2. queue' = [queue EXCEPT ![j] = q]
  BY <1>1 DEF Stall, QueueJobs
<1>3. s # "none"
  OBVIOUS
<1> HIDE DEF s, n
<1>4. q.state # "none"
  BY <1>1, <1>3 DEF QueueJobs
<1> HIDE DEF q
<1>5. ASSUME NEW a \in Actions PROVE CalmAction(a)
  <2>1. /\ queue[Fwd(a)].state # "none" => queue'[Fwd(a)].state # "none"
        /\ queue[Fwd(a)].state = "none" => queue'[Fwd(a)].state = "none"
    BY <1>1, <1>2, <1>4, QueueCalm
  <2> QED
    BY <2>1 DEF Stall, CalmAction
<1> QED
  BY <1>5, StillWorkers DEF Calm, Stall

LEMMA SkipSettledCalm ==
  ASSUME IInv, NEW w \in Workers, SkipSettled(w)
  PROVE  Calm
<1>1. Leaves(w)
  BY ReturnEffect DEF IInv, SkipSettled
<1> QED
  BY <1>1, LeavingCalm DEF SkipSettled

(* The load of a row that is not settled lets the worker in.               *)
LEMMA StartForwardCalm ==
  ASSUME IInv, NEW w \in Workers, StartForward(w)
  PROVE  Calm
<1> DEFINE c == NeverReachedGmail(Row(w))
           r == [wk[w] EXCEPT !.pc = "check", !.clean = c]
<1>1. wk[w] \in WorkerStates /\ wk' = [wk EXCEPT ![w] = r]
  BY DEF IInv, TypeOK, StartForward
<1>2. c \in BOOLEAN
  BY DEF NeverReachedGmail
<1> HIDE DEF c
<1>3. r \in WorkerStates /\ r.pc = "check" /\ r.job = wk[w].job
  BY <1>1, <1>2 DEF WorkerStates, Points, Critical
<1> HIDE DEF r
<1>4. OnlyWorker(w) /\ wk'[w] = r
  BY <1>1, <1>3 DEF IInv, TypeOK, OnlyWorker
<1>5. CalmWorker(w)
  BY <1>3, <1>4 DEF StartForward, CalmWorker, Job
<1> QED
  BY <1>4, <1>5, OthersCalm, CalmRecords DEF Calm, StartForward

LEMMA GetClientCalm ==
  ASSUME IInv, NEW w \in Workers, GetClient(w)
  PROVE  Calm
<1>1. CASE Goto(w, "hook")
  BY <1>1, GotoCalm DEF GetClient, Points, Critical, ForwardPoints, Resolved
<1>2. CASE \E e \in Errors \ {"ValidationError"} : Throw(w, e)
  <2>1. Leaves(w)
    BY <1>2, ThrowEffect DEF IInv
  <2> QED
    BY <2>1, LeavingCalm DEF GetClient
<1> QED
  BY <1>1, <1>2 DEF GetClient

LEMMA RequestRefusedCalm ==
  ASSUME IInv, NEW w \in Workers, RequestRefused(w)
  PROVE  Calm
<1>1. PICK e \in {"RateLimitError", "InvalidGrantError", "PermanentError"} :
        wk' = [wk EXCEPT ![w] = [wk[w] EXCEPT !.pc = "refused", !.err = e]]
  BY DEF RequestRefused
<1> DEFINE r == [wk[w] EXCEPT !.pc = "refused", !.err = e]
<1>2. wk[w] \in WorkerStates /\ r \in WorkerStates
  <2>1. wk[w] \in WorkerStates /\ "refused" \in Points /\ e \in Errors
    BY DEF IInv, TypeOK, Points, Critical, Errors
  <2> QED
    BY <2>1 DEF WorkerStates
<1>3. r.pc = "refused" /\ r.job = wk[w].job /\ r.todo = wk[w].todo
  BY <1>2 DEF WorkerStates
<1> HIDE DEF r
<1>4. OnlyWorker(w) /\ wk'[w] = r
  BY <1>1, <1>2 DEF IInv, TypeOK, OnlyWorker, r
<1>5. CalmWorker(w)
  BY <1>3, <1>4 DEF RequestRefused, CalmWorker, ForwardPoints, Resolved
<1> QED
  BY <1>4, <1>5, OthersCalm, CalmRecords DEF Calm, RequestRefused

LEMMA ScheduleReturnCalm ==
  ASSUME IInv, NEW w \in Workers, ScheduleReturn(w)
  PROVE  Calm
<1>1. AfterLanding(wk[w].todo) \in {"hook", "commit"}
  BY DEF AfterLanding
<1> QED
  BY <1>1, GotoCalm DEF ScheduleReturn, Points, Critical, ForwardPoints, Resolved

LEMMA DatabaseFailsCalm ==
  ASSUME IInv, NEW w \in Workers, DatabaseFails(w)
  PROVE  Calm
<1>1. Leaves(w)
  BY ThrowEffect DEF IInv, DatabaseFails, Errors
<1> QED
  BY <1>1, LeavingCalm DEF DatabaseFails, Critical

(* What a request changes is part of what was left to send.                *)
LEMMA ApplyCalm ==
  ASSUME IInv, NEW w \in Workers, wk[w].pc = "send",
         \/ UNCHANGED applied
         \/ \E ids \in Chunks(wk[w].todo) : Apply(w, ids),
         UNCHANGED <<row, journal, api, queue>>
  PROVE  \A a \in Actions : CalmAction(a)
<1> SUFFICES ASSUME NEW a \in Actions PROVE CalmAction(a)
  OBVIOUS
<1>1. PICK b \in Actions : wk[w].job = Fwd(b) /\ Act(w) = b
  BY Holder DEF ForwardPoints
<1>2. CASE UNCHANGED applied
  BY <1>2, CalmRecords
<1>3. CASE \E ids \in Chunks(wk[w].todo) : Apply(w, ids)
  <2>1. PICK ids \in Chunks(wk[w].todo) : Apply(w, ids)
    BY <1>3
  <2>2. ids \subseteq wk[w].todo /\ applied' = [applied EXCEPT ![b] = applied[b] \cup ids]
    BY <1>1, <2>1 DEF Chunks, Apply
  <2>3. applied \in [Actions -> SUBSET Messages]
    BY DEF IInv, TypeOK
  <2>4. CASE a = b
    BY <1>1, <2>2, <2>3, <2>4 DEF CalmAction
  <2>5. CASE a # b
    BY <2>2, <2>3, <2>5 DEF CalmAction
  <2> QED
    BY <2>4, <2>5
<1> QED
  BY <1>2, <1>3

LEMMA RequestLandsCalm ==
  ASSUME IInv, NEW w \in Workers, RequestLands(w)
  PROVE  Calm
<1>1. PICK ids \in Chunks(wk[w].todo) :
        /\ Apply(w, ids)
        /\ wk' = [wk EXCEPT
                    ![w].landed = TRUE, ![w].todo = @ \ ids,
                    ![w].pc = IF Row(w).verb = "later" /\ ~wk[w].landed THEN "timer"
                              ELSE AfterLanding(wk[w].todo \ ids)]
  BY DEF RequestLands
<1> DEFINE pc == IF Row(w).verb = "later" /\ ~wk[w].landed THEN "timer"
                 ELSE AfterLanding(wk[w].todo \ ids)
           todo == wk[w].todo \ ids
           v == [wk[w] EXCEPT !.landed = TRUE, !.todo = todo, !.pc = pc]
<1>2. wk[w] \in WorkerStates /\ wk[w].pc = "send"
  BY DEF RequestLands, IInv, TypeOK
<1>3. pc \in {"timer", "commit", "hook"} /\ todo \subseteq wk[w].todo
      /\ todo \in SUBSET Messages
  BY <1>2 DEF AfterLanding, WorkerStates
<1>4. wk' = [wk EXCEPT ![w] = v]
  BY <1>1, <1>2 DEF WorkerStates
<1> HIDE DEF pc, todo
<1>5. v \in WorkerStates /\ v.pc = pc /\ v.job = wk[w].job /\ v.todo = todo
  BY <1>2, <1>3 DEF WorkerStates, Points, Critical
<1> HIDE DEF v
<1>6. OnlyWorker(w) /\ wk'[w] = v
  BY <1>4, <1>5 DEF IInv, TypeOK, OnlyWorker
<1>7. CalmWorker(w)
  BY <1>2, <1>3, <1>5, <1>6 DEF CalmWorker, ForwardPoints, Resolved
<1> QED
  BY <1>1, <1>2, <1>6, <1>7, OthersCalm, ApplyCalm DEF Calm, RequestLands

LEMMA RequestUncertainCalm ==
  ASSUME IInv, NEW w \in Workers, RequestUncertain(w)
  PROVE  Calm
<1>1. Leaves(w)
  BY ThrowEffect DEF IInv, RequestUncertain, Errors
<1>2. CalmWorker(w) /\ OnlyWorker(w)
  BY <1>1 DEF RequestUncertain, Leaves, KeepsJob, CalmWorker, ForwardPoints
<1> QED
  BY <1>2, OthersCalm, ApplyCalm DEF Calm, RequestUncertain

(* A worker in the reverse path never touches a forward row.               *)
LEMMA ReverseCalm ==
  ASSUME IInv, NEW a \in Actions, OnlyRow(Rev(a)),
         \A b \in Actions : journal'[b] = journal[b]
              \/ (journal[b].state # "none" /\ journal'[b].state # "none"),
         UNCHANGED applied,
         \A b \in Actions : queue'[Fwd(b)] = queue[Fwd(b)] /\ api'[Fwd(b)] = api[Fwd(b)]
  PROVE  \A b \in Actions : CalmAction(b)
<1>1. \A b \in Actions : Fwd(b) \in Jobs /\ Fwd(b) # Rev(a)
  BY DEF Fwd, Rev, Jobs
<1> QED
  BY <1>1 DEF OnlyRow, CalmAction

LEMMA StartReverseCalm ==
  ASSUME IInv, NEW w \in Workers, StartReverse(w)
  PROVE  Calm
<1>1. wk[w].job \in Jobs /\ wk[w] \in WorkerStates /\ row \in [Jobs -> Rows]
  BY DEF IInv, TypeOK, WorkerInv, StartReverse
<1>2. PICK a \in Actions : wk[w].job = Rev(a)
  BY <1>1 DEF StartReverse, Jobs, Job, Forward, Rev
<1> DEFINE r == [row[Rev(a)] EXCEPT !.status = "executing"]
           v == [wk[w] EXCEPT !.pc = "revsend", !.todo = row[Rev(a)].ids]
<1>3. row[Rev(a)] \in Rows /\ r \in Rows /\ row' = [row EXCEPT ![Rev(a)] = r]
  BY <1>1, <1>2 DEF Rows, StartReverse, Job
<1>4. wk' = [wk EXCEPT ![w] = v]
  BY <1>2 DEF StartReverse, Row, Job
<1>5. v \in WorkerStates /\ v.pc = "revsend" /\ v.job = wk[w].job
  <2>1. row[Rev(a)].ids \in SUBSET Messages /\ "revsend" \in Points
    BY <1>3 DEF Rows, Points, Critical
  <2> QED
    BY <1>1, <2>1 DEF WorkerStates
<1> HIDE DEF r, v
<1>6. OnlyRow(Rev(a)) /\ OnlyWorker(w) /\ wk'[w] = v
  BY <1>1, <1>3, <1>4, <1>5 DEF IInv, TypeOK, OnlyRow, OnlyWorker
<1>7. CalmWorker(w)
  BY <1>5, <1>6 DEF StartReverse, CalmWorker, ForwardPoints
<1> QED
  BY <1>6, <1>7, OthersCalm, ReverseCalm DEF Calm, StartReverse

LEMMA ReverseLandsCalm ==
  ASSUME IInv, NEW w \in Workers, ReverseLands(w)
  PROVE  Calm
<1> DEFINE todo == wk[w].todo \ NextGroup(w)
           pc == IF wk[w].todo = NextGroup(w) THEN "revcommit" ELSE "revsend"
           v == [wk[w] EXCEPT !.todo = todo, !.pc = pc]
<1>1. wk[w] \in WorkerStates /\ wk' = [wk EXCEPT ![w] = v]
  BY DEF IInv, TypeOK, ReverseLands, WorkerStates
<1>2. pc \in {"revcommit", "revsend"} /\ todo \in SUBSET Messages
  BY <1>1 DEF WorkerStates
<1> HIDE DEF todo, pc
<1>3. v \in WorkerStates /\ v.pc = pc /\ v.job = wk[w].job
  BY <1>1, <1>2 DEF WorkerStates, Points, Critical
<1> HIDE DEF v
<1>4. OnlyWorker(w) /\ wk'[w] = v
  BY <1>1, <1>3 DEF IInv, TypeOK, OnlyWorker
<1>5. CalmWorker(w)
  BY <1>2, <1>3, <1>4 DEF ReverseLands, CalmWorker, ForwardPoints
<1> QED
  BY <1>4, <1>5, OthersCalm, CalmRecords DEF Calm, ReverseLands

LEMMA ReverseFailsCalm ==
  ASSUME IInv, NEW w \in Workers, ReverseFails(w)
  PROVE  Calm
<1>1. Leaves(w)
  BY ThrowEffect DEF IInv, ReverseFails, Errors
<1> QED
  BY <1>1, LeavingCalm DEF ReverseFails

LEMMA CommitReverseCalm ==
  ASSUME IInv, NEW w \in Workers, CommitReverse(w)
  PROVE  Calm
<1>1. PICK a \in Actions :
        /\ wk[w].job = Rev(a) /\ Act(w) = a /\ Rev(a) \in Jobs /\ row[Rev(a)] \in Rows
        /\ journal[a] \in Entries /\ journal[a].state # "none"
  <2>1. wk[w].pc \in Critical /\ ~Forward(wk[w].job)
    BY DEF IInv, WorkerInv, CommitReverse, Critical, ReversePoints
  <2> QED
    BY <2>1, Reverter
<1> DEFINE r == [row[Rev(a)] EXCEPT !.status = "done"]
           e == [journal[a] EXCEPT !.state = "reverted"]
<1>2. row' = [row EXCEPT ![Rev(a)] = r] /\ journal' = [journal EXCEPT ![a] = e]
  BY <1>1 DEF CommitReverse, Job
<1>3. r \in Rows /\ e.state = "reverted"
  BY <1>1 DEF Rows, Entries
<1> HIDE DEF r, e
<1>4. /\ OnlyRow(Rev(a))
      /\ \A b \in Actions : journal'[b] = journal[b]
           \/ (journal[b].state # "none" /\ journal'[b].state # "none")
  BY <1>1, <1>2, <1>3 DEF IInv, TypeOK, OnlyRow
<1>5. Leaves(w)
  BY ReturnEffect DEF IInv, CommitReverse
<1>6. OnlyWorker(w) /\ CalmWorker(w)
  BY <1>5 DEF CommitReverse, Leaves, KeepsJob, CalmWorker, ForwardPoints
<1> QED
  BY <1>4, <1>6, OthersCalm, ReverseCalm DEF Calm, CommitReverse

(* A request hands its row over, or lets go of it.                         *)
LEMMA RequestCalm ==
  ASSUME IInv, NEW j \in Jobs, NEW r, api' = [api EXCEPT ![j] = r],
         api[j].at # "idle" \/ row[j].status # "failed",
         queue' = queue \/ queue' = Added(j),
         UNCHANGED <<row, journal, applied, wk, preview, disowned>>
  PROVE  Calm
<1>1. /\ api \in [Jobs -> Requests] /\ queue \in [Jobs -> QueueJobs]
      /\ \A i \in Jobs \ {j} : Added(j)[i] = queue[i]
      /\ queue[j].state # "none" => Added(j) = queue
  BY AddedType DEF IInv, TypeOK, Added
<1>2. ASSUME NEW a \in Actions PROVE CalmAction(a)
  <2>1. Fwd(a) \in Jobs
    BY DEF Fwd, Jobs
  <2> QED
    BY <1>1, <2>1 DEF CalmAction
<1> QED
  BY <1>2, StillWorkers DEF Calm

LEMMA ApiCalm ==
  ASSUME IInv, NEW j \in Jobs, QueueAdd(j) \/ QueueAddThrows(j) \/ ApiCrash(j)
  PROVE  Calm
<1>1. CASE QueueAdd(j)
  BY <1>1, RequestCalm DEF QueueAdd
<1>2. CASE QueueAddThrows(j)
  <2> DEFINE r == IF row[j].attempt > 0 /\ Forward(j) THEN NoRequest
                  ELSE [api[j] EXCEPT !.at = "caught"]
  <2>1. api' = [api EXCEPT ![j] = r]
    BY <1>2 DEF QueueAddThrows
  <2> HIDE DEF r
  <2> QED
    BY <1>2, <2>1, RequestCalm DEF QueueAddThrows
<1>3. CASE ApiCrash(j)
  BY <1>3, RequestCalm DEF ApiCrash
<1> QED
  BY <1>1, <1>2, <1>3

(* The mark of a failed add finds the row past queued, and writes nothing. *)
LEMMA EnqueueFailedCalm ==
  ASSUME IInv, NEW j \in Jobs, EnqueueFailed(j), row[j].status # "queued"
  PROVE  Calm
<1>1. disowned' = disowned /\ row' = row
  BY DEF EnqueueFailed, Disown
<1> QED
  BY <1>1, RequestCalm DEF EnqueueFailed

LEMMA ReplayConfirmCalm ==
  ASSUME IInv, NEW a \in Actions, NEW ack \in BOOLEAN, ReplayConfirm(a, ack)
  PROVE  Calm
<1>1. Fwd(a) \in Jobs
  BY DEF Fwd, Jobs
<1> QED
  BY <1>1, RequestCalm DEF ReplayConfirm

(* Undo clicks write reverse rows.                                         *)
LEMMA UndoCalm ==
  ASSUME IInv, NEW a \in Actions, Undo(a) \/ ResetRevert(a)
  PROVE  Calm
<1>1. /\ Rev(a) \in Jobs /\ row \in [Jobs -> Rows] /\ row[Fwd(a)] \in Rows
      /\ row[Rev(a)] \in Rows /\ api \in [Jobs -> Requests] /\ queue \in [Jobs -> QueueJobs]
      /\ \A b \in Actions : Fwd(b) \in Jobs /\ Fwd(b) # Rev(a)
  BY DEF IInv, TypeOK, Fwd, Rev, Jobs
<1>2. OnlyRow(Rev(a))
  <2>1. [row[Fwd(a)] EXCEPT !.status = "queued", !.err = "none"] \in Rows
    BY <1>1 DEF Rows, Codes
  <2>2. [row[Rev(a)] EXCEPT !.status = "queued", !.err = "none"] \in Rows
    BY <1>1 DEF Rows, Codes
  <2>3. CASE Undo(a)
    BY <1>1, <2>1, <2>3 DEF Undo, OnlyRow
  <2>4. CASE ResetRevert(a)
    BY <1>1, <2>2, <2>4 DEF ResetRevert, OnlyRow
  <2> QED
    BY <2>3, <2>4
<1>3. \A b \in Actions : queue'[Fwd(b)] = queue[Fwd(b)] /\ api'[Fwd(b)] = api[Fwd(b)]
  <2>1. CASE Undo(a)
    BY <1>1, <2>1 DEF Undo
  <2>2. CASE ResetRevert(a)
    <3>1. queue' = queue \/ queue' = [queue EXCEPT ![Rev(a)] = NoQueueJob]
      BY <2>2 DEF ResetRevert
    <3> QED
      BY <1>1, <2>2, <3>1 DEF ResetRevert
  <2> QED
    BY <2>1, <2>2
<1>4. UNCHANGED <<journal, applied, wk, preview, disowned>>
  BY DEF Undo, ResetRevert
<1> QED
  BY <1>2, <1>3, <1>4, ReverseCalm, StillWorkers DEF Calm

LEMMA EnvironmentCalm ==
  ASSUME UNCHANGED <<row, journal, applied, api, queue, wk, preview, disowned>>
  PROVE  Calm
  BY CalmRecords, StillWorkers DEF Calm

-------------------------------------------------------------------------------
(* The writes of the holder.                                               *)

(* A holder that leaves with a word on its row.                            *)
LEMMA HolderLeaves ==
  ASSUME IInv, UndoInv, AttemptsInv,
         NEW w \in Workers, NEW a \in Actions,
         wk[w].pc \in ForwardPoints, wk[w].job = Fwd(a), Leaves(w), OnlyRow(Fwd(a)),
         row'[Fwd(a)].status # "absent", row'[Fwd(a)].ids = row[Fwd(a)].ids,
         row'[Fwd(a)].root = row[Fwd(a)].root, row'[Fwd(a)].attempt = row[Fwd(a)].attempt,
         UNCHANGED <<queue, api, preview, disowned, applied>>,
         \A b \in Actions \ {a} : journal'[b] = journal[b],
         row'[Fwd(a)].status = "failed" =>
            a \in disowned \/ row'[Fwd(a)].err # "ENQUEUE_FAILED",
         row'[Fwd(a)].status = "done" /\ applied[a] # {} => journal'[a].state # "none",
         journal'[a] # NoEntry => row'[Fwd(a)].status = "done"
  PROVE  UndoInv' /\ AttemptsInv'
<1>1. /\ OnlyWorker(w) /\ wk'[w].job = wk[w].job /\ wk'[w].pc \in {"terminal", "end"}
  BY DEF Leaves, KeepsJob
<1>2. wk'[w].pc \notin ForwardPoints /\ SetInv(w)'
  BY <1>1 DEF SetInv, ForwardPoints, Resolved
<1>3. CoveredInv(a)'
  BY DEF UndoInv, CoveredInv
<1>4. EntryInv(a)'
  BY DEF EntryInv, NoEntry
<1> QED
  BY <1>1, <1>2, <1>3, <1>4, HolderWrites

LEMMA StopProtectedMore ==
  ASSUME IInv, UndoInv, AttemptsInv, NEW w \in Workers, wk[w].pc \in ForwardPoints,
         StopProtected(w), UNCHANGED <<journal, preview, api, queue, applied, disowned>>
  PROVE  UndoInv' /\ AttemptsInv'
<1>1. PICK a \in Actions :
        /\ wk[w].job = Fwd(a) /\ Row(w) = row[Fwd(a)] /\ Fwd(a) \in Jobs
        /\ row[Fwd(a)] \in Rows /\ journal[a] = NoEntry
        /\ wk[w].clean /\ ~wk[w].landed => applied[a] = {}
  BY Holder
<1> DEFINE s == StoppedRow(w)
<1>2. /\ s \in Rows /\ s.ids = row[Fwd(a)].ids /\ s.root = row[Fwd(a)].root
      /\ s.attempt = row[Fwd(a)].attempt
      /\ \/ s.status = "done" /\ wk[w].clean /\ ~wk[w].landed
         \/ s.status = "failed" /\ s.err = "RECOVERY_SENDER_PROTECTED"
  <2>1. CASE wk[w].clean /\ ~wk[w].landed /\ Row(w).attempt = 0
    <3>1. s = [row[Fwd(a)] EXCEPT !.status = "done", !.err = "LABEL_SENDER_PROTECTED"]
      BY <1>1, <2>1 DEF StoppedRow
    <3> QED
      BY <1>1, <2>1, <3>1 DEF Rows, Codes
  <2>2. CASE ~(wk[w].clean /\ ~wk[w].landed /\ Row(w).attempt = 0)
    <3>1. s = [row[Fwd(a)] EXCEPT !.status = "failed", !.err = "RECOVERY_SENDER_PROTECTED"]
      BY <1>1, <2>2 DEF StoppedRow
    <3> QED
      BY <1>1, <3>1 DEF Rows, Codes
  <2> QED
    BY <2>1, <2>2
<1>3. row' = [row EXCEPT ![Fwd(a)] = s] /\ row \in [Jobs -> Rows]
  BY <1>1 DEF StopProtected, Job, IInv, TypeOK
<1> HIDE DEF s
<1>4. OnlyRow(Fwd(a)) /\ row'[Fwd(a)] = s
  BY <1>1, <1>2, <1>3 DEF OnlyRow
<1>5. Leaves(w)
  BY ReturnEffect DEF StopProtected, IInv
<1>6. /\ s.status # "absent"
      /\ s.status = "failed" => s.err # "ENQUEUE_FAILED"
      /\ s.status = "done" => applied[a] = {}
  BY <1>1, <1>2
<1> QED
  BY <1>1, <1>2, <1>4, <1>5, <1>6, HolderLeaves

LEMMA CheckProtectedMore ==
  ASSUME IInv, UndoInv, AttemptsInv, NEW w \in Workers, CheckProtected(w)
  PROVE  UndoInv' /\ AttemptsInv'
<1>1. wk[w].pc = "check" /\ wk[w].pc \in ForwardPoints
  BY DEF CheckProtected, ForwardPoints
<1>2. CASE StopProtected(w)
  BY <1>1, <1>2, StopProtectedMore DEF CheckProtected
<1>3. CASE ~StopProtected(w)
  <2>1. Goto(w, "resolve") /\ UNCHANGED row
    BY <1>3 DEF CheckProtected
  <2>2. Calm
    BY <1>1, <2>1, GotoCalm DEF CheckProtected, Points, Critical, ForwardPoints, Resolved
  <2> QED
    BY <2>2, CalmUndo, CalmAttempts
<1> QED
  BY <1>2, <1>3

LEMMA AssertNotProtectedMore ==
  ASSUME IInv, UndoInv, AttemptsInv, NEW w \in Workers, AssertNotProtected(w)
  PROVE  UndoInv' /\ AttemptsInv'
<1>1. wk[w].pc = "hook" /\ wk[w].pc \in ForwardPoints
  BY DEF AssertNotProtected, ForwardPoints
<1>2. CASE StopProtected(w)
  BY <1>1, <1>2, StopProtectedMore DEF AssertNotProtected
<1>3. CASE ~StopProtected(w)
  <2>1. Goto(w, "send") /\ UNCHANGED row
    BY <1>3 DEF AssertNotProtected
  <2>2. Calm
    BY <1>1, <2>1, GotoCalm DEF AssertNotProtected, Points, Critical, ForwardPoints, Resolved
  <2> QED
    BY <2>2, CalmUndo, CalmAttempts
<1> QED
  BY <1>2, <1>3

LEMMA CommitEmptyMore ==
  ASSUME IInv, UndoInv, AttemptsInv, NEW w \in Workers, CommitEmpty(w)
  PROVE  UndoInv' /\ AttemptsInv'
<1>1. wk[w].pc = "empty" /\ wk[w].pc \in ForwardPoints
  BY DEF CommitEmpty, ForwardPoints
<1>2. PICK a \in Actions :
        /\ wk[w].job = Fwd(a) /\ Fwd(a) \in Jobs /\ row[Fwd(a)] \in Rows
        /\ Row(w) = row[Fwd(a)] /\ journal[a] = NoEntry
  BY <1>1, Holder
<1> DEFINE r == [row[Fwd(a)] EXCEPT !.status = "done"]
<1>3. /\ r \in Rows /\ r.status = "done" /\ r.ids = row[Fwd(a)].ids
      /\ r.root = row[Fwd(a)].root /\ r.attempt = row[Fwd(a)].attempt
  BY <1>2 DEF Rows
<1>4. row' = [row EXCEPT ![Fwd(a)] = r]
  BY <1>2 DEF CommitEmpty, Job
<1> HIDE DEF r
<1>5. OnlyRow(Fwd(a)) /\ row'[Fwd(a)] = r
  BY <1>2, <1>3, <1>4 DEF IInv, TypeOK, OnlyRow
<1>6. Leaves(w)
  BY ReturnEffect DEF CommitEmpty, IInv
<1>7. applied[a] = {}
  BY <1>1, <1>2 DEF UndoInv, SetInv, CoveredInv
<1> QED
  BY <1>1, <1>2, <1>3, <1>5, <1>6, <1>7, HolderLeaves DEF CommitEmpty

(* The terminal transaction issues the Undo of what it marks done.         *)
LEMMA CommitMore ==
  ASSUME IInv, UndoInv, AttemptsInv, NEW w \in Workers, wk[w].pc = "commit",
         TerminalTx(w), Leaves(w), UNCHANGED <<preview, api, queue, applied, disowned>>
  PROVE  UndoInv' /\ AttemptsInv'
<1>1. wk[w].pc \in ForwardPoints
  BY DEF ForwardPoints
<1>2. PICK a \in Actions :
        /\ wk[w].job = Fwd(a) /\ Fwd(a) \in Jobs /\ Act(w) = a /\ row[Fwd(a)] \in Rows
  BY <1>1, Holder
<1> DEFINE r == [row[Fwd(a)] EXCEPT !.status = "done"]
           e == UndoEntry(Row(w))
<1>3. /\ r \in Rows /\ r.status = "done" /\ r.ids = row[Fwd(a)].ids
      /\ r.root = row[Fwd(a)].root /\ r.attempt = row[Fwd(a)].attempt
      /\ e.state = "live"
  BY <1>2 DEF Rows, UndoEntry
<1>4. row' = [row EXCEPT ![Fwd(a)] = r] /\ journal' = [journal EXCEPT ![a] = e]
  BY <1>2 DEF TerminalTx, Job
<1> HIDE DEF r, e
<1>5. OnlyRow(Fwd(a)) /\ row'[Fwd(a)] = r
  BY <1>2, <1>3, <1>4 DEF IInv, TypeOK, OnlyRow
<1>6. journal'[a] = e /\ \A b \in Actions \ {a} : journal'[b] = journal[b]
  BY <1>4 DEF IInv, TypeOK
<1> QED
  BY <1>1, <1>2, <1>3, <1>5, <1>6, HolderLeaves

LEMMA CommitsMore ==
  ASSUME IInv, UndoInv, AttemptsInv, NEW w \in Workers,
         Commit(w) \/ CommitUnacknowledged(w)
  PROVE  UndoInv' /\ AttemptsInv'
<1>1. Leaves(w)
  BY ReturnEffect, ThrowEffect DEF IInv, Commit, CommitUnacknowledged, Errors
<1> QED
  BY <1>1, CommitMore DEF Commit, CommitUnacknowledged

LEMMA ResetRefusedMore ==
  ASSUME IInv, UndoInv, AttemptsInv, NEW w \in Workers, ResetRefused(w)
  PROVE  UndoInv' /\ AttemptsInv'
<1>1. wk[w].pc \in ForwardPoints
  BY DEF ResetRefused, ForwardPoints
<1>2. PICK a \in Actions :
        /\ wk[w].job = Fwd(a) /\ Fwd(a) \in Jobs /\ row[Fwd(a)] \in Rows
        /\ Row(w) = row[Fwd(a)] /\ row[Fwd(a)].status # "absent" /\ wk[w] \in WorkerStates
  BY <1>1, Holder
<1>3. Leaves(w)
  BY <1>2, ThrowEffect DEF ResetRefused, IInv, WorkerStates
<1>4. CASE row' = row
  <2>1. Calm
    BY <1>1, <1>3, <1>4, LeavingCalm DEF ResetRefused
  <2> QED
    BY <2>1, CalmUndo, CalmAttempts
<1>5. CASE row' # row
  <2> DEFINE r == [row[Fwd(a)] EXCEPT !.status = "queued"]
  <2>1. /\ r \in Rows /\ r.status = "queued" /\ r.ids = row[Fwd(a)].ids
        /\ r.root = row[Fwd(a)].root /\ r.attempt = row[Fwd(a)].attempt
    BY <1>2 DEF Rows
  <2>2. row' = [row EXCEPT ![Fwd(a)] = r] /\ row[Fwd(a)].status = "executing"
    BY <1>2, <1>5 DEF ResetRefused, Job
  <2> HIDE DEF r
  <2>3. OnlyRow(Fwd(a)) /\ row'[Fwd(a)] = r
    BY <1>2, <2>1, <2>2 DEF IInv, TypeOK, OnlyRow
  <2>4. journal[a] = NoEntry
    BY <1>1, <1>2, Holder DEF IInv, WorkerInv, RunningInv, Act, Job, Fwd
  <2> QED
    BY <1>1, <1>2, <1>3, <2>1, <2>3, <2>4, HolderLeaves DEF ResetRefused
<1> QED
  BY <1>4, <1>5

(* The execution set is saved once: a retry keeps the set its action has   *)
(* been changing.                                                          *)
LEMMA ResolveIdsMore ==
  ASSUME IInv, UndoInv, AttemptsInv, NEW w \in Workers, ResolveIds(w)
  PROVE  UndoInv' /\ AttemptsInv'
<1>1. wk[w].pc = "resolve" /\ wk[w].pc \in ForwardPoints
  BY DEF ResolveIds, ForwardPoints
<1>2. PICK a \in Actions :
        /\ wk[w].job = Fwd(a) /\ Row(w) = row[Fwd(a)] /\ Fwd(a) \in Jobs
        /\ wk[w] \in WorkerStates /\ row[Fwd(a)] \in Rows
        /\ row[Fwd(a)].status # "absent" /\ journal[a] = NoEntry
  BY <1>1, Holder
<1> DEFINE ids == ExecutionSet(row[Fwd(a)])
           pc  == IF ids = {} THEN "empty" ELSE "client"
           r   == [row[Fwd(a)] EXCEPT !.ids = ids]
           v   == [wk[w] EXCEPT !.pc = pc, !.todo = ids]
<1>3. /\ ids \in SUBSET Messages /\ pc \in {"empty", "client"} /\ (pc = "empty") = (ids = {})
      /\ row[Fwd(a)].ids # {} => ids = row[Fwd(a)].ids
  BY <1>2, ExecutionSetType DEF IInv, ExecutionSet
<1>4. row' = [row EXCEPT ![Fwd(a)] = r] /\ wk' = [wk EXCEPT ![w] = v]
  BY <1>2 DEF ResolveIds, Job
<1> HIDE DEF ids, pc
<1>5. /\ r \in Rows /\ r.ids = ids /\ r.status = row[Fwd(a)].status
      /\ r.root = row[Fwd(a)].root /\ r.attempt = row[Fwd(a)].attempt
  BY <1>2, <1>3 DEF Rows
<1>6. v \in WorkerStates /\ v.pc = pc /\ v.job = Fwd(a) /\ v.todo = ids
  BY <1>2, <1>3 DEF WorkerStates, Points, Critical
<1> HIDE DEF r, v
<1>7. OnlyRow(Fwd(a)) /\ row'[Fwd(a)] = r /\ OnlyWorker(w) /\ wk'[w] = v
  BY <1>2, <1>4, <1>5, <1>6 DEF IInv, TypeOK, OnlyRow, OnlyWorker
<1>8. row[Fwd(a)].status # "done"
  BY <1>1, <1>2 DEF UndoInv, SetInv
<1>9. SetInv(w)'
  BY <1>3, <1>5, <1>6, <1>7, <1>8 DEF SetInv, Row, Job, Resolved
<1>10. CoveredInv(a)'
  <2>1. applied'[a] = applied[a] /\ applied[a] \subseteq ids
    BY <1>3 DEF UndoInv, CoveredInv, ResolveIds
  <2> QED
    BY <2>1, <1>5, <1>7, <1>8 DEF CoveredInv
<1>11. EntryInv(a)'
  BY <1>2 DEF EntryInv, ResolveIds, NoEntry
<1>12. row[Fwd(a)].status = "failed" => a \in disowned
  BY <1>1, <1>2 DEF AttemptsInv, OverInv
<1> QED
  BY <1>1, <1>2, <1>5, <1>6, <1>7, <1>9, <1>10, <1>11, <1>12, HolderWrites DEF ResolveIds

LEMMA MarkExecutingMore ==
  ASSUME IInv, UndoInv, AttemptsInv, NEW w \in Workers, MarkExecuting(w)
  PROVE  UndoInv' /\ AttemptsInv'
<1>1. wk[w].pc = "hook" /\ wk[w].pc \in ForwardPoints
  BY DEF MarkExecuting, ForwardPoints
<1>2. PICK a \in Actions :
        /\ wk[w].job = Fwd(a) /\ Row(w) = row[Fwd(a)] /\ Fwd(a) \in Jobs
        /\ wk[w] \in WorkerStates /\ row[Fwd(a)] \in Rows
        /\ row[Fwd(a)].status # "absent" /\ journal[a] = NoEntry
  BY <1>1, Holder
<1>3. CASE Throw(w, "ValidationError") /\ UNCHANGED row
  <2>1. Leaves(w)
    BY <1>3, ThrowEffect DEF IInv, Errors
  <2>2. Calm
    BY <1>1, <1>3, <2>1, LeavingCalm DEF MarkExecuting
  <2> QED
    BY <2>2, CalmUndo, CalmAttempts
<1>4. CASE StopProtected(w)
  BY <1>1, <1>4, StopProtectedMore DEF MarkExecuting
<1>5. CASE /\ row' = [row EXCEPT
                        ![Job(w)].status = "executing",
                        ![Job(w)].undo = IF Row(w).verb = "delete" THEN DeleteUndo(w) ELSE @]
           /\ Goto(w, "send")
  <2> DEFINE p == IF Row(w).verb = "delete" THEN DeleteUndo(w) ELSE row[Fwd(a)].undo
             r == [row[Fwd(a)] EXCEPT !.status = "executing", !.undo = p]
             v == [wk[w] EXCEPT !.pc = "send"]
  <2>1. p \in Placements
    BY <1>2, DeleteUndoType DEF Rows
  <2>2. row' = [row EXCEPT ![Fwd(a)] = r]
    BY <1>2, <1>5 DEF Job, Rows
  <2> HIDE DEF p
  <2>3. /\ r \in Rows /\ r.status = "executing" /\ r.ids = row[Fwd(a)].ids
        /\ r.root = row[Fwd(a)].root /\ r.attempt = row[Fwd(a)].attempt
    BY <1>2, <2>1 DEF Rows
  <2> HIDE DEF r
  <2>4. OnlyRow(Fwd(a)) /\ row'[Fwd(a)] = r
    BY <1>2, <2>2, <2>3 DEF IInv, TypeOK, OnlyRow
  <2>5. v \in WorkerStates /\ v.pc = "send" /\ v.job = Fwd(a) /\ v.todo = wk[w].todo
    BY <1>2 DEF WorkerStates, Points, Critical
  <2>6. wk' = [wk EXCEPT ![w] = v]
    BY <1>5 DEF Goto
  <2> HIDE DEF v
  <2>7. OnlyWorker(w) /\ wk'[w] = v
    BY <2>5, <2>6 DEF IInv, TypeOK, OnlyWorker
  <2>8. wk[w].todo \subseteq row[Fwd(a)].ids /\ row[Fwd(a)].ids # {}
    BY <1>1, <1>2 DEF UndoInv, SetInv, Resolved
  <2>9. SetInv(w)'
    BY <2>3, <2>4, <2>5, <2>7, <2>8 DEF SetInv, Row, Job
  <2>10. CoveredInv(a)'
    BY <2>3, <2>4 DEF UndoInv, CoveredInv, MarkExecuting
  <2>11. EntryInv(a)'
    BY <1>2 DEF EntryInv, MarkExecuting, NoEntry
  <2> QED
    BY <1>1, <1>2, <2>3, <2>4, <2>5, <2>7, <2>9, <2>10, <2>11, HolderWrites
       DEF MarkExecuting
<1> QED
  BY <1>3, <1>4, <1>5 DEF MarkExecuting

-------------------------------------------------------------------------------
(* The marks of a failure, written beside the lock.                        *)

(* A row that reads failed is over, or its action was disowned: what runs  *)
(* of it, or committed, is what onTerminalFailure and the API's mark do    *)
(* not look for.                                                           *)
LEMMA MarkFailed ==
  ASSUME IInv, UndoInv, AttemptsInv, NEW a \in Actions, OnlyRow(Fwd(a)),
         row[Fwd(a)].status # "absent", row'[Fwd(a)].status = "failed",
         row'[Fwd(a)].ids = row[Fwd(a)].ids,
         row'[Fwd(a)].root = row[Fwd(a)].root, row'[Fwd(a)].attempt = row[Fwd(a)].attempt,
         UNCHANGED <<journal, applied, queue, preview>>, disowned \subseteq disowned',
         \A b \in Actions \ {a} : b \in disowned' => b \in disowned,
         \A b \in Actions \ {a} : api'[Fwd(b)] = api[Fwd(b)],
         \A u \in Workers : wk'[u] = wk[u] \/
            /\ wk[u].pc # "idle" /\ wk'[u].job = wk[u].job
            /\ wk'[u].pc \notin ForwardPoints,
         OverInv(a)', EntryInv(a)'
  PROVE  UndoInv' /\ AttemptsInv'
<1>1. \A b \in Actions \ {a} : row'[Fwd(b)] = row[Fwd(b)]
  BY DEF OnlyRow, Fwd, Jobs
<1>2. ASSUME NEW u \in Workers PROVE SetInv(u)' /\ HeldInv(u)'
  <2>1. SetInv(u) /\ HeldInv(u)
    BY DEF UndoInv, AttemptsInv
  <2>2. HeldInv(u)'
    BY <2>1 DEF HeldInv
  <2>3. CASE wk'[u].pc \notin ForwardPoints
    <3>1. wk'[u].pc \notin Resolved /\ wk'[u].pc # "empty"
      BY <2>3 DEF ForwardPoints, Resolved
    <3> QED
      BY <2>2, <2>3, <3>1 DEF SetInv
  <2>4. CASE wk'[u] = wk[u] /\ wk[u].pc \in ForwardPoints
    <3>1. PICK b \in Actions : wk[u].job = Fwd(b) /\ Row(u) = row[Fwd(b)]
      BY <2>4, Holder
    <3>2. Row(u)' = row'[Fwd(b)]
      BY <2>4, <3>1 DEF Row, Job
    <3>3. Row(u)'.ids = Row(u).ids /\ (Row(u)'.status = "done" => Row(u).status = "done")
      BY <1>1, <3>1, <3>2
    <3> QED
      BY <2>1, <2>2, <2>4, <3>3 DEF SetInv
  <2> QED
    BY <2>2, <2>3, <2>4
<1>3. ASSUME NEW b \in Actions PROVE CoveredInv(b)'
  BY <1>1 DEF UndoInv, CoveredInv
<1>4. ASSUME NEW b \in Actions \ {a} PROVE OverInv(b)' /\ EntryInv(b)'
  <2>1. OverInv(b) /\ EntryInv(b)
    BY DEF AttemptsInv
  <2>2. EntryInv(b)'
    BY <1>1, <2>1 DEF EntryInv, NoEntry
  <2>3. \A u \in Workers : wk'[u].pc \in ForwardPoints => wk'[u] = wk[u]
    OBVIOUS
  <2>4. /\ row'[Fwd(b)] = row[Fwd(b)] /\ api'[Fwd(b)] = api[Fwd(b)]
        /\ queue'[Fwd(b)] = queue[Fwd(b)] /\ (b \notin disowned' => b \notin disowned)
    BY <1>1
  <2>5. OverInv(b)'
    BY <2>1, <2>3, <2>4 DEF OverInv
  <2> QED
    BY <2>2, <2>5
<1>5. \A b \in Actions : LineageInv(b)' /\ ReviewInv(b)'
  <2>1. \A b \in Actions :
           /\ (row'[Fwd(b)].status = "absent") <=> (row[Fwd(b)].status = "absent")
           /\ row'[Fwd(b)].root = row[Fwd(b)].root
           /\ row'[Fwd(b)].attempt = row[Fwd(b)].attempt
           /\ row[Fwd(b)].status = "failed" => row'[Fwd(b)].status = "failed" \/ b \in disowned'
    BY <1>1
  <2> QED
    BY <2>1, LineageStands
<1> QED
  BY <1>2, <1>3, <1>4, <1>5 DEF UndoInv, AttemptsInv

LEMMA RecordFailureMore ==
  ASSUME IInv, UndoInv, AttemptsInv, NEW w \in Workers, RecordFailure(w)
  PROVE  UndoInv' /\ AttemptsInv'
<1> DEFINE j == wk[w].job
           r == [row[j] EXCEPT !.status = "failed", !.err = wk[w].err]
<1>1. /\ row \in [Jobs -> Rows] /\ wk[w] \in WorkerStates /\ j \in Jobs
      /\ row[j] \in Rows /\ wk[w].err \in Errors \cup {"none"}
      /\ wk[w].pc = "terminal" /\ row[j].status # "absent"
  BY DEF IInv, TypeOK, WorkerInv, RecordFailure, WorkerStates, Row, Job
<1>2. row' = [row EXCEPT ![j] = r]
  BY DEF RecordFailure, Job
<1>3. /\ r \in Rows /\ r.status = "failed" /\ r.err # "ENQUEUE_FAILED"
      /\ r.ids = row[j].ids /\ r.root = row[j].root /\ r.attempt = row[j].attempt
  BY <1>1 DEF Rows, Codes, Errors
<1> HIDE DEF r
<1>4. OnlyRow(j) /\ row'[j] = r
  BY <1>1, <1>2, <1>3 DEF OnlyRow
<1>5. OnlyWorker(w) /\ KeepsJob(w) /\ wk'[w].pc = "end"
  BY GotoEffect DEF IInv, RecordFailure, Points
<1>6. CASE ~Forward(j)
  <2>1. disowned' = disowned
    BY <1>6 DEF RecordFailure, Disown, Job
  <2>2. ASSUME NEW a \in Actions PROVE CalmAction(a)
    <3>1. Fwd(a) \in Jobs /\ Fwd(a) # j
      BY <1>6 DEF Fwd, Jobs, Forward
    <3> QED
      BY <1>4, <3>1 DEF OnlyRow, CalmAction, RecordFailure
  <2>3. CalmWorker(w)
    BY <1>1, <1>5 DEF CalmWorker, KeepsJob, ForwardPoints
  <2>4. Calm
    BY <1>5, <2>1, <2>2, <2>3, OthersCalm DEF Calm, RecordFailure
  <2> QED
    BY <2>4, CalmUndo, CalmAttempts
<1>7. CASE Forward(j)
  <2>1. PICK a \in Actions : j = Fwd(a)
    BY <1>1, <1>7 DEF Jobs, Forward, Fwd
  <2>2. disowned' = IF Outlived(w) THEN disowned \cup {a} ELSE disowned
    <3>1. Act(w) = a /\ Forward(Job(w))
      BY <1>7, <2>1 DEF Act, Job, Fwd
    <3> QED
      BY <3>1 DEF RecordFailure, Disown
  <2>3. EntryInv(a)'
    <3>1. EntryInv(a) /\ (row[Fwd(a)].status = "done" => Outlived(w))
      BY <2>1 DEF AttemptsInv, Outlived, Row, Job
    <3> QED
      BY <2>2, <3>1 DEF EntryInv, RecordFailure, NoEntry
  <2>4. OverInv(a)'
    <3>1. ASSUME a \notin disowned', NEW u \in Workers, wk'[u].pc \in ForwardPoints,
                 wk'[u].job = Fwd(a)
          PROVE  FALSE
      <4>1. u # w
        BY <1>5, <3>1 DEF ForwardPoints
      <4>2. wk'[u] = wk[u] /\ wk[u].pc \in Critical \ {"load"}
        BY <1>5, <3>1, <4>1 DEF OnlyWorker, ForwardPoints, Critical
      <4>3. Outlived(w)
        BY <2>1, <3>1, <4>1, <4>2 DEF Outlived, Job
      <4> QED
        BY <2>2, <3>1, <4>3
    <3> QED
      BY <1>3, <1>4, <2>1, <3>1 DEF OverInv
  <2>5. \A u \in Workers : wk'[u] = wk[u] \/
            /\ wk[u].pc # "idle" /\ wk'[u].job = wk[u].job
            /\ wk'[u].pc \notin ForwardPoints
    BY <1>1, <1>5 DEF OnlyWorker, KeepsJob, ForwardPoints
  <2>6. \A b \in Actions \ {a} : b \in disowned' => b \in disowned
    BY <2>2
  <2> QED
    BY <1>1, <1>3, <1>4, <2>1, <2>2, <2>3, <2>4, <2>5, <2>6, MarkFailed DEF RecordFailure
<1> QED
  BY <1>6, <1>7

LEMMA EnqueueFailedMore ==
  ASSUME IInv, UndoInv, AttemptsInv, NEW j \in Jobs, EnqueueFailed(j)
  PROVE  UndoInv' /\ AttemptsInv'
<1>1. CASE row[j].status # "queued"
  BY <1>1, EnqueueFailedCalm, CalmUndo, CalmAttempts
<1>2. CASE row[j].status = "queued"
  <2> DEFINE r == [row[j] EXCEPT !.status = "failed", !.err = "ENQUEUE_FAILED"]
  <2>1. row' = [row EXCEPT ![j] = r] /\ row \in [Jobs -> Rows] /\ row[j] \in Rows
    BY <1>2 DEF EnqueueFailed, IInv, TypeOK
  <2>2. /\ r \in Rows /\ r.status = "failed" /\ r.ids = row[j].ids
        /\ r.root = row[j].root /\ r.attempt = row[j].attempt
    BY <2>1 DEF Rows, Codes
  <2> HIDE DEF r
  <2>3. OnlyRow(j) /\ row'[j] = r
    BY <2>1, <2>2 DEF OnlyRow
  <2>4. api'[j] = NoRequest /\ \A i \in Jobs \ {j} : api'[i] = api[i]
    BY DEF EnqueueFailed, IInv, TypeOK
  <2>5. CASE ~Forward(j)
    <3>1. disowned' = disowned
      BY <2>5 DEF EnqueueFailed, Disown
    <3>2. ASSUME NEW a \in Actions PROVE CalmAction(a)
      <4>1. Fwd(a) \in Jobs /\ Fwd(a) # j
        BY <2>5 DEF Fwd, Jobs, Forward
      <4> QED
        BY <2>3, <2>4, <4>1 DEF OnlyRow, CalmAction, EnqueueFailed
    <3>3. Calm
      BY <3>1, <3>2, StillWorkers DEF Calm, EnqueueFailed
    <3> QED
      BY <3>3, CalmUndo, CalmAttempts
  <2>6. CASE Forward(j)
    <3>1. PICK a \in Actions : j = Fwd(a) /\ j[1] = a
      BY <2>6 DEF Jobs, Forward, Fwd
    <3>2. disowned' = IF queue[j].state # "none" THEN disowned \cup {a} ELSE disowned
      BY <1>2, <2>6, <3>1 DEF EnqueueFailed, Disown
    <3>3. journal[a] = NoEntry
      BY <1>2, <3>1 DEF IInv, ActionInv, NeverReachedGmail, Untouched
    <3>4. EntryInv(a)'
      BY <3>3 DEF EntryInv, EnqueueFailed, NoEntry
    <3>5. OverInv(a)'
      <4>1. ASSUME queue[j].state = "none", NEW u \in Workers, wk[u].pc \in ForwardPoints
            PROVE  wk[u].job # j
        BY <2>6, <4>1 DEF AttemptsInv, HeldInv, ForwardPoints
      <4>2. api'[j].at = "idle" /\ queue' = queue /\ wk' = wk
        BY <2>4 DEF NoRequest, EnqueueFailed
      <4> QED
        BY <3>1, <3>2, <4>1, <4>2 DEF OverInv
    <3>6. \A b \in Actions \ {a} : api'[Fwd(b)] = api[Fwd(b)]
      BY <2>4, <3>1 DEF Fwd, Jobs
    <3>7. /\ UNCHANGED <<journal, applied, queue, preview, wk>> /\ disowned \subseteq disowned'
          /\ \A b \in Actions \ {a} : b \in disowned' => b \in disowned
      BY <3>2 DEF EnqueueFailed
    <3> QED
      BY <1>2, <2>2, <2>3, <3>1, <3>4, <3>5, <3>6, <3>7, MarkFailed
  <2> QED
    BY <2>5, <2>6
<1> QED
  BY <1>1, <1>2

-------------------------------------------------------------------------------
(* A new attempt.                                                          *)

(* A lineage is a finite set of actions.                                   *)
LEMMA LineageFinite ==
  ASSUME NEW root
  PROVE  IsFiniteSet(Lineage(root)) /\ Cardinality(Lineage(root)) \in Nat
<1>1. Lineage(root) \subseteq Actions
  BY DEF Lineage
<1> QED
  BY <1>1, FinitenessAssumption, FS_Subset, FS_CardinalityType

(* A row that appears takes the next number of its lineage, and every      *)
(* attempt before it has failed.                                           *)
LEMMA LineageGrows ==
  ASSUME IInv, AttemptsInv, NEW a \in Actions, NEW root \in Actions,
         row[Fwd(a)].status = "absent", OnlyRow(Fwd(a)), row'[Fwd(a)].status = "queued",
         row'[Fwd(a)].root = root, row'[Fwd(a)].attempt = Cardinality(Lineage(root)),
         root = a \/ Exists(root),
         \A b \in Lineage(root) : row[Fwd(b)].status = "failed" \/ b \in disowned,
         UNCHANGED disowned, preview'[root].state \notin {"verifying", "ready"},
         \A r \in Actions \ {root} : preview'[r] = preview[r]
  PROVE  \A b \in Actions : LineageInv(b)' /\ ReviewInv(b)'
<1> DEFINE n(r) == Cardinality(Lineage(r))
<1>1. \A b \in Actions \ {a} : row'[Fwd(b)] = row[Fwd(b)]
  BY DEF OnlyRow, Fwd, Jobs
<1>2. \A b \in Actions : /\ row[Fwd(b)].root \in Actions /\ row[Fwd(b)].attempt \in Nat
                         /\ preview[b].current \in Actions
  BY DEF IInv, TypeOK, Fwd, Jobs, Rows, Previews
<1>3. a \notin Lineage(root) /\ Lineage(root)' = Lineage(root) \cup {a}
  BY <1>1 DEF Lineage
<1>4. n(root) \in Nat /\ Cardinality(Lineage(root)') = n(root) + 1
  BY <1>3, LineageFinite, FS_AddElement, ZenonT(40)
<1>5. \A r \in Actions \ {root} : Lineage(r)' = Lineage(r)
  BY <1>1 DEF Lineage
<1>6. \A b \in Lineage(root) : b \in Actions /\ b # a /\ row[Fwd(b)].attempt < n(root)
  BY DEF AttemptsInv, LineageInv, Lineage, Exists
<1>7. /\ Exists(a)' /\ \A b \in Actions \ {a} : Exists(b)' <=> Exists(b)
      /\ \A b \in Actions \ {a} : Akin(a, b)' <=> b \in Lineage(root)
      /\ \A b \in Actions \ {a} : Akin(b, a)' <=> b \in Lineage(root)
      /\ \A b, c \in Actions \ {a} : Akin(b, c)' <=> Akin(b, c)
  BY <1>1 DEF Exists, Akin, Lineage
<1>8. LineageInv(a)'
  <2>1. Exists(root)'
    BY <1>7
  <2>2. ASSUME NEW b \in Actions \ {a}, Akin(a, b)'
        PROVE  /\ row'[Fwd(a)].attempt # row'[Fwd(b)].attempt
               /\ ~(row'[Fwd(a)].attempt < row'[Fwd(b)].attempt)
    <3>1. b \in Lineage(root) /\ row'[Fwd(b)] = row[Fwd(b)]
      BY <1>1, <1>7, <2>2
    <3> QED
      BY <1>2, <1>4, <1>6, <3>1
  <2>3. row'[Fwd(a)].attempt < Cardinality(Lineage(root)')
    BY <1>4
  <2> QED
    BY <2>1, <2>2, <2>3 DEF LineageInv
<1>9. ASSUME NEW b \in Actions \ {a} PROVE LineageInv(b)'
  <2> SUFFICES ASSUME Exists(b) PROVE LineageInv(b)'
    BY <1>7 DEF LineageInv
  <2>1. LineageInv(b) /\ row'[Fwd(b)] = row[Fwd(b)] /\ row[Fwd(b)].root \in Actions
    BY <1>1, <1>2 DEF AttemptsInv
  <2>2. Exists(row[Fwd(b)].root)'
    BY <1>7, <2>1 DEF LineageInv
  <2>3. row[Fwd(b)].attempt < Cardinality(Lineage(row[Fwd(b)].root)')
    <3>1. CASE row[Fwd(b)].root = root
      BY <1>2, <1>4, <2>1, <3>1 DEF LineageInv
    <3>2. CASE row[Fwd(b)].root # root
      BY <1>5, <2>1, <3>2 DEF LineageInv
    <3> QED
      BY <3>1, <3>2
  <2>4. ASSUME NEW c \in Actions \ {b}, Akin(b, c)'
        PROVE  /\ row'[Fwd(b)].attempt # row'[Fwd(c)].attempt
               /\ row'[Fwd(b)].attempt < row'[Fwd(c)].attempt =>
                    row'[Fwd(b)].status = "failed" \/ b \in disowned'
    <3>1. CASE c = a
      <4>1. b \in Lineage(root)
        BY <1>7, <2>4, <3>1
      <4> QED
        BY <1>2, <1>4, <1>6, <2>1, <3>1, <4>1
    <3>2. CASE c # a
      <4>1. Akin(b, c) /\ row'[Fwd(c)] = row[Fwd(c)]
        BY <1>1, <1>7, <2>4, <3>2
      <4> QED
        BY <2>1, <4>1 DEF LineageInv
    <3> QED
      BY <3>1, <3>2
  <2> QED
    BY <2>1, <2>2, <2>3, <2>4 DEF LineageInv
<1>10. ASSUME NEW r \in Actions PROVE ReviewInv(r)'
  <2>1. CASE r = root
    BY <2>1 DEF ReviewInv
  <2>2. CASE r # root
    <3> SUFFICES ASSUME preview[r].state \in {"verifying", "ready"} PROVE ReviewInv(r)'
      BY <2>2 DEF ReviewInv
    <3>1. PICK c \in Actions :
            /\ c = preview[r].current /\ Exists(c) /\ row[Fwd(c)].root = r
            /\ \A b \in Actions : Akin(c, b) => row[Fwd(b)].attempt <= row[Fwd(c)].attempt
      BY <1>2 DEF AttemptsInv, ReviewInv
    <3>2. c # a /\ row'[Fwd(c)] = row[Fwd(c)] /\ preview'[r].current = c
      BY <1>1, <2>2, <3>1 DEF Exists
    <3>3. c \notin Lineage(root)
      BY <2>2, <3>1 DEF Lineage
    <3>4. ASSUME NEW b \in Actions, Akin(c, b)'
          PROVE  row'[Fwd(b)].attempt <= row'[Fwd(c)].attempt
      <4>1. b # a
        BY <1>7, <3>2, <3>3, <3>4
      <4>2. Akin(c, b) /\ row'[Fwd(b)] = row[Fwd(b)]
        BY <1>1, <1>7, <3>2, <3>4, <4>1
      <4> QED
        BY <3>1, <3>2, <4>2
    <3>5. Exists(c)' /\ row'[Fwd(c)].root = r
      BY <1>7, <3>1, <3>2
    <3> QED
      BY <3>2, <3>4, <3>5 DEF ReviewInv
  <2> QED
    BY <2>1, <2>2
<1> QED
  BY <1>8, <1>9, <1>10

(* Nothing runs on the row that appears, and nothing has happened to it.   *)
LEMMA NewAttempt ==
  ASSUME IInv, UndoInv, AttemptsInv, NEW a \in Actions,
         row[Fwd(a)].status = "absent", OnlyRow(Fwd(a)), row'[Fwd(a)].status = "queued",
         UNCHANGED <<journal, applied, queue, wk, disowned>>,
         \A b \in Actions \ {a} : api'[Fwd(b)] = api[Fwd(b)],
         \A b \in Actions : LineageInv(b)' /\ ReviewInv(b)'
  PROVE  UndoInv' /\ AttemptsInv'
<1>1. \A b \in Actions \ {a} : row'[Fwd(b)] = row[Fwd(b)]
  BY DEF OnlyRow, Fwd, Jobs
<1>2. applied[a] = {} /\ journal[a] = NoEntry
  BY DEF IInv, ActionInv, Untouched
<1>3. ASSUME NEW u \in Workers PROVE SetInv(u)' /\ HeldInv(u)'
  <2>1. SetInv(u) /\ HeldInv(u) /\ wk'[u] = wk[u]
    BY DEF UndoInv, AttemptsInv
  <2>2. HeldInv(u)'
    BY <2>1 DEF HeldInv
  <2>3. CASE wk[u].pc \notin ForwardPoints
    <3>1. wk[u].pc \notin Resolved /\ wk[u].pc # "empty"
      BY <2>3 DEF ForwardPoints, Resolved
    <3> QED
      BY <2>1, <2>2, <2>3, <3>1 DEF SetInv
  <2>4. CASE wk[u].pc \in ForwardPoints
    <3>1. PICK b \in Actions : /\ wk[u].job = Fwd(b) /\ Row(u) = row[Fwd(b)]
                               /\ row[Fwd(b)].status # "absent"
      BY <2>4, Holder
    <3>2. Row(u)' = Row(u)
      BY <1>1, <2>1, <3>1 DEF Row, Job
    <3> QED
      BY <2>1, <2>2, <3>2 DEF SetInv
  <2> QED
    BY <2>3, <2>4
<1>4. ASSUME NEW b \in Actions PROVE CoveredInv(b)' /\ OverInv(b)' /\ EntryInv(b)'
  <2>1. CoveredInv(b) /\ OverInv(b) /\ EntryInv(b)
    BY DEF UndoInv, AttemptsInv
  <2>2. CASE b = a
    BY <1>2, <2>2 DEF CoveredInv, OverInv, EntryInv, NoEntry
  <2>3. CASE b # a
    <3>1. row'[Fwd(b)] = row[Fwd(b)] /\ api'[Fwd(b)] = api[Fwd(b)]
      BY <1>1, <2>3
    <3> QED
      BY <2>1, <3>1 DEF CoveredInv, OverInv, EntryInv, NoEntry
  <2> QED
    BY <2>2, <2>3
<1> QED
  BY <1>3, <1>4 DEF UndoInv, AttemptsInv

LEMMA ClickMore ==
  ASSUME IInv, UndoInv, AttemptsInv,
         NEW a \in Actions, NEW verb \in Verbs, NEW reach \in Reaches,
         NEW wake \in Wakes \cup {None}, NEW override \in BOOLEAN,
         Click(a, verb, reach, wake, override)
  PROVE  UndoInv' /\ AttemptsInv'
<1> DEFINE r == NewRow(a, verb, reach, wake)
<1>1. r \in Rows /\ r.status = "queued" /\ r.attempt = 0 /\ r.root = a
  BY SetsAssumption DEF NewRow, Rows, Codes, NoPlacement, Placements
<1>2. /\ Fwd(a) \in Jobs /\ row' = [row EXCEPT ![Fwd(a)] = r]
      /\ row[Fwd(a)].status = "absent"
  BY DEF Click, Fwd, Jobs
<1> HIDE DEF r
<1>3. OnlyRow(Fwd(a)) /\ row'[Fwd(a)] = r
  BY <1>1, <1>2 DEF IInv, TypeOK, OnlyRow
<1>4. \A b \in Actions : Exists(b) => row[Fwd(b)].root # a
  BY <1>2 DEF AttemptsInv, LineageInv, Exists
<1>5. Lineage(a) = {} /\ Cardinality(Lineage(a)) = 0
  <2>1. Lineage(a) = {}
    BY <1>4 DEF Lineage, Exists
  <2> QED
    BY <2>1, FS_EmptySet
<1>6. preview[a].state \notin {"verifying", "ready"}
  <2>1. preview[a].current \in Actions
    BY DEF IInv, TypeOK, Previews
  <2> QED
    BY <1>4, <2>1 DEF AttemptsInv, ReviewInv
<1>7. \A b \in Actions : LineageInv(b)' /\ ReviewInv(b)'
  BY <1>1, <1>2, <1>3, <1>5, <1>6, LineageGrows DEF Click
<1>8. \A b \in Actions \ {a} : api'[Fwd(b)] = api[Fwd(b)]
  BY DEF Click, IInv, TypeOK, Fwd, Jobs
<1> QED
  BY <1>1, <1>2, <1>3, <1>7, <1>8, NewAttempt DEF Click

LEMMA ConfirmReviewMore ==
  ASSUME IInv, UndoInv, AttemptsInv,
         NEW root \in Actions, NEW child \in Actions, NEW ack \in BOOLEAN,
         ConfirmReview(root, child, ack)
  PROVE  UndoInv' /\ AttemptsInv'
<1> DEFINE c == preview[root].current
           t == preview[root].target
           n == Cardinality(Lineage(root))
           r == [row[Fwd(c)] EXCEPT !.status = "queued", !.err = "none", !.ids = t,
                                    !.attempt = n, !.root = root]
           p == [preview[root] EXCEPT !.state = "consumed"]
<1>1. preview \in [Actions -> Previews] /\ preview[root] \in Previews /\ n \in Nat
  BY LineageFinite DEF IInv, TypeOK
<1>2. c \in Actions /\ row[Fwd(c)] \in Rows /\ t \in SUBSET Messages /\ p.state = "consumed"
  BY <1>1 DEF Previews, IInv, TypeOK, Fwd, Jobs
<1>3. row' = [row EXCEPT ![Fwd(child)] = r] /\ preview' = [preview EXCEPT ![root] = p]
  BY DEF ConfirmReview
<1>4. Exists(c) /\ row[Fwd(c)].root = root /\ row[Fwd(c)].status = "failed"
      /\ \A b \in Actions : Akin(c, b) => row[Fwd(b)].attempt <= row[Fwd(c)].attempt
  BY DEF AttemptsInv, ReviewInv, ConfirmReview
<1> HIDE DEF c, t, n, p
<1>5. r \in Rows /\ r.status = "queued" /\ r.attempt = n /\ r.root = root
  BY <1>1, <1>2 DEF Rows, Codes
<1> HIDE DEF r
<1>6. Fwd(child) \in Jobs /\ row[Fwd(child)].status = "absent"
  BY DEF ConfirmReview, Fwd, Jobs
<1>7. OnlyRow(Fwd(child)) /\ row'[Fwd(child)] = r
  BY <1>3, <1>5, <1>6 DEF IInv, TypeOK, OnlyRow
<1>8. ASSUME NEW b \in Lineage(root)
      PROVE  row[Fwd(b)].status = "failed" \/ b \in disowned
  <2>1. b \in Actions /\ Akin(c, b) /\ Akin(b, c)
    BY <1>4 DEF Lineage, Akin, Exists
  <2>2. CASE b = c
    BY <1>4, <2>2
  <2>3. CASE b # c
    <3>1. row[Fwd(b)].attempt \in Nat /\ row[Fwd(c)].attempt \in Nat
      BY <1>2, <2>1 DEF IInv, TypeOK, Fwd, Jobs, Rows
    <3>2. row[Fwd(b)].attempt <= row[Fwd(c)].attempt
      BY <1>4, <2>1
    <3>3. row[Fwd(b)].attempt # row[Fwd(c)].attempt
      BY <1>2, <1>4, <2>1, <2>3 DEF AttemptsInv, LineageInv, Akin
    <3>4. row[Fwd(b)].attempt < row[Fwd(c)].attempt
      BY <3>1, <3>2, <3>3
    <3> QED
      BY <1>2, <2>1, <2>3, <3>4 DEF AttemptsInv, LineageInv, Akin
  <2> QED
    BY <2>2, <2>3
<1>9. Exists(root)
  BY <1>2, <1>4 DEF AttemptsInv, LineageInv
<1>10. /\ preview'[root].state \notin {"verifying", "ready"}
       /\ \A s \in Actions \ {root} : preview'[s] = preview[s]
  BY <1>1, <1>2, <1>3
<1>11. \A b \in Actions : LineageInv(b)' /\ ReviewInv(b)'
  <2>1. r.attempt = Cardinality(Lineage(root))
    BY <1>5 DEF n
  <2> QED
    BY <1>5, <1>6, <1>7, <1>8, <1>9, <1>10, <2>1, LineageGrows DEF ConfirmReview
<1>12. \A b \in Actions \ {child} : api'[Fwd(b)] = api[Fwd(b)]
  BY DEF ConfirmReview, IInv, TypeOK, Fwd, Jobs
<1> QED
  BY <1>5, <1>6, <1>7, <1>11, <1>12, NewAttempt DEF ConfirmReview

(* A review opens on the latest attempt of its lineage, and stays on it.   *)
LEMMA ReviewMore ==
  ASSUME IInv, UndoInv, AttemptsInv,
         NEW a \in Actions, OpenReview(a) \/ VerifyReview(a) \/ CloseReview(a)
  PROVE  UndoInv' /\ AttemptsInv'
<1>1. UNCHANGED <<row, journal, applied, api, queue, wk, disowned>>
  BY DEF OpenReview, VerifyReview, CloseReview
<1>2. UndoInv'
  BY <1>1 DEF UndoInv, SetInv, CoveredInv, Row, Job
<1>3. preview \in [Actions -> Previews] /\ \A r \in Actions : preview[r] \in Previews
  BY DEF IInv, TypeOK
<1>4. \A b \in Actions : row[Fwd(b)].root \in Actions
  BY DEF IInv, TypeOK, Fwd, Jobs, Rows
<1>5. ASSUME NEW r \in Actions PROVE ReviewInv(r)'
  <2>1. ReviewInv(r)
    BY DEF AttemptsInv
  <2>2. CASE preview'[r] = preview[r]
    BY <1>1, <2>1, <2>2 DEF ReviewInv, Exists, Akin
  <2>3. CASE OpenReview(a) /\ preview'[r] # preview[r]
    <3> DEFINE p == [state |-> "verifying", current |-> a, target |-> {}]
    <3>1. preview' = [preview EXCEPT ![row[Fwd(a)].root] = p] /\ p.current = a
      BY <2>3 DEF OpenReview
    <3> HIDE DEF p
    <3>2. r = row[Fwd(a)].root /\ preview'[r].current = a
      BY <1>3, <1>4, <2>3, <3>1
    <3>3. Exists(a) /\ \A b \in Actions : Akin(a, b) => row[Fwd(b)].attempt <= row[Fwd(a)].attempt
      BY <2>3 DEF OpenReview, Reviewable, Lineage, Exists, Akin
    <3> QED
      BY <1>1, <3>2, <3>3 DEF ReviewInv, Exists, Akin
  <2>4. CASE (VerifyReview(a) \/ CloseReview(a)) /\ preview'[r] # preview[r]
    <3>1. /\ r = a /\ preview[a].state \in {"verifying", "ready"}
          /\ preview'[a].current = preview[a].current
      BY <1>3, <2>4 DEF VerifyReview, CloseReview, Previews
    <3> QED
      BY <1>1, <2>1, <3>1 DEF ReviewInv, Exists, Akin
  <2> QED
    BY <2>2, <2>3, <2>4
<1>6. ASSUME NEW b \in Actions PROVE OverInv(b)' /\ EntryInv(b)' /\ LineageInv(b)'
  <2>1. OverInv(b) /\ EntryInv(b) /\ LineageInv(b)
    BY DEF AttemptsInv
  <2> QED
    BY <1>1, <2>1 DEF OverInv, EntryInv, LineageInv, Exists, Akin, Lineage, NoEntry
<1>7. ASSUME NEW u \in Workers PROVE HeldInv(u)'
  BY <1>1 DEF AttemptsInv, HeldInv
<1> QED
  BY <1>2, <1>5, <1>6, <1>7 DEF AttemptsInv

(* A step of a worker that nothing disturbs.                               *)
LEMMA WorkerStepMore ==
  ASSUME IInv, UndoInv, AttemptsInv, NEW w \in Workers, WorkerStep(w)
  PROVE  UndoInv' /\ AttemptsInv'
<1>1. CASE AcquireLock(w) \/ SkipSettled(w) \/ StartForward(w) \/ StartReverse(w)
           \/ GetClient(w) \/ RequestLands(w) \/ ScheduleReturn(w)
           \/ ReverseLands(w) \/ CommitReverse(w) \/ Settle(w)
  <2>1. Calm
    BY <1>1, AcquireLockCalm, SkipSettledCalm, StartForwardCalm, StartReverseCalm,
       GetClientCalm, RequestLandsCalm, ScheduleReturnCalm, ReverseLandsCalm,
       CommitReverseCalm, SettleCalm
  <2> QED
    BY <2>1, CalmUndo, CalmAttempts
<1>2. CASE CheckProtected(w) \/ ResolveIds(w) \/ CommitEmpty(w) \/ MarkExecuting(w)
           \/ AssertNotProtected(w) \/ ResetRefused(w) \/ Commit(w) \/ RecordFailure(w)
  BY <1>2, CheckProtectedMore, ResolveIdsMore, CommitEmptyMore, MarkExecutingMore,
     AssertNotProtectedMore, ResetRefusedMore, CommitsMore, RecordFailureMore
<1> QED
  BY <1>1, <1>2 DEF WorkerStep

(* A step of a worker that fails.                                          *)
LEMMA WorkerFaultMore ==
  ASSUME IInv, UndoInv, AttemptsInv, NEW w \in Workers, WorkerFault(w)
  PROVE  UndoInv' /\ AttemptsInv'
<1>1. CASE ~CommitUnacknowledged(w)
  <2>1. Calm
    BY <1>1, LockTimesOutCalm, RecordFailureLostCalm, CrashCalm, RequestRefusedCalm,
       RequestUncertainCalm, DatabaseFailsCalm, ReverseFailsCalm DEF WorkerFault
  <2> QED
    BY <2>1, CalmUndo, CalmAttempts
<1> QED
  BY <1>1, CommitsMore

(* A step of the user, or of the sync.                                     *)
LEMMA UserStepMore ==
  ASSUME IInv, UndoInv, AttemptsInv, UserStep
  PROVE  UndoInv' /\ AttemptsInv'
<1>1. ASSUME SetProtected \/ \E m \in Messages : MoveMail(m) \/ SyncMessage(m)
      PROVE  UndoInv' /\ AttemptsInv'
  <2>1. UNCHANGED <<row, journal, applied, api, queue, wk, preview, disowned>>
    BY <1>1 DEF SetProtected, MoveMail, SyncMessage
  <2> QED
    BY <2>1, EnvironmentCalm, CalmUndo, CalmAttempts
<1>2. ASSUME NEW a \in Actions,
             \/ Undo(a) \/ ResetRevert(a)
             \/ \E ack \in BOOLEAN : ReplayConfirm(a, ack)
      PROVE  UndoInv' /\ AttemptsInv'
  <2>1. Calm
    BY <1>2, UndoCalm, ReplayConfirmCalm
  <2> QED
    BY <2>1, CalmUndo, CalmAttempts
<1> QED
  BY <1>1, <1>2, ClickMore, ConfirmReviewMore, ReviewMore DEF UserStep

(* Every step of every actor preserves both.                               *)
LEMMA MorePreserved == IInv /\ UndoInv /\ AttemptsInv /\ [Next]_vars => UndoInv' /\ AttemptsInv'
<1> SUFFICES ASSUME IInv, UndoInv, AttemptsInv, [Next]_vars PROVE UndoInv' /\ AttemptsInv'
  OBVIOUS
<1>1. ASSUME NEW j \in Jobs, ApiStep(j) \/ Stall(j) PROVE UndoInv' /\ AttemptsInv'
  <2>1. CASE ~EnqueueFailed(j)
    <3>1. Calm
      BY <1>1, <2>1, ApiCalm, StallCalm DEF ApiStep
    <3> QED
      BY <3>1, CalmUndo, CalmAttempts
  <2> QED
    BY <2>1, EnqueueFailedMore
<1>2. ASSUME NEW w \in Workers, NEW j \in Jobs, Take(w, j) PROVE UndoInv' /\ AttemptsInv'
  BY <1>2, TakeCalm, CalmUndo, CalmAttempts
<1>3. CASE UNCHANGED vars
  BY <1>3, EnvironmentCalm, CalmUndo, CalmAttempts DEF vars
<1> QED
  BY <1>1, <1>2, <1>3, WorkerStepMore, WorkerFaultMore, UserStepMore DEF Next

(* Before any click there is nothing to undo, and no attempt.              *)
LEMMA MoreEstablished == Init => UndoInv /\ AttemptsInv
<1> SUFFICES ASSUME Init PROVE UndoInv /\ AttemptsInv
  OBVIOUS
<1>1. \A w \in Workers : SetInv(w) /\ HeldInv(w)
  BY DEF Init, SetInv, HeldInv, IdleWorker, Resolved, ForwardPoints
<1>2. ASSUME NEW a \in Actions
      PROVE  CoveredInv(a) /\ OverInv(a) /\ EntryInv(a) /\ LineageInv(a) /\ ReviewInv(a)
  <2>1. row[Fwd(a)].status = "absent"
    BY DEF Init, AbsentRow, Fwd, Jobs
  <2>2. applied[a] = {} /\ journal[a] = NoEntry /\ preview[a].state = "none"
    BY DEF Init, NoPreview
  <2> QED
    BY <2>1, <2>2 DEF CoveredInv, OverInv, EntryInv, LineageInv, ReviewInv, Exists
<1> QED
  BY <1>1, <1>2 DEF UndoInv, AttemptsInv

LEMMA MoreInvariance == Spec => [](IInv /\ UndoInv /\ AttemptsInv)
<1>1. Init => UndoInv /\ AttemptsInv
  BY MoreEstablished
<1>2. IInv /\ (UndoInv /\ AttemptsInv) /\ [Next]_vars => (UndoInv /\ AttemptsInv)'
  BY MorePreserved
<1> QED
  BY <1>1, <1>2, Invariance, PTL DEF Spec

(* Whatever an action changed in Gmail, over all its attempts and          *)
(* deliveries, is in the set it saved, and once the row is done there is   *)
(* an Undo of it (handleLabelAction, recordDone).                          *)
THEOREM UndoCovers == Spec => []ChangedIsUndoable
<1>1. UndoInv => ChangedIsUndoable
  BY DEF UndoInv, CoveredInv, ChangedIsUndoable
<1> QED
  BY <1>1, MoreInvariance, PTL

(* A decision and its reviewed retries issue one Undo between them, unless *)
(* one of two attempts was marked failed while a run of it was not over    *)
(* (createPreview, confirm and the worker's replay of a settled row).      *)
THEOREM OneSucceeds == Spec => []OneAttemptSucceeds
<1>1. ASSUME IInv, AttemptsInv,
             NEW a \in Actions, NEW b \in Actions, journal[a] # NoEntry, journal[b] # NoEntry,
             row[Fwd(a)].root = row[Fwd(b)].root, a # b, a \notin disowned, b \notin disowned
      PROVE  FALSE
  <2>1. row[Fwd(a)].status = "done" /\ row[Fwd(b)].status = "done"
    BY <1>1 DEF AttemptsInv, EntryInv
  <2>2. Exists(a) /\ Exists(b) /\ Akin(a, b) /\ Akin(b, a)
    BY <1>1, <2>1 DEF Exists, Akin
  <2>3. row[Fwd(a)].attempt \in Nat /\ row[Fwd(b)].attempt \in Nat
    BY <1>1 DEF IInv, TypeOK, Fwd, Jobs, Rows
  <2>4. CASE row[Fwd(a)].attempt < row[Fwd(b)].attempt
    BY <1>1, <2>1, <2>2, <2>4 DEF AttemptsInv, LineageInv
  <2>5. CASE row[Fwd(b)].attempt < row[Fwd(a)].attempt
    BY <1>1, <2>1, <2>2, <2>5 DEF AttemptsInv, LineageInv
  <2>6. row[Fwd(a)].attempt # row[Fwd(b)].attempt
    BY <1>1, <2>2 DEF AttemptsInv, LineageInv
  <2> QED
    BY <2>3, <2>4, <2>5, <2>6
<1>2. IInv /\ UndoInv /\ AttemptsInv => OneAttemptSucceeds
  BY <1>1 DEF OneAttemptSucceeds
<1> QED
  BY <1>2, MoreInvariance, PTL

-------------------------------------------------------------------------------
(* The placement of a Delete: a fourth invariant.                          *)

(* Only Delete and its Undo move mail.                                     *)
OnlyDeletes == Verbs \subseteq {"delete"} /\ ~MayMove

(* No attempt of the lineage was marked failed before its run.             *)
Clear(root) == Lineage(root) \cap disowned = {}

(* A stored placement covers the set of its row ...                        *)
ScopedInv(a) ==
  row[Fwd(a)].undo.state # "none" /\ Clear(row[Fwd(a)].root) =>
    row[Fwd(a)].ids # {} /\ row[Fwd(a)].ids \subseteq row[Fwd(a)].undo.ids

(* ... and the set a review offers for a retry of it.                      *)
TargetInv(root) ==
  preview[root].state = "ready" /\ Clear(root) =>
    LET r == row[Fwd(preview[root].current)]
    IN /\ r.status = "failed"
       /\ r.undo.state = "none" \/ preview[root].target \subseteq r.undo.ids

(* What a worker has sent, and what it has left.                           *)
ProgressInv(w) ==
  /\ wk[w].pc \in Resolved => Row(w).ids \ wk[w].todo \subseteq applied[Act(w)]
  /\ wk[w].pc = "commit" => wk[w].todo = {}
  /\ Sent(w) /\ Row(w).verb = "delete" => Row(w).ids \subseteq Row(w).undo.ids
  /\ wk[w].pc = "revsend" => wk[w].todo \subseteq Row(w).ids
  /\ wk[w].pc = "revcommit" => wk[w].todo = {}

(* Undo is offered, and requested, for messages the action changed.        *)
UndoneInv(a) ==
  /\ journal[a] # NoEntry => row[Fwd(a)].ids \subseteq applied[a]
  /\ row[Rev(a)].status # "absent" => row[Rev(a)].ids \subseteq applied[a]
  /\ journal[a].inbox \subseteq row[Fwd(a)].ids

ScopeInv ==
  /\ \A a \in Actions : ScopedInv(a) /\ TargetInv(a) /\ UndoneInv(a)
  /\ \A w \in Workers : ProgressInv(w)

(* Another decision, or an attempt marked failed before its run, touched   *)
(* the message.                                                            *)
Spoiled(m, root) ==
  \E b \in Actions : m \in applied[b] /\ (row[Fwd(b)].root # root \/ b \in disowned)

Superseded(a) ==
  \E b \in Actions : Akin(a, b) /\ row[Fwd(a)].attempt < row[Fwd(b)].attempt

(* What a row measured is where the messages were at the start, unless it  *)
(* was measured by a run that nobody expected any more.                    *)
MeasuredInv(a) ==
  row[Fwd(a)].undo.state = "known" /\ (a \in disowned => ~Superseded(a)) =>
    \A m \in row[Fwd(a)].undo.ids :
      (m \in row[Fwd(a)].undo.inbox <=> m \in home) \/ Spoiled(m, row[Fwd(a)].root)

RecordedInv(a) ==
  /\ journal[a].inbox \subseteq home
  /\ journal[a].known =>
       \A m \in row[Fwd(a)].ids :
         (m \in journal[a].inbox <=> m \in home) \/ Spoiled(m, row[Fwd(a)].root)

RowHomeInv(j) ==
  /\ row[j].undo.inbox \subseteq home
  /\ row[j].status # "absent" => row[j].verb = "delete"

(* A message no request touched is where it was, in Gmail and the mirror.  *)
PristineInv(m) ==
  (\A b \in Actions : m \notin applied[b]) =>
    /\ "INBOX" \in gmail[m] <=> m \in home
    /\ "INBOX" \in mirror[m] <=> m \in home

(* A requested Undo places the message in the inbox.                       *)
Placed(m) ==
  \E b \in Actions : row[Rev(b)].status # "absent" /\ m \in row[Rev(b)].ids
                     /\ m \in journal[b].inbox

(* A message in the inbox was there at the start, and if a request touched *)
(* it an Undo put it back.                                                 *)
InboxInv(m) ==
  /\ "INBOX" \in gmail[m] => m \in home
  /\ "INBOX" \in gmail[m] /\ (\E b \in Actions : m \in applied[b]) => Placed(m)
  /\ "INBOX" \in mirror[m] => m \in home

(* What an Undo has sent so far is restored.                               *)
RestoredInv(w) ==
  wk[w].pc \in ReversePoints =>
    \A m \in Row(w).ids \ wk[w].todo :
      "TRASH" \notin gmail[m] /\ (m \in ToInbox(w) => "INBOX" \in gmail[m])

TruthInv ==
  /\ \A a \in Actions : MeasuredInv(a) /\ RecordedInv(a)
  /\ \A j \in Jobs : RowHomeInv(j)
  /\ \A m \in Messages : PristineInv(m) /\ InboxInv(m)
  /\ \A w \in Workers : RestoredInv(w)

PlacedInv == ScopeInv /\ (OnlyDeletes => TruthInv)

Whole == IInv /\ UndoInv /\ AttemptsInv /\ PlacedInv

-------------------------------------------------------------------------------
(* What stands, part by part.                                              *)

(* Nothing a step does is taken back: applied messages, disowned actions   *)
(* and the place of an attempt in its lineage stay.                        *)
Grows ==
  /\ home' = home /\ disowned \subseteq disowned'
  /\ \A a \in Actions : applied[a] \subseteq applied'[a]
  /\ \A a \in Actions : Exists(a) => /\ row'[Fwd(a)].status # "absent"
                                     /\ row'[Fwd(a)].root = row[Fwd(a)].root
                                     /\ row'[Fwd(a)].attempt = row[Fwd(a)].attempt

(* The set, the placement and the lineage of a row stand.                  *)
SameScope(j) ==
  /\ row'[j].ids = row[j].ids /\ row'[j].undo = row[j].undo
  /\ row'[j].root = row[j].root /\ row'[j].verb = row[j].verb
  /\ row'[j].status = "absent" <=> row[j].status = "absent"

(* A failed attempt stays failed with the placement it has, or is disowned. *)
FailedStands ==
  \A a \in Actions : row[Fwd(a)].status = "failed" =>
    a \in disowned' \/ (row'[Fwd(a)].status = "failed" /\ row'[Fwd(a)].undo = row[Fwd(a)].undo)

LEMMA Monotone ==
  ASSUME IInv, Grows
  PROVE  /\ \A root : Lineage(root) \subseteq Lineage(root)' /\ (Clear(root)' => Clear(root))
         /\ \A m, root : Spoiled(m, root) => Spoiled(m, root)'
         /\ \A a \in Actions : Superseded(a) => Superseded(a)'
<1>1. \A root : Lineage(root) \subseteq Lineage(root)'
  BY DEF Grows, Lineage, Exists
<1>2. \A root : Clear(root)' => Clear(root)
  BY <1>1 DEF Clear, Grows
<1>3. ASSUME NEW m, NEW root, Spoiled(m, root) PROVE Spoiled(m, root)'
  <2>1. PICK b \in Actions : m \in applied[b] /\ (row[Fwd(b)].root # root \/ b \in disowned)
    BY <1>3 DEF Spoiled
  <2>2. Exists(b)
    BY <2>1 DEF IInv, ActionInv, Untouched, Exists
  <2> QED
    BY <2>1, <2>2 DEF Grows, Spoiled
<1>4. ASSUME NEW a \in Actions, Superseded(a) PROVE Superseded(a)'
  <2>1. PICK b \in Actions : Akin(a, b) /\ row[Fwd(a)].attempt < row[Fwd(b)].attempt
    BY <1>4 DEF Superseded
  <2>2. Akin(a, b)' /\ row'[Fwd(a)].attempt < row'[Fwd(b)].attempt
    BY <2>1 DEF Grows, Akin, Exists
  <2> QED
    BY <2>2 DEF Superseded
<1> QED
  BY <1>1, <1>2, <1>3, <1>4

LEMMA ScopedStands ==
  ASSUME IInv, Grows, NEW a \in Actions, ScopedInv(a), SameScope(Fwd(a))
  PROVE  ScopedInv(a)'
<1>1. PICK r : r = row[Fwd(a)].root
  OBVIOUS
<1>2. (Clear(r)' => Clear(r)) /\ row'[Fwd(a)].root = r
  BY <1>1, Monotone DEF SameScope
<1> QED
  BY <1>1, <1>2 DEF ScopedInv, SameScope

LEMMA TargetsStand ==
  ASSUME IInv, AttemptsInv, ScopeInv, Grows, FailedStands, NEW root \in Actions,
         preview'[root] = preview[root]
  PROVE  TargetInv(root)'
<1> SUFFICES ASSUME preview[root].state = "ready", Clear(root)' PROVE TargetInv(root)'
  BY DEF TargetInv
<1>1. PICK c \in Actions : /\ c = preview[root].current /\ Exists(c) /\ row[Fwd(c)].root = root
  BY DEF AttemptsInv, ReviewInv, IInv, TypeOK, Previews
<1>2. Clear(root) /\ c \in Lineage(root)'
  <2>1. c \in Lineage(root)
    BY <1>1 DEF Lineage, Exists
  <2> QED
    BY <2>1, Monotone
<1>3. c \notin disowned'
  BY <1>2 DEF Clear
<1>4. /\ row[Fwd(c)].status = "failed"
      /\ row[Fwd(c)].undo.state = "none" \/ preview[root].target \subseteq row[Fwd(c)].undo.ids
  BY <1>1, <1>2 DEF ScopeInv, TargetInv
<1>5. row'[Fwd(c)].status = "failed" /\ row'[Fwd(c)].undo = row[Fwd(c)].undo
  BY <1>3, <1>4 DEF FailedStands
<1> QED
  BY <1>1, <1>4, <1>5 DEF TargetInv

LEMMA UndoneStands ==
  ASSUME Grows, NEW a \in Actions, UndoneInv(a), SameScope(Fwd(a)),
         journal'[a] = journal[a],
         row'[Rev(a)].status # "absent" =>
            row[Rev(a)].status # "absent" /\ row'[Rev(a)].ids = row[Rev(a)].ids
  PROVE  UndoneInv(a)'
  BY DEF UndoneInv, Grows, SameScope, NoEntry

(* A worker that neither sends nor restores.                               *)
LEMMA ProgressOutside ==
  ASSUME NEW u \in Workers, wk'[u].pc \notin Resolved, wk'[u].pc \notin ReversePoints
  PROVE  ProgressInv(u)' /\ RestoredInv(u)'
<1>1. /\ wk'[u].pc \notin {"send", "refused", "timer", "commit", "hook"}
      /\ wk'[u].pc \notin {"revsend", "revcommit"}
  BY DEF Resolved, ReversePoints
<1> QED
  BY <1>1 DEF ProgressInv, RestoredInv, Sent, Resolved, ReversePoints

LEMMA MeasuredStands ==
  ASSUME IInv, Grows, NEW a \in Actions, MeasuredInv(a), SameScope(Fwd(a))
  PROVE  MeasuredInv(a)'
<1>1. Superseded(a) => Superseded(a)'
  BY Monotone
<1>2. PICK r : r = row[Fwd(a)].root
  OBVIOUS
<1>3. \A m : Spoiled(m, r) => Spoiled(m, r)'
  BY Monotone
<1>4. row'[Fwd(a)].root = r /\ row'[Fwd(a)].undo = row[Fwd(a)].undo
  BY <1>2 DEF SameScope
<1> QED
  BY <1>1, <1>2, <1>3, <1>4 DEF MeasuredInv, Grows

LEMMA RecordedStands ==
  ASSUME IInv, Grows, NEW a \in Actions, RecordedInv(a), SameScope(Fwd(a)),
         journal'[a].known = journal[a].known, journal'[a].inbox = journal[a].inbox
  PROVE  RecordedInv(a)'
<1>1. PICK r : r = row[Fwd(a)].root
  OBVIOUS
<1>2. \A m : Spoiled(m, r) => Spoiled(m, r)'
  BY Monotone
<1>3. row'[Fwd(a)].root = r /\ row'[Fwd(a)].ids = row[Fwd(a)].ids
  BY <1>1 DEF SameScope
<1> QED
  BY <1>1, <1>2, <1>3 DEF RecordedInv, Grows

LEMMA RowHomeStands ==
  ASSUME Grows, NEW j \in Jobs, RowHomeInv(j), SameScope(j)
  PROVE  RowHomeInv(j)'
  BY DEF RowHomeInv, SameScope, Grows

(* A message that does not move, and that no request touches anew.         *)
LEMMA MessageStands ==
  ASSUME Grows, NEW m \in Messages, gmail'[m] = gmail[m], mirror'[m] = mirror[m],
         \A b \in Actions : m \in applied'[b] <=> m \in applied[b],
         Placed(m) => Placed(m)', PristineInv(m), InboxInv(m)
  PROVE  PristineInv(m)' /\ InboxInv(m)'
  BY DEF PristineInv, InboxInv, Grows

-------------------------------------------------------------------------------
(* Quiet steps: they move no mail, and change no set and no placement.     *)

QuietWorker(w) ==
  \/ wk'[w].pc \notin Resolved /\ wk'[w].pc \notin ReversePoints
  \/ /\ wk'[w].job = wk[w].job /\ wk'[w].todo = wk[w].todo
     /\ wk'[w].pc \in Resolved => wk[w].pc \in Resolved
     /\ wk'[w].pc = "commit" => wk[w].todo = {}
     /\ Sent(w)' => Sent(w)
     /\ wk'[w].pc \in ReversePoints => wk'[w].pc = wk[w].pc
  \/ /\ wk'[w].job = wk[w].job /\ wk[w].job \in Jobs
     /\ wk'[w].pc = "revsend" /\ wk'[w].todo = Row(w).ids

QuietRows ==
  FailedStands /\ \A j \in Jobs : SameScope(j) /\ row'[j].attempt = row[j].attempt

Quiet ==
  /\ UNCHANGED <<gmail, mirror, journal, applied, home>> /\ disowned \subseteq disowned'
  /\ QuietRows
  /\ \A w \in Workers : QuietWorker(w)

LEMMA QuietGrows ==
  ASSUME Quiet
  PROVE  Grows
<1>1. \A a \in Actions : Fwd(a) \in Jobs
  BY DEF Fwd, Jobs
<1> QED
  BY <1>1 DEF Quiet, QuietRows, SameScope, Grows, Exists

LEMMA QuietWorkers ==
  ASSUME IInv, Quiet, NEW w \in Workers
  PROVE  /\ ProgressInv(w) => ProgressInv(w)'
         /\ RestoredInv(w) => RestoredInv(w)'
<1>1. CASE wk'[w].pc \notin Resolved /\ wk'[w].pc \notin ReversePoints
  BY <1>1, ProgressOutside
<1>3. CASE /\ wk'[w].job = wk[w].job /\ wk[w].job \in Jobs
           /\ wk'[w].pc = "revsend" /\ wk'[w].todo = Row(w).ids
  <2>1. Row(w)'.ids = Row(w).ids
    BY <1>3 DEF Quiet, QuietRows, SameScope, Row, Job
  <2>2. wk'[w].pc \notin Resolved /\ wk'[w].pc \notin {"send", "refused", "timer", "commit", "hook"}
    BY <1>3 DEF Resolved
  <2> QED
    BY <1>3, <2>1, <2>2 DEF ProgressInv, RestoredInv, Sent
<1>2. CASE /\ wk'[w].pc \in Resolved \/ wk'[w].pc \in ReversePoints
           /\ ~(/\ wk'[w].job = wk[w].job /\ wk[w].job \in Jobs
                /\ wk'[w].pc = "revsend" /\ wk'[w].todo = Row(w).ids)
  <2>1. /\ wk'[w].job = wk[w].job /\ wk'[w].todo = wk[w].todo
        /\ wk'[w].pc \in Resolved => wk[w].pc \in Resolved
        /\ wk'[w].pc = "commit" => wk[w].todo = {}
        /\ Sent(w)' => Sent(w)
        /\ wk'[w].pc \in ReversePoints => wk'[w].pc = wk[w].pc
    BY <1>2 DEF Quiet, QuietWorker
  <2>2. wk[w].job \in Jobs
    <3>1. wk[w].pc # "idle"
      BY <1>2, <2>1 DEF Resolved, ReversePoints
    <3> QED
      BY <3>1 DEF IInv, WorkerInv
  <2>3. /\ Row(w)'.ids = Row(w).ids /\ Row(w)'.undo = Row(w).undo /\ Row(w)'.verb = Row(w).verb
        /\ Act(w)' = Act(w)
    BY <2>1, <2>2 DEF Quiet, QuietRows, SameScope, Row, Act, Job
  <2>4. ToInbox(w)' = ToInbox(w) /\ UNCHANGED <<gmail, applied>>
    BY <2>3 DEF ToInbox, Quiet
  <2>5. ProgressInv(w) => ProgressInv(w)'
    BY <2>1, <2>3, <2>4 DEF ProgressInv, ReversePoints
  <2>6. RestoredInv(w) => RestoredInv(w)'
    BY <2>1, <2>3, <2>4 DEF RestoredInv, ReversePoints
  <2> QED
    BY <2>5, <2>6
<1> QED
  BY <1>1, <1>2, <1>3

LEMMA QuietPlaced ==
  ASSUME Whole, Quiet,
         \A r \in Actions : preview'[r] = preview[r] \/ TargetInv(r)'
  PROVE  PlacedInv'
<1>1. IInv /\ AttemptsInv /\ ScopeInv /\ (OnlyDeletes => TruthInv) /\ Grows
  BY QuietGrows DEF Whole, PlacedInv
<1>2. \A a \in Actions : Fwd(a) \in Jobs /\ Rev(a) \in Jobs
  BY DEF Fwd, Rev, Jobs
<1>3. ScopeInv'
  <2>1. ASSUME NEW a \in Actions PROVE ScopedInv(a)' /\ TargetInv(a)' /\ UndoneInv(a)'
    <3>1. ScopedInv(a) /\ UndoneInv(a) /\ SameScope(Fwd(a)) /\ SameScope(Rev(a))
      BY <1>1, <1>2 DEF ScopeInv, Quiet, QuietRows
    <3>2. ScopedInv(a)'
      BY <1>1, <3>1, ScopedStands
    <3>3. TargetInv(a)'
      BY <1>1, TargetsStand DEF Quiet, QuietRows
    <3>4. UndoneInv(a)'
      <4>1. row'[Rev(a)].status # "absent" =>
              row[Rev(a)].status # "absent" /\ row'[Rev(a)].ids = row[Rev(a)].ids
        BY <3>1 DEF SameScope
      <4> QED
        BY <1>1, <3>1, <4>1, UndoneStands DEF Quiet
    <3> QED
      BY <3>2, <3>3, <3>4
  <2>2. \A w \in Workers : ProgressInv(w)'
    BY <1>1, QuietWorkers DEF ScopeInv
  <2> QED
    BY <2>1, <2>2 DEF ScopeInv
<1>4. ASSUME TruthInv PROVE TruthInv'
  <2>1. ASSUME NEW a \in Actions PROVE MeasuredInv(a)' /\ RecordedInv(a)'
    <3>1. MeasuredInv(a) /\ RecordedInv(a) /\ SameScope(Fwd(a))
      BY <1>2, <1>4 DEF TruthInv, Quiet, QuietRows
    <3> QED
      BY <1>1, <3>1, MeasuredStands, RecordedStands DEF Quiet
  <2>2. \A j \in Jobs : RowHomeInv(j)'
    BY <1>1, <1>4, RowHomeStands DEF TruthInv, Quiet, QuietRows
  <2>3. ASSUME NEW m \in Messages PROVE PristineInv(m)' /\ InboxInv(m)'
    <3>1. Placed(m) => Placed(m)'
      BY <1>2 DEF Placed, Quiet, QuietRows, SameScope
    <3> QED
      BY <1>1, <1>4, <3>1, MessageStands DEF TruthInv, Quiet
  <2>4. \A w \in Workers : RestoredInv(w)'
    BY <1>1, <1>4, QuietWorkers DEF TruthInv
  <2> QED
    BY <2>1, <2>2, <2>3, <2>4 DEF TruthInv
<1>5. OnlyDeletes' <=> OnlyDeletes
  BY DEF OnlyDeletes
<1> QED
  BY <1>1, <1>3, <1>4, <1>5 DEF PlacedInv

-------------------------------------------------------------------------------
(* Which steps are quiet.                                                  *)

(* A write of a row that keeps its set, its placement and its lineage, and *)
(* takes no failure back that stands.                                      *)
QuietWrite(j) ==
  /\ OnlyRow(j) /\ SameScope(j) /\ row'[j].attempt = row[j].attempt
  /\ Forward(j) /\ row[j].status = "failed" => row'[j].status = "failed" \/ j[1] \in disowned'

(* A worker, or a write of a row, moves quietly, and the reviews stand.    *)
LEMMA QuietStep ==
  ASSUME Whole, UNCHANGED <<gmail, mirror, journal, applied, home, preview>>,
         disowned \subseteq disowned',
         row' = row \/ \E j \in Jobs : QuietWrite(j),
         wk' = wk \/ \E w \in Workers : OnlyWorker(w) /\ QuietWorker(w)
  PROVE  PlacedInv'
<1>1. QuietRows
  <2>1. CASE row' = row
    <3>1. \A j \in Jobs : SameScope(j) /\ row'[j].attempt = row[j].attempt
      BY <2>1 DEF SameScope
    <3>2. FailedStands
      BY <2>1 DEF FailedStands
    <3> QED
      BY <3>1, <3>2 DEF QuietRows
  <2>2. ASSUME NEW j \in Jobs, QuietWrite(j) PROVE QuietRows
    <3>1. ASSUME NEW i \in Jobs PROVE SameScope(i) /\ row'[i].attempt = row[i].attempt
      <4>1. CASE i = j
        BY <2>2, <4>1 DEF QuietWrite
      <4>2. CASE i # j
        BY <2>2, <4>2 DEF QuietWrite, OnlyRow, SameScope
      <4> QED
        BY <4>1, <4>2
    <3>2. ASSUME NEW a \in Actions, row[Fwd(a)].status = "failed"
          PROVE  a \in disowned' \/ (row'[Fwd(a)].status = "failed"
                                     /\ row'[Fwd(a)].undo = row[Fwd(a)].undo)
      <4>1. Fwd(a) \in Jobs /\ Forward(Fwd(a)) /\ Fwd(a)[1] = a
        BY DEF Fwd, Jobs, Forward
      <4>2. row'[Fwd(a)].undo = row[Fwd(a)].undo
        BY <3>1, <4>1 DEF SameScope
      <4>3. CASE Fwd(a) = j
        <5>1. Forward(j) /\ j[1] = a /\ row[j].status = "failed"
          BY <4>1, <4>3, <3>2
        <5>2. row'[j].status = "failed" \/ a \in disowned'
          BY <2>2, <5>1 DEF QuietWrite
        <5> QED
          BY <4>2, <4>3, <5>2
      <4>4. CASE Fwd(a) # j
        BY <2>2, <3>2, <4>1, <4>4 DEF QuietWrite, OnlyRow
      <4> QED
        BY <4>3, <4>4
    <3> QED
      BY <3>1, <3>2 DEF QuietRows, FailedStands
  <2> QED
    BY <2>1, <2>2
<1>2. ASSUME NEW u \in Workers, wk'[u] = wk[u] PROVE QuietWorker(u)
  <2>1. ProgressInv(u)
    BY DEF Whole, PlacedInv, ScopeInv
  <2> QED
    BY <1>2, <2>1 DEF QuietWorker, ProgressInv, Sent
<1>3. \A u \in Workers : QuietWorker(u)
  BY <1>2 DEF OnlyWorker
<1> QED
  BY <1>1, <1>3, QuietPlaced DEF Quiet

(* The writes of a status and an error code.                               *)
LEMMA MarkIsQuiet ==
  ASSUME IInv, NEW j \in Jobs, row[j].status # "absent",
         NEW s \in {"queued", "executing", "done", "failed"}, NEW e \in Codes,
         row' = [row EXCEPT ![j] = [row[j] EXCEPT !.status = s, !.err = e]],
         Forward(j) /\ row[j].status = "failed" => s = "failed" \/ j[1] \in disowned'
  PROVE  QuietWrite(j)
<1> DEFINE r == [row[j] EXCEPT !.status = s, !.err = e]
<1>1. row \in [Jobs -> Rows] /\ row[j] \in Rows
  BY DEF IInv, TypeOK
<1>2. /\ r \in Rows /\ r.status = s /\ r.ids = row[j].ids /\ r.undo = row[j].undo
      /\ r.root = row[j].root /\ r.verb = row[j].verb /\ r.attempt = row[j].attempt
  BY <1>1 DEF Rows
<1>3. row' = [row EXCEPT ![j] = r]
  OBVIOUS
<1> HIDE DEF r
<1>4. OnlyRow(j) /\ row'[j] = r
  BY <1>1, <1>2, <1>3 DEF OnlyRow
<1>5. SameScope(j)
  BY <1>2, <1>4 DEF SameScope
<1> QED
  BY <1>2, <1>4, <1>5 DEF QuietWrite

(* A failed row that still runs forward was disowned.                      *)
LEMMA RunsDisowned ==
  ASSUME IInv, AttemptsInv, NEW w \in Workers, wk[w].pc \in ForwardPoints
  PROVE  Row(w).status = "failed" => Act(w) \in disowned
<1>1. PICK a \in Actions : wk[w].job = Fwd(a) /\ Act(w) = a /\ Row(w) = row[Fwd(a)]
  BY Holder
<1>2. OverInv(a)
  BY DEF AttemptsInv
<1> QED
  BY <1>1, <1>2 DEF OverInv

LEMMA LeavesQuietly ==
  ASSUME NEW w \in Workers, Leaves(w)
  PROVE  OnlyWorker(w) /\ QuietWorker(w)
  BY DEF Leaves, QuietWorker, Resolved, ReversePoints

LEMMA LeavesPlaced ==
  ASSUME Whole, NEW w \in Workers, Leaves(w),
         UNCHANGED <<gmail, mirror, row, journal, preview, applied, home, disowned>>
  PROVE  PlacedInv'
  BY LeavesQuietly, QuietStep

(* The holder of the lock leaves with a word on its row.                   *)
LEMMA LeavesMarked ==
  ASSUME Whole, NEW w \in Workers, wk[w].pc \in ForwardPoints, Leaves(w),
         NEW s \in {"queued", "done", "failed"}, NEW e \in Codes,
         row' = [row EXCEPT ![Job(w)] = [Row(w) EXCEPT !.status = s, !.err = e]],
         UNCHANGED <<gmail, mirror, journal, preview, applied, home, disowned>>
  PROVE  PlacedInv'
<1>1. IInv /\ AttemptsInv
  BY DEF Whole
<1>2. PICK a \in Actions : /\ wk[w].job = Fwd(a) /\ Act(w) = a /\ Row(w) = row[Fwd(a)]
                           /\ Fwd(a) \in Jobs /\ row[Fwd(a)].status # "absent"
  BY <1>1, Holder
<1>3. Fwd(a)[1] = a /\ (row[Fwd(a)].status = "failed" => a \in disowned')
  BY <1>1, <1>2, RunsDisowned DEF Fwd
<1>4. QuietWrite(Fwd(a))
  BY <1>1, <1>2, <1>3, MarkIsQuiet DEF Job
<1> QED
  BY <1>2, <1>4, LeavesQuietly, QuietStep

LEMMA StopProtectedPlaced ==
  ASSUME Whole, NEW w \in Workers, wk[w].pc \in ForwardPoints, StopProtected(w),
         UNCHANGED <<gmail, mirror, journal, preview, applied, home, disowned>>
  PROVE  PlacedInv'
<1>1. Leaves(w)
  BY ReturnEffect DEF StopProtected, Whole, IInv
<1>2. CASE wk[w].clean /\ ~wk[w].landed /\ Row(w).attempt = 0
  BY <1>1, <1>2, LeavesMarked DEF StopProtected, StoppedRow, Codes
<1>3. CASE ~(wk[w].clean /\ ~wk[w].landed /\ Row(w).attempt = 0)
  BY <1>1, <1>3, LeavesMarked DEF StopProtected, StoppedRow, Codes
<1> QED
  BY <1>2, <1>3

LEMMA CommitEmptyPlaced ==
  ASSUME Whole, NEW w \in Workers, CommitEmpty(w)
  PROVE  PlacedInv'
<1>1. Leaves(w) /\ wk[w].pc \in ForwardPoints
  BY ReturnEffect DEF CommitEmpty, Whole, IInv, ForwardPoints
<1>2. PICK a \in Actions : Job(w) = Fwd(a) /\ Row(w) = row[Fwd(a)] /\ row[Fwd(a)] \in Rows
  BY <1>1, Holder DEF Whole, Job
<1>3. row' = [row EXCEPT ![Job(w)] = [Row(w) EXCEPT !.status = "done", !.err = Row(w).err]]
  BY <1>2 DEF CommitEmpty, Rows
<1>4. Row(w).err \in Codes
  BY <1>2 DEF Rows
<1> QED
  BY <1>1, <1>3, <1>4, LeavesMarked DEF CommitEmpty

LEMMA ResetRefusedPlaced ==
  ASSUME Whole, NEW w \in Workers, ResetRefused(w)
  PROVE  PlacedInv'
<1>1. wk[w].pc \in ForwardPoints
  BY DEF ResetRefused, ForwardPoints
<1>2. PICK a \in Actions : /\ Job(w) = Fwd(a) /\ Row(w) = row[Fwd(a)] /\ row[Fwd(a)] \in Rows
                           /\ wk[w] \in WorkerStates
  BY <1>1, Holder DEF Whole, Job
<1>3. Leaves(w)
  BY <1>2, ThrowEffect DEF ResetRefused, Whole, IInv, WorkerStates
<1>4. CASE row' = row
  BY <1>3, <1>4, LeavesPlaced DEF ResetRefused
<1>5. CASE row' # row
  <2>1. row' = [row EXCEPT ![Job(w)] = [Row(w) EXCEPT !.status = "queued", !.err = Row(w).err]]
    BY <1>2, <1>5 DEF ResetRefused, Rows
  <2>2. Row(w).err \in Codes
    BY <1>2 DEF Rows
  <2> QED
    BY <1>1, <1>3, <2>1, <2>2, LeavesMarked DEF ResetRefused
<1> QED
  BY <1>4, <1>5

(* A worker's program counter alone moves.                                 *)
LEMMA GotoPlaced ==
  ASSUME Whole, NEW w \in Workers, NEW pc \in Points, Goto(w, pc),
         pc \in Resolved => wk[w].pc \in Resolved,
         pc = "commit" => wk[w].todo = {},
         pc \in {"send", "refused", "timer", "commit"} => Sent(w),
         pc = "hook" /\ wk[w].landed => Sent(w), pc \notin ReversePoints,
         UNCHANGED <<gmail, mirror, row, journal, preview, applied, home, disowned>>
  PROVE  PlacedInv'
<1>1. wk[w] \in WorkerStates /\ wk' = [wk EXCEPT ![w] = [wk[w] EXCEPT !.pc = pc]]
  BY DEF Whole, IInv, TypeOK, Goto
<1>2. /\ wk'[w].pc = pc /\ wk'[w].job = wk[w].job /\ wk'[w].todo = wk[w].todo
      /\ wk'[w].landed = wk[w].landed
  BY <1>1 DEF WorkerStates, Whole, IInv, TypeOK
<1>3. OnlyWorker(w)
  BY GotoEffect DEF Whole, IInv
<1>4. QuietWorker(w)
  BY <1>2 DEF QuietWorker, Sent
<1> QED
  BY <1>3, <1>4, QuietStep

LEMMA CheckProtectedPlaced ==
  ASSUME Whole, NEW w \in Workers, CheckProtected(w)
  PROVE  PlacedInv'
<1>1. wk[w].pc \in ForwardPoints
  BY DEF CheckProtected, ForwardPoints
<1>2. CASE StopProtected(w)
  BY <1>1, <1>2, StopProtectedPlaced DEF CheckProtected
<1>3. CASE ~StopProtected(w)
  BY <1>3, GotoPlaced DEF CheckProtected, Points, Critical, Resolved, ReversePoints
<1> QED
  BY <1>2, <1>3

LEMMA GetClientPlaced ==
  ASSUME Whole, NEW w \in Workers, GetClient(w)
  PROVE  PlacedInv'
<1>1. CASE Goto(w, "hook")
  <2>1. ~wk[w].landed /\ wk[w].pc \in Resolved
    BY DEF Whole, IInv, WorkerInv, GetClient, Resolved
  <2> QED
    BY <1>1, <2>1, GotoPlaced DEF GetClient, Points, Critical, ReversePoints
<1>2. ASSUME NEW e \in Errors, Throw(w, e) PROVE PlacedInv'
  BY <1>2, ThrowEffect, LeavesPlaced DEF Whole, IInv, GetClient
<1> QED
  BY <1>1, <1>2 DEF GetClient

LEMMA AssertNotProtectedPlaced ==
  ASSUME Whole, NEW w \in Workers, AssertNotProtected(w)
  PROVE  PlacedInv'
<1>1. wk[w].pc \in ForwardPoints /\ wk[w].pc \in Resolved /\ Sent(w)
  BY DEF AssertNotProtected, ForwardPoints, Resolved, Sent
<1>2. CASE StopProtected(w)
  BY <1>1, <1>2, StopProtectedPlaced DEF AssertNotProtected
<1>3. CASE ~StopProtected(w)
  BY <1>1, <1>3, GotoPlaced DEF AssertNotProtected, Points, Critical, ReversePoints
<1> QED
  BY <1>2, <1>3

LEMMA ScheduleReturnPlaced ==
  ASSUME Whole, NEW w \in Workers, ScheduleReturn(w)
  PROVE  PlacedInv'
<1> DEFINE pc == AfterLanding(wk[w].todo)
<1>1. wk[w].pc \in Resolved /\ Sent(w)
  BY DEF ScheduleReturn, Resolved, Sent
<1>2. pc \in {"commit", "hook"} /\ (pc = "commit" => wk[w].todo = {}) /\ Goto(w, pc)
  BY DEF AfterLanding, ScheduleReturn
<1> HIDE DEF pc
<1> QED
  BY <1>1, <1>2, GotoPlaced DEF ScheduleReturn, Points, Critical, ReversePoints

LEMMA AcquireLockPlaced ==
  ASSUME Whole, NEW w \in Workers, AcquireLock(w)
  PROVE  PlacedInv'
  BY GotoPlaced DEF AcquireLock, Points, Critical, Resolved, ReversePoints

LEMMA TakePlaced ==
  ASSUME Whole, NEW w \in Workers, NEW j \in Jobs, Take(w, j)
  PROVE  PlacedInv'
<1> DEFINE r == [pc |-> "lock", job |-> j, try |-> queue[j].made + 1,
                 conf |-> queue[j].conf, clean |-> FALSE, landed |-> FALSE,
                 todo |-> {}, err |-> "none"]
<1>1. queue[j] \in QueueJobs
  BY DEF Whole, IInv, TypeOK
<1>2. r \in WorkerStates /\ r.pc = "lock" /\ wk' = [wk EXCEPT ![w] = r]
  BY <1>1 DEF Take, WorkerStates, Points, QueueJobs
<1> HIDE DEF r
<1>3. OnlyWorker(w) /\ wk'[w] = r
  BY <1>2 DEF Whole, IInv, TypeOK, OnlyWorker
<1>4. QuietWorker(w)
  BY <1>2, <1>3 DEF QuietWorker, Resolved, ReversePoints
<1> QED
  BY <1>3, <1>4, QuietStep DEF Take

LEMMA IdlesPlaced ==
  ASSUME Whole, NEW w \in Workers, wk' = [wk EXCEPT ![w] = IdleWorker],
         UNCHANGED <<gmail, mirror, row, journal, preview, applied, home, disowned>>
  PROVE  PlacedInv'
<1>1. IdleWorker \in WorkerStates /\ IdleWorker.pc = "idle"
  BY DEF IdleWorker, WorkerStates, Points
<1>2. OnlyWorker(w) /\ wk'[w] = IdleWorker
  BY <1>1 DEF Whole, IInv, TypeOK, OnlyWorker
<1>3. QuietWorker(w)
  BY <1>1, <1>2 DEF QuietWorker, Resolved, ReversePoints
<1> QED
  BY <1>2, <1>3, QuietStep

LEMMA StartForwardPlaced ==
  ASSUME Whole, NEW w \in Workers, StartForward(w)
  PROVE  PlacedInv'
<1> DEFINE n == NeverReachedGmail(Row(w))
           v == [wk[w] EXCEPT !.pc = "check", !.clean = n]
<1>1. wk \in [Workers -> WorkerStates] /\ wk[w] \in WorkerStates /\ n \in BOOLEAN
  BY DEF Whole, IInv, TypeOK, NeverReachedGmail
<1>2. wk' = [wk EXCEPT ![w] = v]
  BY DEF StartForward
<1> HIDE DEF n
<1>3. v \in WorkerStates /\ v.pc = "check"
  BY <1>1 DEF WorkerStates, Points, Critical
<1> HIDE DEF v
<1>4. OnlyWorker(w) /\ wk'[w] = v
  BY <1>1, <1>2, <1>3 DEF OnlyWorker
<1>5. QuietWorker(w)
  BY <1>3, <1>4 DEF QuietWorker, Resolved, ReversePoints
<1> QED
  BY <1>4, <1>5, QuietStep DEF StartForward

LEMMA RequestRefusedPlaced ==
  ASSUME Whole, NEW w \in Workers, RequestRefused(w)
  PROVE  PlacedInv'
<1>1. PICK e \in {"RateLimitError", "InvalidGrantError", "PermanentError"} :
        wk' = [wk EXCEPT ![w].pc = "refused", ![w].err = e]
  BY DEF RequestRefused
<1> DEFINE v == [wk[w] EXCEPT !.pc = "refused", !.err = e]
<1>2. wk \in [Workers -> WorkerStates] /\ wk[w] \in WorkerStates /\ wk' = [wk EXCEPT ![w] = v]
  BY <1>1 DEF Whole, IInv, TypeOK
<1>3. v \in WorkerStates /\ v.pc = "refused" /\ v.job = wk[w].job /\ v.todo = wk[w].todo
  BY <1>2 DEF WorkerStates, Points, Critical, Errors
<1> HIDE DEF v
<1>4. OnlyWorker(w) /\ wk'[w] = v
  BY <1>2, <1>3 DEF OnlyWorker
<1>5. QuietWorker(w)
  BY <1>3, <1>4 DEF QuietWorker, Resolved, ReversePoints, Sent, RequestRefused
<1> QED
  BY <1>4, <1>5, QuietStep DEF RequestRefused

LEMMA RecordFailurePlaced ==
  ASSUME Whole, NEW w \in Workers, RecordFailure(w)
  PROVE  PlacedInv'
<1> DEFINE j == wk[w].job
<1>1. /\ j \in Jobs /\ row[j].status # "absent" /\ wk[w] \in WorkerStates /\ row[j] \in Rows
  BY DEF Whole, IInv, TypeOK, WorkerInv, RecordFailure, Row, Job
<1>2. wk[w].err \in Codes
  BY <1>1 DEF WorkerStates, Codes
<1>3. row' = [row EXCEPT ![j] = [row[j] EXCEPT !.status = "failed", !.err = wk[w].err]]
  BY <1>1 DEF RecordFailure, Job
<1>4. QuietWrite(j)
  BY <1>1, <1>2, <1>3, MarkIsQuiet DEF Whole
<1>5. OnlyWorker(w) /\ wk'[w].pc = "end"
  BY GotoEffect DEF Whole, IInv, RecordFailure, Points
<1>6. QuietWorker(w)
  BY <1>5 DEF QuietWorker, Resolved, ReversePoints
<1>7. disowned \subseteq disowned'
  BY DEF RecordFailure, Disown
<1> QED
  BY <1>1, <1>4, <1>5, <1>6, <1>7, QuietStep DEF RecordFailure

LEMMA RecordFailureLostPlaced ==
  ASSUME Whole, NEW w \in Workers, RecordFailureLost(w)
  PROVE  PlacedInv'
  BY GotoPlaced DEF RecordFailureLost, Points, Critical, Resolved, ReversePoints

LEMMA EnqueueFailedPlaced ==
  ASSUME Whole, NEW j \in Jobs, EnqueueFailed(j)
  PROVE  PlacedInv'
<1>1. /\ disowned \subseteq disowned'
      /\ UNCHANGED <<gmail, mirror, journal, applied, home, preview, wk>>
  BY DEF EnqueueFailed, Disown
<1>2. CASE row[j].status = "queued"
  <2>1. row[j] \in Rows
    BY DEF Whole, IInv, TypeOK
  <2>2. row' = [row EXCEPT ![j] = [row[j] EXCEPT !.status = "failed", !.err = "ENQUEUE_FAILED"]]
    BY <1>2, <2>1 DEF EnqueueFailed
  <2>3. QuietWrite(j)
    BY <1>2, <2>2, MarkIsQuiet DEF Whole, Codes
  <2> QED
    BY <1>1, <2>3, QuietStep
<1>3. CASE row[j].status # "queued"
  <2>1. row' = row
    BY <1>3 DEF EnqueueFailed
  <2> QED
    BY <1>1, <2>1, QuietStep
<1> QED
  BY <1>2, <1>3

LEMMA ResetRevertPlaced ==
  ASSUME Whole, NEW a \in Actions, ResetRevert(a)
  PROVE  PlacedInv'
<1>1. Rev(a) \in Jobs /\ row[Rev(a)] \in Rows /\ row[Rev(a)].status # "absent" /\ ~Forward(Rev(a))
  BY DEF Whole, IInv, TypeOK, DeliveryInv, ResetRevert, Rev, Jobs, Forward
<1>2. row' = [row EXCEPT ![Rev(a)] = [row[Rev(a)] EXCEPT !.status = "queued", !.err = "none"]]
  BY <1>1 DEF ResetRevert
<1>3. QuietWrite(Rev(a))
  BY <1>1, <1>2, MarkIsQuiet DEF Whole, Codes
<1> QED
  BY <1>1, <1>3, QuietStep DEF ResetRevert

LEMMA StartReversePlaced ==
  ASSUME Whole, NEW w \in Workers, StartReverse(w)
  PROVE  PlacedInv'
<1>1. wk[w].pc \in Critical /\ ~Forward(wk[w].job)
  BY DEF StartReverse, Critical, Job
<1>2. PICK a \in Actions : /\ wk[w].job = Rev(a) /\ Row(w) = row[Rev(a)] /\ Rev(a) \in Jobs
                           /\ wk[w] \in WorkerStates /\ row[Rev(a)] \in Rows
                           /\ row[Rev(a)].status # "absent"
  BY <1>1, Reverter DEF Whole
<1>3. row' = [row EXCEPT ![Rev(a)] =
                [row[Rev(a)] EXCEPT !.status = "executing", !.err = row[Rev(a)].err]]
  BY <1>2 DEF StartReverse, Job, Rows
<1>4. row[Rev(a)].err \in Codes /\ ~Forward(Rev(a))
  BY <1>1, <1>2 DEF Rows
<1>5. QuietWrite(Rev(a))
  BY <1>2, <1>3, <1>4, MarkIsQuiet DEF Whole
<1> DEFINE v == [wk[w] EXCEPT !.pc = "revsend", !.todo = row[Rev(a)].ids]
<1>6. wk' = [wk EXCEPT ![w] = v]
  BY <1>2 DEF StartReverse
<1>7. /\ v \in WorkerStates /\ v.pc = "revsend" /\ v.job = wk[w].job
      /\ v.todo = row[Rev(a)].ids
  BY <1>2 DEF WorkerStates, Points, Critical, Rows
<1> HIDE DEF v
<1>8. OnlyWorker(w) /\ wk'[w] = v
  BY <1>6, <1>7 DEF Whole, IInv, TypeOK, OnlyWorker
<1>9. QuietWorker(w)
  BY <1>2, <1>7, <1>8 DEF QuietWorker
<1> QED
  BY <1>2, <1>5, <1>8, <1>9, QuietStep DEF StartReverse

(* The attempts that end before a write, and the API's requests.           *)
LEMMA EndingsPlaced ==
  ASSUME Whole, NEW w \in Workers,
         \/ LockTimesOut(w) \/ SkipSettled(w) \/ DatabaseFails(w)
         \/ Settle(w) \/ Crash(w)
  PROVE  PlacedInv'
<1>1. CASE LockTimesOut(w)
  BY <1>1, ThrowEffect, LeavesPlaced DEF Whole, IInv, LockTimesOut, Errors
<1>2. CASE SkipSettled(w)
  BY <1>2, ReturnEffect, LeavesPlaced DEF Whole, IInv, SkipSettled
<1>3. CASE DatabaseFails(w)
  BY <1>3, ThrowEffect, LeavesPlaced DEF Whole, IInv, DatabaseFails, Errors
<1>4. CASE Settle(w)
  BY <1>4, IdlesPlaced DEF Settle
<1>5. CASE Crash(w)
  BY <1>5, IdlesPlaced DEF Crash
<1> QED
  BY <1>1, <1>2, <1>3, <1>4, <1>5

LEMMA StillPlaced ==
  ASSUME Whole, UNCHANGED <<gmail, mirror, row, journal, applied, home, preview, disowned, wk>>
  PROVE  PlacedInv'
  BY QuietStep

LEMMA RequestsPlaced ==
  ASSUME Whole, NEW j \in Jobs, QueueAdd(j) \/ QueueAddThrows(j) \/ ApiCrash(j) \/ Stall(j)
  PROVE  PlacedInv'
  BY StillPlaced DEF QueueAdd, QueueAddThrows, ApiCrash, Stall

-------------------------------------------------------------------------------
(* The review: what it offers is covered by the placement of the attempt.  *)

LEMMA ReviewPlaced ==
  ASSUME Whole, NEW root \in Actions,
         \A r \in Actions \ {root} : preview'[r] = preview[r], TargetInv(root)',
         UNCHANGED <<gmail, mirror, row, journal, applied, home, disowned, wk>>
  PROVE  PlacedInv'
<1>1. QuietRows
  BY DEF QuietRows, SameScope, FailedStands
<1>2. ASSUME NEW u \in Workers PROVE QuietWorker(u)
  <2>1. ProgressInv(u)
    BY DEF Whole, PlacedInv, ScopeInv
  <2> QED
    BY <2>1 DEF QuietWorker, ProgressInv, Sent
<1>3. Quiet
  BY <1>1, <1>2 DEF Quiet
<1> QED
  BY <1>3, QuietPlaced

LEMMA ReviewsPlaced ==
  ASSUME Whole, NEW a \in Actions, OpenReview(a) \/ VerifyReview(a) \/ CloseReview(a)
  PROVE  PlacedInv'
<1>1. preview \in [Actions -> Previews] /\ row \in [Jobs -> Rows]
  BY DEF Whole, IInv, TypeOK
<1>2. CASE OpenReview(a)
  <2> DEFINE p == [state |-> "verifying", current |-> a, target |-> {}]
  <2>1. PICK root \in Actions : root = row[Fwd(a)].root
    BY <1>1 DEF Rows, Fwd, Jobs
  <2>2. preview' = [preview EXCEPT ![root] = p] /\ p.state = "verifying"
    BY <1>2, <2>1 DEF OpenReview
  <2> HIDE DEF p
  <2>3. preview'[root] = p /\ \A r \in Actions \ {root} : preview'[r] = preview[r]
    BY <1>1, <2>2
  <2>4. TargetInv(root)'
    BY <2>2, <2>3 DEF TargetInv
  <2> QED
    BY <1>2, <2>3, <2>4, ReviewPlaced DEF OpenReview
<1>3. CASE CloseReview(a)
  <2> DEFINE p == [preview[a] EXCEPT !.state = "failed"]
  <2>1. preview' = [preview EXCEPT ![a] = p] /\ p.state = "failed"
    BY <1>1, <1>3 DEF CloseReview, Previews
  <2> HIDE DEF p
  <2>2. preview'[a] = p /\ \A r \in Actions \ {a} : preview'[r] = preview[r]
    BY <1>1, <2>1
  <2>3. TargetInv(a)'
    BY <2>1, <2>2 DEF TargetInv
  <2> QED
    BY <1>3, <2>2, <2>3, ReviewPlaced DEF CloseReview
<1>4. CASE VerifyReview(a)
  <2>1. PICK c \in Actions : /\ c = preview[a].current /\ row[Fwd(c)].root = a
                             /\ Exists(c)
    BY <1>1, <1>4 DEF Previews, Whole, AttemptsInv, ReviewInv, VerifyReview
  <2> DEFINE r == row[Fwd(c)]
             p == [preview[a] EXCEPT !.state = VerifiedState(r), !.target = ReviewTarget(r)]
  <2>2. preview' = [preview EXCEPT ![a] = p]
    BY <1>1, <1>4, <2>1 DEF VerifyReview, Previews
  <2>3. p.state = VerifiedState(r) /\ p.target = ReviewTarget(r) /\ p.current = c
    BY <1>1, <2>1 DEF Previews
  <2>4. p.state = "ready" => r.status = "failed"
    BY <2>3 DEF VerifiedState
  <2>5. r.undo.state # "none" /\ Clear(a) => ReviewTarget(r) \subseteq r.undo.ids
    <3>1. ScopedInv(c)
      BY DEF Whole, PlacedInv, ScopeInv
    <3> QED
      BY <2>1, <3>1 DEF ScopedInv, ReviewTarget, ExecutionSet
  <2> HIDE DEF p
  <2>6. preview'[a] = p /\ \A x \in Actions \ {a} : preview'[x] = preview[x]
    BY <1>1, <2>2
  <2>7. row' = row /\ (Clear(a)' => Clear(a))
    BY <1>4 DEF VerifyReview, Clear, Lineage
  <2>8. TargetInv(a)'
    BY <2>3, <2>4, <2>5, <2>6, <2>7 DEF TargetInv
  <2> QED
    BY <1>4, <2>6, <2>8, ReviewPlaced DEF VerifyReview
<1> QED
  BY <1>2, <1>3, <1>4

-------------------------------------------------------------------------------
(* Steps that are about one action: its rows, entry, messages and worker.  *)

(* Every requested Undo places what it placed.                             *)
UndosStand ==
  \A b \in Actions : row[Rev(b)].status # "absent" =>
    /\ row'[Rev(b)].status # "absent" /\ row[Rev(b)].ids \subseteq row'[Rev(b)].ids
    /\ journal[b].inbox \subseteq journal'[b].inbox

(* Nothing but the rows and the entry of the action changes.               *)
AboutAction(a) ==
  /\ Grows /\ FailedStands /\ UndosStand
  /\ \A b \in Actions \ {a} : /\ row'[Fwd(b)] = row[Fwd(b)] /\ row'[Rev(b)] = row[Rev(b)]
                              /\ journal'[b] = journal[b]
  /\ \A r \in Actions : preview'[r] = preview[r] \/ preview'[r].state = "consumed"

ActionTruth(a) ==
  MeasuredInv(a) /\ RecordedInv(a) /\ RowHomeInv(Fwd(a)) /\ RowHomeInv(Rev(a))

LEMMA OneActionPlaced ==
  ASSUME Whole, NEW a \in Actions, AboutAction(a),
         ScopedInv(a)', UndoneInv(a)', \A w \in Workers : ProgressInv(w)',
         OnlyDeletes =>
           /\ ActionTruth(a)'
           /\ \A m \in Messages : PristineInv(m)' /\ InboxInv(m)'
           /\ \A w \in Workers : RestoredInv(w)'
  PROVE  PlacedInv'
<1>1. IInv /\ AttemptsInv /\ ScopeInv /\ (OnlyDeletes => TruthInv) /\ Grows /\ FailedStands
  BY DEF Whole, PlacedInv, AboutAction
<1>2. ASSUME NEW b \in Actions \ {a} PROVE SameScope(Fwd(b)) /\ SameScope(Rev(b))
  BY DEF AboutAction, SameScope
<1>3. ScopeInv'
  <2>1. ASSUME NEW b \in Actions \ {a} PROVE ScopedInv(b)' /\ UndoneInv(b)'
    <3>1. ScopedInv(b) /\ UndoneInv(b) /\ SameScope(Fwd(b))
      BY <1>1, <1>2 DEF ScopeInv
    <3>2. ScopedInv(b)'
      BY <1>1, <3>1, ScopedStands
    <3>3. UndoneInv(b)'
      BY <1>1, <3>1, UndoneStands DEF AboutAction
    <3> QED
      BY <3>2, <3>3
  <2>2. ASSUME NEW r \in Actions PROVE TargetInv(r)'
    <3>1. CASE preview'[r] = preview[r]
      BY <1>1, <3>1, TargetsStand
    <3>2. CASE preview'[r].state = "consumed"
      BY <3>2 DEF TargetInv
    <3> QED
      BY <3>1, <3>2 DEF AboutAction
  <2> QED
    BY <2>1, <2>2 DEF ScopeInv
<1>4. ASSUME OnlyDeletes PROVE TruthInv'
  <2>1. TruthInv
    BY <1>1, <1>4
  <2>2. ASSUME NEW b \in Actions \ {a} PROVE MeasuredInv(b)' /\ RecordedInv(b)'
    <3>1. MeasuredInv(b) /\ RecordedInv(b) /\ SameScope(Fwd(b)) /\ journal'[b] = journal[b]
      BY <1>2, <2>1 DEF TruthInv, AboutAction
    <3> QED
      BY <1>1, <3>1, MeasuredStands, RecordedStands
  <2>3. ASSUME NEW j \in Jobs PROVE RowHomeInv(j)'
    <3>1. CASE j = Fwd(a) \/ j = Rev(a)
      BY <1>4, <3>1 DEF ActionTruth
    <3>2. CASE j # Fwd(a) /\ j # Rev(a)
      <4>1. PICK b \in Actions : b # a /\ (j = Fwd(b) \/ j = Rev(b))
        BY <3>2 DEF Jobs, Fwd, Rev
      <4>2. SameScope(j) /\ RowHomeInv(j)
        BY <1>2, <2>1, <4>1 DEF TruthInv
      <4> QED
        BY <1>1, <4>2, RowHomeStands
    <3> QED
      BY <3>1, <3>2
  <2> QED
    BY <1>4, <2>2, <2>3 DEF TruthInv, ActionTruth
<1>5. OnlyDeletes' <=> OnlyDeletes
  BY DEF OnlyDeletes
<1> QED
  BY <1>1, <1>3, <1>4, <1>5 DEF PlacedInv

(* The messages no step moves.                                             *)
LEMMA MessagesStand ==
  ASSUME TruthInv, Grows, UndosStand, NEW m \in Messages,
         gmail'[m] = gmail[m], mirror'[m] = mirror[m],
         \A b \in Actions : m \in applied'[b] <=> m \in applied[b]
  PROVE  PristineInv(m)' /\ InboxInv(m)'
<1>1. Placed(m) => Placed(m)'
  BY DEF Placed, UndosStand
<1>2. PristineInv(m) /\ InboxInv(m)
  BY DEF TruthInv
<1> QED
  BY <1>1, <1>2, MessageStands

(* While the holder of the lock steps, no other worker sends or restores.  *)
LEMMA OthersOutside ==
  ASSUME IInv, NEW w \in Workers, wk[w].pc \in Critical, OnlyWorker(w),
         NEW u \in Workers \ {w}
  PROVE  ProgressInv(u)' /\ RestoredInv(u)'
<1>1. wk'[u] = wk[u] /\ wk[u].pc \notin Critical
  BY MutualExclusion DEF OnlyWorker
<1>2. Resolved \subseteq Critical /\ ReversePoints \subseteq Critical
  BY DEF Resolved, ReversePoints, Critical
<1> QED
  BY <1>1, <1>2, ProgressOutside

(* While no worker moves and the rows they run stand, so does their work.  *)
LEMMA WorkersStand ==
  ASSUME IInv, UNCHANGED <<wk, gmail, applied>>, NEW u \in Workers,
         \A j \in Jobs : row[j].status # "absent" =>
           row'[j] = row[j] /\ journal'[j[1]].inbox = journal[j[1]].inbox
  PROVE  /\ ProgressInv(u) => ProgressInv(u)'
         /\ RestoredInv(u) => RestoredInv(u)'
<1>1. CASE wk[u].pc = "idle"
  BY <1>1, ProgressOutside DEF Resolved, ReversePoints
<1>2. CASE wk[u].pc # "idle"
  <2>1. wk[u].job \in Jobs /\ row[wk[u].job].status # "absent"
    BY <1>2 DEF IInv, WorkerInv, Row, Job
  <2>2. Row(u)' = Row(u) /\ Act(u)' = Act(u) /\ ToInbox(u)' = ToInbox(u) /\ (Sent(u)' <=> Sent(u))
    BY <2>1 DEF Row, Job, Act, ToInbox, Sent
  <2>3. ProgressInv(u) => ProgressInv(u)'
    BY <2>2 DEF ProgressInv
  <2>4. RestoredInv(u) => RestoredInv(u)'
    BY <2>2 DEF RestoredInv
  <2> QED
    BY <2>3, <2>4
<1> QED
  BY <1>1, <1>2

(* What the holder writes to its own forward row, or sends for it.         *)
LEMMA HolderAbout ==
  ASSUME Whole, NEW w \in Workers, NEW a \in Actions,
         wk[w].pc \in ForwardPoints, wk[w].job = Fwd(a),
         row' = row \/ OnlyRow(Fwd(a)), row'[Fwd(a)].status # "absent",
         row'[Fwd(a)].root = row[Fwd(a)].root, row'[Fwd(a)].attempt = row[Fwd(a)].attempt,
         \A b \in Actions : applied[b] \subseteq applied'[b],
         \A b \in Actions \ {a} : journal'[b] = journal[b],
         UNCHANGED <<home, disowned, preview>>
  PROVE  AboutAction(a)
<1>1. /\ row[Rev(a)].status = "absent" /\ Row(w) = row[Fwd(a)] /\ Act(w) = a
      /\ row[Fwd(a)].status = "failed" => a \in disowned
  <2>1. IInv /\ AttemptsInv
    BY DEF Whole
  <2>2. PICK c \in Actions : /\ wk[w].job = Fwd(c) /\ Act(w) = c /\ Row(w) = row[Fwd(c)]
                             /\ row[Rev(c)].status = "absent"
    BY <2>1, Holder
  <2> QED
    BY <2>1, <2>2, RunsDisowned DEF Fwd
<1>2. \A b \in Actions \ {a} : row'[Fwd(b)] = row[Fwd(b)]
  BY DEF OnlyRow, Fwd, Jobs
<1>3. \A b \in Actions : row'[Rev(b)] = row[Rev(b)]
  BY DEF OnlyRow, Fwd, Rev, Jobs
<1>4. Grows
  BY <1>2 DEF Grows, Exists
<1>5. FailedStands
  BY <1>1, <1>2 DEF FailedStands
<1>6. UndosStand
  BY <1>1, <1>3 DEF UndosStand
<1> QED
  BY <1>2, <1>3, <1>4, <1>5, <1>6 DEF AboutAction

(* The part of an action that runs forward and has no entry yet.           *)
LEMMA RunningRecords ==
  ASSUME IInv, NEW w \in Workers, NEW a \in Actions,
         wk[w].pc \in ForwardPoints, wk[w].job = Fwd(a),
         row' = row \/ OnlyRow(Fwd(a)), journal' = journal
  PROVE  UndoneInv(a)' /\ RecordedInv(a)' /\ (RowHomeInv(Rev(a)) /\ home' = home => RowHomeInv(Rev(a))')
<1>1. journal[a] = NoEntry /\ row[Rev(a)].status = "absent"
  <2>1. PICK c \in Actions : /\ wk[w].job = Fwd(c) /\ journal[c] = NoEntry
                             /\ row[Rev(c)].status = "absent"
    BY Holder
  <2> QED
    BY <2>1 DEF Fwd
<1>2. row'[Rev(a)] = row[Rev(a)]
  BY DEF OnlyRow, Fwd, Rev, Jobs
<1>3. journal'[a] = NoEntry /\ NoEntry.inbox = {} /\ NoEntry.known = FALSE
  BY <1>1 DEF NoEntry
<1> QED
  BY <1>1, <1>2, <1>3 DEF UndoneInv, RecordedInv, RowHomeInv

LEMMA ResolveIdsPlaced ==
  ASSUME Whole, NEW w \in Workers, ResolveIds(w)
  PROVE  PlacedInv'
<1>1. wk[w].pc = "resolve" /\ wk[w].pc \in ForwardPoints
  BY DEF ResolveIds, ForwardPoints
<1>2. PICK a \in Actions :
        /\ wk[w].job = Fwd(a) /\ Row(w) = row[Fwd(a)] /\ Fwd(a) \in Jobs
        /\ wk[w] \in WorkerStates /\ wk[w].pc \in Critical /\ row[Fwd(a)] \in Rows
        /\ row[Fwd(a)].status # "absent"
  BY <1>1, Holder DEF Whole
<1> DEFINE ids == ExecutionSet(row[Fwd(a)])
           pc  == IF ids = {} THEN "empty" ELSE "client"
           r   == [row[Fwd(a)] EXCEPT !.ids = ids]
           v   == [wk[w] EXCEPT !.pc = pc, !.todo = ids]
<1>3. /\ ids \in SUBSET Messages /\ pc \in {"empty", "client"}
      /\ row[Fwd(a)].ids # {} => ids = row[Fwd(a)].ids
  BY <1>2, ExecutionSetType DEF Whole, IInv, ExecutionSet
<1>4. row' = [row EXCEPT ![Fwd(a)] = r] /\ wk' = [wk EXCEPT ![w] = v]
  BY <1>2 DEF ResolveIds, Job
<1> HIDE DEF ids, pc
<1>5. /\ r \in Rows /\ r.ids = ids /\ r.status = row[Fwd(a)].status
      /\ r.root = row[Fwd(a)].root /\ r.attempt = row[Fwd(a)].attempt
      /\ r.undo = row[Fwd(a)].undo /\ r.verb = row[Fwd(a)].verb
  BY <1>2, <1>3 DEF Rows
<1>6. v \in WorkerStates /\ v.pc = pc /\ v.job = Fwd(a) /\ v.todo = ids
  BY <1>2, <1>3 DEF WorkerStates, Points, Critical
<1> HIDE DEF r, v
<1>7. OnlyRow(Fwd(a)) /\ row'[Fwd(a)] = r /\ OnlyWorker(w) /\ wk'[w] = v
  BY <1>2, <1>4, <1>5, <1>6 DEF Whole, IInv, TypeOK, OnlyRow, OnlyWorker
<1>8. UNCHANGED <<gmail, mirror, journal, preview, applied, home, disowned>>
  BY DEF ResolveIds
<1>9. AboutAction(a)
  BY <1>1, <1>2, <1>5, <1>7, <1>8, HolderAbout
<1>10. Grows
  BY <1>9 DEF AboutAction
<1>11. ScopedInv(a)'
  <2>1. PICK root : root = row[Fwd(a)].root
    OBVIOUS
  <2>2. Clear(root)' => Clear(root)
    BY <1>10, Monotone DEF Whole
  <2>3. ScopedInv(a)
    BY DEF Whole, PlacedInv, ScopeInv
  <2> QED
    BY <1>3, <1>5, <1>7, <2>1, <2>2, <2>3 DEF ScopedInv
<1>12. /\ UndoneInv(a)' /\ RecordedInv(a)'
       /\ RowHomeInv(Rev(a)) => RowHomeInv(Rev(a))'
  BY <1>1, <1>2, <1>7, <1>8, RunningRecords DEF Whole
<1>13. ProgressInv(w)' /\ RestoredInv(w)'
  <2>1. /\ Row(w)' = r /\ wk'[w].todo = r.ids
        /\ wk'[w].pc \notin {"send", "refused", "timer", "commit", "hook"}
        /\ wk'[w].pc \notin {"revsend", "revcommit"}
    BY <1>3, <1>5, <1>6, <1>7 DEF Row, Job
  <2> QED
    BY <2>1 DEF ProgressInv, RestoredInv, Sent, ReversePoints
<1>14. \A u \in Workers : ProgressInv(u)' /\ RestoredInv(u)'
  BY <1>2, <1>7, <1>13, OthersOutside DEF Whole
<1>15. ASSUME OnlyDeletes
       PROVE  ActionTruth(a)' /\ \A m \in Messages : PristineInv(m)' /\ InboxInv(m)'
  <2>1. TruthInv
    BY <1>15 DEF Whole, PlacedInv
  <2>2. \A m \in Messages : PristineInv(m)' /\ InboxInv(m)'
    BY <1>8, <1>9, <2>1, MessagesStand DEF AboutAction
  <2>3. RowHomeInv(Fwd(a))' /\ RowHomeInv(Rev(a))'
    <3>1. RowHomeInv(Fwd(a)) /\ RowHomeInv(Rev(a))
      BY <2>1 DEF TruthInv, Fwd, Rev, Jobs
    <3> QED
      BY <1>2, <1>5, <1>7, <1>8, <1>12, <3>1 DEF RowHomeInv
  <2>4. MeasuredInv(a)'
    <3>1. PICK root : root = row[Fwd(a)].root
      OBVIOUS
    <3>2. /\ \A m : Spoiled(m, root) => Spoiled(m, root)'
          /\ Superseded(a) => Superseded(a)'
      BY <1>10, Monotone DEF Whole
    <3>3. MeasuredInv(a)
      BY <2>1 DEF TruthInv
    <3> QED
      BY <1>5, <1>7, <1>8, <3>1, <3>2, <3>3 DEF MeasuredInv
  <2> QED
    BY <1>12, <2>2, <2>3, <2>4 DEF ActionTruth
<1> QED
  BY <1>9, <1>11, <1>12, <1>14, <1>15, OneActionPlaced

(* What the hook stores is bound to the execution set, is of the inbox,    *)
(* and is measured or narrowed from what was stored.                       *)
LEMMA DeleteUndoShape ==
  ASSUME IInv, NEW w \in Workers, wk[w].pc \in ForwardPoints, ~PlacementRefused(w),
         Row(w).verb = "delete"
  PROVE  /\ DeleteUndo(w).ids = Row(w).ids
         /\ \/ DeleteUndo(w) = MeasuredPlacement(w) /\ Row(w).attempt = 0 /\ wk[w].clean
            \/ DeleteUndo(w).state = "unknown" /\ DeleteUndo(w).inbox = {}
            \/ /\ Row(w).undo.state # "none" /\ Row(w).ids \subseteq Row(w).undo.ids
               /\ DeleteUndo(w).state = Row(w).undo.state
               /\ DeleteUndo(w).inbox = Row(w).undo.inbox \cap Row(w).ids
<1>1. PICK a \in Actions : Row(w) = row[Fwd(a)] /\ row[Fwd(a)] \in Rows
  BY Holder
<1>2. Row(w).undo \in Placements
  BY <1>1 DEF Rows
<1>3. CASE Row(w).attempt = 0 /\ wk[w].clean
  BY <1>3 DEF DeleteUndo, MeasuredPlacement
<1>4. CASE ~(Row(w).attempt = 0 /\ wk[w].clean) /\ Row(w).undo.state = "none"
  BY <1>4 DEF DeleteUndo, UnknownPlacement
<1>5. CASE ~(Row(w).attempt = 0 /\ wk[w].clean) /\ Row(w).undo.state # "none"
  BY <1>2, <1>5 DEF DeleteUndo, StoredPlacement, PlacementRefused, Placements
<1> QED
  BY <1>3, <1>4, <1>5

(* A measure taken while nothing of the attempt has reached Gmail is true  *)
(* of every message that no other action touched.                          *)
LEMMA MeasureIsTrue ==
  ASSUME Whole, TruthInv, NEW w \in Workers, NEW a \in Actions,
         wk[w].pc \in ForwardPoints, wk[w].job = Fwd(a),
         Row(w).attempt = 0, wk[w].clean, ~wk[w].landed,
         a \in disowned => ~Superseded(a),
         NEW m \in Messages
  PROVE  ("INBOX" \in mirror[m] <=> m \in home) \/ Spoiled(m, row[Fwd(a)].root)
<1>1. IInv /\ AttemptsInv
  BY DEF Whole
<1>2. /\ Row(w) = row[Fwd(a)] /\ row[Fwd(a)] \in Rows /\ Exists(a) /\ applied[a] = {}
      /\ row[Fwd(a)].status = "failed" => a \in disowned
  <2>1. PICK c \in Actions : /\ wk[w].job = Fwd(c) /\ Act(w) = c /\ Row(w) = row[Fwd(c)]
                             /\ row[Fwd(c)] \in Rows /\ row[Fwd(c)].status # "absent"
                             /\ wk[w].clean /\ ~wk[w].landed => applied[c] = {}
    BY <1>1, Holder
  <2> QED
    BY <1>1, <2>1, RunsDisowned DEF Fwd, Exists
<1>3. CASE \A b \in Actions : m \notin applied[b]
  BY <1>3 DEF TruthInv, PristineInv
<1>4. ASSUME NEW b \in Actions, m \in applied[b], row[Fwd(b)].root = row[Fwd(a)].root
      PROVE  FALSE
  <2>1. b # a /\ Exists(b) /\ row[Fwd(b)] \in Rows
    BY <1>1, <1>2, <1>4 DEF IInv, TypeOK, ActionInv, Untouched, Exists, Fwd, Jobs
  <2>2. Akin(a, b) /\ LineageInv(a)
    BY <1>1, <1>2, <1>4, <2>1 DEF Akin, AttemptsInv
  <2>3. row[Fwd(a)].attempt # row[Fwd(b)].attempt /\ row[Fwd(b)].attempt \in Nat
    BY <1>2, <2>1, <2>2 DEF LineageInv, Rows
  <2>4. row[Fwd(a)].attempt < row[Fwd(b)].attempt
    BY <1>2, <2>3
  <2>5. a \in disowned
    BY <1>2, <2>1, <2>2, <2>4 DEF LineageInv
  <2>6. Superseded(a)
    BY <2>2, <2>4 DEF Superseded
  <2> QED
    BY <2>5, <2>6
<1>5. CASE \E b \in Actions : m \in applied[b]
  BY <1>4, <1>5 DEF Spoiled
<1> QED
  BY <1>3, <1>5

LEMMA MarkExecutingPlaced ==
  ASSUME Whole, NEW w \in Workers, MarkExecuting(w)
  PROVE  PlacedInv'
<1>1. wk[w].pc = "hook" /\ wk[w].pc \in ForwardPoints /\ ~wk[w].landed
  BY DEF MarkExecuting, ForwardPoints
<1>2. PICK a \in Actions :
        /\ wk[w].job = Fwd(a) /\ Row(w) = row[Fwd(a)] /\ Fwd(a) \in Jobs /\ Act(w) = a
        /\ wk[w] \in WorkerStates /\ wk[w].pc \in Critical /\ row[Fwd(a)] \in Rows
        /\ row[Fwd(a)].status # "absent"
  BY <1>1, Holder DEF Whole
<1>3. UNCHANGED <<gmail, mirror, journal, preview, applied, home, disowned>>
  BY DEF MarkExecuting
<1>4. CASE Throw(w, "ValidationError") /\ UNCHANGED row
  BY <1>3, <1>4, ThrowEffect, LeavesPlaced DEF Whole, IInv, Errors
<1>5. CASE StopProtected(w)
  BY <1>1, <1>3, <1>5, StopProtectedPlaced
<1>6. CASE /\ ~PlacementRefused(w)
           /\ row' = [row EXCEPT
                        ![Job(w)].status = "executing",
                        ![Job(w)].undo = IF Row(w).verb = "delete" THEN DeleteUndo(w) ELSE @]
           /\ Goto(w, "send")
  <2> DEFINE p == IF Row(w).verb = "delete" THEN DeleteUndo(w) ELSE row[Fwd(a)].undo
             r == [row[Fwd(a)] EXCEPT !.status = "executing", !.undo = p]
             v == [wk[w] EXCEPT !.pc = "send"]
  <2>1. /\ p \in Placements
        /\ Row(w).verb = "delete" => p = DeleteUndo(w)
        /\ Row(w).verb # "delete" => p = row[Fwd(a)].undo
    BY <1>2, DeleteUndoType DEF Rows, Whole
  <2>2. row' = [row EXCEPT ![Fwd(a)] = r]
    BY <1>2, <1>6 DEF Job, Rows
  <2> HIDE DEF p
  <2>3. /\ r \in Rows /\ r.status = "executing" /\ r.ids = row[Fwd(a)].ids /\ r.undo = p
        /\ r.root = row[Fwd(a)].root /\ r.attempt = row[Fwd(a)].attempt
        /\ r.verb = row[Fwd(a)].verb
    BY <1>2, <2>1 DEF Rows
  <2> HIDE DEF r
  <2>4. OnlyRow(Fwd(a)) /\ row'[Fwd(a)] = r
    BY <1>2, <2>2, <2>3 DEF Whole, IInv, TypeOK, OnlyRow
  <2>5. /\ v \in WorkerStates /\ v.pc = "send" /\ v.job = Fwd(a) /\ v.todo = wk[w].todo
    BY <1>2 DEF WorkerStates, Points, Critical
  <2>6. wk' = [wk EXCEPT ![w] = v]
    BY <1>6 DEF Goto
  <2> HIDE DEF v
  <2>7. OnlyWorker(w) /\ wk'[w] = v
    BY <2>5, <2>6 DEF Whole, IInv, TypeOK, OnlyWorker
  <2>8. AboutAction(a)
    BY <1>1, <1>2, <1>3, <2>3, <2>4, HolderAbout
  <2>9. Grows
    BY <2>8 DEF AboutAction
  <2>10. row[Fwd(a)].ids # {}
    BY <1>1, <1>2 DEF Whole, UndoInv, SetInv, Resolved
  <2>11. Row(w).verb = "delete" => p.ids = row[Fwd(a)].ids
    BY <1>1, <1>2, <1>6, <2>1, DeleteUndoShape DEF Whole
  <2>12. ScopedInv(a)'
    <3>1. PICK root : root = row[Fwd(a)].root
      OBVIOUS
    <3>2. Clear(root)' => Clear(root)
      BY <2>9, Monotone DEF Whole
    <3>3. ScopedInv(a)
      BY DEF Whole, PlacedInv, ScopeInv
    <3> QED
      BY <1>2, <2>1, <2>3, <2>4, <2>10, <2>11, <3>1, <3>2, <3>3 DEF ScopedInv
  <2>13. /\ UndoneInv(a)' /\ RecordedInv(a)'
         /\ RowHomeInv(Rev(a)) => RowHomeInv(Rev(a))'
    BY <1>1, <1>2, <1>3, <2>4, RunningRecords DEF Whole
  <2>14. ProgressInv(w)' /\ RestoredInv(w)'
    <3>1. ProgressInv(w) /\ wk[w].pc \in Resolved
      BY <1>1 DEF Whole, PlacedInv, ScopeInv, Resolved
    <3>2. /\ Row(w)' = r /\ wk'[w].todo = wk[w].todo /\ wk'[w].pc = "send" /\ Act(w)' = a
          /\ wk'[w].job = wk[w].job
      BY <1>2, <2>4, <2>5, <2>7 DEF Row, Job, Act, Fwd
    <3> QED
      BY <1>2, <1>3, <2>3, <2>11, <3>1, <3>2 DEF ProgressInv, RestoredInv, ReversePoints
  <2>15. \A u \in Workers : ProgressInv(u)' /\ RestoredInv(u)'
    BY <1>2, <2>7, <2>14, OthersOutside DEF Whole
  <2>16. ASSUME OnlyDeletes
         PROVE  ActionTruth(a)' /\ \A m \in Messages : PristineInv(m)' /\ InboxInv(m)'
    <3>1. TruthInv
      BY <2>16 DEF Whole, PlacedInv
    <3>2. \A m \in Messages : PristineInv(m)' /\ InboxInv(m)'
      BY <1>3, <2>8, <3>1, MessagesStand DEF AboutAction
    <3>3. /\ RowHomeInv(Fwd(a)) /\ RowHomeInv(Rev(a)) /\ MeasuredInv(a) /\ Row(w).verb = "delete"
      BY <1>2, <3>1 DEF TruthInv, Fwd, Rev, Jobs, RowHomeInv
    <3>4. /\ p.ids = Row(w).ids /\ p = DeleteUndo(w)
          /\ \/ p = MeasuredPlacement(w) /\ Row(w).attempt = 0 /\ wk[w].clean
             \/ p.state = "unknown" /\ p.inbox = {}
             \/ /\ Row(w).undo.state # "none" /\ Row(w).ids \subseteq Row(w).undo.ids
                /\ p.state = Row(w).undo.state /\ p.inbox = Row(w).undo.inbox \cap Row(w).ids
      BY <1>1, <1>6, <2>1, <3>3, DeleteUndoShape DEF Whole
    <3>5. RowHomeInv(Fwd(a))'
      <4>1. p.inbox \subseteq home
        <5>1. CASE p = MeasuredPlacement(w)
          <6>1. \A m \in Messages : "INBOX" \in mirror[m] => m \in home
            BY <3>1 DEF TruthInv, InboxInv
          <6>2. p.inbox = Row(w).ids \cap Carrying(mirror, "INBOX") /\ DOMAIN mirror = Messages
            BY <5>1 DEF MeasuredPlacement, Whole, IInv, TypeOK, Stores
          <6> QED
            BY <6>1, <6>2 DEF Carrying
        <5>2. CASE p # MeasuredPlacement(w)
          BY <1>2, <3>3, <3>4, <5>2 DEF RowHomeInv
        <5> QED
          BY <5>1, <5>2
      <4> QED
        BY <1>2, <1>3, <2>3, <2>4, <3>3, <4>1 DEF RowHomeInv
    <3>6. MeasuredInv(a)'
      <4>1. PICK root : root = row[Fwd(a)].root
        OBVIOUS
      <4>2. /\ \A m : Spoiled(m, root) => Spoiled(m, root)'
            /\ Superseded(a) => Superseded(a)'
        BY <2>9, Monotone DEF Whole
      <4>3. ASSUME p.state = "known", a \in disowned => ~Superseded(a), NEW m \in p.ids
            PROVE  (m \in p.inbox <=> m \in home) \/ Spoiled(m, root)
        <5>1. CASE p = MeasuredPlacement(w) /\ Row(w).attempt = 0 /\ wk[w].clean
          <6>1. /\ p.inbox = Row(w).ids \cap Carrying(mirror, "INBOX") /\ DOMAIN mirror = Messages
                /\ p.ids = Row(w).ids /\ Row(w).ids \subseteq Messages
            BY <1>2, <5>1 DEF MeasuredPlacement, Whole, IInv, TypeOK, Stores, Rows
          <6>2. m \in Messages /\ (m \in p.inbox <=> "INBOX" \in mirror[m])
            BY <4>3, <6>1 DEF Carrying
          <6>3. ("INBOX" \in mirror[m] <=> m \in home) \/ Spoiled(m, row[Fwd(a)].root)
            BY <1>1, <1>2, <3>1, <4>3, <5>1, <6>2, MeasureIsTrue
          <6> QED
            BY <4>1, <6>2, <6>3
        <5>2. CASE /\ Row(w).undo.state # "none" /\ Row(w).ids \subseteq Row(w).undo.ids
                   /\ p.state = Row(w).undo.state /\ p.inbox = Row(w).undo.inbox \cap Row(w).ids
          <6>1. m \in Row(w).ids /\ m \in Row(w).undo.ids /\ Row(w).undo.state = "known"
            BY <3>4, <4>3, <5>2
          <6>2. (m \in Row(w).undo.inbox <=> m \in home) \/ Spoiled(m, root)
            BY <1>2, <3>3, <4>1, <4>3, <6>1 DEF MeasuredInv
          <6> QED
            BY <5>2, <6>1, <6>2
        <5> QED
          BY <3>4, <4>3, <5>1, <5>2
      <4> QED
        BY <1>3, <2>3, <2>4, <4>1, <4>2, <4>3 DEF MeasuredInv
    <3> QED
      BY <2>13, <3>2, <3>3, <3>5, <3>6 DEF ActionTruth
  <2> QED
    BY <2>8, <2>12, <2>13, <2>15, <2>16, OneActionPlaced
<1> QED
  BY <1>4, <1>5, <1>6 DEF MarkExecuting

(* The forward row of a running action whose set and placement stand.      *)
LEMMA ForwardTruth ==
  ASSUME Whole, TruthInv, Grows, NEW a \in Actions, SameScope(Fwd(a)), SameScope(Rev(a)),
         RecordedInv(a)'
  PROVE  ActionTruth(a)'
<1>1. IInv /\ MeasuredInv(a) /\ RowHomeInv(Fwd(a)) /\ RowHomeInv(Rev(a))
  BY DEF Whole, TruthInv, Fwd, Rev, Jobs
<1>2. MeasuredInv(a)'
  BY <1>1, MeasuredStands
<1>3. RowHomeInv(Fwd(a))' /\ RowHomeInv(Rev(a))'
  BY <1>1, RowHomeStands DEF Fwd, Rev, Jobs
<1> QED
  BY <1>2, <1>3 DEF ActionTruth

(* A request of a Delete takes its messages out of the inbox.              *)
LEMMA RequestPlaced ==
  ASSUME Whole, NEW w \in Workers, wk[w].pc = "send", NEW ids \in SUBSET Messages,
         Apply(w, ids), OnlyWorker(w), ProgressInv(w)', RestoredInv(w)',
         UNCHANGED <<mirror, row, journal, preview, home, disowned>>
  PROVE  PlacedInv'
<1>1. IInv /\ wk[w].pc \in ForwardPoints
  BY DEF Whole, ForwardPoints
<1>2. PICK a \in Actions :
        /\ wk[w].job = Fwd(a) /\ Row(w) = row[Fwd(a)] /\ Act(w) = a /\ wk[w].pc \in Critical
        /\ row[Fwd(a)].status # "absent" /\ row[Fwd(a)] \in Rows
  BY <1>1, Holder
<1>3. /\ applied \in [Actions -> SUBSET Messages] /\ applied' = [applied EXCEPT ![a] = @ \cup ids]
      /\ gmail' = Modify(gmail, ids, ForwardChange(Row(w).verb)) /\ DOMAIN gmail = Messages
  BY <1>1, <1>2 DEF Apply, IInv, TypeOK, Stores
<1>4. \A b \in Actions : applied[b] \subseteq applied'[b]
  BY <1>3
<1>5. AboutAction(a)
  BY <1>1, <1>2, <1>4, HolderAbout
<1>6. Grows /\ UndosStand /\ SameScope(Fwd(a)) /\ SameScope(Rev(a))
  BY <1>5 DEF AboutAction, SameScope
<1>7. ScopedInv(a)' /\ UndoneInv(a)'
  <2>1. ScopedInv(a) /\ UndoneInv(a)
    BY DEF Whole, PlacedInv, ScopeInv
  <2> QED
    BY <1>1, <1>6, <2>1, ScopedStands, UndoneStands
<1>8. \A u \in Workers : ProgressInv(u)' /\ RestoredInv(u)'
  BY <1>1, <1>2, OthersOutside
<1>9. ASSUME OnlyDeletes
      PROVE  ActionTruth(a)' /\ \A m \in Messages : PristineInv(m)' /\ InboxInv(m)'
  <2>1. TruthInv
    BY <1>9 DEF Whole, PlacedInv
  <2>2. RecordedInv(a)'
    <3>1. RecordedInv(a)
      BY <2>1 DEF TruthInv
    <3> QED
      BY <1>1, <1>6, <3>1, RecordedStands
  <2>3. ActionTruth(a)'
    BY <1>6, <2>1, <2>2, ForwardTruth
  <2>4. ASSUME NEW m \in Messages PROVE PristineInv(m)' /\ InboxInv(m)'
    <3>1. CASE m \notin ids
      <4>1. gmail'[m] = gmail[m]
        BY <1>3, <3>1 DEF Modify
      <4>2. \A b \in Actions : m \in applied'[b] <=> m \in applied[b]
        BY <1>3, <3>1
      <4> QED
        BY <1>6, <2>1, <4>1, <4>2, MessagesStand
    <3>2. CASE m \in ids
      <4>1. Row(w).verb = "delete"
        BY <1>2, <2>1 DEF TruthInv, RowHomeInv, Fwd, Jobs
      <4>2. "INBOX" \notin gmail'[m]
        BY <1>3, <3>2, <4>1 DEF Modify, ForwardChange, LabelChange
      <4>3. m \in applied'[a]
        BY <1>3, <3>2
      <4>4. "INBOX" \in mirror[m] => m \in home
        BY <2>1 DEF TruthInv, InboxInv
      <4> QED
        BY <4>2, <4>3, <4>4 DEF PristineInv, InboxInv
    <3> QED
      BY <3>1, <3>2
  <2> QED
    BY <2>3, <2>4
<1> QED
  BY <1>5, <1>7, <1>8, <1>9, OneActionPlaced

LEMMA RequestLandsPlaced ==
  ASSUME Whole, NEW w \in Workers, RequestLands(w)
  PROVE  PlacedInv'
<1>1. PICK ids \in Chunks(wk[w].todo) :
        /\ Apply(w, ids)
        /\ wk' = [wk EXCEPT
                    ![w].landed = TRUE, ![w].todo = @ \ ids,
                    ![w].pc = IF Row(w).verb = "later" /\ ~wk[w].landed THEN "timer"
                              ELSE AfterLanding(wk[w].todo \ ids)]
  BY DEF RequestLands
<1> DEFINE pc == IF Row(w).verb = "later" /\ ~wk[w].landed THEN "timer"
                 ELSE AfterLanding(wk[w].todo \ ids)
           todo == wk[w].todo \ ids
           v == [wk[w] EXCEPT !.landed = TRUE, !.todo = todo, !.pc = pc]
<1>2. wk[w] \in WorkerStates /\ wk[w].pc = "send" /\ ids \subseteq wk[w].todo
  BY DEF RequestLands, Whole, IInv, TypeOK, Chunks
<1>3. /\ pc \in {"timer", "commit", "hook"} /\ todo \in SUBSET Messages
      /\ ids \in SUBSET Messages /\ (pc = "commit" => todo = {})
  BY <1>2 DEF AfterLanding, WorkerStates
<1>4. wk' = [wk EXCEPT ![w] = v]
  BY <1>1, <1>2 DEF WorkerStates
<1>5. todo = wk[w].todo \ ids
  OBVIOUS
<1> HIDE DEF pc, todo
<1>6. v \in WorkerStates /\ v.pc = pc /\ v.job = wk[w].job /\ v.todo = todo
  BY <1>2, <1>3 DEF WorkerStates, Points, Critical
<1> HIDE DEF v
<1>7. OnlyWorker(w) /\ wk'[w] = v
  BY <1>4, <1>6 DEF Whole, IInv, TypeOK, OnlyWorker
<1>8. UNCHANGED <<mirror, row, journal, preview, home, disowned>>
  BY DEF RequestLands
<1>9. ProgressInv(w)' /\ RestoredInv(w)'
  <2>1. ProgressInv(w) /\ wk[w].pc \in Resolved /\ Sent(w)
    BY <1>2 DEF Whole, PlacedInv, ScopeInv, Resolved, Sent
  <2>2. Row(w)' = Row(w) /\ Act(w)' = Act(w)
    BY <1>6, <1>7, <1>8 DEF Row, Act, Job
  <2>3. applied'[Act(w)] = applied[Act(w)] \cup ids
    <3>1. PICK a \in Actions : Act(w) = a
      BY <1>2, Holder DEF Whole, ForwardPoints
    <3> QED
      BY <1>1, <3>1 DEF Apply, Whole, IInv, TypeOK
  <2>4. wk'[w].todo = wk[w].todo \ ids /\ wk'[w].pc \in {"timer", "commit", "hook"}
        /\ (wk'[w].pc = "commit" => wk'[w].todo = {})
    BY <1>3, <1>5, <1>6, <1>7
  <2> QED
    BY <2>1, <2>2, <2>3, <2>4 DEF ProgressInv, RestoredInv, ReversePoints
<1> QED
  BY <1>1, <1>2, <1>3, <1>7, <1>8, <1>9, RequestPlaced

LEMMA RequestUncertainPlaced ==
  ASSUME Whole, NEW w \in Workers, RequestUncertain(w)
  PROVE  PlacedInv'
<1>1. Leaves(w)
  BY ThrowEffect DEF Whole, IInv, RequestUncertain, Errors
<1>2. CASE UNCHANGED <<gmail, applied>>
  BY <1>1, <1>2, LeavesPlaced DEF RequestUncertain
<1>3. ASSUME NEW ids \in Chunks(wk[w].todo), Apply(w, ids) PROVE PlacedInv'
  <2>1. ids \in SUBSET Messages
    BY <1>3 DEF Chunks, Whole, IInv, TypeOK, WorkerStates
  <2>2. OnlyWorker(w) /\ wk'[w].pc \notin Resolved /\ wk'[w].pc \notin ReversePoints
    BY <1>1 DEF Leaves, Resolved, ReversePoints
  <2>3. ProgressInv(w)' /\ RestoredInv(w)'
    BY <2>2, ProgressOutside
  <2> QED
    BY <1>3, <2>1, <2>2, <2>3, RequestPlaced DEF RequestUncertain
<1> QED
  BY <1>2, <1>3 DEF RequestUncertain

(* The entry a Delete leaves is the placement of its row: true of what     *)
(* nobody else touched, and if its own action was disowned nothing is      *)
(* claimed of what it changed.                                             *)
LEMMA TerminalPlaced ==
  ASSUME Whole, NEW w \in Workers, wk[w].pc = "commit", TerminalTx(w), Leaves(w),
         UNCHANGED <<gmail, preview, applied, home, disowned>>
  PROVE  PlacedInv'
<1>1. IInv /\ wk[w].pc \in ForwardPoints /\ wk[w].pc \in Resolved /\ Sent(w)
  BY DEF Whole, ForwardPoints, Resolved, Sent
<1>2. PICK a \in Actions :
        /\ wk[w].job = Fwd(a) /\ Row(w) = row[Fwd(a)] /\ Fwd(a) \in Jobs /\ Act(w) = a
        /\ wk[w].pc \in Critical /\ row[Fwd(a)] \in Rows /\ row[Rev(a)].status = "absent"
        /\ row[Fwd(a)].status # "absent"
  BY <1>1, Holder
<1> DEFINE r == [row[Fwd(a)] EXCEPT !.status = "done"]
           e == UndoEntry(row[Fwd(a)])
<1>3. /\ r \in Rows /\ r.status = "done" /\ r.ids = row[Fwd(a)].ids /\ r.undo = row[Fwd(a)].undo
      /\ r.root = row[Fwd(a)].root /\ r.attempt = row[Fwd(a)].attempt
      /\ r.verb = row[Fwd(a)].verb
  BY <1>2 DEF Rows
<1>4. /\ e.known => row[Fwd(a)].verb = "delete" /\ row[Fwd(a)].undo.state = "known"
      /\ e.inbox \subseteq row[Fwd(a)].undo.inbox \cap row[Fwd(a)].ids
      /\ row[Fwd(a)].verb = "delete" => e.inbox = row[Fwd(a)].undo.inbox \cap row[Fwd(a)].ids
  BY DEF UndoEntry
<1>5. row' = [row EXCEPT ![Fwd(a)] = r] /\ journal' = [journal EXCEPT ![a] = e]
  BY <1>2 DEF TerminalTx, Job
<1> HIDE DEF r, e
<1>6. OnlyRow(Fwd(a)) /\ row'[Fwd(a)] = r
  BY <1>1, <1>2, <1>3, <1>5 DEF IInv, TypeOK, OnlyRow
<1>7. journal'[a] = e /\ \A b \in Actions \ {a} : journal'[b] = journal[b]
  BY <1>1, <1>5 DEF IInv, TypeOK
<1>8. AboutAction(a)
  BY <1>1, <1>2, <1>3, <1>6, <1>7, HolderAbout
<1>9. /\ Grows /\ UndosStand /\ SameScope(Fwd(a)) /\ SameScope(Rev(a))
      /\ row'[Rev(a)].status = "absent"
  <2>1. row'[Rev(a)] = row[Rev(a)]
    BY <1>6 DEF OnlyRow, Fwd, Rev, Jobs
  <2> QED
    BY <1>2, <1>3, <1>6, <1>8, <2>1 DEF AboutAction, SameScope
<1>10. ProgressInv(w)
  BY DEF Whole, PlacedInv, ScopeInv
<1>11. row[Fwd(a)].ids \subseteq applied[a]
  BY <1>1, <1>2, <1>10 DEF ProgressInv
<1>12. ScopedInv(a)' /\ UndoneInv(a)'
  <2>1. ScopedInv(a)
    BY DEF Whole, PlacedInv, ScopeInv
  <2>2. ScopedInv(a)'
    BY <1>1, <1>9, <2>1, ScopedStands
  <2>3. UndoneInv(a)'
    BY <1>3, <1>4, <1>6, <1>7, <1>9, <1>11 DEF UndoneInv
  <2> QED
    BY <2>2, <2>3
<1>13. \A u \in Workers : ProgressInv(u)' /\ RestoredInv(u)'
  <2>1. OnlyWorker(w) /\ wk'[w].pc \notin Resolved /\ wk'[w].pc \notin ReversePoints
    BY DEF Leaves, Resolved, ReversePoints
  <2>2. ProgressInv(w)' /\ RestoredInv(w)'
    BY <2>1, ProgressOutside
  <2> QED
    BY <1>1, <1>2, <2>1, <2>2, OthersOutside
<1>14. ASSUME OnlyDeletes
       PROVE  ActionTruth(a)' /\ \A m \in Messages : PristineInv(m)' /\ InboxInv(m)'
  <2>1. TruthInv
    BY <1>14 DEF Whole, PlacedInv
  <2>2. Row(w).verb = "delete" /\ row[Fwd(a)].undo.inbox \subseteq home
    BY <1>2, <2>1 DEF TruthInv, RowHomeInv
  <2>3. RecordedInv(a)'
    <3>1. PICK root : root = row[Fwd(a)].root
      OBVIOUS
    <3>2. \A m : Spoiled(m, root) => Spoiled(m, root)'
      BY <1>1, <1>9, Monotone
    <3>3. ASSUME e.known, NEW m \in row[Fwd(a)].ids
          PROVE  (m \in e.inbox <=> m \in home) \/ Spoiled(m, root)
      <4>1. m \in row[Fwd(a)].undo.ids /\ row[Fwd(a)].undo.state = "known"
        BY <1>1, <1>2, <1>4, <1>10, <2>2, <3>3 DEF ProgressInv
      <4>2. CASE a \in disowned
        BY <1>11, <3>3, <4>2 DEF Spoiled
      <4>3. CASE a \notin disowned
        <5>1. MeasuredInv(a)
          BY <2>1 DEF TruthInv
        <5>2. (m \in row[Fwd(a)].undo.inbox <=> m \in home) \/ Spoiled(m, root)
          BY <3>1, <4>1, <4>3, <5>1 DEF MeasuredInv
        <5> QED
          BY <1>2, <1>4, <2>2, <3>3, <5>2
      <4> QED
        BY <4>2, <4>3
    <3> QED
      BY <1>3, <1>4, <1>6, <1>7, <2>2, <3>1, <3>2, <3>3 DEF RecordedInv
  <2>4. ActionTruth(a)'
    BY <1>9, <2>1, <2>3, ForwardTruth
  <2>5. ASSUME NEW m \in Messages PROVE PristineInv(m)' /\ InboxInv(m)'
    <3>1. /\ mirror' = Modify(mirror, row[Fwd(a)].ids, ForwardChange("delete"))
          /\ DOMAIN mirror = Messages
      BY <1>1, <1>2, <2>2 DEF TerminalTx, IInv, TypeOK, Stores
    <3>2. CASE m \notin row[Fwd(a)].ids
      <4>1. mirror'[m] = mirror[m]
        BY <3>1, <3>2 DEF Modify
      <4> QED
        BY <1>9, <2>1, <4>1, MessagesStand
    <3>3. CASE m \in row[Fwd(a)].ids
      <4>1. "INBOX" \notin mirror'[m]
        BY <3>1, <3>3 DEF Modify, ForwardChange, LabelChange
      <4>2. m \in applied'[a]
        BY <1>11, <3>3
      <4>3. Placed(m) => Placed(m)'
        BY <1>9 DEF Placed, UndosStand
      <4>4. InboxInv(m)
        BY <2>1 DEF TruthInv
      <4> QED
        BY <4>1, <4>2, <4>3, <4>4 DEF PristineInv, InboxInv
    <3> QED
      BY <3>2, <3>3
  <2> QED
    BY <2>4, <2>5
<1> QED
  BY <1>8, <1>12, <1>13, <1>14, OneActionPlaced

-------------------------------------------------------------------------------
(* Undo, and the placement it restores.                                    *)

(* What an Undo's request makes of a message.                              *)
LEMMA RestoreEffect ==
  ASSUME NEW store, DOMAIN store = Messages, NEW w, Row(w).verb = "delete", NEW ids,
         NEW m \in Messages
  PROVE  /\ m \notin ids => RestoreTo(store, w, ids)[m] = store[m]
         /\ m \in ids =>
              /\ "TRASH" \notin RestoreTo(store, w, ids)[m]
              /\ "INBOX" \in RestoreTo(store, w, ids)[m] <=>
                   m \in ToInbox(w) \/ "INBOX" \in store[m]
<1> DEFINE inbox == ids \cap ToInbox(w)
           archive == ids \ ToInbox(w)
           first == Modify(store, inbox, ReverseChange("delete"))
<1>1. RestoreTo(store, w, ids) = Modify(first, archive, ArchiveReverseChange("delete"))
  BY DEF RestoreTo
<1>2. /\ ReverseChange("delete").add = {"INBOX"} /\ ReverseChange("delete").remove = {"TRASH"}
      /\ ArchiveReverseChange("delete").add = {}
      /\ ArchiveReverseChange("delete").remove = {"TRASH"}
  BY DEF ReverseChange, ArchiveReverseChange, LabelChange
<1>3. DOMAIN first = Messages
  BY DEF Modify
<1>4. first[m] = IF m \in inbox THEN (store[m] \ {"TRASH"}) \cup {"INBOX"} ELSE store[m]
  BY <1>2 DEF Modify
<1> HIDE DEF first
<1>5. RestoreTo(store, w, ids)[m] =
        IF m \in archive THEN (first[m] \ {"TRASH"}) \cup {} ELSE first[m]
  BY <1>1, <1>2, <1>3 DEF Modify
<1>6. CASE m \notin ids
  BY <1>4, <1>5, <1>6
<1>7. CASE m \in ids /\ m \in ToInbox(w)
  BY <1>4, <1>5, <1>7
<1>8. CASE m \in ids /\ m \notin ToInbox(w)
  BY <1>4, <1>5, <1>8
<1> QED
  BY <1>6, <1>7, <1>8

(* What is written to a reverse row, and to the entry it reverts.          *)
LEMMA ReverseAbout ==
  ASSUME IInv, NEW a \in Actions,
         row' = row \/ OnlyRow(Rev(a)),
         row[Rev(a)].status # "absent" =>
           row'[Rev(a)].status # "absent" /\ row'[Rev(a)].ids = row[Rev(a)].ids,
         \A b \in Actions \ {a} : journal'[b] = journal[b],
         journal'[a].inbox = journal[a].inbox,
         UNCHANGED <<applied, home, disowned, preview>>
  PROVE  AboutAction(a) /\ SameScope(Fwd(a))
<1>1. \A b \in Actions : row'[Fwd(b)] = row[Fwd(b)]
  BY DEF OnlyRow, Fwd, Rev, Jobs
<1>2. \A b \in Actions \ {a} : row'[Rev(b)] = row[Rev(b)]
  BY DEF OnlyRow, Rev, Jobs
<1>3. Grows
  BY <1>1 DEF Grows, Exists
<1>4. FailedStands
  BY <1>1 DEF FailedStands
<1>5. UndosStand
  BY <1>2 DEF UndosStand
<1>6. SameScope(Fwd(a))
  BY <1>1 DEF SameScope
<1> QED
  BY <1>1, <1>2, <1>3, <1>4, <1>5, <1>6 DEF AboutAction

LEMMA ReverseSentPlaced ==
  ASSUME Whole, NEW w \in Workers, wk[w].pc = "revsend", NEW ids, ids \subseteq wk[w].todo,
         gmail' = RestoreTo(gmail, w, ids), OnlyWorker(w),
         ProgressInv(w)', OnlyDeletes => RestoredInv(w)',
         UNCHANGED <<mirror, row, journal, preview, applied, home, disowned>>
  PROVE  PlacedInv'
<1>1. IInv /\ wk[w].pc \in Critical /\ ~Forward(wk[w].job)
  BY DEF Whole, IInv, WorkerInv, Critical, ReversePoints
<1>2. PICK a \in Actions :
        /\ wk[w].job = Rev(a) /\ Act(w) = a /\ Row(w) = row[Rev(a)] /\ Rev(a) \in Jobs
        /\ row[Rev(a)] \in Rows /\ row[Rev(a)].status # "absent"
  BY <1>1, Reverter
<1>3. AboutAction(a) /\ SameScope(Fwd(a)) /\ SameScope(Rev(a))
  BY <1>1, ReverseAbout DEF SameScope
<1>4. Grows /\ UndosStand
  BY <1>3 DEF AboutAction
<1>5. ScopedInv(a) /\ UndoneInv(a) /\ ProgressInv(w)
  BY DEF Whole, PlacedInv, ScopeInv
<1>6. ScopedInv(a)' /\ UndoneInv(a)'
  BY <1>1, <1>3, <1>4, <1>5, ScopedStands, UndoneStands
<1>7. \A u \in Workers \ {w} : ProgressInv(u)' /\ RestoredInv(u)'
  BY <1>1, OthersOutside
<1>8. ASSUME OnlyDeletes
      PROVE  /\ ActionTruth(a)' /\ \A m \in Messages : PristineInv(m)' /\ InboxInv(m)'
             /\ RestoredInv(w)'
  <2>1. TruthInv
    BY <1>8 DEF Whole, PlacedInv
  <2>2. RecordedInv(a) /\ Row(w).verb = "delete"
    BY <1>2, <2>1 DEF TruthInv, RowHomeInv
  <2>3. ActionTruth(a)'
    BY <1>1, <1>3, <1>4, <2>1, <2>2, ForwardTruth, RecordedStands
  <2>4. ASSUME NEW m \in Messages PROVE PristineInv(m)' /\ InboxInv(m)'
    <3>1. DOMAIN gmail = Messages
      BY <1>1 DEF IInv, TypeOK, Stores
    <3>2. CASE m \notin ids
      <4>1. gmail'[m] = gmail[m]
        BY <2>2, <3>1, <3>2, RestoreEffect
      <4> QED
        BY <1>4, <2>1, <4>1, MessagesStand
    <3>3. CASE m \in ids
      <4>1. m \in row[Rev(a)].ids /\ m \in applied[a]
        BY <1>2, <1>5, <3>3 DEF ProgressInv, UndoneInv
      <4>2. "INBOX" \in gmail'[m] <=> m \in ToInbox(w) \/ "INBOX" \in gmail[m]
        BY <2>2, <3>1, <3>3, RestoreEffect
      <4>3. m \in ToInbox(w) => m \in journal[a].inbox /\ m \in home
        BY <1>2, <2>2 DEF ToInbox, RecordedInv
      <4>4. m \in ToInbox(w) => Placed(m)
        BY <1>2, <4>1, <4>3 DEF Placed
      <4>5. Placed(m) => Placed(m)'
        BY <1>4 DEF Placed, UndosStand
      <4>6. InboxInv(m)
        BY <2>1 DEF TruthInv
      <4> QED
        BY <4>1, <4>2, <4>3, <4>4, <4>5, <4>6 DEF PristineInv, InboxInv
    <3> QED
      BY <3>2, <3>3
  <2> QED
    BY <1>8, <2>3, <2>4
<1> QED
  BY <1>3, <1>6, <1>7, <1>8, OneActionPlaced

LEMMA NextGroupPart ==
  ASSUME NEW w PROVE NextGroup(w) \subseteq wk[w].todo
  BY DEF NextGroup

LEMMA ReverseLandsPlaced ==
  ASSUME Whole, NEW w \in Workers, ReverseLands(w)
  PROVE  PlacedInv'
<1> DEFINE ids == NextGroup(w)
           todo == wk[w].todo \ ids
           pc == IF wk[w].todo = ids THEN "revcommit" ELSE "revsend"
           v == [wk[w] EXCEPT !.todo = todo, !.pc = pc]
<1>1. wk[w] \in WorkerStates /\ wk' = [wk EXCEPT ![w] = v] /\ wk[w].pc = "revsend"
  BY DEF Whole, IInv, TypeOK, ReverseLands, WorkerStates
<1>2. /\ pc \in {"revcommit", "revsend"} /\ todo \in SUBSET Messages
      /\ pc = "revcommit" => todo = {}
      /\ todo = wk[w].todo \ ids /\ ids \subseteq wk[w].todo
  BY <1>1, NextGroupPart DEF WorkerStates
<1>3. gmail' = RestoreTo(gmail, w, ids)
  BY DEF ReverseLands
<1> HIDE DEF todo, pc, ids
<1>4. v \in WorkerStates /\ v.pc = pc /\ v.job = wk[w].job /\ v.todo = todo
  BY <1>1, <1>2 DEF WorkerStates, Points, Critical
<1> HIDE DEF v
<1>5. OnlyWorker(w) /\ wk'[w] = v
  BY <1>1, <1>4 DEF Whole, IInv, TypeOK, OnlyWorker
<1>6. UNCHANGED <<mirror, row, journal, preview, applied, home, disowned>>
  BY DEF ReverseLands
<1>7. Row(w)' = Row(w) /\ ToInbox(w)' = ToInbox(w)
  BY <1>4, <1>5, <1>6 DEF Row, Job, Act, ToInbox
<1>8. ProgressInv(w) /\ wk[w].todo \subseteq Row(w).ids
  BY <1>1 DEF Whole, PlacedInv, ScopeInv, ProgressInv
<1>9. ProgressInv(w)'
  BY <1>2, <1>4, <1>5, <1>7, <1>8 DEF ProgressInv, Sent, Resolved
<1>10. ASSUME OnlyDeletes PROVE RestoredInv(w)'
  <2>1. RestoredInv(w) /\ wk[w].pc \in ReversePoints
    BY <1>1, <1>10 DEF Whole, PlacedInv, TruthInv, ReversePoints
  <2>2. Row(w).verb = "delete" /\ Row(w).ids \subseteq Messages /\ DOMAIN gmail = Messages
    <3>1. wk[w].pc \in Critical /\ ~Forward(wk[w].job) /\ IInv
      BY <1>1 DEF Whole, IInv, WorkerInv, Critical, ReversePoints
    <3>2. PICK a \in Actions : /\ Row(w) = row[Rev(a)] /\ Rev(a) \in Jobs
                               /\ row[Rev(a)] \in Rows /\ row[Rev(a)].status # "absent"
      BY <3>1, Reverter
    <3>3. RowHomeInv(Rev(a))
      BY <1>10, <3>2 DEF Whole, PlacedInv, TruthInv
    <3> QED
      BY <3>1, <3>2, <3>3 DEF RowHomeInv, Rows, IInv, TypeOK, Stores
  <2>3. ASSUME NEW m \in Row(w).ids \ todo
        PROVE  "TRASH" \notin gmail'[m] /\ (m \in ToInbox(w) => "INBOX" \in gmail'[m])
    <3>1. m \in Messages
      BY <2>2
    <3>2. CASE m \in ids
      BY <1>3, <2>2, <3>1, <3>2, RestoreEffect
    <3>3. CASE m \notin ids
      <4>1. gmail'[m] = gmail[m]
        BY <1>3, <2>2, <3>1, <3>3, RestoreEffect
      <4>2. m \in Row(w).ids \ wk[w].todo
        BY <1>2, <3>3
      <4> QED
        BY <2>1, <4>1, <4>2 DEF RestoredInv
    <3> QED
      BY <3>2, <3>3
  <2> QED
    BY <1>4, <1>5, <1>7, <2>3 DEF RestoredInv
<1> QED
  BY <1>1, <1>2, <1>3, <1>5, <1>6, <1>9, <1>10, ReverseSentPlaced

LEMMA ReverseFailsPlaced ==
  ASSUME Whole, NEW w \in Workers, ReverseFails(w)
  PROVE  PlacedInv'
<1>1. Leaves(w)
  BY ThrowEffect DEF Whole, IInv, ReverseFails, Errors
<1>2. CASE UNCHANGED gmail
  BY <1>1, <1>2, LeavesPlaced DEF ReverseFails
<1>3. CASE gmail' = RestoreTo(gmail, w, NextGroup(w))
  <2>1. OnlyWorker(w) /\ wk'[w].pc \notin Resolved /\ wk'[w].pc \notin ReversePoints
    BY <1>1 DEF Leaves, Resolved, ReversePoints
  <2>2. ProgressInv(w)' /\ RestoredInv(w)'
    BY <2>1, ProgressOutside
  <2> QED
    BY <1>3, <2>1, <2>2, NextGroupPart, ReverseSentPlaced DEF ReverseFails
<1> QED
  BY <1>2, <1>3 DEF ReverseFails

LEMMA CommitReversePlaced ==
  ASSUME Whole, NEW w \in Workers, CommitReverse(w)
  PROVE  PlacedInv'
<1>1. IInv /\ wk[w].pc \in Critical /\ ~Forward(wk[w].job)
  BY DEF Whole, IInv, WorkerInv, CommitReverse, Critical, ReversePoints
<1>2. PICK a \in Actions :
        /\ wk[w].job = Rev(a) /\ Act(w) = a /\ Row(w) = row[Rev(a)] /\ Rev(a) \in Jobs
        /\ row[Rev(a)] \in Rows /\ row[Rev(a)].status # "absent"
        /\ journal[a] \in Entries /\ journal[a].state # "none"
  BY <1>1, Reverter
<1> DEFINE r == [row[Rev(a)] EXCEPT !.status = "done"]
           e == [journal[a] EXCEPT !.state = "reverted"]
<1>3. row' = [row EXCEPT ![Rev(a)] = r] /\ journal' = [journal EXCEPT ![a] = e]
  BY <1>2 DEF CommitReverse, Job
<1>4. /\ r \in Rows /\ r.status = "done" /\ r.ids = row[Rev(a)].ids /\ r.undo = row[Rev(a)].undo
      /\ r.root = row[Rev(a)].root /\ r.verb = row[Rev(a)].verb
      /\ e.state = "reverted" /\ e.inbox = journal[a].inbox /\ e.known = journal[a].known
  BY <1>2 DEF Rows, Entries
<1> HIDE DEF r, e
<1>5. OnlyRow(Rev(a)) /\ row'[Rev(a)] = r
  BY <1>1, <1>2, <1>3, <1>4 DEF IInv, TypeOK, OnlyRow
<1>6. journal'[a] = e /\ \A b \in Actions \ {a} : journal'[b] = journal[b]
  BY <1>1, <1>3 DEF IInv, TypeOK
<1>7. UNCHANGED <<gmail, preview, applied, home, disowned>>
  BY DEF CommitReverse
<1>8. AboutAction(a) /\ SameScope(Fwd(a)) /\ SameScope(Rev(a))
  <2>1. SameScope(Rev(a))
    BY <1>2, <1>4, <1>5 DEF SameScope
  <2> QED
    BY <1>1, <1>4, <1>5, <1>6, <1>7, <2>1, ReverseAbout
<1>9. Grows /\ UndosStand
  BY <1>8 DEF AboutAction
<1>10. ScopedInv(a) /\ UndoneInv(a)
  BY DEF Whole, PlacedInv, ScopeInv
<1>11. ScopedInv(a)' /\ UndoneInv(a)'
  <2>1. ScopedInv(a)'
    BY <1>1, <1>8, <1>9, <1>10, ScopedStands
  <2>2. journal[a] # NoEntry
    BY <1>2 DEF NoEntry
  <2>3. UndoneInv(a)'
    BY <1>4, <1>5, <1>6, <1>7, <1>8, <1>10, <2>2 DEF UndoneInv, SameScope
  <2> QED
    BY <2>1, <2>3
<1>12. \A u \in Workers : ProgressInv(u)' /\ RestoredInv(u)'
  <2>1. Leaves(w)
    BY <1>1, ReturnEffect DEF IInv, CommitReverse
  <2>2. OnlyWorker(w) /\ wk'[w].pc \notin Resolved /\ wk'[w].pc \notin ReversePoints
    BY <2>1 DEF Leaves, Resolved, ReversePoints
  <2> QED
    BY <1>1, <2>2, ProgressOutside, OthersOutside
<1>13. ASSUME OnlyDeletes
       PROVE  ActionTruth(a)' /\ \A m \in Messages : PristineInv(m)' /\ InboxInv(m)'
  <2>1. TruthInv
    BY <1>13 DEF Whole, PlacedInv
  <2>2. RecordedInv(a) /\ Row(w).verb = "delete"
    BY <1>2, <2>1 DEF TruthInv, RowHomeInv
  <2>3. RecordedInv(a)'
    BY <1>1, <1>4, <1>6, <1>8, <1>9, <2>2, RecordedStands
  <2>4. ActionTruth(a)'
    BY <1>8, <1>9, <2>1, <2>3, ForwardTruth
  <2>5. ASSUME NEW m \in Messages PROVE PristineInv(m)' /\ InboxInv(m)'
    <3>1. DOMAIN mirror = Messages /\ mirror' = RestoreTo(mirror, w, row[Rev(a)].ids)
      BY <1>1, <1>2 DEF IInv, TypeOK, Stores, CommitReverse
    <3>2. CASE m \notin row[Rev(a)].ids
      <4>1. mirror'[m] = mirror[m]
        BY <2>2, <3>1, <3>2, RestoreEffect
      <4> QED
        BY <1>7, <1>9, <2>1, <4>1, MessagesStand
    <3>3. CASE m \in row[Rev(a)].ids
      <4>1. m \in applied[a]
        BY <1>2, <1>10, <3>3 DEF UndoneInv
      <4>2. "INBOX" \in mirror'[m] <=> m \in ToInbox(w) \/ "INBOX" \in mirror[m]
        BY <2>2, <3>1, <3>3, RestoreEffect
      <4>3. m \in ToInbox(w) => m \in home
        BY <1>2, <2>2 DEF ToInbox, RecordedInv
      <4>4. Placed(m) => Placed(m)'
        BY <1>9 DEF Placed, UndosStand
      <4>5. InboxInv(m)
        BY <2>1 DEF TruthInv
      <4> QED
        BY <1>7, <4>1, <4>2, <4>3, <4>4, <4>5 DEF PristineInv, InboxInv
    <3> QED
      BY <3>2, <3>3
  <2> QED
    BY <2>4, <2>5
<1> QED
  BY <1>8, <1>11, <1>12, <1>13, OneActionPlaced

(* The row of an Undo starts as a copy of the row it reverts.              *)
LEMMA UndoPlaced ==
  ASSUME Whole, NEW a \in Actions, Undo(a)
  PROVE  PlacedInv'
<1>1. UNCHANGED <<gmail, mirror, journal, preview, wk, applied, home, disowned>>
  BY DEF Undo
<1>2. CASE row' = row
  BY <1>1, <1>2, StillPlaced
<1>3. CASE /\ row[Rev(a)].status = "absent"
           /\ row' = [row EXCEPT ![Rev(a)] = [row[Fwd(a)] EXCEPT !.status = "queued",
                                                                 !.err = "none"]]
  <2> DEFINE r == [row[Fwd(a)] EXCEPT !.status = "queued", !.err = "none"]
  <2>1. IInv /\ Rev(a) \in Jobs /\ row[Fwd(a)] \in Rows
    BY DEF Whole, IInv, TypeOK, Fwd, Rev, Jobs
  <2>2. /\ r \in Rows /\ r.ids = row[Fwd(a)].ids /\ r.undo = row[Fwd(a)].undo
        /\ r.verb = row[Fwd(a)].verb /\ row' = [row EXCEPT ![Rev(a)] = r]
    BY <1>3, <2>1 DEF Rows, Codes
  <2> HIDE DEF r
  <2>3. OnlyRow(Rev(a)) /\ row'[Rev(a)] = r
    BY <2>1, <2>2 DEF IInv, TypeOK, OnlyRow
  <2>4. AboutAction(a) /\ SameScope(Fwd(a))
    BY <1>1, <1>3, <2>1, <2>3, ReverseAbout
  <2>5. Grows /\ UndosStand
    BY <2>4 DEF AboutAction
  <2>6. ScopedInv(a) /\ UndoneInv(a) /\ journal[a] # NoEntry /\ Exists(a)
    <3>1. journal[a] # NoEntry
      BY DEF Undo, NoEntry
    <3>2. Exists(a)
      BY <2>1, <3>1 DEF IInv, ActionInv, Untouched, Exists
    <3> QED
      BY <3>1, <3>2 DEF Whole, PlacedInv, ScopeInv
  <2>7. ScopedInv(a)'
    BY <2>1, <2>4, <2>5, <2>6, ScopedStands
  <2>8. UndoneInv(a)'
    BY <1>1, <2>2, <2>3, <2>4, <2>6 DEF UndoneInv, SameScope
  <2>9. ASSUME NEW j \in Jobs, row[j].status # "absent"
        PROVE  row'[j] = row[j] /\ journal'[j[1]].inbox = journal[j[1]].inbox
    BY <1>1, <1>3, <2>3, <2>9 DEF OnlyRow
  <2>10. ASSUME NEW u \in Workers
         PROVE  ProgressInv(u)' /\ (RestoredInv(u) => RestoredInv(u)')
    <3>1. ProgressInv(u)
      BY DEF Whole, PlacedInv, ScopeInv
    <3> QED
      BY <1>1, <2>1, <2>9, <3>1, WorkersStand
  <2>11. ASSUME OnlyDeletes
         PROVE  /\ ActionTruth(a)' /\ \A m \in Messages : PristineInv(m)' /\ InboxInv(m)'
                /\ \A u \in Workers : RestoredInv(u)'
    <3>1. TruthInv
      BY <2>11 DEF Whole, PlacedInv
    <3>2. \A m \in Messages : PristineInv(m)' /\ InboxInv(m)'
      BY <1>1, <2>5, <3>1, MessagesStand
    <3>3. MeasuredInv(a) /\ RecordedInv(a) /\ RowHomeInv(Fwd(a))
      BY <3>1 DEF TruthInv, Fwd, Jobs
    <3>4. MeasuredInv(a)' /\ RecordedInv(a)' /\ RowHomeInv(Fwd(a))'
      BY <1>1, <2>1, <2>4, <2>5, <3>3, MeasuredStands, RecordedStands, RowHomeStands DEF Fwd, Jobs
    <3>5. RowHomeInv(Rev(a))'
      BY <1>1, <2>2, <2>3, <2>6, <3>3 DEF RowHomeInv, Exists
    <3> QED
      BY <2>10, <3>1, <3>2, <3>4, <3>5 DEF ActionTruth, TruthInv
  <2> QED
    BY <2>4, <2>7, <2>8, <2>10, <2>11, OneActionPlaced
<1> QED
  BY <1>2, <1>3 DEF Undo

(* A forward row that appears: nothing of it has happened.                 *)
LEMMA NewRowPlaced ==
  ASSUME Whole, NEW a \in Actions, row[Fwd(a)].status = "absent",
         OnlyRow(Fwd(a)), row'[Fwd(a)].status = "queued", ScopedInv(a)',
         OnlyDeletes => MeasuredInv(a)' /\ RowHomeInv(Fwd(a))',
         UNCHANGED <<gmail, mirror, journal, wk, applied, home, disowned>>,
         \A r \in Actions : preview'[r] = preview[r] \/ preview'[r].state = "consumed"
  PROVE  PlacedInv'
<1>1. IInv /\ journal[a] = NoEntry /\ row[Rev(a)].status = "absent" /\ Fwd(a) \in Jobs
  BY DEF Whole, IInv, ActionInv, Untouched, NoEntry, Fwd, Jobs
<1>2. /\ \A b \in Actions \ {a} : row'[Fwd(b)] = row[Fwd(b)]
      /\ \A b \in Actions : row'[Rev(b)] = row[Rev(b)]
  BY DEF OnlyRow, Fwd, Rev, Jobs
<1>3. Grows
  BY <1>2 DEF Grows, Exists
<1>4. FailedStands
  BY <1>2 DEF FailedStands
<1>5. UndosStand
  BY <1>2 DEF UndosStand
<1>6. AboutAction(a)
  BY <1>2, <1>3, <1>4, <1>5 DEF AboutAction
<1>7. UndoneInv(a)' /\ RecordedInv(a)'
  BY <1>1, <1>2 DEF UndoneInv, RecordedInv, NoEntry
<1>8. ASSUME NEW j \in Jobs, row[j].status # "absent"
      PROVE  row'[j] = row[j] /\ journal'[j[1]].inbox = journal[j[1]].inbox
  BY <1>8 DEF OnlyRow
<1>9. ASSUME NEW u \in Workers
      PROVE  ProgressInv(u)' /\ (RestoredInv(u) => RestoredInv(u)')
  <2>1. ProgressInv(u)
    BY DEF Whole, PlacedInv, ScopeInv
  <2> QED
    BY <1>1, <1>8, <2>1, WorkersStand
<1>10. ASSUME OnlyDeletes
       PROVE  /\ ActionTruth(a)' /\ \A m \in Messages : PristineInv(m)' /\ InboxInv(m)'
              /\ \A u \in Workers : RestoredInv(u)'
  <2>1. TruthInv
    BY <1>10 DEF Whole, PlacedInv
  <2>2. \A m \in Messages : PristineInv(m)' /\ InboxInv(m)'
    BY <1>3, <1>5, <2>1, MessagesStand
  <2>3. RowHomeInv(Rev(a))'
    BY <1>2, <2>1 DEF TruthInv, RowHomeInv, Rev, Jobs
  <2> QED
    BY <1>7, <1>9, <1>10, <2>1, <2>2, <2>3 DEF ActionTruth, TruthInv
<1> QED
  BY <1>6, <1>7, <1>9, <1>10, OneActionPlaced

LEMMA ClickPlaced ==
  ASSUME Whole, NEW a \in Actions, NEW verb \in Verbs, NEW reach \in Reaches,
         NEW wake \in Wakes \cup {None}, NEW override \in BOOLEAN,
         Click(a, verb, reach, wake, override)
  PROVE  PlacedInv'
<1> DEFINE r == NewRow(a, verb, reach, wake)
<1>1. r \in Rows /\ r.status = "queued" /\ r.verb = verb /\ r.undo = NoPlacement
  BY SetsAssumption DEF NewRow, Rows, Codes, NoPlacement, Placements
<1>2. /\ Fwd(a) \in Jobs /\ row' = [row EXCEPT ![Fwd(a)] = r]
      /\ row[Fwd(a)].status = "absent"
  BY DEF Click, Fwd, Jobs
<1> HIDE DEF r
<1>3. OnlyRow(Fwd(a)) /\ row'[Fwd(a)] = r
  BY <1>1, <1>2 DEF Whole, IInv, TypeOK, OnlyRow
<1>4. ScopedInv(a)' /\ MeasuredInv(a)'
  BY <1>1, <1>3 DEF ScopedInv, MeasuredInv, NoPlacement
<1>5. OnlyDeletes => RowHomeInv(Fwd(a))'
  BY <1>1, <1>3 DEF OnlyDeletes, RowHomeInv, NoPlacement
<1> QED
  BY <1>1, <1>2, <1>3, <1>4, <1>5, NewRowPlaced DEF Click

(* A reviewed retry inherits the placement of the latest attempt.          *)
LEMMA ConfirmReviewPlaced ==
  ASSUME Whole, NEW root \in Actions, NEW child \in Actions, NEW ack \in BOOLEAN,
         ConfirmReview(root, child, ack)
  PROVE  PlacedInv'
<1> DEFINE c == preview[root].current
           t == preview[root].target
           n == Cardinality(Lineage(root))
           r == [row[Fwd(c)] EXCEPT !.status = "queued", !.err = "none", !.ids = t,
                                    !.attempt = n, !.root = root]
           p == [preview[root] EXCEPT !.state = "consumed"]
<1>1. IInv /\ preview \in [Actions -> Previews] /\ preview[root] \in Previews /\ n \in Nat
  BY LineageFinite DEF Whole, IInv, TypeOK
<1>2. c \in Actions /\ row[Fwd(c)] \in Rows /\ t \in SUBSET Messages /\ p.state = "consumed"
  BY <1>1 DEF Previews, IInv, TypeOK, Fwd, Jobs
<1>3. row' = [row EXCEPT ![Fwd(child)] = r] /\ preview' = [preview EXCEPT ![root] = p]
  BY DEF ConfirmReview
<1>4. Exists(c) /\ row[Fwd(c)].root = root /\ preview[root].state = "ready" /\ t # {}
      /\ \A b \in Actions : Akin(c, b) => row[Fwd(b)].attempt <= row[Fwd(c)].attempt
  BY DEF Whole, AttemptsInv, ReviewInv, ConfirmReview
<1>5. TargetInv(root)
  BY DEF Whole, PlacedInv, ScopeInv
<1>6. Clear(root) => row[Fwd(c)].undo.state = "none" \/ t \subseteq row[Fwd(c)].undo.ids
  BY <1>4, <1>5 DEF TargetInv
<1> HIDE DEF c, t, n, p
<1>7. /\ r \in Rows /\ r.status = "queued" /\ r.root = root /\ r.ids = t
      /\ r.undo = row[Fwd(c)].undo /\ r.verb = row[Fwd(c)].verb
  BY <1>1, <1>2 DEF Rows, Codes
<1> HIDE DEF r
<1>8. Fwd(child) \in Jobs /\ row[Fwd(child)].status = "absent"
  BY DEF ConfirmReview, Fwd, Jobs
<1>9. OnlyRow(Fwd(child)) /\ row'[Fwd(child)] = r
  BY <1>1, <1>3, <1>7, <1>8 DEF IInv, TypeOK, OnlyRow
<1>10. \A s \in Actions : preview'[s] = preview[s] \/ preview'[s].state = "consumed"
  BY <1>1, <1>2, <1>3
<1>11. UNCHANGED <<gmail, mirror, journal, wk, applied, home, disowned>>
  BY DEF ConfirmReview
<1>12. Grows
  <2>1. \A b \in Actions \ {child} : row'[Fwd(b)] = row[Fwd(b)]
    BY <1>9 DEF OnlyRow, Fwd, Jobs
  <2> QED
    BY <1>8, <1>11, <2>1 DEF Grows, Exists
<1>13. (Clear(root)' => Clear(root)) /\ \A m : Spoiled(m, root) => Spoiled(m, root)'
  BY <1>1, <1>12, Monotone
<1>14. ScopedInv(child)'
  BY <1>4, <1>6, <1>7, <1>9, <1>13 DEF ScopedInv
<1>15. ASSUME OnlyDeletes PROVE MeasuredInv(child)' /\ RowHomeInv(Fwd(child))'
  <2>1. MeasuredInv(c) /\ RowHomeInv(Fwd(c))
    BY <1>2, <1>15 DEF Whole, PlacedInv, TruthInv, Fwd, Jobs
  <2>2. ~Superseded(c)
    <3>1. ASSUME NEW b \in Actions, Akin(c, b), row[Fwd(c)].attempt < row[Fwd(b)].attempt
          PROVE  FALSE
      <4>1. row[Fwd(b)].attempt \in Nat /\ row[Fwd(c)].attempt \in Nat
        BY <1>1, <1>2 DEF IInv, TypeOK, Fwd, Jobs, Rows
      <4>2. row[Fwd(b)].attempt <= row[Fwd(c)].attempt
        BY <1>4, <3>1
      <4> QED
        BY <3>1, <4>1, <4>2
    <3> QED
      BY <3>1 DEF Superseded
  <2>3. row[Fwd(c)].undo.state = "known" =>
          \A m \in row[Fwd(c)].undo.ids :
            (m \in row[Fwd(c)].undo.inbox <=> m \in home) \/ Spoiled(m, root)
    BY <1>4, <2>1, <2>2 DEF MeasuredInv
  <2>4. MeasuredInv(child)'
    BY <1>7, <1>9, <1>11, <1>13, <2>3 DEF MeasuredInv
  <2>5. RowHomeInv(Fwd(child))'
    BY <1>4, <1>7, <1>9, <1>11, <2>1 DEF RowHomeInv, Exists
  <2> QED
    BY <2>4, <2>5
<1> QED
  BY <1>7, <1>8, <1>9, <1>10, <1>11, <1>14, <1>15, NewRowPlaced

(* The sync shows in the mirror what is in Gmail.                          *)
LEMMA MailMovesPlaced ==
  ASSUME Whole, NEW m \in Messages, MoveMail(m) \/ SyncMessage(m)
  PROVE  PlacedInv'
<1>1. IInv /\ AttemptsInv /\ ScopeInv /\ (OnlyDeletes => TruthInv)
  BY DEF Whole, PlacedInv
<1>2. UNCHANGED <<row, journal, preview, wk, applied, home, disowned>>
  BY DEF MoveMail, SyncMessage
<1>3. Grows /\ FailedStands /\ UndosStand
  BY <1>2 DEF Exists, Grows, FailedStands, UndosStand
<1>4. ScopeInv'
  <2>1. \A a \in Actions : UndoneInv(a)' /\ ScopedInv(a)' /\ TargetInv(a)'
    <3>1. ASSUME NEW a \in Actions PROVE UndoneInv(a)' /\ ScopedInv(a)' /\ TargetInv(a)'
      <4>1. ScopedInv(a) /\ UndoneInv(a) /\ SameScope(Fwd(a))
        BY <1>1, <1>2 DEF ScopeInv, SameScope
      <4> QED
        BY <1>1, <1>2, <1>3, <4>1, ScopedStands, UndoneStands, TargetsStand
    <3> QED
      BY <3>1
  <2>2. \A u \in Workers : ProgressInv(u)'
    BY <1>1, <1>2 DEF ScopeInv, ProgressInv, Row, Act, Job, Sent
  <2> QED
    BY <2>1, <2>2 DEF ScopeInv
<1>5. ASSUME OnlyDeletes PROVE TruthInv'
  <2>1. TruthInv /\ SyncMessage(m) /\ gmail' = gmail
    BY <1>1, <1>5 DEF OnlyDeletes, MoveMail, SyncMessage
  <2>2. \A a \in Actions : MeasuredInv(a)' /\ RecordedInv(a)'
    <3>1. ASSUME NEW a \in Actions PROVE MeasuredInv(a)' /\ RecordedInv(a)'
      <4>1. MeasuredInv(a) /\ RecordedInv(a) /\ SameScope(Fwd(a))
        BY <1>2, <2>1 DEF TruthInv, SameScope
      <4> QED
        BY <1>1, <1>2, <1>3, <4>1, MeasuredStands, RecordedStands
    <3> QED
      BY <3>1
  <2>3. \A j \in Jobs : RowHomeInv(j)'
    BY <1>2, <2>1 DEF TruthInv, RowHomeInv
  <2>4. ASSUME NEW x \in Messages PROVE PristineInv(x)' /\ InboxInv(x)'
    <3>1. CASE x # m
      <4>1. mirror'[x] = mirror[x]
        BY <2>1, <3>1 DEF SyncMessage, IInv, TypeOK, Stores
      <4> QED
        BY <1>2, <1>3, <2>1, <4>1, MessagesStand
    <3>2. CASE x = m
      <4>1. mirror'[m] = gmail[m] /\ gmail'[m] = gmail[m]
        BY <1>1, <2>1 DEF SyncMessage, IInv, TypeOK, Stores
      <4>2. PristineInv(m) /\ InboxInv(m)
        BY <2>1 DEF TruthInv
      <4>3. Placed(m)' <=> Placed(m)
        BY <1>2 DEF Placed
      <4> QED
        BY <1>2, <3>2, <4>1, <4>2, <4>3 DEF PristineInv, InboxInv
    <3> QED
      BY <3>1, <3>2
  <2>5. \A u \in Workers : RestoredInv(u)'
    BY <1>2, <2>1 DEF TruthInv, RestoredInv, Row, Act, Job, ToInbox
  <2> QED
    BY <2>2, <2>3, <2>4, <2>5 DEF TruthInv
<1>6. OnlyDeletes' <=> OnlyDeletes
  BY DEF OnlyDeletes
<1> QED
  BY <1>4, <1>5, <1>6 DEF PlacedInv

LEMMA CommitsPlaced ==
  ASSUME Whole, NEW w \in Workers, Commit(w) \/ CommitUnacknowledged(w)
  PROVE  PlacedInv'
<1>1. CASE Commit(w)
  <2>1. Leaves(w)
    BY <1>1, ReturnEffect DEF Whole, IInv, Commit
  <2> QED
    BY <1>1, <2>1, TerminalPlaced DEF Commit
<1>2. CASE CommitUnacknowledged(w)
  <2>1. Leaves(w)
    BY <1>2, ThrowEffect DEF Whole, IInv, CommitUnacknowledged, Errors
  <2> QED
    BY <1>2, <2>1, TerminalPlaced DEF CommitUnacknowledged
<1> QED
  BY <1>1, <1>2

LEMMA WorkerStepPlaced ==
  ASSUME Whole, NEW w \in Workers, WorkerStep(w)
  PROVE  PlacedInv'
  BY AcquireLockPlaced, EndingsPlaced, StartForwardPlaced, StartReversePlaced,
     CheckProtectedPlaced, ResolveIdsPlaced, CommitEmptyPlaced, GetClientPlaced,
     MarkExecutingPlaced, AssertNotProtectedPlaced, RequestLandsPlaced, ResetRefusedPlaced,
     ScheduleReturnPlaced, CommitsPlaced, ReverseLandsPlaced, CommitReversePlaced,
     RecordFailurePlaced DEF WorkerStep

LEMMA WorkerFaultPlaced ==
  ASSUME Whole, NEW w \in Workers, WorkerFault(w)
  PROVE  PlacedInv'
  BY EndingsPlaced, RecordFailureLostPlaced, RequestRefusedPlaced, RequestUncertainPlaced,
     CommitsPlaced, ReverseFailsPlaced DEF WorkerFault

LEMMA UserStepPlaced ==
  ASSUME Whole, UserStep
  PROVE  PlacedInv'
<1>1. ASSUME NEW a \in Actions, NEW ack \in BOOLEAN, ReplayConfirm(a, ack) PROVE PlacedInv'
  BY <1>1, StillPlaced DEF ReplayConfirm
<1>2. CASE SetProtected
  BY <1>2, StillPlaced DEF SetProtected
<1> QED
  BY <1>1, <1>2, ClickPlaced, UndoPlaced, ResetRevertPlaced, ReviewsPlaced,
     ConfirmReviewPlaced, MailMovesPlaced DEF UserStep

LEMMA PlacedPreserved == Whole /\ [Next]_vars => PlacedInv'
<1> SUFFICES ASSUME Whole, [Next]_vars PROVE PlacedInv'
  OBVIOUS
<1>1. ASSUME NEW j \in Jobs, ApiStep(j) \/ Stall(j) PROVE PlacedInv'
  BY <1>1, RequestsPlaced, EnqueueFailedPlaced DEF ApiStep
<1>2. CASE UNCHANGED vars
  BY <1>2, StillPlaced DEF vars
<1> QED
  BY <1>1, <1>2, WorkerStepPlaced, WorkerFaultPlaced, UserStepPlaced, TakePlaced DEF Next

(* Before any click no placement is stored and every message is home.      *)
LEMMA PlacedEstablished == Init => PlacedInv
<1> SUFFICES ASSUME Init PROVE PlacedInv
  OBVIOUS
<1>1. \A j \in Jobs : row[j].status = "absent" /\ row[j].undo.state = "none"
                      /\ row[j].undo.inbox = {}
  BY DEF Init, AbsentRow, NoPlacement
<1>2. \A w \in Workers : wk[w].pc = "idle"
  BY DEF Init, IdleWorker
<1>3. \A w \in Workers : ProgressInv(w) /\ RestoredInv(w)
  BY <1>2 DEF ProgressInv, RestoredInv, Resolved, ReversePoints, Sent
<1>4. ASSUME NEW a \in Actions
      PROVE  /\ ScopedInv(a) /\ TargetInv(a) /\ UndoneInv(a)
             /\ MeasuredInv(a) /\ RecordedInv(a)
  <2>1. row[Fwd(a)].undo.state = "none" /\ row[Rev(a)].status = "absent"
    BY <1>1 DEF Fwd, Rev, Jobs
  <2>2. /\ preview[a].state = "none" /\ journal[a] = NoEntry
        /\ journal[a].inbox = {} /\ ~journal[a].known
    BY DEF Init, NoPreview, NoEntry
  <2> QED
    BY <2>1, <2>2 DEF ScopedInv, TargetInv, UndoneInv, MeasuredInv, RecordedInv
<1>5. \A j \in Jobs : RowHomeInv(j)
  BY <1>1 DEF RowHomeInv
<1>6. ASSUME NEW m \in Messages PROVE PristineInv(m) /\ InboxInv(m)
  <2>1. gmail[m] = (IF m \in home THEN {"INBOX"} ELSE {}) /\ mirror[m] = gmail[m]
    BY DEF Init
  <2>2. \A b \in Actions : m \notin applied[b]
    BY DEF Init
  <2> QED
    BY <2>1, <2>2 DEF PristineInv, InboxInv
<1> QED
  BY <1>3, <1>4, <1>5, <1>6 DEF PlacedInv, ScopeInv, TruthInv

LEMMA WholeInvariance == Spec => []Whole
<1>1. IInv /\ UndoInv /\ AttemptsInv /\ PlacedInv /\ [Next]_vars => PlacedInv'
  BY PlacedPreserved DEF Whole
<1>2. Whole <=> IInv /\ UndoInv /\ AttemptsInv /\ PlacedInv
  BY DEF Whole
<1> QED
  BY <1>1, <1>2, PlacedEstablished, MoreInvariance, PTL DEF Spec

-------------------------------------------------------------------------------
(* The placement theorems.                                                 *)

(* The scope refusal of assertStoredPlacement is met only in a lineage of  *)
(* which an attempt was marked failed with its run still to come: the      *)
(* worker stores placement for the set it saved, and a review offers a     *)
(* part of that set (measure, freezeTarget and storedDeleteUndo).          *)
THEOREM PlacementAlwaysCovers == Spec => []PlacementCovers
<1>1. ASSUME Whole, NEW w \in Workers, wk[w].pc = "hook", PlacementRefused(w)
      PROVE  Lineage(Row(w).root) \cap disowned # {}
  <2>1. IInv /\ wk[w].pc \in ForwardPoints
    BY <1>1 DEF Whole, ForwardPoints
  <2>2. PICK a \in Actions : wk[w].job = Fwd(a) /\ Row(w) = row[Fwd(a)]
    BY <2>1, Holder
  <2>3. ScopedInv(a)
    BY <1>1 DEF Whole, PlacedInv, ScopeInv
  <2> QED
    BY <1>1, <2>2, <2>3 DEF ScopedInv, Clear, PlacementRefused
<1>2. Whole => PlacementCovers
  BY <1>1 DEF PlacementCovers
<1> QED
  BY <1>2, WholeInvariance, PTL

(* An Undo of a Delete never plans to put into the inbox a message that    *)
(* was not there, and what it knows is right (measureDeleteUndo, the       *)
(* mirror it reads, storedDeleteUndo and the journal entry).               *)
THEOREM PlacementStaysTrue == OnlyDeletes => (Spec => []PlacementIsTrue)
<1> SUFFICES ASSUME OnlyDeletes PROVE Spec => []PlacementIsTrue
  OBVIOUS
<1>1. ASSUME Whole, NEW a \in Actions, journal[a].known,
             \A b \in Actions : applied[b] \cap row[Fwd(a)].ids # {} =>
                row[Fwd(b)].root = row[Fwd(a)].root /\ b \notin disowned
      PROVE  journal[a].inbox = home \cap row[Fwd(a)].ids
  <2>1. RecordedInv(a) /\ UndoneInv(a)
    BY <1>1 DEF Whole, PlacedInv, ScopeInv, TruthInv
  <2>2. \A m \in row[Fwd(a)].ids : ~Spoiled(m, row[Fwd(a)].root)
    BY <1>1 DEF Spoiled
  <2> QED
    BY <1>1, <2>1, <2>2 DEF RecordedInv, UndoneInv
<1>2. Whole => \A a \in Actions : journal[a].inbox \subseteq home
  BY DEF Whole, PlacedInv, TruthInv, RecordedInv
<1>3. Whole => PlacementIsTrue
  BY <1>1, <1>2 DEF PlacementIsTrue
<1> QED
  BY <1>3, WholeInvariance, PTL

(* Whatever is retried, refused, synced or undone, the inbox holds nothing *)
(* that was not there at the start (executeReverse, ADR-0028).             *)
THEOREM InboxStaysHome == OnlyDeletes => (Spec => []InboxNeverFlooded)
<1> SUFFICES ASSUME OnlyDeletes PROVE Spec => []InboxNeverFlooded
  OBVIOUS
<1>1. Whole => InboxNeverFlooded
  BY DEF Whole, PlacedInv, TruthInv, InboxInv, InboxNeverFlooded, Carrying, IInv, TypeOK, Stores
<1> QED
  BY <1>1, WholeInvariance, PTL

(* Only the commit of an Undo turns a live entry into a reverted one.      *)
LEMMA RevertedByCommit ==
  ASSUME IInv, [Next]_vars, NEW a \in Actions,
         journal[a].state = "live", journal'[a].state = "reverted"
  PROVE  \E w \in Workers : CommitReverse(w) /\ Act(w) = a
<1>1. journal' # journal /\ DOMAIN journal = Actions
  BY DEF IInv, TypeOK
<1>2. ASSUME NEW w \in Workers, Commit(w) \/ CommitUnacknowledged(w) PROVE FALSE
  <2>1. /\ journal' = [journal EXCEPT ![Act(w)] = UndoEntry(Row(w))]
        /\ wk[w].pc \in ForwardPoints
    BY <1>2 DEF Commit, CommitUnacknowledged, TerminalTx, ForwardPoints
  <2>2. PICK b \in Actions : Act(w) = b /\ journal[b] = NoEntry
    BY <2>1, Holder
  <2>3. a # b
    BY <2>2 DEF NoEntry
  <2> QED
    BY <1>1, <2>1, <2>2, <2>3
<1>3. ASSUME NEW w \in Workers, WorkerStep(w)
      PROVE  CommitReverse(w) \/ Commit(w)
  <2>1. CASE \/ AcquireLock(w) \/ SkipSettled(w) \/ StartForward(w) \/ StartReverse(w)
             \/ CheckProtected(w) \/ ResolveIds(w) \/ GetClient(w)
    BY <1>1, <2>1 DEF AcquireLock, SkipSettled, StartForward, StartReverse, CheckProtected,
       ResolveIds, GetClient, StopProtected
  <2>2. CASE \/ CommitEmpty(w) \/ MarkExecuting(w) \/ AssertNotProtected(w) \/ RequestLands(w)
             \/ ResetRefused(w) \/ ScheduleReturn(w)
    BY <1>1, <2>2 DEF CommitEmpty, MarkExecuting, AssertNotProtected, RequestLands,
       ResetRefused, ScheduleReturn, StopProtected
  <2>3. CASE ReverseLands(w) \/ RecordFailure(w) \/ Settle(w)
    BY <1>1, <2>3 DEF ReverseLands, RecordFailure, Settle
  <2> QED
    BY <1>3, <2>1, <2>2, <2>3 DEF WorkerStep
<1>4. ASSUME NEW w \in Workers, WorkerFault(w)
      PROVE  CommitUnacknowledged(w)
  <2>1. CASE LockTimesOut(w) \/ RecordFailureLost(w) \/ Crash(w) \/ DatabaseFails(w)
    BY <1>1, <2>1 DEF LockTimesOut, RecordFailureLost, Crash, DatabaseFails
  <2>2. CASE RequestRefused(w) \/ RequestUncertain(w) \/ ReverseFails(w)
    BY <1>1, <2>2 DEF RequestRefused, RequestUncertain, ReverseFails
  <2> QED
    BY <1>4, <2>1, <2>2 DEF WorkerFault
<1>5. ASSUME NEW j \in Jobs, ApiStep(j) \/ Stall(j) PROVE FALSE
  BY <1>1, <1>5 DEF ApiStep, QueueAdd, EnqueueFailed, QueueAddThrows, ApiCrash, Stall
<1>6. ASSUME NEW w \in Workers, NEW j \in Jobs, Take(w, j) PROVE FALSE
  BY <1>1, <1>6, SMTT(30) DEF Take
<1>7. CASE UserStep
  BY <1>1, <1>7 DEF UserStep, Click, Undo, ResetRevert, OpenReview, VerifyReview, CloseReview,
     ReplayConfirm, ConfirmReview, SetProtected, MoveMail, SyncMessage
<1>8. PICK w \in Workers : CommitReverse(w)
  BY <1>1, <1>2, <1>3, <1>4, <1>5, <1>6, <1>7 DEF Next, vars
<1>9. journal' = [journal EXCEPT ![Act(w)].state = "reverted"]
  BY <1>8 DEF CommitReverse
<1>10. a = Act(w)
  BY <1>1, <1>9
<1> QED
  BY <1>8, <1>10

(* An Undo of a Delete that is recorded has put every message where its    *)
(* journal entry says: out of the trash, in the inbox exactly if it was    *)
(* there, however often it was retried and whatever sync wrote meanwhile   *)
(* (executeReverse and its two groups).                                    *)
THEOREM UndoRestores == OnlyDeletes => (Spec => UndoRestoresDelete)
<1> SUFFICES ASSUME OnlyDeletes PROVE Spec => UndoRestoresDelete
  OBVIOUS
<1>1. ASSUME Whole, [Next]_vars, NEW a \in Actions,
             journal[a].state = "live", journal'[a].state = "reverted",
             \A b \in Actions : UndosAgree(a, b)
      PROVE  /\ row[Rev(a)].ids \cap Carrying(gmail', "TRASH") = {}
             /\ row[Rev(a)].ids \cap Carrying(gmail', "INBOX")
                  = row[Rev(a)].ids \cap journal[a].inbox
  <2>1. IInv /\ TruthInv /\ ScopeInv
    BY <1>1 DEF Whole, PlacedInv
  <2>2. PICK w \in Workers : CommitReverse(w) /\ Act(w) = a
    BY <1>1, <2>1, RevertedByCommit
  <2>3. /\ wk[w].pc = "revcommit" /\ wk[w].pc \in Critical /\ wk[w].pc \in ReversePoints
        /\ gmail' = gmail /\ ~Forward(wk[w].job)
    BY <2>1, <2>2 DEF CommitReverse, Critical, ReversePoints, IInv, WorkerInv
  <2>4. PICK b \in Actions : /\ Act(w) = b /\ Row(w) = row[Rev(b)] /\ Rev(b) \in Jobs
                             /\ row[Rev(b)] \in Rows /\ row[Rev(b)].status # "absent"
    BY <2>1, <2>3, Reverter
  <2>5. /\ Row(w) = row[Rev(a)] /\ row[Rev(a)].verb = "delete"
        /\ row[Rev(a)].ids \subseteq Messages
    BY <2>1, <2>2, <2>4 DEF TruthInv, RowHomeInv, Rows
  <2>6. wk[w].todo = {}
    BY <2>1, <2>3 DEF ScopeInv, ProgressInv
  <2>7. ASSUME NEW m \in row[Rev(a)].ids
        PROVE  /\ "TRASH" \notin gmail[m]
               /\ "INBOX" \in gmail[m] <=> m \in journal[a].inbox
    <3>1. "TRASH" \notin gmail[m] /\ (m \in ToInbox(w) => "INBOX" \in gmail[m])
      BY <2>1, <2>3, <2>5, <2>6, <2>7 DEF TruthInv, RestoredInv
    <3>2. m \in ToInbox(w) <=> m \in journal[a].inbox
      BY <2>2, <2>5, <2>7 DEF ToInbox
    <3>3. m \in Messages /\ m \in applied[a]
      BY <2>1, <2>2, <2>4, <2>5, <2>7 DEF ScopeInv, UndoneInv
    <3>4. ASSUME "INBOX" \in gmail[m] PROVE m \in journal[a].inbox
      <4>1. PICK c \in Actions : m \in row[Rev(c)].ids /\ m \in journal[c].inbox
        BY <2>1, <3>3, <3>4 DEF TruthInv, InboxInv, Placed
      <4>2. UndosAgree(a, c)
        BY <1>1
      <4> QED
        BY <2>7, <4>1, <4>2 DEF UndosAgree
    <3> QED
      BY <3>1, <3>2, <3>4
  <2>8. DOMAIN gmail' = Messages
    BY <2>1, <2>3 DEF IInv, TypeOK, Stores
  <2> QED
    BY <2>3, <2>5, <2>7, <2>8 DEF Carrying
<1>2. Whole /\ [Next]_vars =>
        [\A a \in Actions :
           LET ids == row[Rev(a)].ids
           IN (/\ journal[a].state = "live" /\ journal'[a].state = "reverted"
               /\ \A b \in Actions : UndosAgree(a, b)) =>
                /\ ids \cap Carrying(gmail', "TRASH") = {}
                /\ ids \cap Carrying(gmail', "INBOX") = ids \cap journal[a].inbox]_vars
  BY <1>1
<1> QED
  BY <1>2, WholeInvariance, PTL DEF Spec, UndoRestoresDelete

-------------------------------------------------------------------------------
(* What a change of labels comes to when it is repeated, and when it is    *)
(* undone.                                                                 *)

(* A request that is sent again, because its answer was lost or its worker *)
(* died after it landed, changes nothing: a retry may send it blindly.     *)
THEOREM RepeatIsOnce ==
  ASSUME NEW store \in Stores, NEW ids, NEW change
  PROVE  Modify(Modify(store, ids, change), ids, change) = Modify(store, ids, change)
<1> DEFINE once == Modify(store, ids, change)
<1>1. \A m \in DOMAIN store :
        once[m] = IF m \in ids THEN (store[m] \ change.remove) \cup change.add ELSE store[m]
  BY DEF Modify
<1>2. DOMAIN once = DOMAIN store /\ once = [m \in DOMAIN store |-> once[m]]
  BY DEF Modify
<1> HIDE DEF once
<1>3. \A m \in DOMAIN store :
        (IF m \in ids THEN (once[m] \ change.remove) \cup change.add ELSE once[m]) = once[m]
  BY <1>1
<1>4. Modify(once, ids, change) = [m \in DOMAIN store |-> once[m]]
  BY <1>2, <1>3 DEF Modify
<1> QED
  BY <1>2, <1>4 DEF once

(* The Undo of an action is its inverse, whatever the verb, if the action  *)
(* was the one to give its messages their label, and the Undo puts those   *)
(* back into the inbox that were there.                                    *)
THEOREM UndoIsInverse ==
  ASSUME NEW store \in Stores, NEW w, NEW ids, Row(w).verb \in LabelVerbs,
         \A m \in ids \cap Messages :
           /\ ForwardChange(Row(w).verb).add \cap store[m] = {}
           /\ m \in ToInbox(w) <=> "INBOX" \in store[m]
  PROVE  RestoreTo(Modify(store, ids, ForwardChange(Row(w).verb)), w, ids) = store
<1> DEFINE forward == ForwardChange(Row(w).verb)
           reverse == ReverseChange(Row(w).verb)
           archived == ArchiveReverseChange(Row(w).verb)
           done == Modify(store, ids, forward)
           back == Modify(done, ids \cap ToInbox(w), reverse)
           undone == Modify(back, ids \ ToInbox(w), archived)
<1>1. /\ forward.remove = {"INBOX"} /\ reverse.add = {"INBOX"}
      /\ archived.add = {} /\ archived.remove = reverse.remove
      /\ reverse.remove = forward.add /\ "INBOX" \notin forward.add
  BY DEF LabelVerbs, ForwardChange, ReverseChange, ArchiveReverseChange, LabelChange
<1> HIDE DEF forward, reverse, archived
<1>2. DOMAIN store = Messages /\ store = [m \in Messages |-> store[m]]
  BY DEF Stores
<1>3. /\ DOMAIN done = Messages /\ DOMAIN back = Messages
      /\ undone = [m \in Messages |-> undone[m]]
  BY <1>2 DEF Modify
<1>4. \A m \in Messages :
        done[m] = IF m \in ids THEN (store[m] \ {"INBOX"}) \cup forward.add ELSE store[m]
  BY <1>1, <1>2 DEF Modify, done
<1> HIDE DEF done
<1>5. \A m \in Messages :
        back[m] = IF m \in ids \cap ToInbox(w) THEN (done[m] \ forward.add) \cup {"INBOX"}
                  ELSE done[m]
  BY <1>1, <1>3 DEF Modify, back
<1> HIDE DEF back
<1>6. \A m \in Messages :
        undone[m] = IF m \in ids \ ToInbox(w) THEN (back[m] \ forward.add) \cup {} ELSE back[m]
  BY <1>1, <1>3 DEF Modify, undone
<1> HIDE DEF undone
<1>7. ASSUME NEW m \in Messages PROVE undone[m] = store[m]
  <2>1. CASE m \notin ids
    <3>1. done[m] = store[m] /\ back[m] = done[m] /\ undone[m] = back[m]
      BY <1>4, <1>5, <1>6, <2>1
    <3> QED
      BY <3>1
  <2>2. CASE m \in ids
    <3>1. forward.add \cap store[m] = {} /\ (m \in ToInbox(w) <=> "INBOX" \in store[m])
      BY <2>2 DEF forward
    <3>2. done[m] = (store[m] \ {"INBOX"}) \cup forward.add
      BY <1>4, <2>2
    <3>3. CASE m \in ToInbox(w)
      <4>1. undone[m] = (done[m] \ forward.add) \cup {"INBOX"}
        BY <1>5, <1>6, <2>2, <3>3
      <4> QED
        BY <3>1, <3>2, <3>3, <4>1
    <3>4. CASE m \notin ToInbox(w)
      <4>1. undone[m] = done[m] \ forward.add
        BY <1>5, <1>6, <2>2, <3>4
      <4> QED
        BY <1>1, <3>1, <3>2, <3>4, <4>1
    <3> QED
      BY <3>3, <3>4
  <2> QED
    BY <2>1, <2>2
<1> QED
  BY <1>2, <1>3, <1>7 DEF RestoreTo, undone, back, done, forward, reverse, archived

-------------------------------------------------------------------------------
(* Who carries a click.  A row is settled before the last one that could   *)
(* end it leaves: a run that returns has settled it, or found it settled;  *)
(* one that fails for good has its failure recorded; the API marks what it *)
(* could not add.  A settled row stays settled unless it is disowned.      *)

Over(w) ==
  \/ wk[w].err = "none"
  \/ Terminal(wk[w].err, wk[w].try) /\ "database" \notin FaultKinds

CarrierInv(w) ==
  LET j == wk[w].job
  IN /\ wk[w].pc # "idle" /\ Forward(j) => queue[j].state # "none"
     /\ wk[w].pc \in {"refused", "terminal"} => wk[w].err \in Errors
     /\ wk[w].pc # "idle" /\ Forward(j) /\ j[1] \notin disowned =>
          /\ wk[w].pc \in ForwardPoints => ~Settled(j)
          /\ wk[w].pc = "end" /\ Over(w) => Settled(j)

Unqueued(j) ==
  \/ row[j].status = "absent"
  \/ row[j].status = "failed" /\ row[j].err = "ENQUEUE_FAILED"
  \/ /\ row[j].status = "queued"
     /\ api[j].at \in {"add", "caught"} \/ row[j].attempt > 0 \/ "api_crash" \in FaultKinds

CarriedInv(a) ==
  LET j == Fwd(a)
  IN /\ queue[j].state = "none" => Unqueued(j)
     /\ \A w \in Workers : queue[j].owner = w => wk[w].job = j /\ wk[w].pc # "idle"
     /\ a \notin disowned =>
          /\ queue[j].state = "completed" => Settled(j)
          /\ queue[j].state = "failed" =>
               Settled(j) \/ "database" \in FaultKinds \/ queue[j].stalls >= MaxStalls

CarryInv ==
  /\ \A w \in Workers : CarrierInv(w)
  /\ \A a \in Actions : CarriedInv(a)

(* Only a run of the row itself, or a write past the lock, unsettles it.   *)
LEMMA RunCarries ==
  ASSUME IInv, CarryInv, NEW w \in Workers, wk[w].pc # "idle", OnlyWorker(w),
         wk'[w].job = wk[w].job, wk'[w].pc # "idle", UNCHANGED <<queue, api>>,
         disowned \subseteq disowned', OnlyRow(wk[w].job), CarrierInv(w)',
         Forward(wk[w].job) /\ wk[w].job[1] \notin disowned' /\ Settled(wk[w].job)
           => Settled(wk[w].job)',
         \A u \in Workers \ {w} :
           wk[u].pc \in ForwardPoints /\ wk[u].job = wk[w].job
             => row' = row \/ wk[w].job[1] \in disowned'
  PROVE  CarryInv'
<1> DEFINE j == wk[w].job
<1>0. j \in Jobs /\ \A i \in Jobs \ {j} : row'[i] = row[i]
  BY DEF IInv, WorkerInv, OnlyRow
<1>1. ASSUME NEW i \in Jobs, Forward(i), i[1] \notin disowned', Settled(i) PROVE Settled(i)'
  <2>1. CASE i = j
    BY <1>1, <2>1
  <2>2. CASE i # j
    BY <1>0, <1>1, <2>2 DEF Settled
  <2> QED
    BY <2>1, <2>2
<1>2. ASSUME NEW u \in Workers \ {w} PROVE CarrierInv(u)'
  <2>1. wk'[u] = wk[u] /\ CarrierInv(u)
    BY DEF OnlyWorker, CarryInv
  <2>2. Over(u)' = Over(u)
    BY <2>1 DEF Over
  <2>3. CASE wk[u].pc = "idle" \/ ~Forward(wk[u].job) \/ wk[u].job[1] \in disowned'
    BY <2>1, <2>3 DEF CarrierInv
  <2>4. CASE wk[u].pc # "idle" /\ Forward(wk[u].job) /\ wk[u].job[1] \notin disowned'
    <3>1. wk[u].job \in Jobs /\ wk[u].job[1] \notin disowned
      BY <2>4 DEF IInv, WorkerInv
    <3>2. wk[u].pc = "end" /\ Over(u) => Settled(wk[u].job)'
      BY <1>1, <2>1, <2>4, <3>1 DEF CarrierInv
    <3>3. wk[u].pc \in ForwardPoints => ~Settled(wk[u].job)'
      <4>1. wk[u].pc \in ForwardPoints => row'[wk[u].job] = row[wk[u].job]
        BY <1>0, <2>4, <3>1
      <4> QED
        BY <2>1, <2>4, <3>1, <4>1 DEF CarrierInv, Settled
    <3> QED
      BY <2>1, <2>2, <2>4, <3>2, <3>3 DEF CarrierInv
  <2> QED
    BY <2>3, <2>4
<1>3. ASSUME NEW a \in Actions PROVE CarriedInv(a)'
  <2>1. Fwd(a) \in Jobs /\ Forward(Fwd(a)) /\ Fwd(a)[1] = a /\ CarriedInv(a)
    BY DEF Fwd, Jobs, Forward, CarryInv
  <2>2. queue[Fwd(a)].state = "none" => row'[Fwd(a)] = row[Fwd(a)]
    BY <1>0, <2>1 DEF CarryInv, CarrierInv
  <2>3. \A u \in Workers : wk'[u].job = wk[u].job /\ (wk[u].pc # "idle" => wk'[u].pc # "idle")
    BY DEF OnlyWorker
  <2>4. a \notin disowned' /\ Settled(Fwd(a)) => Settled(Fwd(a))'
    BY <1>1, <2>1
  <2> QED
    BY <2>1, <2>2, <2>3, <2>4 DEF CarriedInv, Unqueued
<1> QED
  BY <1>2, <1>3 DEF CarryInv

(* A run in the critical section is alone with its row.                    *)
LEMMA HolderCarries ==
  ASSUME IInv, CarryInv, NEW w \in Workers, wk[w].pc \in Critical, OnlyWorker(w),
         wk'[w].job = wk[w].job, wk'[w].pc # "idle", UNCHANGED <<queue, api>>,
         disowned \subseteq disowned', OnlyRow(wk[w].job),
         wk[w].pc \in ForwardPoints \/ ~Forward(wk[w].job) \/ row' = row,
         wk'[w].pc \in {"refused", "terminal"} => wk'[w].err \in Errors,
         Forward(wk[w].job) /\ wk[w].job[1] \notin disowned =>
           /\ wk'[w].pc \in ForwardPoints => ~Settled(wk[w].job)'
           /\ wk'[w].pc = "end" /\ Over(w)' => Settled(wk[w].job)'
  PROVE  CarryInv'
<1>1. wk[w].pc # "idle" /\ CarrierInv(w)
  BY DEF Critical, CarryInv
<1>2. CarrierInv(w)'
  BY <1>1 DEF CarrierInv
<1>3. Forward(wk[w].job) /\ wk[w].job[1] \notin disowned' /\ Settled(wk[w].job)
        => Settled(wk[w].job)'
  BY <1>1 DEF CarrierInv, Settled
<1>4. \A u \in Workers \ {w} : wk[u].pc \notin ForwardPoints
  BY MutualExclusion DEF Critical, ForwardPoints
<1> QED
  BY <1>1, <1>2, <1>3, <1>4, RunCarries

(* A step of the API, or of the queue, is about one job.                   *)
LEMMA JobCarries ==
  ASSUME IInv, CarryInv, NEW j \in Jobs, wk' = wk, disowned \subseteq disowned',
         \A i \in Jobs \ {j} : row'[i] = row[i] /\ queue'[i] = queue[i] /\ api'[i] = api[i],
         Forward(j) =>
           /\ queue[j].state # "none" => queue'[j].state # "none"
           /\ j[1] \notin disowned' => (Settled(j)' <=> Settled(j))
           /\ CarriedInv(j[1])'
  PROVE  CarryInv'
<1>1. ASSUME NEW u \in Workers PROVE CarrierInv(u)'
  <2>1. wk'[u] = wk[u] /\ CarrierInv(u) /\ (Over(u)' <=> Over(u))
    BY DEF CarryInv, Over
  <2>2. CASE wk[u].pc = "idle" \/ ~Forward(wk[u].job)
    BY <2>1, <2>2 DEF CarrierInv
  <2>3. CASE wk[u].pc # "idle" /\ Forward(wk[u].job)
    <3>1. wk[u].job \in Jobs
      BY <2>3 DEF IInv, WorkerInv
    <3>2. queue[wk[u].job].state # "none" => queue'[wk[u].job].state # "none"
      BY <2>3, <3>1
    <3>3. wk[u].job[1] \notin disowned' => (Settled(wk[u].job)' <=> Settled(wk[u].job))
      BY <2>3, <3>1 DEF Settled
    <3> QED
      BY <2>1, <2>3, <3>2, <3>3 DEF CarrierInv
  <2> QED
    BY <2>2, <2>3
<1>2. ASSUME NEW a \in Actions PROVE CarriedInv(a)'
  <2>1. Fwd(a) \in Jobs /\ Forward(Fwd(a)) /\ Fwd(a)[1] = a /\ CarriedInv(a)
    BY DEF Fwd, Jobs, Forward, CarryInv
  <2>2. CASE Fwd(a) = j
    BY <2>1, <2>2
  <2>3. CASE Fwd(a) # j
    BY <2>1, <2>3 DEF CarriedInv, Unqueued, Settled
  <2> QED
    BY <2>2, <2>3
<1> QED
  BY <1>1, <1>2 DEF CarryInv

-------------------------------------------------------------------------------
(* The runs carry on.                                                      *)

(* What moving on, returning and throwing make of the run.                 *)
LEMMA GotoRun ==
  ASSUME TypeOK, NEW w \in Workers, NEW pc \in Points, Goto(w, pc)
  PROVE  /\ OnlyWorker(w) /\ wk'[w].job = wk[w].job /\ wk'[w].pc = pc
         /\ wk'[w].err = wk[w].err /\ wk'[w].try = wk[w].try
<1> DEFINE r == [wk[w] EXCEPT !.pc = pc]
<1>1. wk' = [wk EXCEPT ![w] = r] /\ wk[w] \in WorkerStates /\ wk \in [Workers -> WorkerStates]
  BY DEF Goto, TypeOK
<1>2. r.err = wk[w].err /\ r.try = wk[w].try
  BY <1>1 DEF WorkerStates
<1> HIDE DEF r
<1>3. wk'[w] = r
  BY <1>1
<1> QED
  BY <1>2, <1>3, GotoEffect DEF KeepsJob

LEMMA ReturnRun ==
  ASSUME TypeOK, NEW w \in Workers, Return(w)
  PROVE  OnlyWorker(w) /\ wk'[w].job = wk[w].job /\ wk'[w].pc = "end"
<1> DEFINE r == [wk[w] EXCEPT !.pc = "end", !.err = "none"]
<1>1. wk' = [wk EXCEPT ![w] = r] /\ wk[w] \in WorkerStates
  BY DEF Return, TypeOK
<1>2. r.pc = "end"
  BY <1>1 DEF WorkerStates
<1> QED
  BY <1>1, <1>2, ReturnEffect DEF Leaves, KeepsJob, TypeOK

LEMMA ThrowRun ==
  ASSUME TypeOK, NEW w \in Workers, NEW e \in Errors, Throw(w, e)
  PROVE  /\ OnlyWorker(w) /\ wk'[w].job = wk[w].job /\ wk'[w].pc \in {"terminal", "end"}
         /\ wk'[w].err \in Errors
         /\ wk'[w].pc = "end" => ~Over(w)'
<1> DEFINE pc == IF Terminal(e, wk[w].try) THEN "terminal" ELSE "end"
           r  == [wk[w] EXCEPT !.pc = pc, !.err = e]
<1>1. wk' = [wk EXCEPT ![w] = r] /\ wk[w] \in WorkerStates /\ wk \in [Workers -> WorkerStates]
  BY DEF Throw, TypeOK
<1>2. /\ pc \in {"terminal", "end"}
      /\ pc = "end" => ~Terminal(e, wk[w].try)
  OBVIOUS
<1> HIDE DEF pc
<1>3. r.pc = pc /\ r.err = e /\ r.try = wk[w].try /\ r.job = wk[w].job
  BY <1>1 DEF WorkerStates
<1>4. wk'[w] = r
  BY <1>1
<1> HIDE DEF r
<1>5. OnlyWorker(w)
  BY ThrowEffect DEF Leaves
<1>6. pc = "end" => ~Over(w)'
  BY <1>2, <1>3, <1>4 DEF Over, Errors
<1> QED
  BY <1>2, <1>3, <1>4, <1>5, <1>6

(* A holder that throws leaves its row to the record of its failure, or to *)
(* its next run.                                                           *)
LEMMA ThrowCarries ==
  ASSUME IInv, CarryInv, NEW w \in Workers, wk[w].pc \in Critical,
         NEW e \in Errors, Throw(w, e), UNCHANGED <<queue, api, disowned>>,
         OnlyRow(wk[w].job),
         wk[w].pc \in ForwardPoints \/ ~Forward(wk[w].job) \/ row' = row
  PROVE  CarryInv'
<1>1. TypeOK
  BY DEF IInv
<1>2. /\ OnlyWorker(w) /\ wk'[w].job = wk[w].job /\ wk'[w].pc \in {"terminal", "end"}
      /\ wk'[w].err \in Errors
      /\ wk'[w].pc = "end" => ~Over(w)'
  BY <1>1, ThrowRun
<1> QED
  BY <1>2, HolderCarries DEF ForwardPoints

(* A holder that returns has settled its row, or has found it settled.     *)
LEMMA ReturnCarries ==
  ASSUME IInv, CarryInv, NEW w \in Workers, wk[w].pc \in Critical,
         Return(w), UNCHANGED <<queue, api, disowned>>, OnlyRow(wk[w].job),
         wk[w].pc \in ForwardPoints \/ ~Forward(wk[w].job) \/ row' = row,
         Forward(wk[w].job) => Settled(wk[w].job)'
  PROVE  CarryInv'
<1>1. TypeOK
  BY DEF IInv
<1>2. OnlyWorker(w) /\ wk'[w].job = wk[w].job /\ wk'[w].pc = "end"
  BY <1>1, ReturnRun
<1> QED
  BY <1>2, HolderCarries DEF ForwardPoints

(* A holder that goes on has not settled its row.                          *)
LEMMA GoesOnCarries ==
  ASSUME IInv, CarryInv, NEW w \in Workers, wk[w].pc \in Critical,
         OnlyWorker(w), wk'[w].job = wk[w].job,
         wk'[w].pc \in Critical \ {"refused"}, UNCHANGED <<queue, api, disowned>>,
         OnlyRow(wk[w].job),
         wk[w].pc \in ForwardPoints \/ ~Forward(wk[w].job) \/ row' = row,
         Forward(wk[w].job) /\ wk[w].job[1] \notin disowned => ~Settled(wk[w].job)'
  PROVE  CarryInv'
  BY HolderCarries DEF Critical

(* No row but the run's own is written, and that one only if it is named.  *)
LEMMA RowStands ==
  ASSUME IInv, NEW w \in Workers, row' = row
  PROVE  OnlyRow(wk[w].job)
  BY DEF OnlyRow, IInv, TypeOK

LEMMA RowOf ==
  ASSUME IInv, NEW w \in Workers, wk[w].pc # "idle", NEW r \in Rows,
         row' = [row EXCEPT ![Job(w)] = r]
  PROVE  OnlyRow(wk[w].job) /\ row'[wk[w].job] = r /\ wk[w].job \in Jobs
  BY DEF OnlyRow, IInv, TypeOK, WorkerInv, Job

(* Entering the lock, or failing to, settles nothing.                      *)
LEMMA LockCarries ==
  ASSUME IInv, CarryInv, NEW w \in Workers, AcquireLock(w) \/ LockTimesOut(w)
  PROVE  CarryInv'
<1>0. /\ wk[w].pc = "lock" /\ TypeOK /\ UNCHANGED <<row, queue, api, disowned>>
      /\ OnlyRow(wk[w].job) /\ CarrierInv(w)
  BY RowStands DEF AcquireLock, LockTimesOut, IInv, CarryInv
<1>1. /\ OnlyWorker(w) /\ wk'[w].job = wk[w].job
      /\ \/ wk'[w].pc \in {"load", "terminal"}
         \/ wk'[w].pc = "end" /\ ~Over(w)'
      /\ wk'[w].pc = "terminal" => wk'[w].err \in Errors
  <2>1. CASE AcquireLock(w)
    BY <1>0, <2>1, GotoRun DEF AcquireLock, Points, Critical
  <2>2. CASE LockTimesOut(w)
    BY <1>0, <2>2, ThrowRun DEF LockTimesOut, Errors
  <2> QED
    BY <2>1, <2>2
<1>2. CarrierInv(w)'
  BY <1>0, <1>1 DEF CarrierInv, ForwardPoints
<1> QED
  BY <1>0, <1>1, <1>2, RunCarries DEF Settled

(* onTerminalFailure settles the row; a run it overtakes disowns it.       *)
LEMMA RecordFailureCarries ==
  ASSUME IInv, CarryInv, NEW w \in Workers, RecordFailure(w)
  PROVE  CarryInv'
<1> DEFINE j == wk[w].job
           r == [row[j] EXCEPT !.status = "failed", !.err = wk[w].err]
<1>0. /\ wk[w].pc = "terminal" /\ TypeOK /\ UNCHANGED <<queue, api>>
      /\ CarrierInv(w) /\ j \in Jobs /\ row[j] \in Rows /\ row \in [Jobs -> Rows]
  BY DEF RecordFailure, IInv, CarryInv, TypeOK, WorkerInv
<1>1. wk[w].err \in Errors
  BY <1>0 DEF CarrierInv
<1>2. r \in Rows /\ r.status = "failed" /\ r.err = wk[w].err
  BY <1>0, <1>1 DEF Rows, Codes
<1>3. row' = [row EXCEPT ![j] = r]
  BY DEF RecordFailure, Job
<1> HIDE DEF r
<1>4. OnlyRow(j) /\ row'[j] = r
  BY <1>0, <1>2, <1>3 DEF OnlyRow
<1>5. OnlyWorker(w) /\ wk'[w].job = j /\ wk'[w].pc = "end"
  BY <1>0, GotoRun DEF RecordFailure, Points
<1>6. Forward(j) => Settled(j)'
  <2>1. row'[j].status = "failed" /\ row'[j].err = wk[w].err
    BY <1>2, <1>4
  <2>2. wk[w].err # "ENQUEUE_FAILED"
    BY <1>1 DEF Errors
  <2> QED
    BY <1>5, <2>1, <2>2 DEF Settled
<1>7. disowned \subseteq disowned'
  BY DEF RecordFailure, Disown
<1>8. ASSUME NEW u \in Workers \ {w}, wk[u].pc \in ForwardPoints, wk[u].job = j
      PROVE  j[1] \in disowned'
  <2>1. wk[u].pc \in Critical \ {"load"} /\ Forward(j)
    BY <1>8 DEF ForwardPoints, Critical, IInv, WorkerInv
  <2>2. Outlived(w) /\ Forward(Job(w))
    BY <1>8, <2>1 DEF Outlived, Job
  <2> QED
    BY <2>2 DEF RecordFailure, Disown, Act, Job
<1>9. CarrierInv(w)'
  BY <1>0, <1>5, <1>6, <1>7 DEF CarrierInv, ForwardPoints
<1> QED
  BY <1>0, <1>4, <1>5, <1>6, <1>7, <1>8, <1>9, RunCarries

(* A failure that is not recorded is one of those that may be lost.        *)
LEMMA RecordFailureLostCarries ==
  ASSUME IInv, CarryInv, NEW w \in Workers, RecordFailureLost(w)
  PROVE  CarryInv'
<1>0. /\ wk[w].pc = "terminal" /\ TypeOK /\ UNCHANGED <<row, queue, api, disowned>>
      /\ OnlyRow(wk[w].job) /\ CarrierInv(w) /\ "database" \in FaultKinds
  BY RowStands DEF RecordFailureLost, Fault, IInv, CarryInv
<1>1. /\ OnlyWorker(w) /\ wk'[w].job = wk[w].job /\ wk'[w].pc = "end"
      /\ wk'[w].err = wk[w].err
  BY <1>0, GotoRun DEF RecordFailureLost, Points
<1>2. CarrierInv(w)'
  BY <1>0, <1>1 DEF CarrierInv, ForwardPoints, Over, Errors
<1> QED
  BY <1>0, <1>1, <1>2, RunCarries DEF Settled

(* A run that finds its row settled returns, and has settled nothing.      *)
LEMMA LoadCarries ==
  ASSUME IInv, CarryInv, NEW w \in Workers,
         SkipSettled(w) \/ StartForward(w) \/ StartReverse(w)
  PROVE  CarryInv'
<1>0. /\ wk[w].pc = "load" /\ wk[w].pc \in Critical /\ TypeOK
      /\ UNCHANGED <<queue, api, disowned>>
      /\ wk[w] \in WorkerStates /\ wk \in [Workers -> WorkerStates] /\ wk[w].job \in Jobs
  BY DEF SkipSettled, StartForward, StartReverse, Critical, IInv, TypeOK, WorkerInv
<1>1. CASE SkipSettled(w)
  <2>1. row' = row /\ Return(w) /\ Settled(wk[w].job)
    BY <1>1 DEF SkipSettled, Job
  <2>2. OnlyRow(wk[w].job) /\ wk'[w].job = wk[w].job
    BY <1>0, <2>1, RowStands, ReturnRun
  <2>3. Settled(wk[w].job)'
    BY <2>1, <2>2 DEF Settled
  <2> QED
    BY <1>0, <2>1, <2>2, <2>3, ReturnCarries
<1>2. CASE StartForward(w)
  <2> DEFINE c == NeverReachedGmail(Row(w))
             r == [wk[w] EXCEPT !.pc = "check", !.clean = c]
  <2>1. wk' = [wk EXCEPT ![w] = r] /\ row' = row /\ ~Settled(wk[w].job)
    BY <1>2 DEF StartForward, Job
  <2>0. c \in BOOLEAN
    BY DEF NeverReachedGmail
  <2> HIDE DEF c
  <2>2. r.pc = "check" /\ r.job = wk[w].job /\ r \in WorkerStates
    BY <1>0, <2>0 DEF WorkerStates, Points, Critical
  <2> HIDE DEF r
  <2>3. OnlyWorker(w) /\ wk'[w] = r
    BY <1>0, <2>1, <2>2 DEF OnlyWorker
  <2>4. OnlyRow(wk[w].job) /\ ~Settled(wk[w].job)'
    <3>1. wk'[w].job = wk[w].job
      BY <2>2, <2>3
    <3> QED
      BY <2>1, <3>1, RowStands DEF Settled
  <2> QED
    BY <1>0, <2>1, <2>2, <2>3, <2>4, GoesOnCarries DEF Critical
<1>3. CASE StartReverse(w)
  <2> DEFINE r == [wk[w] EXCEPT !.pc = "revsend", !.todo = Row(w).ids]
             q == [row[wk[w].job] EXCEPT !.status = "executing"]
  <2>1. /\ wk' = [wk EXCEPT ![w] = r] /\ row' = [row EXCEPT ![Job(w)] = q]
        /\ ~Forward(wk[w].job)
    BY <1>3 DEF StartReverse, Job
  <2>2. row[wk[w].job] \in Rows
    BY <1>0 DEF TypeOK
  <2>3. q \in Rows /\ r.pc = "revsend" /\ r.job = wk[w].job /\ r \in WorkerStates
    BY <1>0, <2>2 DEF WorkerStates, Points, Critical, Rows, Row, Job
  <2> HIDE DEF r, q
  <2>4. OnlyWorker(w) /\ wk'[w] = r
    BY <1>0, <2>1, <2>3 DEF OnlyWorker
  <2>5. OnlyRow(wk[w].job)
    BY <1>0, <2>1, <2>3, RowOf
  <2> QED
    BY <1>0, <2>1, <2>3, <2>4, <2>5, GoesOnCarries DEF Critical
<1> QED
  BY <1>1, <1>2, <1>3

(* The Protected stop settles the row.                                     *)
LEMMA StopCarries ==
  ASSUME IInv, CarryInv, NEW w \in Workers, wk[w].pc \in ForwardPoints,
         StopProtected(w), UNCHANGED <<queue, api, disowned>>
  PROVE  CarryInv'
<1> DEFINE j == wk[w].job
           r == StoppedRow(w)
<1>0. /\ wk[w].pc \in Critical /\ wk[w].pc # "idle" /\ j \in Jobs /\ row[j] \in Rows
      /\ row' = [row EXCEPT ![Job(w)] = r] /\ Return(w)
  BY DEF ForwardPoints, Critical, IInv, TypeOK, WorkerInv, StopProtected
<1>1. r \in Rows /\ (r.status = "done" \/ (r.status = "failed" /\ r.err = "RECOVERY_SENDER_PROTECTED"))
  BY <1>0 DEF StoppedRow, Rows, Codes, Row, Job
<1> HIDE DEF r
<1>2. OnlyRow(j) /\ row'[j] = r
  BY <1>0, <1>1, RowOf
<1>3. Forward(j) => Settled(j)'
  <2>1. wk'[w].job = j
    BY <1>0, ReturnRun DEF IInv
  <2> QED
    BY <1>1, <1>2, <2>1 DEF Settled
<1> QED
  BY <1>0, <1>2, <1>3, ReturnCarries

(* A step of the forward path that writes no row.                          *)
LEMMA StepCarries ==
  ASSUME IInv, CarryInv, NEW w \in Workers, wk[w].pc \in ForwardPoints,
         OnlyWorker(w), wk'[w].job = wk[w].job, wk'[w].pc \in Critical \ {"refused"},
         UNCHANGED <<row, queue, api, disowned>>
  PROVE  CarryInv'
<1>1. wk[w].pc \in Critical /\ wk[w].pc # "idle" /\ CarrierInv(w) /\ OnlyRow(wk[w].job)
  BY RowStands DEF ForwardPoints, Critical, CarryInv
<1>2. Forward(wk[w].job) /\ wk[w].job[1] \notin disowned => ~Settled(wk[w].job)'
  BY <1>1 DEF CarrierInv, Settled
<1> QED
  BY <1>1, <1>2, GoesOnCarries

(* ... or that throws.                                                     *)
LEMMA FailCarries ==
  ASSUME IInv, CarryInv, NEW w \in Workers, wk[w].pc \in Critical, NEW e \in Errors,
         Throw(w, e), UNCHANGED <<row, queue, api, disowned>>
  PROVE  CarryInv'
  BY RowStands, ThrowCarries

(* The run works on a row that exists.                                     *)
LEMMA RunsRow ==
  ASSUME IInv, NEW w \in Workers, wk[w].pc \in Critical
  PROVE  /\ wk[w].job \in Jobs /\ row[wk[w].job] \in Rows /\ wk[w] \in WorkerStates
         /\ wk[w].pc # "idle" /\ row \in [Jobs -> Rows] /\ wk \in [Workers -> WorkerStates]
         /\ Row(w) = row[wk[w].job] /\ Job(w) = wk[w].job
  BY DEF IInv, TypeOK, WorkerInv, Critical, Row, Job

(* The two checks of the protection stop or go on.                         *)
LEMMA ChecksCarry ==
  ASSUME IInv, CarryInv, NEW w \in Workers, CheckProtected(w) \/ AssertNotProtected(w)
  PROVE  CarryInv'
<1>0. /\ wk[w].pc \in ForwardPoints /\ UNCHANGED <<queue, api, disowned>> /\ TypeOK
      /\ \/ StopProtected(w)
         \/ \E pc \in {"resolve", "send"} : Goto(w, pc) /\ row' = row
  BY DEF CheckProtected, AssertNotProtected, ForwardPoints, IInv
<1>1. CASE StopProtected(w)
  BY <1>0, <1>1, StopCarries
<1>2. ASSUME NEW pc \in {"resolve", "send"}, Goto(w, pc), row' = row PROVE CarryInv'
  <2>1. pc \in Points /\ pc \in Critical \ {"refused"}
    BY DEF Points, Critical
  <2>2. OnlyWorker(w) /\ wk'[w].job = wk[w].job /\ wk'[w].pc = pc
    BY <1>0, <1>2, <2>1, GotoRun
  <2> QED
    BY <1>0, <1>2, <2>1, <2>2, StepCarries
<1> QED
  BY <1>0, <1>1, <1>2

(* Saving the execution set leaves the status as it was.                   *)
LEMMA ResolveCarries ==
  ASSUME IInv, CarryInv, NEW w \in Workers, ResolveIds(w)
  PROVE  CarryInv'
<1> DEFINE j    == wk[w].job
           ids  == ExecutionSet(row[j])
           pc   == IF ids = {} THEN "empty" ELSE "client"
           r    == [row[j] EXCEPT !.ids = ids]
           v    == [wk[w] EXCEPT !.pc = pc, !.todo = ids]
<1>0. /\ wk[w].pc \in ForwardPoints /\ wk[w].pc \in Critical
      /\ UNCHANGED <<queue, api, disowned>> /\ CarrierInv(w)
  BY DEF ResolveIds, ForwardPoints, Critical, CarryInv
<1>1. /\ j \in Jobs /\ row[j] \in Rows /\ wk[w] \in WorkerStates /\ wk[w].pc # "idle"
      /\ row \in [Jobs -> Rows] /\ wk \in [Workers -> WorkerStates]
      /\ Row(w) = row[j] /\ Job(w) = j
  BY <1>0, RunsRow
<1>2. ids \in SUBSET Messages /\ pc \in {"empty", "client"}
  BY <1>1, ExecutionSetType DEF IInv
<1>3. row' = [row EXCEPT ![j] = r] /\ wk' = [wk EXCEPT ![w] = v]
  BY <1>1 DEF ResolveIds
<1> HIDE DEF ids, pc
<1>4. /\ r \in Rows /\ r.status = row[j].status /\ r.err = row[j].err
      /\ v \in WorkerStates /\ v.pc = pc /\ v.job = j
  BY <1>1, <1>2 DEF Rows, WorkerStates, Points, Critical
<1> HIDE DEF r, v
<1>5. OnlyRow(j) /\ row'[j] = r /\ OnlyWorker(w) /\ wk'[w] = v
  BY <1>1, <1>3, <1>4 DEF OnlyRow, OnlyWorker
<1>6. Forward(j) /\ j[1] \notin disowned => ~Settled(j)'
  BY <1>0, <1>1, <1>4, <1>5 DEF CarrierInv, Settled
<1> QED
  BY <1>0, <1>2, <1>4, <1>5, <1>6, GoesOnCarries DEF Critical

(* The hook marks the row executing, stops it, or refuses.                 *)
LEMMA MarkCarries ==
  ASSUME IInv, CarryInv, NEW w \in Workers, MarkExecuting(w)
  PROVE  CarryInv'
<1>0. /\ wk[w].pc = "hook" /\ wk[w].pc \in ForwardPoints /\ wk[w].pc \in Critical
      /\ UNCHANGED <<queue, api, disowned>> /\ TypeOK
  BY DEF MarkExecuting, ForwardPoints, Critical, IInv
<1>1. CASE Throw(w, "ValidationError") /\ row' = row
  BY <1>0, <1>1, FailCarries DEF Errors
<1>2. CASE StopProtected(w)
  BY <1>0, <1>2, StopCarries
<1>3. CASE /\ row' = [row EXCEPT
                        ![Job(w)].status = "executing",
                        ![Job(w)].undo = IF Row(w).verb = "delete" THEN DeleteUndo(w) ELSE @]
           /\ Goto(w, "send")
  <2> DEFINE j == wk[w].job
             p == IF Row(w).verb = "delete" THEN DeleteUndo(w) ELSE row[j].undo
             r == [row[j] EXCEPT !.status = "executing", !.undo = p]
  <2>1. /\ j \in Jobs /\ row[j] \in Rows /\ wk[w] \in WorkerStates /\ wk[w].pc # "idle"
        /\ row \in [Jobs -> Rows] /\ Row(w) = row[j] /\ Job(w) = j
    BY <1>0, RunsRow
  <2>2. p \in Placements
    BY <2>1, DeleteUndoType DEF Rows
  <2>3. row' = [row EXCEPT ![j] = r]
    BY <1>3, <2>1 DEF Rows
  <2> HIDE DEF p
  <2>4. r \in Rows /\ r.status = "executing"
    BY <2>1, <2>2 DEF Rows
  <2> HIDE DEF r
  <2>5. OnlyRow(j) /\ row'[j] = r
    BY <2>1, <2>3, <2>4 DEF OnlyRow
  <2>6. OnlyWorker(w) /\ wk'[w].job = j /\ wk'[w].pc = "send"
    BY <1>0, <1>3, GotoRun DEF Points, Critical
  <2>7. ~Settled(j)'
    BY <2>4, <2>5, <2>6 DEF Settled
  <2> QED
    BY <1>0, <2>5, <2>6, <2>7, GoesOnCarries DEF Critical
<1> QED
  BY <1>1, <1>2, <1>3 DEF MarkExecuting

(* The client, the requests and the timer write no row.                    *)
LEMMA RequestsCarry ==
  ASSUME IInv, CarryInv, NEW w \in Workers,
         GetClient(w) \/ RequestLands(w) \/ RequestUncertain(w) \/ ScheduleReturn(w)
  PROVE  CarryInv'
<1>0. /\ wk[w].pc \in ForwardPoints /\ wk[w].pc \in Critical /\ TypeOK
      /\ UNCHANGED <<row, queue, api, disowned>>
  BY DEF GetClient, RequestLands, RequestUncertain, ScheduleReturn, ForwardPoints, Critical, IInv
<1>1. CASE \E e \in Errors : Throw(w, e)
  BY <1>0, <1>1, FailCarries
<1>2. CASE \E pc \in {"hook", "commit"} : Goto(w, pc)
  <2>1. PICK pc \in {"hook", "commit"} : Goto(w, pc)
    BY <1>2
  <2>2. pc \in Points /\ pc \in Critical \ {"refused"}
    BY DEF Points, Critical
  <2>3. OnlyWorker(w) /\ wk'[w].job = wk[w].job /\ wk'[w].pc = pc
    BY <1>0, <2>1, <2>2, GotoRun
  <2> QED
    BY <1>0, <2>2, <2>3, StepCarries
<1>3. CASE RequestLands(w)
  <2>1. PICK ids \in Chunks(wk[w].todo) :
          wk' = [wk EXCEPT
                   ![w].landed = TRUE, ![w].todo = @ \ ids,
                   ![w].pc = IF Row(w).verb = "later" /\ ~wk[w].landed THEN "timer"
                             ELSE AfterLanding(wk[w].todo \ ids)]
    BY <1>3 DEF RequestLands
  <2> DEFINE pc == IF Row(w).verb = "later" /\ ~wk[w].landed THEN "timer"
                   ELSE AfterLanding(wk[w].todo \ ids)
             todo == wk[w].todo \ ids
             v == [wk[w] EXCEPT !.landed = TRUE, !.todo = todo, !.pc = pc]
  <2>2. wk[w] \in WorkerStates /\ wk \in [Workers -> WorkerStates]
    BY <1>0 DEF TypeOK
  <2>3. pc \in {"timer", "commit", "hook"} /\ todo \in SUBSET Messages
    BY <2>2 DEF AfterLanding, WorkerStates
  <2>4. wk' = [wk EXCEPT ![w] = v]
    BY <2>1, <2>2 DEF WorkerStates
  <2> HIDE DEF pc, todo
  <2>5. v \in WorkerStates /\ v.pc = pc /\ v.job = wk[w].job
    BY <2>2, <2>3 DEF WorkerStates, Points, Critical
  <2> HIDE DEF v
  <2>6. OnlyWorker(w) /\ wk'[w] = v
    BY <2>2, <2>4, <2>5 DEF OnlyWorker
  <2> QED
    BY <1>0, <2>3, <2>5, <2>6, StepCarries DEF Critical
<1>4. CASE RequestUncertain(w)
  BY <1>1, <1>4 DEF RequestUncertain, Errors
<1>5. CASE GetClient(w)
  BY <1>1, <1>2, <1>5 DEF GetClient
<1>6. CASE ScheduleReturn(w)
  BY <1>2, <1>6 DEF ScheduleReturn, AfterLanding
<1> QED
  BY <1>3, <1>4, <1>5, <1>6

(* A refusal is kept for the throw.                                        *)
LEMMA RefusedCarries ==
  ASSUME IInv, CarryInv, NEW w \in Workers, RequestRefused(w)
  PROVE  CarryInv'
<1>0. /\ wk[w].pc \in ForwardPoints /\ wk[w].pc \in Critical /\ TypeOK /\ CarrierInv(w)
      /\ UNCHANGED <<row, queue, api, disowned>> /\ OnlyRow(wk[w].job)
  BY RowStands DEF RequestRefused, ForwardPoints, Critical, IInv, CarryInv
<1>1. PICK e \in {"RateLimitError", "InvalidGrantError", "PermanentError"} :
        wk' = [wk EXCEPT ![w].pc = "refused", ![w].err = e]
  BY DEF RequestRefused
<1> DEFINE v == [wk[w] EXCEPT !.pc = "refused", !.err = e]
<1>2. wk[w] \in WorkerStates /\ wk \in [Workers -> WorkerStates] /\ e \in Errors
  BY <1>0 DEF TypeOK, Errors
<1>3. v \in WorkerStates /\ v.pc = "refused" /\ v.job = wk[w].job /\ v.err = e
  BY <1>2 DEF WorkerStates, Points, Critical
<1>4. wk' = [wk EXCEPT ![w] = v]
  BY <1>1, <1>2 DEF WorkerStates
<1> HIDE DEF v
<1>5. OnlyWorker(w) /\ wk'[w] = v
  BY <1>2, <1>3, <1>4 DEF OnlyWorker
<1>6. Forward(wk[w].job) /\ wk[w].job[1] \notin disowned => ~Settled(wk[w].job)'
  <2>1. wk'[w].job = wk[w].job
    BY <1>3, <1>5
  <2> QED
    BY <1>0, <2>1 DEF CarrierInv, Settled, Critical
<1> QED
  BY <1>0, <1>2, <1>3, <1>5, <1>6, HolderCarries DEF ForwardPoints

(* The reset after a refusal leaves the row live.                          *)
LEMMA ResetCarries ==
  ASSUME IInv, CarryInv, NEW w \in Workers, ResetRefused(w)
  PROVE  CarryInv'
<1> DEFINE j == wk[w].job
           r == [row[j] EXCEPT !.status = "queued"]
<1>0. /\ wk[w].pc = "refused" /\ wk[w].pc \in ForwardPoints /\ wk[w].pc \in Critical
      /\ UNCHANGED <<queue, api, disowned>> /\ CarrierInv(w) /\ Throw(w, wk[w].err)
  BY DEF ResetRefused, ForwardPoints, Critical, CarryInv
<1>1. /\ j \in Jobs /\ row[j] \in Rows /\ row \in [Jobs -> Rows]
      /\ Row(w) = row[j] /\ Job(w) = j /\ wk[w].pc # "idle"
  BY <1>0, RunsRow
<1>2. wk[w].err \in Errors
  BY <1>0 DEF CarrierInv
<1>3. r \in Rows /\ (row' = row \/ row' = [row EXCEPT ![j] = r])
  BY <1>1 DEF ResetRefused, Rows
<1>4. OnlyRow(j)
  BY <1>1, <1>3 DEF OnlyRow
<1> QED
  BY <1>0, <1>2, <1>4, ThrowCarries

(* The terminal transactions settle the row, whether or not the worker     *)
(* learns of it.                                                           *)
LEMMA CommitsCarry ==
  ASSUME IInv, CarryInv, NEW w \in Workers,
         CommitEmpty(w) \/ Commit(w) \/ CommitUnacknowledged(w)
  PROVE  CarryInv'
<1> DEFINE j == wk[w].job
           r == [row[j] EXCEPT !.status = "done"]
<1>0. /\ wk[w].pc \in ForwardPoints /\ wk[w].pc \in Critical
      /\ UNCHANGED <<queue, api, disowned>> /\ TypeOK
      /\ row' = [row EXCEPT ![Job(w)].status = "done"]
      /\ Return(w) \/ Throw(w, "TransientError")
  BY DEF CommitEmpty, Commit, CommitUnacknowledged, TerminalTx, ForwardPoints, Critical, IInv
<1>1. /\ j \in Jobs /\ row[j] \in Rows /\ row \in [Jobs -> Rows]
      /\ Row(w) = row[j] /\ Job(w) = j /\ wk[w].pc # "idle"
  BY <1>0, RunsRow
<1>2. r \in Rows /\ r.status = "done" /\ row' = [row EXCEPT ![j] = r]
  BY <1>0, <1>1 DEF Rows
<1> HIDE DEF r
<1>3. OnlyRow(j) /\ row'[j] = r
  BY <1>1, <1>2 DEF OnlyRow
<1>4. CASE Return(w)
  <2>1. wk'[w].job = j
    BY <1>0, <1>4, ReturnRun
  <2>2. Settled(j)'
    BY <1>2, <1>3, <2>1 DEF Settled
  <2> QED
    BY <1>0, <1>3, <1>4, <2>2, ReturnCarries
<1>5. CASE Throw(w, "TransientError")
  BY <1>0, <1>3, <1>5, ThrowCarries DEF Errors
<1> QED
  BY <1>0, <1>4, <1>5

(* A statement that fails.                                                 *)
LEMMA DatabaseFailsCarries ==
  ASSUME IInv, CarryInv, NEW w \in Workers, DatabaseFails(w)
  PROVE  CarryInv'
  BY FailCarries DEF DatabaseFails, Errors

(* The run of an Undo is nobody else's business.                           *)
LEMMA UndoRunCarries ==
  ASSUME IInv, CarryInv, NEW w \in Workers,
         ReverseLands(w) \/ ReverseFails(w) \/ CommitReverse(w)
  PROVE  CarryInv'
<1> DEFINE j == wk[w].job
<1>0. /\ wk[w].pc \in ReversePoints /\ wk[w].pc \in Critical /\ TypeOK
      /\ UNCHANGED <<queue, api, disowned>> /\ ~Forward(j)
  BY DEF ReverseLands, ReverseFails, CommitReverse, ReversePoints, Critical, IInv, WorkerInv
<1>1. /\ j \in Jobs /\ row[j] \in Rows /\ row \in [Jobs -> Rows]
      /\ wk[w] \in WorkerStates /\ wk \in [Workers -> WorkerStates]
      /\ Row(w) = row[j] /\ Job(w) = j /\ wk[w].pc # "idle"
  BY <1>0, RunsRow
<1>2. CASE ReverseLands(w)
  <2> DEFINE pc   == IF wk[w].todo = NextGroup(w) THEN "revcommit" ELSE "revsend"
             todo == wk[w].todo \ NextGroup(w)
             v    == [wk[w] EXCEPT !.todo = todo, !.pc = pc]
  <2>1. wk' = [wk EXCEPT ![w] = v] /\ row' = row
    BY <1>1, <1>2 DEF ReverseLands, WorkerStates
  <2>2. pc \in {"revcommit", "revsend"} /\ todo \in SUBSET Messages
    BY <1>1 DEF WorkerStates
  <2> HIDE DEF pc, todo
  <2>3. v \in WorkerStates /\ v.pc = pc /\ v.job = j
    BY <1>1, <2>2 DEF WorkerStates, Points, Critical
  <2> HIDE DEF v
  <2>4. OnlyWorker(w) /\ wk'[w] = v /\ OnlyRow(j)
    BY <1>1, <2>1, <2>3, RowStands DEF OnlyWorker
  <2> QED
    BY <1>0, <2>1, <2>2, <2>3, <2>4, GoesOnCarries DEF Critical
<1>3. CASE ReverseFails(w)
  <2>1. PICK e \in Errors : Throw(w, e)
    BY <1>3 DEF ReverseFails, Errors
  <2> QED
    BY <1>0, <1>3, <2>1, FailCarries DEF ReverseFails
<1>4. CASE CommitReverse(w)
  <2> DEFINE r == [row[j] EXCEPT !.status = "done"]
  <2>1. r \in Rows /\ row' = [row EXCEPT ![j] = r] /\ Return(w)
    BY <1>1, <1>4 DEF CommitReverse, Rows
  <2> HIDE DEF r
  <2>2. OnlyRow(j)
    BY <1>1, <2>1 DEF OnlyRow
  <2> QED
    BY <1>0, <2>1, <2>2, ReturnCarries
<1> QED
  BY <1>2, <1>3, <1>4

-------------------------------------------------------------------------------
(* The queue carries on.                                                   *)

(* A processor that was idle picks the job up.                             *)
LEMMA TakeCarries ==
  ASSUME IInv, CarryInv, NEW w \in Workers, NEW j \in Jobs, Take(w, j)
  PROVE  CarryInv'
<1> DEFINE r == [pc |-> "lock", job |-> j, try |-> queue[j].made + 1,
                 conf |-> queue[j].conf, clean |-> FALSE, landed |-> FALSE,
                 todo |-> {}, err |-> "none"]
           q == [queue[j] EXCEPT !.state = "active", !.owner = w]
<1>0. /\ wk[w].pc = "idle" /\ UNCHANGED <<row, api, disowned>>
      /\ queue \in [Jobs -> QueueJobs] /\ queue[j] \in QueueJobs
      /\ wk \in [Workers -> WorkerStates]
  BY DEF Take, IInv, TypeOK
<1>1. wk' = [wk EXCEPT ![w] = r] /\ r.pc = "lock" /\ r.job = j
  BY DEF Take
<1>2. queue' = [queue EXCEPT ![j] = q] /\ q.state = "active" /\ q.owner = w
  BY <1>0 DEF Take, QueueJobs
<1> HIDE DEF r, q
<1>3. wk'[w] = r /\ \A u \in Workers \ {w} : wk'[u] = wk[u]
  BY <1>0, <1>1
<1>4. queue'[j] = q /\ \A i \in Jobs \ {j} : queue'[i] = queue[i]
  BY <1>0, <1>2
<1>5. CarrierInv(w)'
  BY <1>1, <1>2, <1>3, <1>4 DEF CarrierInv, ForwardPoints
<1>6. ASSUME NEW u \in Workers \ {w} PROVE CarrierInv(u)'
  <2>1. wk'[u] = wk[u] /\ CarrierInv(u)
    BY <1>3 DEF CarryInv
  <2>2. wk[u].pc # "idle" => wk[u].job \in Jobs
    BY DEF IInv, WorkerInv
  <2> QED
    BY <1>0, <1>2, <1>4, <2>1, <2>2 DEF CarrierInv, Over, Settled
<1>7. ASSUME NEW a \in Actions PROVE CarriedInv(a)'
  <2>1. Fwd(a) \in Jobs /\ CarriedInv(a)
    BY DEF Fwd, Jobs, CarryInv
  <2>2. CASE Fwd(a) = j
    BY <1>0, <1>1, <1>2, <1>3, <1>4, <2>2 DEF CarriedInv
  <2>3. CASE Fwd(a) # j
    <3>1. queue'[Fwd(a)] = queue[Fwd(a)] /\ queue[Fwd(a)].owner # w
      BY <1>0, <1>4, <2>1, <2>3 DEF CarriedInv
    <3>2. \A u \in Workers : queue'[Fwd(a)].owner = u => wk'[u] = wk[u]
      BY <1>3, <3>1
    <3> QED
      BY <1>0, <2>1, <3>1, <3>2 DEF CarriedInv, Unqueued, Settled
  <2> QED
    BY <2>2, <2>3
<1> QED
  BY <1>5, <1>6, <1>7 DEF CarryInv

(* A run that is gone holds no job; what its end made of the job is what   *)
(* its row says.                                                           *)
LEMMA QuitCarries ==
  ASSUME IInv, CarryInv, NEW w \in Workers, OnlyWorker(w), wk'[w].pc = "idle",
         UNCHANGED <<row, api, disowned>>, NEW j \in Jobs, wk[w].job = j,
         \A i \in Jobs \ {j} : queue'[i] = queue[i],
         queue'[j].owner \in {None, queue[j].owner} \ {w},
         Forward(j) => (queue[j].state = "none" <=> queue'[j].state = "none"),
         queue'[j].stalls = queue[j].stalls,
         Forward(j) /\ j[1] \notin disowned =>
           /\ queue'[j].state = "completed" => queue[j].state = "completed" \/ Settled(j)
           /\ queue'[j].state = "failed" =>
                queue[j].state = "failed" \/ Settled(j) \/ "database" \in FaultKinds
  PROVE  CarryInv'
<1>1. CarrierInv(w)'
  BY DEF CarrierInv, ForwardPoints
<1>2. ASSUME NEW u \in Workers \ {w} PROVE CarrierInv(u)'
  <2>1. wk'[u] = wk[u] /\ CarrierInv(u)
    BY DEF OnlyWorker, CarryInv
  <2>2. wk[u].pc # "idle" => wk[u].job \in Jobs
    BY DEF IInv, WorkerInv
  <2> QED
    BY <2>1, <2>2 DEF CarrierInv, Over, Settled
<1>3. ASSUME NEW a \in Actions PROVE CarriedInv(a)'
  <2>1. Fwd(a) \in Jobs /\ CarriedInv(a) /\ Forward(Fwd(a)) /\ Fwd(a)[1] = a
    BY DEF Fwd, Jobs, CarryInv, Forward
  <2>2. \A u \in Workers : queue'[Fwd(a)].owner = u => queue[Fwd(a)].owner = u /\ u # w
    <3>1. CASE Fwd(a) = j
      BY <3>1, NoneAssumption
    <3>2. CASE Fwd(a) # j
      BY <2>1, <3>2 DEF CarriedInv
    <3> QED
      BY <3>1, <3>2
  <2>3. \A u \in Workers : queue'[Fwd(a)].owner = u => wk'[u].job = Fwd(a) /\ wk'[u].pc # "idle"
    BY <2>1, <2>2 DEF CarriedInv, OnlyWorker
  <2>4. Unqueued(Fwd(a))' <=> Unqueued(Fwd(a))
    BY DEF Unqueued
  <2>5. Settled(Fwd(a))' <=> Settled(Fwd(a))
    BY DEF Settled
  <2>6. CASE Fwd(a) = j
    BY <2>1, <2>3, <2>4, <2>5, <2>6 DEF CarriedInv
  <2>7. CASE Fwd(a) # j
    BY <2>1, <2>3, <2>4, <2>5, <2>7 DEF CarriedInv
  <2> QED
    BY <2>6, <2>7
<1> QED
  BY <1>1, <1>2, <1>3 DEF CarryInv

(* A job that BullMQ moves on after a run: completed over a settled row,   *)
(* failed over a settled row or a failure that was lost.                   *)
LEMMA SettleCarries ==
  ASSUME IInv, CarryInv, NEW w \in Workers, Settle(w)
  PROVE  CarryInv'
<1> DEFINE j == wk[w].job
           s == CASE wk[w].err = "none" -> "completed"
                  [] wk[w].err # "none" /\ Terminal(wk[w].err, wk[w].try) -> "failed"
                  [] OTHER -> "waiting"
           n == IF wk[w].err = "none" THEN queue[j].made ELSE queue[j].made + 1
           q == [queue[j] EXCEPT !.owner = None, !.made = n, !.state = s]
<1>0. /\ wk[w].pc = "end" /\ UNCHANGED <<row, api, disowned>> /\ CarrierInv(w)
      /\ j \in Jobs /\ queue \in [Jobs -> QueueJobs] /\ queue[j] \in QueueJobs
      /\ wk \in [Workers -> WorkerStates]
      /\ queue[j].state = "none" => ~Forward(j)
  BY DEF Settle, IInv, TypeOK, WorkerInv, CarryInv, CarrierInv
<1>1. /\ s \in {"completed", "failed", "waiting"}
      /\ s = "completed" => Over(w)
      /\ s = "failed" => Over(w) \/ "database" \in FaultKinds
  BY DEF Over
<1>2. IdleWorker \in WorkerStates /\ IdleWorker.pc = "idle"
  BY DEF IdleWorker, WorkerStates, Points
<1>3. OnlyWorker(w) /\ wk'[w].pc = "idle"
  BY <1>0, <1>2 DEF Settle, OnlyWorker
<1>4. Over(w) /\ Forward(j) /\ j[1] \notin disowned => Settled(j)
  BY <1>0 DEF CarrierInv
<1>5. CASE queue[j].owner # w
  <2>1. queue' = queue
    BY <1>5 DEF Settle, Job
  <2> QED
    BY <1>0, <1>3, <1>5, <2>1, QuitCarries
<1>6. CASE queue[j].owner = w
  <2>1. queue' = [queue EXCEPT ![j] = q]
    BY <1>0, <1>6 DEF Settle, Job, QueueJobs
  <2> HIDE DEF s, n
  <2>2. q.owner = None /\ q.state = s /\ q.stalls = queue[j].stalls
    BY <1>0 DEF QueueJobs
  <2> HIDE DEF q
  <2>3. queue'[j] = q /\ \A i \in Jobs \ {j} : queue'[i] = queue[i]
    BY <1>0, <2>1
  <2>4. queue'[j].owner \in {None, queue[j].owner} \ {w}
    BY <2>2, <2>3, NoneAssumption
  <2>5. Forward(j) => (queue[j].state = "none" <=> queue'[j].state = "none")
    BY <1>0, <1>1, <2>2, <2>3
  <2> QED
    BY <1>0, <1>1, <1>3, <1>4, <2>2, <2>3, <2>4, <2>5, QuitCarries
<1> QED
  BY <1>5, <1>6

(* A run that dies leaves its job to the stall check.                      *)
LEMMA CrashCarries ==
  ASSUME IInv, CarryInv, NEW w \in Workers, Crash(w)
  PROVE  CarryInv'
<1> DEFINE j == wk[w].job
           q == [queue[j] EXCEPT !.owner = None]
<1>0. /\ wk[w].pc # "idle" /\ UNCHANGED <<row, api, disowned>>
      /\ j \in Jobs /\ queue \in [Jobs -> QueueJobs] /\ queue[j] \in QueueJobs
      /\ wk \in [Workers -> WorkerStates]
  BY DEF Crash, IInv, TypeOK, WorkerInv
<1>1. IdleWorker \in WorkerStates /\ IdleWorker.pc = "idle"
  BY DEF IdleWorker, WorkerStates, Points
<1>2. OnlyWorker(w) /\ wk'[w].pc = "idle"
  BY <1>0, <1>1 DEF Crash, OnlyWorker
<1>3. CASE queue[j].owner # w
  <2>1. queue' = queue
    BY <1>3 DEF Crash, Job
  <2> QED
    BY <1>0, <1>2, <1>3, <2>1, QuitCarries
<1>4. CASE queue[j].owner = w
  <2>1. queue' = [queue EXCEPT ![j] = q]
    BY <1>0, <1>4 DEF Crash, Job
  <2>2. q.owner = None /\ q.state = queue[j].state /\ q.stalls = queue[j].stalls
    BY <1>0 DEF QueueJobs
  <2> HIDE DEF q
  <2>3. queue'[j] = q /\ \A i \in Jobs \ {j} : queue'[i] = queue[i]
    BY <1>0, <2>1
  <2>4. queue'[j].owner \in {None, queue[j].owner} \ {w}
    BY <2>2, <2>3, NoneAssumption
  <2> QED
    BY <1>0, <1>2, <2>2, <2>3, <2>4, QuitCarries
<1> QED
  BY <1>3, <1>4

(* A stalled job waits again, or is given up.                              *)
LEMMA StallCarries ==
  ASSUME IInv, CarryInv, NEW j \in Jobs, Stall(j)
  PROVE  CarryInv'
<1> DEFINE s == IF queue[j].stalls < MaxStalls THEN "waiting" ELSE "failed"
           n == IF queue[j].stalls < MaxStalls THEN queue[j].stalls + 1 ELSE queue[j].stalls
           q == [queue[j] EXCEPT !.owner = None, !.state = s, !.stalls = n]
<1>0. /\ UNCHANGED <<row, api, wk, disowned>> /\ queue \in [Jobs -> QueueJobs]
      /\ queue[j] \in QueueJobs /\ queue[j].stalls \in Nat
  BY DEF Stall, IInv, TypeOK, QueueJobs
<1>1. s \in {"waiting", "failed"} /\ (s = "failed" => n >= MaxStalls)
  BY <1>0, BoundsAssumption
<1>2. queue' = [queue EXCEPT ![j] = q]
  BY <1>0 DEF Stall, QueueJobs
<1> HIDE DEF s, n
<1>3. q.owner = None /\ q.state = s /\ q.stalls = n
  BY <1>0 DEF QueueJobs
<1> HIDE DEF q
<1>4. queue'[j] = q /\ \A i \in Jobs \ {j} : queue'[i] = queue[i]
  BY <1>0, <1>2
<1>5. Forward(j) => CarriedInv(j[1])'
  <2>1. Forward(j) => Fwd(j[1]) = j
    BY DEF Forward, Fwd, Jobs
  <2> QED
    BY <1>1, <1>3, <1>4, <2>1, NoneAssumption DEF CarriedInv
<1>6. Settled(j)' <=> Settled(j)
  BY <1>0 DEF Settled
<1> QED
  BY <1>0, <1>1, <1>3, <1>4, <1>5, <1>6, JobCarries

-------------------------------------------------------------------------------
(* The API and the user carry on.                                          *)

(* A job added to the queue waits there.                                   *)
LEMMA AddedWaits ==
  ASSUME IInv, NEW j \in Jobs
  PROVE  IF queue[j].state = "none"
           THEN Added(j)[j].state = "waiting" /\ Added(j)[j].owner = None
           ELSE Added(j) = queue
<1>1. queue \in [Jobs -> QueueJobs]
  BY DEF IInv, TypeOK
<1> QED
  BY <1>1 DEF Added

(* A request that hands its row to the queue, or fails to, writes no row.  *)
LEMMA HandOverCarries ==
  ASSUME IInv, CarryInv, NEW j \in Jobs, wk' = wk, row' = row, disowned' = disowned,
         queue' = queue \/ queue' = Added(j),
         \A i \in Jobs \ {j} : api'[i] = api[i],
         Forward(j) /\ queue'[j].state = "none" => Unqueued(j)'
  PROVE  CarryInv'
<1>1. \A i \in Jobs \ {j} : row'[i] = row[i] /\ queue'[i] = queue[i] /\ api'[i] = api[i]
  BY AddedType
<1>2. \/ queue'[j] = queue[j]
      \/ queue[j].state = "none" /\ queue'[j].state = "waiting" /\ queue'[j].owner = None
  BY AddedWaits
<1>3. ASSUME Forward(j) PROVE CarriedInv(j[1])'
  <2>1. Fwd(j[1]) = j /\ j[1] \in Actions /\ CarriedInv(j[1])
    BY <1>3 DEF Forward, Fwd, Jobs, CarryInv
  <2>2. Settled(j)' <=> Settled(j)
    BY DEF Settled
  <2> QED
    BY <1>2, <1>3, <2>1, <2>2, NoneAssumption DEF CarriedInv
<1>4. Settled(j)' <=> Settled(j)
  BY DEF Settled
<1> QED
  BY <1>1, <1>2, <1>3, <1>4, JobCarries

LEMMA AddCarries ==
  ASSUME IInv, CarryInv, NEW j \in Jobs,
         QueueAdd(j) \/ QueueAddThrows(j) \/ ApiCrash(j)
  PROVE  CarryInv'
<1>0. api \in [Jobs -> Requests] /\ api[j] \in Requests /\ row[j].status # "absent"
  BY DEF QueueAdd, QueueAddThrows, ApiCrash, IInv, TypeOK, DeliveryInv
<1>1. CASE QueueAdd(j)
  <2>1. queue'[j].state # "none"
    BY <1>1, AddedWaits DEF QueueAdd
  <2>2. \A i \in Jobs \ {j} : api'[i] = api[i]
    BY <1>0, <1>1 DEF QueueAdd
  <2> QED
    BY <1>1, <2>1, <2>2, HandOverCarries DEF QueueAdd
<1>2. ASSUME QueueAddThrows(j) \/ ApiCrash(j) PROVE CarryInv'
  <2> DEFINE q == [api[j] EXCEPT !.at = "caught"]
  <2>1. /\ wk' = wk /\ row' = row /\ disowned' = disowned
        /\ queue' = queue \/ queue' = Added(j)
    BY <1>2 DEF QueueAddThrows, ApiCrash
  <2>2. api' = [api EXCEPT ![j] = NoRequest] \/ api' = [api EXCEPT ![j] = q]
    BY <1>2 DEF QueueAddThrows, ApiCrash
  <2>3. q.at = "caught"
    BY <1>0 DEF Requests
  <2>4. \/ "api_crash" \in FaultKinds \/ (row[j].attempt > 0 /\ Forward(j))
        \/ api' = [api EXCEPT ![j] = q]
    BY <1>2 DEF QueueAddThrows, ApiCrash, Fault
  <2> HIDE DEF q
  <2>5. \A i \in Jobs \ {j} : api'[i] = api[i]
    BY <1>0, <2>2
  <2>6. queue'[j].state = "none" => queue[j].state = "none"
    BY <2>1, AddedWaits
  <2>7. Forward(j) /\ queue'[j].state = "none" => Unqueued(j)'
    <3>1. SUFFICES ASSUME Forward(j), queue[j].state = "none" PROVE Unqueued(j)'
      BY <2>6
    <3>2. Fwd(j[1]) = j /\ j[1] \in Actions
      BY <3>1 DEF Forward, Fwd, Jobs
    <3>3. Unqueued(j)
      BY <3>1, <3>2 DEF CarryInv, CarriedInv
    <3>4. \/ "api_crash" \in FaultKinds \/ row[j].attempt > 0
          \/ api'[j].at = "caught"
      BY <1>0, <2>3, <2>4
    <3> QED
      BY <2>1, <3>3, <3>4 DEF Unqueued
  <2> QED
    BY <2>1, <2>5, <2>7, HandOverCarries
<1> QED
  BY <1>1, <1>2

LEMMA ReplayCarries ==
  ASSUME IInv, CarryInv, NEW a \in Actions, NEW ack \in BOOLEAN, ReplayConfirm(a, ack)
  PROVE  CarryInv'
<1>1. Fwd(a) \in Jobs /\ api \in [Jobs -> Requests]
  BY DEF Fwd, Jobs, IInv, TypeOK
<1>2. \A i \in Jobs \ {Fwd(a)} : api'[i] = api[i]
  BY <1>1 DEF ReplayConfirm
<1>3. Unqueued(Fwd(a))'
  BY DEF ReplayConfirm, Unqueued
<1> QED
  BY <1>1, <1>2, <1>3, HandOverCarries DEF ReplayConfirm

(* The mark of a failed add leaves the row open to a job that was added    *)
(* after all, and disowns the row if there is one.                         *)
LEMMA EnqueueFailedCarries ==
  ASSUME IInv, CarryInv, NEW j \in Jobs, EnqueueFailed(j)
  PROVE  CarryInv'
<1>0. /\ api \in [Jobs -> Requests] /\ row[j].status # "absent" /\ row[j] \in Rows
      /\ row \in [Jobs -> Rows] /\ UNCHANGED <<wk, queue>> /\ disowned \subseteq disowned'
  BY DEF EnqueueFailed, Disown, IInv, TypeOK, DeliveryInv
<1>1. \A i \in Jobs \ {j} : api'[i] = api[i]
  BY <1>0 DEF EnqueueFailed
<1>2. CASE row[j].status # "queued"
  <2>1. row' = row /\ disowned' = disowned
    BY <1>2 DEF EnqueueFailed, Disown
  <2>2. Forward(j) /\ queue'[j].state = "none" => Unqueued(j)'
    <3>1. SUFFICES ASSUME Forward(j), queue[j].state = "none" PROVE Unqueued(j)'
      BY <1>0
    <3>2. Fwd(j[1]) = j /\ j[1] \in Actions
      BY <3>1 DEF Forward, Fwd, Jobs
    <3> QED
      BY <1>2, <2>1, <3>1, <3>2 DEF CarryInv, CarriedInv, Unqueued
  <2> QED
    BY <1>0, <1>1, <2>1, <2>2, HandOverCarries
<1>3. CASE row[j].status = "queued"
  <2> DEFINE r == [row[j] EXCEPT !.status = "failed", !.err = "ENQUEUE_FAILED"]
  <2>1. row' = [row EXCEPT ![j] = r]
    BY <1>3 DEF EnqueueFailed
  <2>2. r.status = "failed" /\ r.err = "ENQUEUE_FAILED"
    BY <1>0 DEF Rows
  <2> HIDE DEF r
  <2>3. row'[j] = r /\ \A i \in Jobs \ {j} : row'[i] = row[i]
    BY <1>0, <2>1
  <2>4. Settled(j)' <=> Settled(j)
    BY <1>3, <2>2, <2>3 DEF Settled
  <2>5. ASSUME Forward(j) PROVE CarriedInv(j[1])'
    <3>1. Fwd(j[1]) = j /\ j[1] \in Actions /\ CarriedInv(j[1])
      BY <2>5 DEF Forward, Fwd, Jobs, CarryInv
    <3>2. Unqueued(j)'
      BY <2>2, <2>3 DEF Unqueued
    <3>3. queue[j].state # "none" => j[1] \in disowned'
      BY <1>3, <2>5 DEF EnqueueFailed, Disown
    <3> QED
      BY <1>0, <3>1, <3>2, <3>3 DEF CarriedInv
  <2> QED
    BY <1>0, <1>1, <2>3, <2>4, <2>5, JobCarries
<1> QED
  BY <1>2, <1>3

(* A new row is with the request that committed it.                        *)
LEMMA NewRowCarries ==
  ASSUME IInv, CarryInv, NEW a \in Actions, row[Fwd(a)].status = "absent",
         NEW r \in Rows, r.status = "queued", row' = [row EXCEPT ![Fwd(a)] = r],
         NEW q \in Requests, q.at = "add", api' = [api EXCEPT ![Fwd(a)] = q],
         UNCHANGED <<wk, queue, disowned>>
  PROVE  CarryInv'
<1>1. /\ Fwd(a) \in Jobs /\ Fwd(a)[1] = a /\ row \in [Jobs -> Rows]
      /\ api \in [Jobs -> Requests] /\ CarriedInv(a) /\ queue[Fwd(a)].state = "none"
  BY DEF Fwd, Jobs, IInv, TypeOK, CarryInv, DeliveryInv
<1>2. /\ row'[Fwd(a)] = r /\ api'[Fwd(a)] = q
      /\ \A i \in Jobs \ {Fwd(a)} : row'[i] = row[i] /\ api'[i] = api[i]
  BY <1>1
<1>3. Settled(Fwd(a))' <=> Settled(Fwd(a))
  BY <1>2 DEF Settled
<1>4. CarriedInv(a)'
  BY <1>1, <1>2 DEF CarriedInv, Unqueued
<1> QED
  BY <1>1, <1>2, <1>3, <1>4, JobCarries

LEMMA ClickCarries ==
  ASSUME IInv, CarryInv, NEW a \in Actions, NEW verb \in Verbs, NEW reach \in Reaches,
         NEW wake \in Wakes \cup {None}, NEW override \in BOOLEAN,
         Click(a, verb, reach, wake, override)
  PROVE  CarryInv'
<1> DEFINE r == NewRow(a, verb, reach, wake)
           q == [at |-> "add", conf |-> override /\ policy.protected]
<1>1. r \in Rows /\ r.status = "queued"
  BY SetsAssumption DEF NewRow, Rows, Codes, NoPlacement, Placements
<1>2. q \in Requests /\ q.at = "add"
  BY DEF Click, Requests, IInv, TypeOK
<1>3. row' = [row EXCEPT ![Fwd(a)] = r] /\ api' = [api EXCEPT ![Fwd(a)] = q]
  BY DEF Click
<1> HIDE DEF r, q
<1> QED
  BY <1>1, <1>2, <1>3, NewRowCarries DEF Click

LEMMA ConfirmCarries ==
  ASSUME IInv, CarryInv, NEW root \in Actions, NEW child \in Actions, NEW ack \in BOOLEAN,
         ConfirmReview(root, child, ack)
  PROVE  CarryInv'
<1> DEFINE parent == row[Fwd(preview[root].current)]
           t == preview[root].target
           n == Cardinality(Lineage(root))
           r == [parent EXCEPT !.status = "queued", !.err = "none", !.ids = t,
                               !.attempt = n, !.root = root]
           q == [at |-> "add", conf |-> ack /\ policy.protected]
<1>1. n \in Nat
  <2>1. Lineage(root) \subseteq Actions
    BY DEF Lineage
  <2> QED
    BY <2>1, FinitenessAssumption, FS_Subset, FS_CardinalityType
<1>2. preview[root] \in Previews
  BY DEF IInv, TypeOK
<1>3. parent \in Rows /\ t \in SUBSET Messages
  BY <1>2 DEF Previews, IInv, TypeOK, Fwd, Jobs
<1>4. row' = [row EXCEPT ![Fwd(child)] = r] /\ api' = [api EXCEPT ![Fwd(child)] = q]
  BY DEF ConfirmReview
<1> HIDE DEF parent, t, n
<1>5. r \in Rows /\ r.status = "queued"
  BY <1>1, <1>3 DEF Rows, Codes
<1>6. q \in Requests /\ q.at = "add"
  BY DEF ConfirmReview, Requests, IInv, TypeOK
<1> HIDE DEF r, q
<1> QED
  BY <1>4, <1>5, <1>6, NewRowCarries DEF ConfirmReview

(* The requests of an Undo are about its own row.                          *)
LEMMA UndoCarries ==
  ASSUME IInv, CarryInv, NEW a \in Actions, Undo(a) \/ ResetRevert(a)
  PROVE  CarryInv'
<1>1. /\ Rev(a) \in Jobs /\ ~Forward(Rev(a)) /\ row \in [Jobs -> Rows]
      /\ api \in [Jobs -> Requests] /\ queue \in [Jobs -> QueueJobs]
  BY DEF Rev, Jobs, Forward, IInv, TypeOK
<1>2. wk' = wk /\ disowned' = disowned
  BY DEF Undo, ResetRevert
<1>3. \A i \in Jobs \ {Rev(a)} : row'[i] = row[i]
  BY <1>1 DEF Undo, ResetRevert
<1>4. \A i \in Jobs \ {Rev(a)} : queue'[i] = queue[i]
  BY <1>1 DEF Undo, ResetRevert
<1>5. \A i \in Jobs \ {Rev(a)} : api'[i] = api[i]
  BY <1>1 DEF Undo, ResetRevert
<1> QED
  BY <1>1, <1>2, <1>3, <1>4, <1>5, JobCarries

-------------------------------------------------------------------------------
(* Every step carries on.                                                  *)

LEMMA StillCarries ==
  ASSUME CarryInv, UNCHANGED <<row, queue, api, wk, disowned>>
  PROVE  CarryInv'
  BY DEF CarryInv, CarrierInv, CarriedInv, Over, Settled, Unqueued

LEMMA InitCarries == Init => CarryInv
<1> SUFFICES ASSUME Init PROVE CarryInv
  OBVIOUS
<1>1. ASSUME NEW w \in Workers PROVE CarrierInv(w)
  <2>1. wk[w].pc = "idle"
    BY DEF Init, IdleWorker
  <2> QED
    BY <2>1 DEF CarrierInv, ForwardPoints
<1>2. ASSUME NEW a \in Actions PROVE CarriedInv(a)
  <2>1. /\ Fwd(a) \in Jobs /\ queue[Fwd(a)].state = "none" /\ queue[Fwd(a)].owner = None
        /\ row[Fwd(a)].status = "absent"
    BY DEF Init, Fwd, Jobs, NoQueueJob, AbsentRow
  <2> QED
    BY <2>1, NoneAssumption DEF CarriedInv, Unqueued
<1> QED
  BY <1>1, <1>2 DEF CarryInv

LEMMA NextCarries == IInv /\ CarryInv /\ [Next]_vars => CarryInv'
<1> SUFFICES ASSUME IInv, CarryInv, [Next]_vars PROVE CarryInv'
  OBVIOUS
<1>1. ASSUME NEW w \in Workers, WorkerStep(w) PROVE CarryInv'
  BY <1>1, LockCarries, LoadCarries, ChecksCarry, ResolveCarries, CommitsCarry,
     RequestsCarry, MarkCarries, ResetCarries, UndoRunCarries, RecordFailureCarries,
     SettleCarries DEF WorkerStep
<1>2. ASSUME NEW w \in Workers, WorkerFault(w) PROVE CarryInv'
  BY <1>2, LockCarries, RecordFailureLostCarries, CrashCarries, RefusedCarries,
     RequestsCarry, CommitsCarry, DatabaseFailsCarries, UndoRunCarries DEF WorkerFault
<1>3. ASSUME NEW j \in Jobs, ApiStep(j) \/ Stall(j) PROVE CarryInv'
  BY <1>3, AddCarries, EnqueueFailedCarries, StallCarries DEF ApiStep
<1>4. CASE UserStep
  <2>1. ASSUME NEW a \in Actions, OpenReview(a) \/ VerifyReview(a) \/ CloseReview(a)
        PROVE  CarryInv'
    BY <2>1, StillCarries DEF OpenReview, VerifyReview, CloseReview
  <2>2. CASE SetProtected \/ \E m \in Messages : MoveMail(m) \/ SyncMessage(m)
    BY <2>2, StillCarries DEF SetProtected, MoveMail, SyncMessage
  <2> QED
    BY <1>4, <2>1, <2>2, ClickCarries, UndoCarries, ReplayCarries, ConfirmCarries
       DEF UserStep
<1>5. CASE UNCHANGED vars
  BY <1>5, StillCarries DEF vars
<1> QED
  BY <1>1, <1>2, <1>3, <1>4, <1>5, TakeCarries DEF Next

LEMMA CarryInvariance == Spec => [](IInv /\ CarryInv)
  BY InitEstablishes, NextPreserves, InitCarries, NextCarries, PTL DEF Spec

(* A live row is with the API, waits in the queue, or has a run that will  *)
(* end it; each place it could be left in otherwise is one of the named.   *)
LEMMA CarryingCarries == IInv /\ CarryInv => ClickIsCarried
<1> SUFFICES ASSUME IInv, CarryInv, NEW a \in Actions, Live(row[Fwd(a)]),
                    ~Forgotten(Fwd(a))
             PROVE  Carried(Fwd(a))
  BY DEF ClickIsCarried
<1> DEFINE j == Fwd(a)
<1>1. /\ j \in Jobs /\ Forward(j) /\ j[1] = a /\ CarriedInv(a)
      /\ queue[j] \in QueueJobs /\ a \notin disowned /\ ~Settled(j)
      /\ api[j] \in Requests /\ row[j] \in Rows
  BY DEF Fwd, Jobs, Forward, CarryInv, IInv, TypeOK, Forgotten, Live, Settled
<1>2. CASE queue[j].state = "none"
  BY <1>1, <1>2 DEF CarriedInv, Unqueued, Carried, Forgotten, Live
<1>3. CASE queue[j].state \in {"completed", "failed"}
  BY <1>1, <1>3 DEF CarriedInv, Forgotten
<1>4. CASE queue[j].state = "active" /\ queue[j].owner # None
  <2>1. PICK w \in Workers : queue[j].owner = w
    BY <1>1, <1>4 DEF QueueJobs
  <2>2. wk[w].job = j /\ wk[w].pc # "idle" /\ CarrierInv(w)
    BY <1>1, <2>1 DEF CarriedInv, CarryInv
  <2>3. wk[w].pc = "end" => wk[w].err # "none" /\ ~Terminal(wk[w].err, wk[w].try)
    BY <1>1, <2>1, <2>2 DEF CarrierInv, Over, Forgotten
  <2> QED
    BY <1>4, <2>1, <2>2, <2>3 DEF Carried, AtWork
<1>5. CASE queue[j].state = "waiting" \/ (queue[j].state = "active" /\ queue[j].owner = None)
  BY <1>5 DEF Carried
<1> QED
  BY <1>1, <1>2, <1>3, <1>4, <1>5 DEF QueueJobs

(* No click is forgotten (enqueueComposite, BaseDeclutrWorker): whatever   *)
(* crashes, stalls, throws or overtakes, a live row is with the request    *)
(* that has yet to add it, in the queue, or with a run that will end it or *)
(* have it run again, but for the five ways Forgotten names.               *)
THEOREM NobodyForgetsAClick == Spec => []ClickIsCarried
  BY CarryInvariance, CarryingCarries, PTL
===============================================================================
