--------------------------- MODULE SyncCursorProofs ---------------------------
(***************************************************************************)
(* Proofs about SyncCursor, for every set of messages, any number of       *)
(* incremental runs and scans in flight together, and any number of        *)
(* faults of any kind.                                                     *)
(*                                                                         *)
(* A run or a scan read the row and the grant when it began and writes     *)
(* what it concludes much later.  RunInv and ScanInv say how old that      *)
(* knowledge may be: a run that saw a 404 asked from an id that has really *)
(* expired, and the scan that owns the row's attempt began under the       *)
(* grant the mailbox has now.                                              *)
(*                                                                         *)
(* The mirror has an invariant of its own (MInv), which says what is true  *)
(* of a message at every place of the history that has been reached: so no *)
(* induction over the history is needed to know what is true at its head.  *)
(***************************************************************************)
EXTENDS SyncCursor, TLAPS

-------------------------------------------------------------------------------
(* The inductive invariant.                                                *)

Kinds == {"added", "deleted"} \cup Labels
Events == [kind : Kinds, message : Messages]

RowStates == [readiness : Readiness, cursor : Ids \cup {None}, attempt : Scans \cup {None},
              recoveries : 0 .. Limit, retryable : BOOLEAN, awaiting : BOOLEAN]

QueueStates == [waiting : Ids \cup {None}, active : Runs \cup {None}, follow : Ids \cup {None}]

ScanPoints == {"idle", "snapshot", "list", "reconcile", "fetch", "flush"}
Fetched == UNION {[there -> Labels] : there \in SUBSET Messages}
ScanStates == [pc : ScanPoints, snapshot : Ids, listed : SUBSET Messages, listedAt : Ids,
               todo : SUBSET Messages, fetched : Fetched, fetchedAt : Ids,
               connect : 0 .. MaxConnects]

Shape ==
  /\ gmail \in [Messages -> Labels \cup {"none", "gone"}]
  /\ history \in Seq(Events) /\ Latest \in Ids /\ kept \in 0 .. Latest
  /\ mirror \in [Messages -> Labels \cup {"none"}]
  /\ row \in RowStates /\ queue \in QueueStates
  /\ inc \in [Runs -> RunStates] /\ scan \in [Scans -> ScanStates]
  /\ scanJob \in Scans \cup {"none", "waiting"}
  /\ connects \in 0 .. MaxConnects /\ bad \subseteq 0 .. connects

RunInv(r) ==
  /\ inc[r].pc = "apply" <=> lock = r
  /\ inc[r].pc = "expired" => inc[r].from < kept
  /\ inc[r].connect <= connects

ScanInv(s) == row.attempt = s /\ scan[s].pc # "idle" => scan[s].connect = connects

RowInv ==
  /\ row.readiness = "ready" => row.attempt = None
  /\ GateIsTrue

IInv ==
  /\ Shape /\ RowInv
  /\ \A r \in Runs : RunInv(r)
  /\ \A s \in Scans : ScanInv(s)
-------------------------------------------------------------------------------
(* Which steps write what.                                                 *)

USE SetsAssumption, BoundsAssumption
USE DEF vars, google, account, jobs, ghosts

(* The steps that write the mailbox row.                                   *)
LEMMA RowWriters ==
  ASSUME [Next]_vars
  PROVE  \/ row' = row
         \/ \E r \in Runs : IncAdvance(r) \/ IncExpired(r) \/ IncRefused(r)
         \/ \E s \in Scans : ScanStart(s) \/ ScanSnapshot(s) \/ ScanReady(s)
                               \/ ScanRefused(s) \/ ScanFails(s)
         \/ Reconcile \/ Retry \/ Connect
  BY DEF Next, IncSteps, ScanSteps, GmailChanges, ActionMoves, HistoryExpires, GrantRevoked,
         Webhook, SyncNow, DriftSweep, IncStart, IncPage, IncLock, IncApply, IncFails,
         IncStalls, ScanList, ScanReconcile, ScanFetch, ScanFlush, ScanStalls

(* The steps that write the state of an incremental run, or the lock.      *)
LEMMA RunWriters ==
  ASSUME [Next]_vars
  PROVE  \/ inc' = inc /\ lock' = lock
         \/ \E r \in Runs : IncSteps(r) \/ IncFails(r)
  BY ZenonT(60)
     DEF Next, ScanSteps, GmailChanges, ActionMoves, HistoryExpires, GrantRevoked,
         Webhook, SyncNow, DriftSweep, IncStalls, ScanStart, ScanSnapshot, ScanList,
         ScanReconcile, ScanFetch, ScanFlush, ScanReady, ScanRefused, ScanFails, ScanStalls,
         Reconcile, Retry, Connect

(* The steps that write the coalesced job.                                 *)
LEMMA QueueWriters ==
  ASSUME [Next]_vars
  PROVE  \/ queue' = queue \/ Webhook \/ SyncNow \/ DriftSweep \/ Connect
         \/ \E r \in Runs : IncStart(r) \/ IncLock(r) \/ IncAdvance(r) \/ IncExpired(r)
                             \/ IncRefused(r) \/ IncFails(r) \/ IncStalls(r)
  BY DEF Next, IncSteps, ScanSteps, GmailChanges, ActionMoves, HistoryExpires, GrantRevoked,
         IncPage, IncApply, ScanStart, ScanSnapshot, ScanList, ScanReconcile, ScanFetch,
         ScanFlush, ScanReady, ScanRefused, ScanFails, ScanStalls, Reconcile, Retry

(* The steps that write the state of a scan, or its job.                   *)
LEMMA ScanWriters ==
  ASSUME [Next]_vars
  PROVE  \/ scan' = scan /\ scanJob' = scanJob
         \/ \E s \in Scans : ScanSteps(s) \/ ScanFails(s) \/ ScanStalls(s)
         \/ scan' = scan /\ (Reconcile \/ Retry \/ Connect \/ \E r \in Runs : IncExpired(r))
  BY ZenonT(60)
     DEF Next, IncSteps, GmailChanges, ActionMoves, HistoryExpires, GrantRevoked, Webhook,
         SyncNow, DriftSweep, IncStart, IncPage, IncLock, IncApply, IncAdvance, IncExpired,
         IncRefused, IncFails, IncStalls, Reconcile, Retry, Connect

(* The steps that write Gmail and its history.                             *)
LEMMA GoogleWriters ==
  ASSUME [Next]_vars
  PROVE  \/ UNCHANGED <<gmail, history>>
         \/ \E m \in Messages : \E kind \in Kinds : GmailChanges(m, kind)
         \/ \E m \in Messages : \E label \in Labels : ActionMoves(m, label)
<1>1. Kinds = {"added", "deleted", "on", "off"}
  BY DEF Kinds, Labels
<1> QED
  BY <1>1, ZenonT(90)
     DEF Next, IncSteps, ScanSteps, HistoryExpires, GrantRevoked, Webhook, SyncNow,
         DriftSweep, IncStart, IncPage, IncLock, IncApply, IncAdvance, IncExpired, IncRefused,
         IncFails, IncStalls, ScanStart, ScanSnapshot, ScanList, ScanReconcile, ScanFetch,
         ScanFlush, ScanReady, ScanRefused, ScanFails, ScanStalls, Reconcile, Retry, Connect

(* The steps that write the mirror.                                        *)
LEMMA MirrorWriters ==
  ASSUME [Next]_vars
  PROVE  \/ mirror' = mirror
         \/ \E m \in Messages : \E label \in Labels : ActionMoves(m, label)
         \/ \E r \in Runs : IncApply(r)
         \/ \E s \in Scans : ScanReconcile(s) \/ ScanFlush(s)
  BY DEF Next, IncSteps, ScanSteps, GmailChanges, HistoryExpires, GrantRevoked, Webhook,
         SyncNow, DriftSweep, IncStart, IncPage, IncLock, IncAdvance, IncExpired,
         IncRefused, IncFails, IncStalls, ScanStart, ScanSnapshot, ScanList, ScanFetch,
         ScanReady, ScanRefused, ScanFails, ScanStalls, Reconcile, Retry, Connect

(* Grants are added by Connect and revoked by GrantRevoked only.           *)
LEMMA AccountWriters ==
  ASSUME [Next]_vars
  PROVE  UNCHANGED account \/ GrantRevoked \/ Connect
  BY ZenonT(90)
     DEF Next, IncSteps, ScanSteps, GmailChanges, ActionMoves, HistoryExpires,
         Webhook, SyncNow, DriftSweep, IncStart, IncPage, IncLock, IncApply, IncAdvance,
         IncExpired, IncRefused, IncFails, IncStalls, ScanStart, ScanSnapshot, ScanList,
         ScanReconcile, ScanFetch, ScanFlush, ScanReady, ScanRefused, ScanFails, ScanStalls,
         Reconcile, Retry

(* History expires from its start, and only then.                          *)
LEMMA KeptWriters ==
  ASSUME [Next]_vars
  PROVE  kept' = kept \/ HistoryExpires
  BY ZenonT(60)
     DEF Next, IncSteps, ScanSteps, GmailChanges, ActionMoves, GrantRevoked,
         Webhook, SyncNow, DriftSweep, IncStart, IncPage, IncLock, IncApply, IncAdvance,
         IncExpired, IncRefused, IncFails, IncStalls, ScanStart, ScanSnapshot, ScanList,
         ScanReconcile, ScanFetch, ScanFlush, ScanReady, ScanRefused, ScanFails, ScanStalls,
         Reconcile, Retry, Connect

-------------------------------------------------------------------------------
(* Types.                                                                  *)

(* A cursor that is advanced is a history id.                              *)
LEMMA AdvancedType ==
  ASSUME Shape, NEW to \in Ids
  PROVE  /\ Advanced(to) \in Ids
         /\ row.cursor # None => Advanced(to) >= row.cursor
  BY DEF Shape, RowStates, Advanced, Ids

(* The row keeps its shape.                                                *)
LEMMA RowShape ==
  ASSUME IInv, [Next]_vars
  PROVE  row' \in RowStates
<1>0. Shape /\ row \in RowStates /\ Latest \in Ids /\ 0 \in 0 .. Limit
  BY DEF IInv, Shape
<1>1. ASSUME NEW r \in Runs, IncAdvance(r) PROVE row' \in RowStates
  <2>1. inc[r].to \in Ids
    BY DEF IInv, Shape, RunStates
  <2> QED
    BY <1>0, <1>1, <2>1, AdvancedType DEF IncAdvance, RowStates
<1>2. ASSUME NEW r \in Runs, IncExpired(r) \/ IncRefused(r) PROVE row' \in RowStates
  <2>1. Rebased \in RowStates
    BY <1>0 DEF Rebased, RowStates, Readiness
  <2>2. [row EXCEPT !.awaiting = TRUE] \in RowStates
    BY <1>0 DEF RowStates
  <2> QED
    BY <1>0, <1>2, <2>1, <2>2 DEF IncExpired, IncRefused
<1>3. ASSUME NEW s \in Scans, ScanStart(s) PROVE row' \in RowStates
  BY <1>0, <1>3 DEF ScanStart, RowStates, Readiness
<1>4. ASSUME NEW s \in Scans, ScanSnapshot(s) PROVE row' \in RowStates
  BY <1>0, <1>4 DEF ScanSnapshot, Snapshot, RowStates
<1>5. ASSUME NEW s \in Scans, ScanReady(s) PROVE row' \in RowStates
  <2>1. scan[s].snapshot \in Ids
    BY DEF IInv, Shape, ScanStates
  <2>2. ASSUME NEW cursor \in Ids
        PROVE  [row EXCEPT !.readiness = "ready", !.cursor = cursor, !.attempt = None,
                           !.recoveries = 0, !.awaiting = FALSE] \in RowStates
    BY <1>0 DEF RowStates, Readiness
  <2> QED
    BY <1>0, <1>5, <2>1, <2>2, AdvancedType DEF ScanReady
<1>6. ASSUME NEW s \in Scans, ScanRefused(s) \/ ScanFails(s) PROVE row' \in RowStates
  BY <1>0, <1>6 DEF ScanRefused, ScanFails, Terminal, RowStates, Readiness
<1>7. CASE Reconcile
  <2>1. [row EXCEPT !.readiness = "needs_reconnect"] \in RowStates
    BY <1>0 DEF RowStates, Readiness
  <2>2. ASSUME row.recoveries < Limit
        PROVE  [row EXCEPT !.readiness = "queued", !.attempt = None, !.recoveries = @ + 1] \in RowStates
    <3>1. row.recoveries + 1 \in 0 .. Limit
      BY <1>0, <2>2 DEF RowStates
    <3> QED
      BY <1>0, <3>1 DEF RowStates, Readiness
  <2> QED
    BY <1>0, <1>7, <2>1, <2>2 DEF Reconcile, Requeueable
<1>8. CASE Retry \/ Connect
  <2>1. /\ [row EXCEPT !.readiness = "queued", !.attempt = None, !.recoveries = 0] \in RowStates
        /\ [row EXCEPT !.readiness = "queued", !.attempt = None, !.recoveries = 0,
                       !.awaiting = FALSE] \in RowStates
        /\ [row EXCEPT !.awaiting = FALSE] \in RowStates
    BY <1>0 DEF RowStates, Readiness
  <2> QED
    BY <1>8, <2>1 DEF Retry, Connect
<1> QED
  BY <1>0, <1>1, <1>2, <1>3, <1>4, <1>5, <1>6, <1>7, <1>8, RowWriters

(* The job keeps its shape: its payloads are cursors.                      *)
LEMMA QueueShape ==
  ASSUME IInv, [Next]_vars
  PROVE  queue' \in QueueStates
<1>0. queue \in QueueStates /\ row.cursor \in Ids \cup {None} /\ inc \in [Runs -> RunStates]
  BY DEF IInv, Shape, RowStates
<1>1. ASSUME NEW payload \in Ids PROVE Coalesce(payload) \in QueueStates
  BY <1>0 DEF Coalesce, QueueStates
<1>2. CASE Webhook \/ SyncNow \/ DriftSweep \/ Connect
  BY <1>0, <1>1, <1>2 DEF Webhook, SyncNow, DriftSweep, Connect, Plannable
<1>3. ASSUME NEW r \in Runs PROVE JobEnds(r) \in QueueStates /\ JobRetries(r) \in QueueStates
  <2>1. inc[r].payload \in Ids
    BY <1>0 DEF RunStates
  <2> QED
    BY <1>0, <2>1 DEF JobEnds, JobRetries, QueueStates
<1>4. ASSUME NEW r \in Runs, IncStart(r) PROVE queue' \in QueueStates
  BY <1>0, <1>4 DEF IncStart, QueueStates
<1>5. ASSUME NEW r \in Runs,
             IncLock(r) \/ IncAdvance(r) \/ IncExpired(r) \/ IncRefused(r) \/ IncFails(r)
               \/ IncStalls(r)
      PROVE  queue' \in QueueStates
  BY <1>0, <1>3, <1>5 DEF IncLock, IncAdvance, IncExpired, IncRefused, IncFails, IncStalls
<1> QED
  BY <1>0, <1>2, <1>4, <1>5, QueueWriters

(* Gmail's history only grows, and expires only up to its head.            *)
LEMMA GoogleShape ==
  ASSUME IInv, [Next]_vars
  PROVE  /\ gmail' \in [Messages -> Labels \cup {"none", "gone"}]
         /\ history' \in Seq(Events) /\ Latest' \in Ids /\ kept' \in 0 .. Latest'
         /\ Latest <= Latest' /\ kept <= kept'
<1>0. /\ gmail \in [Messages -> Labels \cup {"none", "gone"}]
      /\ history \in Seq(Events) /\ Latest \in Ids /\ kept \in 0 .. Latest
  BY DEF IInv, Shape
<1>1. Latest \in Nat /\ kept \in Nat
  BY <1>0 DEF Ids
<1>2. ASSUME NEW m \in Messages, NEW kind \in Kinds, Latest < MaxHistory,
             history' = Append(history, [kind |-> kind, message |-> m])
      PROVE  history' \in Seq(Events) /\ Latest' \in Ids /\ Latest' = Latest + 1
  BY <1>0, <1>2 DEF Events, Latest, Ids
<1>3. ASSUME NEW m \in Messages, NEW kind \in Kinds, GmailChanges(m, kind)
      PROVE  gmail' \in [Messages -> Labels \cup {"none", "gone"}]
  BY <1>0, <1>3 DEF GmailChanges, Kinds, Labels
<1>4. ASSUME NEW m \in Messages, NEW label \in Labels, ActionMoves(m, label)
      PROVE  gmail' \in [Messages -> Labels \cup {"none", "gone"}]
  BY <1>0, <1>4 DEF ActionMoves
<1>5. (Latest' = Latest /\ history' = history) \/ kept' = kept
  BY KeptWriters DEF HistoryExpires, Latest
<1>6. /\ gmail' \in [Messages -> Labels \cup {"none", "gone"}]
      /\ history' \in Seq(Events) /\ Latest' \in Ids /\ Latest <= Latest'
  <2>1. CASE UNCHANGED <<gmail, history>>
    BY <1>0, <1>1, <2>1 DEF Latest
  <2>2. ASSUME NEW m \in Messages, NEW kind \in Kinds,
               GmailChanges(m, kind) \/ (kind \in Labels /\ ActionMoves(m, kind))
        PROVE  /\ gmail' \in [Messages -> Labels \cup {"none", "gone"}]
               /\ history' \in Seq(Events) /\ Latest' \in Ids /\ Latest <= Latest'
    <3>1. /\ Latest < MaxHistory
          /\ history' = Append(history, [kind |-> kind, message |-> m])
      BY <2>2 DEF GmailChanges, ActionMoves
    <3>2. history' \in Seq(Events) /\ Latest' \in Ids /\ Latest' = Latest + 1
      BY <1>2, <3>1
    <3> QED
      BY <1>1, <1>3, <1>4, <2>2, <3>2
  <2> QED
    BY <2>1, <2>2, GoogleWriters DEF Kinds
<1>7. kept' \in 0 .. Latest' /\ kept <= kept'
  BY <1>0, <1>1, <1>5, <1>6, KeptWriters DEF HistoryExpires, Ids
<1> QED
  BY <1>6, <1>7

(* The runs keep their shape.                                              *)
LEMMA RunShape ==
  ASSUME IInv, [Next]_vars
  PROVE  inc' \in [Runs -> RunStates]
<1>0. /\ inc \in [Runs -> RunStates] /\ Latest \in Ids /\ connects \in 0 .. MaxConnects
      /\ row.cursor \in Ids \cup {None} /\ queue \in QueueStates
  BY DEF IInv, Shape, RowStates
<1>1. IdleRun \in RunStates
  BY DEF IdleRun, RunStates, Ids
<1>2. ASSUME NEW r \in Runs, NEW run \in RunStates, inc' = [inc EXCEPT ![r] = run]
      PROVE  inc' \in [Runs -> RunStates]
  BY <1>0, <1>2
<1>3. ASSUME NEW r \in Runs, IncStart(r) PROVE inc' \in [Runs -> RunStates]
  <2> DEFINE from == IF Ahead(row.cursor, queue.waiting) THEN row.cursor ELSE queue.waiting
             run == [IdleRun EXCEPT !.pc = "page", !.payload = queue.waiting,
                       !.connect = connects, !.from = from]
  <2>1. queue.waiting \in Ids /\ from \in Ids
    BY <1>0, <1>3 DEF IncStart, QueueStates, Ahead
  <2> HIDE DEF from
  <2>2. run \in RunStates
    BY <1>0, <1>1, <2>1 DEF RunStates
  <2>3. inc' = inc \/ inc' = [inc EXCEPT ![r] = run]
    BY <1>3 DEF IncStart, from
  <2> QED
    BY <1>0, <1>2, <2>2, <2>3
<1>4. ASSUME NEW r \in Runs, IncPage(r) PROVE inc' \in [Runs -> RunStates]
  <2>1. /\ [inc[r] EXCEPT !.pc = "expired"] \in RunStates
        /\ [inc[r] EXCEPT !.pc = "lock", !.to = Latest] \in RunStates
    BY <1>0 DEF RunStates
  <2>2. \/ inc' = [inc EXCEPT ![r] = [inc[r] EXCEPT !.pc = "expired"]]
        \/ inc' = [inc EXCEPT ![r] = [inc[r] EXCEPT !.pc = "lock", !.to = Latest]]
    BY <1>4 DEF IncPage
  <2> QED
    BY <1>2, <2>1, <2>2
<1>5. ASSUME NEW r \in Runs, IncLock(r) PROVE inc' \in [Runs -> RunStates]
  <2>1. [inc[r] EXCEPT !.pc = "apply", !.pos = inc[r].from] \in RunStates
    BY <1>0 DEF RunStates
  <2>2. ASSUME row.cursor \in Ids, inc[r].restarts < MaxRestarts
        PROVE  [inc[r] EXCEPT !.pc = "page", !.from = row.cursor, !.restarts = @ + 1] \in RunStates
    <3>1. inc[r].restarts + 1 \in 0 .. MaxRestarts
      BY <1>0, <2>2 DEF RunStates
    <3> QED
      BY <1>0, <2>2, <3>1 DEF RunStates
  <2>3. ~ Revalidated(r) => row.cursor \in Ids
    BY <1>0 DEF Revalidated, Ahead
  <2>4. \/ inc' = [inc EXCEPT ![r] = [inc[r] EXCEPT !.pc = "apply", !.pos = inc[r].from]]
        \/ /\ row.cursor \in Ids /\ inc[r].restarts < MaxRestarts
           /\ inc' = [inc EXCEPT ![r] = [inc[r] EXCEPT !.pc = "page", !.from = row.cursor,
                                                       !.restarts = @ + 1]]
        \/ inc' = [inc EXCEPT ![r] = IdleRun]
    BY <1>5, <2>3 DEF IncLock
  <2> QED
    BY <1>1, <1>2, <2>1, <2>2, <2>4
<1>6. ASSUME NEW r \in Runs, IncApply(r) PROVE inc' \in [Runs -> RunStates]
  <2>1. inc[r].pos + 1 \in Ids
    BY <1>0, <1>6 DEF IncApply, RunStates, Ids
  <2>2. [inc[r] EXCEPT !.pos = @ + 1] \in RunStates
    BY <1>0, <2>1 DEF RunStates
  <2>3. inc' = [inc EXCEPT ![r] = [inc[r] EXCEPT !.pos = @ + 1]]
    BY <1>6 DEF IncApply
  <2> QED
    BY <1>2, <2>2, <2>3
<1>7. ASSUME NEW r \in Runs, IncAdvance(r) \/ IncExpired(r) \/ IncRefused(r) \/ IncFails(r)
      PROVE  inc' \in [Runs -> RunStates]
  BY <1>1, <1>2, <1>7 DEF IncAdvance, IncExpired, IncRefused, IncFails
<1> QED
  BY <1>0, <1>3, <1>4, <1>5, <1>6, <1>7, RunWriters DEF IncSteps

(* A scan keeps its shape, and so does its job.                            *)
LEMMA ScanShape ==
  ASSUME IInv, [Next]_vars
  PROVE  scan' \in [Scans -> ScanStates] /\ scanJob' \in Scans \cup {"none", "waiting"}
<1>0. /\ scan \in [Scans -> ScanStates] /\ scanJob \in Scans \cup {"none", "waiting"}
      /\ Latest \in Ids /\ row.cursor \in Ids \cup {None} /\ connects \in 0 .. MaxConnects
      /\ gmail \in [Messages -> Labels \cup {"none", "gone"}]
  BY DEF IInv, Shape, RowStates
<1>1. <<>> \in Fetched
  <2>1. <<>> \in [{} -> Labels]
    OBVIOUS
  <2> QED
    BY <2>1 DEF Fetched
<1>2. IdleScan \in ScanStates
  BY <1>1 DEF IdleScan, ScanStates, ScanPoints, Ids
<1>3. ASSUME NEW s \in Scans, NEW run \in ScanStates, scan' = [scan EXCEPT ![s] = run]
      PROVE  scan' \in [Scans -> ScanStates]
  BY <1>0, <1>3
<1>4. ASSUME NEW s \in Scans, NEW next \in {"none", "waiting"}, EndScan(s, next)
      PROVE  scan' \in [Scans -> ScanStates] /\ scanJob' \in Scans \cup {"none", "waiting"}
  BY <1>0, <1>2, <1>3, <1>4 DEF EndScan
<1>5. ASSUME NEW s \in Scans, ScanStart(s)
      PROVE  scan' \in [Scans -> ScanStates] /\ scanJob' \in Scans \cup {"none", "waiting"}
  <2>1. [IdleScan EXCEPT !.pc = "snapshot", !.connect = connects] \in ScanStates
    BY <1>0, <1>2 DEF ScanStates, ScanPoints
  <2> QED
    BY <1>0, <1>3, <1>5, <2>1 DEF ScanStart
<1>6. ASSUME NEW s \in Scans, ScanSnapshot(s)
      PROVE  scan' \in [Scans -> ScanStates] /\ scanJob' \in Scans \cup {"none", "waiting"}
  <2>1. Snapshot \in Ids
    BY <1>0 DEF Snapshot
  <2> DEFINE run == [scan[s] EXCEPT !.pc = "list", !.snapshot = Snapshot]
  <2>2. run \in ScanStates
    <3>1. scan[s] \in ScanStates
      BY <1>0
    <3> QED
      BY <2>1, <3>1 DEF ScanStates, ScanPoints
  <2>3. CASE Owns(s)
    <3>1. scan' = [scan EXCEPT ![s] = run] /\ scanJob' = scanJob
      BY <1>6, <2>3 DEF ScanSnapshot
    <3> HIDE DEF run
    <3>2. scan' \in [Scans -> ScanStates]
      BY <1>3, <2>2, <3>1
    <3> QED
      BY <1>0, <3>1, <3>2
  <2> QED
    BY <1>4, <1>6, <2>3 DEF ScanSnapshot
<1>7. ASSUME NEW s \in Scans, ScanList(s) PROVE scan' \in [Scans -> ScanStates]
  <2> DEFINE listed == {m \in Messages : gmail[m] \in Labels}
             run == [scan[s] EXCEPT !.pc = "reconcile", !.listedAt = Latest, !.listed = listed]
  <2>1. listed \in SUBSET Messages
    OBVIOUS
  <2>2. scan' = [scan EXCEPT ![s] = run]
    BY <1>7 DEF ScanList
  <2> HIDE DEF listed
  <2>3. run \in ScanStates
    <3>1. scan[s] \in ScanStates /\ Latest \in Ids
      BY <1>0
    <3> QED
      BY <2>1, <3>1 DEF ScanStates, ScanPoints
  <2> HIDE DEF run
  <2> QED
    BY <1>3, <2>2, <2>3
<1>8. ASSUME NEW s \in Scans, ScanReconcile(s) PROVE scan' \in [Scans -> ScanStates]
  <2> DEFINE todo == scan[s].listed \ Skipped(s)
             run == [scan[s] EXCEPT !.pc = "fetch", !.todo = todo]
  <2>1. todo \in SUBSET Messages
    BY <1>0 DEF ScanStates
  <2>2. scan' = [scan EXCEPT ![s] = run]
    BY <1>8 DEF ScanReconcile
  <2> HIDE DEF todo
  <2>3. run \in ScanStates
    <3>1. scan[s] \in ScanStates
      BY <1>0
    <3> QED
      BY <2>1, <3>1 DEF ScanStates, ScanPoints
  <2> HIDE DEF run
  <2> QED
    BY <1>3, <2>2, <2>3
<1>9. ASSUME NEW s \in Scans, ScanFetch(s) PROVE scan' \in [Scans -> ScanStates]
  <2>1. PICK chunk \in SUBSET scan[s].todo :
          scan' = [scan EXCEPT ![s].pc = "flush", ![s].todo = @ \ chunk, ![s].fetchedAt = Latest,
                    ![s].fetched = [m \in {m \in chunk : gmail[m] \in Labels} |-> gmail[m]]]
    BY <1>9 DEF ScanFetch
  <2> DEFINE fetched == [m \in {m \in chunk : gmail[m] \in Labels} |-> gmail[m]]
             run == [scan[s] EXCEPT !.pc = "flush", !.todo = @ \ chunk, !.fetchedAt = Latest,
                                    !.fetched = fetched]
  <2>2. scan[s].todo \in SUBSET Messages
    BY <1>0 DEF ScanStates
  <2>3. fetched \in Fetched
    <3>1. {m \in chunk : gmail[m] \in Labels} \in SUBSET Messages
      BY <2>2
    <3>2. fetched \in [{m \in chunk : gmail[m] \in Labels} -> Labels]
      OBVIOUS
    <3> QED
      BY <3>1, <3>2 DEF Fetched
  <2>4. scan' = [scan EXCEPT ![s] = run]
    BY <2>1
  <2> HIDE DEF fetched
  <2>5. run \in ScanStates
    <3>1. scan[s] \in ScanStates /\ scan[s].todo \ chunk \in SUBSET Messages
      BY <1>0, <2>2
    <3> QED
      BY <1>0, <2>3, <3>1 DEF ScanStates, ScanPoints
  <2> HIDE DEF run
  <2> QED
    BY <1>3, <2>4, <2>5
<1>10. ASSUME NEW s \in Scans, ScanFlush(s) PROVE scan' \in [Scans -> ScanStates]
  <2> DEFINE run == [scan[s] EXCEPT !.pc = "fetch", !.fetched = <<>>]
  <2>1. run \in ScanStates
    <3>1. scan[s] \in ScanStates
      BY <1>0
    <3> QED
      BY <1>1, <3>1 DEF ScanStates, ScanPoints
  <2>2. scan' = [scan EXCEPT ![s] = run]
    BY <1>10 DEF ScanFlush
  <2> HIDE DEF run
  <2> QED
    BY <1>3, <2>1, <2>2
<1>11. ASSUME NEW s \in Scans, ScanReady(s) \/ ScanRefused(s) \/ ScanFails(s)
       PROVE  scan' \in [Scans -> ScanStates] /\ scanJob' \in Scans \cup {"none", "waiting"}
  BY <1>4, <1>11 DEF ScanReady, ScanRefused, ScanFails
<1>12. ASSUME NEW s \in Scans,
              ScanList(s) \/ ScanReconcile(s) \/ ScanFetch(s) \/ ScanFlush(s) \/ ScanStalls(s)
       PROVE  scan' \in [Scans -> ScanStates] /\ scanJob' \in Scans \cup {"none", "waiting"}
  BY <1>0, <1>7, <1>8, <1>9, <1>10, <1>12
     DEF ScanList, ScanReconcile, ScanFetch, ScanFlush, ScanStalls
<1>13. ASSUME Reconcile \/ Retry \/ Connect \/ \E r \in Runs : IncExpired(r)
       PROVE  scanJob' \in Scans \cup {"none", "waiting"}
  BY <1>0, <1>13 DEF Reconcile, Retry, Connect, IncExpired, Scheduled
<1> QED
  BY <1>0, <1>5, <1>6, <1>11, <1>12, <1>13, ScanWriters DEF ScanSteps

(* The mirror keeps its shape.                                             *)
LEMMA MirrorShape ==
  ASSUME IInv, [Next]_vars
  PROVE  mirror' \in [Messages -> Labels \cup {"none"}]
<1>0. /\ mirror \in [Messages -> Labels \cup {"none"}] /\ scan \in [Scans -> ScanStates]
  BY DEF IInv, Shape
<1>1. ASSUME NEW event PROVE Applied(event) \in [Messages -> Labels \cup {"none"}]
  BY <1>0 DEF Applied
<1>2. ASSUME NEW s \in Scans, ScanFlush(s) PROVE mirror' \in [Messages -> Labels \cup {"none"}]
  <2>1. scan[s].fetched \in Fetched
    BY <1>0 DEF ScanStates
  <2>2. \A m \in DOMAIN scan[s].fetched : scan[s].fetched[m] \in Labels
    BY <2>1 DEF Fetched
  <2> QED
    BY <1>0, <1>2, <2>2 DEF ScanFlush
<1>3. ASSUME NEW s \in Scans, ScanReconcile(s) PROVE mirror' \in [Messages -> Labels \cup {"none"}]
  BY <1>0, <1>3 DEF ScanReconcile
<1>4. ASSUME NEW m \in Messages, NEW label \in Labels, ActionMoves(m, label)
      PROVE  mirror' \in [Messages -> Labels \cup {"none"}]
  BY <1>0, <1>4 DEF ActionMoves
<1> QED
  BY <1>0, <1>1, <1>2, <1>3, <1>4, MirrorWriters DEF IncApply
(* Grants are counted, and only a grant that was given is revoked.         *)
LEMMA AccountShape ==
  ASSUME IInv, [Next]_vars
  PROVE  /\ connects' \in 0 .. MaxConnects /\ bad' \subseteq 0 .. connects'
         /\ connects <= connects' /\ bad \subseteq bad'
<1>0. connects \in 0 .. MaxConnects /\ bad \subseteq 0 .. connects
  BY DEF IInv, Shape
<1> QED
  BY <1>0, AccountWriters DEF GrantRevoked, Connect

(* Every step keeps the shape of the state.                                *)
LEMMA ShapeStep ==
  ASSUME IInv, [Next]_vars
  PROVE  Shape'
  BY RowShape, QueueShape, GoogleShape, RunShape, ScanShape, MirrorShape, AccountShape DEF Shape

-------------------------------------------------------------------------------
(* What runs and scans rely on.                                            *)

(* Expired ids stay expired, and replaced grants stay replaced.            *)
LEMMA Forward ==
  ASSUME IInv, [Next]_vars
  PROVE  /\ kept \in Nat /\ kept' \in Nat /\ kept <= kept'
         /\ connects \in Nat /\ connects' \in Nat /\ connects <= connects'
         /\ \A r \in Runs : inc[r].from \in Nat /\ inc[r].connect \in Nat /\ None # r
<1>1. /\ kept \in Nat /\ kept' \in Nat /\ kept <= kept'
      /\ connects \in Nat /\ connects' \in Nat /\ connects <= connects'
  BY GoogleShape, AccountShape, SMTT(30) DEF IInv, Shape, Ids
<1>2. ASSUME NEW r \in Runs PROVE inc[r].from \in Nat /\ inc[r].connect \in Nat
  BY SMTT(30) DEF IInv, Shape, RunStates, Ids
<1> QED
  BY <1>1, <1>2

(* A run that does not step keeps what it relies on.                       *)
LEMMA RunStands ==
  ASSUME IInv, [Next]_vars, NEW r \in Runs, inc'[r] = inc[r],
         lock' = lock \/ (lock # r /\ lock' # r)
  PROVE  RunInv(r)'
<1>1. RunInv(r)
  BY DEF IInv
<1> QED
  BY <1>1, Forward DEF RunInv

(* An idle run relies on nothing, as long as it does not hold the lock.    *)
LEMMA RunIdles ==
  ASSUME IInv, [Next]_vars, NEW r \in Runs, inc' = [inc EXCEPT ![r] = IdleRun], lock' # r
  PROVE  RunInv(r)'
<1>1. inc'[r] = IdleRun
  BY DEF IInv, Shape
<1>2. inc'[r].pc = "idle" /\ inc'[r].connect = 0
  BY <1>1 DEF IdleRun
<1> QED
  BY <1>2, Forward DEF RunInv

(* Runs know nothing but what the log still says, or has ceased to say.    *)
LEMMA RunStep ==
  ASSUME IInv, [Next]_vars
  PROVE  \A r \in Runs : RunInv(r)'
<1>0. /\ inc \in [Runs -> RunStates] /\ connects \in Nat /\ kept \in Nat
      /\ \A r \in Runs : RunInv(r) /\ inc[r].from \in Nat /\ None # r
  BY Forward DEF IInv, Shape
<1>1. CASE inc' = inc /\ lock' = lock
  BY <1>1, RunStands
<1>2. ASSUME NEW r \in Runs, IncSteps(r) \/ IncFails(r) PROVE \A q \in Runs : RunInv(q)'
  <2>1. ASSUME NEW q \in Runs \ {r} PROVE RunInv(q)'
    <3>1. inc'[q] = inc[q]
      BY <1>0, <1>2 DEF IncSteps, IncStart, IncPage, IncLock, IncApply, IncAdvance, IncExpired,
                        IncRefused, IncFails
    <3>2. lock' = lock \/ (lock # q /\ lock' # q)
      BY <1>0, <1>2 DEF IncSteps, IncStart, IncPage, IncLock, IncApply, IncAdvance, IncExpired,
                        IncRefused, IncFails, Released, RunInv
    <3> QED
      BY <3>1, <3>2, RunStands
  <2>0. /\ RunInv(r) /\ inc[r].from \in Nat /\ inc[r].connect \in Nat /\ connects \in Nat
        /\ inc[r] \in RunStates /\ None # r
    BY <1>0, Forward
  <2>2. ASSUME IncStart(r) PROVE RunInv(r)'
    <3>1. lock' = lock /\ connects' = connects
      BY <2>2 DEF IncStart
    <3>2. CASE inc' = inc
      BY <3>1, <3>2, RunStands
    <3>3. CASE inc' # inc
      <4> DEFINE from == IF Ahead(row.cursor, queue.waiting) THEN row.cursor ELSE queue.waiting
                 run == [IdleRun EXCEPT !.pc = "page", !.payload = queue.waiting,
                           !.connect = connects, !.from = from]
      <4>1. r = Free(inc) /\ inc' = [inc EXCEPT ![r] = run]
        BY <2>2, <3>3 DEF IncStart
      <4>2. inc[r].pc = "idle"
        BY <1>0, <4>1, <2>0 DEF Free
      <4> HIDE DEF from
      <4>3. run.pc = "page" /\ run.connect = connects
        BY DEF IdleRun
      <4>4. inc'[r].pc = "page" /\ inc'[r].connect = connects
        BY <1>0, <4>1, <4>3
      <4> QED
        BY <2>0, <3>1, <4>2, <4>4 DEF RunInv
    <3> QED
      BY <3>2, <3>3
  <2>3. ASSUME IncPage(r) PROVE RunInv(r)'
    <3>1. /\ lock' = lock /\ connects' = connects /\ kept' = kept /\ inc[r].pc = "page"
      BY <2>3 DEF IncPage
    <3>2. /\ inc'[r].pc = IF inc[r].from < kept THEN "expired" ELSE "lock"
          /\ inc'[r].from = inc[r].from /\ inc'[r].connect = inc[r].connect
      BY <1>0, <2>3 DEF IncPage, RunStates
    <3> QED
      BY <2>0, <3>1, <3>2 DEF RunInv
  <2>4. ASSUME IncLock(r) PROVE RunInv(r)'
    <3>1. connects' = connects /\ kept' = kept /\ lock = None /\ inc[r].pc = "lock"
      BY <2>4 DEF IncLock
    <3>2. CASE inc' = [inc EXCEPT ![r] = IdleRun] /\ lock' = lock
      BY <2>0, <3>1, <3>2, RunIdles
    <3>3. CASE lock' = r /\ inc' = [inc EXCEPT ![r].pc = "apply", ![r].pos = inc[r].from]
      <4>1. inc'[r].pc = "apply" /\ inc'[r].connect = inc[r].connect
        BY <1>0, <3>3 DEF RunStates
      <4> QED
        BY <2>0, <3>1, <3>3, <4>1 DEF RunInv
    <3>4. CASE /\ lock' = lock
               /\ inc' = [inc EXCEPT ![r].pc = "page", ![r].from = row.cursor, ![r].restarts = @ + 1]
      <4>1. inc'[r].pc = "page" /\ inc'[r].connect = inc[r].connect
        BY <1>0, <3>4 DEF RunStates
      <4> QED
        BY <2>0, <3>1, <3>4, <4>1 DEF RunInv
    <3> QED
      BY <2>4, <3>2, <3>3, <3>4 DEF IncLock
  <2>5. ASSUME IncApply(r) PROVE RunInv(r)'
    <3>1. connects' = connects /\ kept' = kept /\ lock' = lock
      BY <2>5 DEF IncApply
    <3>2. inc'[r].pc = inc[r].pc /\ inc'[r].from = inc[r].from /\ inc'[r].connect = inc[r].connect
      BY <1>0, <2>5 DEF IncApply, RunStates
    <3> QED
      BY <2>0, <3>1, <3>2 DEF RunInv
  <2>6. ASSUME IncAdvance(r) \/ IncExpired(r) \/ IncRefused(r) \/ IncFails(r)
        PROVE  RunInv(r)'
    <3>1. inc' = [inc EXCEPT ![r] = IdleRun]
      BY <2>6 DEF IncAdvance, IncExpired, IncRefused, IncFails
    <3>2. lock' # r
      BY <1>0, <2>6 DEF IncAdvance, IncExpired, IncRefused, IncFails, Released, RunInv
    <3> QED
      BY <2>0, <3>1, <3>2, RunIdles
  <2>7. RunInv(r)'
    BY <1>2, <2>2, <2>3, <2>4, <2>5, <2>6 DEF IncSteps
  <2> QED
    BY <2>1, <2>7
<1> QED
  BY <1>1, <1>2, RunWriters
(* The row's attempt is cleared, or taken by a scan that starts.           *)
LEMMA AttemptMoves ==
  ASSUME IInv, [Next]_vars
  PROVE  \/ row'.attempt \in {row.attempt, None}
         \/ \E s \in Scans : ScanStart(s) /\ row'.attempt = s
<1>0. row \in RowStates
  BY DEF IInv, Shape
<1>1. ASSUME NEW r \in Runs, IncAdvance(r) PROVE row'.attempt = row.attempt
  <2> DEFINE cursor == Advanced(inc[r].to)
  <2>1. row' = [row EXCEPT !.cursor = cursor, !.awaiting = FALSE]
    BY <1>1 DEF IncAdvance
  <2> HIDE DEF cursor
  <2> QED
    BY <1>0, <2>1 DEF RowStates
<1>2. ASSUME NEW r \in Runs, IncExpired(r) \/ IncRefused(r)
      PROVE  row'.attempt \in {row.attempt, None}
  BY <1>0, <1>2 DEF IncExpired, IncRefused, Rebased, RowStates
<1>3. ASSUME NEW s \in Scans, ScanStart(s)
      PROVE  row'.attempt = row.attempt \/ row'.attempt = s
  BY <1>0, <1>3 DEF ScanStart, RowStates
<1>4. ASSUME NEW s \in Scans, ScanSnapshot(s) PROVE row'.attempt = row.attempt
  BY <1>0, <1>4 DEF ScanSnapshot, RowStates
<1>5. ASSUME NEW s \in Scans, ScanReady(s) PROVE row'.attempt \in {row.attempt, None}
  <2> DEFINE cursor == Advanced(scan[s].snapshot)
  <2>1. \/ row' = row
        \/ row' = [row EXCEPT !.readiness = "ready", !.cursor = cursor, !.attempt = None,
                              !.recoveries = 0, !.awaiting = FALSE]
    BY <1>5 DEF ScanReady
  <2> HIDE DEF cursor
  <2> QED
    BY <1>0, <2>1 DEF RowStates
<1>6. ASSUME NEW s \in Scans, ScanRefused(s) \/ ScanFails(s) PROVE row'.attempt = row.attempt
  BY <1>0, <1>6 DEF ScanRefused, ScanFails, Terminal, RowStates
<1>7. ASSUME Reconcile \/ Retry \/ Connect PROVE row'.attempt \in {row.attempt, None}
  BY <1>0, <1>7 DEF Reconcile, Retry, Connect, RowStates
<1> QED
  BY <1>1, <1>2, <1>3, <1>4, <1>5, <1>6, <1>7, RowWriters

(* A scan keeps the grant it began with.                                   *)
LEMMA ScanKeepsGrant ==
  ASSUME IInv, [Next]_vars, NEW s \in Scans
  PROVE  \/ ScanStart(s) /\ (scan'[s].pc # "idle" => scan'[s].connect = connects)
         \/ scan'[s].pc # "idle" => scan[s].pc # "idle" /\ scan'[s].connect = scan[s].connect
<1>0. scan \in [Scans -> ScanStates] /\ scan[s] \in ScanStates
  BY DEF IInv, Shape
<1>1. ASSUME NEW z \in Scans, ScanSteps(z) \/ ScanFails(z) \/ ScanStalls(z), z # s
      PROVE  scan'[s] = scan[s]
  BY <1>0, <1>1 DEF ScanSteps, ScanStart, ScanSnapshot, ScanList, ScanReconcile, ScanFetch,
                    ScanFlush, ScanReady, ScanRefused, ScanFails, ScanStalls, EndScan
<1>2. ASSUME ScanStart(s)
      PROVE  scan'[s].pc # "idle" => scan'[s].connect = connects
  <2>1. scan[s].pc = "idle"
    <3>1. Free(scan) = s /\ s # None
      BY <1>2 DEF ScanStart
    <3> QED
      BY <1>0, <3>1 DEF Free
  <2>2. \/ scan' = scan
        \/ scan'[s] = [IdleScan EXCEPT !.pc = "snapshot", !.connect = connects]
    BY <1>0, <1>2 DEF ScanStart
  <2> QED
    BY <2>1, <2>2 DEF IdleScan
<1>3. ASSUME NEW next, EndScan(s, next) PROVE scan'[s].pc = "idle"
  BY <1>0, <1>3 DEF EndScan, IdleScan
<1>4. ASSUME ScanSnapshot(s) \/ ScanReady(s) \/ ScanRefused(s) \/ ScanFails(s)
      PROVE  scan'[s].pc # "idle" => scan[s].pc # "idle" /\ scan'[s].connect = scan[s].connect
  <2>1. CASE ScanSnapshot(s) /\ Owns(s)
    BY <1>0, <2>1 DEF ScanSnapshot, ScanStates
  <2>2. CASE ~ (ScanSnapshot(s) /\ Owns(s))
    BY <1>3, <1>4, <2>2 DEF ScanSnapshot, ScanReady, ScanRefused, ScanFails
  <2> QED
    BY <2>1, <2>2
<1>5. ASSUME ScanList(s) \/ ScanReconcile(s) \/ ScanFlush(s)
      PROVE  scan'[s].pc # "idle" => scan[s].pc # "idle" /\ scan'[s].connect = scan[s].connect
  BY <1>0, <1>5 DEF ScanList, ScanReconcile, ScanFlush, ScanStates
<1>6. ASSUME ScanFetch(s)
      PROVE  scan'[s].pc # "idle" => scan[s].pc # "idle" /\ scan'[s].connect = scan[s].connect
  <2>1. PICK chunk, fetched :
          scan' = [scan EXCEPT ![s].pc = "flush", ![s].todo = @ \ chunk, ![s].fetchedAt = Latest,
                               ![s].fetched = fetched]
    BY <1>6 DEF ScanFetch
  <2>2. scan[s].pc = "fetch"
    BY <1>6 DEF ScanFetch
  <2> QED
    BY <1>0, <2>1, <2>2 DEF ScanStates
<1>7. ASSUME scan' = scan
      PROVE  scan'[s].pc # "idle" => scan[s].pc # "idle" /\ scan'[s].connect = scan[s].connect
  BY <1>7
<1>8. ASSUME ScanStalls(s) PROVE scan' = scan
  BY <1>8 DEF ScanStalls
<1> QED
  BY <1>1, <1>2, <1>4, <1>5, <1>6, <1>7, <1>8, ScanWriters DEF ScanSteps

(* A mailbox that is ready has no attempt; only a reconnect changes the    *)
(* grant, and it leaves the row with no attempt.                           *)
LEMMA NewGrant ==
  ASSUME IInv, [Next]_vars
  PROVE  connects' = connects \/ row'.attempt = None
<1>0. row \in RowStates /\ (row.readiness = "ready" => row.attempt = None)
  BY DEF IInv, Shape, RowInv
<1>1. ASSUME Connect PROVE row'.attempt = None
  <2>1. CASE row.readiness = "ready" /\ row.cursor # None
    <3>1. row' = [row EXCEPT !.awaiting = FALSE]
      BY <1>1, <2>1 DEF Connect
    <3> QED
      BY <1>0, <2>1, <3>1 DEF RowStates
  <2>2. CASE ~ (row.readiness = "ready" /\ row.cursor # None)
    <3>1. row' = [row EXCEPT !.readiness = "queued", !.attempt = None, !.recoveries = 0,
                             !.awaiting = FALSE]
      BY <1>1, <2>2 DEF Connect
    <3> QED
      BY <1>0, <3>1 DEF RowStates
  <2> QED
    BY <2>1, <2>2
<1> QED
  BY <1>1, AccountWriters DEF GrantRevoked

(* The scan that owns the row's attempt runs under the grant of today.     *)
LEMMA ScanStep ==
  ASSUME IInv, [Next]_vars
  PROVE  \A s \in Scans : ScanInv(s)'
<1> SUFFICES ASSUME NEW s \in Scans, row'.attempt = s, scan'[s].pc # "idle"
             PROVE  scan'[s].connect = connects'
  BY DEF ScanInv
<1>1. ScanInv(s) /\ None # s
  BY DEF IInv
<1>2. connects' = connects
  BY <1>1, NewGrant
<1>3. row.attempt = s \/ ScanStart(s)
  <2>1. ASSUME NEW z \in Scans, row'.attempt = z PROVE z = s
    BY <2>1
  <2> QED
    BY <1>1, <2>1, AttemptMoves
<1>4. CASE ScanStart(s)
  <2>1. Free(scan) = s /\ scan \in [Scans -> ScanStates]
    BY <1>4 DEF ScanStart, IInv, Shape
  <2>2. scan[s].pc = "idle"
    BY <1>1, <2>1 DEF Free
  <2> QED
    BY <1>2, <2>2, ScanKeepsGrant
<1>5. CASE ~ ScanStart(s)
  BY <1>1, <1>2, <1>3, <1>5, ScanKeepsGrant DEF ScanInv
<1> QED
  BY <1>4, <1>5

(* The gate is closed by a run or scan whose grant is the one in use, and  *)
(* by nothing else; it opens before the mailbox is ready again.            *)
LEMMA RowStep ==
  ASSUME IInv, [Next]_vars
  PROVE  RowInv'
<1>0. /\ row \in RowStates /\ RowInv /\ bad \subseteq bad'
      /\ \A r \in Runs : inc[r].connect \in Nat /\ inc[r].connect <= connects
      /\ connects \in Nat
  BY AccountShape, Forward DEF IInv, Shape, RunInv
<1> DEFINE Gate == row.readiness = "needs_reconnect" \/ row.awaiting
<1>1. Gate => connects \in bad
  BY <1>0 DEF RowInv, GateIsTrue, Awaiting
<1>3. ASSUME row' = row, connects' = connects PROVE RowInv'
  BY <1>0, <1>1, <1>3 DEF RowInv, GateIsTrue, Awaiting
<1>4. ASSUME Connect PROVE RowInv'
  <2>1. row'.awaiting = FALSE /\ row'.readiness \in {"ready", "queued"}
    BY <1>0, <1>4 DEF Connect, RowStates
  <2>2. row'.readiness = "ready" => row.readiness = "ready" /\ row'.attempt = row.attempt
    BY <1>0, <1>4 DEF Connect, RowStates
  <2> QED
    BY <1>0, <2>1, <2>2 DEF RowInv, GateIsTrue, Awaiting
<1>5. ASSUME ~ Connect PROVE connects' = connects
  BY <1>5, AccountWriters DEF GrantRevoked
<1>6. ASSUME NEW r \in Runs, IncAdvance(r) PROVE RowInv'
  <2> DEFINE cursor == Advanced(inc[r].to)
  <2>1. row' = [row EXCEPT !.cursor = cursor, !.awaiting = FALSE]
    BY <1>6 DEF IncAdvance
  <2> HIDE DEF cursor
  <2>2. row'.awaiting = FALSE /\ row'.readiness = row.readiness /\ row'.attempt = row.attempt
    BY <1>0, <2>1 DEF RowStates
  <2>3. connects' = connects
    BY <1>6 DEF IncAdvance
  <2> QED
    BY <1>0, <1>1, <2>2, <2>3 DEF RowInv, GateIsTrue, Awaiting
<1>7. ASSUME NEW r \in Runs, IncExpired(r) PROVE RowInv'
  <2>1. connects' = connects /\ bad' = bad
    BY <1>7 DEF IncExpired
  <2>2. row' = row \/ (row'.readiness = "queued" /\ row'.awaiting = FALSE)
    BY <1>0, <1>7 DEF IncExpired, Rebased, RowStates
  <2> QED
    BY <1>0, <2>1, <2>2 DEF RowInv, GateIsTrue, Awaiting
<1>8. ASSUME NEW r \in Runs, IncRefused(r) PROVE RowInv'
  <2>1. connects' = connects /\ bad' = bad /\ inc[r].connect \in bad
    BY <1>8 DEF IncRefused
  <2>2. CASE row' = row
    BY <1>0, <2>1, <2>2 DEF RowInv, GateIsTrue, Awaiting
  <2>3. CASE row' # row
    <3>1. ~ (connects > inc[r].connect) /\ row' = [row EXCEPT !.awaiting = TRUE]
      BY <1>8, <2>3 DEF IncRefused, Superseded
    <3>2. connects = inc[r].connect
      BY <1>0, <3>1
    <3>3. row'.readiness = row.readiness /\ row'.attempt = row.attempt
      BY <1>0, <3>1 DEF RowStates
    <3> QED
      BY <1>0, <2>1, <3>2, <3>3 DEF RowInv, GateIsTrue, Awaiting
  <2> QED
    BY <2>2, <2>3
<1>9. ASSUME NEW s \in Scans, ScanStart(s) PROVE RowInv'
  <2>1. connects' = connects /\ bad' = bad
    BY <1>9 DEF ScanStart
  <2>2. \/ row' = row
        \/ row.awaiting /\ row' = [row EXCEPT !.readiness = "needs_reconnect"]
        \/ ~ row.awaiting /\ row' = [row EXCEPT !.readiness = "syncing", !.attempt = s]
    BY <1>9 DEF ScanStart, Awaiting
  <2> QED
    BY <1>0, <2>1, <2>2 DEF RowInv, GateIsTrue, Awaiting, RowStates
<1>10. ASSUME NEW s \in Scans, ScanSnapshot(s) PROVE RowInv'
  <2>1. connects' = connects /\ bad' = bad
    BY <1>10 DEF ScanSnapshot
  <2>2. row' = row \/ row' = [row EXCEPT !.cursor = Snapshot]
    BY <1>10 DEF ScanSnapshot
  <2>3. row'.readiness = row.readiness /\ row'.awaiting = row.awaiting /\ row'.attempt = row.attempt
    BY <1>0, <2>2 DEF RowStates
  <2> QED
    BY <1>0, <2>1, <2>3 DEF RowInv, GateIsTrue, Awaiting
<1>11. ASSUME NEW s \in Scans, ScanReady(s) PROVE RowInv'
  <2> DEFINE cursor == Advanced(scan[s].snapshot)
  <2>1. connects' = connects /\ bad' = bad
    BY <1>11 DEF ScanReady
  <2>2. \/ row' = row
        \/ row' = [row EXCEPT !.readiness = "ready", !.cursor = cursor, !.attempt = None,
                              !.recoveries = 0, !.awaiting = FALSE]
    BY <1>11 DEF ScanReady
  <2> HIDE DEF cursor
  <2>3. row' = row \/ (row'.readiness = "ready" /\ row'.attempt = None /\ row'.awaiting = FALSE)
    BY <1>0, <2>2 DEF RowStates
  <2> QED
    BY <1>0, <2>1, <2>3 DEF RowInv, GateIsTrue, Awaiting
<1>12. ASSUME NEW s \in Scans, ScanRefused(s) PROVE RowInv'
  <2>1. connects' = connects /\ bad' = bad /\ scan[s].connect \in bad /\ scan[s].pc # "idle"
    BY <1>12 DEF ScanRefused
  <2>2. CASE row' = row
    BY <1>0, <2>1, <2>2 DEF RowInv, GateIsTrue, Awaiting
  <2>3. CASE row' # row
    <3>1. row.attempt = s
      BY <1>12, <2>3 DEF ScanRefused, Terminal, Owns
    <3>2. scan[s].connect = connects
      BY <2>1, <3>1 DEF IInv, ScanInv
    <3>3. row'.readiness = "needs_reconnect"
      BY <1>0, <1>12, <2>3 DEF ScanRefused, Terminal, RowStates
    <3> QED
      BY <2>1, <3>2, <3>3 DEF RowInv, GateIsTrue
  <2> QED
    BY <2>2, <2>3
<1>13. ASSUME NEW s \in Scans, ScanFails(s) PROVE RowInv'
  <2>1. connects' = connects /\ bad' = bad
    BY <1>13 DEF ScanFails
  <2>2. row' = row \/ (row'.readiness = "failed" /\ row'.awaiting = row.awaiting)
    BY <1>0, <1>13 DEF ScanFails, Terminal, RowStates
  <2> QED
    BY <1>0, <2>1, <2>2 DEF RowInv, GateIsTrue, Awaiting
<1>14. ASSUME Reconcile \/ Retry PROVE RowInv'
  <2>1. connects' = connects /\ bad' = bad
    BY <1>14 DEF Reconcile, Retry
  <2>2. \/ row' = row
        \/ row.awaiting /\ row'.readiness = "needs_reconnect"
        \/ row'.readiness = "queued" /\ row'.awaiting = row.awaiting
    BY <1>0, <1>14 DEF Reconcile, Retry, Awaiting, RowStates
  <2> QED
    BY <1>0, <2>1, <2>2 DEF RowInv, GateIsTrue, Awaiting
<1> QED
  BY <1>3, <1>4, <1>5, <1>6, <1>7, <1>8, <1>9, <1>10, <1>11, <1>12, <1>13, <1>14,
     RowWriters

(* The invariant is inductive.                                             *)
LEMMA NextIInv ==
  ASSUME IInv, [Next]_vars
  PROVE  IInv'
  BY ShapeStep, RunStep, ScanStep, RowStep DEF IInv

-------------------------------------------------------------------------------
(* The theorems.                                                           *)

(* The initial states satisfy the invariant.                               *)
LEMMA InitIInv == Init => IInv
<1> SUFFICES ASSUME Init PROVE IInv
  OBVIOUS
<1>1. /\ 0 \in Ids /\ 0 \in 0 .. MaxRestarts /\ 0 \in 0 .. MaxConnects /\ 0 \in 0 .. Limit
      /\ Latest = 0
  BY DEF Init, Ids, Latest
<1>2. gmail \in [Messages -> Labels \cup {"none", "gone"}] /\ mirror \in [Messages -> Labels \cup {"none"}]
  BY DEF Init, Labels
<1>3. row \in RowStates /\ queue \in QueueStates
  BY <1>1 DEF Init, RowStates, Readiness, QueueStates
<1>4. inc \in [Runs -> RunStates]
  BY <1>1 DEF Init, IdleRun, RunStates
<1>5. IdleScan \in ScanStates
  <2>1. <<>> \in [{} -> Labels]
    OBVIOUS
  <2>2. <<>> \in Fetched
    BY <2>1 DEF Fetched
  <2> QED
    BY <1>1, <2>2 DEF IdleScan, ScanStates, ScanPoints
<1>6. Shape
  BY <1>1, <1>2, <1>3, <1>4, <1>5 DEF Init, Shape
<1>7. RowInv
  BY DEF Init, RowInv, GateIsTrue, Awaiting
<1>8. \A r \in Runs : RunInv(r)
  BY DEF Init, RunInv, IdleRun
<1>9. \A s \in Scans : ScanInv(s)
  BY DEF Init, ScanInv
<1> QED
  BY <1>6, <1>7, <1>8, <1>9 DEF IInv

(* In every reachable state the state has its shape, and runs and scans    *)
(* know no more than what the mailbox is still like.                       *)
THEOREM Invariance == Spec => []IInv
<1>1. IInv /\ [Next]_vars => IInv'
  BY NextIInv
<1> QED
  BY <1>1, InitIInv, PTL DEF Spec

(* Every variable keeps its type, and the mailbox lock is held by the run  *)
(* that applies its pages, and by no other.                                *)
THEOREM TypeCorrect == Spec => []TypeOK
<1>1. IInv => TypeOK
  BY DEF IInv, Shape, RunInv, RowStates, QueueStates, TypeOK
<1> QED
  BY <1>1, Invariance, PTL

(* A mailbox behind the reconnect gate has a revoked grant, although runs  *)
(* and scans that began under an older grant report its refusal late.      *)
THEOREM GateCorrect == Spec => []GateIsTrue
<1>1. IInv => GateIsTrue
  BY DEF IInv, RowInv
<1> QED
  BY <1>1, Invariance, PTL

(* No step moves the cursor back, whichever of several stale runs or scans *)
(* takes it: only the recovery of a cursor that really expired clears it.  *)
THEOREM CursorCorrect == Spec => CursorNeverRewinds
<1> DEFINE Kept == row.cursor # None => \/ (row'.cursor # None /\ row'.cursor >= row.cursor)
                                       \/ (row'.cursor = None /\ row.cursor < kept)
<1>1. ASSUME IInv, [Next]_vars, row.cursor # None PROVE Kept
  <2>0. row \in RowStates /\ row.cursor \in Nat /\ row.cursor \in Ids /\ None \notin Nat /\ None \notin Ids
    BY <1>1 DEF IInv, Shape, RowStates, Ids
  <2>1. ASSUME row'.cursor = row.cursor PROVE Kept
    BY <2>0, <2>1
  <2>2. ASSUME NEW to \in Ids, row'.cursor = Advanced(to) PROVE Kept
    <3>1. Advanced(to) \in Ids /\ Advanced(to) >= row.cursor
      BY <1>1, AdvancedType DEF IInv
    <3> QED
      BY <2>0, <2>2, <3>1
  <2>3. ASSUME NEW r \in Runs, IncAdvance(r) PROVE Kept
    <3> DEFINE cursor == Advanced(inc[r].to)
    <3>1. row' = [row EXCEPT !.cursor = cursor, !.awaiting = FALSE]
      BY <2>3 DEF IncAdvance
    <3>2. inc[r].to \in Ids
      BY <1>1 DEF IInv, Shape, RunStates
    <3> HIDE DEF cursor
    <3>3. row'.cursor = cursor
      BY <2>0, <3>1 DEF RowStates
    <3> QED
      BY <2>2, <3>2, <3>3 DEF cursor
  <2>4. ASSUME NEW r \in Runs, IncExpired(r) PROVE Kept
    <3>1. CASE ~ Recovers(r)
      BY <2>1, <2>4, <3>1 DEF IncExpired
    <3>2. CASE Recovers(r)
      <4>1. row.cursor < kept
        BY <1>1, <2>4, <3>2 DEF IInv, RunInv, IncExpired, Recovers
      <4>2. row'.cursor = None
        BY <2>0, <2>4, <3>2 DEF IncExpired, Rebased, RowStates
      <4> QED
        BY <4>1, <4>2
    <3> QED
      BY <3>1, <3>2
  <2>5. ASSUME NEW s \in Scans, ScanReady(s) PROVE Kept
    <3> DEFINE cursor == Advanced(scan[s].snapshot)
    <3>1. \/ row' = row
          \/ row' = [row EXCEPT !.readiness = "ready", !.cursor = cursor, !.attempt = None,
                                !.recoveries = 0, !.awaiting = FALSE]
      BY <2>5 DEF ScanReady
    <3>2. scan[s].snapshot \in Ids
      BY <1>1 DEF IInv, Shape, ScanStates
    <3> HIDE DEF cursor
    <3>3. row'.cursor = row.cursor \/ row'.cursor = cursor
      BY <2>0, <3>1 DEF RowStates
    <3> QED
      BY <2>1, <2>2, <3>2, <3>3 DEF cursor
  <2>6. ASSUME NEW s \in Scans, ScanSnapshot(s) PROVE Kept
    <3>1. row'.cursor = row.cursor
      BY <1>1, <2>0, <2>6 DEF ScanSnapshot, Snapshot, RowStates
    <3> QED
      BY <2>1, <3>1
  <2>7. ASSUME NEW s \in Scans, ScanStart(s) \/ ScanRefused(s) \/ ScanFails(s) PROVE Kept
    <3>1. row'.cursor = row.cursor
      BY <2>0, <2>7 DEF ScanStart, ScanRefused, ScanFails, Terminal, RowStates
    <3> QED
      BY <2>1, <3>1
  <2>8. ASSUME Reconcile \/ Retry \/ Connect \/ \E r \in Runs : IncRefused(r) PROVE Kept
    <3>1. row'.cursor = row.cursor
      BY <2>0, <2>8 DEF Reconcile, Retry, Connect, IncRefused, RowStates
    <3> QED
      BY <2>1, <3>1
  <2> HIDE DEF Kept
  <2> QED
    BY <1>1, <2>1, <2>3, <2>4, <2>5, <2>6, <2>7, <2>8, RowWriters
<1>2. IInv /\ [Next]_vars => [Kept]_vars
  BY <1>1
<1> QED
  BY <1>2, Invariance, PTL DEF Spec, CursorNeverRewinds

-------------------------------------------------------------------------------
(* The mirror.  A place in the history is reached when the mirror holds    *)
(* what every record up to it says; Follows says what is then true of one  *)
(* message, whatever records come after.  A later place promises more.     *)

(* No record after p is about m; one of them says that it was added.       *)
Settled(log, m, p) == \A i \in DOMAIN log : i > p => log[i].message # m
Adds(log, m, p) == \E i \in DOMAIN log : i > p /\ log[i].message = m /\ log[i].kind = "added"

(* The history says how each message came to be what it is.                *)
LogInv(m) ==
  \A i \in DOMAIN history :
    history[i].message = m =>
      /\ gmail[m] # "none"
      /\ gmail[m] = "gone" /\ Settled(history, m, i) => history[i].kind = "deleted"
      /\ gmail[m] \in Labels => history[i].kind # "deleted"
      /\ gmail[m] \in Labels /\ Settled(history, m, i) => history[i].kind \in {"added", gmail[m]}

(* A message of a ready mailbox, or one that came after the new base, is   *)
(* stored, unless a record that is still to be read adds it.               *)
Due(m) == row.readiness = "ready" \/ Adds(history, m, base)

Follows(m, p) ==
  /\ gmail[m] = "none" => mirror[m] = "none"
  /\ gmail[m] = "gone" /\ Settled(history, m, p) => mirror[m] = "none"
  /\ gmail[m] \in Labels /\ Settled(history, m, p) => mirror[m] \in {"none", gmail[m]}
  /\ gmail[m] \in Labels /\ Due(m) /\ ~ Adds(history, m, p) => mirror[m] # "none"

MirrorInv == \A m \in Correct : \A p \in Reached : p >= base => Follows(m, p)

(* The ids that jobs and runs hold are cursors of the mailbox, or expired. *)
Known(id) == id < kept \/ (row.cursor # None /\ id <= row.cursor)

(* A cursor below the new base was set by a run of an expired range, and   *)
(* has expired itself.                                                     *)
PlaceInv ==
  /\ base \in Nat /\ base <= Latest
  /\ row.cursor # None => row.cursor <= Latest /\ (base <= row.cursor \/ row.cursor < kept)
  /\ row.readiness = "ready" => row.cursor # None
  /\ queue.waiting # None => Known(queue.waiting)
  /\ queue.follow # None => Known(queue.follow)

RunKnows(r) ==
  /\ queue.active = r => inc[r].pc # "idle"
  /\ inc[r].pc # "idle" => Known(inc[r].payload) /\ Known(inc[r].from)
  /\ inc[r].pc \in {"lock", "apply"} =>
       /\ inc[r].from <= inc[r].to /\ inc[r].to <= Latest
       /\ base <= inc[r].to \/ inc[r].to < kept \/ (row.cursor # None /\ base <= row.cursor)
  /\ inc[r].pc = "apply" =>
       /\ inc[r].from <= inc[r].pos /\ inc[r].pos <= inc[r].to
       /\ inc[r].from < kept \/ row.cursor = inc[r].from

(* A scan's list and its fetched metadata are Gmail's at the time of the   *)
(* read.  When it owns the attempt, each message it listed is still to be  *)
(* fetched, about to be written, or stored.                                *)
ScanReads(s) ==
  /\ scan[s].snapshot <= Latest /\ scan[s].listedAt <= Latest /\ scan[s].fetchedAt <= Latest
  /\ scan[s].pc \in {"reconcile", "fetch", "flush"} =>
       \A m \in Messages \ scan[s].listed :
         gmail[m] \in Labels => Adds(history, m, scan[s].listedAt)
  /\ \A m \in DOMAIN scan[s].fetched :
       Settled(history, m, scan[s].fetchedAt) => gmail[m] = scan[s].fetched[m]

Covered(s, m) ==
  \/ m \in scan[s].todo
  \/ scan[s].pc = "flush" /\ m \in DOMAIN scan[s].fetched
  \/ mirror[m] # "none"
  \/ Adds(history, m, base)

ScanOwns(s) ==
  row.attempt = s =>
    /\ scan[s].pc \in {"list", "reconcile", "fetch", "flush"} =>
         row.cursor # None /\ scan[s].snapshot <= row.cursor
    /\ scan[s].pc \in {"reconcile", "fetch", "flush"} => base <= scan[s].listedAt
    /\ scan[s].pc \in {"fetch", "flush"} =>
         \A m \in scan[s].listed \cap Correct : gmail[m] \in Labels => Covered(s, m)

MInv ==
  /\ IInv /\ PlaceInv
  /\ \A r \in Runs : RunKnows(r)
  /\ \A s \in Scans : ScanReads(s) /\ ScanOwns(s)
  /\ \A m \in Messages : LogInv(m)
  /\ MirrorInv

-------------------------------------------------------------------------------
(* Records after a place of the log.                                       *)

(* A record that is appended comes after every place there was.            *)
LEMMA Appended ==
  ASSUME NEW log \in Seq(Events), NEW event \in Events,
         NEW m, NEW p \in Nat, p <= Len(log)
  PROVE  /\ Settled(Append(log, event), m, p) <=> Settled(log, m, p) /\ event.message # m
         /\ Adds(Append(log, event), m, p) <=>
              Adds(log, m, p) \/ (event.message = m /\ event.kind = "added")
<1> DEFINE longer == Append(log, event)
<1>1. /\ DOMAIN longer = DOMAIN log \cup {Len(log) + 1} /\ DOMAIN log = 1 .. Len(log)
      /\ longer[Len(log) + 1] = event /\ Len(log) \in Nat
      /\ \A i \in DOMAIN log : longer[i] = log[i]
  OBVIOUS
<1> HIDE DEF longer
<1>2. Len(log) + 1 > p
  BY <1>1
<1>3. Settled(longer, m, p) <=> Settled(log, m, p) /\ event.message # m
  BY <1>1, <1>2 DEF Settled
<1>4. Adds(longer, m, p) <=> Adds(log, m, p) \/ (event.message = m /\ event.kind = "added")
  BY <1>1, <1>2 DEF Adds
<1> QED
  BY <1>3, <1>4 DEF longer

(* An earlier place has more records after it.                             *)
LEMMA Earlier ==
  ASSUME NEW log \in Seq(Events), NEW m, NEW p \in Nat, NEW q \in Nat, p <= q
  PROVE  (Settled(log, m, p) => Settled(log, m, q)) /\ (Adds(log, m, q) => Adds(log, m, p))
<1>1. \A i \in DOMAIN log : i \in Nat /\ (i > q => i > p)
  OBVIOUS
<1> QED
  BY <1>1 DEF Settled, Adds

(* One record further.                                                     *)
LEMMA Further ==
  ASSUME NEW log \in Seq(Events), NEW m, NEW p \in Nat, p + 1 \in DOMAIN log
  PROVE  /\ Settled(log, m, p) <=> Settled(log, m, p + 1) /\ log[p + 1].message # m
         /\ Adds(log, m, p) <=>
              Adds(log, m, p + 1) \/ (log[p + 1].message = m /\ log[p + 1].kind = "added")
<1>1. \A i \in DOMAIN log : i > p <=> i > p + 1 \/ i = p + 1
  OBVIOUS
<1> QED
  BY <1>1 DEF Settled, Adds

(* Nothing comes after the end of the log.                                 *)
LEMMA AtEnd ==
  ASSUME NEW log \in Seq(Events), NEW m, NEW p \in Nat, p >= Len(log)
  PROVE  Settled(log, m, p) /\ ~ Adds(log, m, p)
<1>1. \A i \in DOMAIN log : ~ (i > p)
  OBVIOUS
<1> QED
  BY <1>1 DEF Settled, Adds

(* A place promises what an earlier one does.                              *)
LEMMA FollowsEarlier ==
  ASSUME IInv, NEW m, NEW p \in Nat, NEW q \in Nat, p <= q, Follows(m, q)
  PROVE  Follows(m, p)
<1>1. history \in Seq(Events)
  BY DEF IInv, Shape
<1> QED
  BY <1>1, Earlier DEF Follows

LEMMA FollowsEarlierNext ==
  ASSUME IInv', NEW m, NEW p \in Nat, NEW q \in Nat, p <= q, Follows(m, q)'
  PROVE  Follows(m, p)'
<1>1. history' \in Seq(Events)
  BY DEF IInv, Shape
<1>2. (Settled(history', m, p) => Settled(history', m, q)) /\ (Adds(history', m, q) => Adds(history', m, p))
  BY <1>1, Earlier
<1> QED
  BY <1>2 DEF Follows

-------------------------------------------------------------------------------
(* How the places move.                                                    *)

LEMMA Types ==
  ASSUME IInv
  PROVE  /\ history \in Seq(Events) /\ Latest \in Nat /\ Latest = Len(history)
         /\ kept \in Nat /\ kept <= Latest
         /\ row \in RowStates /\ row.cursor \in Nat \cup {None} /\ None \notin Nat
         /\ \A r \in Runs : /\ inc[r] \in RunStates /\ inc[r].from \in Nat /\ inc[r].to \in Nat
                            /\ inc[r].pos \in Nat /\ inc[r].payload \in Nat /\ r # None
         /\ queue.waiting \in Nat \cup {None} /\ queue.follow \in Nat \cup {None}
<1>1. /\ history \in Seq(Events) /\ Latest \in Nat /\ kept \in Nat /\ kept <= Latest
      /\ row \in RowStates
  BY DEF IInv, Shape, Ids
<1>2. row.cursor \in Nat \cup {None} /\ None \notin Nat
  BY <1>1 DEF RowStates, Ids
<1>3. ASSUME NEW r \in Runs
      PROVE  /\ inc[r] \in RunStates /\ inc[r].from \in Nat /\ inc[r].to \in Nat
             /\ inc[r].pos \in Nat /\ inc[r].payload \in Nat /\ r # None
  <2>1. inc[r] \in RunStates
    BY DEF IInv, Shape
  <2> QED
    BY <2>1 DEF RunStates, Ids
<1>4. queue.waiting \in Nat \cup {None} /\ queue.follow \in Nat \cup {None}
  BY DEF IInv, Shape, QueueStates, Ids
<1> QED
  BY <1>1, <1>2, <1>3, <1>4 DEF Latest

LEMMA ScanTypes ==
  ASSUME IInv, NEW s \in Scans
  PROVE  /\ scan[s] \in ScanStates /\ scan[s].snapshot \in Nat /\ scan[s].listedAt \in Nat
         /\ scan[s].fetchedAt \in Nat /\ s # None
         /\ scan[s].listed \subseteq Messages /\ scan[s].todo \subseteq Messages
         /\ DOMAIN scan[s].fetched \subseteq Messages
         /\ \A m \in DOMAIN scan[s].fetched : scan[s].fetched[m] \in Labels
<1>1. scan[s] \in ScanStates
  BY DEF IInv, Shape
<1>2. scan[s].fetched \in Fetched
  BY <1>1 DEF ScanStates
<1> QED
  BY <1>1, <1>2 DEF ScanStates, Fetched, Ids

(* A cursor is advanced, cleared because it expired, or set by the scan    *)
(* that takes a new base.                                                  *)
LEMMA CursorMoves ==
  ASSUME MInv, [Next]_vars
  PROVE  \/ row'.cursor = row.cursor
         \/ \E r \in Runs : IncAdvance(r) /\ row'.cursor = Advanced(inc[r].to)
         \/ /\ row'.cursor = None /\ row.cursor # None /\ row.cursor < kept
            /\ row'.attempt = None /\ row'.readiness = "queued" /\ kept' = kept
         \/ \E s \in Scans : /\ ScanSnapshot(s) /\ Owns(s)
                             /\ row.cursor = None /\ row'.cursor = Latest
<1> DEFINE Goal == \/ row'.cursor = row.cursor
                   \/ \E r \in Runs : IncAdvance(r) /\ row'.cursor = Advanced(inc[r].to)
                   \/ /\ row'.cursor = None /\ row.cursor # None /\ row.cursor < kept
                      /\ row'.attempt = None /\ row'.readiness = "queued" /\ kept' = kept
                   \/ \E s \in Scans : /\ ScanSnapshot(s) /\ Owns(s)
                                       /\ row.cursor = None /\ row'.cursor = Latest
<1>0. IInv /\ row \in RowStates /\ None \notin Nat /\ row.cursor \in Nat \cup {None}
  BY Types DEF MInv
<1>1. ASSUME NEW r \in Runs, IncAdvance(r) PROVE Goal
  <2> DEFINE cursor == Advanced(inc[r].to)
  <2>1. row' = [row EXCEPT !.cursor = cursor, !.awaiting = FALSE]
    BY <1>1 DEF IncAdvance
  <2> HIDE DEF cursor
  <2>2. row'.cursor = cursor
    BY <1>0, <2>1 DEF RowStates
  <2> QED
    BY <1>1, <2>2 DEF cursor
<1>2. ASSUME NEW r \in Runs, IncExpired(r) PROVE Goal
  <2>1. CASE ~ Recovers(r)
    BY <1>2, <2>1 DEF IncExpired
  <2>2. CASE Recovers(r)
    <3>1. row.cursor < kept /\ row.cursor # None
      BY <1>0, <1>2, <2>2, Types DEF IInv, RunInv, IncExpired, Recovers
    <3>2. row' = Rebased /\ kept' = kept
      BY <1>2, <2>2 DEF IncExpired
    <3>3. row'.cursor = None /\ row'.attempt = None /\ row'.readiness = "queued"
      BY <1>0, <3>2 DEF Rebased, RowStates
    <3> QED
      BY <3>1, <3>2, <3>3
  <2> QED
    BY <2>1, <2>2
<1>3. ASSUME NEW s \in Scans, ScanReady(s) PROVE Goal
  <2>1. CASE Owns(s)
    <3> DEFINE cursor == Advanced(scan[s].snapshot)
    <3>1. row' = [row EXCEPT !.readiness = "ready", !.cursor = cursor, !.attempt = None,
                             !.recoveries = 0, !.awaiting = FALSE]
      BY <1>3, <2>1 DEF ScanReady
    <3>2. row.cursor # None /\ scan[s].snapshot <= row.cursor
      BY <1>3, <2>1 DEF MInv, ScanOwns, ScanReady, Owns
    <3>3. cursor = row.cursor
      BY <1>0, <3>2, ScanTypes DEF Advanced
    <3> HIDE DEF cursor
    <3>4. row'.cursor = cursor
      BY <1>0, <3>1 DEF RowStates
    <3> QED
      BY <3>3, <3>4
  <2> QED
    BY <1>3, <2>1 DEF ScanReady
<1>4. ASSUME NEW s \in Scans, ScanSnapshot(s) PROVE Goal
  <2>1. CASE Owns(s)
    <3>1. row' = [row EXCEPT !.cursor = Snapshot]
      BY <1>4, <2>1 DEF ScanSnapshot
    <3>2. row'.cursor = Snapshot
      BY <1>0, <3>1 DEF RowStates
    <3> QED
      BY <1>4, <2>1, <3>2 DEF Snapshot
  <2> QED
    BY <1>4, <2>1 DEF ScanSnapshot
<1>5. ASSUME NEW s \in Scans, ScanStart(s) \/ ScanRefused(s) \/ ScanFails(s) PROVE Goal
  BY <1>0, <1>5 DEF ScanStart, ScanRefused, ScanFails, Terminal, RowStates
<1>6. ASSUME Reconcile \/ Retry \/ Connect \/ \E r \in Runs : IncRefused(r) PROVE Goal
  BY <1>0, <1>6 DEF Reconcile, Retry, Connect, IncRefused, RowStates
<1> HIDE DEF Goal
<1>7. Goal
  <2>1. row' = row => Goal
    BY DEF Goal
  <2> QED
    BY <1>1, <1>2, <1>3, <1>4, <1>5, <1>6, <2>1, RowWriters
<1> QED
  BY <1>7 DEF Goal

(* Only the scan that owns the attempt makes a mailbox ready.              *)
LEMMA ReadyMoves ==
  ASSUME IInv, [Next]_vars, row'.readiness = "ready"
  PROVE  row.readiness = "ready" \/ \E s \in Scans : ScanReady(s) /\ Owns(s)
<1>0. row \in RowStates
  BY Types
<1>1. ASSUME NEW r \in Runs, IncAdvance(r) \/ IncExpired(r) \/ IncRefused(r)
      PROVE  row.readiness = "ready"
  <2>1. ASSUME IncAdvance(r) PROVE row'.readiness = row.readiness
    <3> DEFINE cursor == Advanced(inc[r].to)
    <3>1. row' = [row EXCEPT !.cursor = cursor, !.awaiting = FALSE]
      BY <2>1 DEF IncAdvance
    <3> HIDE DEF cursor
    <3> QED
      BY <1>0, <3>1 DEF RowStates
  <2>2. ASSUME IncExpired(r) PROVE row'.readiness \in {row.readiness, "queued"}
    BY <1>0, <2>2 DEF IncExpired, Rebased, RowStates
  <2>3. ASSUME IncRefused(r) PROVE row'.readiness = row.readiness
    BY <1>0, <2>3 DEF IncRefused, RowStates
  <2> QED
    BY <1>1, <2>1, <2>2, <2>3
<1>2. ASSUME NEW s \in Scans, ScanSnapshot(s) PROVE row'.readiness = row.readiness
  <2>1. row' = row \/ row' = [row EXCEPT !.cursor = Snapshot]
    BY <1>2 DEF ScanSnapshot
  <2> QED
    BY <1>0, <2>1 DEF RowStates
<1>3. ASSUME NEW s \in Scans, ScanStart(s) \/ ScanRefused(s) \/ ScanFails(s)
      PROVE  row.readiness = "ready"
  BY <1>0, <1>3 DEF ScanStart, ScanRefused, ScanFails, Terminal, RowStates
<1>4. ASSUME Reconcile \/ Retry \/ Connect PROVE row.readiness = "ready"
  BY <1>0, <1>4 DEF Reconcile, Retry, Connect, RowStates
<1>5. ASSUME NEW s \in Scans, ScanReady(s), ~ Owns(s) PROVE row' = row
  BY <1>5 DEF ScanReady
<1> QED
  BY <1>1, <1>2, <1>3, <1>4, <1>5, RowWriters

(* A new base is Gmail's head, and what is stored then is not trusted.     *)
LEMMA BaseMoves ==
  ASSUME [Next]_vars
  PROVE  \/ base' = base /\ based' = based
         \/ \E s \in Scans : /\ ScanSnapshot(s) /\ Owns(s) /\ row.cursor = None
                             /\ base' = Latest /\ based' = based \cup Stored
<1>1. (base' = base /\ based' = based) \/ \E s \in Scans : ScanSnapshot(s)
  BY ZenonT(60)
     DEF Next, IncSteps, ScanSteps, GmailChanges, ActionMoves, HistoryExpires, GrantRevoked,
         Webhook, SyncNow, DriftSweep, IncStart, IncPage, IncLock, IncApply, IncAdvance,
         IncExpired, IncRefused, IncFails, IncStalls, ScanStart, ScanList, ScanReconcile,
         ScanFetch, ScanFlush, ScanReady, ScanRefused, ScanFails, ScanStalls, Reconcile,
         Retry, Connect
<1> QED
  BY <1>1 DEF ScanSnapshot

(* The new base is the cursor.                                             *)
LEMMA NewBase ==
  ASSUME IInv, NEW s \in Scans, ScanSnapshot(s), Owns(s), row.cursor = None
  PROVE  row'.cursor = Latest /\ row'.cursor # None /\ UNCHANGED <<history, gmail, mirror, inc, kept>>
<1>1. row' = [row EXCEPT !.cursor = Latest] /\ row \in RowStates /\ Latest # None
  BY Types DEF ScanSnapshot, Snapshot
<1>2. row'.cursor = Latest
  BY <1>1 DEF RowStates
<1> QED
  BY <1>1, <1>2 DEF ScanSnapshot

(* Messages once left out of MirrorFollows stay left out.                  *)
LEMMA RewoundMoves ==
  ASSUME [Next]_vars
  PROVE  rewound \subseteq rewound'
<1>1. rewound' = rewound \/ (\E r \in Runs : IncApply(r))
        \/ \E s \in Scans : ScanReconcile(s) \/ ScanFlush(s)
  BY ZenonT(60)
     DEF Next, IncSteps, ScanSteps, GmailChanges, ActionMoves, HistoryExpires, GrantRevoked,
         Webhook, SyncNow, DriftSweep, IncStart, IncPage, IncLock, IncAdvance,
         IncExpired, IncRefused, IncFails, IncStalls, ScanStart, ScanSnapshot, ScanList,
         ScanFetch, ScanReady, ScanRefused, ScanFails, ScanStalls, Reconcile,
         Retry, Connect
<1> QED
  BY <1>1 DEF IncApply, ScanReconcile, ScanFlush

LEMMA CorrectMoves ==
  ASSUME [Next]_vars
  PROVE  Correct' \subseteq Correct
  BY BaseMoves, RewoundMoves DEF Correct

(* What one step does to one run.                                          *)
LEMMA RunMoves ==
  ASSUME IInv, [Next]_vars, NEW r \in Runs
  PROVE  \/ inc'[r] = inc[r]
         \/ inc'[r].pc = "idle"
         \/ /\ inc'[r].pc = "page" /\ inc'[r].payload = queue.waiting
            /\ inc'[r].from \in {queue.waiting, row.cursor} \ {None} /\ queue.waiting # None
         \/ /\ inc'[r].payload = inc[r].payload /\ inc[r].pc = "lock" /\ inc'[r].pc = "page"
            /\ row.cursor # None /\ inc'[r].from = row.cursor
         \/ /\ inc'[r].payload = inc[r].payload /\ inc'[r].from = inc[r].from
            /\ \/ inc[r].pc = "page" /\ inc'[r].pc = "expired"
               \/ /\ inc[r].pc = "page" /\ inc'[r].pc = "lock" /\ inc'[r].to = Latest
                  /\ ~ (inc[r].from < kept)
               \/ /\ inc[r].pc = "lock" /\ inc'[r].pc = "apply" /\ inc'[r].to = inc[r].to
                  /\ inc'[r].pos = inc[r].from /\ Revalidated(r) /\ row' = row
               \/ /\ inc[r].pc = "apply" /\ inc'[r].pc = "apply" /\ inc'[r].to = inc[r].to
                  /\ inc'[r].pos = inc[r].pos + 1 /\ inc[r].pos < inc[r].to
                  /\ IncApply(r)
<1>0. /\ inc \in [Runs -> RunStates] /\ inc[r] \in RunStates
  BY DEF IInv, Shape
<1>1. ASSUME NEW z \in Runs, z # r, IncSteps(z) \/ IncFails(z) PROVE inc'[r] = inc[r]
  BY <1>0, <1>1 DEF IncSteps, IncStart, IncPage, IncLock, IncApply, IncAdvance, IncExpired,
                    IncRefused, IncFails
<1>2. ASSUME IncStart(r)
      PROVE  \/ inc'[r] = inc[r]
             \/ /\ inc'[r].pc = "page" /\ inc'[r].payload = queue.waiting
                /\ inc'[r].from \in {queue.waiting, row.cursor} \ {None} /\ queue.waiting # None
  <2> DEFINE from == IF Ahead(row.cursor, queue.waiting) THEN row.cursor ELSE queue.waiting
             run == [IdleRun EXCEPT !.pc = "page", !.payload = queue.waiting,
                       !.connect = connects, !.from = from]
  <2>1. queue.waiting # None
    BY <1>2 DEF IncStart
  <2>2. from \in {queue.waiting, row.cursor} \ {None}
    BY <2>1 DEF Ahead
  <2>3. inc' = inc \/ inc' = [inc EXCEPT ![r] = run]
    BY <1>2 DEF IncStart
  <2> HIDE DEF from
  <2>4. run.pc = "page" /\ run.payload = queue.waiting /\ run.from = from
    BY DEF IdleRun
  <2> HIDE DEF run
  <2>5. inc'[r] = inc[r] \/ inc'[r] = run
    BY <1>0, <2>3
  <2> QED
    BY <2>1, <2>2, <2>4, <2>5
<1>3. ASSUME IncPage(r)
      PROVE  /\ inc'[r].payload = inc[r].payload /\ inc'[r].from = inc[r].from
             /\ \/ inc[r].pc = "page" /\ inc'[r].pc = "expired"
                \/ /\ inc[r].pc = "page" /\ inc'[r].pc = "lock" /\ inc'[r].to = Latest
                   /\ ~ (inc[r].from < kept)
  BY <1>0, <1>3 DEF IncPage, RunStates
<1>4. ASSUME IncLock(r), inc'[r].pc # "idle"
      PROVE  /\ inc'[r].payload = inc[r].payload
             /\ \/ /\ inc[r].pc = "lock" /\ inc'[r].pc = "page" /\ row.cursor # None
                   /\ inc'[r].from = row.cursor
                \/ /\ inc[r].pc = "lock" /\ inc'[r].pc = "apply" /\ inc'[r].to = inc[r].to
                   /\ inc'[r].pos = inc[r].from /\ inc'[r].from = inc[r].from /\ Revalidated(r)
                   /\ row' = row
  <2>1. inc[r].pc = "lock" /\ row' = row
    BY <1>4 DEF IncLock
  <2>2. CASE Revalidated(r)
    <3>1. inc' = [inc EXCEPT ![r].pc = "apply", ![r].pos = inc[r].from]
      BY <1>4, <2>2 DEF IncLock
    <3> QED
      BY <1>0, <2>1, <2>2, <3>1 DEF RunStates
  <2>3. CASE ~ Revalidated(r)
    <3>1. inc' # [inc EXCEPT ![r] = IdleRun]
      BY <1>0, <1>4 DEF IdleRun
    <3>2. inc' = [inc EXCEPT ![r].pc = "page", ![r].from = row.cursor, ![r].restarts = @ + 1]
      BY <1>4, <2>3, <3>1 DEF IncLock
    <3>3. row.cursor # None
      BY <2>3 DEF Revalidated, Ahead
    <3> QED
      BY <1>0, <2>1, <3>2, <3>3 DEF RunStates
  <2> QED
    BY <2>2, <2>3
<1>5. ASSUME IncApply(r)
      PROVE  /\ inc'[r].payload = inc[r].payload /\ inc'[r].from = inc[r].from
             /\ inc[r].pc = "apply" /\ inc'[r].pc = "apply" /\ inc'[r].to = inc[r].to
             /\ inc'[r].pos = inc[r].pos + 1 /\ inc[r].pos < inc[r].to
  BY <1>0, <1>5 DEF IncApply, RunStates
<1>6. ASSUME IncAdvance(r) \/ IncExpired(r) \/ IncRefused(r) \/ IncFails(r)
      PROVE  inc'[r].pc = "idle"
  BY <1>0, <1>6 DEF IncAdvance, IncExpired, IncRefused, IncFails, IdleRun
<1>7. ASSUME IncSteps(r) \/ IncFails(r)
      PROVE  IncStart(r) \/ IncPage(r) \/ IncLock(r) \/ IncApply(r)
             \/ (IncAdvance(r) \/ IncExpired(r) \/ IncRefused(r) \/ IncFails(r))
  BY <1>7 DEF IncSteps
<1> QED
  BY <1>1, <1>2, <1>3, <1>4, <1>5, <1>6, <1>7, RunWriters

(* The ids that are known stay known: a cursor is cleared when it expired. *)
LEMMA KnownStep ==
  ASSUME MInv, [Next]_vars, NEW id \in Nat, Known(id)
  PROVE  Known(id)'
<1>1. /\ IInv /\ kept \in Nat /\ kept' \in Nat /\ kept <= kept' /\ None \notin Nat
      /\ row.cursor \in Nat \cup {None}
      /\ \A r \in Runs : inc[r].to \in Nat
  BY Types, Forward DEF MInv
<1>2. CASE id < kept
  BY <1>1, <1>2 DEF Known
<1>3. CASE row.cursor # None /\ id <= row.cursor
  <2>1. ASSUME NEW r \in Runs, row'.cursor = Advanced(inc[r].to) PROVE Known(id)'
    <3>1. Advanced(inc[r].to) \in Nat /\ row.cursor <= Advanced(inc[r].to)
      BY <1>1, <1>3 DEF Advanced
    <3>2. row'.cursor # None /\ id <= row'.cursor
      BY <1>1, <1>3, <2>1, <3>1
    <3> QED
      BY <3>2 DEF Known
  <2>2. ASSUME row'.cursor = row.cursor PROVE Known(id)'
    BY <1>3, <2>2 DEF Known
  <2>3. ASSUME row.cursor < kept PROVE Known(id)'
    BY <1>1, <1>3, <2>3 DEF Known
  <2> QED
    BY <1>3, <2>1, <2>2, <2>3, CursorMoves
<1> QED
  BY <1>2, <1>3 DEF Known

(* A cursor is known when it is read, and what is known is in the past.    *)
LEMMA KnownCursor ==
  ASSUME IInv, row.cursor # None
  PROVE  Known(row.cursor)
  BY Types DEF Known

LEMMA KnownBound ==
  ASSUME IInv, PlaceInv, NEW id \in Nat, Known(id)
  PROVE  id <= Latest
  BY Types DEF Known, PlaceInv

(* The job's payloads stay known ids, and an active job has its run.       *)
LEMMA QueueStep ==
  ASSUME MInv, [Next]_vars
  PROVE  /\ queue'.waiting # None => Known(queue.waiting)'
         /\ queue'.follow # None => Known(queue.follow)'
<1>0. /\ IInv /\ queue \in QueueStates /\ row.cursor \in Nat \cup {None}
      /\ queue.waiting \in Nat \cup {None} /\ queue.follow \in Nat \cup {None}
      /\ \A r \in Runs : inc[r].payload \in Nat
  BY Types DEF MInv, IInv, Shape
<1> DEFINE Old == {id \in Nat : Known(id)}
<1>1. \A id \in Old : Known(id)'
  BY KnownStep
<1>2. /\ queue.waiting # None => queue.waiting \in Old
      /\ queue.follow # None => queue.follow \in Old
      /\ row.cursor # None => row.cursor \in Old
      /\ \A r \in Runs : inc[r].pc # "idle" => inc[r].payload \in Old
      /\ \A r \in Runs : queue.active = r => inc[r].pc # "idle"
  BY <1>0, KnownCursor DEF MInv, PlaceInv, RunKnows
<1> HIDE DEF Old
<1>3. SUFFICES queue'.waiting \in Old \cup {None} /\ queue'.follow \in Old \cup {None}
  <2>1. ASSUME queue'.waiting \in Old PROVE Known(queue.waiting)'
    <3>1. PICK id \in Old : id = queue'.waiting
      BY <2>1
    <3> QED
      BY <1>1, <3>1 DEF Known
  <2>2. ASSUME queue'.follow \in Old PROVE Known(queue.follow)'
    <3>1. PICK id \in Old : id = queue'.follow
      BY <2>2
    <3> QED
      BY <1>1, <3>1 DEF Known
  <2> QED
    BY <2>1, <2>2
<1>4. ASSUME Webhook \/ SyncNow \/ DriftSweep \/ Connect
      PROVE  queue'.waiting \in Old \cup {None} /\ queue'.follow \in Old \cup {None}
  <2>1. queue' = queue \/ (row.cursor # None /\ queue' = Coalesce(row.cursor))
    BY <1>4 DEF Webhook, SyncNow, DriftSweep, Connect, Plannable
  <2> QED
    BY <1>0, <1>2, <2>1 DEF Coalesce, QueueStates
<1>5. ASSUME NEW r \in Runs, IncStart(r)
      PROVE  queue'.waiting \in Old \cup {None} /\ queue'.follow \in Old \cup {None}
  BY <1>0, <1>2, <1>5 DEF IncStart, QueueStates
<1>6. ASSUME NEW r \in Runs, queue' = JobEnds(r)
      PROVE  queue'.waiting \in Old \cup {None} /\ queue'.follow \in Old \cup {None}
  BY <1>0, <1>2, <1>6 DEF JobEnds, QueueStates
<1>7. ASSUME NEW r \in Runs, queue' = JobRetries(r)
      PROVE  queue'.waiting \in Old \cup {None} /\ queue'.follow \in Old \cup {None}
  BY <1>0, <1>2, <1>7 DEF JobRetries, QueueStates
<1>8. ASSUME queue' = queue
      PROVE  queue'.waiting \in Old \cup {None} /\ queue'.follow \in Old \cup {None}
  BY <1>2, <1>8
<1>9. ASSUME NEW r \in Runs,
             IncLock(r) \/ IncAdvance(r) \/ IncExpired(r) \/ IncRefused(r) \/ IncFails(r)
               \/ IncStalls(r)
      PROVE  queue' = queue \/ queue' = JobEnds(r) \/ queue' = JobRetries(r)
  BY <1>9 DEF IncLock, IncAdvance, IncExpired, IncRefused, IncFails, IncStalls
<1> QED
  BY <1>4, <1>5, <1>6, <1>7, <1>8, <1>9, QueueWriters

LEMMA ActiveStep ==
  ASSUME MInv, [Next]_vars, NEW r \in Runs, queue'.active = r, inc'[r].pc = "idle"
  PROVE  FALSE
<1>0. /\ IInv /\ queue \in QueueStates /\ inc \in [Runs -> RunStates] /\ r # None
      /\ queue.active = r => inc[r].pc # "idle"
  BY Types DEF MInv, IInv, Shape, RunKnows
<1>1. ASSUME NEW z \in Runs, queue' = JobEnds(z) \/ queue' = JobRetries(z)
      PROVE  queue.active = r /\ z # r
  <2>1. queue'.active = IF queue.active = z THEN None ELSE queue.active
    <3>1. CASE queue' = JobEnds(z)
      BY <1>0, <3>1 DEF JobEnds, QueueStates
    <3>2. CASE queue' = JobRetries(z)
      BY <1>0, <3>2 DEF JobRetries, QueueStates
    <3> QED
      BY <1>1, <3>1, <3>2
  <2> QED
    BY <1>0, <2>1
<1>2. ASSUME IncStart(r) PROVE FALSE
  <2>1. CASE inc' = inc
    <3>1. queue.active = None
      BY <1>2 DEF IncStart
    <3>2. r # None /\ queue'.active = r
      BY <1>0
    <3>3. queue' # [queue EXCEPT !.waiting = queue.follow, !.follow = None]
      BY <1>0, <3>1, <3>2 DEF QueueStates
    <3>4. \E run : inc' = [inc EXCEPT ![r] = [IdleRun EXCEPT !.pc = "page",
                     !.payload = queue.waiting, !.connect = connects, !.from = run]]
      BY <1>2, <3>3 DEF IncStart
    <3>5. inc'[r].pc = "page"
      BY <1>0, <3>4 DEF IdleRun
    <3> QED
      BY <3>5
  <2>2. CASE inc' # inc
    <3> DEFINE from == IF Ahead(row.cursor, queue.waiting) THEN row.cursor ELSE queue.waiting
               run == [IdleRun EXCEPT !.pc = "page", !.payload = queue.waiting,
                         !.connect = connects, !.from = from]
    <3>1. inc' = [inc EXCEPT ![r] = run]
      BY <1>2, <2>2 DEF IncStart
    <3> HIDE DEF from
    <3>2. run.pc = "page"
      BY DEF IdleRun
    <3> QED
      BY <1>0, <3>1, <3>2
  <2> QED
    BY <2>1, <2>2
<1>3. ASSUME NEW z \in Runs, z # r, IncStart(z) PROVE queue'.active # r
  BY <1>0, <1>3 DEF IncStart, QueueStates
<1>4. queue.active = r
  <2>1. ASSUME Webhook \/ SyncNow \/ DriftSweep \/ Connect PROVE queue'.active = queue.active
    <3>1. queue' = queue \/ queue' = Coalesce(row.cursor)
      BY <2>1 DEF Webhook, SyncNow, DriftSweep, Connect
    <3> QED
      BY <1>0, <3>1 DEF Coalesce, QueueStates
  <2>2. ASSUME NEW z \in Runs,
               IncLock(z) \/ IncAdvance(z) \/ IncExpired(z) \/ IncRefused(z) \/ IncFails(z)
                 \/ IncStalls(z)
        PROVE  queue' = queue \/ queue' = JobEnds(z) \/ queue' = JobRetries(z)
    BY <2>2 DEF IncLock, IncAdvance, IncExpired, IncRefused, IncFails, IncStalls
  <2> QED
    BY <1>0, <1>1, <1>2, <1>3, <2>1, <2>2, QueueWriters
<1>5. inc[r].pc # "idle"
  BY <1>0, <1>4
<1>6. ASSUME NEW z \in Runs, z # r, IncSteps(z) \/ IncFails(z) PROVE inc'[r] = inc[r]
  BY <1>0, <1>6 DEF IncSteps, IncStart, IncPage, IncLock, IncApply, IncAdvance, IncExpired,
                    IncRefused, IncFails
<1>7. ASSUME IncPage(r) \/ IncApply(r) PROVE inc'[r].pc # "idle"
  BY <1>0, <1>7 DEF IncPage, IncApply, RunStates
<1>8. ASSUME IncLock(r) \/ IncAdvance(r) \/ IncExpired(r) \/ IncRefused(r) \/ IncFails(r)
      PROVE  inc'[r].pc # "idle" \/ queue' = JobEnds(r) \/ queue' = JobRetries(r)
  BY <1>0, <1>8 DEF IncLock, IncAdvance, IncExpired, IncRefused, IncFails, RunStates
<1> QED
  BY <1>1, <1>2, <1>4, <1>5, <1>6, <1>7, <1>8, RunWriters DEF IncSteps

(* The base and the cursor stay in the past.                               *)
LEMMA PlaceStep ==
  ASSUME MInv, [Next]_vars
  PROVE  PlaceInv'
<1>0. /\ IInv /\ PlaceInv /\ Latest \in Nat /\ Latest' \in Nat /\ Latest <= Latest'
      /\ kept \in Nat /\ kept' \in Nat /\ kept <= kept' /\ kept <= Latest
      /\ None \notin Nat /\ row.cursor \in Nat \cup {None} /\ base \in Nat /\ base <= Latest
      /\ \A r \in Runs : inc[r].to \in Nat
  BY Types, GoogleShape DEF MInv, PlaceInv, Ids
<1>1. base' \in Nat /\ base' <= Latest' /\ (base' = base \/ base' = Latest)
  BY <1>0, BaseMoves
<1>2. ASSUME row'.cursor # None
      PROVE  row'.cursor <= Latest' /\ (base' <= row'.cursor \/ row'.cursor < kept')
  <2>1. CASE row'.cursor = row.cursor
    <3>1. base' = base
      BY <1>2, <2>1, BaseMoves
    <3> QED
      BY <1>0, <1>2, <2>1, <3>1 DEF PlaceInv
  <2>2. ASSUME NEW r \in Runs, IncAdvance(r), row'.cursor = Advanced(inc[r].to)
        PROVE  row'.cursor <= Latest' /\ (base' <= row'.cursor \/ row'.cursor < kept')
    <3>1. base' = base /\ inc[r].pc = "apply"
      BY <2>2 DEF IncAdvance
    <3>2. /\ inc[r].to <= Latest
          /\ base <= inc[r].to \/ inc[r].to < kept \/ (row.cursor # None /\ base <= row.cursor)
      BY <3>1 DEF MInv, RunKnows
    <3> QED
      BY <1>0, <2>2, <3>1, <3>2 DEF PlaceInv, Advanced
  <2>3. ASSUME NEW s \in Scans, ScanSnapshot(s), Owns(s), row.cursor = None, row'.cursor = Latest
        PROVE  row'.cursor <= Latest' /\ (base' <= row'.cursor \/ row'.cursor < kept')
    BY <1>0, <1>1, <2>3
  <2> QED
    BY <1>2, <2>1, <2>2, <2>3, CursorMoves
<1>3. ASSUME row'.readiness = "ready" PROVE row'.cursor # None
  <2>1. row.cursor # None
    BY <1>0, <1>3, ReadyMoves DEF PlaceInv, MInv, ScanOwns, ScanReady, Owns
  <2> QED
    BY <1>0, <1>3, <2>1, CursorMoves DEF Advanced
<1> QED
  BY <1>1, <1>2, <1>3, QueueStep DEF PlaceInv

(* What runs know of the history stays true.                               *)
LEMMA RunKnowsStep ==
  ASSUME MInv, [Next]_vars, NEW r \in Runs
  PROVE  RunKnows(r)'
<1>0. /\ IInv /\ IInv' /\ PlaceInv /\ RunKnows(r) /\ Latest \in Nat /\ Latest' \in Nat
      /\ Latest <= Latest' /\ kept \in Nat /\ kept' \in Nat /\ kept <= kept' /\ kept <= Latest
      /\ None \notin Nat /\ row.cursor \in Nat \cup {None} /\ base \in Nat /\ base <= Latest
      /\ queue.waiting \in Nat \cup {None}
      /\ inc[r].from \in Nat /\ inc[r].to \in Nat /\ inc[r].pos \in Nat /\ inc[r].payload \in Nat
  BY Types, GoogleShape, NextIInv, SMTT(30) DEF MInv, PlaceInv, Ids
<1>1. inc'[r].from \in Nat /\ inc'[r].payload \in Nat
  <2>1. inc'[r] \in RunStates
    BY <1>0 DEF IInv, Shape
  <2> QED
    BY <2>1 DEF RunStates, Ids
<1>2. ASSUME inc'[r].pc # "idle" PROVE Known(inc[r].payload)' /\ Known(inc[r].from)'
  <2> DEFINE Old == {id \in Nat : Known(id)}
  <2>1. \A id \in Old : Known(id)'
    BY KnownStep
  <2>2. /\ queue.waiting # None => queue.waiting \in Old
        /\ row.cursor # None => row.cursor \in Old
        /\ inc[r].pc # "idle" => inc[r].payload \in Old /\ inc[r].from \in Old
    BY <1>0, KnownCursor DEF PlaceInv, RunKnows
  <2> HIDE DEF Old
  <2>3. inc'[r].payload \in Old /\ inc'[r].from \in Old
    BY <1>0, <1>2, <2>2, RunMoves
  <2>4. PICK payload \in Old : payload = inc'[r].payload
    BY <2>3
  <2>5. PICK from \in Old : from = inc'[r].from
    BY <2>3
  <2> QED
    BY <2>1, <2>4, <2>5 DEF Known
<1>3. ASSUME inc'[r].pc \in {"lock", "apply"}
      PROVE  inc'[r].from <= inc'[r].to /\ inc'[r].to <= Latest'
  <2>1. inc[r].pc # "idle" => inc[r].from <= Latest
    BY <1>0, KnownBound DEF RunKnows
  <2> QED
    BY <1>0, <1>3, <2>1, RunMoves DEF RunKnows
<1>4. ASSUME inc'[r].pc \in {"lock", "apply"}
      PROVE  base' <= inc'[r].to \/ inc'[r].to < kept' \/ (row'.cursor # None /\ base' <= row'.cursor)
  <2>1. \/ inc[r].pc \in {"lock", "apply"} /\ inc'[r].to = inc[r].to
        \/ inc'[r].to = Latest
    BY <1>0, <1>4, RunMoves
  <2>2. CASE base' # base
    BY <1>0, <2>2, BaseMoves, NewBase
  <2>3. CASE base' = base /\ inc'[r].to = Latest
    BY <1>0, <2>3
  <2>4. CASE base' = base /\ inc[r].pc \in {"lock", "apply"} /\ inc'[r].to = inc[r].to
    <3>1. base <= inc[r].to \/ inc[r].to < kept \/ (row.cursor # None /\ base <= row.cursor)
      BY <1>0, <2>4 DEF RunKnows
    <3>2. CASE base <= inc[r].to \/ inc[r].to < kept
      BY <1>0, <2>4, <3>2
    <3>3. ASSUME row.cursor # None, base <= row.cursor, ~ (base <= inc[r].to)
          PROVE  inc'[r].to < kept' \/ (row'.cursor # None /\ base' <= row'.cursor)
      <4>1. ASSUME NEW z \in Runs, row'.cursor = Advanced(inc[z].to)
            PROVE  row'.cursor # None /\ base' <= row'.cursor
        <5>1. inc[z].to \in Nat
          BY <1>0, Types
        <5> QED
          BY <1>0, <2>4, <3>3, <4>1, <5>1 DEF Advanced
      <4> QED
        BY <1>0, <2>4, <3>3, <4>1, CursorMoves
    <3> QED
      BY <2>4, <3>1, <3>2, <3>3
  <2> QED
    BY <2>1, <2>2, <2>3, <2>4
<1>5. ASSUME inc'[r].pc = "apply"
      PROVE  inc'[r].from <= inc'[r].pos /\ inc'[r].pos <= inc'[r].to
  BY <1>0, <1>5, RunMoves DEF RunKnows
<1>6. ASSUME inc'[r].pc = "apply" PROVE inc'[r].from < kept' \/ row'.cursor = inc'[r].from
  <2>1. inc'[r].from = inc[r].from /\ inc[r].pc \in {"lock", "apply"}
    BY <1>0, <1>6, RunMoves
  <2>2. CASE inc[r].from < kept
    BY <1>0, <2>1, <2>2
  <2>3. CASE ~ (inc[r].from < kept)
    <3>1. row.cursor # None /\ inc[r].from <= row.cursor
      BY <1>0, <2>1, <2>3 DEF RunKnows, Known
    <3>2. row.cursor = inc[r].from
      BY <1>0, <1>6, <2>1, <2>3, <3>1, RunMoves DEF RunKnows, Revalidated, Ahead
    <3>3. ASSUME NEW z \in Runs, IncAdvance(z) PROVE FALSE
      <4>1. z = r
        <5>1. inc[z].pc = "apply" /\ lock' = None /\ inc'[z].pc = "idle"
          BY <3>3 DEF IncAdvance, IInv, Shape, IdleRun, MInv
        <5>2. lock' = r
          BY <1>0, <1>6 DEF IInv, RunInv
        <5> QED
          BY <1>0, <5>1, <5>2, Types
      <4>2. inc'[z].pc = "idle"
        BY <3>3 DEF IncAdvance, IInv, Shape, IdleRun, MInv
      <4> QED
        BY <1>6, <4>1, <4>2
    <3> QED
      BY <1>0, <2>1, <2>3, <3>1, <3>2, <3>3, CursorMoves
  <2> QED
    BY <2>2, <2>3
<1> QED
  BY <1>2, <1>3, <1>4, <1>5, <1>6, ActiveStep DEF RunKnows

-------------------------------------------------------------------------------
(* What the log and the scans' reads say.                                  *)

(* Gmail changes together with its history.                                *)
Logged(x, kind) ==
  /\ history' = Append(history, [kind |-> kind, message |-> x])
  /\ gmail' = [gmail EXCEPT ![x] = IF kind = "added" THEN "on"
                                   ELSE IF kind = "deleted" THEN "gone" ELSE kind]
  /\ IF kind = "added" THEN gmail[x] = "none" ELSE gmail[x] \in Labels
  /\ UNCHANGED <<kept, row, inc, scan, base, based, rewound>>
  /\ mirror' = mirror \/ (kind \in Labels /\ mirror' = [mirror EXCEPT ![x] = kind])

LEMMA LogMoves ==
  ASSUME IInv, [Next]_vars
  PROVE  UNCHANGED <<gmail, history>> \/ \E x \in Messages, kind \in Kinds : Logged(x, kind)
<1>1. ASSUME NEW x \in Messages, NEW kind \in Kinds, GmailChanges(x, kind) PROVE Logged(x, kind)
  BY <1>1 DEF GmailChanges, Kinds, Labels, Logged
<1>2. ASSUME NEW x \in Messages, NEW kind \in Labels, ActionMoves(x, kind) PROVE Logged(x, kind)
  BY <1>2 DEF ActionMoves, Labels, Logged
<1>3. Labels \subseteq Kinds
  BY DEF Kinds
<1> QED
  BY <1>1, <1>2, <1>3, GoogleWriters

(* A record that is appended explains what its message becomes.            *)
LEMMA LogStep ==
  ASSUME MInv, [Next]_vars, NEW m \in Messages
  PROVE  LogInv(m)'
<1>0. /\ IInv /\ LogInv(m) /\ history \in Seq(Events)
      /\ gmail \in [Messages -> Labels \cup {"none", "gone"}]
  BY Types DEF MInv, IInv, Shape
<1>1. CASE UNCHANGED <<gmail, history>>
  BY <1>0, <1>1 DEF LogInv
<1>2. ASSUME NEW x \in Messages, NEW kind \in Kinds, Logged(x, kind) PROVE LogInv(m)'
  <2> DEFINE event == [kind |-> kind, message |-> x]
  <2>1. event \in Events /\ event.kind = kind /\ event.message = x
    BY DEF Events
  <2>2. history' = Append(history, event)
    BY <1>2 DEF Logged
  <2> HIDE DEF event
  <2>3. /\ DOMAIN history' = DOMAIN history \cup {Len(history) + 1}
        /\ history'[Len(history) + 1] = event
        /\ \A i \in DOMAIN history : history'[i] = history[i] /\ i \in Nat /\ i <= Len(history)
    BY <1>0, <2>1, <2>2
  <2>4. \A i \in DOMAIN history : Settled(history', m, i) <=> Settled(history, m, i) /\ x # m
    BY <1>0, <2>1, <2>2, <2>3, Appended
  <2>5. CASE m # x
    <3>1. gmail'[m] = gmail[m]
      BY <1>0, <1>2, <2>5 DEF Logged
    <3> QED
      BY <1>0, <2>1, <2>3, <2>4, <2>5, <3>1 DEF LogInv
  <2>6. CASE m = x
    <3>1. gmail'[m] = IF kind = "added" THEN "on" ELSE IF kind = "deleted" THEN "gone" ELSE kind
      BY <1>0, <1>2, <2>6 DEF Logged
    <3>2. kind \in {"added", "deleted", "on", "off"}
      BY DEF Kinds, Labels
    <3>3. ASSUME NEW i \in DOMAIN history, history[i].message = m
          PROVE  kind # "added" /\ history[i].kind # "deleted"
      BY <1>0, <1>2, <2>6, <3>3 DEF LogInv, Labels, Logged
    <3> QED
      BY <2>1, <2>3, <2>4, <2>6, <3>1, <3>2, <3>3 DEF LogInv, Labels
  <2> QED
    BY <2>5, <2>6
<1> QED
  BY <1>0, <1>1, <1>2, LogMoves

(* What one step does to one scan.                                         *)
Idles(s) ==
  /\ scan'[s].pc \in {"idle", "snapshot"}
  /\ scan'[s].snapshot = 0 /\ scan'[s].listedAt = 0 /\ scan'[s].fetchedAt = 0
  /\ scan'[s].fetched = <<>>

Snapshots(s) ==
  /\ ScanSnapshot(s) /\ Owns(s) /\ scan'[s].pc = "list"
  /\ scan'[s].snapshot = Snapshot /\ scan'[s].listedAt = scan[s].listedAt
  /\ scan'[s].fetchedAt = scan[s].fetchedAt /\ scan'[s].fetched = scan[s].fetched

Lists(s) ==
  /\ ScanList(s) /\ scan[s].pc = "list" /\ scan'[s].pc = "reconcile"
  /\ scan'[s].listedAt = Latest /\ scan'[s].listed = {m \in Messages : gmail[m] \in Labels}
  /\ scan'[s].snapshot = scan[s].snapshot
  /\ scan'[s].fetchedAt = scan[s].fetchedAt /\ scan'[s].fetched = scan[s].fetched

KeepsList(s) ==
  /\ scan'[s].snapshot = scan[s].snapshot /\ scan'[s].listed = scan[s].listed
  /\ scan'[s].listedAt = scan[s].listedAt

Reconciles(s) ==
  /\ ScanReconcile(s) /\ scan[s].pc = "reconcile" /\ scan'[s].pc = "fetch"
  /\ KeepsList(s) /\ scan'[s].todo = scan[s].listed \ Skipped(s)
  /\ scan'[s].fetchedAt = scan[s].fetchedAt /\ scan'[s].fetched = scan[s].fetched

Fetches(s) ==
  /\ ScanFetch(s) /\ scan[s].pc = "fetch" /\ scan'[s].pc = "flush"
  /\ KeepsList(s) /\ scan'[s].fetchedAt = Latest
  /\ \E chunk \in SUBSET scan[s].todo :
       /\ scan'[s].todo = scan[s].todo \ chunk
       /\ scan'[s].fetched = [m \in {m \in chunk : gmail[m] \in Labels} |-> gmail[m]]

Flushes(s) ==
  /\ ScanFlush(s) /\ scan[s].pc = "flush" /\ scan'[s].pc = "fetch"
  /\ KeepsList(s) /\ scan'[s].todo = scan[s].todo
  /\ scan'[s].fetchedAt = scan[s].fetchedAt /\ scan'[s].fetched = <<>>

LEMMA ScanMoves ==
  ASSUME IInv, [Next]_vars, NEW s \in Scans
  PROVE  \/ scan'[s] = scan[s]
         \/ /\ UNCHANGED <<gmail, history>>
            /\ \/ Idles(s) \/ Snapshots(s) \/ Lists(s)
               \/ Reconciles(s) \/ Fetches(s) \/ Flushes(s)
<1>0. scan \in [Scans -> ScanStates] /\ scan[s] \in ScanStates
  BY DEF IInv, Shape
<1>1. ASSUME NEW z \in Scans, ScanSteps(z) \/ ScanFails(z) \/ ScanStalls(z), z # s
      PROVE  scan'[s] = scan[s]
  BY <1>0, <1>1 DEF ScanSteps, ScanStart, ScanSnapshot, ScanList, ScanReconcile, ScanFetch,
                    ScanFlush, ScanReady, ScanRefused, ScanFails, ScanStalls, EndScan
<1>2. ASSUME NEW next, EndScan(s, next) PROVE scan'[s] = IdleScan
  BY <1>0, <1>2 DEF EndScan
<1>3. ASSUME ScanStart(s)
      PROVE  \/ scan' = scan
             \/ scan'[s] = [IdleScan EXCEPT !.pc = "snapshot", !.connect = connects]
  BY <1>0, <1>3 DEF ScanStart
<1>4. ASSUME ScanSnapshot(s)
      PROVE  scan'[s] = IdleScan \/ Snapshots(s)
  <2>1. CASE Owns(s)
    <3> DEFINE to == Snapshot
    <3>1. scan' = [scan EXCEPT ![s].pc = "list", ![s].snapshot = to]
      BY <1>4, <2>1 DEF ScanSnapshot
    <3> HIDE DEF to
    <3>2. /\ scan'[s].pc = "list" /\ scan'[s].snapshot = to
          /\ scan'[s].listedAt = scan[s].listedAt
          /\ scan'[s].fetchedAt = scan[s].fetchedAt /\ scan'[s].fetched = scan[s].fetched
      BY <1>0, <3>1 DEF ScanStates
    <3> QED
      BY <1>4, <2>1, <3>2 DEF to, Snapshots
  <2> QED
    BY <1>2, <1>4, <2>1 DEF ScanSnapshot
<1>5. ASSUME ScanList(s) PROVE Lists(s)
  <2> DEFINE listed == {m \in Messages : gmail[m] \in Labels}
  <2>1. scan' = [scan EXCEPT ![s].pc = "reconcile", ![s].listedAt = Latest, ![s].listed = listed]
    BY <1>5 DEF ScanList
  <2> HIDE DEF listed
  <2>2. /\ scan'[s].pc = "reconcile" /\ scan'[s].listedAt = Latest
        /\ scan'[s].listed = listed /\ scan'[s].snapshot = scan[s].snapshot
        /\ scan'[s].fetchedAt = scan[s].fetchedAt /\ scan'[s].fetched = scan[s].fetched
    BY <1>0, <2>1 DEF ScanStates
  <2> QED
    BY <1>5, <2>2 DEF listed, ScanList, Lists
<1>6. ASSUME ScanReconcile(s) PROVE Reconciles(s)
  <2> DEFINE todo == scan[s].listed \ Skipped(s)
  <2>1. scan' = [scan EXCEPT ![s].pc = "fetch", ![s].todo = todo]
    BY <1>6 DEF ScanReconcile
  <2> HIDE DEF todo
  <2>2. /\ scan'[s].pc = "fetch" /\ scan'[s].todo = todo
        /\ scan'[s].snapshot = scan[s].snapshot /\ scan'[s].listed = scan[s].listed
        /\ scan'[s].listedAt = scan[s].listedAt
        /\ scan'[s].fetchedAt = scan[s].fetchedAt /\ scan'[s].fetched = scan[s].fetched
    BY <1>0, <2>1 DEF ScanStates
  <2> QED
    BY <1>6, <2>2 DEF todo, ScanReconcile, Reconciles, KeepsList
<1>7. ASSUME ScanFetch(s) PROVE Fetches(s)
  <2>1. PICK chunk \in SUBSET scan[s].todo :
          scan' = [scan EXCEPT ![s].pc = "flush", ![s].todo = @ \ chunk, ![s].fetchedAt = Latest,
                    ![s].fetched = [m \in {m \in chunk : gmail[m] \in Labels} |-> gmail[m]]]
    BY <1>7 DEF ScanFetch
  <2> DEFINE fetched == [m \in {m \in chunk : gmail[m] \in Labels} |-> gmail[m]]
             todo == scan[s].todo \ chunk
  <2>2. scan' = [scan EXCEPT ![s].pc = "flush", ![s].todo = todo, ![s].fetchedAt = Latest,
                             ![s].fetched = fetched]
    BY <2>1
  <2> HIDE DEF fetched, todo
  <2>3. /\ scan'[s].snapshot = scan[s].snapshot /\ scan'[s].listed = scan[s].listed
        /\ scan'[s].listedAt = scan[s].listedAt /\ scan'[s].pc = "flush"
        /\ scan'[s].fetchedAt = Latest /\ scan'[s].todo = todo /\ scan'[s].fetched = fetched
    BY <1>0, <2>2 DEF ScanStates
  <2>4. scan[s].pc = "fetch"
    BY <1>7 DEF ScanFetch
  <2> QED
    BY <1>7, <2>3, <2>4 DEF fetched, todo, Fetches, KeepsList
<1>8. ASSUME ScanFlush(s) PROVE Flushes(s)
  <2>1. scan' = [scan EXCEPT ![s].pc = "fetch", ![s].fetched = <<>>] /\ scan[s].pc = "flush"
    BY <1>8 DEF ScanFlush
  <2> QED
    BY <1>0, <1>8, <2>1 DEF ScanStates, Flushes, KeepsList
<1>9. ASSUME scan'[s] = IdleScan \/ scan'[s] = [IdleScan EXCEPT !.pc = "snapshot", !.connect = connects]
      PROVE  Idles(s)
  <2> DEFINE run == [IdleScan EXCEPT !.pc = "snapshot", !.connect = connects]
  <2>1. /\ IdleScan.pc = "idle" /\ IdleScan.snapshot = 0 /\ IdleScan.listedAt = 0
        /\ IdleScan.fetchedAt = 0 /\ IdleScan.fetched = <<>>
    BY DEF IdleScan
  <2>2. /\ run.pc = "snapshot" /\ run.snapshot = 0 /\ run.listedAt = 0
        /\ run.fetchedAt = 0 /\ run.fetched = <<>>
    BY DEF IdleScan
  <2> HIDE DEF run
  <2>3. scan'[s] = IdleScan \/ scan'[s] = run
    BY <1>9 DEF run
  <2> QED
    BY <2>1, <2>2, <2>3 DEF Idles
<1>10. ASSUME ScanReady(s) \/ ScanRefused(s) \/ ScanFails(s) PROVE scan'[s] = IdleScan
  BY <1>2, <1>10 DEF ScanReady, ScanRefused, ScanFails
<1>11. ASSUME ScanSteps(s) \/ ScanFails(s) PROVE UNCHANGED <<gmail, history>>
  BY <1>11 DEF ScanSteps, ScanStart, ScanSnapshot, ScanList, ScanReconcile, ScanFetch,
               ScanFlush, ScanReady, ScanRefused, ScanFails
<1>12. ASSUME ScanStalls(s) PROVE scan' = scan
  BY <1>12 DEF ScanStalls
<1>13. ASSUME ScanSteps(s)
       PROVE  \/ ScanStart(s) \/ ScanSnapshot(s) \/ ScanList(s) \/ ScanReconcile(s)
              \/ ScanFetch(s) \/ ScanFlush(s) \/ (ScanReady(s) \/ ScanRefused(s))
  BY <1>13 DEF ScanSteps
<1>14. scan' = scan \/ \E z \in Scans : ScanSteps(z) \/ ScanFails(z) \/ ScanStalls(z)
  BY ScanWriters
<1> QED
  BY <1>1, <1>3, <1>4, <1>5, <1>6, <1>7, <1>8, <1>9, <1>10, <1>11, <1>12, <1>13, <1>14

(* A read stays true of what has not changed since.                        *)
LEMMA ScanReadsStep ==
  ASSUME MInv, [Next]_vars, NEW s \in Scans
  PROVE  ScanReads(s)'
<1>0. /\ IInv /\ ScanReads(s) /\ history \in Seq(Events) /\ Latest = Len(history)
      /\ Latest \in Nat /\ Latest' \in Nat /\ Latest <= Latest'
      /\ row.cursor \in Nat \cup {None} /\ (row.cursor # None => row.cursor <= Latest)
      /\ gmail \in [Messages -> Labels \cup {"none", "gone"}]
      /\ scan[s].snapshot \in Nat /\ scan[s].listedAt \in Nat /\ scan[s].fetchedAt \in Nat
      /\ DOMAIN scan[s].fetched \subseteq Messages
  <2>1. IInv /\ ScanReads(s) /\ PlaceInv
    BY DEF MInv
  <2>2. /\ history \in Seq(Events) /\ Latest = Len(history) /\ Latest \in Nat
        /\ row.cursor \in Nat \cup {None}
    BY <2>1, Types
  <2>3. Latest' \in Nat /\ Latest <= Latest'
    BY <2>1, GoogleShape DEF Ids
  <2>4. gmail \in [Messages -> Labels \cup {"none", "gone"}]
    BY <2>1 DEF IInv, Shape
  <2>5. row.cursor # None => row.cursor <= Latest
    BY <2>1 DEF PlaceInv
  <2>6. /\ scan[s].snapshot \in Nat /\ scan[s].listedAt \in Nat /\ scan[s].fetchedAt \in Nat
        /\ DOMAIN scan[s].fetched \subseteq Messages
    BY <2>1, ScanTypes
  <2> QED
    BY <2>1, <2>2, <2>3, <2>4, <2>5, <2>6
<1>1. CASE scan'[s] = scan[s] /\ UNCHANGED <<gmail, history>>
  BY <1>0, <1>1, SMTT(30) DEF ScanReads
<1>2. ASSUME scan'[s] = scan[s], NEW x \in Messages, NEW kind \in Kinds, Logged(x, kind)
      PROVE  ScanReads(s)'
  <2> DEFINE event == [kind |-> kind, message |-> x]
  <2>1. event \in Events /\ event.kind = kind /\ event.message = x
    BY DEF Events
  <2>2. history' = Append(history, event)
    BY <1>2 DEF Logged
  <2> HIDE DEF event
  <2>3. ASSUME NEW m, NEW p \in Nat, p <= Latest
        PROVE  /\ Settled(history', m, p) <=> Settled(history, m, p) /\ x # m
               /\ Adds(history', m, p) <=> Adds(history, m, p) \/ (x = m /\ kind = "added")
    BY <1>0, <2>1, <2>2, <2>3, Appended
  <2>4. ASSUME scan[s].pc \in {"reconcile", "fetch", "flush"},
               NEW m \in Messages \ scan[s].listed, gmail'[m] \in Labels
        PROVE  Adds(history', m, scan[s].listedAt)
    <3>1. gmail[m] \in Labels \/ (x = m /\ kind = "added")
      BY <1>0, <1>2, <2>4 DEF Logged
    <3> QED
      BY <1>0, <2>3, <2>4, <3>1 DEF ScanReads
  <2>5. ASSUME NEW m \in DOMAIN scan[s].fetched, Settled(history', m, scan[s].fetchedAt)
        PROVE  gmail'[m] = scan[s].fetched[m]
    <3>1. x # m /\ Settled(history, m, scan[s].fetchedAt) /\ m \in Messages
      BY <1>0, <2>3, <2>5 DEF ScanReads
    <3>2. gmail'[m] = gmail[m]
      BY <1>0, <1>2, <3>1 DEF Logged
    <3> QED
      BY <1>0, <2>5, <3>1, <3>2 DEF ScanReads
  <2> QED
    BY <1>0, <1>2, <2>4, <2>5, SMTT(30) DEF ScanReads
<1>3. CASE UNCHANGED <<gmail, history>> /\ Idles(s)
  BY <1>0, <1>3 DEF Idles, ScanReads
<1>4. CASE UNCHANGED <<gmail, history>> /\ Snapshots(s)
  <2>1. Snapshot \in Nat /\ Snapshot <= Latest
    BY <1>0 DEF Snapshot
  <2> QED
    BY <1>0, <1>4, <2>1, SMTT(30) DEF Snapshots, ScanReads
<1>5. CASE UNCHANGED <<gmail, history>> /\ Lists(s)
  BY <1>0, <1>5, SMTT(30) DEF Lists, ScanReads
<1>6. CASE UNCHANGED <<gmail, history>> /\ Reconciles(s)
  BY <1>0, <1>6, SMTT(30) DEF Reconciles, KeepsList, ScanReads
<1>7. CASE UNCHANGED <<gmail, history>> /\ Fetches(s)
  <2>1. PICK chunk \in SUBSET scan[s].todo :
          scan'[s].fetched = [m \in {m \in chunk : gmail[m] \in Labels} |-> gmail[m]]
    BY <1>7 DEF Fetches
  <2>2. \A m \in DOMAIN scan'[s].fetched : scan'[s].fetched[m] = gmail[m]
    BY <2>1
  <2> QED
    BY <1>0, <1>7, <2>2, SMTT(30) DEF Fetches, KeepsList, ScanReads
<1>8. CASE UNCHANGED <<gmail, history>> /\ Flushes(s)
  BY <1>0, <1>8, SMTT(30) DEF Flushes, KeepsList, ScanReads
<1>9. ASSUME NEW x \in Messages, NEW kind \in Kinds, Logged(x, kind) PROVE scan'[s] = scan[s]
  BY <1>9 DEF Logged
<1> QED
  BY <1>0, <1>1, <1>2, <1>3, <1>4, <1>5, <1>6, <1>7, <1>8, <1>9, LogMoves, ScanMoves

-------------------------------------------------------------------------------
(* The places reached.                                                     *)

(* They are history ids of the past.                                       *)
LEMMA ReachedBound ==
  ASSUME MInv, NEW p \in Reached
  PROVE  p \in Nat /\ p <= Latest
<1>0. /\ IInv /\ PlaceInv /\ Latest \in Nat
      /\ row.cursor \in Nat \cup {None}
      /\ \A r \in Runs : /\ inc[r].from \in Nat /\ inc[r].pos \in Nat /\ inc[r].to \in Nat
                         /\ RunKnows(r)
  BY Types DEF MInv
<1>1. CASE p = base \/ (p = row.cursor /\ row.cursor # None)
  BY <1>0, <1>1 DEF PlaceInv
<1>2. ASSUME NEW r \in Runs, inc[r].pc = "lock", p = inc[r].from PROVE p \in Nat /\ p <= Latest
  BY <1>0, <1>2 DEF RunKnows
<1>3. ASSUME NEW r \in Runs, inc[r].pc = "apply", p = inc[r].pos PROVE p \in Nat /\ p <= Latest
  BY <1>0, <1>3 DEF RunKnows
<1> QED
  BY <1>1, <1>2, <1>3 DEF Reached

(* A run whose range has not expired is at the front: nothing has reached  *)
(* further than where it applies.                                          *)
LEMMA Front ==
  ASSUME MInv, NEW r \in Runs, inc[r].pc = "apply", ~ (inc[r].from < kept), NEW p \in Reached
  PROVE  p <= inc[r].pos
<1>0. /\ IInv /\ PlaceInv /\ RunKnows(r) /\ kept \in Nat /\ base \in Nat
      /\ inc[r].from \in Nat /\ inc[r].pos \in Nat
      /\ \A z \in Runs : RunKnows(z) /\ inc[z].from \in Nat /\ inc[z].pos \in Nat
      /\ p \in Nat
  BY Types, ReachedBound DEF MInv, PlaceInv
<1>1. row.cursor = inc[r].from /\ inc[r].from <= inc[r].pos /\ row.cursor # None
  BY <1>0, Types DEF RunKnows
<1>2. base <= row.cursor
  BY <1>0, <1>1 DEF PlaceInv
<1>3. ASSUME NEW z \in Runs, inc[z].pc = "lock" PROVE inc[z].from <= inc[r].pos
  <2>1. Known(inc[z].from)
    BY <1>0, <1>3 DEF RunKnows
  <2> QED
    BY <1>0, <1>1, <2>1 DEF Known
<1>4. ASSUME NEW z \in Runs, inc[z].pc = "apply" PROVE z = r
  BY <1>0, <1>4 DEF IInv, RunInv
<1> QED
  BY <1>0, <1>1, <1>2, <1>3, <1>4 DEF Reached

(* A place newly reached is no further than the cursor, is one record      *)
(* further than a run was, or is the new base.                             *)
LEMMA ReachedMoves ==
  ASSUME MInv, [Next]_vars, NEW p \in Nat, p \in Reached'
  PROVE  \/ p \in Reached
         \/ row.cursor # None /\ p <= row.cursor
         \/ \E r \in Runs : IncApply(r) /\ p = inc[r].pos + 1
         \/ \E s \in Scans : ScanSnapshot(s) /\ Owns(s) /\ row.cursor = None /\ p = Latest
<1>0. /\ IInv /\ kept \in Nat /\ row.cursor \in Nat \cup {None} /\ None \notin Nat
      /\ \A r \in Runs : /\ RunKnows(r) /\ inc[r].from \in Nat /\ inc[r].pos \in Nat
                         /\ inc[r].to \in Nat
  BY Types DEF MInv
<1>1. ASSUME p = base' PROVE p \in Reached \/ \E s \in Scans : ScanSnapshot(s) /\ Owns(s)
                                                /\ row.cursor = None /\ p = Latest
  BY <1>1, BaseMoves DEF Reached
<1>2. ASSUME p = row'.cursor
      PROVE  p \in Reached \/ \E s \in Scans : ScanSnapshot(s) /\ Owns(s)
                                                /\ row.cursor = None /\ p = Latest
  <2>1. ASSUME NEW r \in Runs, IncAdvance(r), row'.cursor = Advanced(inc[r].to) PROVE p \in Reached
    <3>1. inc[r].pc = "apply" /\ inc[r].pos = inc[r].to
      BY <2>1 DEF IncAdvance
    <3>2. inc[r].to \in Reached
      BY <3>1 DEF Reached
    <3>3. row.cursor # None => row.cursor \in Reached
      BY DEF Reached
    <3> QED
      BY <1>2, <2>1, <3>2, <3>3 DEF Advanced
  <2> QED
    BY <1>0, <1>2, <2>1, CursorMoves DEF Reached
<1>3. ASSUME NEW r \in Runs, inc'[r].pc = "lock", p = inc'[r].from
      PROVE  p \in Reached \/ (row.cursor # None /\ p <= row.cursor)
  <2>1. CASE inc'[r] = inc[r]
    BY <1>3, <2>1 DEF Reached
  <2>2. CASE inc'[r].from = inc[r].from /\ inc[r].pc = "page" /\ ~ (inc[r].from < kept)
    BY <1>0, <1>3, <2>2 DEF RunKnows, Known
  <2> QED
    BY <1>0, <1>3, <2>1, <2>2, RunMoves
<1>4. ASSUME NEW r \in Runs, inc'[r].pc = "apply", p = inc'[r].pos
      PROVE  p \in Reached \/ (IncApply(r) /\ p = inc[r].pos + 1)
  <2>1. CASE inc'[r] = inc[r]
    BY <1>4, <2>1 DEF Reached
  <2>2. CASE inc[r].pc = "lock" /\ inc'[r].pos = inc[r].from
    BY <1>4, <2>2 DEF Reached
  <2> QED
    BY <1>0, <1>4, <2>1, <2>2, RunMoves
<1> QED
  BY <1>1, <1>2, <1>3, <1>4 DEF Reached

(* A place that stays reached, or one that is older than the cursor, is    *)
(* followed already.                                                       *)
LEMMA FollowsReached ==
  ASSUME MInv, NEW m \in Correct, NEW p \in Nat, p >= base,
         p \in Reached \/ (row.cursor # None /\ p <= row.cursor)
  PROVE  Follows(m, p)
<1>0. IInv /\ MirrorInv /\ base \in Nat /\ row.cursor \in Nat \cup {None}
  BY Types DEF MInv, PlaceInv
<1>1. CASE p \in Reached
  BY <1>0, <1>1 DEF MirrorInv
<1>2. CASE row.cursor # None /\ p <= row.cursor
  <2>1. row.cursor \in Reached /\ row.cursor \in Nat /\ row.cursor >= base
    BY <1>0, <1>2 DEF Reached
  <2>2. Follows(m, row.cursor)
    BY <1>0, <2>1 DEF MirrorInv
  <2> QED
    BY <1>0, <1>2, <2>1, <2>2, FollowsEarlier
<1> QED
  BY <1>1, <1>2

-------------------------------------------------------------------------------
(* What a scan that owns the attempt has covered.                          *)

(* The steps that take a message out of the mirror, for one that is still  *)
(* in Gmail: it came after the new base, or is left out from then on.      *)
LEMMA MirrorKeeps ==
  ASSUME MInv, [Next]_vars, NEW m \in Messages, m \notin rewound',
         gmail[m] \in Labels, mirror[m] # "none", UNCHANGED <<gmail, history>>
  PROVE  mirror'[m] # "none" \/ Adds(history, m, base)
<1>0. /\ IInv /\ PlaceInv /\ LogInv(m) /\ history \in Seq(Events) /\ Latest = Len(history)
      /\ base \in Nat /\ mirror \in [Messages -> Labels \cup {"none"}] /\ base \in Reached
  BY Types DEF MInv, PlaceInv, IInv, Shape, Reached
<1>1. ASSUME NEW r \in Runs, IncApply(r) PROVE mirror'[m] # "none"
  <2>1. inc[r].pc = "apply" /\ inc[r].pos < inc[r].to /\ inc[r].to <= Latest
    BY <1>1 DEF IncApply, MInv, RunKnows
  <2>2. inc[r].pos + 1 \in DOMAIN history
    <3>1. inc[r].pos \in Nat /\ inc[r].to \in Nat
      BY <1>0, Types
    <3> QED
      BY <1>0, <2>1, <3>1, SMTT(30)
  <2> DEFINE event == history[inc[r].pos + 1]
  <2>3. event.message = m => event.kind # "deleted"
    BY <1>0, <2>2 DEF LogInv
  <2>4. mirror' = Applied(event)
    BY <1>1 DEF IncApply
  <2> HIDE DEF event
  <2> QED
    BY <1>0, <2>3, <2>4 DEF Applied, Labels
<1>2. ASSUME NEW s \in Scans, ScanReconcile(s)
      PROVE  mirror'[m] # "none" \/ Adds(history, m, base)
  <2> DEFINE removed == {x \in Messages \ scan[s].listed : mirror[x] # "none"}
  <2>1. /\ scan[s].pc = "reconcile"
        /\ mirror' = [x \in Messages |-> IF x \in removed THEN "none" ELSE mirror[x]]
        /\ rewound' = rewound \cup Rewinds(scan[s].listedAt, removed)
    BY <1>2 DEF ScanReconcile
  <2>2. CASE m \notin removed
    BY <2>1, <2>2
  <2>3. CASE m \in removed
    <3>1. Adds(history, m, scan[s].listedAt)
      BY <2>1, <2>3 DEF MInv, ScanReads
    <3>2. scan[s].listedAt \in Nat
      BY <1>0, ScanTypes
    <3>3. base <= scan[s].listedAt
      BY <1>0, <2>1, <2>3, <3>2 DEF Rewinds
    <3> QED
      BY <1>0, <3>1, <3>2, <3>3, Earlier
  <2> QED
    BY <2>2, <2>3
<1>3. ASSUME NEW s \in Scans, ScanFlush(s) PROVE mirror'[m] # "none"
  <2>1. \A x \in DOMAIN scan[s].fetched : scan[s].fetched[x] \in Labels
    BY <1>0, ScanTypes
  <2> QED
    BY <1>3, <2>1 DEF ScanFlush, Labels
<1>4. ASSUME NEW x \in Messages, NEW label \in Labels, ActionMoves(x, label)
      PROVE  mirror'[m] # "none"
  BY <1>0, <1>4 DEF ActionMoves, Labels
<1> QED
  BY <1>1, <1>2, <1>3, <1>4, MirrorWriters

(* A scan takes the attempt only when it starts.                           *)
LEMMA OwnsBefore ==
  ASSUME IInv, [Next]_vars, NEW s \in Scans, row'.attempt = s,
         scan'[s].pc \in {"list", "reconcile", "fetch", "flush"}
  PROVE  row.attempt = s
<1>0. scan \in [Scans -> ScanStates] /\ s # None
  BY ScanTypes DEF IInv, Shape
<1>1. ASSUME ScanStart(s) PROVE FALSE
  <2> DEFINE run == [IdleScan EXCEPT !.pc = "snapshot", !.connect = connects]
  <2>1. scan[s].pc = "idle"
    BY <1>0, <1>1 DEF ScanStart, Free
  <2>2. scan' = scan \/ scan' = [scan EXCEPT ![s] = run]
    BY <1>1 DEF ScanStart
  <2>3. run.pc = "snapshot"
    BY DEF IdleScan
  <2> HIDE DEF run
  <2> QED
    BY <1>0, <2>1, <2>2, <2>3
<1> QED
  BY <1>0, <1>1, AttemptMoves

(* Each message an owner listed stays to be fetched, about to be written,  *)
(* or stored, although runs and other scans write the mirror meanwhile.    *)
LEMMA CoveredStep ==
  ASSUME MInv, [Next]_vars, NEW s \in Scans, row.attempt = s, base' = base,
         scan'[s].pc \in {"fetch", "flush"},
         NEW m \in scan'[s].listed, m \in Correct', gmail'[m] \in Labels
  PROVE  Covered(s, m)'
<1>0. /\ IInv /\ IInv' /\ ScanOwns(s) /\ PlaceInv /\ history \in Seq(Events) /\ Latest = Len(history)
      /\ base \in Nat /\ base <= Latest /\ m \in Messages /\ m \notin rewound' /\ m \in Correct
      /\ mirror \in [Messages -> Labels \cup {"none"}]
      /\ gmail \in [Messages -> Labels \cup {"none", "gone"}]
  BY Types, NextIInv, CorrectMoves DEF MInv, PlaceInv, IInv, Shape, Correct
<1>1. ASSUME scan'[s] = scan[s], NEW x \in Messages, NEW kind \in Kinds, Logged(x, kind)
      PROVE  Covered(s, m)'
  <2> DEFINE event == [kind |-> kind, message |-> x]
  <2>1. event \in Events /\ event.kind = kind /\ event.message = x
    BY DEF Events
  <2>2. history' = Append(history, event)
    BY <1>1 DEF Logged
  <2> HIDE DEF event
  <2>3. Adds(history', m, base) <=> Adds(history, m, base) \/ (x = m /\ kind = "added")
    BY <1>0, <2>1, <2>2, Appended
  <2>4. Adds(history', m, base') <=> Adds(history, m, base) \/ (x = m /\ kind = "added")
    BY <2>3
  <2>5. CASE x = m /\ kind = "added"
    BY <2>4, <2>5 DEF Covered
  <2>6. CASE ~ (x = m /\ kind = "added")
    <3>1. gmail[m] \in Labels
      BY <1>0, <1>1, <2>6 DEF Logged
    <3>2. Covered(s, m)
      BY <1>0, <1>1, <3>1 DEF ScanOwns
    <3>3. mirror[m] # "none" => mirror'[m] # "none"
      BY <1>0, <1>1 DEF Logged, Labels
    <3> QED
      BY <1>1, <2>4, <3>2, <3>3 DEF Covered
  <2> QED
    BY <2>5, <2>6
<1>2. CASE UNCHANGED <<gmail, history>>
  <2>1. mirror[m] # "none" => Covered(s, m)'
    BY <1>0, <1>2, MirrorKeeps DEF Covered
  <2>2. Adds(history, m, base) => Covered(s, m)'
    BY <1>2 DEF Covered
  <2>3. CASE scan'[s] = scan[s]
    <3>1. Covered(s, m)
      BY <1>0, <1>2, <2>3 DEF ScanOwns
    <3> QED
      BY <2>1, <2>2, <2>3, <3>1 DEF Covered
  <2>4. CASE Reconciles(s)
    BY <2>1, <2>4 DEF Reconciles, KeepsList, Skipped, Covered
  <2>5. CASE Fetches(s)
    <3>1. scan[s].pc = "fetch" /\ scan'[s].pc = "flush" /\ scan'[s].listed = scan[s].listed
      BY <2>5 DEF Fetches, KeepsList
    <3>2. PICK chunk \in SUBSET scan[s].todo :
            /\ scan'[s].todo = scan[s].todo \ chunk
            /\ scan'[s].fetched = [x \in {x \in chunk : gmail[x] \in Labels} |-> gmail[x]]
      BY <2>5 DEF Fetches
    <3>3. Covered(s, m)
      BY <1>0, <1>2, <3>1 DEF ScanOwns
    <3>4. CASE m \in scan[s].todo
      BY <1>2, <3>1, <3>2, <3>4 DEF Covered
    <3> QED
      BY <2>1, <2>2, <3>1, <3>3, <3>4 DEF Covered
  <2>6. CASE Flushes(s)
    <3>1. /\ scan[s].pc = "flush" /\ scan'[s].todo = scan[s].todo /\ ScanFlush(s)
          /\ scan'[s].listed = scan[s].listed
      BY <2>6 DEF Flushes, KeepsList
    <3>2. Covered(s, m)
      BY <1>0, <1>2, <3>1 DEF ScanOwns
    <3>3. ASSUME m \in DOMAIN scan[s].fetched PROVE mirror'[m] # "none"
      <4>1. scan[s].fetched[m] \in Labels
        BY <1>0, <3>3, ScanTypes
      <4> QED
        BY <1>0, <3>1, <3>3, <4>1 DEF ScanFlush, Labels
    <3> QED
      BY <2>1, <2>2, <3>1, <3>2, <3>3 DEF Covered
  <2>7. ~ Idles(s) /\ ~ Snapshots(s) /\ ~ Lists(s)
    BY DEF Idles, Snapshots, Lists
  <2> QED
    BY <1>0, <2>3, <2>4, <2>5, <2>6, <2>7, ScanMoves
<1>3. ASSUME NEW x \in Messages, NEW kind \in Kinds, Logged(x, kind) PROVE scan'[s] = scan[s]
  BY <1>3 DEF Logged
<1> QED
  BY <1>0, <1>1, <1>2, <1>3, LogMoves

LEMMA ScanOwnsStep ==
  ASSUME MInv, [Next]_vars, NEW s \in Scans
  PROVE  ScanOwns(s)'
<1> SUFFICES ASSUME row'.attempt = s, scan'[s].pc \in {"list", "reconcile", "fetch", "flush"}
             PROVE  /\ row'.cursor # None /\ scan'[s].snapshot <= row'.cursor
                    /\ scan'[s].pc \in {"reconcile", "fetch", "flush"} => base' <= scan'[s].listedAt
                    /\ scan'[s].pc \in {"fetch", "flush"} =>
                         \A m \in scan'[s].listed \cap Correct' :
                           gmail'[m] \in Labels => Covered(s, m)'
  BY DEF ScanOwns
<1>0. /\ IInv /\ ScanOwns(s) /\ row.attempt = s /\ s # None /\ None \notin Nat
      /\ row \in RowStates /\ row.cursor \in Nat \cup {None} /\ Latest \in Nat
      /\ scan[s].snapshot \in Nat /\ base \in Nat /\ base <= Latest
  BY Types, ScanTypes, OwnsBefore DEF MInv, PlaceInv
<1>1. CASE Snapshots(s)
  <2> DEFINE to == Snapshot
  <2>1. row' = [row EXCEPT !.cursor = to] /\ scan'[s].snapshot = to /\ scan'[s].pc = "list"
    BY <1>1 DEF Snapshots, ScanSnapshot
  <2>2. to \in Nat
    BY <1>0 DEF Snapshot
  <2> HIDE DEF to
  <2>3. row'.cursor = to
    BY <1>0, <2>1 DEF RowStates
  <2> QED
    BY <1>0, <2>1, <2>2, <2>3
<1>2. CASE ~ Snapshots(s)
  <2>1. /\ scan[s].pc \in {"list", "reconcile", "fetch", "flush"}
        /\ scan'[s].snapshot = scan[s].snapshot
        /\ \/ scan[s].pc \in {"reconcile", "fetch", "flush"} /\ scan'[s].listedAt = scan[s].listedAt
           \/ Lists(s)
           \/ scan'[s].pc = "list"
    BY <1>0, <1>2, ScanMoves
       DEF Idles, Lists, Reconciles, Fetches, Flushes, KeepsList
  <2>2. row.cursor # None /\ scan[s].snapshot <= row.cursor
    BY <1>0, <2>1 DEF ScanOwns
  <2>3. base' = base
    BY <2>2, BaseMoves
  <2>4. row'.cursor # None /\ scan'[s].snapshot <= row'.cursor
    <3>1. ASSUME NEW r \in Runs, row'.cursor = Advanced(inc[r].to)
          PROVE  row'.cursor # None /\ scan[s].snapshot <= row'.cursor
      <4>1. inc[r].to \in Nat
        BY <1>0, Types
      <4> QED
        BY <1>0, <2>2, <3>1, <4>1 DEF Advanced
    <3> QED
      BY <1>0, <2>1, <2>2, <3>1, CursorMoves
  <2>5. scan'[s].pc \in {"reconcile", "fetch", "flush"} => base' <= scan'[s].listedAt
    BY <1>0, <2>1, <2>3 DEF ScanOwns, Lists
  <2>6. ASSUME scan'[s].pc \in {"fetch", "flush"}, NEW m \in scan'[s].listed \cap Correct',
               gmail'[m] \in Labels
        PROVE  Covered(s, m)'
    BY <1>0, <2>3, <2>6, CoveredStep
  <2> QED
    BY <2>4, <2>5, <2>6
<1> QED
  BY <1>1, <1>2

-------------------------------------------------------------------------------
(* The mirror follows Gmail from every place reached.                      *)

(* Gmail changes: the new record comes after every place.                  *)
LEMMA FollowsLogged ==
  ASSUME MInv, [Next]_vars, NEW x \in Messages, NEW kind \in Kinds, Logged(x, kind),
         NEW m \in Correct', NEW p \in Reached', p >= base'
  PROVE  Follows(m, p)'
<1>0. /\ IInv /\ PlaceInv /\ MirrorInv /\ history \in Seq(Events) /\ Latest = Len(history)
      /\ base \in Nat /\ base <= Latest /\ m \in Correct /\ m \in Messages
      /\ gmail \in [Messages -> Labels \cup {"none", "gone"}]
      /\ mirror \in [Messages -> Labels \cup {"none"}]
  BY Types, CorrectMoves DEF MInv, PlaceInv, IInv, Shape, Correct
<1>1. p \in Reached /\ base' = base /\ row' = row
  BY DEF Reached, Logged
<1>2. p \in Nat /\ p <= Latest /\ Follows(m, p)
  BY <1>0, <1>1, ReachedBound DEF MirrorInv
<1> DEFINE event == [kind |-> kind, message |-> x]
<1>3. event \in Events /\ event.kind = kind /\ event.message = x
  BY DEF Events
<1>4. history' = Append(history, event)
  BY DEF Logged
<1> HIDE DEF event
<1>5. /\ Settled(history', m, p) <=> Settled(history, m, p) /\ x # m
      /\ Adds(history', m, p) <=> Adds(history, m, p) \/ (x = m /\ kind = "added")
      /\ Adds(history', m, base') <=> Adds(history, m, base) \/ (x = m /\ kind = "added")
  BY <1>0, <1>1, <1>2, <1>3, <1>4, Appended
<1>6. CASE m # x
  <2>1. gmail'[m] = gmail[m] /\ mirror'[m] = mirror[m]
    BY <1>0, <1>6 DEF Logged
  <2> QED
    BY <1>1, <1>2, <1>5, <1>6, <2>1 DEF Follows, Due
<1>7. CASE m = x
  <2>1. gmail'[m] = IF kind = "added" THEN "on" ELSE IF kind = "deleted" THEN "gone" ELSE kind
    BY <1>0, <1>7 DEF Logged
  <2>2. kind \in {"added", "deleted", "on", "off"}
    BY DEF Kinds, Labels
  <2>3. gmail'[m] # "none" /\ ~ Settled(history', m, p)
    BY <1>5, <1>7, <2>1, <2>2
  <2>4. ASSUME gmail'[m] \in Labels, Due(m)', ~ Adds(history', m, p) PROVE mirror'[m] # "none"
    <3>1. kind # "added" /\ gmail[m] \in Labels /\ Due(m) /\ ~ Adds(history, m, p)
      BY <1>1, <1>5, <1>7, <2>4 DEF Logged, Due
    <3>2. mirror[m] # "none"
      BY <1>2, <3>1 DEF Follows
    <3> QED
      BY <1>0, <1>7, <3>2 DEF Logged, Labels
  <2> QED
    BY <2>3, <2>4 DEF Follows, Labels
<1> QED
  BY <1>6, <1>7

(* A new base is taken: what is not stored is still to be scanned.         *)
LEMMA FollowsBase ==
  ASSUME MInv, [Next]_vars, NEW s \in Scans, ScanSnapshot(s), Owns(s), row.cursor = None,
         base' = Latest, based' = based \cup Stored,
         NEW m \in Correct', NEW p \in Nat, p \in Reached', p >= base'
  PROVE  Follows(m, p)'
<1>0. /\ IInv /\ history \in Seq(Events) /\ Latest = Len(history) /\ Latest \in Nat
      /\ row \in RowStates /\ m \in Messages /\ s # None
  BY Types, ScanTypes DEF MInv, Correct
<1>1. UNCHANGED <<history, gmail, mirror, inc>>
  BY <1>0, NewBase
<1>2. mirror'[m] = "none"
  BY <1>0, <1>1 DEF Correct, Stored
<1>3. row'.readiness # "ready"
  <2>1. row.readiness # "ready"
    BY <1>0 DEF IInv, RowInv, Owns
  <2>2. row' = [row EXCEPT !.cursor = Snapshot]
    BY DEF ScanSnapshot
  <2> QED
    BY <1>0, <2>1, <2>2 DEF RowStates
<1>4. ~ Adds(history', m, base')
  BY <1>0, <1>1, AtEnd
<1> QED
  BY <1>2, <1>3, <1>4 DEF Follows, Due, Labels

(* A run applies a record.  If the record is about m and m is not left     *)
(* out, no place is further than the run, and its next place is one that   *)
(* promises most.                                                          *)
LEMMA FollowsApply ==
  ASSUME MInv, [Next]_vars, NEW r \in Runs, IncApply(r),
         NEW m \in Correct', NEW p \in Nat, p \in Reached', p >= base'
  PROVE  Follows(m, p)'
<1>0. /\ IInv /\ IInv' /\ MirrorInv /\ LogInv(m) /\ base \in Nat /\ None \notin Nat
      /\ history \in Seq(Events) /\ Latest = Len(history)
      /\ m \in Correct /\ m \in Messages /\ m \notin rewound'
      /\ gmail \in [Messages -> Labels \cup {"none", "gone"}]
      /\ mirror \in [Messages -> Labels \cup {"none"}]
      /\ row.cursor \in Nat \cup {None}
  BY Types, NextIInv, CorrectMoves DEF MInv, PlaceInv, IInv, Shape, Correct
<1>1. UNCHANGED <<gmail, history, row, base>>
  BY DEF IncApply
<1>2. /\ inc[r].pc = "apply" /\ inc[r].pos \in Nat /\ inc[r].pos \in Reached
      /\ inc[r].pos + 1 \in DOMAIN history
  <2>1. inc[r].pc = "apply" /\ inc[r].pos < inc[r].to /\ inc[r].to <= Latest
    BY DEF IncApply, MInv, RunKnows
  <2>2. inc[r].pos \in Nat /\ inc[r].to \in Nat
    BY <1>0, Types
  <2>3. inc[r].pos + 1 \in 1 .. Len(history)
    BY <1>0, <2>1, <2>2, SMTT(30)
  <2> QED
    BY <1>0, <2>1, <2>2, <2>3 DEF Reached
<1>7. PICK pos \in Nat : pos = inc[r].pos
  BY <1>2
<1> DEFINE event == history[pos + 1]
<1>3. mirror' = Applied(event)
  BY <1>7 DEF IncApply
<1>4. \/ p \in Reached
      \/ row.cursor # None /\ p <= row.cursor
      \/ p = pos + 1
  <2>1. ASSUME NEW z \in Runs, IncApply(z) PROVE z = r
    BY <1>0, <1>2, <2>1 DEF IncApply, IInv, RunInv
  <2>2. ASSUME NEW s \in Scans, ScanSnapshot(s), Owns(s), row.cursor = None PROVE FALSE
    BY <1>0, <1>1, <2>2, NewBase
  <2> QED
    BY <2>1, <2>2, <1>7, ReachedMoves
<1>5. CASE event.message # m
  <2>1. Follows(m, p)
    <3>1. CASE p \in Reached \/ (row.cursor # None /\ p <= row.cursor)
      BY <1>0, <1>1, <3>1, FollowsReached
    <3>2. CASE p = pos + 1 /\ pos >= base
      <4>1. Follows(m, pos)
        BY <1>0, <1>2, <1>7, <3>2 DEF MirrorInv
      <4>2. /\ Settled(history, m, pos) <=> Settled(history, m, pos + 1)
            /\ Adds(history, m, pos) <=> Adds(history, m, pos + 1)
        BY <1>0, <1>2, <1>5, <1>7, Further
      <4> QED
        BY <3>2, <4>1, <4>2 DEF Follows
    <3>3. CASE p = pos + 1 /\ ~ (pos >= base)
      <4>1. p = base /\ base \in Reached
        BY <1>0, <1>1, <1>7, <3>3, SMTT(30) DEF Reached
      <4> QED
        BY <1>0, <4>1 DEF MirrorInv
    <3> QED
      BY <1>4, <3>1, <3>2, <3>3
  <2>2. mirror'[m] = mirror[m]
    BY <1>0, <1>3, <1>5 DEF Applied
  <2> HIDE DEF event
  <2> QED
    BY <1>1, <2>1, <2>2 DEF Follows, Due
<1>6. CASE event.message = m
  <2>1. \A q \in Reached : q <= pos
    <3>1. CASE inc[r].from < kept
      <4>1. rewound' = rewound \cup Rewinds(pos, {event.message})
        BY <1>7, <3>1 DEF IncApply
      <4>2. ~ \E at \in Reached : at > pos
        BY <1>0, <1>6, <4>1 DEF Rewinds
      <4> QED
        BY <1>7, <4>2, ReachedBound
    <3> QED
      BY <1>2, <1>7, <3>1, Front
  <2>2. Follows(m, pos)
    <3>1. base <= pos
      BY <2>1 DEF Reached
    <3> QED
      BY <1>0, <1>2, <1>7, <3>1 DEF MirrorInv
  <2>3. Adds(history, m, pos) <=> Adds(history, m, pos + 1) \/ event.kind = "added"
    BY <1>0, <1>2, <1>6, <1>7, Further
  <2>4. /\ gmail[m] # "none"
        /\ gmail[m] = "gone" /\ Settled(history, m, pos + 1) => event.kind = "deleted"
        /\ gmail[m] \in Labels => event.kind # "deleted"
        /\ gmail[m] \in Labels /\ Settled(history, m, pos + 1) => event.kind \in {"added", gmail[m]}
    BY <1>0, <1>2, <1>6, <1>7 DEF LogInv
  <2> HIDE DEF event
  <2>5. mirror'[m] = IF event.kind = "added" /\ gmail[m] \in Labels THEN gmail[m]
                     ELSE IF event.kind = "deleted" THEN "none"
                     ELSE IF event.kind \in Labels /\ mirror[m] # "none" THEN event.kind
                     ELSE mirror[m]
    BY <1>0, <1>3, <1>6 DEF Applied, Labels
  <2>6. Follows(m, pos + 1)'
    <3>1. gmail[m] = "gone" /\ Settled(history, m, pos + 1) => mirror'[m] = "none"
      BY <2>4, <2>5 DEF Labels
    <3>2. gmail[m] \in Labels /\ Settled(history, m, pos + 1) => mirror'[m] \in {"none", gmail[m]}
      BY <2>4, <2>5 DEF Labels
    <3>3. ASSUME gmail[m] \in Labels, Due(m), ~ Adds(history, m, pos + 1)
          PROVE  mirror'[m] # "none"
      BY <2>2, <2>3, <2>4, <2>5, <3>3 DEF Follows, Labels
    <3>4. Due(m)' = Due(m)
      BY <1>1 DEF Due
    <3> QED
      BY <1>1, <2>4, <3>1, <3>2, <3>3, <3>4 DEF Follows
  <2>7. p <= pos + 1
    <3>1. row.cursor # None => row.cursor \in Reached
      BY DEF Reached
    <3> QED
      BY <1>0, <1>4, <2>1, <3>1
  <2> QED
    BY <1>0, <2>6, <2>7, FollowsEarlierNext
<1> QED
  BY <1>5, <1>6

(* A scan deletes what Gmail did not list, or upserts what it fetched: a   *)
(* message that is not left out was read after every place reached.        *)
LEMMA FollowsReconcile ==
  ASSUME MInv, [Next]_vars, NEW s \in Scans, ScanReconcile(s),
         NEW m \in Correct', NEW p \in Reached', p >= base'
  PROVE  Follows(m, p)'
<1>0. /\ IInv /\ MirrorInv /\ history \in Seq(Events) /\ m \in Correct /\ m \in Messages
      /\ m \notin rewound' /\ mirror \in [Messages -> Labels \cup {"none"}]
      /\ scan[s].listedAt \in Nat
  BY Types, ScanTypes, CorrectMoves DEF MInv, IInv, Shape, Correct
<1>1. UNCHANGED <<gmail, history, row, inc, base>> /\ scan[s].pc = "reconcile"
  BY DEF ScanReconcile
<1>2. p \in Reached /\ p \in Nat /\ Follows(m, p)
  <2>1. p \in Reached
    BY <1>1 DEF Reached
  <2> QED
    BY <1>0, <1>1, <2>1, ReachedBound DEF MirrorInv
<1> DEFINE removed == {x \in Messages \ scan[s].listed : mirror[x] # "none"}
<1>3. /\ mirror' = [x \in Messages |-> IF x \in removed THEN "none" ELSE mirror[x]]
      /\ rewound' = rewound \cup Rewinds(scan[s].listedAt, removed)
  BY DEF ScanReconcile
<1>4. CASE m \notin removed
  <2>1. mirror'[m] = mirror[m]
    BY <1>0, <1>3, <1>4
  <2> QED
    BY <1>1, <1>2, <2>1 DEF Follows, Due
<1>5. CASE m \in removed
  <2>1. mirror'[m] = "none"
    BY <1>0, <1>3, <1>5
  <2>2. p <= scan[s].listedAt
    BY <1>0, <1>2, <1>3, <1>5 DEF Rewinds
  <2>3. gmail[m] \in Labels => Adds(history, m, p)
    <3>1. gmail[m] \in Labels => Adds(history, m, scan[s].listedAt)
      BY <1>1, <1>5 DEF MInv, ScanReads
    <3> QED
      BY <1>0, <1>2, <2>2, <3>1, Earlier
  <2> QED
    BY <1>1, <2>1, <2>3 DEF Follows
<1> QED
  BY <1>4, <1>5

LEMMA FollowsFlush ==
  ASSUME MInv, [Next]_vars, NEW s \in Scans, ScanFlush(s),
         NEW m \in Correct', NEW p \in Reached', p >= base'
  PROVE  Follows(m, p)'
<1>0. /\ IInv /\ MirrorInv /\ LogInv(m) /\ history \in Seq(Events) /\ m \in Correct /\ m \in Messages
      /\ m \notin rewound' /\ mirror \in [Messages -> Labels \cup {"none"}]
      /\ scan[s].fetchedAt \in Nat
      /\ \A x \in DOMAIN scan[s].fetched : scan[s].fetched[x] \in Labels
  BY Types, ScanTypes, CorrectMoves DEF MInv, IInv, Shape, Correct
<1>1. UNCHANGED <<gmail, history, row, inc, base>>
  BY DEF ScanFlush
<1>2. p \in Reached /\ p \in Nat /\ Follows(m, p)
  <2>1. p \in Reached
    BY <1>1 DEF Reached
  <2> QED
    BY <1>0, <1>1, <2>1, ReachedBound DEF MirrorInv
<1> DEFINE written == DOMAIN scan[s].fetched
<1>3. /\ mirror' = [x \in Messages |-> IF x \in written THEN scan[s].fetched[x] ELSE mirror[x]]
      /\ rewound' = rewound \cup Rewinds(scan[s].fetchedAt, written)
  BY DEF ScanFlush
<1>4. CASE m \notin written
  <2>1. mirror'[m] = mirror[m]
    BY <1>0, <1>3, <1>4
  <2> QED
    BY <1>1, <1>2, <2>1 DEF Follows, Due
<1>5. CASE m \in written
  <2>1. mirror'[m] = scan[s].fetched[m] /\ mirror'[m] \in Labels
    BY <1>0, <1>3, <1>5
  <2>2. p <= scan[s].fetchedAt
    BY <1>0, <1>2, <1>3, <1>5 DEF Rewinds
  <2>3. Settled(history, m, p) => gmail[m] = scan[s].fetched[m]
    <3>1. Settled(history, m, p) => Settled(history, m, scan[s].fetchedAt)
      BY <1>0, <1>2, <2>2, Earlier
    <3> QED
      BY <1>5, <3>1 DEF MInv, ScanReads
  <2>4. gmail[m] = "none" => Settled(history, m, p)
    BY <1>0 DEF LogInv, Settled
  <2> QED
    BY <1>1, <2>1, <2>3, <2>4 DEF Follows, Labels
<1> QED
  BY <1>4, <1>5

(* The other steps write no message.  The one that makes the mailbox ready *)
(* ends a scan that has covered all it listed, and what it did not list    *)
(* came after the new base.                                                *)
LEMMA FollowsOther ==
  ASSUME MInv, [Next]_vars, UNCHANGED <<gmail, history, mirror, base>>,
         NEW m \in Correct', NEW p \in Nat, p \in Reached', p >= base'
  PROVE  Follows(m, p)'
<1>0. /\ IInv /\ base \in Nat /\ m \in Correct /\ m \in Messages /\ base \in Reached
      /\ history \in Seq(Events) /\ row.cursor \in Nat \cup {None} /\ None \notin Nat
  BY Types, CorrectMoves DEF MInv, PlaceInv, Correct, Reached
<1>1. Follows(m, p) \/ \E r \in Runs : IncApply(r)
  <2>1. ASSUME NEW s \in Scans, ScanSnapshot(s), Owns(s), row.cursor = None, p = Latest
        PROVE  p \in Reached
    BY <1>0, <2>1 DEF ScanSnapshot
  <2> QED
    BY <1>0, <2>1, ReachedMoves, FollowsReached
<1>2. ASSUME NEW r \in Runs, IncApply(r) PROVE Follows(m, p)'
  BY <1>2, FollowsApply
<1>3. CASE Follows(m, p)
  <2>1. ASSUME Due(m)' => Due(m) PROVE Follows(m, p)'
    BY <1>3, <2>1 DEF Follows
  <2>2. ASSUME row'.readiness = "ready", row.readiness # "ready", gmail[m] \in Labels
        PROVE  mirror[m] # "none" \/ Due(m)
    <3>1. PICK s \in Scans : ScanReady(s) /\ Owns(s)
      BY <1>0, <2>2, ReadyMoves
    <3>2. scan[s].pc = "fetch" /\ scan[s].todo = {} /\ row.attempt = s
      BY <3>1 DEF ScanReady, Owns
    <3>3. CASE m \in scan[s].listed
      BY <1>0, <2>2, <3>2, <3>3 DEF MInv, ScanOwns, Covered, Due
    <3>4. CASE m \notin scan[s].listed
      <4>1. Adds(history, m, scan[s].listedAt) /\ base <= scan[s].listedAt
        BY <1>0, <2>2, <3>2, <3>4 DEF MInv, ScanReads, ScanOwns
      <4> QED
        BY <1>0, <4>1, ScanTypes, Earlier DEF Due
    <3> QED
      BY <3>3, <3>4
  <2>3. ASSUME ~ (Due(m)' => Due(m)) PROVE row'.readiness = "ready" /\ row.readiness # "ready" /\ ~ Due(m)
    BY <2>3 DEF Due
  <2>4. ASSUME ~ (Due(m)' => Due(m)) PROVE Follows(m, p)'
    BY <1>3, <2>2, <2>3, <2>4 DEF Follows
  <2> QED
    BY <2>1, <2>4
<1> QED
  BY <1>1, <1>2, <1>3

LEMMA MirrorStep ==
  ASSUME MInv, [Next]_vars
  PROVE  MirrorInv'
<1> SUFFICES ASSUME NEW m \in Correct', NEW p \in Reached', p >= base'
             PROVE  Follows(m, p)'
  BY DEF MirrorInv
<1>0. IInv /\ IInv' /\ base' \in Nat
  BY NextIInv, PlaceStep DEF MInv, PlaceInv
<1>1. p \in Nat
  <2>1. row'.cursor \in Nat \cup {None}
    BY <1>0 DEF IInv, Shape, RowStates, Ids
  <2>2. ASSUME NEW r \in Runs PROVE inc'[r].from \in Nat /\ inc'[r].pos \in Nat
    <3>1. inc'[r] \in RunStates
      BY <1>0 DEF IInv, Shape
    <3> QED
      BY <3>1 DEF RunStates, Ids
  <2> QED
    BY <1>0, <2>1, <2>2 DEF Reached
<1>2. ASSUME NEW x \in Messages, NEW kind \in Kinds, Logged(x, kind) PROVE Follows(m, p)'
  BY <1>2, FollowsLogged
<1>3. CASE UNCHANGED <<gmail, history>>
  <2>1. CASE base' = base /\ mirror' = mirror
    BY <1>1, <1>3, <2>1, FollowsOther
  <2>2. ASSUME base' # base PROVE Follows(m, p)'
    BY <1>1, <2>2, BaseMoves, FollowsBase
  <2>3. ASSUME NEW r \in Runs, IncApply(r) PROVE Follows(m, p)'
    BY <1>1, <2>3, FollowsApply
  <2>4. ASSUME NEW s \in Scans, ScanReconcile(s) \/ ScanFlush(s) PROVE Follows(m, p)'
    BY <2>4, FollowsReconcile, FollowsFlush
  <2>5. ASSUME NEW x \in Messages, NEW label \in Labels, ActionMoves(x, label) PROVE FALSE
    <3>1. gmail \in [Messages -> Labels \cup {"none", "gone"}]
      BY <1>0 DEF IInv, Shape
    <3> QED
      BY <1>3, <2>5, <3>1 DEF ActionMoves
  <2> QED
    BY <2>1, <2>2, <2>3, <2>4, <2>5, MirrorWriters
<1> QED
  BY <1>0, <1>2, <1>3, LogMoves

(* At the start nothing is stored, and the history is empty.               *)
LEMMA InitMInv == Init => MInv
<1> SUFFICES ASSUME Init PROVE MInv
  OBVIOUS
<1>0. /\ IInv /\ history = <<>> /\ Latest = 0 /\ None \notin Nat
      /\ row.cursor = None /\ row.readiness = "queued" /\ row.attempt = None /\ base = 0
      /\ queue.waiting = None /\ queue.follow = None /\ queue.active = None
      /\ inc = [r \in Runs |-> IdleRun] /\ scan = [s \in Scans |-> IdleScan]
      /\ \A m \in Messages : gmail[m] \in {"on", "none"} /\ mirror[m] = "none"
  BY InitIInv DEF Init, Latest
<1>1. PlaceInv
  BY <1>0 DEF PlaceInv
<1>2. \A r \in Runs : RunKnows(r)
  BY <1>0 DEF RunKnows, IdleRun
<1>3. \A s \in Scans : ScanReads(s) /\ ScanOwns(s)
  BY <1>0 DEF ScanReads, ScanOwns, IdleScan
<1>4. \A m \in Messages : LogInv(m)
  BY <1>0 DEF LogInv
<1>5. MirrorInv
  <2>1. \A m : ~ Adds(history, m, base)
    BY <1>0 DEF Adds
  <2>2. \A m \in Messages : \A p : Follows(m, p)
    BY <1>0, <2>1 DEF Follows, Due, Labels
  <2> QED
    BY <2>2 DEF MirrorInv, Correct
<1> QED
  BY <1>0, <1>1, <1>2, <1>3, <1>4, <1>5 DEF MInv

(* Whenever a ready mailbox's cursor is at Gmail's head the mirror is      *)
(* Gmail's state, whatever jobs, runs and scans were retried, doubled,     *)
(* interleaved or lost on the way, but for the messages named in           *)
(* MirrorFollows.                                                          *)
THEOREM MirrorCorrect == Spec => []MirrorFollows
<1>1. MInv /\ [Next]_vars => MInv'
  <2> SUFFICES ASSUME MInv, [Next]_vars PROVE MInv'
    OBVIOUS
  <2>1. IInv' /\ PlaceInv' /\ MirrorInv'
    BY NextIInv, PlaceStep, MirrorStep DEF MInv
  <2>2. \A r \in Runs : RunKnows(r)'
    BY RunKnowsStep
  <2>3. \A s \in Scans : ScanReads(s)' /\ ScanOwns(s)'
    BY ScanReadsStep, ScanOwnsStep
  <2>4. \A m \in Messages : LogInv(m)'
    BY LogStep
  <2> QED
    BY <2>1, <2>2, <2>3, <2>4 DEF MInv
<1>2. MInv => MirrorFollows
  <2> SUFFICES ASSUME MInv, CaughtUp, NEW m \in Correct
               PROVE  mirror[m] = IF gmail[m] \in Labels THEN gmail[m] ELSE "none"
    BY DEF MirrorFollows
  <2>1. /\ IInv /\ row.cursor = Latest /\ row.readiness = "ready" /\ Latest \in Nat
        /\ Latest = Len(history) /\ history \in Seq(Events) /\ None \notin Nat
        /\ base <= Latest /\ base \in Nat /\ m \in Messages
        /\ gmail \in [Messages -> Labels \cup {"none", "gone"}]
    BY Types DEF MInv, CaughtUp, PlaceInv, IInv, Shape, Correct
  <2>2. Follows(m, row.cursor)
    BY <2>1 DEF MInv, MirrorInv, Reached
  <2>3. Settled(history, m, row.cursor) /\ ~ Adds(history, m, row.cursor)
    BY <2>1, AtEnd
  <2>4. gmail[m] \in Labels \cup {"none", "gone"}
    BY <2>1
  <2> QED
    BY <2>1, <2>2, <2>3, <2>4 DEF Follows, Due, Labels
<1> QED
  BY <1>1, <1>2, InitMInv, PTL DEF Spec
===============================================================================
