------------------------------ MODULE SyncCursor ------------------------------
(***************************************************************************)
(* How one mailbox's mirror (mail_messages) follows Gmail: the initial     *)
(* scan, the incremental sync that replays Gmail's history from a cursor,  *)
(* and the producers and sweeps that keep both running.                    *)
(*                                                                         *)
(* Gmail's history is an append-only log; a history id is a length of it.  *)
(* Gmail keeps only its tail: listing from an id below `kept' is a 404.    *)
(* An incremental run applies its pages under the mailbox lock; the scan   *)
(* takes no lock.                                                          *)
(***************************************************************************)
EXTENDS Naturals, Sequences, FiniteSets

CONSTANTS
  Messages,     \* messages of the mailbox
  Present,      \* the ones there when the mailbox is connected
  Runs,         \* incremental runs that can be in flight together
  Scans,        \* initial scans that can be in flight together
  Batch,        \* UPSERT_BATCH: messages of one scan chunk
  MaxRestarts,  \* restarts of an incremental run whose cursor moved
  Limit,        \* INITIAL_RECOVERY_LIMIT
  FaultKinds,   \* the kinds of fault the environment may inject
  MaxFaults,    \* bound: faults in one behaviour
  MaxHistory,   \* bound: length of Gmail's history
  MaxConnects,  \* bound: reconnects in one behaviour
  None          \* no cursor, no job, no owner

AllFaults == {"crash", "stall", "transient", "exhausted", "expire", "revoke", "lost_job"}

ASSUME SetsAssumption ==
  /\ IsFiniteSet(Messages)
  /\ Present \subseteq Messages
  /\ FaultKinds \subseteq AllFaults
  /\ Runs \cap Scans = {}
  /\ None \notin Runs \cup Scans \cup Nat

ASSUME BoundsAssumption ==
  /\ Batch \in Nat \ {0}
  /\ {MaxRestarts, Limit, MaxFaults, MaxHistory, MaxConnects} \subseteq Nat

VARIABLES
  gmail,     \* each message in Gmail: not there yet, gone, or its label
  history,   \* Gmail's history records
  kept,      \* history ids below this have expired
  mirror,    \* mail_messages: each message's stored label
  row,       \* provider_sync_state
  lock,      \* the mailbox advisory lock
  queue,     \* the coalesced incremental job: waiting, active, follow-up
  inc,       \* the incremental runs
  scanJob,   \* the initial-sync job of this mailbox
  scan,      \* the initial scans
  connects,  \* times the mailbox was connected again
  bad,       \* the connects whose grant is revoked
  faults,
  base,      \* ghost: where the last new base was taken
  based,     \* ghost: stored when a scan took a new base
  rewound    \* ghost: written from a read older than a place reached in the history

google == <<gmail, history, kept>>
account == <<connects, bad>>
jobs == <<queue, scanJob>>
ghosts == <<base, based, rewound>>
vars == <<google, mirror, row, lock, jobs, inc, scan, account, faults, ghosts>>

-------------------------------------------------------------------------------
Labels == {"on", "off"}
Latest == Len(history)
Readiness == {"queued", "syncing", "ready", "failed", "needs_reconnect"}
Ids == 0 .. MaxHistory

IdleRun == [pc |-> "idle", payload |-> 0, from |-> 0, to |-> 0, pos |-> 0,
            restarts |-> 0, connect |-> 0]
IdleScan == [pc |-> "idle", snapshot |-> 0, listed |-> {}, listedAt |-> 0,
             todo |-> {}, fetched |-> <<>>, fetchedAt |-> 0, connect |-> 0]

(* Runs are alike: the next one takes a fixed idle slot. *)
Free(slots) ==
  LET idle == {x \in DOMAIN slots : slots[x].pc = "idle"} IN
  IF idle = {} THEN None ELSE CHOOSE x \in idle : TRUE

Fault(kind) ==
  /\ kind \in FaultKinds
  /\ faults < MaxFaults
  /\ faults' = faults + 1

(* isAheadOf: cursor is set and past id. *)
Ahead(cursor, id) == cursor # None /\ cursor > id

(* Where the mirror has been brought to in the history: the last new base, *)
(* the cursor, and where each run that has its pages will start or is.     *)
Reached ==
  {base} \cup ({row.cursor} \ {None})
  \cup {inc[r].from : r \in {r \in Runs : inc[r].pc = "lock"}}
  \cup {inc[r].pos : r \in {r \in Runs : inc[r].pc = "apply"}}

(* What is written from a read older than that, no later run corrects.     *)
Rewinds(readAt, written) == IF \E at \in Reached : at > readAt THEN written ELSE {}

(* !notNeedingReconnect: a recorded invalid grant newer than any success. *)
Awaiting == row.awaiting

-------------------------------------------------------------------------------
(* Gmail (external). *)

GmailChanges(m, kind) ==
  /\ Latest < MaxHistory
  /\ CASE kind = "added" -> gmail[m] = "none"
       [] kind = "deleted" -> gmail[m] \in Labels
       [] OTHER -> gmail[m] \in Labels \ {kind}
  /\ gmail' = [gmail EXCEPT ![m] = CASE kind = "added" -> "on"
                                     [] kind = "deleted" -> "gone"
                                     [] OTHER -> kind]
  /\ history' = Append(history, [kind |-> kind, message |-> m])
  /\ UNCHANGED <<kept, mirror, row, lock, jobs, inc, scan, account, faults, ghosts>>

(* A label action of LabelActions: Gmail and the mirror, under the lock.   *)
ActionMoves(m, label) ==
  /\ Latest < MaxHistory
  /\ lock = None
  /\ mirror[m] \in Labels /\ gmail[m] \in Labels \ {label}
  /\ gmail' = [gmail EXCEPT ![m] = label]
  /\ mirror' = [mirror EXCEPT ![m] = label]
  /\ history' = Append(history, [kind |-> label, message |-> m])
  /\ UNCHANGED <<kept, row, lock, jobs, inc, scan, account, faults, ghosts>>

HistoryExpires ==
  /\ Fault("expire")
  /\ \E id \in kept + 1 .. Latest : kept' = id
  /\ UNCHANGED <<gmail, history, mirror, row, lock, jobs, inc, scan, account, ghosts>>

GrantRevoked ==
  /\ Fault("revoke")
  /\ connects \notin bad
  /\ bad' = bad \cup {connects}
  /\ UNCHANGED <<google, mirror, row, lock, jobs, inc, scan, connects, ghosts>>

-------------------------------------------------------------------------------
(* Producers of incremental jobs. *)

(* addCoalescedJob: a waiting job absorbs the add; a running one is        *)
(* followed by one more run, with the latest payload.                      *)
Coalesce(payload) ==
  IF queue.waiting # None THEN queue
  ELSE IF queue.active # None THEN [queue EXCEPT !.follow = payload]
  ELSE [queue EXCEPT !.waiting = payload]

(* planHistorySyncWithExecutor: only the applied cursor of a ready mailbox *)
(* starts a range.                                                         *)
Plannable == row.readiness = "ready" /\ row.cursor # None

Webhook ==
  /\ Plannable
  /\ row.cursor < Latest
  /\ queue' = Coalesce(row.cursor)
  /\ UNCHANGED <<google, mirror, row, lock, inc, scanJob, scan, account, faults, ghosts>>

SyncNow ==
  /\ Plannable
  /\ queue' = Coalesce(row.cursor)
  /\ UNCHANGED <<google, mirror, row, lock, inc, scanJob, scan, account, faults, ghosts>>

DriftSweep ==
  /\ Plannable
  /\ ~ Awaiting
  /\ row.cursor < Latest
  /\ queue' = Coalesce(row.cursor)
  /\ UNCHANGED <<google, mirror, row, lock, inc, scanJob, scan, account, faults, ghosts>>

-------------------------------------------------------------------------------
(* The incremental run. *)

(* The job of r ends: BullMQ enqueues the stored follow-up.  A run whose   *)
(* job was already given to another run ends alone.                        *)
JobEnds(r) ==
  IF queue.active = r
  THEN [waiting |-> IF queue.waiting = None THEN queue.follow ELSE queue.waiting,
        active |-> None,
        follow |-> IF queue.waiting = None THEN None ELSE queue.follow]
  ELSE queue

JobRetries(r) ==
  IF queue.active = r
  THEN [queue EXCEPT !.waiting = IF @ = None THEN inc[r].payload ELSE @, !.active = None]
  ELSE queue

IncStart(r) ==
  LET payload == queue.waiting
      taken == [queue EXCEPT !.waiting = None, !.active = r]
  IN
  /\ queue.active = None /\ payload # None /\ r = Free(inc)
  /\ \/ /\ row.readiness = "needs_reconnect" \/ Awaiting
        /\ queue' = [queue EXCEPT !.waiting = queue.follow, !.follow = None]
        /\ inc' = inc
     \/ /\ row.readiness # "needs_reconnect" /\ ~ Awaiting
        /\ queue' = taken
        /\ inc' = [inc EXCEPT ![r] =
             [IdleRun EXCEPT !.pc = "page", !.payload = payload, !.connect = connects,
                !.from = IF Ahead(row.cursor, payload) THEN row.cursor ELSE payload]]
  /\ UNCHANGED <<google, mirror, row, lock, scanJob, scan, account, faults, ghosts>>

(* pageHistoryFrom: every record after `from', or the 404. *)
IncPage(r) ==
  /\ inc[r].pc = "page"
  /\ inc[r].connect \notin bad
  /\ inc' = IF inc[r].from < kept
            THEN [inc EXCEPT ![r].pc = "expired"]
            ELSE [inc EXCEPT ![r].pc = "lock", ![r].to = Latest]
  /\ UNCHANGED <<google, mirror, row, lock, jobs, scan, account, faults, ghosts>>

(* Under the lock the cursor is read again; pages of a range another run   *)
(* has applied are fetched anew.                                           *)
RevalidatedNever(r) == TRUE
Revalidated(r) == ~ Ahead(row.cursor, inc[r].from)

IncLock(r) ==
  /\ inc[r].pc = "lock"
  /\ lock = None
  /\ \/ /\ Revalidated(r)
        /\ lock' = r
        /\ inc' = [inc EXCEPT ![r].pc = "apply", ![r].pos = inc[r].from]
        /\ queue' = queue
     \/ /\ ~ Revalidated(r)
        /\ inc[r].restarts < MaxRestarts
        /\ inc' = [inc EXCEPT ![r].pc = "page", ![r].from = row.cursor, ![r].restarts = @ + 1]
        /\ UNCHANGED <<lock, queue>>
     \/ /\ ~ Revalidated(r)
        /\ inc[r].restarts = MaxRestarts
        /\ inc' = [inc EXCEPT ![r] = IdleRun]
        /\ queue' = JobRetries(r)
        /\ lock' = lock
  /\ UNCHANGED <<google, mirror, row, scanJob, scan, account, faults, ghosts>>

(* handleMessageAdded reads the message as it is now; the other records    *)
(* change a stored row and match nothing without one.                      *)
Applied(event) ==
  LET m == event.message IN
  CASE event.kind = "added" /\ gmail[m] \in Labels -> [mirror EXCEPT ![m] = gmail[m]]
    [] event.kind = "deleted" -> [mirror EXCEPT ![m] = "none"]
    [] event.kind \in Labels /\ mirror[m] # "none" -> [mirror EXCEPT ![m] = event.kind]
    [] OTHER -> mirror

IncApply(r) ==
  /\ inc[r].pc = "apply"
  /\ inc[r].pos < inc[r].to
  /\ mirror' = Applied(history[inc[r].pos + 1])
  /\ inc' = [inc EXCEPT ![r].pos = @ + 1]
  /\ rewound' = rewound \cup (IF inc[r].from < kept
                              THEN Rewinds(inc[r].pos, {history[inc[r].pos + 1].message}) ELSE {})
  /\ UNCHANGED <<google, row, lock, jobs, scan, account, faults, base, based>>

(* The guarded advance: an older page never moves the cursor back. *)
AdvancedAlways(to) == to
Advanced(to) == IF row.cursor = None \/ row.cursor < to THEN to ELSE row.cursor

IncAdvance(r) ==
  /\ inc[r].pc = "apply"
  /\ inc[r].pos = inc[r].to
  /\ row' = [row EXCEPT !.cursor = Advanced(inc[r].to), !.awaiting = FALSE]
  /\ lock' = None
  /\ inc' = [inc EXCEPT ![r] = IdleRun]
  /\ queue' = JobEnds(r)
  /\ UNCHANGED <<google, mirror, scanJob, scan, account, faults, ghosts>>

(* ensureInitialSyncJob: a live job is left alone. *)
Scheduled == IF scanJob = "none" THEN "waiting" ELSE scanJob

(* The completed hook of a 404: recoverExpiredHistoryCursor, guarded on    *)
(* the cursor that expired.                                                *)
Rebased == [row EXCEPT !.readiness = "queued", !.cursor = None, !.attempt = None,
                       !.recoveries = 0, !.awaiting = FALSE]

Recovers(r) == row.readiness = "ready" /\ row.cursor = inc[r].from

IncExpired(r) ==
  /\ inc[r].pc = "expired"
  /\ inc' = [inc EXCEPT ![r] = IdleRun]
  /\ queue' = JobEnds(r)
  /\ IF Recovers(r)
     THEN /\ row' = Rebased
          /\ scanJob' = Scheduled
     ELSE UNCHANGED <<row, scanJob>>
  /\ UNCHANGED <<google, mirror, lock, scan, account, faults, ghosts>>

(* recordMailboxSyncFailure: a grant the mailbox has replaced since the    *)
(* attempt began says nothing about the new one.                           *)
SupersededNever(run) == FALSE
Superseded(run) == connects > run.connect

(* The grant this run read is revoked: a terminal InvalidGrantError. *)
IncRefused(r) ==
  /\ inc[r].pc = "page"
  /\ inc[r].connect \in bad
  /\ row' = IF Superseded(inc[r]) THEN row ELSE [row EXCEPT !.awaiting = TRUE]
  /\ inc' = [inc EXCEPT ![r] = IdleRun]
  /\ queue' = JobEnds(r)
  /\ UNCHANGED <<google, mirror, lock, scanJob, scan, account, faults, ghosts>>

(* The lock is its session's: the end of the run releases it. *)
Released(r) == IF lock = r THEN None ELSE lock

(* The run dies or throws a retryable error; with "exhausted" its attempts   *)
(* are spent and the job is parked.                                        *)
IncFails(r) ==
  /\ inc[r].pc # "idle"
  /\ \E kind \in {"crash", "transient", "exhausted"} :
       /\ Fault(kind)
       /\ queue' = IF kind = "exhausted" THEN JobEnds(r) ELSE JobRetries(r)
  /\ inc' = [inc EXCEPT ![r] = IdleRun]
  /\ lock' = Released(r)
  /\ UNCHANGED <<google, mirror, row, scanJob, scan, account, ghosts>>

(* BullMQ gives the job of a run that stalled, or of one stuck past        *)
(* COALESCED_STUCK_ACTIVE_MS, to another, while the run goes on.           *)
IncStalls(r) ==
  /\ queue.active = r
  /\ Fault("stall")
  /\ queue' = JobRetries(r)
  /\ UNCHANGED <<google, mirror, row, lock, inc, scanJob, scan, account, ghosts>>

-------------------------------------------------------------------------------
(* The initial scan. *)

Owns(s) == row.attempt = s

EndScan(s, next) ==
  /\ scan' = [scan EXCEPT ![s] = IdleScan]
  /\ scanJob' = IF scanJob = s THEN next ELSE scanJob

ScanStart(s) ==
  /\ scanJob = "waiting" /\ s = Free(scan)
  /\ \/ /\ row.readiness \in {"ready", "needs_reconnect"}
        /\ scanJob' = "none"
        /\ UNCHANGED <<row, scan>>
     \/ /\ row.readiness \notin {"ready", "needs_reconnect"} /\ Awaiting
        /\ scanJob' = "none"
        /\ row' = [row EXCEPT !.readiness = "needs_reconnect"]
        /\ scan' = scan
     \/ /\ row.readiness \notin {"ready", "needs_reconnect"} /\ ~ Awaiting
        /\ scanJob' = s
        /\ row' = [row EXCEPT !.readiness = "syncing", !.attempt = s]
        /\ scan' = [scan EXCEPT ![s] = [IdleScan EXCEPT !.pc = "snapshot", !.connect = connects]]
  /\ UNCHANGED <<google, mirror, lock, queue, inc, account, faults, ghosts>>

(* captureInitialHistorySnapshot: the first attempt's snapshot wins.  What *)
(* is stored when it takes a new base keeps its labels: the scan skips it. *)
Snapshot == IF row.cursor = None THEN Latest ELSE row.cursor
Stored == {m \in Messages : mirror[m] # "none"}

ScanSnapshot(s) ==
  /\ scan[s].pc = "snapshot"
  /\ scan[s].connect \notin bad
  /\ IF Owns(s) /\ row.cursor = None
     THEN base' = Latest /\ based' = based \cup Stored
     ELSE UNCHANGED <<base, based>>
  /\ IF Owns(s)
     THEN /\ row' = [row EXCEPT !.cursor = Snapshot]
          /\ scan' = [scan EXCEPT ![s].pc = "list", ![s].snapshot = Snapshot]
          /\ scanJob' = scanJob
     ELSE EndScan(s, "waiting") /\ row' = row
  /\ UNCHANGED <<google, mirror, lock, queue, inc, account, faults, rewound>>

ScanList(s) ==
  /\ scan[s].pc = "list"
  /\ scan' = [scan EXCEPT ![s].pc = "reconcile", ![s].listedAt = Latest,
                          ![s].listed = {m \in Messages : gmail[m] \in Labels}]
  /\ UNCHANGED <<google, mirror, row, lock, jobs, inc, account, faults, ghosts>>

(* Stored rows Gmail did not list go; listed ones are kept as they are and *)
(* not fetched again.                                                      *)
Skipped(s) == {m \in scan[s].listed : mirror[m] # "none"}

ScanReconcile(s) ==
  LET removed == {m \in Messages \ scan[s].listed : mirror[m] # "none"} IN
  /\ scan[s].pc = "reconcile"
  /\ mirror' = [m \in Messages |-> IF m \in removed THEN "none" ELSE mirror[m]]
  /\ rewound' = rewound \cup Rewinds(scan[s].listedAt, removed)
  /\ scan' = [scan EXCEPT ![s].pc = "fetch", ![s].todo = scan[s].listed \ Skipped(s)]
  /\ UNCHANGED <<google, row, lock, jobs, inc, account, faults, base, based>>

(* One chunk's metadata; a message deleted since the list is passed over. *)
ScanFetch(s) ==
  /\ scan[s].pc = "fetch"
  /\ \E chunk \in SUBSET scan[s].todo :
       /\ chunk # {}
       /\ Cardinality(chunk) = Batch \/ (chunk = scan[s].todo /\ Cardinality(chunk) < Batch)
       /\ LET there == {m \in chunk : gmail[m] \in Labels} IN
          scan' = [scan EXCEPT ![s].pc = "flush", ![s].todo = @ \ chunk, ![s].fetchedAt = Latest,
                               ![s].fetched = [m \in there |-> gmail[m]]]
  /\ UNCHANGED <<google, mirror, row, lock, jobs, inc, account, faults, ghosts>>

(* flushBatch: an upsert that no attempt id guards. *)
ScanFlush(s) ==
  LET written == DOMAIN scan[s].fetched IN
  /\ scan[s].pc = "flush"
  /\ mirror' = [m \in Messages |-> IF m \in written THEN scan[s].fetched[m] ELSE mirror[m]]
  /\ rewound' = rewound \cup Rewinds(scan[s].fetchedAt, written)
  /\ scan' = [scan EXCEPT ![s].pc = "fetch", ![s].fetched = <<>>]
  /\ UNCHANGED <<google, row, lock, jobs, inc, account, faults, base, based>>

(* The stages after the fetch, each guarded by the attempt, and markReady, *)
(* whose cursor is the greater of the stored one and the snapshot.         *)
ScanReady(s) ==
  /\ scan[s].pc = "fetch" /\ scan[s].todo = {}
  /\ IF Owns(s)
     THEN /\ row' = [row EXCEPT !.readiness = "ready", !.cursor = Advanced(scan[s].snapshot),
                                !.attempt = None, !.recoveries = 0,
                                !.awaiting = FALSE]
          /\ EndScan(s, "none")
     ELSE EndScan(s, "waiting") /\ UNCHANGED row
  /\ UNCHANGED <<google, mirror, lock, queue, inc, account, faults, ghosts>>

(* recordTerminalFailure, guarded by the attempt. *)
Terminal(s, readiness, retryable) ==
  IF row.readiness = "syncing" /\ Owns(s)
  THEN [row EXCEPT !.readiness = readiness, !.retryable = retryable]
  ELSE row

ScanRefused(s) ==
  /\ scan[s].pc \in {"snapshot", "list", "fetch"}
  /\ scan[s].connect \in bad
  /\ row' = Terminal(s, "needs_reconnect", FALSE)
  /\ EndScan(s, "none")
  /\ UNCHANGED <<google, mirror, lock, queue, inc, account, faults, ghosts>>

(* "transient": another attempt follows; "exhausted": the attempts are spent *)
(* or the error is a permanent one; "crash": BullMQ hands the job out      *)
(* again; "lost_job": its hash is gone from Redis.                         *)
ScanFails(s) ==
  /\ scan[s].pc # "idle"
  /\ \/ Fault("transient") /\ row' = row /\ EndScan(s, "waiting")
     \/ Fault("crash") /\ row' = row /\ EndScan(s, "waiting")
     \/ Fault("lost_job") /\ row' = row /\ EndScan(s, "none")
     \/ /\ Fault("exhausted")
        /\ \E retryable \in BOOLEAN : row' = Terminal(s, "failed", retryable)
        /\ EndScan(s, "none")
  /\ UNCHANGED <<google, mirror, lock, queue, inc, account, ghosts>>

ScanStalls(s) ==
  /\ scanJob = s
  /\ Fault("stall")
  /\ scanJob' = "waiting"
  /\ UNCHANGED <<google, mirror, row, lock, queue, inc, scan, account, ghosts>>

-------------------------------------------------------------------------------
(* Sweeps and the user. *)

(* reconcileInitialSyncs: park a refused grant, requeue a retryable        *)
(* failure, materialise the job of a queued or stale row.                  *)
Requeueable == row.readiness = "failed" /\ row.retryable /\ ~ Awaiting /\ row.recoveries < Limit

StrandedQueued == row.readiness = "queued" /\ scanJob = "none"
Stranded == row.readiness \in {"queued", "syncing"} /\ scanJob = "none"

Reconcile ==
  /\ \/ /\ row.readiness = "failed" /\ Awaiting
        /\ row' = [row EXCEPT !.readiness = "needs_reconnect"]
        /\ scanJob' = scanJob
     \/ /\ Requeueable
        /\ row' = [row EXCEPT !.readiness = "queued", !.attempt = None, !.recoveries = @ + 1]
        /\ scanJob' = Scheduled
     \/ /\ Stranded
        /\ row' = row
        /\ scanJob' = Scheduled
  /\ UNCHANGED <<google, mirror, lock, queue, inc, scan, account, faults, ghosts>>

(* retryFailedInitialSync *)
Retry ==
  /\ row.readiness = "failed"
  /\ row' = [row EXCEPT !.readiness = "queued", !.attempt = None, !.recoveries = 0]
  /\ scanJob' = Scheduled
  /\ UNCHANGED <<google, mirror, lock, queue, inc, scan, account, faults, ghosts>>

(* markConnected: fresh credentials.  A ready mailbox keeps its cursor and *)
(* catches up; any other row is queued, with its scan's snapshot kept.     *)
Connect ==
  LET kept_ready == row.readiness = "ready" /\ row.cursor # None IN
  /\ connects < MaxConnects
  /\ connects' = connects + 1
  /\ IF kept_ready
     THEN /\ row' = [row EXCEPT !.awaiting = FALSE]
          /\ queue' = Coalesce(row.cursor)
          /\ scanJob' = scanJob
     ELSE /\ row' = [row EXCEPT !.readiness = "queued", !.attempt = None, !.recoveries = 0,
                                !.awaiting = FALSE]
          /\ scanJob' = Scheduled
          /\ queue' = queue
  /\ UNCHANGED <<google, mirror, lock, inc, scan, bad, faults, ghosts>>

-------------------------------------------------------------------------------
(* A mailbox that has just been connected: some of its mail is there. *)
Init ==
  /\ gmail = [m \in Messages |-> IF m \in Present THEN "on" ELSE "none"]
  /\ history = <<>> /\ kept = 0
  /\ mirror = [m \in Messages |-> "none"]
  /\ row = [readiness |-> "queued", cursor |-> None, attempt |-> None, recoveries |-> 0,
            retryable |-> FALSE, awaiting |-> FALSE]
  /\ lock = None
  /\ queue = [waiting |-> None, active |-> None, follow |-> None]
  /\ inc = [r \in Runs |-> IdleRun]
  /\ scanJob \in {"none", "waiting"}
  /\ scan = [s \in Scans |-> IdleScan]
  /\ connects = 0 /\ bad = {} /\ faults = 0
  /\ base = 0 /\ based = {} /\ rewound = {}

IncSteps(r) == IncStart(r) \/ IncPage(r) \/ IncLock(r) \/ IncApply(r) \/ IncAdvance(r)
               \/ IncExpired(r) \/ IncRefused(r)
ScanSteps(s) == ScanStart(s) \/ ScanSnapshot(s) \/ ScanList(s) \/ ScanReconcile(s)
                \/ ScanFetch(s) \/ ScanFlush(s) \/ ScanReady(s) \/ ScanRefused(s)

Next ==
  \/ \E m \in Messages : \E kind \in {"added", "deleted", "on", "off"} : GmailChanges(m, kind)
  \/ \E m \in Messages : \E label \in Labels : ActionMoves(m, label)
  \/ HistoryExpires \/ GrantRevoked
  \/ Webhook \/ SyncNow \/ DriftSweep
  \/ \E r \in Runs : IncSteps(r) \/ IncFails(r) \/ IncStalls(r)
  \/ \E s \in Scans : ScanSteps(s) \/ ScanFails(s) \/ ScanStalls(s)
  \/ Reconcile \/ Retry \/ Connect

Spec == Init /\ [][Next]_vars

(* The processors and the sweeps run; users and Gmail owe nothing. *)
LiveSpec ==
  /\ Spec
  /\ \A r \in Runs : WF_vars(IncSteps(r))
  /\ \A s \in Scans : WF_vars(ScanSteps(s))
  /\ WF_vars(DriftSweep) /\ WF_vars(Reconcile)

-------------------------------------------------------------------------------
RunStates == [pc : {"idle", "page", "lock", "apply", "expired"}, payload : Ids, from : Ids, to : Ids,
          pos : Ids, restarts : 0 .. MaxRestarts, connect : 0 .. MaxConnects]

(* TypeOK: every variable keeps its shape; the mailbox lock is held by the *)
(* run that applies its pages, and by no other.                            *)
TypeOK ==
  /\ gmail \in [Messages -> Labels \cup {"none", "gone"}]
  /\ mirror \in [Messages -> Labels \cup {"none"}]
  /\ kept \in 0 .. Latest /\ Latest \in Ids
  /\ row.readiness \in Readiness /\ row.cursor \in Ids \cup {None}
  /\ row.attempt \in Scans \cup {None} /\ row.recoveries \in 0 .. Limit
  /\ {row.retryable, row.awaiting} \subseteq BOOLEAN
  /\ queue \in [waiting : Ids \cup {None}, active : Runs \cup {None}, follow : Ids \cup {None}]
  /\ inc \in [Runs -> RunStates]
  /\ \A r \in Runs : inc[r].pc = "apply" <=> lock = r
  /\ scanJob \in Scans \cup {"none", "waiting"}
  /\ connects \in 0 .. MaxConnects /\ bad \subseteq 0 .. connects

CaughtUp == row.readiness = "ready" /\ row.cursor = Latest
Correct == Messages \ (based \cup rewound)

(* MirrorFollows: whenever a ready mailbox's cursor is at Gmail's head,    *)
(* the mirror is Gmail's state, message by message, whatever the order of  *)
(* retries, replays, crashes, scans and actions before it, and whatever    *)
(* other runs and scans are still under way.  Two kinds of message are     *)
(* left out, and only they may be wrong: one already stored when an        *)
(* expired history made a scan take a new base (its missed changes are     *)
(* never read); and one written from a read older than a place the mirror  *)
(* had reached, by a scan or by a run whose range has expired meanwhile.   *)
MirrorFollows ==
  CaughtUp => \A m \in Correct : mirror[m] = IF gmail[m] \in Labels THEN gmail[m] ELSE "none"

(* GateIsTrue: a mailbox behind the reconnect gate has a revoked grant: no *)
(* failure of a grant that a reconnect replaced closes the gate again.     *)
GateIsTrue ==
  (row.readiness = "needs_reconnect" \/ Awaiting) => connects \in bad

(* CursorNeverRewinds: no step moves a set cursor back, except to clear it *)
(* for a new base after an expiry.                                         *)
CursorNeverRewinds ==
  [][row.cursor # None => \/ (row'.cursor # None /\ row'.cursor >= row.cursor)
                          \/ (row'.cursor = None /\ row.cursor < kept)]_vars

(* CatchesUp: the mailbox ends up ready at Gmail's head, or waits for the  *)
(* user: to reconnect, or to retry a scan that will not retry itself.      *)
NeedsUser ==
  \/ connects \in bad
  \/ (row.readiness = "failed" /\ ~ Requeueable)

CatchesUp == <>[](CaughtUp \/ NeedsUser)
===============================================================================
