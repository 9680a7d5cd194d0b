-------------------------------- MODULE Deletion --------------------------------
(***************************************************************************)
(* Deleting a user's account, and deleting the indexed data of one of the  *)
(* user's mailboxes: the requests, the sweep that purges them in resumable *)
(* steps, the billing guard in front of the account purge, and the syncs   *)
(* and late writers a purge meets.                                         *)
(***************************************************************************)
EXTENDS Naturals, FiniteSets

CONSTANTS
  Mailboxes,   \* mailboxes the user has or may connect
  Connected,   \* the ones connected at the start
  Purgers,     \* sweeps that can overlap (replicas, a slow run and its takeover)
  MaxRows,     \* bound: stored messages of one mailbox
  FaultKinds,  \* the kinds of fault the environment may inject
  MaxFaults,   \* bound: faults in one behaviour
  MaxUser,     \* bound: what the user does (requests, cancels, connects, disconnects)
  MaxBilling,  \* bound: billing events
  None         \* nobody, nothing

AllFaults == {"crash", "slow", "billing", "google"}

ASSUME SetsAssumption ==
  /\ IsFiniteSet(Mailboxes) /\ Connected \subseteq Mailboxes
  /\ FaultKinds \subseteq AllFaults
  /\ Purgers \cap Mailboxes = {} /\ None \notin Purgers \cup Mailboxes

ASSUME BoundsAssumption ==
  {MaxRows, MaxFaults, MaxUser, MaxBilling} \subseteq Nat /\ MaxRows > 0

VARIABLES
  user,      \* the user's row (and its workspace) exists
  acct,      \* account_deletion_requests: state, stale
  req,       \* mailbox_data_deletion_requests of each mailbox: state, stale
  box,       \* mailbox_accounts: absent, active or disconnected, with credentials
  grant,     \* Google's OAuth grants that are live
  mail,      \* stored messages
  letters,   \* mailboxes with dead-letter or sync_runs rows
  lock,      \* the mailbox action lock
  sync,      \* a sync of each mailbox: idle, scanning, fetched, waiting
  purge,     \* the sweeps at work
  billing,   \* local billing evidence: live or stopped, with its revision
  receipt,   \* the receipt email is enqueued (its key is the request's id)
  audits,    \* account.deletion_executed rows
  acts, faults,
  late,      \* ghost: connected while an account purge had captured its mailboxes
  lax,       \* ghost: disconnected while Google did not answer the revocation
  leaked     \* ghost: written by a scan that began before the request

world == <<grant, billing>>
store == <<box, mail, letters>>
requests == <<acct, req>>
trail == <<receipt, audits>>
ghosts == <<late, lax, leaked>>
vars == <<user, requests, store, world, lock, sync, purge, trail, acts, faults, ghosts>>

-------------------------------------------------------------------------------
NoRequest == [state |-> "none", stale |-> FALSE]
Absent == [status |-> "absent", creds |-> FALSE]
IdlePurge == [pc |-> "idle", box |-> None, todo |-> {}, seen |-> 0]

(* The steps of an account purge after it has taken its list of mailboxes. *)
AccountWork == {"revoke", "recheck", "receipt", "audit", "drop", "reverify", "final"}

Fault(kind) ==
  /\ kind \in FaultKinds
  /\ faults < MaxFaults
  /\ faults' = faults + 1

UserActs == acts < MaxUser /\ acts' = acts + 1

(* deletionPendingSql: the one predicate that pauses sync. *)
Paused(m) ==
  acct.state \in {"pending", "executing"} \/ req[m].state \in {"pending", "executing", "failed"}

-------------------------------------------------------------------------------
(* The user. *)

(* requestDeletion, under a verified-stopped billing. *)
RequestAccount ==
  /\ user /\ UserActs
  /\ acct.state \notin {"pending", "executing"}
  /\ billing.live = FALSE
  /\ acct' = [state |-> "pending", stale |-> FALSE]
  /\ UNCHANGED <<user, req, store, world, lock, sync, purge, trail, faults, late, lax, leaked>>

CancelAccount ==
  /\ user /\ UserActs
  /\ acct.state = "pending"
  /\ acct' = [acct EXCEPT !.state = "cancelled"]
  /\ UNCHANGED <<user, req, store, world, lock, sync, purge, trail, faults, ghosts>>

(* upsert of a connected mailbox: refused while its indexed data is being  *)
(* deleted; a completed request gives way.  Account deletion does not      *)
(* refuse it.                                                              *)
ReconnectRefused(m) == req[m].state \in {"pending", "executing", "failed"}

Connect(m) ==
  /\ user /\ UserActs
  /\ box[m].status # "active"
  /\ ~ ReconnectRefused(m)
  /\ box' = [box EXCEPT ![m] = [status |-> "active", creds |-> TRUE]]
  /\ grant' = grant \cup {m}
  /\ req' = [req EXCEPT ![m] = IF @.state = "completed" THEN NoRequest ELSE @]
  /\ late' = IF \E p \in Purgers : purge[p].pc \in AccountWork
             THEN late \cup {m} ELSE late \ {m}
  /\ lax' = lax \ {m} /\ leaked' = leaked \ {m}
  /\ UNCHANGED <<user, acct, mail, letters, billing, lock, sync, purge, trail, faults>>

(* disconnect: the revocation is best-effort, the credentials always go.   *)
Disconnect(m) ==
  /\ user /\ box[m].status = "active"
  /\ box' = [box EXCEPT ![m] = [status |-> "disconnected", creds |-> FALSE]]
  /\ \/ grant' = grant \ {m} /\ lax' = lax /\ faults' = faults
     \/ Fault("google") /\ grant' = grant /\ lax' = lax \cup {m}
  /\ UserActs
  /\ UNCHANGED <<user, requests, mail, letters, billing, lock, sync, purge, trail, late, leaked>>

(* requestIndexedDataDeletion of a mailbox that is disconnected by now.    *)
RequestMailbox(m) ==
  /\ user /\ UserActs
  /\ box[m].status = "disconnected"
  /\ req[m].state \in {"none"}
  /\ req' = [req EXCEPT ![m] = [state |-> "pending", stale |-> FALSE]]
  /\ UNCHANGED <<user, acct, store, world, lock, sync, purge, trail, faults, ghosts>>

-------------------------------------------------------------------------------
(* Syncs and late writers. *)

(* Eligibility is checked once, when a job starts. *)
SyncStart(m) ==
  /\ sync[m] = "idle"
  /\ box[m].status = "active" /\ ~ Paused(m)
  /\ \E to \in {"scanning", "waiting"} : sync' = [sync EXCEPT ![m] = to]
  /\ UNCHANGED <<user, requests, store, world, lock, purge, trail, acts, faults, ghosts>>

(* The scan reads a chunk, and later writes it, under no lock. *)
ScanFetch(m) ==
  /\ sync[m] = "scanning"
  /\ sync' = [sync EXCEPT ![m] = IF m \in grant THEN "fetched" ELSE "idle"]
  /\ UNCHANGED <<user, requests, store, world, lock, purge, trail, acts, faults, ghosts>>

ScanFlush(m) ==
  /\ sync[m] = "fetched"
  /\ \E to \in {"scanning", "idle"} : sync' = [sync EXCEPT ![m] = to]
  /\ IF box[m].status = "absent" \/ mail[m] = MaxRows
     THEN UNCHANGED <<mail, leaked>>
     ELSE /\ mail' = [mail EXCEPT ![m] = @ + 1]
          /\ leaked' = IF req[m].state = "completed" THEN leaked \cup {m} ELSE leaked
  /\ UNCHANGED <<user, requests, box, letters, world, lock, purge, trail, acts, faults, late, lax>>

(* The incremental run writes under the lock, with Gmail at hand. *)
IncrementalWrites(m) ==
  /\ sync[m] = "waiting"
  /\ lock[m] = None
  /\ sync' = [sync EXCEPT ![m] = "idle"]
  /\ mail' = IF box[m].status # "absent" /\ m \in grant /\ mail[m] < MaxRows
             THEN [mail EXCEPT ![m] = @ + 1] ELSE mail
  /\ leaked' = IF mail' # mail /\ req[m].state = "completed" THEN leaked \cup {m} ELSE leaked
  /\ UNCHANGED <<user, requests, box, letters, world, lock, purge, trail, acts, faults, late, lax>>

(* The dead-letter and failed-run recorders: the request row is locked     *)
(* across the check and the insert.                                        *)
RecordableAlways(m) == TRUE
Recordable(m) == req[m].state # "completed"

SyncFails(m) ==
  /\ sync[m] # "idle"
  /\ sync' = [sync EXCEPT ![m] = "idle"]
  /\ letters' = IF box[m].status # "absent" /\ Recordable(m) THEN letters \cup {m} ELSE letters
  /\ UNCHANGED <<user, requests, box, mail, world, lock, purge, trail, acts, faults, ghosts>>

(* A webhook or a checkout changes the local evidence. *)
BillingEvent ==
  /\ user
  /\ billing.rev < MaxBilling
  /\ \E live \in BOOLEAN : billing' = [live |-> live, rev |-> billing.rev + 1]
  /\ UNCHANGED <<user, requests, store, grant, lock, sync, purge, trail, acts, faults, ghosts>>

-------------------------------------------------------------------------------
(* The sweep. *)

(* findDueRequests, findDueMailboxRequests and both claims: a request that *)
(* waits, that failed, or whose purge has been silent for too long.        *)
ClaimableNoTakeover(r) == r.state \in {"pending", "failed"}
Claimable(r) == r.state \in {"pending", "failed"} \/ (r.state = "executing" /\ r.stale)

Goes(p, pc) == purge' = [purge EXCEPT ![p].pc = pc]

(* However the account purge ends, the same sweep goes on to the mailboxes. *)
Onward == [pc |-> "box", box |-> None, todo |-> Mailboxes, seen |-> 0]
Stops(p) == purge' = [purge EXCEPT ![p] = Onward]

(* processJob: the account request first, then the mailboxes due by then.  *)
SweepStart(p) ==
  /\ purge[p].pc = "idle"
  /\ Claimable(acct) \/ \E m \in Mailboxes : Claimable(req[m])
  /\ IF Claimable(acct) THEN Goes(p, "check") ELSE Stops(p)
  /\ UNCHANGED <<user, requests, store, world, lock, sync, trail, acts, faults, ghosts>>

(* assertStopped: a block, or a provider that does not answer, puts the    *)
(* request back where it can be cancelled.                                 *)
Blocked(p) ==
  /\ acct' = IF user /\ Claimable(acct) THEN [state |-> "pending", stale |-> FALSE] ELSE acct
  /\ Stops(p)

PurgeCheck(p) ==
  /\ purge[p].pc = "check"
  /\ \/ /\ ~ billing.live
        /\ Goes(p, "verify") /\ UNCHANGED <<acct, faults>>
     \/ billing.live /\ Blocked(p) /\ faults' = faults
     \/ Fault("billing") /\ Blocked(p)
  /\ UNCHANGED <<user, req, store, world, lock, sync, trail, acts, ghosts>>

(* withVerifiedStopped: inspect outside the transaction, compare the       *)
(* evidence inside it.  A failure here only ends the run.                  *)
Verify(p, next) ==
  /\ \/ /\ user /\ ~ billing.live
        /\ purge' = [purge EXCEPT ![p].pc = next, ![p].seen = billing.rev]
        /\ faults' = faults
     \/ (~ user \/ billing.live) /\ Stops(p) /\ faults' = faults
     \/ Fault("billing") /\ Stops(p)
  /\ UNCHANGED <<user, requests, store, world, lock, sync, trail, acts, ghosts>>

UnchangedNever(p) == TRUE
EvidenceUnchanged(p) == purge[p].seen = billing.rev

PurgeVerify(p) == purge[p].pc = "verify" /\ Verify(p, "claim")

(* The claim, and the list of mailboxes read right after it. *)
PurgeClaim(p) ==
  /\ purge[p].pc = "claim"
  /\ IF user /\ EvidenceUnchanged(p) /\ Claimable(acct)
     THEN /\ acct' = [state |-> "executing", stale |-> FALSE]
          /\ purge' = [purge EXCEPT ![p].pc = "revoke", ![p].todo = {m \in Mailboxes : box[m].creds}]
     ELSE acct' = acct /\ Stops(p)
  /\ UNCHANGED <<user, req, store, world, lock, sync, trail, acts, faults, ghosts>>

(* stopAndRevokeAllGrants: an invalid grant is passed over, any other      *)
(* failure ends the run and leaves the request executing.                  *)
RevokeFailsSkip(p, m) == [purge EXCEPT ![p].todo = @ \ {m}]
RevokeFails(p, m) == [purge EXCEPT ![p] = Onward]

PurgeRevoke(p) ==
  /\ purge[p].pc = "revoke"
  /\ \/ /\ purge[p].todo = {}
        /\ Goes(p, "recheck") /\ UNCHANGED <<grant, faults>>
     \/ \E m \in purge[p].todo :
          \/ /\ grant' = IF box[m].creds THEN grant \ {m} ELSE grant
             /\ purge' = [purge EXCEPT ![p].todo = @ \ {m}]
             /\ faults' = faults
          \/ /\ box[m].creds
             /\ Fault("google")
             /\ purge' = RevokeFails(p, m)
             /\ UNCHANGED <<grant>>
  /\ UNCHANGED <<user, requests, store, billing, lock, sync, trail, acts, late, lax, leaked>>

PurgeRecheck(p) ==
  /\ purge[p].pc = "recheck"
  /\ \/ user /\ ~ billing.live /\ Goes(p, "receipt") /\ faults' = faults
     \/ (~ user \/ billing.live) /\ Stops(p) /\ faults' = faults
     \/ Fault("billing") /\ Stops(p)
  /\ UNCHANGED <<user, requests, store, world, lock, sync, trail, acts, ghosts>>

(* enqueueReceipt, then recordAudit (a read and an insert: two overlapping *)
(* purges may both insert).                                                *)
PurgeReceipt(p) ==
  /\ purge[p].pc = "receipt"
  /\ receipt' = TRUE
  /\ Goes(p, "audit")
  /\ UNCHANGED <<user, requests, store, world, lock, sync, audits, acts, faults, late, lax, leaked>>

PurgeAudit(p) ==
  /\ purge[p].pc = "audit"
  /\ audits' = TRUE
  /\ Goes(p, "drop")
  /\ UNCHANGED <<user, requests, store, world, lock, sync, receipt, acts, faults, ghosts>>

(* mail_messages in chunks, then the mailboxes and, by cascade, their      *)
(* requests.                                                               *)
PurgeDrop(p) ==
  /\ purge[p].pc = "drop"
  /\ IF \E m \in Mailboxes : mail[m] > 0
     THEN /\ \E m \in Mailboxes : mail[m] > 0 /\ mail' = [mail EXCEPT ![m] = @ - 1]
          /\ UNCHANGED <<purge, box, letters, req>>
     ELSE /\ box' = [m \in Mailboxes |-> Absent]
          /\ req' = [m \in Mailboxes |-> NoRequest]
          /\ letters' = {}
          /\ mail' = mail
          /\ Goes(p, "reverify")
  /\ UNCHANGED <<user, acct, world, lock, sync, trail, acts, faults, late, lax, leaked>>

PurgeReverify(p) == purge[p].pc = "reverify" /\ Verify(p, "final")

(* The user's row goes, and with it what still refers to it. *)
PurgeFinal(p) ==
  /\ purge[p].pc = "final"
  /\ Stops(p)
  /\ IF user /\ EvidenceUnchanged(p)
     THEN /\ user' = FALSE
          /\ acct' = NoRequest
          /\ box' = [m \in Mailboxes |-> Absent]
          /\ req' = [m \in Mailboxes |-> NoRequest]
          /\ mail' = [m \in Mailboxes |-> 0] /\ letters' = {}
     ELSE UNCHANGED <<user, requests, store>>
  /\ UNCHANGED <<world, lock, sync, trail, acts, faults, ghosts>>

-------------------------------------------------------------------------------
(* One mailbox's indexed data. *)

(* The claim of one due mailbox; losing it passes to the next. *)
SweepMailbox(p) ==
  /\ purge[p].pc = "box"
  /\ LET due == {m \in purge[p].todo : Claimable(req[m])} IN
     \/ /\ due = {}
        /\ purge' = [purge EXCEPT ![p] = IdlePurge]
        /\ req' = req
     \/ \E m \in due :
          /\ req' = [req EXCEPT ![m] = [state |-> "executing", stale |-> FALSE]]
          /\ purge' = [purge EXCEPT ![p].pc = "lock", ![p].box = m, ![p].todo = @ \ {m}]
  /\ UNCHANGED <<user, acct, store, world, lock, sync, trail, acts, faults, ghosts>>

EndsBox(p) == purge' = [purge EXCEPT ![p].pc = "box", ![p].box = None]

Releases(p) == [m \in Mailboxes |-> IF lock[m] = p THEN None ELSE lock[m]]

(* The lock wait is bounded: giving up records the failure. *)
MailboxLock(p) ==
  LET m == purge[p].box IN
  /\ purge[p].pc = "lock"
  /\ \/ /\ lock[m] = None
        /\ lock' = [lock EXCEPT ![m] = p]
        /\ Goes(p, "disconnect")
        /\ req' = req
     \/ /\ lock[m] # None
        /\ lock' = lock /\ EndsBox(p)
        /\ req' = [req EXCEPT ![m].state = IF @ = "executing" THEN "failed" ELSE @]
  /\ UNCHANGED <<user, acct, store, world, sync, trail, acts, faults, ghosts>>

(* Revoke what is left, disconnect durably, before the chunked phase. *)
MailboxDisconnect(p) ==
  LET m == purge[p].box IN
  /\ purge[p].pc = "disconnect"
  /\ IF box[m].status = "absent"
     THEN EndsBox(p) /\ lock' = Releases(p) /\ UNCHANGED <<box, grant>>
     ELSE /\ box' = [box EXCEPT ![m] = [status |-> "disconnected", creds |-> FALSE]]
          /\ grant' = IF box[m].creds THEN grant \ {m} ELSE grant
          /\ Goes(p, "erase")
          /\ lock' = lock
  /\ UNCHANGED <<user, requests, mail, letters, billing, sync, trail, acts, faults, ghosts>>

MailboxErase(p) ==
  LET m == purge[p].box IN
  /\ purge[p].pc = "erase"
  /\ IF mail[m] > 0
     THEN mail' = [mail EXCEPT ![m] = @ - 1] /\ purge' = purge
     ELSE mail' = mail /\ Goes(p, "finish")
  /\ UNCHANGED <<user, requests, box, letters, world, lock, sync, trail, acts, faults, ghosts>>

(* The last transaction erases what came meanwhile, with the request row   *)
(* locked.                                                                 *)
MailboxFinish(p) ==
  LET m == purge[p].box IN
  /\ purge[p].pc = "finish"
  /\ EndsBox(p) /\ lock' = Releases(p)
  /\ mail' = [mail EXCEPT ![m] = 0]
  /\ letters' = letters \ {m}
  /\ req' = [req EXCEPT ![m] = IF @.state = "none" THEN @ ELSE [state |-> "completed", stale |-> FALSE]]
  /\ UNCHANGED <<user, acct, box, world, sync, trail, acts, faults, ghosts>>

(* An error after the claim: markMailboxRequestFailed. *)
MailboxFails(p) ==
  LET m == purge[p].box IN
  /\ purge[p].pc \in {"disconnect", "erase", "finish"}
  /\ Fault("google")
  /\ req' = [req EXCEPT ![m].state = IF @ = "executing" THEN "failed" ELSE @]
  /\ EndsBox(p) /\ lock' = Releases(p)
  /\ UNCHANGED <<user, acct, store, world, sync, trail, acts, ghosts>>

Crash(p) ==
  /\ purge[p].pc # "idle"
  /\ Fault("crash")
  /\ purge' = [purge EXCEPT ![p] = IdlePurge] /\ lock' = Releases(p)
  /\ UNCHANGED <<user, requests, store, world, sync, trail, acts, ghosts>>

(* EXECUTING_TAKEOVER_AFTER_MS passes: over a dead purge, or over a slow   *)
(* one that goes on.                                                       *)
Working(m) ==
  \E p \in Purgers : IF m = None THEN purge[p].pc \in AccountWork
                     ELSE purge[p].box = m

TimePasses(m) ==
  /\ IF Working(m) THEN Fault("slow") ELSE faults' = faults
  /\ IF m = None
     THEN acct.state = "executing" /\ ~ acct.stale /\ acct' = [acct EXCEPT !.stale = TRUE] /\ req' = req
     ELSE req[m].state = "executing" /\ ~ req[m].stale /\ req' = [req EXCEPT ![m].stale = TRUE]
          /\ acct' = acct
  /\ UNCHANGED <<user, store, world, lock, sync, purge, trail, acts, ghosts>>

-------------------------------------------------------------------------------
Init ==
  /\ user = TRUE
  /\ acct = NoRequest
  /\ req = [m \in Mailboxes |-> NoRequest]
  /\ box = [m \in Mailboxes |-> IF m \in Connected THEN [status |-> "active", creds |-> TRUE] ELSE Absent]
  /\ grant = Connected
  /\ mail = [m \in Mailboxes |-> IF m \in Connected THEN 1 ELSE 0]
  /\ letters = {}
  /\ lock = [m \in Mailboxes |-> None]
  /\ sync = [m \in Mailboxes |-> "idle"]
  /\ purge = [p \in Purgers |-> IdlePurge]
  /\ billing = [live |-> FALSE, rev |-> 0]
  /\ receipt = FALSE /\ audits = FALSE
  /\ acts = 0 /\ faults = 0
  /\ late = {} /\ lax = {} /\ leaked = {}

PurgeSteps(p) ==
  \/ SweepStart(p) \/ PurgeCheck(p) \/ PurgeVerify(p) \/ PurgeClaim(p)
  \/ PurgeRevoke(p) \/ PurgeRecheck(p) \/ PurgeReceipt(p) \/ PurgeAudit(p) \/ PurgeDrop(p)
  \/ PurgeReverify(p) \/ PurgeFinal(p)
  \/ SweepMailbox(p)
  \/ MailboxLock(p) \/ MailboxDisconnect(p) \/ MailboxErase(p) \/ MailboxFinish(p)

SyncSteps(m) == ScanFetch(m) \/ ScanFlush(m) \/ IncrementalWrites(m)

Next ==
  \/ RequestAccount \/ CancelAccount \/ BillingEvent
  \/ \E m \in Mailboxes : Connect(m) \/ Disconnect(m) \/ RequestMailbox(m) \/ SyncStart(m)
                          \/ SyncSteps(m) \/ SyncFails(m)
  \/ \E p \in Purgers : PurgeSteps(p) \/ MailboxFails(p) \/ Crash(p)
  \/ \E m \in Mailboxes \cup {None} : TimePasses(m)

Spec == Init /\ [][Next]_vars

(* The sweep ticks and its steps run; time passes; scans end. *)
LiveSpec ==
  /\ Spec
  /\ \A p \in Purgers : WF_vars(PurgeSteps(p))
  /\ \A m \in Mailboxes \cup {None} : WF_vars(TimePasses(m) /\ faults' = faults)
  /\ \A m \in Mailboxes : WF_vars(IncrementalWrites(m)) /\ WF_vars(ScanFetch(m))
                          /\ SF_vars(ScanFlush(m) /\ sync'[m] = "idle")

-------------------------------------------------------------------------------
TypeOK ==
  /\ {user, receipt, audits} \subseteq BOOLEAN
  /\ acct.state \in {"none", "pending", "executing", "cancelled"}
  /\ \A m \in Mailboxes :
       /\ req[m].state \in {"none", "pending", "executing", "failed", "completed"}
       /\ box[m].status \in {"absent", "active", "disconnected"}
       /\ box[m].creds = (box[m].status = "active")
       /\ mail[m] \in 0 .. MaxRows
       /\ box[m].status = "absent" => mail[m] = 0 /\ req[m].state = "none"
       /\ lock[m] # None => purge[lock[m]].box = m
  /\ letters \subseteq Mailboxes

(* DroppedCleanly: once the user is gone the receipt is on its way, the    *)
(* audit row exists and no Google grant is left live, wherever the purges  *)
(* before it stopped; except the grant of a mailbox connected after the    *)
(* purge took its list, or of one disconnected while Google did not answer.*)
DroppedCleanly == ~ user => receipt /\ audits /\ grant \subseteq late \cup lax

(* BilledNeverDropped: a user is dropped, and a purge claims a request,    *)
(* only while the billing evidence says stopped.                           *)
BilledNeverDropped ==
  [][/\ (user /\ ~ user') => ~ billing.live
     /\ (acct.state # "executing" /\ acct'.state = "executing") => ~ billing.live]_vars

(* DeletedIsEmpty: a mailbox whose indexed data is recorded as deleted has *)
(* none, is disconnected and has no credentials, unless a scan that was    *)
(* already running wrote its last chunk after the purge.                   *)
DeletedIsEmpty ==
  \A m \in Mailboxes : req[m].state = "completed" =>
    /\ box[m] = [status |-> "disconnected", creds |-> FALSE]
    /\ m \notin letters
    /\ mail[m] = 0 \/ m \in leaked

(* EveryRequestEnds: a request is carried out, whatever crashes: the       *)
(* account's unless it is cancelled or billing blocks it.                  *)
EveryRequestEnds ==
  <>[](/\ acct.state \in {"pending", "executing"} => billing.live
       /\ \A m \in Mailboxes : req[m].state \in {"none", "completed"})
================================================================================
