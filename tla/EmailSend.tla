------------------------------- MODULE EmailSend -------------------------------
(***************************************************************************)
(* One logical email: the job its idempotency key names, the enqueue that  *)
(* deduplicates on the recorded outcome, the worker that sends it, and the *)
(* runtime lease and delivery marker that guard the provider call.         *)
(*                                                                         *)
(* The lease is staged: with it off (guarded = FALSE) only the provider's  *)
(* idempotency key, which it forgets after a while, stops a second copy.   *)
(***************************************************************************)
EXTENDS Naturals, FiniteSets

CONSTANTS
  Boots,        \* worker processes
  Runs,         \* executions of the job that can overlap
  Enqueuers,    \* callers of enqueueEmailSend that can overlap
  MaxAttempts,  \* attempts of the policy
  FaultKinds,   \* the kinds of fault the environment may inject
  MaxFaults,    \* bound: faults in one behaviour
  MaxAdds,      \* bound: times the job is added
  None          \* no marker, no holder

AllFaults == {"crash", "expire", "stall", "silent", "lost_begin", "ack", "abort",
              "unlist", "drop_hash"}

ASSUME SetsAssumption ==
  /\ IsFiniteSet(Boots) /\ IsFiniteSet(Runs)
  /\ FaultKinds \subseteq AllFaults
  /\ None \notin Boots \cup Runs \cup Nat \cup {"unknown", "accepted", "sent", "ok"}

ASSUME BoundsAssumption == {MaxAttempts, MaxFaults, MaxAdds} \subseteq Nat

VARIABLES
  guarded,   \* EMAIL_RUNTIME_LEASE_ENABLED
  registry,  \* the broker's record of each boot: absent, live or expired
  lease,     \* each boot's own view of its lease
  job,       \* the BullMQ job: state, outcome, marker, lock, attempts made
  runs,      \* executions of the job
  request,   \* each run's request at the provider
  known,     \* the provider remembers the idempotency key
  eligible,  \* preferences, recipient and resolver let the email go
  enq,       \* enqueues between their check and their replacement
  adds,      \* times the job was added
  faults,
  sent,      \* ghost: copies the provider took
  forgot,    \* ghost: the provider has forgotten the key since
  dropped,   \* ghost: jobs whose record was lost
  raced      \* ghost: an enqueue removed another job than the one it checked

vars == <<guarded, registry, lease, job, runs, request, known, eligible, enq, adds, faults,
          sent, forgot, dropped, raced>>
broker == <<registry, lease>>
provider == <<request, known, sent, forgot>>
producers == <<enq, adds, raced>>

-------------------------------------------------------------------------------
NoJob == [state |-> "none", outcome |-> None, marker |-> None, by |-> None, lock |-> None,
          tries |-> 0]
NewJob == [NoJob EXCEPT !.state = "waiting"]
IdleRun == [pc |-> "idle", boot |-> None, result |-> None, aborted |-> FALSE]

Fault(kind) ==
  /\ kind \in FaultKinds
  /\ faults < MaxFaults
  /\ faults' = faults + 1

(* Processes, runs and callers are alike: the next one is a fixed one.     *)
First(S, Idle(_)) ==
  LET idle == {x \in S : Idle(x)} IN
  IF idle = {} THEN None ELSE CHOOSE x \in idle : TRUE

(* A fresh attempt id: not the marker's, nor one still at the provider. *)
Fresh(r) == runs[r].pc = "idle" /\ job.by # r /\ request[r] # "pending"

-------------------------------------------------------------------------------
(* enqueueEmailSend *)

(* Live, failed and sent jobs are left alone; what is known unsent may be  *)
(* replaced, unless the hash holds evidence of a delivery.                 *)
ReapableByOutcome ==
  job.state = "unknown" \/ (job.state = "completed" /\ job.outcome # "sent")
Reapable == ReapableByOutcome /\ job.marker = None

Enqueue(e) ==
  /\ e = First(Enqueuers, LAMBDA x : enq[x] = None)
  /\ adds < MaxAdds
  /\ \/ /\ job.state = "none"
        /\ job' = NewJob /\ adds' = adds + 1 /\ enq' = enq
     \/ /\ Reapable
        /\ enq' = [enq EXCEPT ![e] = adds]
        /\ UNCHANGED <<job, adds>>
  /\ UNCHANGED <<guarded, broker, runs, provider, eligible, faults, dropped, raced>>

(* remove() and add(): a locked job is left alone; an id in use absorbs    *)
(* the add.                                                                *)
EnqueueReplaces(e) ==
  /\ enq[e] # None
  /\ enq' = [enq EXCEPT ![e] = None]
  /\ IF job.lock = None /\ adds < MaxAdds
     THEN /\ job' = NewJob
          /\ adds' = adds + 1
          /\ raced' = (raced \/ adds # enq[e])
     ELSE UNCHANGED <<job, adds, raced>>
  /\ UNCHANGED <<guarded, broker, runs, provider, eligible, faults, dropped>>

(* Preferences change, the user returns, the notice is no longer due. *)
Toggle ==
  /\ job.state \in {"completed", "waiting"}
  /\ eligible' = ~ eligible
  /\ UNCHANGED <<guarded, broker, job, runs, provider, enq, adds, faults, dropped, raced>>

-------------------------------------------------------------------------------
(* EmailRuntimeLease *)

(* register, the first polls, publish. *)
Register(b) ==
  /\ b = First(Boots, LAMBDA x : lease[x] = "new")
  /\ lease' = [lease EXCEPT ![b] = "active"]
  /\ registry' = IF guarded THEN [registry EXCEPT ![b] = "live"] ELSE registry
  /\ UNCHANGED <<guarded, job, runs, provider, eligible, producers, faults, dropped>>

(* A record outlives its renewals: the process died, or stopped renewing.  *)
RecordExpires(b) ==
  /\ registry[b] = "live"
  /\ \/ lease[b] \in {"revoked", "gone"} /\ faults' = faults
     \/ lease[b] = "active" /\ Fault("expire")
  /\ registry' = [registry EXCEPT ![b] = "expired"]
  /\ UNCHANGED <<guarded, lease, job, runs, provider, eligible, producers, dropped>>

(* The failed renewal of a lost lease: onLost pauses the consumers. *)
RenewFails(b) ==
  /\ lease[b] = "active" /\ registry[b] = "expired"
  /\ lease' = [lease EXCEPT ![b] = "revoked"]
  /\ UNCHANGED <<guarded, registry, job, runs, provider, eligible, producers, faults, dropped>>

(* SIGTERM: invalidate() fences admission; the record stays, expired.      *)
Shutdown(b) ==
  /\ lease[b] \in {"active", "revoked"}
  /\ lease' = [lease EXCEPT ![b] = "closing"]
  /\ registry' = IF guarded THEN [registry EXCEPT ![b] = "expired"] ELSE registry
  /\ UNCHANGED <<guarded, job, runs, provider, eligible, producers, faults, dropped>>

DrainedAlways(b) == TRUE
Drained(b) == \A r \in Runs : runs[r].boot # b

(* The pollers are closed and the deliveries settled: release(). *)
Release(b) ==
  /\ lease[b] = "closing"
  /\ Drained(b)
  /\ lease' = [lease EXCEPT ![b] = "gone"]
  /\ registry' = [registry EXCEPT ![b] = "absent"]
  /\ UNCHANGED <<guarded, job, runs, provider, eligible, producers, faults, dropped>>

(* The process dies with its runs; its requests do not. *)
Crash(b) ==
  /\ lease[b] \in {"active", "revoked", "closing"}
  /\ Fault("crash")
  /\ lease' = [lease EXCEPT ![b] = "gone"]
  /\ runs' = [r \in Runs |-> IF runs[r].boot = b THEN IdleRun ELSE runs[r]]
  /\ request' = [r \in Runs |-> IF runs[r].boot # b \/ request[r] = "pending"
                                THEN request[r] ELSE "none"]
  /\ UNCHANGED <<guarded, registry, job, known, sent, forgot, eligible, producers, dropped>>

(* validEmailRuntimeActors: one expired record refuses everyone. *)
ActorsValid == \A b \in Boots : registry[b] # "expired"

Admitted(r) ==
  LET b == runs[r].boot IN
  ~ guarded \/ (lease[b] = "active" /\ registry[b] = "live" /\ ActorsValid)

-------------------------------------------------------------------------------
(* One run.  The job moves only for the run that holds its lock. *)

Moves(r, to) == IF job.lock = r THEN to ELSE job
Ends(r) == runs' = [runs EXCEPT ![r] = IdleRun]
At(r, pc) == runs[r].pc = pc
Goes(r, pc) == runs' = [runs EXCEPT ![r].pc = pc]

(* moveToDelayed: no attempt is spent. *)
Postponed(r, hash) == IF hash.lock = r THEN [hash EXCEPT !.state = "waiting", !.lock = None] ELSE hash

(* A refusal by the broker also revokes the lease of the boot that asked. *)
Refused(r) ==
  /\ job' = Postponed(r, job)
  /\ Ends(r)
  /\ lease' = [lease EXCEPT ![runs[r].boot] = IF @ = "active" THEN "revoked" ELSE @]

FailedRetries == [job EXCEPT !.state = "waiting", !.lock = None]
Failed == [job EXCEPT !.state = "failed", !.lock = None]

Claim(r, b) ==
  /\ job.state = "waiting" /\ lease[b] = "active"
  /\ r = First(Runs, Fresh)
  /\ job' = [job EXCEPT !.state = "active", !.lock = r]
  /\ runs' = [runs EXCEPT ![r] = [IdleRun EXCEPT !.pc = "admit", !.boot = b]]
  /\ UNCHANGED <<guarded, broker, provider, eligible, producers, faults, dropped>>

(* EmailRuntimeGuard.run: admission, then a job with an unsettled delivery *)
(* fails before anything can complete it.                                  *)
RunAdmit(r) ==
  /\ At(r, "admit")
  /\ \/ /\ ~ Admitted(r)
        /\ Refused(r)
     \/ /\ Admitted(r) /\ job.marker = "unknown"
        /\ job' = Moves(r, Failed) /\ Ends(r) /\ lease' = lease
     \/ /\ Admitted(r) /\ job.marker # "unknown"
        /\ Goes(r, "process")
        /\ UNCHANGED <<job, lease>>
  /\ UNCHANGED <<guarded, registry, provider, eligible, producers, faults, dropped>>

(* processJob up to the delivery: every reason not to send completes the   *)
(* job as skipped.                                                         *)
RunProcess(r) ==
  /\ At(r, "process")
  /\ runs' = [runs EXCEPT ![r].pc = IF eligible THEN "begin" ELSE "finish",
                          ![r].result = IF eligible THEN None ELSE "skipped"]
  /\ UNCHANGED <<guarded, broker, job, provider, eligible, producers, faults, dropped>>

(* The deadline passes; the run goes on until its promise settles. *)
RunAborts(r) ==
  /\ runs[r].pc \in {"process", "begin", "begun"} /\ ~ runs[r].aborted
  /\ Fault("abort")
  /\ runs' = [runs EXCEPT ![r].aborted = TRUE]
  /\ UNCHANGED <<guarded, broker, job, provider, eligible, producers, dropped>>

OwnMarker(r) == job.marker = "unknown" /\ job.by = r
Unmarked == [job EXCEPT !.marker = None, !.by = None]

(* assertDeliveryAdmission and the BEGIN script.  An accepted marker       *)
(* answers for the provider; an unknown one stops the job.                 *)

RunBegin(r) ==
  /\ At(r, "begin")
  /\ \/ /\ runs[r].aborted
        /\ Goes(r, "throw") /\ UNCHANGED <<job, lease>>
     \/ /\ ~ runs[r].aborted /\ ~ guarded
        /\ Goes(r, "call") /\ UNCHANGED <<job, lease>>
     \/ /\ ~ runs[r].aborted /\ guarded /\ ~ Admitted(r)
        /\ Refused(r)
     \/ /\ ~ runs[r].aborted /\ guarded /\ Admitted(r) /\ job.lock # r
        /\ Ends(r) /\ UNCHANGED <<job, lease>>
     \/ /\ ~ runs[r].aborted /\ guarded /\ Admitted(r) /\ job.lock = r
        /\ lease' = lease
        /\ \/ /\ job.marker = "accepted"
              /\ runs' = [runs EXCEPT ![r].pc = "mark", ![r].result = "ok"]
              /\ job' = job
           \/ /\ job.marker = "unknown"
              /\ job' = Failed /\ Ends(r)
           \/ /\ job.marker = None
              /\ job' = [job EXCEPT !.marker = "unknown", !.by = r]
              /\ Goes(r, "begun")
  /\ UNCHANGED <<guarded, registry, provider, eligible, producers, faults, dropped>>

(* The answer of BEGIN is lost: the marker of this attempt, if it was set  *)
(* and Redis answers the second call, is taken back.                       *)
BeginLost(r) ==
  /\ At(r, "begin") /\ guarded /\ Admitted(r) /\ job.lock = r
  /\ Fault("lost_begin")
  /\ \E stays \in BOOLEAN :
       job' = Postponed(r, IF stays /\ job.marker = None
                           THEN [job EXCEPT !.marker = "unknown", !.by = r] ELSE job)
  /\ Ends(r)
  /\ UNCHANGED <<guarded, broker, provider, eligible, producers, dropped>>

(* After BEGIN, before the provider: a fence raised meanwhile takes the    *)
(* marker back.                                                            *)
RunBegun(r) ==
  LET open == /\ ~ runs[r].aborted
              /\ lease[runs[r].boot] = "active" /\ registry[runs[r].boot] = "live"
  IN
  /\ At(r, "begun")
  /\ IF open THEN Goes(r, "call") /\ job' = job
     ELSE /\ Ends(r)
          /\ job' = IF OwnMarker(r) THEN Postponed(r, Unmarked) ELSE Moves(r, Failed)
  /\ UNCHANGED <<guarded, broker, provider, eligible, producers, faults, dropped>>

RunCall(r) ==
  /\ At(r, "call")
  /\ request' = [request EXCEPT ![r] = "pending"]
  /\ Goes(r, "wait")
  /\ UNCHANGED <<guarded, broker, job, known, sent, forgot, eligible, producers, faults, dropped>>

(* EmailService: an answer, or none (a timeout or a 5xx), which says       *)
(* nothing of what the provider did or will do with the request.           *)
SilenceIsSuccess == [pc |-> "settle", result |-> "ok"]
Silence == [pc |-> "throw", result |-> None]

Answered(r) ==
  /\ At(r, "wait")
  /\ \/ /\ request[r] \in {"accepted", "refused"}
        /\ runs' = [runs EXCEPT ![r].pc = "settle",
                                ![r].result = IF request[r] = "accepted" THEN "ok" ELSE "skipped"]
        /\ request' = [request EXCEPT ![r] = "none"]
        /\ faults' = faults
     \/ /\ Fault("silent")
        /\ runs' = [runs EXCEPT ![r].pc = Silence.pc, ![r].result = Silence.result]
        /\ request' = [request EXCEPT ![r] = IF @ = "pending" THEN @ ELSE "none"]
  /\ UNCHANGED <<guarded, broker, job, known, sent, forgot, eligible, producers, dropped>>

(* SETTLE: accepted is recorded, a refusal takes the marker back; a marker *)
(* that is not this attempt's leaves the delivery unverified.              *)
Settled(result) ==
  IF result = "ok" THEN [job EXCEPT !.marker = "accepted", !.by = None] ELSE Unmarked

RunSettle(r) ==
  /\ At(r, "settle")
  /\ IF guarded /\ ~ OwnMarker(r)
     THEN job' = Moves(r, Failed) /\ Ends(r)
     ELSE /\ job' = IF guarded THEN Settled(runs[r].result) ELSE job
          /\ Goes(r, IF runs[r].result = "ok" THEN "mark" ELSE "finish")
  /\ UNCHANGED <<guarded, broker, provider, eligible, producers, faults, dropped>>

(* markBriefDelivered, whose failure retries the job. *)
RunMark(r) ==
  /\ At(r, "mark")
  /\ \/ Goes(r, "finish") /\ faults' = faults
     \/ Fault("ack") /\ Goes(r, "throw")
  /\ UNCHANGED <<guarded, broker, job, provider, eligible, producers, dropped>>

RunFinish(r) ==
  /\ At(r, "finish")
  /\ job' = Moves(r, [job EXCEPT !.state = "completed", !.lock = None,
                        !.outcome = IF runs[r].result = "ok" THEN "sent" ELSE "skipped"])
  /\ Ends(r)
  /\ UNCHANGED <<guarded, broker, provider, eligible, producers, faults, dropped>>

(* The run throws: an unsettled delivery is never retried.                 *)
Unverified == guarded /\ job.marker = "unknown"

RunThrow(r) ==
  /\ At(r, "throw")
  /\ job' = Moves(r, IF Unverified \/ job.tries + 1 >= MaxAttempts THEN Failed
                     ELSE [job EXCEPT !.state = "waiting", !.lock = None, !.tries = @ + 1])
  /\ Ends(r)
  /\ UNCHANGED <<guarded, broker, provider, eligible, producers, faults, dropped>>

-------------------------------------------------------------------------------
(* The provider and BullMQ (external). *)

ProviderTakes(r) ==
  /\ request[r] = "pending"
  /\ \/ /\ request' = [request EXCEPT ![r] = IF At(r, "wait") THEN "accepted" ELSE "none"]
        /\ sent' = IF known THEN sent ELSE sent + 1
        /\ known' = TRUE
     \/ /\ request' = [request EXCEPT ![r] = IF At(r, "wait") THEN "refused" ELSE "none"]
        /\ UNCHANGED <<sent, known>>
  /\ UNCHANGED <<guarded, broker, job, runs, forgot, eligible, producers, faults, dropped>>

(* The provider's retention of the key ends. *)
KeyForgotten ==
  /\ known
  /\ known' = FALSE /\ forgot' = TRUE
  /\ UNCHANGED <<guarded, broker, job, runs, request, sent, eligible, producers, faults, dropped>>

(* A job whose lock has expired is handed out again: its run is gone, or   *)
(* only stalled.                                                           *)
JobStalls ==
  /\ job.state = "active"
  /\ \/ runs[job.lock].pc = "idle" /\ faults' = faults
     \/ runs[job.lock].pc # "idle" /\ Fault("stall")
  /\ job' = [job EXCEPT !.state = "waiting", !.lock = None]
  /\ UNCHANGED <<guarded, broker, runs, provider, eligible, producers, dropped>>

(* Redis loses the job's list entry, or the whole hash; or the hash of a   *)
(* completed job reaches the end of its retention.                         *)
JobLost ==
  /\ \/ /\ Fault("unlist") /\ job.state = "waiting"
        /\ job' = [job EXCEPT !.state = "unknown"]
        /\ dropped' = dropped
     \/ /\ Fault("drop_hash") /\ job.state # "none"
        /\ job' = NoJob
        /\ dropped' = dropped + 1
  /\ UNCHANGED <<guarded, broker, runs, provider, eligible, producers>>

-------------------------------------------------------------------------------
Init ==
  /\ guarded \in BOOLEAN
  /\ registry = [b \in Boots |-> "absent"]
  /\ lease = [b \in Boots |-> "new"]
  /\ job = NoJob
  /\ runs = [r \in Runs |-> IdleRun]
  /\ request = [r \in Runs |-> "none"]
  /\ known = FALSE /\ forgot = FALSE /\ sent = 0
  /\ eligible \in BOOLEAN
  /\ enq = [e \in Enqueuers |-> None]
  /\ adds = 0 /\ faults = 0 /\ dropped = 0 /\ raced = FALSE

RunSteps(r) ==
  \/ \E b \in Boots : Claim(r, b)
  \/ RunAdmit(r) \/ RunProcess(r) \/ RunBegin(r) \/ RunBegun(r) \/ RunCall(r)
  \/ Answered(r) \/ RunSettle(r) \/ RunMark(r) \/ RunFinish(r) \/ RunThrow(r)

Next ==
  \/ \E e \in Enqueuers : Enqueue(e) \/ EnqueueReplaces(e)
  \/ Toggle
  \/ \E b \in Boots : Register(b) \/ RecordExpires(b) \/ RenewFails(b) \/ Shutdown(b)
                      \/ Release(b) \/ Crash(b)
  \/ \E r \in Runs : RunSteps(r) \/ RunAborts(r) \/ BeginLost(r) \/ ProviderTakes(r)
  \/ KeyForgotten \/ JobStalls \/ JobLost

Spec == Init /\ [][Next]_vars

(* The processes run, the provider answers, stalled jobs are handed out.   *)
LiveSpec ==
  /\ Spec
  /\ WF_vars(\E r \in Runs : RunSteps(r))
  /\ WF_vars(\E r \in Runs : ProviderTakes(r))
  /\ WF_vars(JobStalls)
  /\ \A b \in Boots : WF_vars(Register(b)) /\ WF_vars(Release(b))

-------------------------------------------------------------------------------
(* TypeOK: shapes; a live job is locked exactly while it is active, and an *)
(* unknown marker names the attempt that set it.                           *)
TypeOK ==
  /\ registry \in [Boots -> {"absent", "live", "expired"}]
  /\ lease \in [Boots -> {"new", "active", "revoked", "closing", "gone"}]
  /\ job.state \in {"none", "waiting", "active", "completed", "failed", "unknown"}
  /\ (job.state = "active") = (job.lock \in Runs)
  /\ (job.marker = "unknown") = (job.by \in Runs)
  /\ job.tries \in 0 .. MaxAttempts
  /\ request \in [Runs -> {"none", "pending", "accepted", "refused"}]
  /\ \A r \in Runs : (runs[r].pc = "idle") = (runs[r].boot = None)

(* SentOnce: one logical email leaves once, whatever is retried, stalled,  *)
(* redelivered or lost on the way; with the guard, also after the provider *)
(* has forgotten the key.  A second copy needs the job's record to be gone *)
(* or two enqueues to overlap a whole send.                                *)
SentOnce == (~ raced /\ (guarded \/ ~ forgot)) => sent <= 1 + dropped

(* ReportedWasSent: a job recorded as sent was taken by the provider.      *)
ReportedWasSent == (job.state = "completed" /\ job.outcome = "sent") => sent >= 1

(* DrainedBeforeGone: a run that has begun a delivery and not settled it   *)
(* has its process on record, so no reader of the registry takes the       *)
(* fleet for settled.                                                      *)
DrainedBeforeGone ==
  \A r \in Runs : (guarded /\ runs[r].pc \in {"begun", "call", "wait", "settle"}) =>
                    registry[runs[r].boot] # "absent"

(* Resolves: while every process that started keeps its lease, an added    *)
(* email ends: sent, skipped, or failed for a person to look at.           *)
Resolves ==
  <>[](\/ job.state \notin {"waiting", "active"}
       \/ \E b \in Boots : lease[b] \notin {"new", "active"} \/ registry[b] = "expired")
================================================================================
