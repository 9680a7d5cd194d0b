---------------------------- MODULE EmailSendProofs ----------------------------
(***************************************************************************)
(* Proofs about EmailSend, for any number of processes, overlapping runs   *)
(* and callers, and any number of faults of any kind.                      *)
(*                                                                         *)
(* That one email leaves once is an argument about a budget.  A run that   *)
(* may still make the provider take a copy holds a token; an unmarked hash *)
(* has a token to give.  Copies sent, tokens held and the token left never *)
(* exceed one for each hash there has been, while no enqueue replaces a    *)
(* job other than the one it checked.                                      *)
(***************************************************************************)
EXTENDS EmailSend, FiniteSetTheorems, TLAPS

-------------------------------------------------------------------------------
(* The inductive invariant.                                                *)

Points == {"idle", "admit", "process", "begin", "begun", "call", "wait", "settle", "mark",
           "finish", "throw"}
RunStates == [pc : Points, boot : Boots \cup {None}, result : {None, "ok", "skipped"},
              aborted : BOOLEAN]
JobStates == [state : {"none", "waiting", "active", "completed", "failed", "unknown"},
              outcome : {None, "sent", "skipped"}, marker : {None, "unknown", "accepted"},
              by : Runs \cup {None}, lock : Runs \cup {None}, tries : 0 .. MaxAttempts]
Answers == {"none", "pending", "accepted", "refused"}

Shape ==
  /\ {guarded, known, forgot, raced} \subseteq BOOLEAN
  /\ registry \in [Boots -> {"absent", "live", "expired"}]
  /\ lease \in [Boots -> {"new", "active", "revoked", "closing", "gone"}]
  /\ job \in JobStates /\ runs \in [Runs -> RunStates] /\ request \in [Runs -> Answers]
  /\ enq \in [Enqueuers -> Nat \cup {None}]
  /\ {adds, sent, dropped} \subseteq Nat

JobInv ==
  /\ job.state = "active" <=> job.lock # None
  /\ job.marker = "unknown" <=> job.by # None
  /\ job.state = "none" => job.marker = None
  /\ job.outcome = "sent" \/ job.marker = "accepted" => sent >= 1

Up == {"active", "revoked", "closing"}

BootInv(b) == guarded /\ lease[b] \in Up => registry[b] # "absent"

RunInv(r) ==
  /\ runs[r].pc = "idle" <=> runs[r].boot = None
  /\ runs[r].pc # "idle" => lease[runs[r].boot] \in Up
  /\ request[r] = "pending" => runs[r].pc \in {"idle", "wait", "throw"}
  /\ runs[r].result = "ok" \/ request[r] = "accepted" => sent >= 1

(* An enqueue that checked the job of the latest add still finds it idle   *)
(* and unmarked, or gone.                                                  *)
Untouched == job.marker = None /\ job.state \in {"none", "completed", "unknown"}
EnqInv(e) == enq[e] # None => enq[e] <= adds /\ (enq[e] = adds => Untouched)

KeyInv ==
  /\ known => sent >= 1
  /\ ~ forgot => sent <= 1 /\ (sent = 1 => known)

Holds(r) ==
  \/ runs[r].pc \in {"begun", "call"} \/ request[r] = "pending"
  \/ runs[r].pc = "wait" /\ request[r] = "refused"
  \/ runs[r].pc = "settle" /\ runs[r].result # "ok"
Tokens == {r \in Runs : Holds(r)}
Left == IF job.marker = None THEN 1 ELSE 0

BudgetInv == guarded /\ ~ raced => sent + Cardinality(Tokens) + Left <= 1 + dropped

IInv ==
  /\ Shape /\ JobInv /\ KeyInv /\ BudgetInv
  /\ \A b \in Boots : BootInv(b)
  /\ \A r \in Runs : RunInv(r)
  /\ \A e \in Enqueuers : EnqInv(e)
-------------------------------------------------------------------------------
(* Which steps write what.                                                 *)

USE SetsAssumption, BoundsAssumption
USE DEF vars, broker, provider, producers

(* The steps that write the job.                                           *)
LEMMA JobWriters ==
  ASSUME [Next]_vars
  PROVE  \/ job' = job
         \/ \E e \in Enqueuers : Enqueue(e) \/ EnqueueReplaces(e)
         \/ \E r \in Runs : \/ \E b \in Boots : Claim(r, b)
                            \/ RunAdmit(r) \/ RunBegin(r) \/ BeginLost(r) \/ RunBegun(r)
                            \/ RunSettle(r) \/ RunFinish(r) \/ RunThrow(r)
         \/ JobStalls \/ JobLost
  BY ZenonT(60)
     DEF Next, RunSteps, Toggle, Register, RecordExpires, RenewFails, Shutdown, Release, Crash,
         RunProcess, RunAborts, RunCall, Answered, RunMark, ProviderTakes, KeyForgotten

(* The steps that write a run.                                             *)
LEMMA RunWriters ==
  ASSUME [Next]_vars
  PROVE  \/ runs' = runs
         \/ \E b \in Boots : Crash(b)
         \/ \E r \in Runs : RunSteps(r) \/ RunAborts(r) \/ BeginLost(r)
  BY ZenonT(60)
     DEF Next, Enqueue, EnqueueReplaces, Toggle, Register, RecordExpires, RenewFails, Shutdown,
         Release, ProviderTakes, KeyForgotten, JobStalls, JobLost

(* The steps that write a request, or what the provider has done.          *)
LEMMA ProviderWriters ==
  ASSUME [Next]_vars
  PROVE  \/ UNCHANGED provider
         \/ \E b \in Boots : Crash(b)
         \/ \E r \in Runs : RunCall(r) \/ Answered(r) \/ ProviderTakes(r)
         \/ KeyForgotten
  BY ZenonT(60)
     DEF Next, RunSteps, Enqueue, EnqueueReplaces, Toggle, Register, RecordExpires, RenewFails,
         Shutdown, Release, Claim, RunAdmit, RunProcess, RunAborts, RunBegin, BeginLost, RunBegun,
         RunSettle, RunMark, RunFinish, RunThrow, JobStalls, JobLost

(* The steps that write the lease of a process, or its record.             *)
LEMMA BrokerWriters ==
  ASSUME [Next]_vars
  PROVE  \/ UNCHANGED broker
         \/ \E b \in Boots : Register(b) \/ RecordExpires(b) \/ RenewFails(b) \/ Shutdown(b)
                              \/ Release(b) \/ Crash(b)
         \/ \E r \in Runs : RunAdmit(r) \/ RunBegin(r)
  BY ZenonT(60)
     DEF Next, RunSteps, Enqueue, EnqueueReplaces, Toggle, Claim, RunProcess, RunAborts,
         BeginLost, RunBegun, RunCall, Answered, RunSettle, RunMark, RunFinish, RunThrow,
         ProviderTakes, KeyForgotten, JobStalls, JobLost

(* The steps that write what the enqueues remember.                        *)
LEMMA ProducerWriters ==
  ASSUME [Next]_vars
  PROVE  \/ UNCHANGED producers
         \/ \E e \in Enqueuers : Enqueue(e) \/ EnqueueReplaces(e)
  BY ZenonT(60)
     DEF Next, RunSteps, Toggle, Register, RecordExpires, RenewFails, Shutdown, Release, Crash,
         Claim, RunAdmit, RunProcess, RunAborts, RunBegin, BeginLost, RunBegun, RunCall,
         Answered, RunSettle, RunMark, RunFinish, RunThrow, ProviderTakes, KeyForgotten,
         JobStalls, JobLost

(* The lease flag never changes; records are lost and keys forgotten for   *)
(* good; copies are never taken back.                                      *)
LEMMA Monotone ==
  ASSUME IInv, [Next]_vars
  PROVE  /\ guarded' = guarded
         /\ forgot => forgot' = TRUE
         /\ raced => raced' = TRUE
         /\ sent' = sent \/ sent' = sent + 1
         /\ dropped' = dropped \/ (dropped' = dropped + 1 /\ JobLost)
<1>1. guarded' = guarded
  BY ZenonT(60)
     DEF Next, RunSteps, Enqueue, EnqueueReplaces, Toggle, Register, RecordExpires, RenewFails,
         Shutdown, Release, Crash, Claim, RunAdmit, RunProcess, RunAborts, RunBegin, BeginLost,
         RunBegun, RunCall, Answered, RunSettle, RunMark, RunFinish, RunThrow, ProviderTakes,
         KeyForgotten, JobStalls, JobLost
<1>2. dropped' = dropped \/ JobLost
  BY ZenonT(60)
     DEF Next, RunSteps, Enqueue, EnqueueReplaces, Toggle, Register, RecordExpires, RenewFails,
         Shutdown, Release, Crash, Claim, RunAdmit, RunProcess, RunAborts, RunBegin, BeginLost,
         RunBegun, RunCall, Answered, RunSettle, RunMark, RunFinish, RunThrow, ProviderTakes,
         KeyForgotten, JobStalls
<1>3. dropped' = dropped \/ (dropped' = dropped + 1 /\ JobLost)
  BY <1>2 DEF JobLost
<1>4. sent' = sent \/ sent' = sent + 1
  BY ProviderWriters DEF Crash, RunCall, Answered, ProviderTakes, KeyForgotten
<1>5. forgot => forgot' = TRUE
  BY ProviderWriters DEF IInv, Shape, Crash, RunCall, Answered, ProviderTakes, KeyForgotten
<1>6. raced => raced' = TRUE
  BY ProducerWriters DEF IInv, Shape, Enqueue, EnqueueReplaces
<1> QED
  BY <1>1, <1>3, <1>4, <1>5, <1>6
-------------------------------------------------------------------------------
(* What a step makes of the job.  Job j is a job in good order.            *)

Sound(j) ==
  /\ j \in JobStates
  /\ j.state = "active" <=> j.lock # None
  /\ j.marker = "unknown" <=> j.by # None
  /\ j.state = "none" => j.marker = None

SameMark(j) == j.marker = job.marker /\ j.by = job.by /\ j.outcome = job.outcome

(* The run that holds the lock ends its hold on the job.                   *)
LetGo(j) ==
  /\ Sound(j) /\ SameMark(j)
  /\ job.state = "active" /\ j.state # "active"

LEMMA JobSound == ASSUME IInv PROVE Sound(job) /\ job \in JobStates
  BY DEF IInv, Shape, JobInv, Sound

LEMMA NewJobSound ==
  /\ Sound(NoJob) /\ NoJob.marker = None /\ NoJob.outcome = None /\ NoJob.state = "none"
  /\ Sound(NewJob) /\ NewJob.marker = None /\ NewJob.outcome = None /\ NewJob.state = "waiting"
  BY DEF NoJob, NewJob, Sound, JobStates

(* Postponing, failing or parking a job is letting go of it.               *)
LEMMA Lets ==
  ASSUME IInv, NEW state \in {"waiting", "failed", "unknown"}, job.state = "active"
  PROVE  LetGo([job EXCEPT !.state = state, !.lock = None])
<1>1. Sound(job) /\ job \in JobStates
  BY JobSound
<1> QED
  BY <1>1 DEF LetGo, Sound, SameMark, JobStates

LEMMA Holder ==
  ASSUME IInv, NEW r \in Runs, job.lock = r
  PROVE  job.state = "active"
  BY DEF IInv, JobInv

LEMMA PostponedLets ==
  ASSUME IInv, NEW r \in Runs
  PROVE  Postponed(r, job) = job \/ LetGo(Postponed(r, job))
  BY Holder, Lets DEF Postponed

LEMMA FailedLets ==
  ASSUME IInv, NEW r \in Runs
  PROVE  Moves(r, Failed) = job \/ LetGo(Moves(r, Failed))
  BY Holder, Lets DEF Moves, Failed

(* A settled marker leaves the job where it is.                            *)
LEMMA UnmarkedSound ==
  ASSUME IInv
  PROVE  /\ Sound(Unmarked) /\ Unmarked.marker = None
         /\ Unmarked.state = job.state /\ Unmarked.outcome = job.outcome /\ Unmarked.lock = job.lock
<1>1. Sound(job) /\ job \in JobStates
  BY JobSound
<1> QED
  BY <1>1 DEF Unmarked, Sound, JobStates

LEMMA AcceptedSound ==
  ASSUME IInv, job.marker = "unknown"
  PROVE  LET j == [job EXCEPT !.marker = "accepted", !.by = None] IN
         Sound(j) /\ j.marker = "accepted" /\ j.state = job.state /\ j.outcome = job.outcome
<1>1. Sound(job) /\ job \in JobStates
  BY JobSound
<1> QED
  BY <1>1 DEF Sound, JobStates

LEMMA MarkedSound ==
  ASSUME IInv, NEW r \in Runs, job.lock = r
  PROVE  LET j == [job EXCEPT !.marker = "unknown", !.by = r] IN
         Sound(j) /\ j.marker = "unknown" /\ j.state = job.state /\ j.outcome = job.outcome
         /\ j.lock = job.lock /\ j.by = r
<1>1. Sound(job) /\ job \in JobStates
  BY JobSound
<1> QED
  BY <1>1 DEF Sound, JobStates
-------------------------------------------------------------------------------
(* What a step may do to the job.                                          *)

Passes == Sound(job') /\ SameMark(job') /\ job.state \in {"waiting", "active"}

Marks(r) ==
  /\ RunBegin(r) \/ BeginLost(r)
  /\ job.marker = None /\ job.state = "active"
  /\ Sound(job') /\ job'.marker = "unknown" /\ job'.outcome = job.outcome

Unmarks(r) ==
  /\ (RunBegun(r) /\ Ends(r)) \/ (RunSettle(r) /\ runs[r].result # "ok")
  /\ job.marker = "unknown"
  /\ Sound(job') /\ job'.marker = None /\ job'.outcome = job.outcome

Accepts(r) ==
  /\ RunSettle(r) /\ runs[r].result = "ok"
  /\ job.marker = "unknown"
  /\ Sound(job') /\ job'.marker = "accepted" /\ job'.outcome = job.outcome

Finishes(r) ==
  /\ RunFinish(r) /\ job.state = "active"
  /\ Sound(job') /\ job'.marker = job.marker
  /\ job'.outcome = "sent" <=> runs[r].result = "ok"

Renews(e) == (Enqueue(e) \/ EnqueueReplaces(e)) /\ job' = NewJob /\ adds' = adds + 1
Vanishes == JobLost /\ job' = NoJob /\ dropped' = dropped + 1

LEMMA JobMoves ==
  ASSUME IInv, [Next]_vars
  PROVE  \/ job' = job \/ Passes \/ Vanishes
         \/ \E r \in Runs : Marks(r) \/ Unmarks(r) \/ Accepts(r) \/ Finishes(r)
         \/ \E e \in Enqueuers : Renews(e)
<1>0. Sound(job) /\ job \in JobStates
  BY JobSound
<1>1. LetGo(job') => Passes
  BY DEF LetGo, Passes
<1>2. ASSUME NEW e \in Enqueuers, Enqueue(e) \/ EnqueueReplaces(e)
      PROVE  job' = job \/ Renews(e)
  BY <1>2 DEF Enqueue, EnqueueReplaces, Renews
<1>3. ASSUME NEW r \in Runs, NEW b \in Boots, Claim(r, b) PROVE Passes
  <2>1. job' = [job EXCEPT !.state = "active", !.lock = r] /\ job.state = "waiting"
    BY <1>3 DEF Claim
  <2> QED
    BY <1>0, <2>1 DEF Passes, Sound, SameMark, JobStates
<1>4. ASSUME NEW r \in Runs, RunAdmit(r) PROVE job' = job \/ Passes
  BY <1>1, <1>4, PostponedLets, FailedLets DEF RunAdmit, Refused
<1>5. ASSUME NEW r \in Runs, RunBegin(r) PROVE job' = job \/ Passes \/ Marks(r)
  <2>1. CASE job' = Postponed(r, job)
    BY <1>1, <2>1, PostponedLets
  <2>2. CASE job.lock = r /\ job' = Failed
    BY <1>1, <2>2, FailedLets DEF Moves
  <2>3. CASE job.lock = r /\ job.marker = None /\ job' = [job EXCEPT !.marker = "unknown", !.by = r]
    BY <1>5, <2>3, MarkedSound, Holder DEF Marks
  <2> QED
    BY <1>5, <2>1, <2>2, <2>3 DEF RunBegin, Refused
<1>6. ASSUME NEW r \in Runs, BeginLost(r) PROVE Passes \/ Marks(r)
  <2>1. job.lock = r /\ job.state = "active"
    BY <1>6, Holder DEF BeginLost
  <2>2. CASE job' = Postponed(r, job)
    BY <1>1, <2>1, <2>2, Lets DEF Postponed
  <2>3. CASE job.marker = None /\ job' = Postponed(r, [job EXCEPT !.marker = "unknown", !.by = r])
    <3> DEFINE j == [job EXCEPT !.marker = "unknown", !.by = r]
    <3>1. Sound(j) /\ j.marker = "unknown" /\ j.outcome = job.outcome /\ j.lock = r
      BY <2>1, MarkedSound
    <3>2. job' = [j EXCEPT !.state = "waiting", !.lock = None]
      BY <2>3, <3>1 DEF Postponed
    <3> HIDE DEF j
    <3>3. Sound(job') /\ job'.marker = "unknown" /\ job'.outcome = job.outcome
      BY <3>1, <3>2 DEF Sound, JobStates
    <3> QED
      BY <1>6, <2>1, <2>3, <3>3 DEF Marks
  <2> QED
    BY <1>6, <2>2, <2>3 DEF BeginLost
<1>7. ASSUME NEW r \in Runs, RunBegun(r) PROVE job' = job \/ Passes \/ Unmarks(r)
  <2>1. CASE job' = Moves(r, Failed)
    BY <1>1, <2>1, FailedLets
  <2>2. CASE OwnMarker(r) /\ Ends(r) /\ job' = Postponed(r, Unmarked)
    <3> DEFINE j == Unmarked
    <3>1. Sound(j) /\ j.marker = None /\ j.outcome = job.outcome
      BY UnmarkedSound
    <3>2. job' = j \/ job' = [j EXCEPT !.state = "waiting", !.lock = None]
      BY <2>2 DEF Postponed
    <3> HIDE DEF j
    <3>3. Sound(job') /\ job'.marker = None /\ job'.outcome = job.outcome
      BY ZenonT(60), <3>1, <3>2 DEF Sound, JobStates
    <3> QED
      BY <1>7, <2>2, <3>3 DEF Unmarks, OwnMarker
  <2> QED
    BY <1>7, <2>1, <2>2 DEF RunBegun
<1>8. ASSUME NEW r \in Runs, RunSettle(r) PROVE job' = job \/ Passes \/ Unmarks(r) \/ Accepts(r)
  <2>1. CASE job' = Moves(r, Failed)
    BY <1>1, <2>1, FailedLets
  <2>2. CASE OwnMarker(r) /\ job' = Settled(runs[r].result) /\ runs[r].result = "ok"
    BY <1>8, <2>2, AcceptedSound DEF Accepts, Settled, OwnMarker
  <2>3. CASE OwnMarker(r) /\ job' = Settled(runs[r].result) /\ runs[r].result # "ok"
    BY <1>8, <2>3, UnmarkedSound DEF Unmarks, Settled, OwnMarker
  <2> QED
    BY <1>8, <2>1, <2>2, <2>3 DEF RunSettle
<1>9. ASSUME NEW r \in Runs, RunFinish(r) PROVE job' = job \/ Finishes(r)
  <2>1. CASE job.lock # r
    BY <1>9, <2>1 DEF RunFinish, Moves
  <2>2. CASE job.lock = r
    <3> DEFINE outcome == IF runs[r].result = "ok" THEN "sent" ELSE "skipped"
    <3>1. job' = [job EXCEPT !.state = "completed", !.lock = None, !.outcome = outcome]
      BY <1>9, <2>2 DEF RunFinish, Moves
    <3>2. outcome \in {"sent", "skipped"} /\ (outcome = "sent" <=> runs[r].result = "ok")
      OBVIOUS
    <3> HIDE DEF outcome
    <3>3. Sound(job') /\ job'.marker = job.marker /\ job'.outcome = outcome
      BY <1>0, <3>1, <3>2 DEF Sound, JobStates
    <3> QED
      BY <1>9, <2>2, <3>2, <3>3, Holder DEF Finishes
  <2> QED
    BY <2>1, <2>2
<1>10. ASSUME NEW r \in Runs, RunThrow(r) PROVE job' = job \/ Passes
  <2>1. CASE job.lock # r
    BY <1>10, <2>1 DEF RunThrow, Moves
  <2>2. CASE job.lock = r /\ job' = Failed
    BY <1>1, <2>2, FailedLets DEF Moves
  <2>3. CASE /\ job.lock = r /\ job.tries + 1 < MaxAttempts
             /\ job' = [job EXCEPT !.state = "waiting", !.lock = None, !.tries = @ + 1]
    <3>1. job.tries + 1 \in 0 .. MaxAttempts
      BY <1>0, <2>3 DEF JobStates
    <3> QED
      BY <1>0, <2>3, <3>1, Holder DEF Passes, Sound, SameMark, JobStates
  <2> QED
    BY <1>0, <1>10, <2>1, <2>2, <2>3 DEF RunThrow, Moves, JobStates
<1>11. ASSUME JobStalls PROVE Passes
  BY <1>1, <1>11, Lets DEF JobStalls
<1>12. ASSUME JobLost PROVE Passes \/ Vanishes
  <2>1. CASE job.state = "waiting" /\ job' = [job EXCEPT !.state = "unknown"]
    BY <1>0, <2>1 DEF Passes, Sound, SameMark, JobStates
  <2> QED
    BY <1>12, <2>1 DEF JobLost, Vanishes
<1> QED
  BY <1>2, <1>3, <1>4, <1>5, <1>6, <1>7, <1>8, <1>9, <1>10, <1>11, <1>12, JobWriters
-------------------------------------------------------------------------------
(* The shape of the state, and what the job records.                       *)

(* The job is in good order, and what says it was sent has a copy to show. *)
LEMMA JobStep ==
  ASSUME IInv, [Next]_vars
  PROVE  job' \in JobStates /\ JobInv'
<1>0. JobInv /\ sent \in Nat /\ Sound(job)
  BY JobSound DEF IInv, Shape
<1>1. sent' >= sent /\ sent' \in Nat
  <2>1. sent' = sent \/ sent' = sent + 1
    BY Monotone
  <2> QED
    BY <1>0, <2>1
<1>2. Sound(job')
  BY <1>0, JobMoves, NewJobSound DEF Passes, Marks, Unmarks, Accepts, Finishes, Renews, Vanishes
<1>3. \A r \in Runs : runs[r].result = "ok" => sent >= 1
  BY DEF IInv, RunInv
<1>4. job'.outcome = "sent" \/ job'.marker = "accepted" => sent >= 1
  <2>1. ASSUME NEW r \in Runs, Finishes(r)
        PROVE  job'.outcome = "sent" \/ job'.marker = "accepted" => sent >= 1
    BY <1>0, <1>3, <2>1 DEF Finishes, JobInv
  <2>2. ASSUME NEW r \in Runs, Accepts(r) PROVE sent >= 1
    BY <1>3, <2>2 DEF Accepts
  <2>3. ASSUME NEW r \in Runs, Marks(r) \/ Unmarks(r)
        PROVE  job'.outcome = "sent" \/ job'.marker = "accepted" => sent >= 1
    BY <1>0, <2>3 DEF Marks, Unmarks, JobInv
  <2>4. ASSUME job' = job \/ Passes \/ Vanishes \/ \E e \in Enqueuers : Renews(e)
        PROVE  job'.outcome = "sent" \/ job'.marker = "accepted" => sent >= 1
    BY <1>0, <2>4, NewJobSound DEF Passes, SameMark, Vanishes, Renews, JobInv
  <2> QED
    BY <2>1, <2>2, <2>3, <2>4, JobMoves
<1> QED
  BY <1>0, <1>1, <1>2, <1>4 DEF Sound, JobInv

(* An enqueue holds the number of adds it saw: while no other was made,    *)
(* nothing has touched the job it checked.                                 *)
LEMMA EnqStep ==
  ASSUME IInv, [Next]_vars
  PROVE  /\ enq' \in [Enqueuers -> Nat \cup {None}] /\ adds' \in Nat /\ raced' \in BOOLEAN
         /\ \A e \in Enqueuers : EnqInv(e)'
<1>0. /\ enq \in [Enqueuers -> Nat \cup {None}] /\ adds \in Nat /\ raced \in BOOLEAN
      /\ \A e \in Enqueuers : EnqInv(e)
      /\ None \notin Nat
  BY DEF IInv, Shape
<1>1. adds' = adds \/ adds' = adds + 1
  BY ProducerWriters DEF Enqueue, EnqueueReplaces
<1>2. adds' = adds => (Untouched => Untouched')
  <2>1. \A e \in Enqueuers : Renews(e) => adds' = adds + 1
    BY DEF Renews
  <2>2. ASSUME Untouched, Passes \/ \E r \in Runs : Marks(r) \/ Unmarks(r) \/ Accepts(r) \/ Finishes(r)
        PROVE  FALSE
    BY <2>2 DEF Untouched, Passes, Marks, Unmarks, Accepts, Finishes
  <2>3. ASSUME job' = job \/ Vanishes, Untouched PROVE Untouched'
    BY <2>3, NewJobSound DEF Vanishes, Untouched
  <2> QED
    BY <1>0, <2>1, <2>2, <2>3, JobMoves
<1>3. ASSUME NEW e \in Enqueuers, Enqueue(e), Reapable
      PROVE  Untouched /\ enq' = [enq EXCEPT ![e] = adds] /\ adds' = adds
  BY <1>3 DEF Enqueue, Reapable, ReapableByOutcome, Untouched
<1>4. /\ enq' \in [Enqueuers -> Nat \cup {None}] /\ raced' \in BOOLEAN
      /\ \A e \in Enqueuers : enq'[e] \in {enq[e], None} \/ (enq'[e] = adds /\ Untouched /\ adds' = adds)
  <2>1. CASE UNCHANGED producers
    BY <1>0, <2>1
  <2>2. ASSUME NEW e \in Enqueuers, Enqueue(e)
        PROVE  /\ enq' \in [Enqueuers -> Nat \cup {None}] /\ raced' \in BOOLEAN
               /\ \A x \in Enqueuers : enq'[x] \in {enq[x], None} \/ (enq'[x] = adds /\ Untouched /\ adds' = adds)
    <3>1. CASE enq' = enq
      BY <1>0, <2>2, <3>1 DEF Enqueue
    <3>2. CASE enq' # enq
      BY <1>0, <1>3, <2>2, <3>2 DEF Enqueue
    <3> QED
      BY <3>1, <3>2
  <2>3. ASSUME NEW e \in Enqueuers, EnqueueReplaces(e)
        PROVE  /\ enq' \in [Enqueuers -> Nat \cup {None}] /\ raced' \in BOOLEAN
               /\ \A x \in Enqueuers : enq'[x] \in {enq[x], None} \/ (enq'[x] = adds /\ Untouched /\ adds' = adds)
    BY <1>0, <2>3 DEF EnqueueReplaces
  <2> QED
    BY <2>1, <2>2, <2>3, ProducerWriters
<1>5. adds' \in Nat
  BY <1>0, <1>1
<1>6. ASSUME NEW e \in Enqueuers PROVE EnqInv(e)'
  BY <1>0, <1>1, <1>2, <1>4, <1>6 DEF EnqInv
<1> QED
  BY <1>4, <1>5, <1>6

(* Copies, and whether the provider still knows of them.                   *)
LEMMA KeyStep ==
  ASSUME IInv, [Next]_vars
  PROVE  /\ {guarded, known, forgot}' \subseteq BOOLEAN /\ {sent, dropped}' \subseteq Nat
         /\ KeyInv'
<1>0. {guarded, known, forgot} \subseteq BOOLEAN /\ {sent, dropped} \subseteq Nat /\ KeyInv
  BY DEF IInv, Shape
<1>1. guarded' = guarded /\ sent' \in Nat /\ dropped' \in Nat
  <2>1. /\ guarded' = guarded
        /\ sent' = sent \/ sent' = sent + 1
        /\ dropped' = dropped \/ dropped' = dropped + 1
    BY Monotone
  <2> QED
    BY <1>0, <2>1
<1>2. ASSUME UNCHANGED <<known, sent, forgot>> PROVE known' \in BOOLEAN /\ forgot' \in BOOLEAN /\ KeyInv'
  BY <1>0, <1>2 DEF KeyInv
<1>3. ASSUME NEW r \in Runs, ProviderTakes(r)
      PROVE  known' \in BOOLEAN /\ forgot' \in BOOLEAN /\ KeyInv'
  <2>1. forgot' = forgot
    BY <1>3 DEF ProviderTakes
  <2>2. CASE known' = known /\ sent' = sent
    BY <1>0, <2>1, <2>2 DEF KeyInv
  <2>3. CASE known' = TRUE /\ known /\ sent' = sent
    BY <1>0, <2>1, <2>3 DEF KeyInv
  <2>4. CASE known' = TRUE /\ ~ known /\ sent' = sent + 1
    <3>1. sent' >= 1 /\ (~ forgot => sent' = 1)
      BY <1>0, <2>4 DEF KeyInv
    <3> QED
      BY <1>0, <2>1, <2>4, <3>1 DEF KeyInv
  <2> QED
    BY <1>3, <2>2, <2>3, <2>4 DEF ProviderTakes
<1>4. ASSUME KeyForgotten PROVE known' \in BOOLEAN /\ forgot' \in BOOLEAN /\ KeyInv'
  BY <1>0, <1>4 DEF KeyForgotten, KeyInv
<1>5. known' \in BOOLEAN /\ forgot' \in BOOLEAN /\ KeyInv'
  BY <1>2, <1>3, <1>4, ProviderWriters DEF Crash, RunCall, Answered
<1> QED
  BY <1>0, <1>1, <1>5
-------------------------------------------------------------------------------
(* What a step makes of a run.                                             *)

(* A run is written as a whole: it becomes t.                              *)
Becomes(r, t) == t \in RunStates /\ runs' = [runs EXCEPT ![r] = t]

LEMMA RunType ==
  ASSUME IInv, NEW r \in Runs
  PROVE  runs[r] \in RunStates /\ runs \in [Runs -> RunStates] /\ IdleRun \in RunStates
  BY DEF IInv, Shape, IdleRun, RunStates, Points

LEMMA Becoming ==
  ASSUME IInv, NEW r \in Runs, NEW t, Becomes(r, t)
  PROVE  /\ runs' \in [Runs -> RunStates] /\ runs'[r] = t
         /\ \A q \in Runs \ {r} : runs'[q] = runs[q]
  BY RunType DEF Becomes

LEMMA EndsBecomes ==
  ASSUME IInv, NEW r \in Runs, Ends(r)
  PROVE  Becomes(r, IdleRun)
  BY RunType DEF Ends, Becomes

LEMMA GoesBecomes ==
  ASSUME IInv, NEW r \in Runs, NEW pc \in Points, Goes(r, pc)
  PROVE  Becomes(r, [runs[r] EXCEPT !.pc = pc])
<1>1. runs[r] \in RunStates
  BY RunType
<1>2. [runs[r] EXCEPT !.pc = pc] \in RunStates
  BY <1>1 DEF RunStates
<1> QED
  BY <1>2 DEF Goes, Becomes

LEMMA GoesWith ==
  ASSUME IInv, NEW r \in Runs, NEW pc \in Points, NEW result \in {None, "ok", "skipped"},
         runs' = [runs EXCEPT ![r].pc = pc, ![r].result = result]
  PROVE  Becomes(r, [runs[r] EXCEPT !.pc = pc, !.result = result])
<1>1. runs[r] \in RunStates
  BY RunType
<1>2. [runs[r] EXCEPT !.pc = pc, !.result = result] \in RunStates
  BY <1>1 DEF RunStates
<1> QED
  BY <1>2 DEF Becomes

(* How a run may go on: it ends, it is claimed by an active process, or it *)
(* goes on in its process; a result "ok" has a copy to show.               *)
Starts(r, t) == \E b \in Boots : lease[b] = "active" /\ Claim(r, b) /\ t.boot = b /\ t.pc = "admit"
                                 /\ t.result = None
Continues(r, t) ==
  /\ runs[r].pc # "idle" /\ t.pc # "idle" /\ t.boot = runs[r].boot
  /\ t.result = "ok" => sent >= 1

LEMMA RunMoves ==
  ASSUME IInv, [Next]_vars
  PROVE  \/ runs' = runs \/ \E b \in Boots : Crash(b)
         \/ \E r \in Runs : \E t \in RunStates :
              Becomes(r, t) /\ (t = IdleRun \/ Starts(r, t) \/ Continues(r, t))
<1> DEFINE Moved(r) == \E t \in RunStates :
              Becomes(r, t) /\ (t = IdleRun \/ Starts(r, t) \/ Continues(r, t))
<1>0. \A r \in Runs : runs[r] \in RunStates /\ RunInv(r)
  BY RunType DEF IInv
<1>1. ASSUME NEW r \in Runs, Ends(r) PROVE Moved(r)
  BY <1>1, EndsBecomes, RunType
<1>2. ASSUME NEW r \in Runs, NEW pc \in Points \ {"idle"}, Goes(r, pc), runs[r].pc # "idle"
      PROVE  Moved(r)
  <2> DEFINE t == [runs[r] EXCEPT !.pc = pc]
  <2>1. t.pc # "idle" /\ t.boot = runs[r].boot /\ t.result = runs[r].result
    BY <1>0, <1>2 DEF RunStates
  <2>2. Becomes(r, t)
    BY <1>2, GoesBecomes
  <2> HIDE DEF t
  <2>3. Continues(r, t)
    BY <1>0, <1>2, <2>1 DEF Continues, RunInv
  <2> QED
    BY <2>2, <2>3 DEF Becomes
<1>3. ASSUME NEW r \in Runs, NEW pc \in Points \ {"idle"}, NEW result \in {None, "ok", "skipped"},
             runs' = [runs EXCEPT ![r].pc = pc, ![r].result = result], runs[r].pc # "idle",
             result = "ok" => sent >= 1
      PROVE  Moved(r)
  <2> DEFINE t == [runs[r] EXCEPT !.pc = pc, !.result = result]
  <2>1. t.pc # "idle" /\ t.boot = runs[r].boot /\ t.result = result
    BY <1>0, <1>3 DEF RunStates
  <2>2. Becomes(r, t)
    BY <1>3, GoesWith
  <2> HIDE DEF t
  <2>3. Continues(r, t)
    BY <1>0, <1>3, <2>1 DEF Continues
  <2> QED
    BY <2>2, <2>3 DEF Becomes
<1>4. ASSUME NEW r \in Runs, NEW b \in Boots, Claim(r, b) PROVE Moved(r)
  <2> DEFINE t == [IdleRun EXCEPT !.pc = "admit", !.boot = b]
  <2>1. t \in RunStates /\ t.boot = b /\ t.pc = "admit" /\ t.result = None
    BY DEF IdleRun, RunStates, Points
  <2>2. lease[b] = "active" /\ runs' = [runs EXCEPT ![r] = t]
    BY <1>4 DEF Claim
  <2> HIDE DEF t
  <2> QED
    BY <1>4, <2>1, <2>2 DEF Becomes, Starts
<1>5. ASSUME NEW r \in Runs, RunAborts(r) PROVE Moved(r)
  <2> DEFINE t == [runs[r] EXCEPT !.aborted = TRUE]
  <2>1. runs[r].pc # "idle" /\ runs' = [runs EXCEPT ![r] = t]
    BY <1>5 DEF RunAborts
  <2>2. t \in RunStates /\ t.pc = runs[r].pc /\ t.boot = runs[r].boot /\ t.result = runs[r].result
    BY <1>0 DEF RunStates
  <2> HIDE DEF t
  <2> QED
    BY <1>0, <2>1, <2>2 DEF Becomes, Continues, RunInv
<1>6. ASSUME NEW r \in Runs, RunAdmit(r) PROVE Moved(r)
  <2>1. Ends(r) \/ (Goes(r, "process") /\ runs[r].pc # "idle")
    BY <1>6 DEF RunAdmit, Refused, At
  <2> QED
    BY <1>1, <1>2, <2>1 DEF Points
<1>7. ASSUME NEW r \in Runs, RunProcess(r) PROVE Moved(r)
  <2>1. runs[r].pc # "idle"
    BY <1>7 DEF RunProcess, At
  <2>2. \/ runs' = [runs EXCEPT ![r].pc = "begin", ![r].result = None]
        \/ runs' = [runs EXCEPT ![r].pc = "finish", ![r].result = "skipped"]
    BY <1>7 DEF RunProcess
  <2> QED
    BY <1>3, <2>1, <2>2 DEF Points
<1>8. ASSUME NEW r \in Runs, RunBegin(r) PROVE Moved(r)
  <2>1. runs[r].pc # "idle" /\ (job.marker = "accepted" => sent >= 1)
    BY <1>8 DEF RunBegin, At, IInv, JobInv
  <2>2. CASE Ends(r) \/ Goes(r, "throw") \/ Goes(r, "call") \/ Goes(r, "begun")
    BY <1>1, <1>2, <2>1, <2>2 DEF Points
  <2>3. CASE job.marker = "accepted" /\ runs' = [runs EXCEPT ![r].pc = "mark", ![r].result = "ok"]
    BY <1>3, <2>1, <2>3 DEF Points
  <2> QED
    BY <1>8, <2>2, <2>3 DEF RunBegin, Refused
<1>9. ASSUME NEW r \in Runs, BeginLost(r) PROVE Moved(r)
  BY <1>1, <1>9 DEF BeginLost
<1>10. ASSUME NEW r \in Runs, RunBegun(r) PROVE Moved(r)
  <2>1. Ends(r) \/ (Goes(r, "call") /\ runs[r].pc # "idle")
    BY <1>10 DEF RunBegun, At
  <2> QED
    BY <1>1, <1>2, <2>1 DEF Points
<1>11. ASSUME NEW r \in Runs, RunCall(r) PROVE Moved(r)
  <2>1. Goes(r, "wait") /\ runs[r].pc # "idle"
    BY <1>11 DEF RunCall, At
  <2> QED
    BY <1>2, <2>1 DEF Points
<1>12. ASSUME NEW r \in Runs, Answered(r) PROVE Moved(r)
  <2>1. runs[r].pc # "idle" /\ (request[r] = "accepted" => sent >= 1)
    BY <1>0, <1>12 DEF Answered, At, RunInv
  <2>2. CASE runs' = [runs EXCEPT ![r].pc = "throw", ![r].result = None]
    BY <1>3, <2>1, <2>2 DEF Points
  <2>3. CASE request[r] = "accepted" /\ runs' = [runs EXCEPT ![r].pc = "settle", ![r].result = "ok"]
    BY <1>3, <2>1, <2>3 DEF Points
  <2>4. CASE runs' = [runs EXCEPT ![r].pc = "settle", ![r].result = "skipped"]
    BY <1>3, <2>1, <2>4 DEF Points
  <2> QED
    BY <1>12, <2>2, <2>3, <2>4 DEF Answered, Silence
<1>13. ASSUME NEW r \in Runs, RunSettle(r) \/ RunMark(r) PROVE Moved(r)
  <2>1. Ends(r) \/ (runs[r].pc # "idle" /\ (Goes(r, "mark") \/ Goes(r, "finish") \/ Goes(r, "throw")))
    BY <1>13 DEF RunSettle, RunMark, At
  <2> QED
    BY <1>1, <1>2, <2>1 DEF Points
<1>14. ASSUME NEW r \in Runs, RunFinish(r) \/ RunThrow(r) PROVE Moved(r)
  BY <1>1, <1>14 DEF RunFinish, RunThrow
<1> HIDE DEF Moved
<1>15. \A r \in Runs : RunSteps(r) \/ RunAborts(r) \/ BeginLost(r) => Moved(r)
  BY <1>4, <1>5, <1>6, <1>7, <1>8, <1>9, <1>10, <1>11, <1>12, <1>13, <1>14 DEF RunSteps
<1>16. runs' = runs \/ (\E b \in Boots : Crash(b)) \/ \E r \in Runs : Moved(r)
  BY <1>15, RunWriters
<1> QED
  BY <1>16 DEF Moved
-------------------------------------------------------------------------------
(* Processes and their runs.                                               *)

Leases == {"new", "active", "revoked", "closing", "gone"}
Records == {"absent", "live", "expired"}

(* A process leaves only with no run: released when drained, or dead.      *)
LEMMA LeaseStep ==
  ASSUME IInv, [Next]_vars
  PROVE  /\ registry' \in [Boots -> Records] /\ lease' \in [Boots -> Leases]
         /\ \A b \in Boots : BootInv(b)'
         /\ \A b \in Boots : lease[b] \in Up =>
              lease'[b] \in Up \/ Crash(b) \/ (runs' = runs /\ Drained(b))
<1> DEFINE Goal == /\ registry' \in [Boots -> Records] /\ lease' \in [Boots -> Leases]
                   /\ \A b \in Boots : BootInv(b)'
                   /\ \A b \in Boots : lease[b] \in Up =>
                        lease'[b] \in Up \/ Crash(b) \/ (runs' = runs /\ Drained(b))
<1>0. /\ registry \in [Boots -> Records] /\ lease \in [Boots -> Leases]
      /\ guarded \in BOOLEAN /\ \A b \in Boots : BootInv(b)
  BY DEF IInv, Shape, Records, Leases
<1>1. guarded' = guarded
  BY Monotone
<1>2. CASE UNCHANGED broker
  BY <1>0, <1>1, <1>2 DEF BootInv
<1>3. ASSUME NEW b \in Boots, Register(b) PROVE Goal
  <2>1. CASE guarded
    BY <1>0, <1>1, <1>3, <2>1 DEF Register, BootInv, Records, Leases, Up
  <2>2. CASE ~ guarded
    <3>1. registry' = registry /\ lease' = [lease EXCEPT ![b] = "active"]
      BY <1>3, <2>2 DEF Register
    <3>2. ~ guarded'
      BY <1>1, <2>2
    <3> QED
      BY <1>0, <3>1, <3>2 DEF BootInv, Leases, Up
  <2> QED
    BY <2>1, <2>2
<1>4. ASSUME NEW b \in Boots, RecordExpires(b) PROVE Goal
  BY <1>0, <1>1, <1>4 DEF RecordExpires, BootInv, Records, Leases, Up
<1>5. ASSUME NEW b \in Boots, RenewFails(b) PROVE Goal
  BY <1>0, <1>1, <1>5 DEF RenewFails, BootInv, Records, Leases, Up
<1>6. ASSUME NEW b \in Boots, Shutdown(b) PROVE Goal
  <2>1. CASE guarded
    BY <1>0, <1>1, <1>6, <2>1 DEF Shutdown, BootInv, Records, Leases, Up
  <2>2. CASE ~ guarded
    <3>1. registry' = registry /\ lease' = [lease EXCEPT ![b] = "closing"]
      BY <1>6, <2>2 DEF Shutdown
    <3>2. ~ guarded'
      BY <1>1, <2>2
    <3> QED
      BY <1>0, <3>1, <3>2 DEF BootInv, Leases, Up
  <2> QED
    BY <2>1, <2>2
<1>7. ASSUME NEW b \in Boots, Release(b) PROVE Goal
  <2>1. runs' = runs /\ Drained(b)
    BY <1>7 DEF Release
  <2> QED
    BY <1>0, <1>1, <1>7, <2>1 DEF Release, BootInv, Records, Leases, Up
<1>8. ASSUME NEW b \in Boots, Crash(b) PROVE Goal
  <2>1. registry' = registry /\ lease' = [lease EXCEPT ![b] = "gone"]
    BY <1>8 DEF Crash
  <2> QED
    BY <1>0, <1>1, <1>8, <2>1 DEF BootInv, Records, Leases, Up
<1>9. ASSUME NEW r \in Runs, RunAdmit(r) \/ RunBegin(r) PROVE Goal
  <2>1. \/ lease' = lease
        \/ lease' = [lease EXCEPT ![runs[r].boot] = IF @ = "active" THEN "revoked" ELSE @]
    BY <1>9 DEF RunAdmit, RunBegin, Refused
  <2>2. registry' = registry
    BY <1>9 DEF RunAdmit, RunBegin
  <2>3. /\ lease' \in [Boots -> Leases]
        /\ \A b \in Boots : lease'[b] = lease[b] \/ (lease[b] = "active" /\ lease'[b] = "revoked")
    BY <1>0, <2>1 DEF Leases
  <2> QED
    BY <1>0, <1>1, <2>2, <2>3 DEF BootInv, Up
<1> QED
  BY <1>2, <1>3, <1>4, <1>5, <1>6, <1>7, <1>8, <1>9, BrokerWriters

(* A run has a process that is up, and a result "ok" has a copy to show.   *)
LEMMA RunStep ==
  ASSUME IInv, [Next]_vars
  PROVE  /\ runs' \in [Runs -> RunStates]
         /\ \A r \in Runs : /\ runs'[r].pc = "idle" <=> runs'[r].boot = None
                            /\ runs'[r].pc # "idle" => lease'[runs'[r].boot] \in Up
                            /\ runs'[r].result = "ok" => sent' >= 1
<1> DEFINE Good(r) == /\ runs'[r].pc = "idle" <=> runs'[r].boot = None
                      /\ runs'[r].pc # "idle" => lease'[runs'[r].boot] \in Up
                      /\ runs'[r].result = "ok" => sent' >= 1
<1>0. /\ runs \in [Runs -> RunStates] /\ sent \in Nat
      /\ \A r \in Runs : RunInv(r) /\ runs[r] \in RunStates
      /\ lease \in [Boots -> Leases]
  BY DEF IInv, Shape, Leases
<1>1. sent' >= sent /\ sent' \in Nat
  <2>1. sent' = sent \/ sent' = sent + 1
    BY Monotone
  <2> QED
    BY <1>0, <2>1
<1>2. \A r \in Runs : runs[r].pc # "idle" => runs[r].boot \in Boots
  BY <1>0 DEF RunInv, RunStates
<1>3. IdleRun \in RunStates /\ IdleRun.pc = "idle" /\ IdleRun.boot = None /\ IdleRun.result = None
  BY DEF IdleRun, RunStates, Points
<1>4. ASSUME NEW b \in Boots, Crash(b) PROVE runs' \in [Runs -> RunStates] /\ \A r \in Runs : Good(r)
  <2>1. runs' = [r \in Runs |-> IF runs[r].boot = b THEN IdleRun ELSE runs[r]]
    BY <1>4 DEF Crash
  <2>2. lease' = [lease EXCEPT ![b] = "gone"]
    BY <1>4 DEF Crash
  <2>3. runs' \in [Runs -> RunStates]
    BY <1>0, <1>3, <2>1
  <2>4. ASSUME NEW r \in Runs PROVE Good(r)
    BY <1>0, <1>1, <1>2, <1>3, <2>1, <2>2, <2>4 DEF RunInv
  <2> QED
    BY <2>3, <2>4
<1>5. ASSUME \A b \in Boots : ~ Crash(b) PROVE runs' \in [Runs -> RunStates] /\ \A r \in Runs : Good(r)
  <2>1. ASSUME NEW r \in Runs, runs'[r] = runs[r] PROVE Good(r)
    <3>1. CASE runs[r].pc = "idle"
      BY <1>0, <1>1, <2>1, <3>1 DEF RunInv
    <3>2. CASE runs[r].pc # "idle"
      <4>1. ~ (runs' = runs /\ Drained(runs[r].boot))
        BY <3>2 DEF Drained
      <4>2. lease'[runs[r].boot] \in Up
        BY <1>0, <1>2, <1>5, <3>2, <4>1, LeaseStep DEF RunInv
      <4> QED
        BY <1>0, <1>1, <2>1, <3>2, <4>2 DEF RunInv
    <3> QED
      BY <3>1, <3>2
  <2>2. CASE runs' = runs
    BY <1>0, <2>1, <2>2
  <2>3. ASSUME NEW r \in Runs, NEW t \in RunStates, Becomes(r, t),
               t = IdleRun \/ Starts(r, t) \/ Continues(r, t)
        PROVE  runs' \in [Runs -> RunStates] /\ \A q \in Runs : Good(q)
    <3>1. /\ runs' \in [Runs -> RunStates] /\ runs'[r] = t
          /\ \A q \in Runs \ {r} : runs'[q] = runs[q]
      BY <2>3, Becoming
    <3>2. CASE t = IdleRun
      BY <1>3, <2>1, <3>1, <3>2
    <3>3. CASE Starts(r, t)
      <4>1. t.boot \in Boots /\ lease'[t.boot] \in Up /\ t.pc # "idle" /\ t.result = None
        BY <3>3 DEF Starts, Claim, Up
      <4> QED
        BY <2>1, <3>1, <4>1
    <3>4. CASE Continues(r, t)
      <4>1. t.pc # "idle" /\ t.boot = runs[r].boot /\ t.boot \in Boots /\ lease[t.boot] \in Up
        BY <1>0, <1>2, <3>4 DEF Continues, RunInv
      <4>2. lease'[t.boot] \in Up
        <5>1. ~ Drained(t.boot)
          BY <4>1 DEF Drained
        <5> QED
          BY <1>5, <4>1, <5>1, LeaseStep
      <4>3. t.result = "ok" => sent' >= 1
        BY <1>0, <1>1, <3>4 DEF Continues
      <4> QED
        BY <2>1, <3>1, <4>1, <4>2, <4>3
    <3> QED
      BY <2>3, <3>2, <3>3, <3>4
  <2> QED
    BY <1>5, <2>2, <2>3, RunMoves
<1> QED
  BY <1>4, <1>5
-------------------------------------------------------------------------------
(* Requests and tokens.                                                    *)

(* A run takes a token where it marks the hash, and nowhere else.          *)
Begins(r) == RunBegin(r) /\ job.marker = None /\ job'.marker = "unknown"

After(r) ==
  /\ request'[r] \in Answers
  /\ request'[r] = "accepted" => sent' >= 1
  /\ request'[r] = "pending" => runs'[r].pc \in {"idle", "wait", "throw"}
  /\ guarded /\ Holds(r)' => Holds(r) \/ Begins(r)

LEMMA RequestFacts ==
  ASSUME IInv, [Next]_vars
  PROVE  /\ runs \in [Runs -> RunStates] /\ request \in [Runs -> Answers]
         /\ \A r \in Runs : /\ runs[r] \in RunStates /\ request[r] \in Answers
                            /\ request[r] = "pending" => runs[r].pc \in {"idle", "wait", "throw"}
                            /\ request[r] = "accepted" => sent' >= 1
         /\ IdleRun.pc = "idle"
<1>0. /\ sent \in Nat /\ request \in [Runs -> Answers] /\ runs \in [Runs -> RunStates]
      /\ \A r \in Runs : RunInv(r)
  BY DEF IInv, Shape
<1>1. sent' = sent \/ sent' = sent + 1
  BY Monotone
<1> QED
  BY <1>0, <1>1 DEF RunInv, IdleRun

(* What a step does not touch stays as it was.                             *)
LEMMA Still ==
  ASSUME IInv, [Next]_vars, NEW r \in Runs, runs'[r] = runs[r], request'[r] = request[r]
  PROVE  After(r)
  BY RequestFacts DEF After, Holds

(* A run that moves to pc with its request untouched holds no new token,   *)
(* unless pc is past the marking.                                          *)
LEMMA Moved ==
  ASSUME IInv, [Next]_vars, NEW r \in Runs, request'[r] = request[r],
         \/ runs'[r].pc \in {"admit", "process", "begin", "mark", "finish"} /\ request[r] # "pending"
         \/ runs'[r].pc \in {"idle", "throw"}
         \/ /\ runs'[r].pc \in {"begun", "call"} /\ request[r] # "pending"
            /\ guarded => Holds(r) \/ Begins(r)
  PROVE  After(r)
  BY RequestFacts DEF After, Holds

LEMMA RunPc ==
  ASSUME IInv, NEW r \in Runs, NEW pc \in Points
  PROVE  /\ Ends(r) => runs'[r].pc = "idle" /\ \A q \in Runs \ {r} : runs'[q] = runs[q]
         /\ Goes(r, pc) => /\ runs'[r].pc = pc /\ runs'[r].result = runs[r].result
                           /\ \A q \in Runs \ {r} : runs'[q] = runs[q]
<1>1. runs \in [Runs -> RunStates] /\ runs[r] \in RunStates
  BY RunType
<1> QED
  BY <1>1 DEF Ends, Goes, IdleRun, RunStates

LEMMA RunPcWith ==
  ASSUME IInv, NEW r \in Runs, NEW pc \in Points, NEW result,
         runs' = [runs EXCEPT ![r].pc = pc, ![r].result = result]
  PROVE  runs'[r].pc = pc /\ runs'[r].result = result /\ \A q \in Runs \ {r} : runs'[q] = runs[q]
<1>1. runs \in [Runs -> RunStates] /\ runs[r] \in RunStates
  BY RunType
<1> QED
  BY <1>1 DEF RunStates

LEMMA AfterStep ==
  ASSUME IInv, [Next]_vars
  PROVE  \A q \in Runs : After(q)
<1> DEFINE Fine == \A q \in Runs : After(q)
<1>0. /\ request \in [Runs -> Answers] /\ runs \in [Runs -> RunStates]
      /\ \A r \in Runs : /\ runs[r] \in RunStates /\ request[r] \in Answers
                         /\ request[r] = "pending" => runs[r].pc \in {"idle", "wait", "throw"}
                         /\ request[r] = "accepted" => sent' >= 1
      /\ IdleRun.pc = "idle"
  BY RequestFacts
<1>1. ASSUME NEW r \in Runs, request' = request, \A q \in Runs \ {r} : runs'[q] = runs[q], After(r)
      PROVE  Fine
  BY <1>1, Still
<1>2. ASSUME NEW r \in Runs, request' = request, Ends(r) PROVE Fine
  <2>1. runs'[r].pc = "idle" /\ \A q \in Runs \ {r} : runs'[q] = runs[q]
    BY <1>2, RunPc DEF Points
  <2> QED
    BY <1>1, <1>2, <2>1, Moved
<1>3. ASSUME NEW r \in Runs, request' = request, request[r] # "pending",
             NEW pc \in {"process", "mark", "finish", "throw"}, Goes(r, pc)
      PROVE  Fine
  <2>1. runs'[r].pc = pc /\ \A q \in Runs \ {r} : runs'[q] = runs[q]
    BY <1>3, RunPc DEF Points
  <2> QED
    BY <1>1, <1>3, <2>1, Moved
<1>4. ASSUME NEW r \in Runs, request' = request, request[r] # "pending",
             NEW pc \in {"begin", "finish", "mark"}, NEW result,
             runs' = [runs EXCEPT ![r].pc = pc, ![r].result = result]
      PROVE  Fine
  <2>1. runs'[r].pc = pc /\ \A q \in Runs \ {r} : runs'[q] = runs[q]
    BY <1>4, RunPcWith DEF Points
  <2> QED
    BY <1>1, <1>4, <2>1, Moved
<1>5. ASSUME NEW r \in Runs, request' = request, request[r] # "pending", Goes(r, "call"),
             guarded => Holds(r)
      PROVE  Fine
  <2>1. runs'[r].pc = "call" /\ \A q \in Runs \ {r} : runs'[q] = runs[q]
    BY <1>5, RunPc DEF Points
  <2> QED
    BY <1>1, <1>5, <2>1, Moved
<1>6. ASSUME NEW r \in Runs, NEW b \in Boots, Claim(r, b) PROVE Fine
  <2> DEFINE t == [IdleRun EXCEPT !.pc = "admit", !.boot = b]
  <2>1. runs' = [runs EXCEPT ![r] = t] /\ request' = request
    BY <1>6 DEF Claim
  <2>2. t.pc = "admit"
    BY DEF IdleRun
  <2>3. Fresh(r) 
    <3>1. r = First(Runs, Fresh) /\ r # None
      BY <1>6 DEF Claim
    <3> QED
      BY <3>1 DEF First
  <2> HIDE DEF t
  <2>4. runs'[r].pc = "admit" /\ \A q \in Runs \ {r} : runs'[q] = runs[q]
    BY <1>0, <2>1, <2>2
  <2>5. request[r] # "pending"
    BY <2>3 DEF Fresh
  <2> QED
    BY <1>1, <2>1, <2>4, <2>5, Moved
<1>7. ASSUME NEW r \in Runs, RunAdmit(r) PROVE Fine
  <2>1. request' = request /\ runs[r].pc = "admit" /\ (Ends(r) \/ Goes(r, "process"))
    BY <1>7 DEF RunAdmit, Refused, At
  <2> QED
    BY <1>0, <1>2, <1>3, <2>1
<1>8. ASSUME NEW r \in Runs, RunProcess(r) PROVE Fine
  <2>1. request' = request /\ runs[r].pc = "process"
    BY <1>8 DEF RunProcess, At
  <2>2. \/ runs' = [runs EXCEPT ![r].pc = "begin", ![r].result = None]
        \/ runs' = [runs EXCEPT ![r].pc = "finish", ![r].result = "skipped"]
    BY <1>8 DEF RunProcess
  <2> QED
    BY <1>0, <1>4, <2>1, <2>2
<1>9. ASSUME NEW r \in Runs, RunAborts(r) PROVE Fine
  <2> DEFINE t == [runs[r] EXCEPT !.aborted = TRUE]
  <2>1. request' = request /\ runs' = [runs EXCEPT ![r] = t]
    BY <1>9 DEF RunAborts
  <2>2. t.pc = runs[r].pc /\ t.result = runs[r].result
    BY <1>0 DEF RunStates
  <2> HIDE DEF t
  <2>3. /\ runs'[r].pc = runs[r].pc /\ runs'[r].result = runs[r].result
        /\ \A q \in Runs \ {r} : runs'[q] = runs[q]
    BY <1>0, <2>1, <2>2
  <2>4. After(r)
    BY <1>0, <2>1, <2>3 DEF After, Holds
  <2> QED
    BY <1>1, <2>1, <2>3, <2>4
<1>10. ASSUME NEW r \in Runs, RunBegin(r) PROVE Fine
  <2>1. request' = request /\ runs[r].pc = "begin" /\ request[r] # "pending"
    BY <1>0, <1>10 DEF RunBegin, At
  <2>2. CASE Ends(r) \/ Goes(r, "throw")
    BY <1>2, <1>3, <2>1, <2>2
  <2>3. CASE ~ guarded /\ Goes(r, "call")
    BY <1>5, <2>1, <2>3
  <2>4. CASE runs' = [runs EXCEPT ![r].pc = "mark", ![r].result = "ok"]
    BY <1>4, <2>1, <2>4
  <2>5. CASE /\ job.marker = None /\ Goes(r, "begun")
             /\ job' = [job EXCEPT !.marker = "unknown", !.by = r]
    <3>1. job'.marker = "unknown"
      BY <2>5, JobSound DEF JobStates
    <3>2. runs'[r].pc = "begun" /\ \A q \in Runs \ {r} : runs'[q] = runs[q]
      BY <2>5, RunPc DEF Points
    <3>3. Begins(r)
      BY <1>10, <2>5, <3>1 DEF Begins
    <3> QED
      BY <1>1, <2>1, <3>2, <3>3, Moved
  <2> QED
    BY <1>10, <2>2, <2>3, <2>4, <2>5 DEF RunBegin, Refused
<1>11. ASSUME NEW r \in Runs, BeginLost(r) PROVE Fine
  BY <1>2, <1>11 DEF BeginLost
<1>12. ASSUME NEW r \in Runs, RunBegun(r) PROVE Fine
  <2>1. request' = request /\ runs[r].pc = "begun" /\ (Ends(r) \/ Goes(r, "call"))
    BY <1>12 DEF RunBegun, At
  <2>2. request[r] # "pending" /\ Holds(r)
    BY <1>0, <2>1 DEF Holds
  <2> QED
    BY <1>2, <1>5, <2>1, <2>2
<1>13. ASSUME NEW r \in Runs, RunCall(r) PROVE Fine
  <2>1. runs[r].pc = "call" /\ request' = [request EXCEPT ![r] = "pending"] /\ Goes(r, "wait")
    BY <1>13 DEF RunCall, At
  <2>2. runs'[r].pc = "wait" /\ \A q \in Runs \ {r} : runs'[q] = runs[q]
    BY <2>1, RunPc DEF Points
  <2>3. request'[r] = "pending" /\ \A q \in Runs \ {r} : request'[q] = request[q]
    BY <1>0, <2>1
  <2>4. After(r)
    BY <2>1, <2>2, <2>3 DEF After, Holds, Answers
  <2> QED
    BY <2>2, <2>3, <2>4, Still
<1>14. ASSUME NEW r \in Runs, Answered(r) PROVE Fine
  <2>1. /\ runs[r].pc = "wait"
        /\ \/ /\ request' = [request EXCEPT ![r] = "none"]
              /\ \/ /\ request[r] = "accepted"
                    /\ runs' = [runs EXCEPT ![r].pc = "settle", ![r].result = "ok"]
                 \/ /\ request[r] = "refused"
                    /\ runs' = [runs EXCEPT ![r].pc = "settle", ![r].result = "skipped"]
           \/ /\ runs' = [runs EXCEPT ![r].pc = "throw", ![r].result = None]
              /\ request' = [request EXCEPT ![r] = IF @ = "pending" THEN @ ELSE "none"]
    BY <1>14 DEF Answered, At, Silence
  <2>2. ASSUME request' = [request EXCEPT ![r] = "none"],
               NEW result, result = "ok" \/ request[r] = "refused",
               runs' = [runs EXCEPT ![r].pc = "settle", ![r].result = result]
        PROVE  Fine
    <3>1. /\ runs'[r].pc = "settle" /\ runs'[r].result = result
          /\ \A q \in Runs \ {r} : runs'[q] = runs[q]
      BY <2>2, RunPcWith DEF Points
    <3>2. request'[r] = "none" /\ \A q \in Runs \ {r} : request'[q] = request[q]
      BY <1>0, <2>2
    <3>3. After(r)
      BY <1>0, <2>1, <2>2, <3>1, <3>2 DEF After, Holds, Answers
    <3> QED
      BY SMTT(40), <3>1, <3>2, <3>3, Still
  <2>3. ASSUME runs' = [runs EXCEPT ![r].pc = "throw", ![r].result = None],
               request' = [request EXCEPT ![r] = IF @ = "pending" THEN @ ELSE "none"]
        PROVE  Fine
    <3>1. runs'[r].pc = "throw" /\ \A q \in Runs \ {r} : runs'[q] = runs[q]
      BY <2>3, RunPcWith DEF Points
    <3>2. /\ request'[r] = "none" \/ (request'[r] = "pending" /\ request[r] = "pending")
          /\ \A q \in Runs \ {r} : request'[q] = request[q]
      BY <1>0, <2>3
    <3>3. After(r)
      BY <1>0, <3>1, <3>2 DEF After, Holds, Answers
    <3> QED
      BY <3>1, <3>2, <3>3, Still
  <2> QED
    BY <2>1, <2>2, <2>3
<1>15. ASSUME NEW r \in Runs, RunSettle(r) \/ RunMark(r) PROVE Fine
  <2>1. request' = request /\ runs[r].pc \in {"settle", "mark"}
        /\ (Ends(r) \/ Goes(r, "mark") \/ Goes(r, "finish") \/ Goes(r, "throw"))
    BY <1>15 DEF RunSettle, RunMark, At
  <2> QED
    BY <1>0, <1>2, <1>3, <2>1
<1>16. ASSUME NEW r \in Runs, RunFinish(r) \/ RunThrow(r) PROVE Fine
  BY <1>2, <1>16 DEF RunFinish, RunThrow
<1>17. ASSUME NEW b \in Boots, Crash(b) PROVE Fine
  <2>1. /\ runs' = [r \in Runs |-> IF runs[r].boot = b THEN IdleRun ELSE runs[r]]
        /\ request' = [r \in Runs |-> IF runs[r].boot # b \/ request[r] = "pending"
                                      THEN request[r] ELSE "none"]
    BY <1>17 DEF Crash
  <2>2. ASSUME NEW q \in Runs PROVE After(q)
    <3>1. CASE runs[q].boot # b
      BY <2>1, <3>1, Still
    <3>2. CASE runs[q].boot = b
      <4>1. runs'[q].pc = "idle" /\ request'[q] \in {request[q], "none"}
            /\ (request'[q] # "none" => request[q] = "pending")
        BY <1>0, <2>1, <3>2
      <4> QED
        BY <1>0, <4>1 DEF After, Holds, Answers
    <3> QED
      BY <3>1, <3>2
  <2> QED
    BY <2>2
<1>18. ASSUME NEW r \in Runs, ProviderTakes(r) PROVE Fine
  <2>1. /\ runs' = runs /\ request[r] = "pending"
        /\ \/ /\ request' = [request EXCEPT ![r] = IF At(r, "wait") THEN "accepted" ELSE "none"]
              /\ sent' = IF known THEN sent ELSE sent + 1
           \/ request' = [request EXCEPT ![r] = IF At(r, "wait") THEN "refused" ELSE "none"]
    BY <1>18 DEF ProviderTakes
  <2>2. /\ \A q \in Runs \ {r} : request'[q] = request[q]
        /\ \/ request'[r] = "none"
           \/ request'[r] = "accepted" /\ sent' = IF known THEN sent ELSE sent + 1
           \/ request'[r] = "refused"
    BY <1>0, <2>1
  <2>3. request'[r] = "accepted" => sent' >= 1
    <3>1. sent \in Nat /\ (known => sent >= 1)
      BY DEF IInv, Shape, KeyInv
    <3> QED
      BY <2>2, <3>1
  <2>4. After(r)
    BY <1>0, <2>1, <2>2, <2>3 DEF After, Holds, Answers
  <2> QED
    BY <2>1, <2>2, <2>4, Still
<1>19. CASE runs' = runs /\ request' = request
  BY <1>19, Still
<1> HIDE DEF Fine
<1>20. \A r \in Runs : RunSteps(r) \/ RunAborts(r) \/ BeginLost(r) => Fine
  BY <1>6, <1>7, <1>8, <1>9, <1>10, <1>11, <1>12, <1>13, <1>14, <1>15, <1>16 DEF RunSteps
<1>21. (\A b \in Boots : Crash(b) => Fine) /\ (\A r \in Runs : ProviderTakes(r) => Fine)
  BY <1>17, <1>18
<1>22. Fine \/ runs' = runs
  BY <1>20, <1>21, RunWriters
<1>23. Fine \/ request' = request
  BY <1>20, <1>21, ProviderWriters DEF KeyForgotten, RunSteps
<1>24. Fine
  BY <1>19, <1>22, <1>23 DEF Fine
<1> QED
  BY <1>24 DEF Fine
-------------------------------------------------------------------------------
(* The budget.                                                             *)

LEMMA BeginsHolder ==
  ASSUME NEW r \in Runs, Begins(r)
  PROVE  job.lock = r /\ UNCHANGED <<sent, dropped>>
<1>1. job.marker = None /\ job'.marker = "unknown" /\ RunBegin(r)
  BY DEF Begins
<1>2. Postponed(r, job).marker = job.marker
  BY DEF Postponed
<1>3. job' # job /\ job' # Postponed(r, job)
  BY <1>1, <1>2
<1> QED
  BY <1>1, <1>3 DEF RunBegin, Refused

(* The provider takes a copy of a run that held a token for it.            *)
LEMMA CopyTakesToken ==
  ASSUME IInv, [Next]_vars, sent' # sent
  PROVE  \E r \in Runs : Holds(r) /\ ~ Holds(r)' /\ job' = job /\ \A q \in Runs : ~ Begins(q)
<1>1. PICK r \in Runs : ProviderTakes(r)
  BY ProviderWriters DEF Crash, RunCall, Answered, KeyForgotten
<1>2. /\ runs' = runs /\ job' = job /\ request[r] = "pending"
      /\ request' = [request EXCEPT ![r] = IF At(r, "wait") THEN "accepted" ELSE "none"]
  BY <1>1 DEF ProviderTakes
<1>3. request \in [Runs -> Answers] /\ runs[r].pc \in {"idle", "wait", "throw"}
  BY <1>2, RequestFacts
<1>4. request'[r] \in {"accepted", "none"}
  BY <1>2, <1>3
<1>5. Holds(r) /\ ~ Holds(r)'
  BY <1>2, <1>3, <1>4 DEF Holds
<1>6. ASSUME NEW q \in Runs PROVE ~ Begins(q)
  BY <1>2 DEF Begins
<1> QED
  BY <1>2, <1>5, <1>6

(* A hash loses its marker to the run that held a token for it.            *)
LEMMA UnmarkTakesToken ==
  ASSUME IInv, [Next]_vars, NEW r \in Runs, Unmarks(r)
  PROVE  Holds(r) /\ ~ Holds(r)' /\ sent' = sent /\ \A q \in Runs : ~ Begins(q)
<1>1. /\ request' = request /\ sent' = sent
      /\ runs[r].pc = "begun" \/ (runs[r].pc = "settle" /\ runs[r].result # "ok")
      /\ Ends(r) \/ Goes(r, "finish")
  BY DEF Unmarks, RunBegun, RunSettle, At
<1>2. request[r] # "pending"
  BY <1>1, RequestFacts
<1>3. runs'[r].pc \in {"idle", "finish"}
  BY <1>1, RunPc DEF Points
<1>4. Holds(r) /\ ~ Holds(r)'
  BY <1>1, <1>2, <1>3 DEF Holds
<1>5. \A q \in Runs : ~ Begins(q)
  BY JobSound DEF Unmarks, Begins
<1> QED
  BY <1>1, <1>4, <1>5

(* An enqueue that replaces the job it checked replaces an unmarked one.   *)
LEMMA RenewsUnmarked ==
  ASSUME IInv, NEW e \in Enqueuers, Renews(e), ~ raced'
  PROVE  job.marker = None
<1>0. /\ JobInv /\ EnqInv(e) /\ adds \in Nat /\ adds + 1 # adds
  BY DEF IInv, Shape
<1>1. CASE Enqueue(e)
  BY <1>0, <1>1 DEF Enqueue, Renews, JobInv, Reapable
<1>2. CASE EnqueueReplaces(e)
  <2>1. enq[e] # None /\ adds' # adds
    BY <1>0, <1>2 DEF EnqueueReplaces, Renews
  <2>2. raced' = (raced \/ adds # enq[e])
    BY <1>2, <2>1 DEF EnqueueReplaces
  <2>3. adds = enq[e]
    BY <2>2
  <2> QED
    BY <1>0, <2>1, <2>3 DEF EnqInv, Untouched
<1> QED
  BY <1>1, <1>2 DEF Renews

(* What a step makes of the tokens, of the one left, and of the copies.    *)
Marked == Left = 1 /\ Left' = 0
Returned == Left = 0 /\ Left' = 1

LEMMA TokenMoves ==
  ASSUME IInv, [Next]_vars, guarded, ~ raced'
  PROVE  \/ \E r \in Runs : Tokens' \subseteq Tokens \cup {r} /\ Marked /\ sent' = sent
         \/ \E r \in Tokens : /\ Tokens' \subseteq Tokens \ {r}
                              /\ \/ Left' = Left /\ sent' = sent + 1
                                 \/ Returned /\ sent' = sent
         \/ /\ Tokens' \subseteq Tokens /\ sent' = sent
            /\ Left' = Left \/ Marked \/ dropped' = dropped + 1
<1>1. \A r \in Runs : Holds(r)' => Holds(r) \/ Begins(r)
  BY AfterStep DEF After
<1>2. sent' = sent \/ sent' = sent + 1
  BY Monotone
<1>3. CASE \E r \in Runs : Begins(r)
  <2>1. PICK r \in Runs : Begins(r)
    BY <1>3
  <2>2. \A q \in Runs : Begins(q) => q = r
    BY <2>1, BeginsHolder
  <2>3. Tokens' \subseteq Tokens \cup {r}
    BY <1>1, <2>2 DEF Tokens
  <2>4. Marked /\ sent' = sent
    BY <2>1, BeginsHolder DEF Begins, Marked, Left
  <2> QED
    BY <2>3, <2>4
<1>4. CASE \A r \in Runs : ~ Begins(r)
  <2>0. Tokens' \subseteq Tokens
    BY <1>1, <1>4 DEF Tokens
  <2>1. CASE sent' # sent
    <3>1. PICK r \in Runs : Holds(r) /\ ~ Holds(r)' /\ job' = job
      BY <2>1, CopyTakesToken
    <3>2. r \in Tokens /\ Tokens' \subseteq Tokens \ {r}
      BY <2>0, <3>1 DEF Tokens
    <3>3. Left' = Left
      BY <3>1 DEF Left
    <3> QED
      BY <1>2, <2>1, <3>2, <3>3
  <2>2. CASE sent' = sent
    <3>1. ASSUME NEW r \in Runs, Unmarks(r)
          PROVE  \E q \in Tokens : Tokens' \subseteq Tokens \ {q} /\ Returned
      <4>1. r \in Tokens /\ Tokens' \subseteq Tokens \ {r}
        BY <2>0, <3>1, UnmarkTakesToken DEF Tokens
      <4>2. Returned
        BY <3>1 DEF Unmarks, Returned, Left
      <4> QED
        BY <4>1, <4>2
    <3>2. ASSUME NEW e \in Enqueuers, Renews(e) PROVE Left' = Left
      BY <3>2, RenewsUnmarked, NewJobSound DEF Renews, Left
    <3>3. ASSUME NEW r \in Runs, Marks(r) \/ Accepts(r) \/ Finishes(r) PROVE Left' = Left \/ Marked
      BY <3>3 DEF Marks, Accepts, Finishes, Marked, Left
    <3>4. ASSUME job' = job \/ Passes PROVE Left' = Left
      BY <3>4 DEF Passes, SameMark, Left
    <3>5. Vanishes => dropped' = dropped + 1
      BY DEF Vanishes
    <3> QED
      BY <2>0, <2>2, <3>1, <3>2, <3>3, <3>4, <3>5, JobMoves
  <2> QED
    BY <2>1, <2>2
<1> QED
  BY <1>3, <1>4

LEMMA BudgetStep ==
  ASSUME IInv, [Next]_vars
  PROVE  BudgetInv'
<1> SUFFICES ASSUME guarded', ~ raced'
             PROVE  sent' + Cardinality(Tokens') + Left' <= 1 + dropped'
  BY DEF BudgetInv
<1>1. guarded /\ ~ raced
  BY Monotone
<1>2. /\ sent \in Nat /\ dropped \in Nat /\ Left \in {0, 1} /\ Left' \in {0, 1}
      /\ sent + Cardinality(Tokens) + Left <= 1 + dropped
  BY <1>1 DEF IInv, Shape, BudgetInv, Left
<1>3. /\ dropped' = dropped \/ dropped' = dropped + 1
      /\ sent' = sent \/ sent' = sent + 1
  BY Monotone
<1>4. /\ Tokens \subseteq Runs /\ Tokens' \subseteq Runs
      /\ IsFiniteSet(Tokens) /\ IsFiniteSet(Tokens')
  BY FS_Subset DEF Tokens
<1>5. Cardinality(Tokens) \in Nat /\ Cardinality(Tokens') \in Nat
  BY <1>4, FS_CardinalityType
<1>6. ASSUME NEW r \in Runs, Tokens' \subseteq Tokens \cup {r}
      PROVE  Cardinality(Tokens') <= Cardinality(Tokens) + 1
  <2>1. IsFiniteSet(Tokens \cup {r})
        /\ (Cardinality(Tokens \cup {r}) = Cardinality(Tokens)
            \/ Cardinality(Tokens \cup {r}) = Cardinality(Tokens) + 1)
    BY <1>4, FS_AddElement
  <2>2. Cardinality(Tokens') <= Cardinality(Tokens \cup {r})
    BY <1>6, <2>1, FS_Subset
  <2> QED
    BY <1>5, <2>1, <2>2
<1>7. ASSUME NEW r \in Tokens, Tokens' \subseteq Tokens \ {r}
      PROVE  Cardinality(Tokens') + 1 <= Cardinality(Tokens)
  <2>1. IsFiniteSet(Tokens \ {r}) /\ Cardinality(Tokens \ {r}) = Cardinality(Tokens) - 1
    BY <1>4, FS_RemoveElement
  <2>2. Cardinality(Tokens') <= Cardinality(Tokens \ {r})
    BY <1>7, <2>1, FS_Subset
  <2> QED
    BY <1>5, <2>1, <2>2
<1>8. ASSUME Tokens' \subseteq Tokens PROVE Cardinality(Tokens') <= Cardinality(Tokens)
  BY <1>4, <1>8, FS_Subset
<1>9. ASSUME NEW r \in Runs, Tokens' \subseteq Tokens \cup {r}, Marked, sent' = sent
      PROVE  sent' + Cardinality(Tokens') + Left' <= 1 + dropped'
  BY <1>2, <1>3, <1>5, <1>6, <1>9 DEF Marked
<1>10. ASSUME NEW r \in Tokens, Tokens' \subseteq Tokens \ {r},
              (Left' = Left /\ sent' = sent + 1) \/ (Returned /\ sent' = sent)
       PROVE  sent' + Cardinality(Tokens') + Left' <= 1 + dropped'
  BY <1>2, <1>3, <1>5, <1>7, <1>10 DEF Returned
<1>11. ASSUME Tokens' \subseteq Tokens, sent' = sent,
              Left' = Left \/ Marked \/ dropped' = dropped + 1
       PROVE  sent' + Cardinality(Tokens') + Left' <= 1 + dropped'
  BY <1>2, <1>3, <1>5, <1>8, <1>11 DEF Marked
<1> QED
  BY <1>1, <1>9, <1>10, <1>11, TokenMoves
-------------------------------------------------------------------------------
(* The theorems.                                                           *)

LEMMA RequestType ==
  ASSUME IInv, [Next]_vars
  PROVE  request' \in [Runs -> Answers]
<1>1. request \in [Runs -> Answers] /\ \A r \in Runs : request'[r] \in Answers
  BY RequestFacts, AfterStep DEF After
<1>2. request' = [r \in Runs |-> request'[r]]
  <2>1. CASE request' = request
    BY <1>1, <2>1
  <2>2. ASSUME NEW b \in Boots, Crash(b) PROVE request' = [r \in Runs |-> request'[r]]
    BY <2>2 DEF Crash
  <2>3. ASSUME NEW r \in Runs, RunCall(r) \/ Answered(r) \/ ProviderTakes(r)
        PROVE  request' = [q \in Runs |-> request'[q]]
    BY <1>1, <2>3 DEF RunCall, Answered, ProviderTakes
  <2> QED
    BY <2>1, <2>2, <2>3, ProviderWriters DEF KeyForgotten
<1> QED
  BY <1>1, <1>2

LEMMA Inductive ==
  ASSUME IInv, [Next]_vars
  PROVE  IInv'
<1>1. Shape'
  BY JobStep, EnqStep, KeyStep, LeaseStep, RunStep, RequestType DEF Shape, Leases, Records
<1>2. \A r \in Runs : RunInv(r)'
  BY RunStep, AfterStep DEF RunInv, After
<1>3. JobInv' /\ KeyInv' /\ BudgetInv'
  BY JobStep, KeyStep, BudgetStep
<1>4. (\A b \in Boots : BootInv(b)') /\ (\A e \in Enqueuers : EnqInv(e)')
  BY LeaseStep, EnqStep
<1> QED
  BY <1>1, <1>2, <1>3, <1>4 DEF IInv

LEMMA Initially == Init => IInv
<1> SUFFICES ASSUME Init PROVE IInv
  OBVIOUS
<1>1. /\ guarded \in BOOLEAN /\ known = FALSE /\ forgot = FALSE /\ raced = FALSE
      /\ job = NoJob /\ sent = 0 /\ dropped = 0 /\ adds = 0
      /\ registry = [b \in Boots |-> "absent"] /\ lease = [b \in Boots |-> "new"]
      /\ runs = [r \in Runs |-> IdleRun] /\ request = [r \in Runs |-> "none"]
      /\ enq = [e \in Enqueuers |-> None]
  BY DEF Init
<1>2. Sound(job) /\ job.marker = None /\ job.outcome = None /\ job.state = "none"
  BY <1>1, NewJobSound
<1>3. IdleRun \in RunStates /\ IdleRun.pc = "idle" /\ IdleRun.boot = None /\ IdleRun.result = None
  BY DEF IdleRun, RunStates, Points
<1>4. Shape
  <2>1. {guarded, known, forgot, raced} \subseteq BOOLEAN
    BY <1>1
  <2>2. {adds, sent, dropped} \subseteq Nat
    BY <1>1
  <2>3. runs \in [Runs -> RunStates] /\ request \in [Runs -> Answers] /\ job \in JobStates
    BY <1>1, <1>2, <1>3 DEF Sound, Answers
  <2>4. /\ registry \in [Boots -> {"absent", "live", "expired"}]
        /\ lease \in [Boots -> {"new", "active", "revoked", "closing", "gone"}]
        /\ enq \in [Enqueuers -> Nat \cup {None}]
    BY <1>1
  <2> QED
    BY <2>1, <2>2, <2>3, <2>4 DEF Shape
<1>5. JobInv /\ KeyInv
  BY <1>1, <1>2 DEF JobInv, KeyInv, Sound
<1>6. BudgetInv
  <2>1. \A r \in Runs : ~ Holds(r)
    BY <1>1, <1>3 DEF Holds
  <2>2. Cardinality(Tokens) = 0
    BY <2>1, FS_EmptySet DEF Tokens
  <2> QED
    BY <1>1, <2>2 DEF BudgetInv, Left
<1>7. \A b \in Boots : BootInv(b)
  BY <1>1 DEF BootInv, Up
<1>8. \A r \in Runs : RunInv(r)
  BY <1>1, <1>3 DEF RunInv
<1>9. \A e \in Enqueuers : EnqInv(e)
  BY <1>1 DEF EnqInv
<1> QED
  BY <1>4, <1>5, <1>6, <1>7, <1>8, <1>9 DEF IInv

(* The inductive invariant holds of every run of the system, whatever the  *)
(* number of processes, executions, callers and faults.                    *)
THEOREM Invariance == Spec => []IInv
<1>1. IInv /\ [Next]_vars => IInv'
  BY Inductive
<1> QED
  BY <1>1, Initially, PTL DEF Spec

(* TypeOK: the shapes of the state; a job is locked exactly while active,  *)
(* and an unknown marker names the attempt that set it.                    *)
THEOREM TypeCorrect == Spec => []TypeOK
<1>1. ASSUME IInv PROVE TypeOK
  <2>1. /\ registry \in [Boots -> {"absent", "live", "expired"}]
        /\ lease \in [Boots -> {"new", "active", "revoked", "closing", "gone"}]
        /\ request \in [Runs -> {"none", "pending", "accepted", "refused"}]
        /\ job.state \in {"none", "waiting", "active", "completed", "failed", "unknown"}
        /\ job.tries \in 0 .. MaxAttempts
        /\ job.lock \in Runs \cup {None} /\ job.by \in Runs \cup {None}
    BY <1>1 DEF IInv, Shape, JobStates, Answers
  <2>2. (job.state = "active" <=> job.lock # None) /\ (job.marker = "unknown" <=> job.by # None)
    BY <1>1 DEF IInv, JobInv
  <2>3. \A r \in Runs : runs[r].pc = "idle" <=> runs[r].boot = None
    BY <1>1 DEF IInv, RunInv
  <2>4. /\ (job.state = "active") = (job.lock \in Runs)
        /\ (job.marker = "unknown") = (job.by \in Runs)
    BY <2>1, <2>2
  <2>5. \A r \in Runs : (runs[r].pc = "idle") = (runs[r].boot = None)
    BY <2>3
  <2> QED
    BY <2>1, <2>4, <2>5 DEF TypeOK
<1> QED
  BY <1>1, Invariance, PTL

(* DrainedBeforeGone: a run between its BEGIN and its SETTLE has its       *)
(* process on record (EmailRuntimeLease.release waits for the drain).      *)
THEOREM DrainedCorrect == Spec => []DrainedBeforeGone
<1>1. ASSUME IInv PROVE DrainedBeforeGone
  <2> SUFFICES ASSUME NEW r \in Runs, guarded, runs[r].pc \in {"begun", "call", "wait", "settle"}
               PROVE  registry[runs[r].boot] # "absent"
    BY DEF DrainedBeforeGone
  <2>1. runs[r] \in RunStates /\ RunInv(r)
    BY <1>1, RunType DEF IInv
  <2>2. runs[r].boot \in Boots /\ lease[runs[r].boot] \in Up
    BY <2>1 DEF RunInv, RunStates
  <2> QED
    BY <1>1, <2>2 DEF IInv, BootInv
<1> QED
  BY <1>1, Invariance, PTL

(* ReportedWasSent: a completed job whose outcome is "sent" had a copy     *)
(* taken by the provider (the worker's return value is trusted by          *)
(* enqueueEmailSend for good).                                             *)
THEOREM ReportedCorrect == Spec => []ReportedWasSent
<1>1. IInv => ReportedWasSent
  BY DEF IInv, JobInv, ReportedWasSent
<1> QED
  BY <1>1, Invariance, PTL

(* SentOnce: one logical email leaves once, for any number of retries,     *)
(* stalls, redeliveries and crashes (email-runtime-lease.ts, BEGIN and     *)
(* SETTLE; without the lease, the provider's idempotency key).             *)
THEOREM SentOnceCorrect == Spec => []SentOnce
<1>1. ASSUME IInv PROVE SentOnce
  <2>1. /\ sent \in Nat /\ dropped \in Nat /\ Left \in {0, 1} /\ KeyInv /\ BudgetInv
    BY <1>1 DEF IInv, Shape, Left
  <2>2. Cardinality(Tokens) \in Nat
    BY FS_Subset, FS_CardinalityType DEF Tokens
  <2>3. ASSUME ~ raced, guarded PROVE sent <= 1 + dropped
    <3>1. sent + Cardinality(Tokens) + Left <= 1 + dropped
      BY <2>1, <2>3 DEF BudgetInv
    <3> QED
      BY <2>1, <2>2, <3>1
  <2>4. ASSUME ~ forgot PROVE sent <= 1 + dropped
    <3>1. sent <= 1
      BY <2>1, <2>4 DEF KeyInv
    <3> QED
      BY <2>1, <3>1
  <2> QED
    BY <2>3, <2>4 DEF SentOnce
<1> QED
  BY <1>1, Invariance, PTL
===============================================================================
