------------------------------ MODULE LaterReturn ------------------------------
(***************************************************************************)
(* The return of a sender's mail from Later.  A Later moves the mail out   *)
(* of the inbox and writes the sender's one return timer; the wake worker  *)
(* puts the mail back when the timer is due, or when the user asks for it. *)
(*                                                                         *)
(* Actors: the Later moves and their Undos (LabelActionWorker, and         *)
(* AutopilotActionWorker for the moves in AutoLaters), the processors of   *)
(* the snooze-wake queue (SnoozeWakeWorker), the API (SnoozeService), the  *)
(* sync, and Gmail.  All but the API's clicks hold the mailbox lock, which *)
(* is a session lock: it is gone when its connection is, while its holder  *)
(* runs on.                                                                *)
(*                                                                         *)
(* A timer's version is when it was written (snoozed_at); versions are     *)
(* numbered in the order of the writes.  until = 0 is no timer.            *)
(***************************************************************************)
EXTENDS Naturals, FiniteSets

CONSTANTS
  Messages,     \* the sender's messages
  Laters,       \* the moves to Later, a user's or Autopilot's
  AutoLaters,   \* the ones Autopilot makes
  Wakers,       \* processors of the snooze-wake queue, one per replica
  Clicks,       \* Wake now and Try again clicks
  MaxTime,      \* bound: the last time of the clock
  MaxAttempts,  \* attempts of a queue job
  FaultKinds,   \* the kinds of fault the environment may inject
  MaxFaults,    \* bound: faults in one behaviour
  PromptSync,   \* the sync reaches the mirror before a wake reads it
  MaxEdits,     \* bound: reschedules, wake clicks and Undos in one behaviour
  None          \* no lock holder, no job

AllFaults == {"crash", "lock_timeout", "lock_lost", "client", "partial",
              "database", "stop", "ambiguous"}

ASSUME SetsAssumption ==
  /\ AutoLaters \subseteq Laters
  /\ FaultKinds \subseteq AllFaults
  /\ IsFiniteSet(Messages)
  /\ PromptSync \in BOOLEAN

ASSUME BoundsAssumption ==
  /\ MaxTime \in Nat \ {0}
  /\ MaxAttempts \in Nat \ {0}
  /\ MaxFaults \in Nat
  /\ MaxEdits \in Nat

ASSUME NoneAssumption ==
  /\ None \notin Laters \cup Wakers \cup Clicks
  /\ Laters \cap Wakers = {}

VARIABLES
  gmail,   \* where each message is in Gmail
  mirror,  \* where mail_messages.label_ids says it is
  timer,   \* sender_policies.snoozed_* of the sender
  stamps,  \* the last version written
  now,     \* the clock
  mlock,   \* the mailbox advisory lock
  mv,      \* the Later moves and their Undos
  job,     \* targeted wake jobs, one per click that was not a duplicate
  wk,      \* the wake workers
  faults, edits,
  lost,    \* ghost: a holder lost its lock while it ran
  adrift   \* ghost: moved by a first request whose answer never came, and not since

store == <<gmail, mirror>>
schedule == <<timer, stamps>>
bounds == <<faults, edits>>
ghosts == <<lost, adrift>>
vars == <<store, schedule, now, mlock, mv, job, wk, bounds, ghosts>>

-------------------------------------------------------------------------------
Places == {"inbox", "later"}
Times == 0 .. MaxTime
Kinds == {"none", "temporary", "reauthorize", "needs_attention"}
Errors == {"TransientError", "InvalidGrantError", "PermanentError"}

NoTimer == [until |-> 0, at |-> 0, failures |-> 0, kind |-> "none"]
Timers == [until : Times, at : Nat, failures : Nat, kind : Kinds]

(* A move: wake is the job's wakeAt, ids the messages it resolved, todo    *)
(* the ones not sent yet, landed whether a request landed.                 *)
MovePoints == {"none", "queued", "send", "timer", "commit", "done", "stopped",
               "undo", "revsend", "revcommit", "undone"}
Moves == [pc : MovePoints, wake : Times, ids : SUBSET Messages,
          todo : SUBSET Messages, landed : BOOLEAN]
NoMove == [pc |-> "none", wake |-> 0, ids |-> {}, todo |-> {}, landed |-> FALSE]

(* A targeted job, and the version it pins.                                *)
WakeJobs == [state : {"none", "waiting", "active", "completed", "failed"},
             until : Times, at : Nat, made : Nat]
NoWakeJob == [state |-> "none", until |-> 0, at |-> 0, made |-> 0]

(* A wake worker: the job it runs (None for a sweep), the version it       *)
(* pinned, the restore set it read, the error on its way out.              *)
WakePoints == {"idle", "lock", "claim", "client", "send", "commit", "record"}
WakerStates == [pc : WakePoints, job : Clicks \cup {None}, until : Times, at : Nat,
                ids : SUBSET Messages, err : Errors \cup {"none"}]
IdleWaker == [pc |-> "idle", job |-> None, until |-> 0, at |-> 0, ids |-> {},
              err |-> "none"]

TypeOK ==
  /\ gmail \in [Messages -> Places] /\ mirror \in [Messages -> Places]
  /\ timer \in Timers /\ stamps \in Nat
  /\ now \in Times
  /\ mlock \in Laters \cup Wakers \cup {None}
  /\ mv \in [Laters -> Moves]
  /\ job \in [Clicks -> WakeJobs]
  /\ wk \in [Wakers -> WakerStates]
  /\ faults \in Nat /\ edits \in Nat
  /\ lost \in BOOLEAN /\ adrift \subseteq Messages

Init ==
  /\ gmail = [m \in Messages |-> "inbox"]
  /\ mirror = gmail
  /\ timer = NoTimer /\ stamps = 0
  /\ now = 0
  /\ mlock = None
  /\ mv = [l \in Laters |-> NoMove]
  /\ job = [c \in Clicks |-> NoWakeJob]
  /\ wk = [w \in Wakers |-> IdleWaker]
  /\ faults = 0 /\ edits = 0
  /\ lost = FALSE /\ adrift = {}

Fault(kind) ==
  /\ kind \in FaultKinds
  /\ faults < MaxFaults
  /\ faults' = faults + 1
  /\ UNCHANGED edits

Edit ==
  /\ edits < MaxEdits
  /\ edits' = edits + 1
  /\ UNCHANGED faults

Move(place, ids, to) == [m \in Messages |-> IF m \in ids THEN to ELSE place[m]]

InLater(place) == {m \in Messages : place[m] = "later"}

Release(p) == mlock' = IF mlock = p THEN None ELSE mlock

(* The connection that holds the lock for a wake is lost, once in a        *)
(* behaviour; the wake does not notice.                                    *)
LoseLock ==
  /\ mlock \in Wakers /\ ~lost /\ "lock_lost" \in FaultKinds
  /\ mlock' = None
  /\ lost' = TRUE
  /\ UNCHANGED <<adrift, store, schedule, now, mv, job, wk, bounds>>

Tick ==
  /\ now < MaxTime
  /\ now' = now + 1
  /\ UNCHANGED <<store, schedule, mlock, mv, job, wk, bounds, ghosts>>

-------------------------------------------------------------------------------
(* The sync: a batch of history runs under the mailbox lock.               *)

Sync(m) ==
  /\ mlock = None /\ mirror[m] # gmail[m]
  /\ mirror' = [mirror EXCEPT ![m] = gmail[m]]
  /\ UNCHANGED <<gmail, schedule, now, mlock, mv, job, wk, bounds, ghosts>>

(* What is asked of the sync when it is prompt: what a Later that stopped  *)
(* part-way left in Later is in the mirror before the next wake or Undo of *)
(* the sender reads it.                                                    *)
Caught == PromptSync => InLater(gmail) \subseteq InLater(mirror)

-------------------------------------------------------------------------------
(* The moves.  One request moves one message (a chunk of a thousand).      *)

NewTimer(until) ==
  [until |-> until, at |-> stamps + 1, failures |-> 0, kind |-> "none"]

(* scheduleLaterReturn: a user's Later replaces the timer, Autopilot's     *)
(* keeps the one that is there.                                            *)
ScheduleLaterReturn(l) ==
  IF l \in AutoLaters /\ timer.until # 0 THEN UNCHANGED schedule
  ELSE timer' = NewTimer(mv[l].wake) /\ stamps' = stamps + 1

(* The user picks a time ahead; Autopilot's default lies ahead too.        *)
Click(l, t) ==
  /\ mv[l].pc = "none" /\ t > now
  /\ mv' = [mv EXCEPT ![l].pc = "queued", ![l].wake = t]
  /\ UNCHANGED <<store, schedule, now, mlock, job, wk, bounds, ghosts>>

(* A sender with nothing in the inbox is done at once.                     *)
MoveStart(l) ==
  /\ mv[l].pc = "queued" /\ mlock = None
  /\ LET ids == {m \in Messages : mirror[m] = "inbox"}
     IN /\ mv' = [mv EXCEPT ![l].pc = IF ids = {} THEN "done" ELSE "send",
                            ![l].ids = ids, ![l].todo = ids]
        /\ mlock' = IF ids = {} THEN None ELSE l
  /\ UNCHANGED <<store, schedule, now, job, wk, bounds, ghosts>>

MoveLands(l, m) ==
  /\ mv[l].pc = "send" /\ m \in mv[l].todo
  /\ gmail' = [gmail EXCEPT ![m] = "later"]
  /\ mv' = [mv EXCEPT ![l].todo = @ \ {m}, ![l].landed = TRUE,
                      ![l].pc = IF ~mv[l].landed THEN "timer"
                                ELSE IF mv[l].todo = {m} THEN "commit" ELSE "send"]
  /\ adrift' = adrift \ {m}
  /\ UNCHANGED <<mirror, schedule, now, mlock, job, wk, bounds, lost>>

(* The return timer is set as the first request lands.                     *)
MoveTimer(l) ==
  /\ mv[l].pc = "timer"
  /\ ScheduleLaterReturn(l)
  /\ mv' = [mv EXCEPT ![l].pc = IF mv[l].todo = {} THEN "commit" ELSE "send"]
  /\ UNCHANGED <<store, now, mlock, job, wk, bounds, ghosts>>

(* The terminal transaction: mirror, timer and row.                        *)
MoveCommit(l) ==
  /\ mv[l].pc = "commit"
  /\ mirror' = Move(mirror, mv[l].ids, "later")
  /\ ScheduleLaterReturn(l)
  /\ mv' = [mv EXCEPT ![l].pc = "done", ![l].landed = FALSE]
  /\ Release(l)
  /\ UNCHANGED <<gmail, now, job, wk, bounds, ghosts>>

(* Nothing more is sent: the user protected the sender between two         *)
(* requests, or Gmail refused one and no retry follows.  What landed stays *)
(* in Later and out of the mirror.  (The retries are in LabelActions.)     *)
MoveStops(l) ==
  /\ mv[l].pc = "send"
  /\ Fault("stop")
  /\ mv' = [mv EXCEPT ![l].pc = "stopped", ![l].todo = {}, ![l].landed = FALSE]
  /\ Release(l)
  /\ UNCHANGED <<store, schedule, now, job, wk, ghosts>>

(* Gmail applies a request, its answer never comes and no retry follows.   *)
(* The return timer is not set for a first request that is in doubt.       *)
MoveUncertain(l, m) ==
  /\ mv[l].pc = "send" /\ m \in mv[l].todo
  /\ Fault("ambiguous")
  /\ gmail' = [gmail EXCEPT ![m] = "later"]
  /\ adrift' = IF mv[l].landed THEN adrift ELSE adrift \cup {m}
  /\ mv' = [mv EXCEPT ![l].pc = "stopped", ![l].todo = {}, ![l].landed = FALSE]
  /\ Release(l)
  /\ UNCHANGED <<mirror, schedule, now, job, wk, lost>>

UndoClick(l) ==
  /\ mv[l].pc = "done" /\ mv[l].ids # {}
  /\ Edit
  /\ mv' = [mv EXCEPT ![l].pc = "undo"]
  /\ UNCHANGED <<store, schedule, now, mlock, job, wk, ghosts>>

UndoStart(l) ==
  /\ mv[l].pc = "undo" /\ mlock = None /\ Caught
  /\ mlock' = l
  /\ mv' = [mv EXCEPT ![l].pc = "revsend"]
  /\ UNCHANGED <<store, schedule, now, job, wk, bounds, ghosts>>

UndoSend(l) ==
  /\ mv[l].pc = "revsend"
  /\ gmail' = Move(gmail, mv[l].ids, "inbox")
  /\ mv' = [mv EXCEPT ![l].pc = "revcommit"]
  /\ UNCHANGED <<mirror, schedule, now, mlock, job, wk, bounds, ghosts>>

(* Mutant: an Undo cancels its timer whatever else waits on it.            *)
UndoCancelsAlways(l) == timer.until # 0 /\ timer.until = mv[l].wake

(* An Undo cancels the timer only if it still has this Later's time, and   *)
(* only once none of the sender's mail is left in Later.                   *)
UndoCancels(l) ==
  /\ timer.until # 0 /\ timer.until = mv[l].wake
  /\ InLater(Move(mirror, mv[l].ids, "inbox")) = {}

UndoCommit(l) ==
  /\ mv[l].pc = "revcommit"
  /\ mirror' = Move(mirror, mv[l].ids, "inbox")
  /\ timer' = IF UndoCancels(l) THEN NoTimer ELSE timer
  /\ mv' = [mv EXCEPT ![l].pc = "undone"]
  /\ Release(l)
  /\ UNCHANGED <<gmail, stamps, now, job, wk, bounds, ghosts>>

-------------------------------------------------------------------------------
(* SnoozeService.                                                          *)

(* setSnooze, in one transaction under the lock.  The same time again is a *)
(* no-op while the return is healthy.                                      *)
SetSnooze(t) ==
  /\ mlock = None /\ t > now
  /\ Edit
  /\ ~ (timer.until = t /\ timer.failures = 0)
  /\ timer' = NewTimer(t) /\ stamps' = stamps + 1
  /\ UNCHANGED <<store, now, mlock, mv, job, wk, ghosts>>

(* The job pins the timer read.  Its id is that version, the failure count *)
(* and the minute: a second click in the minute changes nothing, one after *)
(* a recorded failure or in a later minute is a job of its own.            *)
EnqueueWake(c) ==
  /\ job[c].state = "none"
  /\ Edit
  /\ job' = [job EXCEPT ![c] = [NoWakeJob EXCEPT !.state = "waiting",
                                   !.until = timer.until, !.at = timer.at]]
  /\ UNCHANGED <<store, schedule, now, mlock, mv, wk, ghosts>>

WakeNow(c) == timer.until # 0 /\ EnqueueWake(c)

(* wakeRecovery: only for a recorded failure, or a time missed for a while.*)
WakeRecovery(c) ==
  /\ timer.until # 0
  /\ timer.failures > 0 \/ now > timer.until
  /\ EnqueueWake(c)

-------------------------------------------------------------------------------
(* SnoozeWakeWorker.                                                       *)

Pinned(w) == timer.until = wk[w].until /\ timer.at = wk[w].at

(* The run ends.  A pass of the sweep that failed is delivered again, but  *)
(* its minute is claimed, so only the next tick looks again.  A targeted   *)
(* job completes, is retried, or is out of attempts.                       *)
EndRun(w, err) ==
  /\ wk' = [wk EXCEPT ![w] = IdleWaker]
  /\ job' = IF wk[w].job = None THEN job
            ELSE [job EXCEPT
                    ![wk[w].job].made = IF err = "none" THEN @ ELSE @ + 1,
                    ![wk[w].job].state =
                      CASE err = "none" -> "completed"
                        [] err \in {"PermanentError", "InvalidGrantError"} -> "failed"
                        [] OTHER -> IF job[wk[w].job].made + 1 >= MaxAttempts
                                    THEN "failed" ELSE "waiting"]

(* Mutant: one failed return is never tried again.                         *)
DueOnce == timer.until # 0 /\ timer.until <= now /\ timer.failures = 0

Due == timer.until # 0 /\ timer.until <= now /\ timer.kind # "needs_attention"

(* A tick of the scheduler, its minute claimed: the due timers are         *)
(* captured.  A tick that finds none, or its minute taken, changes nothing.*)
SweepStart(w) ==
  /\ wk[w].pc = "idle" /\ Due
  /\ wk' = [wk EXCEPT ![w] = [IdleWaker EXCEPT
                !.pc = "lock", !.until = timer.until, !.at = timer.at]]
  /\ UNCHANGED <<store, schedule, now, mlock, mv, job, bounds, ghosts>>

JobStart(w, c) ==
  /\ wk[w].pc = "idle" /\ job[c].state = "waiting"
  /\ job' = [job EXCEPT ![c].state = "active"]
  /\ wk' = [wk EXCEPT ![w] = [IdleWaker EXCEPT !.pc = "lock", !.job = c,
                                 !.until = job[c].until, !.at = job[c].at]]
  /\ UNCHANGED <<store, schedule, now, mlock, mv, bounds, ghosts>>

Acquire(w) ==
  /\ wk[w].pc = "lock" /\ mlock = None /\ Caught
  /\ mlock' = w
  /\ wk' = [wk EXCEPT ![w].pc = "claim"]
  /\ UNCHANGED <<store, schedule, now, mv, job, bounds, ghosts>>

(* A lock that cannot be had says nothing of the return: nothing recorded. *)
LockTimesOut(w) ==
  /\ wk[w].pc = "lock" /\ mlock # None
  /\ Fault("lock_timeout")
  /\ EndRun(w, "TransientError")
  /\ UNCHANGED <<store, schedule, now, mlock, mv, ghosts>>

(* wakeSender claims the version; another one is not this wake's.          *)
Claim(w) ==
  /\ wk[w].pc = "claim"
  /\ IF Pinned(w)
       THEN /\ wk' = [wk EXCEPT ![w].pc = "client"]
            /\ UNCHANGED <<mlock, job>>
       ELSE EndRun(w, "none") /\ Release(w)
  /\ UNCHANGED <<store, schedule, now, mv, bounds, ghosts>>

(* The client and the label id; then the restore set, from the mirror.     *)
Restore(w) ==
  /\ wk[w].pc = "client"
  /\ wk' = [wk EXCEPT ![w].ids = InLater(mirror),
                      ![w].pc = IF InLater(mirror) = {} THEN "commit" ELSE "send"]
  /\ UNCHANGED <<store, schedule, now, mlock, mv, job, bounds, ghosts>>

(* A sweep records every failure; a targeted wake its last.                *)
WakeThrows(w, e) ==
  IF \/ wk[w].job = None
     \/ e # "TransientError"
     \/ job[wk[w].job].made + 1 >= MaxAttempts
    THEN /\ wk' = [wk EXCEPT ![w].pc = "record", ![w].err = e]
         /\ UNCHANGED <<mlock, job>>
    ELSE EndRun(w, e) /\ Release(w)

ClientFails(w) ==
  /\ wk[w].pc = "client"
  /\ Fault("client")
  /\ \E e \in Errors : WakeThrows(w, e)
  /\ UNCHANGED <<store, schedule, now, mv, ghosts>>

WakeSend(w) ==
  /\ wk[w].pc = "send"
  /\ gmail' = Move(gmail, wk[w].ids, "inbox")
  /\ wk' = [wk EXCEPT ![w].pc = "commit"]
  /\ UNCHANGED <<mirror, schedule, now, mlock, mv, job, bounds, ghosts>>

(* Some of the requests of the restore land, then one fails.               *)
WakeSendFails(w) ==
  /\ wk[w].pc = "send"
  /\ Fault("partial")
  /\ \E ids \in SUBSET wk[w].ids : gmail' = Move(gmail, ids, "inbox")
  /\ WakeThrows(w, "TransientError")
  /\ UNCHANGED <<mirror, schedule, now, mv, ghosts>>

(* Mutant: the clear is not guarded by the version.                        *)
WakeClearsAny(w) == TRUE

WakeClears(w) == Pinned(w)

(* The mirror of all the sender's mail in Later, and the timer.            *)
WakeCommit(w) ==
  /\ wk[w].pc = "commit"
  /\ mirror' = IF wk[w].ids = {} THEN mirror ELSE Move(mirror, InLater(mirror), "inbox")
  /\ timer' = IF WakeClears(w) THEN NoTimer ELSE timer
  /\ EndRun(w, "none")
  /\ Release(w)
  /\ UNCHANGED <<gmail, stamps, now, mv, bounds, ghosts>>

WakeCommitFails(w) ==
  /\ wk[w].pc = "commit"
  /\ Fault("database")
  /\ WakeThrows(w, "TransientError")
  /\ UNCHANGED <<store, schedule, now, mv, ghosts>>

(* A revoked grant the user has since replaced counts as temporary.        *)
FailureKinds(e) ==
  CASE e = "InvalidGrantError" -> {"reauthorize", "temporary"}
    [] e = "PermanentError" -> {"needs_attention"}
    [] OTHER -> {"temporary"}


Blames(w) == Pinned(w)

(* recordWakeFailure: a sweep goes on as if nothing happened, the targeted *)
(* job fails.                                                              *)
RecordWakeFailure(w) ==
  /\ wk[w].pc = "record"
  /\ \E k \in FailureKinds(wk[w].err) :
       timer' = IF Blames(w)
                THEN [timer EXCEPT !.failures = @ + 1, !.kind = k] ELSE timer
  /\ EndRun(w, IF wk[w].job = None THEN "none" ELSE wk[w].err)
  /\ Release(w)
  /\ UNCHANGED <<store, stamps, now, mv, bounds, ghosts>>

(* The process dies: the sweep's minute stays claimed, a targeted job is   *)
(* delivered again.                                                        *)
WakerCrash(w) ==
  /\ wk[w].pc # "idle"
  /\ Fault("crash")
  /\ wk' = [wk EXCEPT ![w] = IdleWaker]
  /\ job' = IF wk[w].job = None THEN job
            ELSE [job EXCEPT ![wk[w].job].state = "waiting"]
  /\ Release(w)
  /\ UNCHANGED <<store, schedule, now, mv, ghosts>>

-------------------------------------------------------------------------------
MoveStep(l) ==
  \/ MoveStart(l) \/ MoveTimer(l) \/ MoveCommit(l)
  \/ \E m \in Messages : MoveLands(l, m)
  \/ UndoStart(l) \/ UndoSend(l) \/ UndoCommit(l)

WakeStep(w) ==
  \/ SweepStart(w)
  \/ \E c \in Clicks : JobStart(w, c)
  \/ Acquire(w) \/ Claim(w) \/ Restore(w) \/ WakeSend(w) \/ WakeCommit(w)
  \/ RecordWakeFailure(w)

UserStep ==
  \/ \E l \in Laters : UndoClick(l) \/ \E t \in Times : Click(l, t)
  \/ \E t \in Times : SetSnooze(t)
  \/ \E c \in Clicks : WakeNow(c) \/ WakeRecovery(c)

FaultStep ==
  \/ LoseLock
  \/ \E l \in Laters : MoveStops(l) \/ \E m \in Messages : MoveUncertain(l, m)
  \/ \E w \in Wakers : \/ LockTimesOut(w) \/ ClientFails(w) \/ WakeSendFails(w)
                       \/ WakeCommitFails(w) \/ WakerCrash(w)

Next ==
  \/ Tick \/ UserStep \/ FaultStep
  \/ \E m \in Messages : Sync(m)
  \/ \E l \in Laters : MoveStep(l)
  \/ \E w \in Wakers : WakeStep(w)

Spec == Init /\ [][Next]_vars

(* Workers keep running, the scheduler keeps ticking, notifications of     *)
(* Gmail's changes keep coming.                                            *)
Fairness ==
  /\ \A m \in Messages : WF_vars(Sync(m))
  /\ \A l \in Laters : WF_vars(MoveStep(l))
  /\ \A w \in Wakers : WF_vars(WakeStep(w))

LiveSpec == Spec /\ Fairness

-------------------------------------------------------------------------------
(* What moved to Later must come back: mail that is in Later in Gmail has  *)
(* a return timer, whatever became of the Later that put it there, of the  *)
(* other Laters and Undos of the sender, and of the wakes in between.  The *)
(* exceptions are the instant between a request's answer and the write of  *)
(* the timer, and what a first request moved whose answer never came.  It  *)
(* rests on the mailbox lock being held throughout.                        *)
LaterComesBack ==
  ~lost /\ InLater(gmail) \ adrift # {} =>
    \/ timer.until # 0
    \/ \E l \in Laters : mv[l].pc = "timer"

(* A timer goes away only by a wake that pinned this very version, or by   *)
(* the Undo of a Later with this very time: a reschedule, or a newer       *)
(* Later, always wins over a wake that captured the timer before it.       *)
NewerTimerWins ==
  [][ timer.until # 0 /\ timer'.until = 0 =>
        \/ \E w \in Wakers : wk[w].pc = "commit" /\ wk'[w].pc = "idle"
                             /\ wk[w].at = timer.at
        \/ \E l \in Laters : mv[l].pc = "revcommit" /\ mv'[l].pc = "undone"
                             /\ mv[l].wake = timer.until ]_vars

(* A due return is carried out, replaced by the user, or reported as       *)
(* needing attention; passes that fail leave it due for the next.          *)
DueReturns ==
  LET Overdue == /\ timer.until # 0 /\ timer.until <= now
                 /\ timer.kind # "needs_attention"
  IN Overdue ~> ~Overdue
===============================================================================
