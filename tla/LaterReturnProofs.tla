-------------------------- MODULE LaterReturnProofs --------------------------
(***************************************************************************)
(* Proofs about LaterReturn, for every finite set of messages, any moves,  *)
(* wake workers and clicks, and every number of faults and edits.          *)
(*                                                                         *)
(* The mailbox lock carries the argument.  While it was never lost, its    *)
(* holder is the only one that moves mail or cancels the timer.  Whoever   *)
(* is about to cancel it took the lock when the mirror knew of all that    *)
(* was in Later, and has moved all of that since (MoveInv, WakeInv).       *)
(***************************************************************************)
EXTENDS LaterReturn, TLAPS

-------------------------------------------------------------------------------
(* The inductive invariant.                                                *)

MoveHolds == {"send", "timer", "commit", "revsend", "revcommit"}
WakeHolds == {"claim", "client", "send", "commit", "record"}

(* A move under way has its lock, and its timer once a request landed.  An *)
(* Undo has sent, or will send, all of Later that the mirror loses by it.  *)
MoveInv(l) ==
  /\ mv[l].pc # "none" => mv[l].wake # 0
  /\ mv[l].pc \in {"none", "queued"} => ~mv[l].landed
  /\ mv[l].pc \in MoveHolds => mlock = l
  /\ ~lost /\ mv[l].pc = "send" /\ mv[l].landed => timer.until # 0
  /\ PromptSync /\ ~lost =>
       /\ mv[l].pc = "revsend" => InLater(gmail) \subseteq InLater(mirror)
       /\ mv[l].pc = "revcommit" => InLater(gmail) \subseteq InLater(mirror) \ mv[l].ids

(* A wake about to cancel a timer has put back all that is in Later.       *)
WakeInv(w) ==
  ~lost =>
    /\ wk[w].pc \in WakeHolds => mlock = w
    /\ PromptSync =>
         /\ wk[w].pc \in {"claim", "client"} => InLater(gmail) \subseteq InLater(mirror)
         /\ wk[w].pc = "send" => InLater(gmail) \subseteq wk[w].ids
         /\ wk[w].pc = "commit" => InLater(gmail) = {}

BackInv == PromptSync => LaterComesBack

IInv ==
  /\ TypeOK
  /\ \A l \in Laters : MoveInv(l)
  /\ \A w \in Wakers : WakeInv(w)
  /\ BackInv

-------------------------------------------------------------------------------
(* Every step keeps the types.                                             *)

USE SetsAssumption, BoundsAssumption, NoneAssumption
USE DEF vars, store, schedule, bounds, ghosts

(* A holder that lets go leaves the lock to nobody.                        *)
LEMMA ReleaseType ==
  ASSUME TypeOK, NEW p, Release(p)
  PROVE  mlock' \in Laters \cup Wakers \cup {None}
  BY DEF TypeOK, Release

LEMMA NewTimerType ==
  ASSUME TypeOK, NEW t \in Times
  PROVE  NewTimer(t) \in Timers /\ stamps + 1 \in Nat
  BY DEF TypeOK, NewTimer, Timers, Kinds

LEMMA NoTimerType == NoTimer \in Timers
  BY DEF NoTimer, Timers, Times, Kinds

LEMMA ScheduleType ==
  ASSUME TypeOK, NEW l \in Laters, ScheduleLaterReturn(l)
  PROVE  timer' \in Timers /\ stamps' \in Nat
<1>1. mv[l].wake \in Times
  BY DEF TypeOK, Moves
<1> QED
  BY <1>1, NewTimerType DEF ScheduleLaterReturn, TypeOK

LEMMA PutType ==
  ASSUME NEW f \in [Messages -> Places], NEW ids, NEW to \in Places
  PROVE  Move(f, ids, to) \in [Messages -> Places]
  BY DEF Move

LEMMA FaultType == ASSUME TypeOK, NEW k, Fault(k) PROVE faults' \in Nat /\ edits' \in Nat
  BY DEF TypeOK, Fault

LEMMA EditType == ASSUME TypeOK, Edit PROVE faults' \in Nat /\ edits' \in Nat
  BY DEF TypeOK, Edit

(* A step of one move, or of one worker, leaves the others alone.          *)
LEMMA OneMove ==
  ASSUME TypeOK, NEW l \in Laters, NEW t \in Moves, mv' = [mv EXCEPT ![l] = t]
  PROVE  /\ mv' \in [Laters -> Moves] /\ mv'[l] = t
         /\ \A k \in Laters \ {l} : mv'[k] = mv[k]
  BY DEF TypeOK

LEMMA OneWaker ==
  ASSUME TypeOK, NEW w \in Wakers, NEW t \in WakerStates, wk' = [wk EXCEPT ![w] = t]
  PROVE  /\ wk' \in [Wakers -> WakerStates] /\ wk'[w] = t
         /\ \A v \in Wakers \ {w} : wk'[v] = wk[v]
  BY DEF TypeOK

LEMMA Types ==
  ASSUME TypeOK
  PROVE  /\ gmail \in [Messages -> Places] /\ mirror \in [Messages -> Places]
         /\ timer \in Timers /\ stamps \in Nat /\ now \in Times
         /\ mlock \in Laters \cup Wakers \cup {None}
         /\ mv \in [Laters -> Moves] /\ job \in [Clicks -> WakeJobs]
         /\ wk \in [Wakers -> WakerStates]
         /\ faults \in Nat /\ edits \in Nat /\ lost \in BOOLEAN /\ adrift \subseteq Messages
         /\ \A l \in Laters : mv[l] \in Moves
         /\ \A w \in Wakers : wk[w] \in WakerStates
  BY DEF TypeOK

LEMMA IdleTypes == IdleWaker \in WakerStates /\ NoMove \in Moves
<1>1. 0 \in Times
  BY DEF Times
<1> QED
  BY <1>1 DEF IdleWaker, WakerStates, WakePoints, NoMove, Moves, MovePoints

LEMMA InitOk == Init => IInv
<1> SUFFICES ASSUME Init PROVE IInv
  OBVIOUS
<1>1. TypeOK
  <2>1. 0 \in Times
    BY DEF Times
  <2>2. NoWakeJob \in WakeJobs
    BY <2>1 DEF NoWakeJob, WakeJobs
  <2>3. gmail \in [Messages -> Places]
    BY DEF Init, Places
  <2> QED
    BY <2>1, <2>2, <2>3, IdleTypes, NoTimerType DEF Init, TypeOK
<1>2. ASSUME NEW l \in Laters PROVE MoveInv(l)
  BY DEF Init, MoveInv, NoMove, MoveHolds
<1>3. ASSUME NEW w \in Wakers PROVE WakeInv(w)
  BY DEF Init, WakeInv, IdleWaker, WakeHolds
<1>4. BackInv
  BY DEF Init, BackInv, LaterComesBack, InLater
<1> QED
  BY <1>1, <1>2, <1>3, <1>4 DEF IInv

-------------------------------------------------------------------------------
(* What a step does not reach stays in order.                              *)

Kept == gmail' = gmail /\ mirror' = mirror /\ mlock' = mlock

(* A move that some step is not about: the step ends no timer, and moves   *)
(* nothing, while this move has the lock.                                  *)
LEMMA MoveStill ==
  ASSUME IInv, NEW l \in Laters, mv'[l] = mv[l], lost => lost',
         mv[l].pc \in MoveHolds => /\ mlock' = mlock
                                   /\ ~lost' => Kept /\ (timer.until # 0 => timer'.until # 0)
  PROVE  MoveInv(l)'
<1>1. MoveInv(l)
  BY DEF IInv
<1>2. CASE mv[l].pc \notin MoveHolds
  BY <1>1, <1>2 DEF MoveInv, MoveHolds
<1>3. CASE mv[l].pc \in MoveHolds
  <2>1. CASE lost'
    BY <1>1, <1>3, <2>1 DEF MoveInv
  <2>2. CASE ~lost'
    <3>1. InLater(gmail)' = InLater(gmail) /\ InLater(mirror)' = InLater(mirror)
      BY <1>3, <2>2 DEF Kept, InLater
    <3> QED
      BY <1>1, <1>3, <2>2, <3>1 DEF MoveInv, Kept
  <2> QED
    BY <2>1, <2>2
<1> QED
  BY <1>2, <1>3

LEMMA WakeStill ==
  ASSUME IInv, NEW w \in Wakers, wk'[w] = wk[w], lost => lost',
         wk[w].pc \in WakeHolds /\ ~lost' => Kept
  PROVE  WakeInv(w)'
<1>1. WakeInv(w)
  BY DEF IInv
<1>2. CASE wk[w].pc \in WakeHolds /\ ~lost'
  <2>1. InLater(gmail)' = InLater(gmail) /\ InLater(mirror)' = InLater(mirror)
    BY <1>2 DEF Kept, InLater
  <2> QED
    BY <1>1, <1>2, <2>1 DEF WakeInv, Kept
<1>3. CASE ~(wk[w].pc \in WakeHolds /\ ~lost')
  BY <1>3 DEF WakeInv, WakeHolds
<1> QED
  BY <1>2, <1>3

(* No two moves hold the lock, nor a move and a wake.                      *)
LEMMA Alone ==
  ASSUME IInv
  PROVE  /\ \A l, k \in Laters : mv[l].pc \in MoveHolds /\ k # l => mv[k].pc \notin MoveHolds
         /\ \A l \in Laters, w \in Wakers :
              mv[l].pc \in MoveHolds /\ ~lost => wk[w].pc \notin WakeHolds
         /\ \A v, w \in Wakers :
              wk[v].pc \in WakeHolds /\ w # v /\ ~lost => wk[w].pc \notin WakeHolds
         /\ mlock = None => /\ \A l \in Laters : mv[l].pc \notin MoveHolds
                            /\ ~lost => \A w \in Wakers : wk[w].pc \notin WakeHolds
  BY DEF IInv, MoveInv, WakeInv

(* Mail in Later keeps its timer where nothing more is in Later.           *)
LEMMA BackStill ==
  ASSUME IInv, lost => lost',
         ~lost' => InLater(gmail)' \ adrift' \subseteq InLater(gmail) \ adrift,
         ~lost' /\ timer.until # 0 => timer'.until # 0,
         \A l \in Laters : mv[l].pc = "timer" => mv'[l].pc = "timer" \/ timer'.until # 0
  PROVE  BackInv'
  BY DEF IInv, BackInv, LaterComesBack

(* Steps that change neither the store, the lock, nor the timer's being.   *)
LEMMA Idles ==
  ASSUME IInv, UNCHANGED <<store, mlock, mv, adrift, lost>>, TypeOK',
         timer.until # 0 => timer'.until # 0,
         \A w \in Wakers : wk'[w] = wk[w] \/ WakeInv(w)'
  PROVE  IInv'
<1>1. \A l \in Laters : MoveInv(l)'
  BY MoveStill DEF Kept
<1>2. \A w \in Wakers : WakeInv(w)'
  BY WakeStill DEF Kept
<1>3. BackInv'
  <2>1. InLater(gmail)' = InLater(gmail)
    BY DEF InLater
  <2> QED
    BY <2>1, BackStill
<1> QED
  BY <1>1, <1>2, <1>3 DEF IInv

(* A step of the move l, which has the lock, or finds it free, or leaves   *)
(* all that the lock is about alone.                                       *)
LEMMA MoverOk ==
  ASSUME IInv, NEW l \in Laters, TypeOK',
         \A k \in Laters \ {l} : mv'[k] = mv[k], wk' = wk, lost' = lost,
         \/ mv[l].pc \in MoveHolds
         \/ mlock = None
         \/ Kept /\ (timer.until # 0 => timer'.until # 0),
         MoveInv(l)', BackInv'
  PROVE  IInv'
<1>1. ASSUME NEW k \in Laters \ {l} PROVE MoveInv(k)'
  <2>1. mv[k].pc \in MoveHolds => Kept /\ (timer.until # 0 => timer'.until # 0)
    BY Alone
  <2> QED
    BY <2>1, MoveStill DEF Kept
<1>2. ASSUME NEW w \in Wakers PROVE WakeInv(w)'
  <2>1. wk[w].pc \in WakeHolds /\ ~lost' => Kept
    BY Alone
  <2> QED
    BY <2>1, WakeStill
<1> QED
  BY <1>1, <1>2 DEF IInv

LEMMA TickOk == ASSUME IInv, Tick PROVE IInv'
<1>1. now' \in Times
  BY DEF IInv, TypeOK, Tick, Times
<1>2. TypeOK'
  BY <1>1 DEF IInv, TypeOK, Tick
<1> QED
  BY <1>2, Idles DEF Tick

(* The sync runs when nobody has the lock.                                 *)
LEMMA SyncOk == ASSUME IInv, NEW m \in Messages, Sync(m) PROVE IInv'
<1>1. mirror' \in [Messages -> Places]
  BY DEF IInv, TypeOK, Sync
<1>2. TypeOK'
  BY <1>1 DEF IInv, TypeOK, Sync
<1>3. \A l \in Laters : MoveInv(l)'
  BY Alone, MoveStill DEF Sync
<1>4. \A w \in Wakers : WakeInv(w)'
  BY Alone, WakeStill DEF Sync
<1>5. BackInv'
  <2>1. InLater(gmail)' = InLater(gmail)
    BY DEF InLater, Sync
  <2> QED
    BY <2>1, BackStill DEF Sync
<1> QED
  BY <1>2, <1>3, <1>4, <1>5 DEF IInv

LEMMA LoseLockOk == ASSUME IInv, LoseLock PROVE IInv'
<1>1. TypeOK'
  BY DEF IInv, TypeOK, LoseLock
<1>2. ASSUME NEW l \in Laters PROVE MoveInv(l)'
  <2>1. mv[l].pc \notin MoveHolds
    BY DEF IInv, MoveInv, LoseLock
  <2> QED
    BY <2>1, MoveStill DEF LoseLock
<1>3. lost'
  BY DEF LoseLock
<1> QED
  BY <1>1, <1>2, <1>3 DEF IInv, WakeInv, BackInv, LaterComesBack

-------------------------------------------------------------------------------
(* The moves.                                                              *)

LEMMA ClickOk == ASSUME IInv, NEW l \in Laters, NEW t \in Times, Click(l, t) PROVE IInv'
<1> DEFINE r == [mv[l] EXCEPT !.pc = "queued", !.wake = t]
<1>0. TypeOK /\ mv[l] \in Moves /\ MoveInv(l)
  BY Types DEF IInv
<1>1. r \in Moves /\ r.pc = "queued" /\ r.wake = t /\ r.landed = mv[l].landed
  BY <1>0 DEF Moves, MovePoints
<1>2. mv' = [mv EXCEPT ![l] = r]
  BY <1>0, Types DEF Click
<1> HIDE DEF r
<1>3. mv' \in [Laters -> Moves] /\ mv'[l] = r /\ \A k \in Laters \ {l} : mv'[k] = mv[k]
  BY <1>0, <1>1, <1>2, OneMove
<1>4. TypeOK'
  BY <1>0, <1>3 DEF TypeOK, Click
<1>5. MoveInv(l)'
  <2>1. t # 0
    BY <1>0 DEF Click, TypeOK, Times
  <2> QED
    BY <1>0, <1>1, <1>3, <2>1 DEF MoveInv, MoveHolds, Click
<1>6. BackInv'
  <2>1. InLater(gmail)' = InLater(gmail)
    BY DEF InLater, Click
  <2>2. \A k \in Laters : mv[k].pc = "timer" => mv'[k].pc = "timer"
    BY <1>3 DEF Click
  <2> QED
    BY <2>1, <2>2, BackStill DEF Click
<1> QED
  BY <1>3, <1>4, <1>5, <1>6, MoverOk DEF Click, Kept

LEMMA MoveStartOk == ASSUME IInv, NEW l \in Laters, MoveStart(l) PROVE IInv'
<1> DEFINE ids == {m \in Messages : mirror[m] = "inbox"}
           r == [mv[l] EXCEPT !.pc = IF ids = {} THEN "done" ELSE "send", !.ids = ids, !.todo = ids]
<1>0. TypeOK /\ mv[l] \in Moves /\ MoveInv(l)
  BY Types DEF IInv
<1>1. /\ r \in Moves /\ r.pc = (IF ids = {} THEN "done" ELSE "send")
      /\ r.wake = mv[l].wake /\ r.landed = mv[l].landed
  BY <1>0 DEF Moves, MovePoints
<1>2. mv' = [mv EXCEPT ![l] = r] /\ mlock' = IF ids = {} THEN None ELSE l
  BY <1>0, Types DEF MoveStart
<1> HIDE DEF r, ids
<1>3. mv' \in [Laters -> Moves] /\ mv'[l] = r /\ \A k \in Laters \ {l} : mv'[k] = mv[k]
  BY <1>0, <1>1, <1>2, OneMove
<1>4. TypeOK'
  BY <1>0, <1>2, <1>3 DEF TypeOK, MoveStart
<1>5. MoveInv(l)'
  BY <1>0, <1>1, <1>2, <1>3 DEF MoveInv, MoveHolds, MoveStart
<1>6. BackInv'
  <2>1. InLater(gmail)' = InLater(gmail)
    BY DEF InLater, MoveStart
  <2>2. \A k \in Laters : mv[k].pc = "timer" => mv'[k].pc = "timer"
    BY <1>3 DEF MoveStart
  <2> QED
    BY <2>1, <2>2, BackStill DEF MoveStart
<1> QED
  BY <1>3, <1>4, <1>5, <1>6, MoverOk DEF MoveStart

(* The step of a move after which it has the record r.                     *)
Becomes(l, r) ==
  /\ mv' \in [Laters -> Moves] /\ mv'[l] = r
  /\ \A k \in Laters \ {l} : mv'[k] = mv[k]

(* A first request that lands is about to set the timer; a later one finds *)
(* it set.                                                                 *)
LEMMA MoveLandsOk ==
  ASSUME IInv, NEW l \in Laters, NEW m \in Messages, MoveLands(l, m) PROVE IInv'
<1> DEFINE pc == IF ~mv[l].landed THEN "timer"
                 ELSE IF mv[l].todo = {m} THEN "commit" ELSE "send"
           r == [mv[l] EXCEPT !.todo = @ \ {m}, !.landed = TRUE, !.pc = pc]
<1>0. TypeOK /\ mv[l] \in Moves /\ MoveInv(l)
  BY Types DEF IInv
<1>1. /\ r \in Moves /\ r.pc = pc /\ r.wake = mv[l].wake
      /\ pc \in {"timer", "commit", "send"} /\ (pc # "timer" => mv[l].landed)
  BY <1>0 DEF Moves, MovePoints
<1>2. mv' = [mv EXCEPT ![l] = r]
  BY <1>0, Types DEF MoveLands
<1> HIDE DEF r, pc
<1>3. Becomes(l, r)
  BY <1>0, <1>1, <1>2, OneMove DEF Becomes
<1>4. TypeOK'
  <2>1. gmail' \in [Messages -> Places] /\ adrift' \subseteq Messages
    BY <1>0 DEF TypeOK, MoveLands, Places
  <2> QED
    BY <1>0, <1>3, <2>1 DEF TypeOK, MoveLands, Becomes
<1>5. MoveInv(l)'
  BY <1>0, <1>1, <1>3 DEF MoveInv, MoveHolds, MoveLands, Becomes
<1>6. BackInv'
  <2>1. CASE pc = "timer"
    BY <1>1, <1>3, <2>1 DEF BackInv, LaterComesBack, Becomes
  <2>2. CASE pc # "timer"
    BY <1>0, <1>1, <2>2 DEF BackInv, LaterComesBack, MoveInv, MoveLands
  <2> QED
    BY <2>1, <2>2
<1> QED
  BY <1>3, <1>4, <1>5, <1>6, MoverOk DEF MoveLands, MoveHolds, Becomes

(* Where a timer is asked for there is one.                                *)
LEMMA Schedules ==
  ASSUME TypeOK, NEW l \in Laters, ScheduleLaterReturn(l), mv[l].wake # 0
  PROVE  timer' \in Timers /\ stamps' \in Nat /\ timer'.until # 0
<1>1. timer'.until # 0
  BY DEF ScheduleLaterReturn, NewTimer
<1> QED
  BY <1>1, ScheduleType

LEMMA MoveTimerOk == ASSUME IInv, NEW l \in Laters, MoveTimer(l) PROVE IInv'
<1> DEFINE pc == IF mv[l].todo = {} THEN "commit" ELSE "send"
           r == [mv[l] EXCEPT !.pc = pc]
<1>0. TypeOK /\ mv[l] \in Moves /\ MoveInv(l)
  BY Types DEF IInv
<1>1. r \in Moves /\ r.pc = pc /\ r.wake = mv[l].wake /\ pc \in {"commit", "send"}
  BY <1>0 DEF Moves, MovePoints
<1>2. mv' = [mv EXCEPT ![l] = r]
  BY <1>0, Types DEF MoveTimer
<1> HIDE DEF r, pc
<1>3. Becomes(l, r)
  BY <1>0, <1>1, <1>2, OneMove DEF Becomes
<1>4. timer' \in Timers /\ stamps' \in Nat /\ timer'.until # 0
  BY <1>0, Schedules DEF MoveTimer, MoveInv
<1>5. TypeOK'
  BY <1>0, <1>3, <1>4 DEF TypeOK, MoveTimer, Becomes
<1>6. MoveInv(l)'
  BY <1>0, <1>1, <1>3, <1>4 DEF MoveInv, MoveHolds, MoveTimer, Becomes
<1>7. BackInv'
  BY <1>4 DEF BackInv, LaterComesBack
<1> QED
  BY <1>3, <1>5, <1>6, <1>7, MoverOk DEF MoveTimer, MoveHolds, Becomes

LEMMA MoveCommitOk == ASSUME IInv, NEW l \in Laters, MoveCommit(l) PROVE IInv'
<1> DEFINE r == [mv[l] EXCEPT !.pc = "done", !.landed = FALSE]
<1>0. TypeOK /\ mv[l] \in Moves /\ MoveInv(l)
  BY Types DEF IInv
<1>1. r \in Moves /\ r.pc = "done" /\ r.wake = mv[l].wake
  BY <1>0 DEF Moves, MovePoints
<1>2. mv' = [mv EXCEPT ![l] = r]
  BY <1>0, Types DEF MoveCommit
<1> HIDE DEF r
<1>3. Becomes(l, r)
  BY <1>0, <1>1, <1>2, OneMove DEF Becomes
<1>4. timer' \in Timers /\ stamps' \in Nat /\ timer'.until # 0
  BY <1>0, Schedules DEF MoveCommit, MoveInv
<1>5. TypeOK'
  <2>1. mirror' \in [Messages -> Places]
    BY <1>0, PutType DEF MoveCommit, TypeOK, Places
  <2>2. mlock' \in Laters \cup Wakers \cup {None}
    BY <1>0, ReleaseType DEF MoveCommit
  <2> QED
    BY <1>0, <1>3, <1>4, <2>1, <2>2 DEF TypeOK, MoveCommit, Becomes
<1>6. MoveInv(l)'
  BY <1>0, <1>1, <1>3 DEF MoveInv, MoveHolds, MoveCommit, Becomes
<1>7. BackInv'
  BY <1>4 DEF BackInv, LaterComesBack
<1> QED
  BY <1>3, <1>5, <1>6, <1>7, MoverOk DEF MoveCommit, MoveHolds, Becomes

(* What stops after its first request leaves its timer behind.             *)
LEMMA MoveStopsOk == ASSUME IInv, NEW l \in Laters, MoveStops(l) PROVE IInv'
<1> DEFINE r == [mv[l] EXCEPT !.pc = "stopped", !.todo = {}, !.landed = FALSE]
<1>0. TypeOK /\ mv[l] \in Moves /\ MoveInv(l)
  BY Types DEF IInv
<1>1. r \in Moves /\ r.pc = "stopped" /\ r.wake = mv[l].wake
  BY <1>0 DEF Moves, MovePoints
<1>2. mv' = [mv EXCEPT ![l] = r]
  BY <1>0, Types DEF MoveStops
<1> HIDE DEF r
<1>3. Becomes(l, r)
  BY <1>0, <1>1, <1>2, OneMove DEF Becomes
<1>4. TypeOK'
  <2>1. mlock' \in Laters \cup Wakers \cup {None} /\ faults' \in Nat /\ edits' \in Nat
    BY <1>0, ReleaseType, FaultType DEF MoveStops
  <2> QED
    BY <1>0, <1>3, <2>1 DEF TypeOK, MoveStops, Becomes
<1>5. MoveInv(l)'
  BY <1>0, <1>1, <1>3 DEF MoveInv, MoveHolds, MoveStops, Becomes
<1>6. BackInv'
  <2>1. InLater(gmail)' = InLater(gmail)
    BY DEF InLater, MoveStops
  <2>2. \A k \in Laters : mv[k].pc = "timer" => mv'[k].pc = "timer"
    BY <1>3 DEF MoveStops, Becomes
  <2> QED
    BY <2>1, <2>2, BackStill DEF MoveStops
<1> QED
  BY <1>3, <1>4, <1>5, <1>6, MoverOk DEF MoveStops, MoveHolds, Becomes

(* A first request in doubt sets its message adrift; a later one has its   *)
(* timer.                                                                  *)
LEMMA MoveUncertainOk ==
  ASSUME IInv, NEW l \in Laters, NEW m \in Messages, MoveUncertain(l, m) PROVE IInv'
<1> DEFINE r == [mv[l] EXCEPT !.pc = "stopped", !.todo = {}, !.landed = FALSE]
<1>0. TypeOK /\ mv[l] \in Moves /\ MoveInv(l)
  BY Types DEF IInv
<1>1. r \in Moves /\ r.pc = "stopped" /\ r.wake = mv[l].wake
  BY <1>0 DEF Moves, MovePoints
<1>2. mv' = [mv EXCEPT ![l] = r]
  BY <1>0, Types DEF MoveUncertain
<1> HIDE DEF r
<1>3. Becomes(l, r)
  BY <1>0, <1>1, <1>2, OneMove DEF Becomes
<1>4. TypeOK'
  <2>1. mlock' \in Laters \cup Wakers \cup {None} /\ faults' \in Nat /\ edits' \in Nat
    BY <1>0, ReleaseType, FaultType DEF MoveUncertain
  <2>2. gmail' \in [Messages -> Places] /\ adrift' \subseteq Messages
    BY <1>0 DEF TypeOK, MoveUncertain, Places
  <2> QED
    BY <1>0, <1>3, <2>1, <2>2 DEF TypeOK, MoveUncertain, Becomes
<1>5. MoveInv(l)'
  BY <1>0, <1>1, <1>3 DEF MoveInv, MoveHolds, MoveUncertain, Becomes
<1>6. BackInv'
  <2>1. CASE mv[l].landed
    BY <1>0, <2>1 DEF BackInv, LaterComesBack, MoveInv, MoveUncertain
  <2>2. CASE ~mv[l].landed
    <3>1. InLater(gmail)' \ adrift' \subseteq InLater(gmail) \ adrift
      BY <1>0, <2>2, Types DEF MoveUncertain, InLater
    <3>2. \A k \in Laters : mv[k].pc = "timer" => mv'[k].pc = "timer"
      BY <1>3 DEF MoveUncertain, Becomes
    <3> QED
      BY <3>1, <3>2, BackStill DEF MoveUncertain
  <2> QED
    BY <2>1, <2>2
<1> QED
  BY <1>3, <1>4, <1>5, <1>6, MoverOk DEF MoveUncertain, MoveHolds, Becomes

LEMMA UndoClickOk == ASSUME IInv, NEW l \in Laters, UndoClick(l) PROVE IInv'
<1> DEFINE r == [mv[l] EXCEPT !.pc = "undo"]
<1>0. TypeOK /\ mv[l] \in Moves /\ MoveInv(l)
  BY Types DEF IInv
<1>1. r \in Moves /\ r.pc = "undo" /\ r.wake = mv[l].wake
  BY <1>0 DEF Moves, MovePoints
<1>2. mv' = [mv EXCEPT ![l] = r]
  BY <1>0, Types DEF UndoClick
<1> HIDE DEF r
<1>3. Becomes(l, r)
  BY <1>0, <1>1, <1>2, OneMove DEF Becomes
<1>4. TypeOK'
  BY <1>0, <1>3, EditType DEF TypeOK, UndoClick, Becomes
<1>5. MoveInv(l)'
  BY <1>0, <1>1, <1>3 DEF MoveInv, MoveHolds, UndoClick, Becomes
<1>6. BackInv'
  <2>1. InLater(gmail)' = InLater(gmail)
    BY DEF InLater, UndoClick
  <2>2. \A k \in Laters : mv[k].pc = "timer" => mv'[k].pc = "timer"
    BY <1>3 DEF UndoClick, Becomes
  <2> QED
    BY <2>1, <2>2, BackStill DEF UndoClick
<1> QED
  BY <1>3, <1>4, <1>5, <1>6, MoverOk DEF UndoClick, Kept, Becomes

LEMMA UndoStartOk == ASSUME IInv, NEW l \in Laters, UndoStart(l) PROVE IInv'
<1> DEFINE r == [mv[l] EXCEPT !.pc = "revsend"]
<1>0. TypeOK /\ mv[l] \in Moves /\ MoveInv(l)
  BY Types DEF IInv
<1>1. r \in Moves /\ r.pc = "revsend" /\ r.wake = mv[l].wake
  BY <1>0 DEF Moves, MovePoints
<1>2. mv' = [mv EXCEPT ![l] = r]
  BY <1>0, Types DEF UndoStart
<1> HIDE DEF r
<1>3. Becomes(l, r)
  BY <1>0, <1>1, <1>2, OneMove DEF Becomes
<1>4. TypeOK'
  BY <1>0, <1>3 DEF TypeOK, UndoStart, Becomes
<1>s. InLater(gmail)' = InLater(gmail) /\ InLater(mirror)' = InLater(mirror)
  BY DEF InLater, UndoStart
<1>5. MoveInv(l)'
  BY <1>0, <1>1, <1>3, <1>s DEF MoveInv, MoveHolds, UndoStart, Becomes, Caught
<1>6. BackInv'
  <2>1. \A k \in Laters : mv[k].pc = "timer" => mv'[k].pc = "timer"
    BY <1>3 DEF UndoStart, Becomes
  <2> QED
    BY <1>s, <2>1, BackStill DEF UndoStart
<1> QED
  BY <1>3, <1>4, <1>5, <1>6, MoverOk DEF UndoStart, Becomes

(* What a Move puts back in the inbox is not in Later.                     *)
LEMMA PutBack ==
  ASSUME NEW f, NEW ids
  PROVE  InLater(Move(f, ids, "inbox")) = InLater(f) \ ids
  BY DEF InLater, Move

LEMMA UndoSendOk == ASSUME IInv, NEW l \in Laters, UndoSend(l) PROVE IInv'
<1> DEFINE r == [mv[l] EXCEPT !.pc = "revcommit"]
<1>0. TypeOK /\ mv[l] \in Moves /\ MoveInv(l)
  BY Types DEF IInv
<1>1. r \in Moves /\ r.pc = "revcommit" /\ r.wake = mv[l].wake /\ r.ids = mv[l].ids
  BY <1>0 DEF Moves, MovePoints
<1>2. mv' = [mv EXCEPT ![l] = r]
  BY <1>0, Types DEF UndoSend
<1> HIDE DEF r
<1>3. Becomes(l, r)
  BY <1>0, <1>1, <1>2, OneMove DEF Becomes
<1>4. TypeOK'
  <2>1. gmail' \in [Messages -> Places]
    BY <1>0, PutType DEF UndoSend, TypeOK, Places
  <2> QED
    BY <1>0, <1>3, <2>1 DEF TypeOK, UndoSend, Becomes
<1>s. InLater(gmail)' = InLater(gmail) \ mv[l].ids /\ InLater(mirror)' = InLater(mirror)
  <2>1. InLater(Move(gmail, mv[l].ids, "inbox")) = InLater(gmail) \ mv[l].ids
    BY PutBack
  <2> QED
    BY <2>1 DEF InLater, UndoSend
<1>5. MoveInv(l)'
  BY <1>0, <1>1, <1>3, <1>s DEF MoveInv, MoveHolds, UndoSend, Becomes
<1>6. BackInv'
  <2>1. \A k \in Laters : mv[k].pc = "timer" => mv'[k].pc = "timer"
    BY <1>3 DEF UndoSend, Becomes
  <2> QED
    BY <1>s, <2>1, BackStill DEF UndoSend
<1> QED
  BY <1>3, <1>4, <1>5, <1>6, MoverOk DEF UndoSend, MoveHolds, Becomes

(* An Undo that ends the timer leaves nothing in Later, in the mirror or   *)
(* in Gmail.                                                               *)
LEMMA UndoCommitOk == ASSUME IInv, NEW l \in Laters, UndoCommit(l) PROVE IInv'
<1> DEFINE r == [mv[l] EXCEPT !.pc = "undone"]
<1>0. TypeOK /\ mv[l] \in Moves /\ MoveInv(l)
  BY Types DEF IInv
<1>1. r \in Moves /\ r.pc = "undone" /\ r.wake = mv[l].wake
  BY <1>0 DEF Moves, MovePoints
<1>2. mv' = [mv EXCEPT ![l] = r]
  BY <1>0, Types DEF UndoCommit
<1> HIDE DEF r
<1>3. Becomes(l, r)
  BY <1>0, <1>1, <1>2, OneMove DEF Becomes
<1>4. TypeOK'
  <2>1. mirror' \in [Messages -> Places] /\ timer' \in Timers
    BY <1>0, PutType, NoTimerType DEF UndoCommit, TypeOK, Places
  <2>2. mlock' \in Laters \cup Wakers \cup {None}
    BY <1>0, ReleaseType DEF UndoCommit
  <2> QED
    BY <1>0, <1>3, <2>1, <2>2 DEF TypeOK, UndoCommit, Becomes
<1>5. MoveInv(l)'
  BY <1>0, <1>1, <1>3 DEF MoveInv, MoveHolds, UndoCommit, Becomes
<1>6. BackInv'
  <2>1. InLater(gmail)' = InLater(gmail)
    BY DEF InLater, UndoCommit
  <2>2. \A k \in Laters : mv[k].pc = "timer" => mv'[k].pc = "timer"
    BY <1>3 DEF UndoCommit, Becomes
  <2>3. CASE ~UndoCancels(l)
    BY <2>1, <2>2, <2>3, BackStill DEF UndoCommit
  <2>4. CASE UndoCancels(l)
    <3>1. InLater(mirror) \subseteq mv[l].ids
      BY <2>4, PutBack DEF UndoCancels
    <3>2. PromptSync /\ ~lost => InLater(gmail) = {}
      BY <1>0, <3>1 DEF MoveInv, UndoCommit
    <3> QED
      BY <2>1, <3>2 DEF BackInv, LaterComesBack, UndoCommit
  <2> QED
    BY <2>3, <2>4
<1> QED
  BY <1>3, <1>4, <1>5, <1>6, MoverOk DEF UndoCommit, MoveHolds, Becomes

-------------------------------------------------------------------------------
(* SnoozeService.                                                          *)

LEMMA SetSnoozeOk == ASSUME IInv, NEW t \in Times, SetSnooze(t) PROVE IInv'
<1>0. TypeOK
  BY DEF IInv
<1>1. timer' \in Timers /\ stamps' \in Nat /\ faults' \in Nat /\ edits' \in Nat
  BY <1>0, NewTimerType, EditType DEF SetSnooze
<1>2. timer'.until # 0
  BY <1>0 DEF SetSnooze, NewTimer, TypeOK, Times
<1>3. TypeOK'
  BY <1>0, <1>1 DEF TypeOK, SetSnooze
<1> QED
  BY <1>2, <1>3, Idles DEF SetSnooze

LEMMA EnqueueWakeOk ==
  ASSUME IInv, NEW c \in Clicks, WakeNow(c) \/ WakeRecovery(c) PROVE IInv'
<1> DEFINE r == [NoWakeJob EXCEPT !.state = "waiting", !.until = timer.until, !.at = timer.at]
<1>0. TypeOK /\ EnqueueWake(c)
  BY DEF IInv, WakeNow, WakeRecovery
<1>1. r \in WakeJobs
  <2>1. timer.until \in Times /\ timer.at \in Nat
    BY <1>0, Types DEF Timers
  <2> QED
    BY <2>1 DEF WakeJobs, NoWakeJob
<1>2. job' = [job EXCEPT ![c] = r]
  BY <1>0 DEF EnqueueWake
<1> HIDE DEF r
<1>3. TypeOK'
  <2>1. job' \in [Clicks -> WakeJobs]
    BY <1>0, <1>1, <1>2, Types
  <2> QED
    BY <1>0, <2>1, EditType DEF TypeOK, EnqueueWake
<1> QED
  BY <1>0, <1>3, Idles DEF EnqueueWake

-------------------------------------------------------------------------------
(* The wake workers.                                                       *)

WorksOn(w, t) ==
  /\ wk' \in [Wakers -> WakerStates] /\ wk'[w] = t
  /\ \A v \in Wakers \ {w} : wk'[v] = wk[v]

(* A step of the worker w, which has the lock or lost it, or finds it      *)
(* free, or leaves all that the lock is about alone.                       *)
LEMMA WakerOk ==
  ASSUME IInv, NEW w \in Wakers, NEW t, TypeOK', WorksOn(w, t), mv' = mv, lost' = lost,
         mlock \in Laters => mlock' = mlock,
         \/ wk[w].pc \in WakeHolds
         \/ mlock = None
         \/ /\ gmail' = gmail /\ mirror' = mirror /\ (mlock' = mlock \/ mlock = w)
            /\ timer.until # 0 => timer'.until # 0,
         WakeInv(w)', BackInv'
  PROVE  IInv'
<1>1. ASSUME NEW l \in Laters PROVE MoveInv(l)'
  <2>1. mv[l].pc \in MoveHolds => mlock = l
    BY DEF IInv, MoveInv
  <2>2. mv[l].pc \in MoveHolds /\ ~lost' => Kept /\ (timer.until # 0 => timer'.until # 0)
    <3>1. CASE wk[w].pc \in WakeHolds \/ mlock = None
      BY <3>1, Alone
    <3>2. CASE ~(wk[w].pc \in WakeHolds \/ mlock = None)
      BY <2>1, <3>2 DEF Kept
    <3> QED
      BY <3>1, <3>2
  <2> QED
    BY <2>1, <2>2, MoveStill
<1>2. ASSUME NEW v \in Wakers \ {w} PROVE WakeInv(v)'
  <2>1. wk[v].pc \in WakeHolds /\ ~lost' => Kept
    <3>1. CASE wk[w].pc \in WakeHolds \/ mlock = None
      BY <3>1, Alone
    <3>2. CASE ~(wk[w].pc \in WakeHolds \/ mlock = None)
      <4>1. wk[v].pc \in WakeHolds /\ ~lost' => mlock = v
        BY DEF IInv, WakeInv
      <4> QED
        BY <3>2, <4>1 DEF Kept
    <3> QED
      BY <3>1, <3>2
  <2> QED
    BY <2>1, WakeStill DEF WorksOn
<1> QED
  BY <1>1, <1>2 DEF IInv

(* How a run ends.                                                         *)
LEMMA Ends ==
  ASSUME TypeOK, NEW w \in Wakers, NEW err, EndRun(w, err)
  PROVE  job' \in [Clicks -> WakeJobs] /\ WorksOn(w, IdleWaker)
<1>1. WorksOn(w, IdleWaker)
  BY IdleTypes, OneWaker DEF EndRun, WorksOn
<1>2. CASE wk[w].job = None
  BY <1>1, <1>2, Types DEF EndRun
<1>3. CASE wk[w].job # None
  <2> DEFINE c == wk[w].job
             s == CASE err = "none" -> "completed"
                    [] err \in {"PermanentError", "InvalidGrantError"} -> "failed"
                    [] OTHER -> IF job[c].made + 1 >= MaxAttempts THEN "failed" ELSE "waiting"
             n == IF err = "none" THEN job[c].made ELSE job[c].made + 1
             r == [job[c] EXCEPT !.made = n, !.state = s]
  <2>1. c \in Clicks /\ job[c] \in WakeJobs
    BY <1>3, Types DEF WakerStates
  <2>2. s \in {"completed", "failed", "waiting"}
    <3>1. CASE err = "none"
      BY <3>1
    <3>2. CASE err # "none" /\ err \in {"PermanentError", "InvalidGrantError"}
      BY <3>2
    <3>3. CASE err # "none" /\ err \notin {"PermanentError", "InvalidGrantError"}
      BY <3>3
    <3> QED
      BY <3>1, <3>2, <3>3
  <2>3. n \in Nat
    BY <2>1 DEF WakeJobs
  <2>4. job' = [job EXCEPT ![c] = [job[c] EXCEPT !.made = n, !.state = s]]
    BY <1>3, <2>1, Types DEF EndRun
  <2> HIDE DEF s, n
  <2>5. r \in WakeJobs
    BY <2>1, <2>2, <2>3 DEF WakeJobs
  <2> HIDE DEF r
  <2>6. job' \in [Clicks -> WakeJobs]
    BY <2>1, <2>4, <2>5, Types DEF r
  <2> QED
    BY <1>1, <2>6
<1> QED
  BY <1>2, <1>3

(* How a run fails: it records the failure first, with its lock, or ends.  *)
LEMMA Throws ==
  ASSUME TypeOK, NEW w \in Wakers, NEW e \in Errors, WakeThrows(w, e)
  PROVE  \E t \in WakerStates :
           /\ WorksOn(w, t) /\ job' \in [Clicks -> WakeJobs]
           /\ \/ t.pc = "record" /\ mlock' = mlock
              \/ t = IdleWaker /\ Release(w)
<1>1. CASE EndRun(w, e) /\ Release(w)
  BY <1>1, Ends, IdleTypes
<1>2. CASE /\ wk' = [wk EXCEPT ![w].pc = "record", ![w].err = e]
           /\ UNCHANGED <<mlock, job>>
  <2> DEFINE t == [wk[w] EXCEPT !.pc = "record", !.err = e]
  <2>1. wk' = [wk EXCEPT ![w] = t]
    BY <1>2, Types
  <2>2. t \in WakerStates /\ t.pc = "record"
    BY Types DEF WakerStates, WakePoints
  <2> HIDE DEF t
  <2>3. WorksOn(w, t)
    BY <2>1, <2>2, OneWaker DEF WorksOn
  <2> QED
    BY <1>2, <2>2, <2>3, Types
<1> QED
  BY <1>1, <1>2 DEF WakeThrows

(* A step after which the worker is idle, or only records, and that moves  *)
(* nothing into Later and ends no timer.                                   *)
LEMMA GivesUp ==
  ASSUME IInv, NEW w \in Wakers, NEW t, TypeOK', WorksOn(w, t), mv' = mv,
         lost' = lost, adrift' = adrift,
         InLater(gmail)' \subseteq InLater(gmail),
         timer.until # 0 => timer'.until # 0,
         \/ t.pc = "record" /\ mlock' = mlock /\ wk[w].pc \in WakeHolds
         \/ /\ t.pc = "idle" /\ Release(w)
            /\ wk[w].pc \notin WakeHolds => gmail' = gmail /\ mirror' = mirror
         \/ t.pc = "idle" /\ Kept
  PROVE  IInv'
<1>1. WakeInv(w)'
  <2>1. WakeInv(w)
    BY DEF IInv
  <2> QED
    BY <2>1 DEF WakeInv, WorksOn, WakeHolds
<1>2. mlock \in Laters => mlock' = mlock
  BY DEF Release, Kept
<1>3. BackInv'
  BY BackStill
<1>4. \/ wk[w].pc \in WakeHolds
      \/ /\ gmail' = gmail /\ mirror' = mirror /\ (mlock' = mlock \/ mlock = w)
         /\ timer.until # 0 => timer'.until # 0
  BY DEF Kept, Release
<1> QED
  BY <1>1, <1>2, <1>3, <1>4, WakerOk

LEMMA SweepStartOk == ASSUME IInv, NEW w \in Wakers, SweepStart(w) PROVE IInv'
<1> DEFINE t == [IdleWaker EXCEPT !.pc = "lock", !.until = timer.until, !.at = timer.at]
<1>0. TypeOK
  BY DEF IInv
<1>1. t \in WakerStates /\ t.pc = "lock"
  <2>1. timer.until \in Times /\ timer.at \in Nat
    BY <1>0, Types DEF Timers
  <2> QED
    BY <2>1, IdleTypes DEF WakerStates, WakePoints
<1>2. wk' = [wk EXCEPT ![w] = t]
  BY DEF SweepStart
<1> HIDE DEF t
<1>3. WorksOn(w, t)
  BY <1>0, <1>1, <1>2, OneWaker DEF WorksOn
<1>4. TypeOK'
  BY <1>0, <1>3 DEF TypeOK, SweepStart, WorksOn
<1>5. \A v \in Wakers : wk'[v] = wk[v] \/ WakeInv(v)'
  BY <1>1, <1>3 DEF WorksOn, WakeInv, WakeHolds
<1> QED
  BY <1>4, <1>5, Idles DEF SweepStart

LEMMA JobStartOk == ASSUME IInv, NEW w \in Wakers, NEW c \in Clicks, JobStart(w, c) PROVE IInv'
<1> DEFINE t == [IdleWaker EXCEPT !.pc = "lock", !.job = c, !.until = job[c].until, !.at = job[c].at]
           r == [job[c] EXCEPT !.state = "active"]
<1>0. TypeOK
  BY DEF IInv
<1>1. t \in WakerStates /\ t.pc = "lock" /\ r \in WakeJobs
  <2>1. job[c] \in WakeJobs
    BY <1>0, Types
  <2> QED
    BY <2>1, IdleTypes DEF WakerStates, WakePoints, WakeJobs
<1>2. wk' = [wk EXCEPT ![w] = t] /\ job' = [job EXCEPT ![c] = r]
  BY DEF JobStart
<1> HIDE DEF t, r
<1>3. WorksOn(w, t) /\ job' \in [Clicks -> WakeJobs]
  BY <1>0, <1>1, <1>2, OneWaker, Types DEF WorksOn
<1>4. TypeOK'
  BY <1>0, <1>3 DEF TypeOK, JobStart, WorksOn
<1>5. \A v \in Wakers : wk'[v] = wk[v] \/ WakeInv(v)'
  BY <1>1, <1>3 DEF WorksOn, WakeInv, WakeHolds
<1> QED
  BY <1>4, <1>5, Idles DEF JobStart

(* The lock is taken when the mirror knows of all that is in Later.        *)
LEMMA AcquireOk == ASSUME IInv, NEW w \in Wakers, Acquire(w) PROVE IInv'
<1> DEFINE t == [wk[w] EXCEPT !.pc = "claim"]
<1>0. TypeOK /\ wk[w] \in WakerStates
  BY Types DEF IInv
<1>1. t \in WakerStates /\ t.pc = "claim"
  BY <1>0 DEF WakerStates, WakePoints
<1>2. wk' = [wk EXCEPT ![w] = t]
  BY <1>0, Types DEF Acquire
<1> HIDE DEF t
<1>3. WorksOn(w, t)
  BY <1>0, <1>1, <1>2, OneWaker DEF WorksOn
<1>4. TypeOK'
  BY <1>0, <1>3 DEF TypeOK, Acquire, WorksOn
<1>s. InLater(gmail)' = InLater(gmail) /\ InLater(mirror)' = InLater(mirror)
  BY DEF InLater, Acquire
<1>5. WakeInv(w)'
  BY <1>1, <1>3, <1>s DEF WorksOn, WakeInv, Acquire, Caught
<1>6. BackInv'
  BY <1>s, BackStill DEF Acquire
<1> QED
  BY <1>3, <1>4, <1>5, <1>6, WakerOk DEF Acquire

LEMMA LockTimesOutOk == ASSUME IInv, NEW w \in Wakers, LockTimesOut(w) PROVE IInv'
<1>0. TypeOK
  BY DEF IInv
<1>1. WorksOn(w, IdleWaker) /\ job' \in [Clicks -> WakeJobs] /\ faults' \in Nat /\ edits' \in Nat
  BY <1>0, Ends, FaultType DEF LockTimesOut
<1>2. TypeOK'
  BY <1>0, <1>1 DEF TypeOK, LockTimesOut, WorksOn
<1>3. IdleWaker.pc = "idle" /\ InLater(gmail)' = InLater(gmail) /\ Kept
  BY DEF IdleWaker, InLater, LockTimesOut, Kept
<1> QED
  BY <1>1, <1>2, <1>3, GivesUp DEF LockTimesOut

LEMMA ClaimOk == ASSUME IInv, NEW w \in Wakers, Claim(w) PROVE IInv'
<1>0. TypeOK /\ wk[w] \in WakerStates /\ WakeInv(w)
  BY Types DEF IInv
<1>s. InLater(gmail)' = InLater(gmail) /\ InLater(mirror)' = InLater(mirror)
  BY DEF InLater, Claim
<1>1. CASE Pinned(w)
  <2> DEFINE t == [wk[w] EXCEPT !.pc = "client"]
  <2>1. t \in WakerStates /\ t.pc = "client"
    BY <1>0 DEF WakerStates, WakePoints
  <2>2. wk' = [wk EXCEPT ![w] = t] /\ UNCHANGED <<mlock, job>>
    BY <1>0, <1>1, Types DEF Claim
  <2> HIDE DEF t
  <2>3. WorksOn(w, t)
    BY <1>0, <2>1, <2>2, OneWaker DEF WorksOn
  <2>4. TypeOK'
    BY <1>0, <2>2, <2>3 DEF TypeOK, Claim, WorksOn
  <2>5. WakeInv(w)'
    BY <1>0, <1>s, <2>1, <2>2, <2>3 DEF WorksOn, WakeInv, Claim, WakeHolds
  <2>6. BackInv'
    BY <1>s, BackStill DEF Claim
  <2> QED
    BY <2>2, <2>3, <2>4, <2>5, <2>6, WakerOk DEF Claim, WakeHolds
<1>2. CASE ~Pinned(w)
  <2>1. EndRun(w, "none") /\ Release(w)
    BY <1>2 DEF Claim
  <2>2. WorksOn(w, IdleWaker) /\ job' \in [Clicks -> WakeJobs]
    BY <1>0, <2>1, Ends
  <2>3. TypeOK'
    BY <1>0, <2>1, <2>2, ReleaseType DEF TypeOK, Claim, WorksOn
  <2>4. IdleWaker.pc = "idle"
    BY DEF IdleWaker
  <2> QED
    BY <1>s, <2>1, <2>2, <2>3, <2>4, GivesUp DEF Claim, WakeHolds
<1> QED
  BY <1>1, <1>2

(* The restore set is all the mirror knows to be in Later.                 *)
LEMMA RestoreOk == ASSUME IInv, NEW w \in Wakers, Restore(w) PROVE IInv'
<1> DEFINE set == InLater(mirror)
           pc == IF set = {} THEN "commit" ELSE "send"
           t == [wk[w] EXCEPT !.ids = set, !.pc = pc]
<1>0. TypeOK /\ wk[w] \in WakerStates /\ WakeInv(w)
  BY Types DEF IInv
<1>1. t \in WakerStates /\ t.pc = pc /\ t.ids = set /\ pc \in {"commit", "send"}
  <2>1. set \subseteq Messages
    BY DEF InLater
  <2> QED
    BY <1>0, <2>1 DEF WakerStates, WakePoints
<1>2. wk' = [wk EXCEPT ![w] = t]
  BY <1>0, Types DEF Restore
<1>p. pc = "commit" => set = {}
  OBVIOUS
<1>m. set = InLater(mirror)
  OBVIOUS
<1> HIDE DEF t, pc, set
<1>3. WorksOn(w, t)
  BY <1>0, <1>1, <1>2, OneWaker DEF WorksOn
<1>4. TypeOK'
  BY <1>0, <1>3 DEF TypeOK, Restore, WorksOn
<1>s. InLater(gmail)' = InLater(gmail)
  BY DEF InLater, Restore
<1>5. WakeInv(w)'
  BY <1>0, <1>1, <1>3, <1>p, <1>m, <1>s DEF WorksOn, WakeInv, Restore, WakeHolds
<1>6. BackInv'
  BY <1>s, BackStill DEF Restore
<1> QED
  BY <1>3, <1>4, <1>5, <1>6, WakerOk DEF Restore, WakeHolds

LEMMA ClientFailsOk == ASSUME IInv, NEW w \in Wakers, ClientFails(w) PROVE IInv'
<1>0. TypeOK
  BY DEF IInv
<1>1. PICK e \in Errors : WakeThrows(w, e)
  BY DEF ClientFails
<1>2. PICK t \in WakerStates :
        /\ WorksOn(w, t) /\ job' \in [Clicks -> WakeJobs]
        /\ (t.pc = "record" /\ mlock' = mlock) \/ (t = IdleWaker /\ Release(w))
  BY <1>0, <1>1, Throws
<1>3. TypeOK'
  BY <1>0, <1>2, ReleaseType, FaultType DEF TypeOK, ClientFails, WorksOn
<1>4. t = IdleWaker => t.pc = "idle"
  BY DEF IdleWaker
<1>5. InLater(gmail)' = InLater(gmail)
  BY DEF InLater, ClientFails
<1> QED
  BY <1>2, <1>3, <1>4, <1>5, GivesUp DEF ClientFails, WakeHolds

LEMMA WakeSendOk == ASSUME IInv, NEW w \in Wakers, WakeSend(w) PROVE IInv'
<1> DEFINE t == [wk[w] EXCEPT !.pc = "commit"]
<1>0. TypeOK /\ wk[w] \in WakerStates /\ WakeInv(w)
  BY Types DEF IInv
<1>1. t \in WakerStates /\ t.pc = "commit"
  BY <1>0 DEF WakerStates, WakePoints
<1>2. wk' = [wk EXCEPT ![w] = t]
  BY <1>0, Types DEF WakeSend
<1> HIDE DEF t
<1>3. WorksOn(w, t)
  BY <1>0, <1>1, <1>2, OneWaker DEF WorksOn
<1>4. TypeOK'
  BY <1>0, <1>3, PutType DEF TypeOK, WakeSend, WorksOn, Places
<1>s. InLater(gmail)' = InLater(gmail) \ wk[w].ids
  <2>1. InLater(Move(gmail, wk[w].ids, "inbox")) = InLater(gmail) \ wk[w].ids
    BY PutBack
  <2> QED
    BY <2>1 DEF InLater, WakeSend
<1>5. WakeInv(w)'
  BY <1>0, <1>1, <1>3, <1>s DEF WorksOn, WakeInv, WakeSend, WakeHolds
<1>6. BackInv'
  BY <1>s, BackStill DEF WakeSend
<1> QED
  BY <1>3, <1>4, <1>5, <1>6, WakerOk DEF WakeSend, WakeHolds

LEMMA WakeSendFailsOk == ASSUME IInv, NEW w \in Wakers, WakeSendFails(w) PROVE IInv'
<1>0. TypeOK
  BY DEF IInv
<1>1. PICK ids \in SUBSET wk[w].ids : gmail' = Move(gmail, ids, "inbox")
  BY DEF WakeSendFails
<1>2. PICK t \in WakerStates :
        /\ WorksOn(w, t) /\ job' \in [Clicks -> WakeJobs]
        /\ (t.pc = "record" /\ mlock' = mlock) \/ (t = IdleWaker /\ Release(w))
  <2>1. "TransientError" \in Errors
    BY DEF Errors
  <2> QED
    BY <1>0, <2>1, Throws DEF WakeSendFails
<1>3. TypeOK'
  BY <1>0, <1>1, <1>2, ReleaseType, FaultType, PutType DEF TypeOK, WakeSendFails, WorksOn, Places
<1>4. t = IdleWaker => t.pc = "idle"
  BY DEF IdleWaker
<1>5. InLater(gmail)' = InLater(gmail) \ ids
  <2>1. InLater(Move(gmail, ids, "inbox")) = InLater(gmail) \ ids
    BY PutBack
  <2> QED
    BY <1>1, <2>1 DEF InLater
<1> QED
  BY <1>2, <1>3, <1>4, <1>5, GivesUp DEF WakeSendFails, WakeHolds

(* The timer a wake ends is one with nothing left to return.               *)
LEMMA WakeCommitOk == ASSUME IInv, NEW w \in Wakers, WakeCommit(w) PROVE IInv'
<1>0. TypeOK /\ WakeInv(w)
  BY DEF IInv
<1>1. WorksOn(w, IdleWaker) /\ job' \in [Clicks -> WakeJobs] /\ IdleWaker.pc = "idle"
  BY <1>0, Ends DEF WakeCommit, IdleWaker
<1>2. TypeOK'
  <2>1. mirror' \in [Messages -> Places] /\ timer' \in Timers
    BY <1>0, PutType, NoTimerType DEF WakeCommit, TypeOK, Places
  <2> QED
    BY <1>0, <1>1, <2>1, ReleaseType DEF TypeOK, WakeCommit, WorksOn
<1>s. InLater(gmail)' = InLater(gmail)
  BY DEF InLater, WakeCommit
<1>3. WakeInv(w)'
  BY <1>1 DEF WorksOn, WakeInv, WakeHolds
<1>4. BackInv'
  BY <1>0, <1>s DEF WakeInv, BackInv, LaterComesBack, WakeCommit
<1>5. mlock \in Laters => mlock' = mlock
  BY DEF WakeCommit, Release
<1> QED
  BY <1>1, <1>2, <1>3, <1>4, <1>5, WakerOk DEF WakeCommit, WakeHolds

LEMMA WakeCommitFailsOk == ASSUME IInv, NEW w \in Wakers, WakeCommitFails(w) PROVE IInv'
<1>0. TypeOK
  BY DEF IInv
<1>1. PICK t \in WakerStates :
        /\ WorksOn(w, t) /\ job' \in [Clicks -> WakeJobs]
        /\ (t.pc = "record" /\ mlock' = mlock) \/ (t = IdleWaker /\ Release(w))
  <2>1. "TransientError" \in Errors
    BY DEF Errors
  <2> QED
    BY <1>0, <2>1, Throws DEF WakeCommitFails
<1>2. TypeOK'
  BY <1>0, <1>1, ReleaseType, FaultType DEF TypeOK, WakeCommitFails, WorksOn
<1>3. t = IdleWaker => t.pc = "idle"
  BY DEF IdleWaker
<1>4. InLater(gmail)' = InLater(gmail)
  BY DEF InLater, WakeCommitFails
<1> QED
  BY <1>1, <1>2, <1>3, <1>4, GivesUp DEF WakeCommitFails, WakeHolds

LEMMA RecordWakeFailureOk == ASSUME IInv, NEW w \in Wakers, RecordWakeFailure(w) PROVE IInv'
<1>0. TypeOK
  BY DEF IInv
<1>1. WorksOn(w, IdleWaker) /\ job' \in [Clicks -> WakeJobs] /\ IdleWaker.pc = "idle"
  BY <1>0, Ends DEF RecordWakeFailure, IdleWaker
<1>2. timer' \in Timers /\ timer'.until = timer.until
  <2>1. PICK k \in FailureKinds(wk[w].err) :
          timer' = IF Blames(w) THEN [timer EXCEPT !.failures = @ + 1, !.kind = k] ELSE timer
    BY DEF RecordWakeFailure
  <2>2. k \in Kinds
    <3>1. FailureKinds(wk[w].err) \subseteq {"reauthorize", "temporary", "needs_attention"}
      <4>1. CASE wk[w].err = "InvalidGrantError"
        BY <4>1 DEF FailureKinds
      <4>2. CASE wk[w].err # "InvalidGrantError" /\ wk[w].err = "PermanentError"
        BY <4>2 DEF FailureKinds
      <4>3. CASE wk[w].err # "InvalidGrantError" /\ wk[w].err # "PermanentError"
        BY <4>3 DEF FailureKinds
      <4> QED
        BY <4>1, <4>2, <4>3
    <3> QED
      BY <3>1 DEF Kinds
  <2>3. timer \in Timers
    BY <1>0, Types
  <2> DEFINE n == timer.failures + 1
             t == [timer EXCEPT !.failures = n, !.kind = k]
  <2>n. n \in Nat
    BY <2>3 DEF Timers
  <2>5. timer' = IF Blames(w) THEN t ELSE timer
    BY <2>1
  <2> HIDE DEF n
  <2>4. t \in Timers /\ t.until = timer.until
    BY <2>2, <2>3, <2>n DEF Timers
  <2> HIDE DEF t
  <2> QED
    BY <2>3, <2>4, <2>5
<1>3. TypeOK'
  BY <1>0, <1>1, <1>2, ReleaseType DEF TypeOK, RecordWakeFailure, WorksOn
<1>4. InLater(gmail)' = InLater(gmail)
  BY DEF InLater, RecordWakeFailure
<1> QED
  BY <1>1, <1>2, <1>3, <1>4, GivesUp DEF RecordWakeFailure, WakeHolds

LEMMA WakerCrashOk == ASSUME IInv, NEW w \in Wakers, WakerCrash(w) PROVE IInv'
<1>0. TypeOK
  BY DEF IInv
<1>1. WorksOn(w, IdleWaker) /\ IdleWaker.pc = "idle"
  BY <1>0, IdleTypes, OneWaker DEF WakerCrash, WorksOn, IdleWaker
<1>2. job' \in [Clicks -> WakeJobs]
  <2>1. CASE wk[w].job = None
    BY <1>0, <2>1, Types DEF WakerCrash
  <2>2. CASE wk[w].job # None
    <3> DEFINE c == wk[w].job
               r == [job[c] EXCEPT !.state = "waiting"]
    <3>1. c \in Clicks /\ job[c] \in WakeJobs
      BY <1>0, <2>2, Types DEF WakerStates
    <3>2. r \in WakeJobs
      BY <3>1 DEF WakeJobs
    <3>3. job' = [job EXCEPT ![c] = r]
      BY <1>0, <2>2, <3>1, Types DEF WakerCrash
    <3> HIDE DEF r, c
    <3> QED
      BY <1>0, <3>1, <3>2, <3>3, Types
  <2> QED
    BY <2>1, <2>2
<1>3. TypeOK'
  BY <1>0, <1>1, <1>2, ReleaseType, FaultType DEF TypeOK, WakerCrash, WorksOn
<1>4. InLater(gmail)' = InLater(gmail)
  BY DEF InLater, WakerCrash
<1> QED
  BY <1>1, <1>3, <1>4, GivesUp DEF WakerCrash

-------------------------------------------------------------------------------
(* Every step keeps the invariant.                                         *)

LEMMA Stutter == IInv /\ UNCHANGED vars => IInv'
<1> SUFFICES ASSUME IInv, UNCHANGED vars PROVE IInv'
  OBVIOUS
<1>1. TypeOK'
  BY DEF IInv, TypeOK
<1> QED
  BY <1>1, Idles

LEMMA MoveStepOk == ASSUME IInv, NEW l \in Laters, MoveStep(l) PROVE IInv'
  BY MoveStartOk, MoveTimerOk, MoveCommitOk, MoveLandsOk, UndoStartOk, UndoSendOk, UndoCommitOk
     DEF MoveStep

LEMMA WakeStepOk == ASSUME IInv, NEW w \in Wakers, WakeStep(w) PROVE IInv'
  BY SweepStartOk, JobStartOk, AcquireOk, ClaimOk, RestoreOk, WakeSendOk, WakeCommitOk,
     RecordWakeFailureOk DEF WakeStep

LEMMA UserStepOk == ASSUME IInv, UserStep PROVE IInv'
  BY UndoClickOk, ClickOk, SetSnoozeOk, EnqueueWakeOk DEF UserStep

LEMMA FaultStepOk == ASSUME IInv, FaultStep PROVE IInv'
  BY LoseLockOk, MoveStopsOk, MoveUncertainOk, LockTimesOutOk, ClientFailsOk, WakeSendFailsOk,
     WakeCommitFailsOk, WakerCrashOk DEF FaultStep

LEMMA NextOk == IInv /\ [Next]_vars => IInv'
<1> SUFFICES ASSUME IInv, [Next]_vars PROVE IInv'
  OBVIOUS
<1>1. CASE Tick \/ UserStep \/ FaultStep
  BY <1>1, TickOk, UserStepOk, FaultStepOk
<1>2. CASE \E m \in Messages : Sync(m)
  BY <1>2, SyncOk
<1>3. CASE \E l \in Laters : MoveStep(l)
  BY <1>3, MoveStepOk
<1>4. CASE \E w \in Wakers : WakeStep(w)
  BY <1>4, WakeStepOk
<1>5. CASE UNCHANGED vars
  BY <1>5, Stutter
<1> QED
  BY <1>1, <1>2, <1>3, <1>4, <1>5 DEF Next

(* The inductive invariant holds in every reachable state.                 *)
THEOREM Invariance == Spec => []IInv
  BY InitOk, NextOk, PTL DEF Spec

-------------------------------------------------------------------------------
(* What it is for.                                                         *)

(* Every variable has its type.                                            *)
THEOREM TypeCorrect == Spec => []TypeOK
<1>1. IInv => TypeOK
  BY DEF IInv
<1> QED
  BY <1>1, Invariance, PTL

(* Mail in Later has a return timer, whatever Laters, Undos, wakes and     *)
(* failures met on it, while no holder lost the mailbox lock; and as long  *)
(* as the sync has told the mirror of what a stopped Later left behind     *)
(* before the next wake or Undo reads it (PromptSync).                     *)
THEOREM BackCorrect == PromptSync => (Spec => []LaterComesBack)
<1> SUFFICES ASSUME PromptSync PROVE Spec => []LaterComesBack
  OBVIOUS
<1>1. IInv => LaterComesBack
  BY DEF IInv, BackInv
<1> QED
  BY <1>1, Invariance, PTL

(* What ended a timer: the wake that pinned its version, or the Undo of a  *)
(* Later of its time.                                                      *)
Ender ==
  \/ \E w \in Wakers : wk[w].pc = "commit" /\ wk'[w].pc = "idle" /\ wk[w].at = timer.at
  \/ \E l \in Laters : mv[l].pc = "revcommit" /\ mv'[l].pc = "undone" /\ mv[l].wake = timer.until

EndsRightly == timer.until # 0 /\ timer'.until = 0 => Ender

LEMMA EndsRightlyOk == IInv /\ [Next]_vars => EndsRightly
<1> SUFFICES ASSUME IInv, [Next]_vars, timer.until # 0, timer'.until = 0 PROVE Ender
  BY DEF EndsRightly
<1>0. TypeOK
  BY DEF IInv
<1>1. ASSUME NEW w \in Wakers, WakeCommit(w) PROVE Ender
  <2>1. wk[w].pc = "commit" /\ wk'[w].pc = "idle"
    BY <1>0, <1>1, Ends DEF WakeCommit, WorksOn, IdleWaker
  <2>2. wk[w].at = timer.at
    BY <1>1 DEF WakeCommit, WakeClears, Pinned
  <2> QED
    BY <2>1, <2>2 DEF Ender
<1>2. ASSUME NEW l \in Laters, UndoCommit(l) PROVE Ender
  <2>1. mv[l].pc = "revcommit" /\ mv'[l].pc = "undone"
    BY <1>0, <1>2, Types DEF UndoCommit
  <2>2. mv[l].wake = timer.until
    BY <1>2 DEF UndoCommit, UndoCancels
  <2> QED
    BY <2>1, <2>2 DEF Ender
<1>3. ASSUME NEW l \in Laters, MoveTimer(l) \/ MoveCommit(l) PROVE FALSE
  <2>1. mv[l].wake # 0 /\ ScheduleLaterReturn(l)
    BY <1>3 DEF IInv, MoveInv, MoveTimer, MoveCommit
  <2> QED
    BY <1>0, <2>1, Schedules
<1>4. ASSUME NEW t \in Times, SetSnooze(t) PROVE FALSE
  BY <1>0, <1>4 DEF SetSnooze, NewTimer, TypeOK, Times
<1>5. ASSUME NEW w \in Wakers, RecordWakeFailure(w) PROVE FALSE
  <2>1. timer \in Timers
    BY <1>0, Types
  <2> QED
    BY <1>5, <2>1 DEF RecordWakeFailure, Timers
<1>6. CASE ~(\/ \E w \in Wakers : WakeCommit(w) \/ RecordWakeFailure(w)
             \/ \E l \in Laters : UndoCommit(l) \/ MoveTimer(l) \/ MoveCommit(l)
             \/ \E t \in Times : SetSnooze(t))
  <2>1. timer' = timer
    BY <1>6, ZenonT(60)
       DEF Next, UserStep, FaultStep, MoveStep, WakeStep, Tick, UndoClick, Click, WakeNow,
           WakeRecovery, EnqueueWake, LoseLock, MoveStops, MoveUncertain, LockTimesOut,
           ClientFails, WakeSendFails, WakeCommitFails, WakerCrash, Sync, MoveStart, MoveLands,
           UndoStart, UndoSend, SweepStart, JobStart, Acquire, Claim, Restore, WakeSend
  <2> QED
    BY <2>1
<1> QED
  BY <1>1, <1>2, <1>3, <1>4, <1>5, <1>6

(* A timer is ended only by who knew it: a newer one wins over an older    *)
(* wake or Undo.                                                           *)
THEOREM NewerWins == Spec => NewerTimerWins
<1>1. IInv /\ [Next]_vars => [EndsRightly]_vars
  BY EndsRightlyOk
<1> QED
  BY <1>1, Invariance, PTL DEF Spec, NewerTimerWins, EndsRightly, Ender
===============================================================================
