--------------------------- MODULE UnsubscribeProofs ---------------------------
(***************************************************************************)
(* Proofs about Unsubscribe, for any number of requests and worker runs,   *)
(* any limits, and any number of faults of any kind.                       *)
(*                                                                         *)
(* A run knows the row it loaded and what its request was answered; its    *)
(* row may since have been written by another run of the same job, or      *)
(* given up by the API.  Both put the request into the ghost blurred; a    *)
(* run of any other request holds the job and finds the row live (RunInv), *)
(* so that the row and the log end together (ReqInv).                      *)
(***************************************************************************)
EXTENDS Unsubscribe, FiniteSetTheorems, TLAPS

-------------------------------------------------------------------------------
(* The inductive invariant.                                                *)

Methods == {"one_click", "mailto", "none"}
Places == {"new", "refused", "probed", "add", "undo", "answered", "dead"}
ReqStates == [pc : Places, method : Methods \cup {None}, consent : BOOLEAN]
Rows == {"none", "refused", "enqueue_failed"} \cup Live \cup Outcomes
JobStates == {"none", "waiting", "ended"} \cup Runs
Responses == {"2xx", "3xx", "4xx", "silence"}
RunStates == [pc : {"idle", "mark", "post", "record"}, key : Requests \cup {None},
              recheck : BOOLEAN, resp : Responses \cup {None}]

Shape ==
  /\ sender \in [method : Methods, protected : BOOLEAN]
  /\ status \in Chips
  /\ req \in [Requests -> ReqStates] /\ row \in [Requests -> Rows]
  /\ job \in [Requests -> JobStates] /\ consent \in [Requests -> BOOLEAN]
  /\ {tries, stalls, posts, log} \subseteq [Requests -> Nat]
  /\ run \in [Runs -> RunStates]
  /\ \A e \in events : e.says \in Chips

(* What lets a request out: the user's consent, or a moment without        *)
(* protection.                                                             *)
Covered(k) == consent[k] \/ k \in open

Ended(k) == row[k] \in Outcomes \cup {"enqueue_failed"}

(* A request has a row only after its transaction, and a job only with a   *)
(* row; what was sent was covered; what claims acceptance was heard.       *)
ReqInv(k) ==
  /\ req[k].pc # "new" => req[k].method \in Methods
  /\ req[k].pc \in {"new", "probed"} => row[k] = "none"
  /\ req[k].pc \in {"add", "undo"} \/ job[k] # "none" => row[k] # "none"
  /\ req[k].pc # "new" /\ ~ sender.protected => k \in open
  /\ job[k] = "none" => ~ consent[k]
  /\ row[k] = "executing" \/ posts[k] > 0 => Covered(k)
  /\ row[k] = "endpoint_accepted" => k \in accepted
  /\ k \notin blurred => log[k] = IF Ended(k) THEN 1 ELSE 0

(* A run past its check is covered; the only writer of a request holds its *)
(* job, and finds its row live.                                            *)
RunInv(r) ==
  LET k == run[r].key IN
  /\ run[r].pc = "idle" <=> k = None
  /\ run[r].pc # "idle" => job[k] # "none"
  /\ run[r].pc \in {"post", "record"} \/ (run[r].pc = "mark" /\ ~ run[r].recheck) => Covered(k)
  /\ run[r].pc = "record" => run[r].resp \in Responses
  /\ run[r].pc = "record" /\ run[r].resp = "2xx" => k \in accepted
  /\ run[r].pc # "idle" /\ k \notin blurred => job[k] = r /\ row[k] \in Live

ChipInv ==
  /\ status = "endpoint_accepted" => accepted # {}
  /\ \A e \in events : e.says = "endpoint_accepted" => accepted # {}

(* The runs that lost their job: each was taken back once, and may still   *)
(* spend an attempt.                                                       *)
Behind(k) == {r \in Runs : run[r].key = k /\ job[k] # r}
ToCome(k) == IF job[k] = "ended" THEN 0 ELSE 1
TriesInv(k) ==
  /\ Cardinality(Behind(k)) <= stalls[k]
  /\ tries[k] + Cardinality(Behind(k)) + ToCome(k) <= MaxAttempts + stalls[k]

IInv ==
  /\ Shape /\ ChipInv
  /\ \A k \in Requests : ReqInv(k) /\ TriesInv(k)
  /\ \A r \in Runs : RunInv(r)
-------------------------------------------------------------------------------
(* Functions of the requests, and what every step keeps.                   *)

USE SetsAssumption, BoundsAssumption
USE DEF vars, world, queue, ghosts

(* g is f but for k. *)
But(g, f, k) == \A j \in Requests \ {k} : g[j] = f[j]

LEMMA Types ==
  ASSUME IInv
  PROVE  /\ req \in [Requests -> ReqStates] /\ row \in [Requests -> Rows]
         /\ job \in [Requests -> JobStates] /\ consent \in [Requests -> BOOLEAN]
         /\ tries \in [Requests -> Nat] /\ stalls \in [Requests -> Nat]
         /\ posts \in [Requests -> Nat] /\ log \in [Requests -> Nat]
         /\ run \in [Runs -> RunStates] /\ IdleRun \in RunStates
         /\ \A k \in Requests : /\ tries[k] \in Nat /\ stalls[k] \in Nat
                                /\ posts[k] \in Nat /\ log[k] \in Nat
                                /\ row[k] \in Rows /\ job[k] \in JobStates
                                /\ req[k] \in ReqStates
         /\ \A r \in Runs : run[r] \in RunStates
  BY DEF IInv, Shape, IdleRun, RunStates

(* The ghosts only grow.                                                   *)
LEMMA Grows ==
  ASSUME [Next]_vars
  PROVE  accepted \subseteq accepted' /\ open \subseteq open' /\ blurred \subseteq blurred'
<1>1. accepted \subseteq accepted'
  BY ZenonT(60)
     DEF Next, ApiSteps, RunSteps, Flip, MarkProgress, Probe, Commit, AutoCommit, Add, AddFailed,
         ApiDies, Replay, Start, Mark, Post, RecordAnswer, RunThrows, Crash, Stall, Deliver
<1>2. open \subseteq open'
  BY ZenonT(60)
     DEF Next, ApiSteps, RunSteps, Flip, MarkProgress, Probe, Commit, AutoCommit, Add, AddFailed,
         ApiDies, Replay, Start, Mark, Post, RecordAnswer, RunThrows, Crash, Stall, Deliver
<1>3. blurred \subseteq blurred'
  BY ZenonT(60)
     DEF Next, ApiSteps, RunSteps, Flip, MarkProgress, Probe, Commit, AutoCommit, Add, AddFailed,
         ApiDies, Replay, Start, Mark, Post, RecordAnswer, RunThrows, Crash, Stall, Deliver
<1> QED
  BY <1>1, <1>2, <1>3

(* A request no step touches stays in order.                               *)
Same(j) == /\ req'[j] = req[j] /\ row'[j] = row[j] /\ job'[j] = job[j]
           /\ consent'[j] = consent[j] /\ posts'[j] = posts[j] /\ log'[j] = log[j]

LEMMA ReqStill ==
  ASSUME IInv, [Next]_vars, NEW j \in Requests, Same(j),
         \/ sender'.protected = sender.protected
         \/ sender'.protected \/ (req[j].pc # "new" => j \in open')
  PROVE  ReqInv(j)'
<1>1. ReqInv(j)
  BY DEF IInv
<1> QED
  BY <1>1, Grows DEF ReqInv, Same, Covered, Ended

(* A run no step touches stays in order, when its request keeps its row,   *)
(* its job and its cover, or has two writers.                              *)
LEMMA RunStill ==
  ASSUME IInv, [Next]_vars, NEW q \in Runs, run'[q] = run[q],
         run[q].pc # "idle" =>
           LET k == run[q].key IN
           /\ job'[k] # "none" /\ (consent[k] => consent'[k])
           /\ k \in blurred' \/ (job'[k] = job[k] /\ row'[k] = row[k])
  PROVE  RunInv(q)'
<1>1. RunInv(q)
  BY DEF IInv
<1> QED
  BY <1>1, Grows DEF RunInv, Covered
-------------------------------------------------------------------------------
(* The steps of the API and of the world.                                  *)

(* The attempts a request still has.                                       *)
LEMMA TriesStill ==
  ASSUME IInv, NEW k \in Requests, run' = run, tries' = tries, stalls' = stalls,
         job'[k] = job[k] \/ (job[k] = "none" /\ job'[k] = "waiting")
  PROVE  TriesInv(k)'
<1>1. Behind(k)' = Behind(k) /\ ToCome(k)' = ToCome(k)
  BY DEF Behind, ToCome
<1>2. TriesInv(k)
  BY DEF IInv
<1> QED
  BY <1>1, <1>2 DEF TriesInv

Kept ==
  /\ req' \in [Requests -> ReqStates] /\ row' \in [Requests -> Rows]
  /\ job' \in [Requests -> JobStates] /\ consent' \in [Requests -> BOOLEAN]
  /\ tries' \in [Requests -> Nat] /\ stalls' \in [Requests -> Nat]
  /\ posts' \in [Requests -> Nat] /\ log' \in [Requests -> Nat]
  /\ run' \in [Runs -> RunStates]
  /\ \A k \in Requests : ReqInv(k)' /\ TriesInv(k)'
  /\ \A r \in Runs : RunInv(r)'

(* A step of one request, seen from the others, the runs and the queue.    *)
LEMMA OfOne ==
  ASSUME IInv, [Next]_vars, NEW k \in Requests, UNCHANGED <<sender, run, posts, tries, stalls>>,
         req' \in [Requests -> ReqStates], row' \in [Requests -> Rows],
         job' \in [Requests -> JobStates], consent' \in [Requests -> BOOLEAN],
         log' \in [Requests -> Nat],
         But(req', req, k), But(row', row, k), But(job', job, k), But(consent', consent, k),
         But(log', log, k),
         job'[k] = job[k] \/ (job[k] = "none" /\ job'[k] = "waiting"),
         consent[k] => consent'[k],
         row'[k] = row[k] \/ row[k] = "none" \/ k \in blurred' \/ \A r \in Runs : run[r].key # k,
         ReqInv(k)'
  PROVE  Kept
<1>0. /\ tries \in [Requests -> Nat] /\ stalls \in [Requests -> Nat] /\ posts \in [Requests -> Nat]
      /\ run \in [Runs -> RunStates] /\ ReqInv(k)
      /\ \A r \in Runs : RunInv(r) /\ run[r] \in RunStates
  BY Types DEF IInv
<1>1. ASSUME NEW j \in Requests PROVE ReqInv(j)'
  <2>1. CASE j # k
    BY <2>1, ReqStill DEF Same, But
  <2> QED
    BY <2>1
<1>2. ASSUME NEW j \in Requests PROVE TriesInv(j)'
  BY TriesStill DEF But
<1>3. ASSUME NEW r \in Runs PROVE RunInv(r)'
  <2>1. CASE run[r].key = k /\ run[r].pc # "idle"
    <3>1. job[k] # "none" /\ row[k] # "none"
      BY <1>0, <2>1 DEF RunInv, ReqInv
    <3> QED
      BY <2>1, <3>1, RunStill
  <2>2. CASE run[r].key # k /\ run[r].pc # "idle"
    <3>1. run[r].key \in Requests \ {k}
      BY <1>0, <2>2 DEF RunInv, RunStates
    <3>2. job[run[r].key] # "none"
      BY <1>0, <2>2 DEF RunInv
    <3> QED
      BY <3>1, <3>2, RunStill DEF But
  <2> QED
    BY <2>1, <2>2, RunStill
<1> QED
  BY <1>0, <1>1, <1>2, <1>3 DEF Kept

(* The request moves to another place, and nothing else of it changes.     *)
LEMMA Placed ==
  ASSUME IInv, [Next]_vars, NEW k \in Requests, UNCHANGED <<sender, run, queue, posts, row, log>>,
         NEW pc \in Places, req' = [req EXCEPT ![k].pc = pc],
         req[k].pc # "new" \/ pc = "new",
         pc \in {"new", "probed"} => row[k] = "none",
         pc \in {"add", "undo"} => row[k] # "none"
  PROVE  Kept
<1> DEFINE t == [req[k] EXCEPT !.pc = pc]
<1>0. ReqInv(k) /\ req[k] \in ReqStates
  BY Types DEF IInv
<1>1. t \in ReqStates /\ t.pc = pc /\ t.method = req[k].method
  BY <1>0 DEF ReqStates
<1>2. req' = [req EXCEPT ![k] = t]
  OBVIOUS
<1> HIDE DEF t
<1>3. req' \in [Requests -> ReqStates] /\ req'[k] = t /\ But(req', req, k)
  BY <1>1, <1>2, Types DEF But
<1>4. ReqInv(k)'
  BY <1>0, <1>1, <1>3, Grows DEF ReqInv, Covered, Ended
<1> QED
  BY <1>3, <1>4, OfOne, Types DEF But

LEMMA ProbeStep ==
  ASSUME IInv, [Next]_vars, NEW k \in Requests, Probe(k)
  PROVE  Kept
<1>0. ReqInv(k) /\ sender \in [method : Methods, protected : BOOLEAN]
  BY DEF IInv, Shape
<1>1. /\ UNCHANGED <<sender, run, queue, posts, row, log>>
      /\ row[k] = "none"
      /\ open' = IF sender.protected THEN open ELSE open \cup {k}
  BY <1>0 DEF Probe, ReqInv
<1>2. PICK t \in ReqStates : /\ req' = [req EXCEPT ![k] = t]
                             /\ t.pc \in {"refused", "probed"} /\ t.method \in Methods
  <2>1. PICK override \in BOOLEAN : req' = [req EXCEPT ![k] =
         [pc |-> IF \/ sender.method = "one_click" /\ (~ sending \/ InFlight(k))
                    \/ k \in Bulk /\ sender.protected
                 THEN "refused" ELSE "probed",
          method |-> sender.method,
          consent |-> override /\ sender.protected]]
    BY ZenonT(60) DEF Probe
  <2> DEFINE pc == IF \/ sender.method = "one_click" /\ (~ sending \/ InFlight(k))
                      \/ k \in Bulk /\ sender.protected
                   THEN "refused" ELSE "probed"
             t == [pc |-> pc, method |-> sender.method, consent |-> override /\ sender.protected]
  <2>2. pc \in {"refused", "probed"}
    OBVIOUS
  <2> HIDE DEF pc
  <2>3. t \in ReqStates /\ t.pc = pc /\ t.method \in Methods
    BY <1>0, <2>2 DEF ReqStates, Places
  <2> QED
    BY <2>1, <2>2, <2>3 DEF pc
<1>3. req' \in [Requests -> ReqStates] /\ req'[k] = t /\ But(req', req, k)
  BY <1>2, Types DEF But
<1>4. ReqInv(k)'
  BY <1>0, <1>1, <1>2, <1>3, Grows DEF ReqInv, Covered, Ended
<1> QED
  BY <1>1, <1>3, <1>4, OfOne, Types DEF But

(* The row of a new request: queued when there is something to send.       *)
LEMMA RowBegins ==
  ASSUME IInv, [Next]_vars, NEW k \in Requests, UNCHANGED <<sender, run, queue, posts, log>>,
         row[k] = "none", NEW t \in ReqStates, req' = [req EXCEPT ![k] = t],
         t.method \in Methods,
         \/ t.pc = "add" /\ row' = [row EXCEPT ![k] = "queued"]
         \/ t.pc = "answered" /\ row' = [row EXCEPT ![k] = @],
         req[k].pc # "new" \/ k \in open'
  PROVE  Kept
<1>0. ReqInv(k) /\ row \in [Requests -> Rows]
  BY Types DEF IInv
<1>1. req' \in [Requests -> ReqStates] /\ req'[k] = t /\ But(req', req, k)
  BY Types DEF But
<1>2. PICK v \in {"none", "queued"} : row' = [row EXCEPT ![k] = v] /\ (t.pc = "add" => v = "queued")
                                     /\ t.pc \in {"add", "answered"}
  BY <1>0
<1>3. row' \in [Requests -> Rows] /\ row'[k] = v /\ But(row', row, k)
  <2>1. v \in Rows
    BY DEF Rows, Live
  <2> QED
    BY <1>2, <2>1, Types DEF But
<1>4. ReqInv(k)'
  BY <1>0, <1>1, <1>2, <1>3, Grows DEF ReqInv, Covered, Ended, Outcomes
<1> QED
  BY <1>1, <1>3, <1>4, OfOne, Types DEF But

LEMMA CommitStep ==
  ASSUME IInv, [Next]_vars, NEW k \in Requests, Commit(k)
  PROVE  Kept
<1> DEFINE t == [req[k] EXCEPT !.pc = Committed(k)]
<1>0. ReqInv(k) /\ req[k] \in ReqStates
  BY Types DEF IInv
<1>1. /\ UNCHANGED <<sender, run, queue, posts, log>> /\ req[k].pc = "probed"
      /\ req' = [req EXCEPT ![k] = t]
      /\ row' = [row EXCEPT ![k] = IF req[k].method = "one_click" THEN "queued" ELSE @]
  BY DEF Commit
<1>2. row[k] = "none" /\ req[k].method \in Methods
  BY <1>0, <1>1 DEF ReqInv
<1>3. /\ t \in ReqStates /\ t.method \in Methods
      /\ t.pc = IF req[k].method = "one_click" THEN "add" ELSE "answered"
  BY <1>0, <1>2 DEF Committed, ReqStates, Places
<1> HIDE DEF t
<1> QED
  BY <1>1, <1>2, <1>3, RowBegins

LEMMA AutoCommitStep ==
  ASSUME IInv, [Next]_vars, NEW k \in Requests, AutoCommit(k)
  PROVE  Kept
<1> DEFINE pc == IF sender.method = "one_click" THEN "add" ELSE "answered"
           t == [pc |-> pc, method |-> sender.method, consent |-> FALSE]
<1>0. ReqInv(k) /\ sender \in [method : Methods, protected : BOOLEAN]
  BY DEF IInv, Shape
<1>1. /\ UNCHANGED <<sender, run, queue, posts, log>> /\ req[k].pc = "new" /\ k \in open'
      /\ req' = [req EXCEPT ![k] = t]
      /\ row' = [row EXCEPT ![k] = IF sender.method = "one_click" THEN "queued" ELSE @]
  BY DEF AutoCommit
<1>2. row[k] = "none" /\ sender.method \in Methods
  BY <1>0, <1>1 DEF ReqInv
<1>3. t \in ReqStates /\ t.method \in Methods /\ t.pc = pc
  BY <1>2 DEF ReqStates, Places
<1>4. pc = IF sender.method = "one_click" THEN "add" ELSE "answered"
  OBVIOUS
<1> HIDE DEF pc, t
<1> QED
  BY <1>1, <1>2, <1>3, <1>4, RowBegins

LEMMA LandsStep ==
  ASSUME IInv, [Next]_vars, NEW k \in Requests, UNCHANGED <<sender, run, posts, tries, stalls, row, log>>,
         Lands(k), req[k].pc = "add",
         NEW pc \in {"answered", "undo"}, req' = [req EXCEPT ![k].pc = pc]
  PROVE  Kept
<1> DEFINE t == [req[k] EXCEPT !.pc = pc]
<1>0. ReqInv(k) /\ req[k] \in ReqStates
  BY Types DEF IInv
<1>1. t \in ReqStates /\ t.pc = pc /\ t.method = req[k].method
  BY <1>0 DEF ReqStates, Places
<1>2. req' = [req EXCEPT ![k] = t]
  OBVIOUS
<1> HIDE DEF t
<1>3. req' \in [Requests -> ReqStates] /\ req'[k] = t /\ But(req', req, k)
  BY <1>1, <1>2, Types DEF But
<1>4. /\ job' \in [Requests -> JobStates] /\ But(job', job, k)
      /\ job'[k] = job[k] \/ (job[k] = "none" /\ job'[k] = "waiting")
      /\ job'[k] # "none"
  BY Types DEF Lands, But, JobStates
<1>5. /\ consent' \in [Requests -> BOOLEAN] /\ But(consent', consent, k)
      /\ consent[k] => consent'[k]
  <2>1. consent[k] => job[k] # "none"
    BY <1>0 DEF ReqInv
  <2>2. req[k].consent \in BOOLEAN
    BY <1>0 DEF ReqStates
  <2> QED
    BY <2>1, <2>2, Types DEF Lands, But
<1>6. row[k] # "none"
  BY <1>0 DEF ReqInv
<1>7. ReqInv(k)'
  BY <1>0, <1>1, <1>3, <1>4, <1>5, <1>6, Grows DEF ReqInv, Covered, Ended
<1> QED
  BY <1>3, <1>4, <1>5, <1>7, OfOne, Types DEF But

LEMMA AddStep ==
  ASSUME IInv, [Next]_vars, NEW k \in Requests, Add(k)
  PROVE  Kept
<1>0. ReqInv(k)
  BY DEF IInv
<1>1. UNCHANGED <<sender, run, posts, tries, stalls, row, log>> /\ req[k].pc = "add" /\ row[k] # "none"
  BY <1>0 DEF Add, ReqInv
<1>2. \/ Lands(k) /\ req' = [req EXCEPT ![k].pc = "answered"]
      \/ Lands(k) /\ req' = [req EXCEPT ![k].pc = "undo"]
      \/ req' = [req EXCEPT ![k].pc = "undo"] /\ UNCHANGED <<job, consent>>
  BY DEF Add
<1> QED
  BY <1>1, <1>2, LandsStep, Placed DEF Places

(* The catch of the add fails a row still queued: no run has it, or it now *)
(* has two writers.                                                        *)
LEMMA AddFailedStep ==
  ASSUME IInv, [Next]_vars, NEW k \in Requests, AddFailed(k)
  PROVE  Kept
<1> DEFINE t == [req[k] EXCEPT !.pc = "answered"]
<1>0. ReqInv(k) /\ req[k] \in ReqStates
  BY Types DEF IInv
<1>1. /\ UNCHANGED <<sender, run, queue, posts, open, accepted>> /\ req[k].pc = "undo" /\ row[k] # "none"
      /\ req' = [req EXCEPT ![k] = t]
  BY <1>0 DEF AddFailed, ReqInv
<1>2. CASE ~ Undoable(k)
  BY <1>1, <1>2, Placed DEF AddFailed, Places
<1>3. CASE Undoable(k)
  <2>1. t \in ReqStates /\ t.pc = "answered" /\ t.method = req[k].method
    BY <1>0 DEF ReqStates, Places
  <2> HIDE DEF t
  <2>2. req' \in [Requests -> ReqStates] /\ req'[k] = t /\ But(req', req, k)
    BY <1>1, <2>1, Types DEF But
  <2>3. row[k] = "queued" /\ row' = [row EXCEPT ![k] = "enqueue_failed"] /\ log' = [log EXCEPT ![k] = @ + 1]
    BY <1>3 DEF AddFailed, Undoable
  <2>4. /\ row' \in [Requests -> Rows] /\ row'[k] = "enqueue_failed" /\ But(row', row, k)
        /\ log' \in [Requests -> Nat] /\ log'[k] = log[k] + 1 /\ But(log', log, k)
    BY <2>3, Types DEF But, Rows
  <2>5. k \in blurred' \/ \A r \in Runs : run[r].key # k
    BY <2>3 DEF AddFailed
  <2>6. k \notin blurred => log[k] = 0
    BY <1>0, <2>3 DEF ReqInv, Ended, Outcomes
  <2>7. ReqInv(k)'
    BY <1>0, <1>1, <2>1, <2>2, <2>4, <2>6, Grows DEF ReqInv, Covered, Ended, Outcomes
  <2> QED
    BY <1>1, <2>2, <2>4, <2>5, <2>7, OfOne, Types DEF But
<1> QED
  BY <1>2, <1>3

LEMMA DiesOrReplays ==
  ASSUME IInv, [Next]_vars, NEW k \in Requests, ApiDies(k) \/ Replay(k)
  PROVE  Kept
<1>0. ReqInv(k)
  BY DEF IInv
<1>1. CASE ApiDies(k)
  BY <1>1, Placed DEF ApiDies, Places
<1>2. CASE Replay(k)
  <2>1. UNCHANGED <<sender, run, queue, posts, row, log>> /\ req[k].pc = "dead"
    BY <1>2 DEF Replay
  <2>2. \/ row[k] = "none" /\ req' = [req EXCEPT ![k].pc = "new"]
        \/ row[k] # "none" /\ req' = [req EXCEPT ![k].pc = "add"]
        \/ req' = [req EXCEPT ![k].pc = "answered"]
    BY <1>2 DEF Replay
  <2> QED
    BY <2>1, <2>2, Placed DEF Places
<1> QED
  BY <1>1, <1>2

(* What the user, the index and the consumer do leaves requests and runs.  *)
LEMMA WorldStep ==
  ASSUME IInv, [Next]_vars, UNCHANGED <<req, row, queue, run, posts, log>>,
         \/ sender'.protected = sender.protected
         \/ \A k \in Requests : sender'.protected \/ (req[k].pc # "new" => k \in open')
  PROVE  Kept
<1>1. \A k \in Requests : ReqInv(k)' /\ TriesInv(k)'
  BY ReqStill, TriesStill DEF Same
<1>2. ASSUME NEW r \in Runs PROVE RunInv(r)'
  <2>1. RunInv(r)
    BY DEF IInv
  <2> QED
    BY <2>1, RunStill DEF RunInv
<1> QED
  BY <1>1, <1>2, Types DEF Kept

LEMMA FlipStep ==
  ASSUME IInv, [Next]_vars, Flip
  PROVE  Kept /\ sender' \in [method : Methods, protected : BOOLEAN]
<1>0. sender \in [method : Methods, protected : BOOLEAN]
  BY DEF IInv, Shape
<1>1. UNCHANGED <<req, row, queue, run, posts, log>>
  BY DEF Flip
<1>2. CASE /\ sender' = [sender EXCEPT !.protected = ~ @]
           /\ open' = IF sender.protected THEN open \cup {k \in Requests : req[k].pc # "new"} ELSE open
  <2>1. sender'.protected = ~ sender.protected /\ sender' \in [method : Methods, protected : BOOLEAN]
    BY <1>0, <1>2
  <2>2. \A k \in Requests : sender'.protected \/ (req[k].pc # "new" => k \in open')
    BY <1>2, <2>1
  <2> QED
    BY <1>1, <2>1, <2>2, WorldStep
<1>3. CASE \E m \in Methods : sender' = [sender EXCEPT !.method = m]
  <2>1. sender'.protected = sender.protected /\ sender' \in [method : Methods, protected : BOOLEAN]
    BY <1>0, <1>3
  <2> QED
    BY <1>1, <2>1, WorldStep
<1>4. CASE sender' = sender
  BY <1>0, <1>1, <1>4, WorldStep
<1> QED
  BY <1>2, <1>3, <1>4 DEF Flip, Methods
-------------------------------------------------------------------------------
(* The steps of the worker.  Run r works on request k, which it has or     *)
(* takes from the queue.                                                   *)

Owner(r, k) ==
  \/ run[r].pc # "idle" /\ run[r].key = k
  \/ run[r].pc = "idle" /\ job[k] = "waiting"

Work(r, k) ==
  /\ UNCHANGED <<sender, req, consent>>
  /\ row' \in [Requests -> Rows] /\ job' \in [Requests -> JobStates]
  /\ tries' \in [Requests -> Nat] /\ stalls' \in [Requests -> Nat]
  /\ posts' \in [Requests -> Nat] /\ log' \in [Requests -> Nat]
  /\ run' \in [Runs -> RunStates]
  /\ But(row', row, k) /\ But(job', job, k) /\ But(tries', tries, k) /\ But(stalls', stalls, k)
  /\ But(posts', posts, k) /\ But(log', log, k)
  /\ \A q \in Runs \ {r} : run'[q] = run[q]
  /\ Owner(r, k)
  /\ job'[k] # "none" /\ (job'[k] = job[k] \/ job[k] \in {"waiting", r})

RowStays(k) == row'[k] = row[k] /\ log'[k] = log[k]
RowSettles(k) ==
  /\ row'[k] \in {"refused"} \cup Outcomes
  /\ log'[k] = IF row'[k] \in Outcomes THEN log[k] + 1 ELSE log[k]
  /\ row'[k] = "endpoint_accepted" => k \in accepted
  /\ k \notin blurred => row[k] \in Live

Leaves(r, k) == run'[r] = IdleRun /\ posts'[k] = posts[k] /\ (RowStays(k) \/ RowSettles(k))
Takes(r, k) ==
  /\ job'[k] = r /\ row[k] \in Live /\ RowStays(k) /\ posts'[k] = posts[k]
  /\ run'[r].pc = "mark" /\ run'[r].key = k /\ (run'[r].recheck \/ Covered(k))
Marks(r, k) ==
  /\ run[r].key = k /\ run[r].pc = "mark" /\ Covered(k)
  /\ run'[r].key = k /\ run'[r].pc = "post"
  /\ row'[k] = "executing" /\ log'[k] = log[k] /\ job'[k] = job[k] /\ posts'[k] = posts[k]
Sends(r, k) ==
  /\ run[r].key = k /\ run[r].pc = "post"
  /\ run'[r].key = k /\ run'[r].pc = "record" /\ run'[r].resp \in Responses
  /\ run'[r].resp = "2xx" => k \in accepted'
  /\ RowStays(k) /\ job'[k] = job[k]
Loses(r, k) == run'[r] = run[r] /\ k \in blurred' /\ RowStays(k) /\ posts'[k] = posts[k]

Does(r, k) == Leaves(r, k) \/ Takes(r, k) \/ Marks(r, k) \/ Sends(r, k) \/ Loses(r, k)

(* Whoever works on a request finds it with a row and a job, and alone     *)
(* unless it is blurred.                                                   *)
LEMMA OwnerFacts ==
  ASSUME IInv, NEW r \in Runs, NEW k \in Requests, Owner(r, k)
  PROVE  /\ job[k] # "none" /\ row[k] # "none"
         /\ \A q \in Runs \ {r} : run[q].pc # "idle" /\ run[q].key = k => k \in blurred
         /\ run[r].pc # "idle" /\ k \notin blurred => job[k] = r /\ row[k] \in Live
<1>1. ReqInv(k) /\ RunInv(r)
  BY DEF IInv
<1>2. job[k] # "none" /\ row[k] # "none"
  BY <1>1 DEF Owner, RunInv, ReqInv
<1>3. ASSUME NEW q \in Runs \ {r}, run[q].pc # "idle", run[q].key = k PROVE k \in blurred
  <2>1. RunInv(q)
    BY DEF IInv
  <2>2. CASE k \notin blurred
    <3>1. job[k] = q
      BY <1>3, <2>1, <2>2 DEF RunInv
    <3>2. job[k] = r
      BY <1>1, <2>2, <3>1 DEF Owner, RunInv
    <3> QED
      BY <3>1, <3>2
  <2> QED
    BY <2>2
<1> QED
  BY <1>1, <1>2, <1>3 DEF Owner, RunInv

LEMMA WorkReq ==
  ASSUME IInv, [Next]_vars, NEW r \in Runs, NEW k \in Requests, Work(r, k), Does(r, k)
  PROVE  \A j \in Requests : ReqInv(j)'
<1>0. /\ ReqInv(k) /\ RunInv(r) /\ log[k] \in Nat
      /\ job[k] # "none" /\ row[k] # "none"
      /\ run[r].pc # "idle" /\ k \notin blurred => row[k] \in Live
  BY OwnerFacts, Types DEF IInv, Work
<1>1. ASSUME NEW j \in Requests \ {k} PROVE ReqInv(j)'
  BY <1>1, ReqStill DEF Work, Same, But
<1>2. req' = req /\ consent' = consent /\ sender' = sender /\ job'[k] # "none"
  BY DEF Work
<1>3. row'[k] # "none"
  BY <1>0 DEF Does, Leaves, Takes, Marks, Sends, Loses, RowStays, RowSettles, Outcomes
<1>4. row'[k] = "executing" \/ posts'[k] > 0 => Covered(k)
  BY <1>0 DEF Does, Leaves, Takes, Marks, Sends, Loses, RowStays, RowSettles, Outcomes, ReqInv, RunInv
<1>5. row'[k] = "endpoint_accepted" => k \in accepted
  BY <1>0 DEF Does, Leaves, Takes, Marks, Sends, Loses, RowStays, RowSettles, ReqInv
<1>6. k \notin blurred => log'[k] = IF Ended(k)' THEN 1 ELSE 0
  <2>1. CASE RowStays(k)
    BY <1>0, <2>1 DEF RowStays, ReqInv, Ended
  <2>2. CASE RowSettles(k)
    BY <1>0, <2>2 DEF RowSettles, ReqInv, Ended, Live, Outcomes
  <2>3. CASE Marks(r, k)
    BY <1>0, <2>3 DEF Marks, ReqInv, Ended, Live, Outcomes
  <2> QED
    BY <2>1, <2>2, <2>3 DEF Does, Leaves, Takes, Sends, Loses
<1>7. ReqInv(k)'
  BY <1>0, <1>2, <1>3, <1>4, <1>5, <1>6, Grows DEF ReqInv, Covered
<1> QED
  BY <1>1, <1>7

LEMMA WorkRun ==
  ASSUME IInv, [Next]_vars, NEW r \in Runs, NEW k \in Requests, Work(r, k), Does(r, k)
  PROVE  \A q \in Runs : RunInv(q)'
<1>0. /\ ReqInv(k) /\ RunInv(r)
      /\ \A q \in Runs \ {r} : run[q].pc # "idle" /\ run[q].key = k => k \in blurred
      /\ run[r].pc # "idle" /\ k \notin blurred => job[k] = r /\ row[k] \in Live
      /\ job'[k] # "none" /\ consent' = consent
  BY OwnerFacts DEF IInv, Work
<1>1. ASSUME NEW q \in Runs, run'[q] = run[q],
             run[q].pc # "idle" /\ run[q].key = k => k \in blurred'
      PROVE  RunInv(q)'
  <2>1. CASE run[q].pc # "idle" /\ run[q].key # k
    <3>1. run[q].key \in Requests \ {k} /\ job[run[q].key] # "none"
      BY <2>1, Types DEF IInv, RunInv, RunStates
    <3> QED
      BY <1>0, <1>1, <3>1, RunStill DEF Work, But
  <2> QED
    BY <1>0, <1>1, <2>1, RunStill
<1>2. ASSUME NEW q \in Runs \ {r} PROVE RunInv(q)'
  BY <1>0, <1>1, <1>2, Grows DEF Work
<1>3. RunInv(r)'
  <2>1. CASE Leaves(r, k)
    BY <2>1 DEF Leaves, RunInv, IdleRun
  <2>2. CASE Takes(r, k)
    BY <1>0, <2>2, Grows DEF Takes, RunInv, RowStays, Covered
  <2>3. CASE Marks(r, k)
    BY <1>0, <2>3, Grows DEF Marks, RunInv, Covered, Live
  <2>4. CASE Sends(r, k)
    BY <1>0, <2>4, Grows DEF Sends, RunInv, RowStays, Covered
  <2>5. CASE Loses(r, k)
    BY <1>1, <2>5 DEF Loses
  <2> QED
    BY <2>1, <2>2, <2>3, <2>4, <2>5 DEF Does
<1> QED
  BY <1>2, <1>3

(* What the step spends: nothing, a stall, or an attempt.                  *)
Keeps(k) ==
  /\ tries'[k] = tries[k] /\ (stalls'[k] = stalls[k] \/ stalls'[k] = stalls[k] + 1)
  /\ Behind(k)' \subseteq Behind(k)
  /\ job[k] = "ended" => job'[k] = "ended"
Stalls(r, k) ==
  /\ tries'[k] = tries[k] /\ stalls'[k] = stalls[k] + 1
  /\ Behind(k)' \subseteq Behind(k) \cup {r}
  /\ job[k] # "ended"
Tries(r, k) ==
  /\ tries'[k] = tries[k] + 1 /\ stalls'[k] = stalls[k]
  /\ \/ tries[k] + 1 < MaxAttempts /\ Behind(k)' \subseteq Behind(k)
     \/ job[k] # "ended" /\ job'[k] = "ended" /\ Behind(k)' \subseteq Behind(k)
     \/ r \in Behind(k) /\ job'[k] = job[k] /\ Behind(k)' \subseteq Behind(k) \ {r}

LEMMA BehindFinite ==
  ASSUME NEW k \in Requests
  PROVE  IsFiniteSet(Behind(k)) /\ Cardinality(Behind(k)) \in Nat
<1>1. Behind(k) \subseteq Runs
  BY DEF Behind
<1> QED
  BY <1>1, FS_Subset, FS_CardinalityType

LEMMA BehindFiniteNext ==
  ASSUME NEW k \in Requests
  PROVE  IsFiniteSet(Behind(k)') /\ Cardinality(Behind(k)') \in Nat
<1>1. Behind(k)' \subseteq Runs
  BY DEF Behind
<1> QED
  BY <1>1, FS_Subset, FS_CardinalityType

LEMMA Spent ==
  ASSUME IInv, NEW r \in Runs, NEW k \in Requests, Keeps(k) \/ Stalls(r, k) \/ Tries(r, k)
  PROVE  TriesInv(k)'
<1> DEFINE C == Cardinality(Behind(k))
           D == Cardinality(Behind(k)')
<1>0. /\ TriesInv(k) /\ tries[k] \in Nat /\ stalls[k] \in Nat /\ C \in Nat /\ D \in Nat
      /\ IsFiniteSet(Behind(k)) /\ IsFiniteSet(Behind(k)')
  BY Types, BehindFinite, BehindFiniteNext DEF IInv
<1>1. C <= stalls[k] /\ tries[k] + C + ToCome(k) <= MaxAttempts + stalls[k]
  BY <1>0 DEF TriesInv
<1>2. ToCome(k) \in {0, 1} /\ ToCome(k)' \in {0, 1}
  BY DEF ToCome
<1>3. Behind(k)' \subseteq Behind(k) => D <= C
  BY <1>0, FS_Subset
<1>4. Behind(k)' \subseteq Behind(k) \cup {r} => D <= C + 1
  <2>1. IsFiniteSet(Behind(k) \cup {r}) /\ Cardinality(Behind(k) \cup {r}) \in {C, C + 1}
    BY <1>0, FS_AddElement
  <2>2. Behind(k)' \subseteq Behind(k) \cup {r} => D <= Cardinality(Behind(k) \cup {r})
    BY <2>1, FS_Subset
  <2> QED
    BY <1>0, <2>1, <2>2
<1>5. r \in Behind(k) /\ Behind(k)' \subseteq Behind(k) \ {r} => D + 1 <= C
  <2>1. IsFiniteSet(Behind(k) \ {r})
        /\ (r \in Behind(k) => Cardinality(Behind(k) \ {r}) = C - 1)
    BY <1>0, FS_RemoveElement
  <2>2. Behind(k)' \subseteq Behind(k) \ {r} => D <= Cardinality(Behind(k) \ {r})
    BY <2>1, FS_Subset
  <2> QED
    BY <1>0, <2>1, <2>2
<1> SUFFICES D <= stalls'[k] /\ tries'[k] + D + ToCome(k)' <= MaxAttempts + stalls'[k]
  BY DEF TriesInv
<1> HIDE DEF C, D
<1>6. CASE Keeps(k)
  <2>1. ToCome(k)' <= ToCome(k) /\ D <= C
    BY <1>3, <1>6 DEF Keeps, ToCome
  <2>2. tries'[k] = tries[k] /\ (stalls'[k] = stalls[k] \/ stalls'[k] = stalls[k] + 1)
    BY <1>6 DEF Keeps
  <2> QED
    BY <1>0, <1>1, <1>2, <2>1, <2>2
<1>7. CASE Stalls(r, k)
  <2>1. ToCome(k) = 1 /\ D <= C + 1
    BY <1>4, <1>7 DEF Stalls, ToCome
  <2>2. tries'[k] = tries[k] /\ stalls'[k] = stalls[k] + 1
    BY <1>7 DEF Stalls
  <2> QED
    BY <1>0, <1>1, <1>2, <2>1, <2>2
<1>8. CASE Tries(r, k)
  <2>1. tries'[k] = tries[k] + 1 /\ stalls'[k] = stalls[k]
    BY <1>8 DEF Tries
  <2>2. CASE tries[k] + 1 < MaxAttempts /\ Behind(k)' \subseteq Behind(k)
    BY <1>0, <1>1, <1>2, <1>3, <2>1, <2>2
  <2>3. CASE job[k] # "ended" /\ job'[k] = "ended" /\ Behind(k)' \subseteq Behind(k)
    <3>1. ToCome(k) = 1 /\ ToCome(k)' = 0 /\ D <= C
      BY <1>3, <2>3 DEF ToCome
    <3> QED
      BY <1>0, <1>1, <2>1, <3>1
  <2>4. CASE r \in Behind(k) /\ job'[k] = job[k] /\ Behind(k)' \subseteq Behind(k) \ {r}
    <3>1. ToCome(k)' = ToCome(k) /\ D + 1 <= C
      BY <1>5, <2>4 DEF ToCome
    <3> QED
      BY <1>0, <1>1, <1>2, <2>1, <3>1
  <2> QED
    BY <1>8, <2>2, <2>3, <2>4 DEF Tries
<1> QED
  BY <1>6, <1>7, <1>8

(* The runs behind, after a step of run r on request k.                    *)
LEMMA BehindAfter ==
  ASSUME IInv, NEW r \in Runs, NEW k \in Requests, Work(r, k), Does(r, k)
  PROVE  /\ Behind(k)' \subseteq Behind(k) \cup {r}
         /\ Leaves(r, k) \/ Takes(r, k) => Behind(k)' \subseteq Behind(k) \ {r}
         /\ Marks(r, k) \/ Sends(r, k) => Behind(k)' \subseteq Behind(k)
         /\ \A j \in Requests \ {k} : Behind(j)' \subseteq Behind(j)
<1>1. \A q \in Runs \ {r} : run'[q] = run[q] /\ (job'[k] # q => job[k] # q)
  BY DEF Work
<1>2. Behind(k)' \subseteq Behind(k) \cup {r}
  BY <1>1 DEF Behind
<1>3. ASSUME Leaves(r, k) \/ Takes(r, k) PROVE r \notin Behind(k)'
  BY <1>3 DEF Leaves, Takes, Behind, IdleRun
<1>4. ASSUME Marks(r, k) \/ Sends(r, k) PROVE r \in Behind(k)' => r \in Behind(k)
  BY <1>4 DEF Marks, Sends, Behind
<1>5. ASSUME NEW j \in Requests \ {k} PROVE Behind(j)' \subseteq Behind(j)
  <2>1. job'[j] = job[j]
    BY DEF Work, But
  <2>2. run'[r].key = j => run'[r] = run[r]
    BY DEF Does, Leaves, Takes, Marks, Sends, Loses, IdleRun
  <2> QED
    BY <1>1, <2>1, <2>2 DEF Behind
<1> QED
  BY <1>2, <1>3, <1>4, <1>5

LEMMA WorkKeeps ==
  ASSUME IInv, [Next]_vars, NEW r \in Runs, NEW k \in Requests, Work(r, k), Does(r, k),
         Keeps(k) \/ Stalls(r, k) \/ Tries(r, k)
  PROVE  Kept
<1>1. ASSUME NEW j \in Requests \ {k} PROVE TriesInv(j)'
  <2>1. Keeps(j)
    BY BehindAfter DEF Work, But, Keeps
  <2> QED
    BY <2>1, Spent
<1>2. \A j \in Requests : TriesInv(j)'
  BY <1>1, Spent
<1>3. req' \in [Requests -> ReqStates] /\ consent' \in [Requests -> BOOLEAN]
  BY Types DEF Work
<1> QED
  BY <1>2, <1>3, WorkReq, WorkRun DEF Kept, Work

LEMMA Key ==
  ASSUME IInv, NEW r \in Runs, run[r].pc # "idle"
  PROVE  run[r].key \in Requests /\ Owner(r, run[r].key)
  BY Types DEF IInv, RunInv, RunStates, Owner

(* BullMQ takes the job back from the run that has it.                     *)
LEMMA TakenBackFacts ==
  ASSUME IInv, NEW k \in Requests, TakenBack(k), job[k] # "ended"
  PROVE  /\ job' \in [Requests -> JobStates] /\ But(job', job, k) /\ job'[k] \in {"waiting", "ended"}
         /\ stalls' \in [Requests -> Nat] /\ But(stalls', stalls, k) /\ stalls'[k] = stalls[k] + 1
<1>1. PICK v \in {"waiting", "ended"} : job' = [job EXCEPT ![k] = v]
  BY DEF TakenBack
<1>2. job' \in [Requests -> JobStates] /\ But(job', job, k) /\ job'[k] = v
  BY <1>1, Types DEF But, JobStates
<1>3. stalls' \in [Requests -> Nat] /\ But(stalls', stalls, k) /\ stalls'[k] = stalls[k] + 1
  BY Types DEF TakenBack, But
<1> QED
  BY <1>2, <1>3

LEMMA EndsFacts ==
  ASSUME IInv, NEW r \in Runs, NEW k \in Requests, NEW holds \in BOOLEAN, Ends(r, k, holds),
         holds => job[k] \in {"waiting", r}
  PROVE  /\ job' \in [Requests -> JobStates] /\ But(job', job, k)
         /\ job'[k] = job[k] \/ (holds /\ job'[k] \in {"waiting", "ended"})
         /\ stalls' \in [Requests -> Nat] /\ But(stalls', stalls, k)
         /\ stalls'[k] = stalls[k] \/ stalls'[k] = stalls[k] + 1
         /\ run' \in [Runs -> RunStates] /\ run'[r] = IdleRun
         /\ \A q \in Runs \ {r} : run'[q] = run[q]
<1>1. run' \in [Runs -> RunStates] /\ run'[r] = IdleRun /\ \A q \in Runs \ {r} : run'[q] = run[q]
  BY Types DEF Ends
<1>2. CASE holds /\ TakenBack(k)
  BY <1>1, <1>2, TakenBackFacts
<1>3. CASE ~ (holds /\ TakenBack(k))
  <2>1. stalls' = stalls /\ (job' = job \/ (holds /\ job' = [job EXCEPT ![k] = "ended"]))
    BY <1>3 DEF Ends
  <2> QED
    BY <1>1, <2>1, Types DEF But, JobStates
<1> QED
  BY <1>2, <1>3

(* A run that ends without a throw.                                        *)
LEMMA EndsKeeps ==
  ASSUME IInv, [Next]_vars, NEW r \in Runs, NEW k \in Requests, NEW holds \in BOOLEAN,
         Ends(r, k, holds), holds => job[k] \in {"waiting", r}, Owner(r, k),
         UNCHANGED <<sender, req, consent, tries, posts>>,
         row' \in [Requests -> Rows], But(row', row, k),
         log' \in [Requests -> Nat], But(log', log, k), RowStays(k) \/ RowSettles(k)
  PROVE  Kept
<1>1. /\ job' \in [Requests -> JobStates] /\ But(job', job, k)
      /\ job'[k] = job[k] \/ (holds /\ job'[k] \in {"waiting", "ended"})
      /\ stalls' \in [Requests -> Nat] /\ But(stalls', stalls, k)
      /\ stalls'[k] = stalls[k] \/ stalls'[k] = stalls[k] + 1
      /\ run' \in [Runs -> RunStates] /\ run'[r] = IdleRun
      /\ \A q \in Runs \ {r} : run'[q] = run[q]
  BY EndsFacts
<1>2. job[k] # "none"
  BY OwnerFacts
<1>3. Work(r, k)
  BY <1>1, <1>2, Types DEF Work, But
<1>4. Leaves(r, k)
  BY <1>1 DEF Leaves
<1>5. Keeps(k)
  <2>1. Behind(k)' \subseteq Behind(k)
    BY <1>3, <1>4, BehindAfter DEF Does
  <2>2. job[k] = "ended" => job'[k] = "ended"
    BY <1>1
  <2> QED
    BY <1>1, <2>1, <2>2 DEF Keeps
<1> QED
  BY <1>3, <1>4, <1>5, WorkKeeps DEF Does

LEMMA RefuseFacts ==
  ASSUME IInv, NEW k \in Requests, Refuse(k), k \notin blurred => row[k] \in Live
  PROVE  /\ row' \in [Requests -> Rows] /\ But(row', row, k)
         /\ log' \in [Requests -> Nat] /\ But(log', log, k) /\ RowSettles(k)
<1>1. row' \in [Requests -> Rows] /\ row'[k] = "refused" /\ But(row', row, k) /\ log' = log
  BY Types DEF Refuse, But, Rows
<1> QED
  BY <1>1, Types DEF RowSettles, But, Outcomes

LEMMA RecordFacts ==
  ASSUME IInv, NEW k \in Requests, NEW outcome \in Outcomes, Record(k, outcome),
         k \notin blurred => row[k] \in Live, outcome = "endpoint_accepted" => k \in accepted
  PROVE  /\ row' \in [Requests -> Rows] /\ But(row', row, k)
         /\ log' \in [Requests -> Nat] /\ But(log', log, k) /\ RowSettles(k)
<1>1. row' \in [Requests -> Rows] /\ row'[k] = outcome /\ But(row', row, k)
  BY Types DEF Record, But, Rows
<1>2. log' \in [Requests -> Nat] /\ log'[k] = log[k] + 1 /\ But(log', log, k)
  BY Types DEF Record, But
<1> QED
  BY <1>1, <1>2 DEF RowSettles

(* A run that throws: its last try ends the row, if it is still live.      *)
LEMMA ThrowsKeeps ==
  ASSUME IInv, [Next]_vars, NEW r \in Runs, run[r].pc # "idle", Throws(r),
         UNCHANGED <<sender, req, consent, posts>>
  PROVE  Kept
<1>k. PICK k \in Requests : k = run[r].key
  BY Key
<1>0. Owner(r, k) /\ job[k] # "none" /\ tries[k] \in Nat
  BY <1>k, Key, OwnerFacts, Types
<1>1. /\ run' = [run EXCEPT ![r] = IdleRun]
      /\ tries' = [tries EXCEPT ![k] = @ + 1]
      /\ job' = IF job[k] # r THEN job ELSE [job EXCEPT ![k] = IF LastTry(k) THEN "ended" ELSE "waiting"]
      /\ IF LastTry(k) /\ row[k] \in Live
         THEN row' = [row EXCEPT ![k] = "failed"] /\ log' = [log EXCEPT ![k] = @ + 1]
         ELSE UNCHANGED <<row, log>>
      /\ stalls' = stalls
  BY <1>k DEF Throws
<1>2. run' \in [Runs -> RunStates] /\ run'[r] = IdleRun /\ \A q \in Runs \ {r} : run'[q] = run[q]
  BY <1>1, Types
<1>3. tries' \in [Requests -> Nat] /\ tries'[k] = tries[k] + 1 /\ But(tries', tries, k)
  BY <1>0, <1>1, Types DEF But
<1>4. /\ job' \in [Requests -> JobStates] /\ But(job', job, k)
      /\ job[k] # r => job'[k] = job[k]
      /\ job[k] = r => job'[k] = IF LastTry(k) THEN "ended" ELSE "waiting"
  <2>1. CASE job[k] # r
    BY <1>1, <2>1, Types DEF But
  <2>2. CASE job[k] = r
    <3>1. PICK v \in {"waiting", "ended"} : /\ job' = [job EXCEPT ![k] = v]
                                         /\ v = IF LastTry(k) THEN "ended" ELSE "waiting"
      BY <1>1, <2>2
    <3> QED
      BY <1>0, <2>2, <3>1, Types DEF But, JobStates
  <2> QED
    BY <2>1, <2>2
<1>5. /\ row' \in [Requests -> Rows] /\ But(row', row, k)
      /\ log' \in [Requests -> Nat] /\ But(log', log, k) /\ (RowStays(k) \/ RowSettles(k))
  <2>1. CASE LastTry(k) /\ row[k] \in Live
    <3>1. row' \in [Requests -> Rows] /\ row'[k] = "failed" /\ But(row', row, k)
      BY <1>0, <1>1, <2>1, Types DEF But, Rows, Outcomes
    <3>2. log' \in [Requests -> Nat] /\ log'[k] = log[k] + 1 /\ But(log', log, k)
      BY <1>0, <1>1, <2>1, Types DEF But
    <3> QED
      BY <2>1, <3>1, <3>2 DEF RowSettles, Outcomes
  <2>2. CASE ~ (LastTry(k) /\ row[k] \in Live)
    BY <1>1, <2>2, Types DEF But, RowStays
  <2> QED
    BY <2>1, <2>2
<1>6. Work(r, k)
  BY <1>0, <1>1, <1>2, <1>3, <1>4, <1>5, Types DEF Work, But
<1>7. Leaves(r, k)
  BY <1>2, <1>5 DEF Leaves
<1>8. Tries(r, k)
  <2>1. Behind(k)' \subseteq Behind(k) \ {r}
    BY <1>0, <1>6, <1>7, BehindAfter DEF Does
  <2>2. CASE job[k] # r
    <3>1. r \in Behind(k)
      BY <1>k, <2>2 DEF Behind
    <3> QED
      BY <1>1, <1>3, <1>4, <2>1, <2>2, <3>1 DEF Tries
  <2>3. CASE job[k] = r /\ LastTry(k)
    <3>1. job[k] # "ended" /\ job'[k] = "ended"
      BY <1>4, <2>3
    <3> QED
      BY <1>1, <1>3, <2>1, <3>1 DEF Tries
  <2>4. CASE ~ LastTry(k)
    <3>1. tries[k] + 1 < MaxAttempts
      BY <1>0, <2>4 DEF LastTry
    <3> QED
      BY <1>1, <1>3, <2>1, <3>1 DEF Tries
  <2> QED
    BY <2>2, <2>3, <2>4
<1> QED
  BY <1>0, <1>6, <1>7, <1>8, WorkKeeps DEF Does

(* The actions of a run.                                                   *)
LEMMA StartStep ==
  ASSUME IInv, [Next]_vars, NEW r \in Runs, Start(r)
  PROVE  Kept
<1>1. run[r].pc = "idle"
  <2>1. r = Spare /\ r # None
    BY DEF Start
  <2> QED
    BY <2>1 DEF Spare
<1>2. PICK k \in Requests :
       /\ job[k] = "waiting"
       /\ \/ /\ AlreadyDone(k)
             /\ Ends(r, k, TRUE) /\ UNCHANGED <<row, status, log, events, early>>
          \/ /\ ~ AlreadyDone(k)
             /\ Ends(r, k, TRUE) /\ (Refuse(k) \/ Record(k, "failed"))
          \/ /\ ~ AlreadyDone(k)
             /\ ~ (Recheck(k) /\ sender.protected)
             /\ job' = [job EXCEPT ![k] = r]
             /\ run' = [run EXCEPT ![r] = [pc |-> "mark", key |-> k, recheck |-> Recheck(k), resp |-> None]]
             /\ UNCHANGED <<row, status, log, events, early, stalls, orphans, faults>>
  BY DEF Start
<1>3. UNCHANGED <<sender, req, consent, tries, posts, accepted>>
  BY DEF Start
<1>4. Owner(r, k) /\ ReqInv(k)
  BY <1>1, <1>2 DEF Owner, IInv
<1>5. CASE Ends(r, k, TRUE) /\ UNCHANGED <<row, log>>
  BY <1>2, <1>3, <1>4, <1>5, EndsKeeps, Types DEF But, RowStays
<1>6. CASE ~ AlreadyDone(k) /\ Ends(r, k, TRUE) /\ (Refuse(k) \/ Record(k, "failed"))
  <2>1. row[k] \in Live
    BY <1>6 DEF AlreadyDone
  <2>2. /\ row' \in [Requests -> Rows] /\ But(row', row, k)
        /\ log' \in [Requests -> Nat] /\ But(log', log, k) /\ RowSettles(k)
    BY <1>6, <2>1, RefuseFacts, RecordFacts DEF Outcomes
  <2> QED
    BY <1>2, <1>3, <1>4, <1>6, <2>2, EndsKeeps
<1>7. CASE /\ ~ AlreadyDone(k)
           /\ job' = [job EXCEPT ![k] = r]
           /\ run' = [run EXCEPT ![r] = [pc |-> "mark", key |-> k, recheck |-> Recheck(k), resp |-> None]]
           /\ UNCHANGED <<row, log, stalls>>
  <2> DEFINE t == [pc |-> "mark", key |-> k, recheck |-> Recheck(k), resp |-> None]
  <2>1. t \in RunStates /\ t.pc = "mark" /\ t.key = k /\ t.recheck = Recheck(k)
    BY DEF RunStates, Recheck
  <2> HIDE DEF t
  <2>2. run' \in [Runs -> RunStates] /\ run'[r] = t /\ \A q \in Runs \ {r} : run'[q] = run[q]
    BY <1>7, <2>1, Types DEF t
  <2>3. job' \in [Requests -> JobStates] /\ job'[k] = r /\ But(job', job, k) /\ r # "none"
    BY <1>7, Types DEF But, JobStates
  <2>4. Work(r, k)
    BY <1>2, <1>3, <1>4, <1>7, <2>2, <2>3, Types DEF Work, But
  <2>5. Takes(r, k)
    BY <1>3, <1>4, <1>7, <2>1, <2>2, <2>3 DEF Takes, RowStays, AlreadyDone, Recheck, ReqInv, Covered
  <2>6. Behind(k)' \subseteq Behind(k)
    BY <2>4, <2>5, BehindAfter DEF Does
  <2>7. Keeps(k)
    BY <1>2, <1>3, <1>7, <2>6 DEF Keeps
  <2> QED
    BY <2>4, <2>5, <2>7, WorkKeeps DEF Does
<1> QED
  BY <1>2, <1>5, <1>6, <1>7

LEMMA MarkStep ==
  ASSUME IInv, [Next]_vars, NEW r \in Runs, Mark(r)
  PROVE  Kept
<1>1. run[r].pc = "mark"
  BY DEF Mark
<1>k. PICK k \in Requests : k = run[r].key
  BY <1>1, Key
<1>2. Owner(r, k) /\ RunInv(r) /\ ReqInv(k) /\ UNCHANGED <<sender, req, consent, tries, posts>>
  BY <1>1, <1>k, Key DEF IInv, Mark
<1>3. job[k] # "none" /\ row[k] # "none" /\ (k \notin blurred => row[k] \in Live)
  BY <1>1, <1>2, OwnerFacts
<1>4. CASE Markable(r)
  <2>1. /\ row' = [row EXCEPT ![k] = "executing"] /\ run' = [run EXCEPT ![r].pc = "post"]
        /\ UNCHANGED <<log, job, stalls>>
    BY <1>4, <1>k DEF Mark
  <2>2. row' \in [Requests -> Rows] /\ row'[k] = "executing" /\ But(row', row, k)
    BY <2>1, Types DEF But, Rows, Live
  <2>3. /\ run' \in [Runs -> RunStates] /\ run'[r].pc = "post" /\ run'[r].key = k
        /\ \A q \in Runs \ {r} : run'[q] = run[q]
    <3> DEFINE t == [run[r] EXCEPT !.pc = "post"]
    <3>1. t \in RunStates /\ t.pc = "post" /\ t.key = k
      BY <1>k, Types DEF RunStates
    <3>2. run' = [run EXCEPT ![r] = t]
      BY <2>1
    <3> HIDE DEF t
    <3> QED
      BY <3>1, <3>2, Types
  <2>4. Work(r, k)
    BY <1>2, <1>3, <2>1, <2>2, <2>3, Types DEF Work, But
  <2>5. Covered(k)
    BY <1>1, <1>2, <1>3, <1>4, <1>k DEF Markable, RunInv, ReqInv, Covered
  <2>6. Marks(r, k)
    BY <1>1, <1>2, <1>k, <2>1, <2>2, <2>3, <2>5 DEF Marks
  <2>7. Keeps(k)
    <3>1. Behind(k)' \subseteq Behind(k)
      BY <2>4, <2>6, BehindAfter DEF Does
    <3> QED
      BY <1>2, <2>1, <3>1 DEF Keeps
  <2> QED
    BY <2>4, <2>6, <2>7, WorkKeeps DEF Does
<1>5. CASE ~ Markable(r)
  <2>1. Refuse(k) /\ \E holds \in BOOLEAN : Ends(r, k, holds) /\ (holds => job[k] = r)
    BY <1>5, <1>k DEF Mark
  <2>2. /\ row' \in [Requests -> Rows] /\ But(row', row, k)
        /\ log' \in [Requests -> Nat] /\ But(log', log, k) /\ RowSettles(k)
    BY <1>3, <2>1, RefuseFacts
  <2> QED
    BY <1>2, <2>1, <2>2, EndsKeeps
<1> QED
  BY <1>4, <1>5

LEMMA PostStep ==
  ASSUME IInv, [Next]_vars, NEW r \in Runs, Post(r)
  PROVE  Kept
<1>1. run[r].pc = "post"
  BY DEF Post
<1>k. PICK k \in Requests : k = run[r].key
  BY <1>1, Key
<1>2. Owner(r, k) /\ UNCHANGED <<sender, req, consent, tries, stalls, row, log, job>>
  BY <1>1, <1>k, Key DEF Post
<1>3. job[k] # "none"
  BY <1>2, OwnerFacts
<1>4. PICK resp \in Responses :
        /\ run' = [run EXCEPT ![r].pc = "record", ![r].resp = resp]
        /\ resp = "2xx" => k \in accepted'
  BY <1>k DEF Post, Responses
<1>5. posts' \in [Requests -> Nat] /\ But(posts', posts, k)
  BY <1>k, Types DEF Post, But
<1>6. /\ run' \in [Runs -> RunStates] /\ run'[r].pc = "record" /\ run'[r].key = k /\ run'[r].resp = resp
      /\ \A q \in Runs \ {r} : run'[q] = run[q]
  <2> DEFINE t == [run[r] EXCEPT !.pc = "record", !.resp = resp]
  <2>1. t \in RunStates /\ t.pc = "record" /\ t.key = k /\ t.resp = resp
    BY <1>k, Types DEF RunStates
  <2>2. run' = [run EXCEPT ![r] = t]
    BY <1>4
  <2> HIDE DEF t
  <2> QED
    BY <2>1, <2>2, Types
<1>7. Work(r, k)
  BY <1>2, <1>3, <1>5, <1>6, Types DEF Work, But
<1>8. Sends(r, k)
  BY <1>1, <1>2, <1>k, <1>4, <1>6 DEF Sends, RowStays
<1>9. Keeps(k)
  <2>1. Behind(k)' \subseteq Behind(k)
    BY <1>7, <1>8, BehindAfter DEF Does
  <2> QED
    BY <1>2, <2>1 DEF Keeps
<1> QED
  BY <1>7, <1>8, <1>9, WorkKeeps DEF Does

(* Only an answer of 2xx is recorded as accepted.                          *)
LEMMA ClassifiedOutcome ==
  ASSUME NEW resp \in Responses
  PROVE  Classified(resp) \in Outcomes /\ (Classified(resp) = "endpoint_accepted" => resp = "2xx")
  BY DEF Classified, Outcomes, Responses

LEMMA RecordAnswerStep ==
  ASSUME IInv, [Next]_vars, NEW r \in Runs, RecordAnswer(r)
  PROVE  Kept
<1>1. run[r].pc = "record" /\ UNCHANGED <<sender, req, consent, posts>>
  BY DEF RecordAnswer
<1>2. CASE Throws(r)
  BY <1>1, <1>2, ThrowsKeeps
<1>3. CASE ~ (run[r].resp = "silence" /\ ~ LastTry(run[r].key))
  <2>k. PICK k \in Requests : k = run[r].key
    BY <1>1, Key
  <2>1. /\ Owner(r, k) /\ RunInv(r) /\ tries' = tries /\ Record(k, Classified(run[r].resp))
        /\ \E holds \in BOOLEAN : Ends(r, k, holds) /\ (holds => job[k] = r)
    BY <1>1, <1>3, <2>k, Key DEF IInv, RecordAnswer
  <2>2. k \notin blurred => row[k] \in Live
    BY <1>1, <2>1, OwnerFacts
  <2>3. /\ Classified(run[r].resp) \in Outcomes
        /\ Classified(run[r].resp) = "endpoint_accepted" => k \in accepted
    BY <1>1, <2>k, <2>1, ClassifiedOutcome DEF RunInv
  <2>4. /\ row' \in [Requests -> Rows] /\ But(row', row, k)
        /\ log' \in [Requests -> Nat] /\ But(log', log, k) /\ RowSettles(k)
    BY <2>1, <2>2, <2>3, RecordFacts
  <2> QED
    BY <1>1, <2>1, <2>4, EndsKeeps
<1> QED
  BY <1>2, <1>3 DEF RecordAnswer

(* A process dies with its run, or a live run loses its job.               *)
LEMMA LossStep ==
  ASSUME IInv, [Next]_vars, NEW r \in Runs, RunThrows(r) \/ Crash(r) \/ Stall(r)
  PROVE  Kept
<1>1. CASE RunThrows(r)
  BY <1>1, ThrowsKeeps DEF RunThrows
<1>2. CASE Crash(r) \/ Stall(r)
  <2>1. run[r].pc # "idle" /\ UNCHANGED <<sender, req, consent, tries, posts, row, log>>
    BY <1>2 DEF Crash, Stall
  <2>k. PICK k \in Requests : k = run[r].key
    BY <2>1, Key
  <2>2. Owner(r, k) /\ job[k] = r /\ TakenBack(k) /\ job[k] # "ended"
    BY <1>2, <2>1, <2>k, Key DEF Crash, Stall
  <2>3. /\ job' \in [Requests -> JobStates] /\ But(job', job, k) /\ job'[k] \in {"waiting", "ended"}
        /\ stalls' \in [Requests -> Nat] /\ But(stalls', stalls, k) /\ stalls'[k] = stalls[k] + 1
    BY <2>2, TakenBackFacts
  <2>4. CASE Crash(r)
    <3>1. run' \in [Runs -> RunStates] /\ run'[r] = IdleRun /\ \A q \in Runs \ {r} : run'[q] = run[q]
      BY <2>4, Types DEF Crash
    <3>2. Work(r, k)
      BY <2>1, <2>2, <2>3, <3>1, Types DEF Work, But
    <3>3. Leaves(r, k)
      BY <2>1, <3>1 DEF Leaves, RowStays
    <3>4. Behind(k)' \subseteq Behind(k)
      BY <3>2, <3>3, BehindAfter DEF Does
    <3>5. Keeps(k)
      BY <2>1, <2>2, <2>3, <3>4 DEF Keeps
    <3> QED
      BY <3>2, <3>3, <3>5, WorkKeeps DEF Does
  <2>5. CASE Stall(r)
    <3>1. run' = run /\ k \in blurred'
      BY <2>5, <2>k DEF Stall
    <3>2. Work(r, k)
      BY <2>1, <2>2, <2>3, <3>1, Types DEF Work, But
    <3>3. Loses(r, k)
      BY <2>1, <3>1 DEF Loses, RowStays
    <3>4. Behind(k)' \subseteq Behind(k) \cup {r}
      BY <3>2, <3>3, BehindAfter DEF Does
    <3>5. Stalls(r, k)
      BY <2>1, <2>2, <2>3, <3>4 DEF Stalls
    <3> QED
      BY <3>2, <3>3, <3>5, WorkKeeps DEF Does
  <2> QED
    BY <1>2, <2>4, <2>5
<1> QED
  BY <1>1, <1>2
-------------------------------------------------------------------------------
(* The chip.                                                               *)

(* What the chip may become: it, or an event, says accepted only after an  *)
(* acceptance.                                                             *)
Says(chip) == chip \in Chips /\ (chip = "endpoint_accepted" => accepted # {})

ChipKept ==
  /\ Says(status') /\ \A e \in events' : Says(e.says)

LEMMA ChipFacts ==
  ASSUME IInv
  PROVE  /\ Says(status) /\ Says(Resolved(status)) /\ Says("null") /\ Says("failed")
         /\ \A e \in events : Says(e.says)
         /\ \A m \in Methods : Says(Initial(m))
         /\ \A chip \in Progress : Says(chip)
<1>1. \A m \in Methods : Initial(m) \in {"requested", "action_required", "unavailable"}
  BY DEF Initial, Methods
<1>2. status \in Chips /\ (\A e \in events : e.says \in Chips) /\ ChipInv
  BY DEF IInv, Shape
<1> QED
  BY <1>1, <1>2 DEF Says, ChipInv, Resolved, Chips, Outcomes, Progress

LEMMA Refused ==
  ASSUME IInv, NEW k \in Requests, Refuse(k)
  PROVE  ChipKept
  BY ChipFacts DEF Refuse, ChipKept

LEMMA Recorded ==
  ASSUME IInv, NEW k \in Requests, NEW outcome \in Outcomes, Record(k, outcome),
         outcome = "endpoint_accepted" => accepted # {}
  PROVE  ChipKept
<1>1. Says(outcome)
  BY DEF Says, Chips
<1>2. Executed(k, outcome).says = outcome
  BY DEF Executed
<1> QED
  BY <1>1, <1>2, ChipFacts DEF Record, ChipKept

LEMMA Thrown ==
  ASSUME IInv, NEW r \in Runs, Throws(r)
  PROVE  ChipKept
  BY ChipFacts DEF Throws, ChipKept

LEMMA ChipWriters ==
  ASSUME [Next]_vars
  PROVE  \/ UNCHANGED <<status, events>>
         \/ Flip \/ MarkProgress
         \/ \E k \in Requests : Commit(k) \/ AutoCommit(k) \/ AddFailed(k)
         \/ \E r \in Runs : Start(r) \/ Mark(r) \/ RecordAnswer(r) \/ RunThrows(r)
         \/ \E e \in events : Deliver(e)
  BY ZenonT(60)
     DEF Next, ApiSteps, RunSteps, Probe, Add, ApiDies, Replay, Post, Crash, Stall

LEMMA ChipStep ==
  ASSUME IInv, [Next]_vars
  PROVE  ChipKept
<1>1. CASE UNCHANGED <<status, events>>
  BY <1>1, ChipFacts DEF ChipKept
<1>2. CASE Flip \/ MarkProgress
  BY <1>2, ChipFacts DEF Flip, MarkProgress, ChipKept, Progress
<1>3. ASSUME NEW k \in Requests, Commit(k) PROVE ChipKept
  <2>1. req[k].method \in Methods
    BY <1>3 DEF IInv, ReqInv, Commit
  <2>2. Intent(k, req[k].method).says = Initial(req[k].method)
    BY DEF Intent
  <2> QED
    BY <1>3, <2>1, <2>2, ChipFacts DEF Commit, ChipKept
<1>4. ASSUME NEW k \in Requests, AutoCommit(k) PROVE ChipKept
  <2>1. sender.method \in Methods
    BY DEF IInv, Shape
  <2>2. Intent(k, sender.method).says = Initial(sender.method)
    BY DEF Intent
  <2> QED
    BY <1>4, <2>1, <2>2, ChipFacts DEF AutoCommit, ChipKept
<1>5. ASSUME NEW k \in Requests, AddFailed(k) PROVE ChipKept
  <2>1. Executed(k, "failed").says = "failed"
    BY DEF Executed
  <2>2. status' \in {status, Resolved(status)} /\ events' \in {events, events \cup {Executed(k, "failed")}}
    BY <1>5 DEF AddFailed
  <2> QED
    BY <2>1, <2>2, ChipFacts DEF ChipKept
<1>6. ASSUME NEW r \in Runs, Start(r) PROVE ChipKept
  <2>1. PICK k \in Requests : UNCHANGED <<status, events>> \/ Refuse(k) \/ Record(k, "failed")
    BY <1>6 DEF Start
  <2> QED
    BY <1>1, <2>1, Refused, Recorded DEF Outcomes
<1>7. ASSUME NEW r \in Runs, Mark(r) PROVE ChipKept
  <2>1. run[r].key \in Requests
    BY <1>7, Key DEF Mark
  <2> QED
    BY <1>1, <1>7, <2>1, Refused DEF Mark
<1>8. ASSUME NEW r \in Runs, RecordAnswer(r) PROVE ChipKept
  <2>1. run[r].pc = "record" /\ (Throws(r) \/ Record(run[r].key, Classified(run[r].resp)))
    BY <1>8 DEF RecordAnswer
  <2>2. RunInv(r) /\ run[r].key \in Requests
    BY <2>1, Key DEF IInv
  <2>3. /\ Classified(run[r].resp) \in Outcomes
        /\ Classified(run[r].resp) = "endpoint_accepted" => accepted # {}
    BY <2>1, <2>2, ClassifiedOutcome DEF RunInv
  <2> QED
    BY <2>1, <2>2, <2>3, Recorded, Thrown
<1>9. ASSUME NEW r \in Runs, RunThrows(r) PROVE ChipKept
  BY <1>9, Thrown DEF RunThrows
<1>10. ASSUME NEW e \in events, Deliver(e) PROVE ChipKept
  <2>1. status' \in {status, e.says} /\ events' \subseteq events
    BY <1>10 DEF Deliver, ProjectedIntent
  <2> QED
    BY <2>1, ChipFacts DEF ChipKept
<1> QED
  BY <1>1, <1>2, <1>3, <1>4, <1>5, <1>6, <1>7, <1>8, <1>9, <1>10, ChipWriters
-------------------------------------------------------------------------------
(* The theorems.                                                           *)

LEMMA KeptStep ==
  ASSUME IInv, [Next]_vars
  PROVE  Kept /\ sender' \in [method : Methods, protected : BOOLEAN]
<1>0. sender \in [method : Methods, protected : BOOLEAN]
  BY DEF IInv, Shape
<1>1. Flip \/ sender' = sender
  BY ZenonT(60)
     DEF Next, ApiSteps, RunSteps, MarkProgress, Probe, Commit, AutoCommit, Add, AddFailed,
         ApiDies, Replay, Start, Mark, Post, RecordAnswer, RunThrows, Crash, Stall, Deliver
<1>2. ASSUME UNCHANGED vars PROVE Kept
  BY <1>2, WorldStep
<1>3. ASSUME MarkProgress \/ \E e \in events : Deliver(e) PROVE Kept
  <2>1. UNCHANGED <<sender, req, row, queue, run, posts, log>>
    BY <1>3 DEF MarkProgress, Deliver
  <2> QED
    BY <2>1, WorldStep
<1>4. ASSUME NEW k \in Requests, Probe(k) \/ AutoCommit(k) \/ ApiSteps(k) \/ ApiDies(k) \/ Replay(k)
      PROVE  Kept
  BY <1>4, ProbeStep, AutoCommitStep, CommitStep, AddStep, AddFailedStep, DiesOrReplays DEF ApiSteps
<1>5. ASSUME NEW r \in Runs, Start(r) \/ RunSteps(r) \/ RunThrows(r) \/ Crash(r) \/ Stall(r)
      PROVE  Kept
  BY <1>5, StartStep, MarkStep, PostStep, RecordAnswerStep, LossStep DEF RunSteps
<1> QED
  BY <1>0, <1>1, <1>2, <1>3, <1>4, <1>5, FlipStep DEF Next

LEMMA Inductive ==
  ASSUME IInv, [Next]_vars
  PROVE  IInv'
<1>1. Kept /\ sender' \in [method : Methods, protected : BOOLEAN]
  BY KeptStep
<1>2. ChipKept
  BY ChipStep
<1>3. Shape'
  BY <1>1, <1>2 DEF Shape, Kept, ChipKept, Says
<1>4. ChipInv'
  BY <1>2, Grows DEF ChipInv, ChipKept, Says
<1> QED
  BY <1>1, <1>3, <1>4 DEF IInv, Kept

LEMMA Initially == Init => IInv
<1> SUFFICES ASSUME Init PROVE IInv
  OBVIOUS
<1>1. /\ sender \in [method : {"one_click"}, protected : BOOLEAN]
      /\ status = (IF sender.protected THEN "null" ELSE "absent")
      /\ req = [k \in Requests |-> [pc |-> "new", method |-> None, consent |-> FALSE]]
      /\ row = [k \in Requests |-> "none"] /\ job = [k \in Requests |-> "none"]
      /\ consent = [k \in Requests |-> FALSE]
      /\ tries = [k \in Requests |-> 0] /\ stalls = [k \in Requests |-> 0]
      /\ posts = [k \in Requests |-> 0] /\ log = [k \in Requests |-> 0]
      /\ run = [r \in Runs |-> IdleRun] /\ events = {}
  BY DEF Init
<1>2. IdleRun \in RunStates /\ IdleRun.pc = "idle" /\ IdleRun.key = None
  BY DEF IdleRun, RunStates
<1>3. [pc |-> "new", method |-> None, consent |-> FALSE] \in ReqStates
  BY DEF ReqStates, Places
<1>4. Shape
  <2>1. sender \in [method : Methods, protected : BOOLEAN] /\ status \in Chips
    BY <1>1 DEF Methods, Chips
  <2>2. req \in [Requests -> ReqStates] /\ run \in [Runs -> RunStates]
    BY <1>1, <1>2, <1>3
  <2>3. /\ row \in [Requests -> Rows] /\ job \in [Requests -> JobStates]
        /\ consent \in [Requests -> BOOLEAN]
    BY <1>1 DEF Rows, JobStates
  <2>4. {tries, stalls, posts, log} \subseteq [Requests -> Nat]
    BY <1>1
  <2> QED
    BY <1>1, <2>1, <2>2, <2>3, <2>4 DEF Shape
<1>5. ChipInv
  <2>1. status # "endpoint_accepted" /\ events = {}
    BY <1>1
  <2> QED
    BY <2>1 DEF ChipInv
<1>6. ASSUME NEW k \in Requests PROVE ReqInv(k)
  <2>1. /\ req[k].pc = "new" /\ row[k] = "none" /\ job[k] = "none" /\ consent[k] = FALSE
        /\ posts[k] = 0 /\ log[k] = 0
    BY <1>1
  <2>2. ~ Ended(k)
    BY <2>1 DEF Ended, Outcomes
  <2> QED
    BY <2>1, <2>2 DEF ReqInv
<1>7. ASSUME NEW k \in Requests PROVE TriesInv(k)
  <2>1. Behind(k) = {}
    BY <1>1, <1>2 DEF Behind
  <2>2. Cardinality(Behind(k)) = 0
    BY <2>1, FS_EmptySet
  <2>3. ToCome(k) = 1
    BY <1>1 DEF ToCome
  <2> QED
    BY <1>1, <2>2, <2>3 DEF TriesInv
<1>8. \A r \in Runs : RunInv(r)
  BY <1>1, <1>2 DEF RunInv
<1> QED
  BY <1>4, <1>5, <1>6, <1>7, <1>8 DEF IInv

(* The inductive invariant holds of every run of the system.               *)
THEOREM Invariance == Spec => []IInv
<1>1. IInv /\ [Next]_vars => IInv'
  BY Inductive
<1> QED
  BY <1>1, Initially, PTL DEF Spec

(* TypeOK: the shapes; a job has a row; and the attempts of a request stay *)
(* within its policy, plus one for each time its job was taken back.       *)
THEOREM TypeCorrect == Spec => []TypeOK
<1>1. ASSUME IInv PROVE TypeOK
  <2>1. sender.method \in {"one_click", "mailto", "none"} /\ status \in Chips
    BY <1>1 DEF IInv, Shape, Methods
  <2>2. ASSUME NEW k \in Requests
        PROVE  /\ row[k] \in {"none", "refused", "enqueue_failed"} \cup Live \cup Outcomes
               /\ job[k] \in {"none", "waiting", "ended"} \cup Runs
               /\ job[k] # "none" => row[k] # "none"
    BY <1>1, Types DEF IInv, ReqInv, Rows, JobStates
  <2>3. ASSUME NEW k \in Requests PROVE tries[k] \in 0 .. MaxAttempts + stalls[k]
    <3>1. /\ tries[k] \in Nat /\ stalls[k] \in Nat /\ Cardinality(Behind(k)) \in Nat
          /\ ToCome(k) \in {0, 1}
      BY <1>1, Types, BehindFinite DEF ToCome
    <3>2. tries[k] + Cardinality(Behind(k)) + ToCome(k) <= MaxAttempts + stalls[k]
      BY <1>1 DEF IInv, TriesInv
    <3> QED
      BY <3>1, <3>2
  <2>4. \A r \in Runs : run[r].pc = "idle" <=> run[r].key = None
    BY <1>1 DEF IInv, RunInv
  <2> QED
    BY <2>1, <2>2, <2>3, <2>4 DEF TypeOK
<1> QED
  BY <1>1, Invariance, PTL

(* AcceptedWasHeard: neither a job nor the chip claims acceptance that no  *)
(* endpoint gave (unsub-execution.worker.ts, the classification).          *)
THEOREM AcceptedCorrect == Spec => []AcceptedWasHeard
<1>1. IInv => AcceptedWasHeard
  BY DEF IInv, ReqInv, ChipInv, AcceptedWasHeard
<1> QED
  BY <1>1, Invariance, PTL

(* ConsentCoversProtection: what was sent was confirmed, or its sender was *)
(* not Protected at some moment since the click (the rechecks of the       *)
(* worker before and within the write of executing).                       *)
THEOREM ConsentCorrect == Spec => []ConsentCoversProtection
<1>1. IInv => ConsentCoversProtection
  BY DEF IInv, ReqInv, Covered, ConsentCoversProtection
<1> QED
  BY <1>1, Invariance, PTL

(* OutcomeLoggedOnce: one outcome in the activity log for a request that   *)
(* was attempted, none for one that runs or was refused.                   *)
THEOREM LoggedCorrect == Spec => []OutcomeLoggedOnce
<1>1. IInv => OutcomeLoggedOnce
  BY DEF IInv, ReqInv, Ended, OutcomeLoggedOnce
<1> QED
  BY <1>1, Invariance, PTL

LEMMA FinalWriters ==
  ASSUME [Next]_vars
  PROVE  \/ UNCHANGED <<row, posts>>
         \/ \E k \in Requests : Commit(k) \/ AutoCommit(k) \/ AddFailed(k)
         \/ \E r \in Runs : Start(r) \/ Mark(r) \/ Post(r) \/ RecordAnswer(r) \/ RunThrows(r)
  BY ZenonT(60)
     DEF Next, ApiSteps, RunSteps, Flip, MarkProgress, Probe, Add, ApiDies, Replay, Crash, Stall,
         Deliver

(* The writers of a request's row and of its sends: the API before it has  *)
(* ended, or the run that has it.                                          *)
LEMMA FinalStep ==
  ASSUME IInv, [Next]_vars, NEW j \in Requests, j \notin blurred', row[j] \notin Live \cup {"none"}
  PROVE  posts'[j] = posts[j] /\ row'[j] = row[j]
<1>1. \A r \in Runs : run[r].pc # "idle" => run[r].key # j
  BY Grows DEF IInv, RunInv
<1>2. ReqInv(j)
  BY DEF IInv
<1>3. ASSUME NEW k \in Requests, Commit(k) \/ AutoCommit(k) \/ AddFailed(k)
      PROVE  posts'[j] = posts[j] /\ row'[j] = row[j]
  <2>1. posts' = posts
    BY <1>3 DEF Commit, AutoCommit, AddFailed
  <2>2. CASE k = j
    BY <1>2, <1>3, <2>1, <2>2 DEF Commit, AutoCommit, AddFailed, Undoable, ReqInv, Live
  <2>3. CASE k # j
    <3>1. row' = row \/ \E v : row' = [row EXCEPT ![k] = v]
      BY <1>3 DEF Commit, AutoCommit, AddFailed
    <3> QED
      BY <2>1, <2>3, <3>1, Types
  <2> QED
    BY <2>2, <2>3
<1>4. ASSUME NEW r \in Runs, Start(r) PROVE posts'[j] = posts[j] /\ row'[j] = row[j]
  <2>1. posts' = posts
    BY <1>4 DEF Start
  <2>2. PICK k \in Requests : row' = row \/ (row[k] \in Live /\ \E v : row' = [row EXCEPT ![k] = v])
    BY <1>4 DEF Start, AlreadyDone, Refuse, Record
  <2> QED
    BY <2>1, <2>2, Types
<1>5. ASSUME NEW r \in Runs, Mark(r) \/ Post(r) \/ RecordAnswer(r) \/ RunThrows(r)
      PROVE  posts'[j] = posts[j] /\ row'[j] = row[j]
  <2>1. run[r].pc # "idle"
    BY <1>5 DEF Mark, Post, RecordAnswer, RunThrows
  <2>k. PICK k \in Requests \ {j} : k = run[r].key
    BY <1>1, <2>1, Key
  <2>2. posts' = posts \/ posts' = [posts EXCEPT ![k] = @ + 1]
    BY <1>5, <2>k DEF Mark, Post, RecordAnswer, RunThrows
  <2>3. row' = row \/ \E v : row' = [row EXCEPT ![k] = v]
    BY <1>5, <2>k DEF Mark, Post, RecordAnswer, RunThrows, Refuse, Record, Throws
  <2> QED
    BY <2>2, <2>3, Types
<1> QED
  BY <1>3, <1>4, <1>5, FinalWriters

(* RecordedIsFinal: once a request has ended nothing is sent for it and    *)
(* its row stays (the worker's replay check, the catch of the API).        *)
THEOREM FinalCorrect == Spec => RecordedIsFinal
<1>1. IInv /\ [Next]_vars =>
        [\A k \in Requests \ blurred' :
           row[k] \notin Live \cup {"none"} => posts'[k] = posts[k] /\ row'[k] = row[k]]_vars
  BY FinalStep
<1> QED
  BY <1>1, Invariance, PTL DEF Spec, RecordedIsFinal
===============================================================================
