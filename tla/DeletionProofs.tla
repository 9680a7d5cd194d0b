---------------------------- MODULE DeletionProofs ----------------------------
(***************************************************************************)
(* Proofs about Deletion, for every set of mailboxes, any number of        *)
(* overlapping sweeps and every number of faults and of user and billing   *)
(* events.                                                                 *)
(*                                                                         *)
(* What a purge is about to do rests on what it saw some steps ago, so the *)
(* invariant says of each step of a sweep what is still true of it: the    *)
(* grants left are among the mailboxes on its list, or arrived after it    *)
(* took the list (PurgeInv), and the billing evidence it verified is the   *)
(* present one if its revision is (EvidenceInv).  A mailbox with any       *)
(* request on file stays disconnected (BoxInv), which is what lets the     *)
(* last transaction of its purge record an empty mailbox.                  *)
(***************************************************************************)
EXTENDS Deletion, FiniteSetTheorems, TLAPS

-------------------------------------------------------------------------------
(* The inductive invariant.                                                *)

BoxWork == {"disconnect", "erase", "finish"}

AcctRecs == [state : {"none", "pending", "executing", "cancelled"}, stale : BOOLEAN]
ReqRecs == [state : {"none", "pending", "executing", "failed", "completed"}, stale : BOOLEAN]
BoxRecs == [status : {"absent", "active", "disconnected"}, creds : BOOLEAN]
PurgeRecs ==
  [pc : {"idle", "check", "verify", "claim", "box", "lock"} \cup AccountWork \cup BoxWork,
   box : Mailboxes \cup {None}, todo : SUBSET Mailboxes, seen : Nat]

Shape ==
  /\ {user, receipt, audits} \subseteq BOOLEAN
  /\ acct \in AcctRecs
  /\ req \in [Mailboxes -> ReqRecs]
  /\ box \in [Mailboxes -> BoxRecs]
  /\ mail \in [Mailboxes -> 0 .. MaxRows]
  /\ letters \subseteq Mailboxes
  /\ lock \in [Mailboxes -> Purgers \cup {None}]
  /\ purge \in [Purgers -> PurgeRecs]
  /\ billing \in [live : BOOLEAN, rev : Nat]
  /\ grant \subseteq Mailboxes

(* A mailbox with a request on file is disconnected; with a completed one, *)
(* it is empty but for what a late scan wrote.                             *)
BoxInv(m) ==
  /\ box[m].creds <=> box[m].status = "active"
  /\ box[m].status = "absent" => mail[m] = 0
  /\ req[m].state # "none" => box[m].status = "disconnected"
  /\ req[m].state = "completed" => m \notin letters /\ (mail[m] = 0 \/ m \in leaked)

(* A live grant is one whose credentials are held, or a known exception.   *)
GrantInv(m) == m \in grant => box[m].creds \/ m \in late \cup lax

LockInv(m) ==
  lock[m] # None => purge[lock[m]].box = m /\ purge[lock[m]].pc \in BoxWork

(* What the account purge has seen to when it takes its next step.         *)
PurgeInv(p) ==
  /\ purge[p].pc \in {"lock"} \cup BoxWork => purge[p].box \in Mailboxes
  /\ purge[p].pc = "revoke" => grant \subseteq late \cup lax \cup purge[p].todo
  /\ purge[p].pc \in AccountWork \ {"revoke"} => grant \subseteq late \cup lax
  /\ purge[p].pc \in {"audit", "drop", "reverify", "final"} => receipt
  /\ purge[p].pc \in {"drop", "reverify", "final"} => audits

(* What it verified about billing holds unless a revision came since.      *)
EvidenceInv(p) ==
  purge[p].pc \in {"claim", "final"} =>
    /\ purge[p].seen <= billing.rev
    /\ purge[p].seen = billing.rev => ~billing.live

IInv ==
  /\ Shape
  /\ \A m \in Mailboxes : BoxInv(m) /\ GrantInv(m) /\ LockInv(m)
  /\ \A p \in Purgers : PurgeInv(p) /\ EvidenceInv(p)
  /\ DroppedCleanly

-------------------------------------------------------------------------------
(* What is easily had of the invariant, and what every step keeps.         *)

USE SetsAssumption, BoundsAssumption
USE DEF vars, world, store, requests, trail, ghosts

LEMMA Types ==
  ASSUME IInv
  PROVE  /\ Shape
         /\ \A m \in Mailboxes : /\ BoxInv(m) /\ GrantInv(m) /\ LockInv(m)
                                 /\ req[m] \in ReqRecs /\ box[m] \in BoxRecs
                                 /\ mail[m] \in 0 .. MaxRows
                                 /\ lock[m] \in Purgers \cup {None}
         /\ \A p \in Purgers : PurgeInv(p) /\ EvidenceInv(p) /\ purge[p] \in PurgeRecs
         /\ DroppedCleanly
         /\ MaxRows \in Nat \ {0} /\ Absent \in BoxRecs /\ NoRequest \in ReqRecs
  BY DEF IInv, Shape, Absent, BoxRecs, NoRequest, ReqRecs

LEMMA InitOk == Init => IInv
<1> SUFFICES ASSUME Init PROVE IInv
  OBVIOUS
<1>1. Shape
  <2>1. NoRequest \in AcctRecs /\ NoRequest \in ReqRecs
    BY DEF NoRequest, AcctRecs, ReqRecs
  <2>2. box \in [Mailboxes -> BoxRecs]
    BY DEF Init, BoxRecs, Absent
  <2>3. IdlePurge \in PurgeRecs
    BY DEF IdlePurge, PurgeRecs
  <2>4. billing \in [live : BOOLEAN, rev : Nat]
    BY DEF Init
  <2>5. mail \in [Mailboxes -> 0 .. MaxRows]
    BY DEF Init
  <2>6. lock \in [Mailboxes -> Purgers \cup {None}]
    BY DEF Init
  <2> QED
    BY <2>1, <2>2, <2>3, <2>4, <2>5, <2>6 DEF Init, Shape
<1>2. ASSUME NEW m \in Mailboxes PROVE BoxInv(m) /\ GrantInv(m) /\ LockInv(m)
  BY DEF Init, BoxInv, GrantInv, LockInv, NoRequest, Absent
<1>3. ASSUME NEW p \in Purgers PROVE PurgeInv(p) /\ EvidenceInv(p)
  BY DEF Init, PurgeInv, EvidenceInv, IdlePurge, BoxWork, AccountWork
<1> QED
  BY <1>1, <1>2, <1>3 DEF IInv, Init, DroppedCleanly

-------------------------------------------------------------------------------
(* The user.                                                               *)

LEMMA RequestAccountOk == ASSUME IInv, RequestAccount PROVE IInv'
<1>1. acct' \in AcctRecs
  BY DEF RequestAccount, AcctRecs
<1> QED
  BY <1>1 DEF IInv, RequestAccount, Shape, BoxInv, GrantInv, LockInv, PurgeInv, EvidenceInv, DroppedCleanly

LEMMA CancelAccountOk == ASSUME IInv, CancelAccount PROVE IInv'
<1>1. acct' \in AcctRecs
  BY DEF CancelAccount, AcctRecs, IInv, Shape
<1> QED
  BY <1>1 DEF IInv, CancelAccount, Shape, BoxInv, GrantInv, LockInv, PurgeInv, EvidenceInv, DroppedCleanly

(* A mailbox connected while a purge works on the account is late.         *)
LEMMA ConnectOk == ASSUME IInv, NEW m \in Mailboxes, Connect(m) PROVE IInv'
<1>0. box[m] \in BoxRecs /\ req[m] \in ReqRecs /\ BoxInv(m)
  BY Types
<1>1. Shape'
  <2>1. box' \in [Mailboxes -> BoxRecs]
    BY DEF Connect, IInv, Shape, BoxRecs
  <2>2. req' \in [Mailboxes -> ReqRecs]
    BY <1>0, Types DEF Connect, Shape
  <2> QED
    BY <2>1, <2>2 DEF Connect, IInv, Shape
<1>2. ASSUME NEW j \in Mailboxes PROVE (BoxInv(j) /\ GrantInv(j) /\ LockInv(j))'
  <2>1. BoxInv(j) /\ GrantInv(j) /\ LockInv(j)
    BY Types
  <2>2. LockInv(j)'
    BY <2>1 DEF LockInv, Connect
  <2>3. CASE j # m
    <3>1. box'[j] = box[j] /\ req'[j] = req[j]
      BY <2>3 DEF Connect, IInv, Shape
    <3>2. GrantInv(j)'
      <4>1. (j \in grant' => j \in grant) /\ (j \in late \cup lax => j \in late' \cup lax')
        BY <2>3 DEF Connect
      <4> QED
        BY <2>1, <3>1, <4>1 DEF GrantInv
    <3>3. BoxInv(j)'
      BY <2>1, <2>3, <3>1 DEF BoxInv, Connect
    <3> QED
      BY <2>2, <3>2, <3>3
  <2>4. CASE j = m
    <3>1. box'[m] = [status |-> "active", creds |-> TRUE]
      BY DEF Connect, IInv, Shape
    <3>2. req'[m].state = "none"
      BY <1>0 DEF Connect, IInv, Shape, ReconnectRefused, NoRequest, ReqRecs
    <3> QED
      BY <2>2, <2>4, <3>1, <3>2 DEF BoxInv, GrantInv
  <2> QED
    BY <2>3, <2>4
<1>3. ASSUME NEW p \in Purgers PROVE (PurgeInv(p) /\ EvidenceInv(p))'
  <2>1. PurgeInv(p) /\ EvidenceInv(p)
    BY Types
  <2>2. EvidenceInv(p)'
    BY <2>1 DEF Connect, EvidenceInv
  <2>3. CASE purge[p].pc \in AccountWork
    <3>1. late' = late \cup {m}
      BY <2>3 DEF Connect
    <3> QED
      BY <2>1, <2>2, <3>1 DEF Connect, PurgeInv
  <2>4. CASE purge[p].pc \notin AccountWork
    BY <2>1, <2>2, <2>4 DEF Connect, PurgeInv, AccountWork
  <2> QED
    BY <2>3, <2>4
<1>4. DroppedCleanly'
  BY DEF Connect, DroppedCleanly
<1> QED
  BY <1>1, <1>2, <1>3, <1>4 DEF IInv

LEMMA DisconnectOk == ASSUME IInv, NEW m \in Mailboxes, Disconnect(m) PROVE IInv'
<1>1. Shape'
  <2>1. box' \in [Mailboxes -> BoxRecs]
    BY DEF Disconnect, IInv, Shape, BoxRecs
  <2> QED
    BY <2>1 DEF Disconnect, IInv, Shape
<1>2. ASSUME NEW j \in Mailboxes PROVE (BoxInv(j) /\ GrantInv(j) /\ LockInv(j))'
  <2>1. BoxInv(j) /\ GrantInv(j) /\ LockInv(j)
    BY Types
  <2>2. box'[j] = IF j = m THEN [status |-> "disconnected", creds |-> FALSE] ELSE box[j]
    BY DEF Disconnect, IInv, Shape
  <2> QED
    BY <2>1, <2>2 DEF Disconnect, BoxInv, GrantInv, LockInv
<1>3. ASSUME NEW p \in Purgers PROVE (PurgeInv(p) /\ EvidenceInv(p))'
  BY Types DEF Disconnect, PurgeInv, EvidenceInv
<1>4. DroppedCleanly'
  BY DEF Disconnect, DroppedCleanly
<1> QED
  BY <1>1, <1>2, <1>3, <1>4 DEF IInv

LEMMA RequestMailboxOk == ASSUME IInv, NEW m \in Mailboxes, RequestMailbox(m) PROVE IInv'
<1>1. Shape'
  <2>1. req' \in [Mailboxes -> ReqRecs]
    BY DEF RequestMailbox, IInv, Shape, ReqRecs
  <2> QED
    BY <2>1 DEF RequestMailbox, IInv, Shape
<1>2. ASSUME NEW j \in Mailboxes PROVE (BoxInv(j) /\ GrantInv(j) /\ LockInv(j))'
  <2>1. req'[j] = IF j = m THEN [state |-> "pending", stale |-> FALSE] ELSE req[j]
    BY DEF RequestMailbox, IInv, Shape
  <2> QED
    BY <2>1, Types DEF RequestMailbox, BoxInv, GrantInv, LockInv
<1>3. ASSUME NEW p \in Purgers PROVE (PurgeInv(p) /\ EvidenceInv(p))'
  BY Types DEF RequestMailbox, PurgeInv, EvidenceInv
<1>4. DroppedCleanly'
  BY DEF RequestMailbox, DroppedCleanly, IInv
<1> QED
  BY <1>1, <1>2, <1>3, <1>4 DEF IInv

LEMMA BillingEventOk == ASSUME IInv, BillingEvent PROVE IInv'
<1>1. billing' \in [live : BOOLEAN, rev : Nat] /\ billing'.rev = billing.rev + 1
  BY DEF BillingEvent, IInv, Shape
<1>2. Shape'
  BY <1>1 DEF BillingEvent, IInv, Shape
<1>3. ASSUME NEW j \in Mailboxes PROVE (BoxInv(j) /\ GrantInv(j) /\ LockInv(j))'
  BY Types DEF BillingEvent, BoxInv, GrantInv, LockInv
<1>4. ASSUME NEW p \in Purgers PROVE (PurgeInv(p) /\ EvidenceInv(p))'
  <2>1. purge[p].seen \in Nat /\ billing.rev \in Nat
    BY DEF IInv, Shape, PurgeRecs
  <2> QED
    BY <1>1, <2>1, Types DEF BillingEvent, PurgeInv, EvidenceInv
<1>5. DroppedCleanly'
  BY DEF BillingEvent, DroppedCleanly
<1> QED
  BY <1>2, <1>3, <1>4, <1>5 DEF IInv

-------------------------------------------------------------------------------
(* Syncs and late writers.                                                 *)

LEMMA SyncStartOk == ASSUME IInv, NEW m \in Mailboxes, SyncStart(m) PROVE IInv'
  BY DEF IInv, SyncStart, Shape, BoxInv, GrantInv, LockInv, PurgeInv, EvidenceInv, DroppedCleanly

LEMMA ScanFetchOk == ASSUME IInv, NEW m \in Mailboxes, ScanFetch(m) PROVE IInv'
  BY DEF IInv, ScanFetch, Shape, BoxInv, GrantInv, LockInv, PurgeInv, EvidenceInv, DroppedCleanly

(* A step that writes messages, dead letters, or notes a late write.       *)
WritesOnly == UNCHANGED <<user, requests, box, world, lock, purge, trail, late, lax>>

LEMMA WritesOk ==
  ASSUME IInv, WritesOnly,
         mail' \in [Mailboxes -> 0 .. MaxRows], letters' \subseteq Mailboxes,
         leaked \subseteq leaked',
         \A m \in Mailboxes :
           /\ box[m].status = "absent" => mail'[m] = mail[m]
           /\ req[m].state = "completed" => /\ m \in letters' => m \in letters
                                            /\ mail'[m] = mail[m] \/ m \in leaked'
  PROVE  IInv'
<1>1. Shape'
  BY DEF IInv, Shape, WritesOnly
<1>2. ASSUME NEW j \in Mailboxes PROVE (BoxInv(j) /\ GrantInv(j) /\ LockInv(j))'
  BY Types DEF WritesOnly, BoxInv, GrantInv, LockInv
<1>3. ASSUME NEW p \in Purgers PROVE (PurgeInv(p) /\ EvidenceInv(p))'
  BY Types DEF WritesOnly, PurgeInv, EvidenceInv
<1>4. DroppedCleanly'
  BY Types DEF WritesOnly, DroppedCleanly
<1> QED
  BY <1>1, <1>2, <1>3, <1>4 DEF IInv

(* One message more in the store of m.                                     *)
LEMMA OneMore ==
  ASSUME IInv, NEW m \in Mailboxes, mail[m] # MaxRows
  PROVE  LET more == [mail EXCEPT ![m] = @ + 1] IN
         /\ more \in [Mailboxes -> 0 .. MaxRows]
         /\ \A j \in Mailboxes \ {m} : more[j] = mail[j]
  BY Types DEF Shape

LEMMA OneLess ==
  ASSUME IInv, NEW m \in Mailboxes, mail[m] > 0
  PROVE  LET less == [mail EXCEPT ![m] = @ - 1] IN
         /\ less \in [Mailboxes -> 0 .. MaxRows]
         /\ \A j \in Mailboxes : mail[j] = 0 => less[j] = mail[j]
  BY Types DEF Shape

LEMMA ScanFlushOk == ASSUME IInv, NEW m \in Mailboxes, ScanFlush(m) PROVE IInv'
<1>0. WritesOnly /\ letters' = letters
  BY DEF ScanFlush, WritesOnly
<1>1. CASE box[m].status = "absent" \/ mail[m] = MaxRows
  <2>1. mail' = mail /\ leaked' = leaked
    BY <1>1 DEF ScanFlush
  <2> QED
    BY <1>0, <2>1, WritesOk, Types DEF Shape
<1>2. CASE ~(box[m].status = "absent" \/ mail[m] = MaxRows)
  <2>1. /\ mail' = [mail EXCEPT ![m] = @ + 1]
        /\ leaked' = IF req[m].state = "completed" THEN leaked \cup {m} ELSE leaked
    BY <1>2 DEF ScanFlush
  <2>2. /\ mail' \in [Mailboxes -> 0 .. MaxRows]
        /\ \A j \in Mailboxes \ {m} : mail'[j] = mail[j]
    BY <1>2, <2>1, OneMore
  <2> QED
    BY <1>0, <1>2, <2>1, <2>2, WritesOk, Types DEF Shape
<1> QED
  BY <1>1, <1>2

LEMMA IncrementalWritesOk == ASSUME IInv, NEW m \in Mailboxes, IncrementalWrites(m) PROVE IInv'
<1>0. WritesOnly /\ letters' = letters
  BY DEF IncrementalWrites, WritesOnly
<1>1. CASE ~(box[m].status # "absent" /\ m \in grant /\ mail[m] < MaxRows)
  <2>1. mail' = mail
    BY <1>1 DEF IncrementalWrites
  <2>2. leaked' = leaked
    BY <2>1 DEF IncrementalWrites
  <2> QED
    BY <1>0, <2>1, <2>2, WritesOk, Types DEF Shape
<1>2. CASE box[m].status # "absent" /\ m \in grant /\ mail[m] < MaxRows
  <2>1. mail' = [mail EXCEPT ![m] = @ + 1]
    BY <1>2 DEF IncrementalWrites
  <2>2. mail[m] # MaxRows /\ mail'[m] # mail[m]
    BY <1>2, <2>1, Types DEF Shape
  <2>3. leaked' = IF req[m].state = "completed" THEN leaked \cup {m} ELSE leaked
    BY <2>2 DEF IncrementalWrites
  <2>4. /\ mail' \in [Mailboxes -> 0 .. MaxRows]
        /\ \A j \in Mailboxes \ {m} : mail'[j] = mail[j]
    BY <2>1, <2>2, OneMore
  <2> QED
    BY <1>0, <1>2, <2>3, <2>4, WritesOk, Types DEF Shape
<1> QED
  BY <1>1, <1>2

LEMMA SyncFailsOk == ASSUME IInv, NEW m \in Mailboxes, SyncFails(m) PROVE IInv'
<1>1. WritesOnly /\ mail' = mail /\ leaked' = leaked
  BY DEF SyncFails, WritesOnly
<1>2. letters' \subseteq Mailboxes
  BY Types DEF SyncFails, Shape
<1>3. \A j \in Mailboxes : req[j].state = "completed" => (j \in letters' => j \in letters)
  BY DEF SyncFails, Recordable
<1> QED
  BY <1>1, <1>2, <1>3, WritesOk, Types DEF Shape

-------------------------------------------------------------------------------
(* The steps of a sweep.                                                   *)

(* The other sweeps are where they were.                                   *)
LEMMA OthersStay ==
  ASSUME IInv, NEW p \in Purgers, NEW q \in Purgers \ {p}, NEW t,
         purge' = [purge EXCEPT ![p] = t], billing' = billing,
         grant' \ (late' \cup lax') \subseteq grant \ (late \cup lax),
         receipt => receipt', audits => audits'
  PROVE  purge'[q] = purge[q] /\ PurgeInv(q)' /\ EvidenceInv(q)'
<1>1. purge'[q] = purge[q]
  BY Types DEF Shape
<1>2. PurgeInv(q) /\ EvidenceInv(q)
  BY Types
<1>3. EvidenceInv(q)'
  BY <1>1, <1>2 DEF EvidenceInv
<1>4. \A S : grant \subseteq late \cup lax \cup S => grant' \subseteq late' \cup lax' \cup S
  OBVIOUS
<1>5. PurgeInv(q)'
  <2>1. grant \subseteq late \cup lax => grant' \subseteq late' \cup lax'
    OBVIOUS
  <2> QED
    BY <1>1, <1>2, <1>4, <2>1 DEF PurgeInv
<1> QED
  BY <1>1, <1>3, <1>5

(* A step of a sweep on the account that leaves the mailboxes alone.       *)
MovesTo(p, t) ==
  /\ purge' = [purge EXCEPT ![p] = t]
  /\ UNCHANGED <<user, req, store, billing, lock, ghosts>>

LEMMA MovesOk ==
  ASSUME IInv, NEW p \in Purgers, NEW t \in PurgeRecs, MovesTo(p, t),
         purge[p].pc \notin BoxWork,
         acct' \in AcctRecs, {receipt', audits'} \subseteq BOOLEAN,
         grant' \subseteq grant, receipt => receipt', audits => audits',
         PurgeInv(p)', EvidenceInv(p)'
  PROVE  IInv'
<1>1. purge'[p] = t /\ purge' \in [Purgers -> PurgeRecs]
  BY Types DEF Shape, MovesTo
<1>2. Shape'
  BY <1>1, Types DEF Shape, MovesTo
<1>3. ASSUME NEW q \in Purgers \ {p}
      PROVE  purge'[q] = purge[q] /\ PurgeInv(q)' /\ EvidenceInv(q)'
  BY OthersStay DEF MovesTo
<1>4. ASSUME NEW j \in Mailboxes PROVE (BoxInv(j) /\ GrantInv(j) /\ LockInv(j))'
  <2>1. BoxInv(j)' /\ GrantInv(j)'
    BY Types DEF MovesTo, BoxInv, GrantInv
  <2>2. lock'[j] = lock[j] /\ LockInv(j) /\ lock[j] \in Purgers \cup {None}
    BY Types DEF MovesTo
  <2>3. lock[j] # None => lock[j] \in Purgers \ {p}
    BY <2>2 DEF LockInv
  <2>4. lock[j] # None => purge'[lock[j]] = purge[lock[j]]
    BY <1>3, <2>3
  <2>5. LockInv(j)'
    BY <2>2, <2>4 DEF LockInv
  <2> QED
    BY <2>1, <2>5
<1>5. DroppedCleanly'
  BY Types DEF MovesTo, DroppedCleanly
<1> QED
  BY <1>1, <1>2, <1>3, <1>4, <1>5 DEF IInv

(* However it stops, the sweep goes on to the mailboxes.                   *)
LEMMA StopsOk ==
  ASSUME IInv, NEW p \in Purgers, Stops(p), purge[p].pc \notin BoxWork,
         acct' \in AcctRecs, UNCHANGED <<user, req, store, world, lock, trail, ghosts>>
  PROVE  IInv'
<1>1. Onward \in PurgeRecs
  BY DEF Onward, PurgeRecs
<1>2. MovesTo(p, Onward)
  BY DEF MovesTo, Stops
<1>3. purge'[p] = Onward
  BY Types DEF Shape, Stops
<1>4. PurgeInv(p)' /\ EvidenceInv(p)'
  BY <1>3 DEF Onward, PurgeInv, EvidenceInv, AccountWork, BoxWork
<1> QED
  BY <1>1, <1>2, <1>4, MovesOk, Types DEF Shape

(* The account purge goes on to a step before its list of mailboxes.       *)
LEMMA GoesTo ==
  ASSUME IInv, NEW p \in Purgers, NEW pc, Goes(p, pc), [purge[p] EXCEPT !.pc = pc] \in PurgeRecs
  PROVE  /\ purge' = [purge EXCEPT ![p] = [purge[p] EXCEPT !.pc = pc]]
         /\ purge'[p] = [purge[p] EXCEPT !.pc = pc]
         /\ purge'[p].pc = pc /\ purge'[p].todo = purge[p].todo
         /\ purge'[p].box = purge[p].box /\ purge'[p].seen = purge[p].seen
  BY Types DEF Shape, Goes, PurgeRecs

PCs == {"idle", "check", "verify", "claim", "box", "lock"} \cup AccountWork \cup BoxWork

LEMMA GoesTyped ==
  ASSUME IInv, NEW p \in Purgers, NEW pc \in PCs
  PROVE  [purge[p] EXCEPT !.pc = pc] \in PurgeRecs
<1>1. purge[p] \in PurgeRecs
  BY Types
<1> QED
  BY <1>1 DEF PurgeRecs, PCs

LEMMA GoesOk ==
  ASSUME IInv, NEW p \in Purgers, NEW pc \in PCs \ BoxWork, Goes(p, pc),
         purge[p].pc \notin BoxWork,
         acct' \in AcctRecs, {receipt', audits'} \subseteq BOOLEAN,
         UNCHANGED <<user, req, store, world, lock, ghosts>>,
         receipt => receipt', audits => audits',
         pc \notin {"lock", "revoke", "claim", "final"},
         pc \in AccountWork => grant \subseteq late \cup lax,
         pc \in {"audit", "drop", "reverify"} => receipt',
         pc \in {"drop", "reverify"} => audits'
  PROVE  IInv'
<1>1. [purge[p] EXCEPT !.pc = pc] \in PurgeRecs
  BY GoesTyped
<1>2. purge' = [purge EXCEPT ![p] = [purge[p] EXCEPT !.pc = pc]] /\ purge'[p].pc = pc
  BY <1>1, GoesTo
<1>3. MovesTo(p, [purge[p] EXCEPT !.pc = pc])
  BY <1>2 DEF MovesTo
<1>4. PurgeInv(p)' /\ EvidenceInv(p)'
  BY <1>2 DEF PurgeInv, EvidenceInv
<1> QED
  BY <1>1, <1>3, <1>4, MovesOk

-------------------------------------------------------------------------------
(* The purge of the account.                                               *)

LEMMA Facts ==
  ASSUME IInv
  PROVE  /\ acct \in AcctRecs /\ user \in BOOLEAN /\ {receipt, audits} \subseteq BOOLEAN
         /\ billing.rev \in Nat /\ grant \subseteq Mailboxes
         /\ purge \in [Purgers -> PurgeRecs]
         /\ \A p \in Purgers : /\ purge[p].seen \in Nat /\ purge[p].todo \subseteq Mailboxes
                               /\ purge[p].box \in Mailboxes \cup {None}
  BY Types DEF Shape, PurgeRecs

LEMMA SweepStartOk == ASSUME IInv, NEW p \in Purgers, SweepStart(p) PROVE IInv'
<1>1. CASE Stops(p)
  BY <1>1, StopsOk, Facts DEF SweepStart, BoxWork
<1>2. CASE Goes(p, "check")
  BY <1>2, GoesOk, Facts DEF SweepStart, BoxWork, AccountWork, PCs
<1> QED
  BY <1>1, <1>2 DEF SweepStart

LEMMA PurgeCheckOk == ASSUME IInv, NEW p \in Purgers, PurgeCheck(p) PROVE IInv'
<1>1. CASE Goes(p, "verify") /\ acct' = acct
  BY <1>1, GoesOk, Facts DEF PurgeCheck, BoxWork, AccountWork, PCs
<1>2. CASE Blocked(p)
  <2>1. acct' \in AcctRecs
    BY <1>2, Facts DEF Blocked, AcctRecs
  <2> QED
    BY <1>2, <2>1, StopsOk DEF PurgeCheck, Blocked, BoxWork
<1> QED
  BY <1>1, <1>2 DEF PurgeCheck

(* Evidence is noted with its revision, so it is good until the next.      *)
LEMMA VerifyOk ==
  ASSUME IInv, NEW p \in Purgers,
         \/ purge[p].pc = "verify" /\ Verify(p, "claim")
         \/ purge[p].pc = "reverify" /\ Verify(p, "final")
  PROVE  IInv'
<1>0. UNCHANGED <<user, requests, store, world, lock, sync, trail, acts, ghosts>>
  BY DEF Verify
<1>1. CASE Stops(p)
  BY <1>0, <1>1, StopsOk, Facts DEF BoxWork
<1>2. CASE ~Stops(p)
  <2>1. PICK pc \in {"claim", "final"} :
          /\ purge[p].pc = (IF pc = "claim" THEN "verify" ELSE "reverify")
          /\ ~billing.live
          /\ purge' = [purge EXCEPT ![p].pc = pc, ![p].seen = billing.rev]
    BY <1>2 DEF Verify
  <2> DEFINE t == [purge[p] EXCEPT !.pc = pc, !.seen = billing.rev]
  <2>2. purge' = [purge EXCEPT ![p] = t]
    BY <2>1, Facts
  <2>3. t \in PurgeRecs /\ t.pc = pc /\ t.seen = billing.rev
    <3>1. purge[p] \in PurgeRecs
      BY Types
    <3> QED
      BY <3>1, Facts DEF PurgeRecs, AccountWork
  <2> HIDE DEF t
  <2>4. MovesTo(p, t) /\ purge'[p] = t
    BY <1>0, <2>2, Facts DEF MovesTo
  <2>5. EvidenceInv(p)'
    BY <1>0, <2>1, <2>3, <2>4, Facts DEF EvidenceInv
  <2>6. PurgeInv(p)'
    <3>1. PurgeInv(p)
      BY Types
    <3> QED
      BY <1>0, <2>1, <2>3, <2>4, <3>1 DEF PurgeInv, AccountWork, BoxWork
  <2> QED
    BY <1>0, <2>1, <2>3, <2>4, <2>5, <2>6, MovesOk, Facts DEF BoxWork
<1> QED
  BY <1>1, <1>2

(* Every live grant is on the list the claim takes, or a known exception.  *)
LEMMA PurgeClaimOk == ASSUME IInv, NEW p \in Purgers, PurgeClaim(p) PROVE IInv'
<1>0. purge[p].pc = "claim" /\ UNCHANGED <<user, req, store, world, lock, sync, trail, acts, faults, ghosts>>
  BY DEF PurgeClaim
<1>1. CASE acct' = acct /\ Stops(p)
  BY <1>0, <1>1, StopsOk, Facts DEF BoxWork
<1>2. CASE ~(acct' = acct /\ Stops(p))
  <2> DEFINE held == {m \in Mailboxes : box[m].creds}
             t == [purge[p] EXCEPT !.pc = "revoke", !.todo = held]
  <2>1. /\ acct' = [state |-> "executing", stale |-> FALSE]
        /\ purge' = [purge EXCEPT ![p].pc = "revoke", ![p].todo = held]
    BY <1>2 DEF PurgeClaim
  <2>2. purge' = [purge EXCEPT ![p] = t]
    BY <2>1, Facts
  <2>3. t \in PurgeRecs /\ t.pc = "revoke" /\ t.todo = held
    <3>1. purge[p] \in PurgeRecs
      BY Types
    <3> QED
      BY <3>1 DEF PurgeRecs, AccountWork
  <2>4. grant \subseteq late \cup lax \cup held
    BY Types, Facts DEF GrantInv
  <2> HIDE DEF t, held
  <2>5. MovesTo(p, t) /\ purge'[p] = t
    BY <1>0, <2>2, Facts DEF MovesTo
  <2>6. PurgeInv(p)' /\ EvidenceInv(p)'
    BY <1>0, <2>3, <2>4, <2>5 DEF PurgeInv, EvidenceInv, AccountWork, BoxWork
  <2>7. acct' \in AcctRecs
    BY <2>1 DEF AcctRecs
  <2> QED
    BY <1>0, <2>3, <2>5, <2>6, <2>7, MovesOk, Facts DEF BoxWork
<1> QED
  BY <1>1, <1>2

LEMMA PurgeRevokeOk == ASSUME IInv, NEW p \in Purgers, PurgeRevoke(p) PROVE IInv'
<1>0. /\ purge[p].pc = "revoke"
      /\ UNCHANGED <<user, requests, store, billing, lock, sync, trail, acts, late, lax, leaked>>
  BY DEF PurgeRevoke
<1>1. PurgeInv(p)
  BY Types
<1>2. CASE purge[p].todo = {} /\ Goes(p, "recheck") /\ grant' = grant
  BY <1>0, <1>1, <1>2, GoesOk, Facts DEF PurgeInv, BoxWork, AccountWork, PCs
<1>3. ASSUME NEW m \in purge[p].todo, Stops(p), grant' = grant PROVE IInv'
  BY <1>0, <1>3, StopsOk, Facts DEF BoxWork
<1>4. ASSUME NEW m \in purge[p].todo,
             grant' = IF box[m].creds THEN grant \ {m} ELSE grant,
             purge' = [purge EXCEPT ![p].todo = @ \ {m}]
      PROVE  IInv'
  <2> DEFINE t == [purge[p] EXCEPT !.todo = @ \ {m}]
  <2>1. purge' = [purge EXCEPT ![p] = t]
    BY <1>4, Facts
  <2>2. t \in PurgeRecs /\ t.pc = "revoke" /\ t.todo = purge[p].todo \ {m}
    <3>1. purge[p] \in PurgeRecs
      BY Types
    <3> QED
      BY <1>0, <3>1 DEF PurgeRecs
  <2> HIDE DEF t
  <2>3. MovesTo(p, t) /\ purge'[p] = t
    BY <1>0, <2>1, Facts DEF MovesTo
  <2>4. m \in grant' => m \in late \cup lax
    <3>1. m \in Mailboxes
      BY <1>4, Facts
    <3> QED
      BY <1>4, <3>1, Types DEF GrantInv
  <2>5. grant' \subseteq late \cup lax \cup t.todo
    BY <1>0, <1>1, <1>4, <2>2, <2>4 DEF PurgeInv
  <2>6. PurgeInv(p)' /\ EvidenceInv(p)'
    BY <1>0, <2>2, <2>3, <2>5 DEF PurgeInv, EvidenceInv, AccountWork, BoxWork
  <2> QED
    BY <1>0, <1>4, <2>2, <2>3, <2>6, MovesOk, Facts DEF BoxWork
<1> QED
  BY <1>2, <1>3, <1>4 DEF PurgeRevoke, RevokeFails, Stops

LEMMA PurgeRecheckOk == ASSUME IInv, NEW p \in Purgers, PurgeRecheck(p) PROVE IInv'
<1>1. CASE Stops(p)
  BY <1>1, StopsOk, Facts DEF PurgeRecheck, BoxWork
<1>2. CASE Goes(p, "receipt")
  <2>1. grant \subseteq late \cup lax
    BY Types DEF PurgeRecheck, PurgeInv, AccountWork
  <2> QED
    BY <1>2, <2>1, GoesOk, Facts DEF PurgeRecheck, BoxWork, PCs, AccountWork
<1> QED
  BY <1>1, <1>2 DEF PurgeRecheck

LEMMA PurgeReceiptOk == ASSUME IInv, NEW p \in Purgers, PurgeReceipt(p) PROVE IInv'
<1>1. grant \subseteq late \cup lax
  BY Types DEF PurgeReceipt, PurgeInv, AccountWork
<1> QED
  BY <1>1, GoesOk, Facts DEF PurgeReceipt, BoxWork, PCs, AccountWork

LEMMA PurgeAuditOk == ASSUME IInv, NEW p \in Purgers, PurgeAudit(p) PROVE IInv'
<1>1. grant \subseteq late \cup lax /\ receipt
  BY Types DEF PurgeAudit, PurgeInv, AccountWork
<1> QED
  BY <1>1, GoesOk, Facts DEF PurgeAudit, BoxWork, PCs, AccountWork

(* A step of a sweep that changes mailboxes.                               *)
LEMMA StepOk ==
  ASSUME IInv, NEW p \in Purgers, NEW t \in PurgeRecs, purge' = [purge EXCEPT ![p] = t],
         UNCHANGED <<user, billing, trail, late, lax>>,
         acct' = acct, grant' \subseteq grant,
         req' \in [Mailboxes -> ReqRecs], box' \in [Mailboxes -> BoxRecs],
         mail' \in [Mailboxes -> 0 .. MaxRows], letters' \subseteq Mailboxes,
         lock' \in [Mailboxes -> Purgers \cup {None}],
         PurgeInv(p)', EvidenceInv(p)',
         \A m \in Mailboxes : BoxInv(m)' /\ GrantInv(m)' /\ LockInv(m)'
  PROVE  IInv'
<1>1. Shape'
  BY Types DEF Shape
<1>2. ASSUME NEW q \in Purgers \ {p} PROVE PurgeInv(q)' /\ EvidenceInv(q)'
  BY OthersStay
<1>3. DroppedCleanly'
  BY Types DEF DroppedCleanly
<1> QED
  BY <1>1, <1>2, <1>3 DEF IInv

(* A lock that another sweep holds is as it was.                           *)
LEMMA LockKeeps ==
  ASSUME IInv, NEW p \in Purgers, NEW t, purge' = [purge EXCEPT ![p] = t],
         NEW j \in Mailboxes, lock'[j] = lock[j], lock[j] # p
  PROVE  LockInv(j)'
<1>1. LockInv(j) /\ lock[j] \in Purgers \cup {None}
  BY Types
<1>2. lock[j] # None => purge'[lock[j]] = purge[lock[j]]
  BY <1>1, Facts
<1> QED
  BY <1>1, <1>2 DEF LockInv

LEMMA ReleaseKeeps ==
  ASSUME IInv, NEW p \in Purgers, NEW t, purge' = [purge EXCEPT ![p] = t], lock' = Releases(p)
  PROVE  /\ lock' \in [Mailboxes -> Purgers \cup {None}]
         /\ \A j \in Mailboxes : LockInv(j)'
<1>1. lock' \in [Mailboxes -> Purgers \cup {None}]
  BY Types DEF Releases, Shape
<1>2. ASSUME NEW j \in Mailboxes PROVE LockInv(j)'
  <2>1. CASE lock[j] = p
    BY <2>1 DEF Releases, LockInv
  <2>2. CASE lock[j] # p
    BY <2>2, LockKeeps DEF Releases
  <2> QED
    BY <2>1, <2>2
<1> QED
  BY <1>1, <1>2

(* A sweep that works on no mailbox holds no lock.                         *)
LEMMA HoldsNone ==
  ASSUME IInv, NEW p \in Purgers, purge[p].pc \notin BoxWork, NEW j \in Mailboxes
  PROVE  lock[j] # p
  BY Types DEF LockInv

(* With the user's mailboxes go the requests about them.                   *)
LEMMA PurgeDropOk == ASSUME IInv, NEW p \in Purgers, PurgeDrop(p) PROVE IInv'
<1>0. /\ purge[p].pc = "drop"
      /\ UNCHANGED <<user, acct, world, lock, sync, trail, acts, faults, late, lax, leaked>>
  BY DEF PurgeDrop
<1>1. CASE \E m \in Mailboxes : mail[m] > 0
  <2>1. /\ \E m \in Mailboxes : mail[m] > 0 /\ mail' = [mail EXCEPT ![m] = @ - 1]
        /\ UNCHANGED <<purge, box, letters, req>>
    BY <1>1 DEF PurgeDrop
  <2>2. PICK m \in Mailboxes : mail[m] > 0 /\ mail' = [mail EXCEPT ![m] = @ - 1]
    BY <2>1
  <2>3. /\ mail' \in [Mailboxes -> 0 .. MaxRows]
        /\ \A j \in Mailboxes : mail[j] = 0 => mail'[j] = mail[j]
    BY <2>2, OneLess
  <2>4. Shape'
    BY <1>0, <2>1, <2>3, Types DEF Shape
  <2>5. ASSUME NEW j \in Mailboxes PROVE (BoxInv(j) /\ GrantInv(j) /\ LockInv(j))'
    <3>1. BoxInv(j) /\ GrantInv(j) /\ LockInv(j)
      BY Types
    <3>2. BoxInv(j)'
      BY <1>0, <2>1, <2>3, <3>1 DEF BoxInv
    <3> QED
      BY <1>0, <2>1, <3>1, <3>2 DEF GrantInv, LockInv
  <2>6. ASSUME NEW q \in Purgers PROVE (PurgeInv(q) /\ EvidenceInv(q))'
    BY <1>0, <2>1, Types DEF PurgeInv, EvidenceInv
  <2>7. DroppedCleanly'
    BY <1>0, Types DEF DroppedCleanly
  <2> QED
    BY <2>4, <2>5, <2>6, <2>7 DEF IInv
<1>2. CASE ~ \E m \in Mailboxes : mail[m] > 0
  <2> DEFINE t == [purge[p] EXCEPT !.pc = "reverify"]
  <2>1. /\ box' = [m \in Mailboxes |-> Absent] /\ req' = [m \in Mailboxes |-> NoRequest]
        /\ letters' = {} /\ mail' = mail /\ Goes(p, "reverify")
    BY <1>2 DEF PurgeDrop
  <2>2. t \in PurgeRecs
    BY GoesTyped DEF PCs, AccountWork
  <2>3. purge' = [purge EXCEPT ![p] = t] /\ purge'[p].pc = "reverify"
    BY <2>1, <2>2, GoesTo
  <2> HIDE DEF t
  <2>4. grant \subseteq late \cup lax /\ receipt /\ audits
    BY <1>0, Types DEF PurgeInv, AccountWork
  <2>5. PurgeInv(p)' /\ EvidenceInv(p)'
    BY <1>0, <2>3, <2>4 DEF PurgeInv, EvidenceInv, BoxWork
  <2>6. ASSUME NEW j \in Mailboxes PROVE BoxInv(j)' /\ GrantInv(j)' /\ LockInv(j)'
    <3>1. mail[j] = 0
      BY <1>2, Types
    <3>2. BoxInv(j)'
      BY <2>1, <3>1 DEF BoxInv, Absent, NoRequest
    <3>3. GrantInv(j)'
      BY <1>0, <2>4 DEF GrantInv
    <3>4. LockInv(j)'
      BY <1>0, <2>3, HoldsNone, LockKeeps DEF BoxWork
    <3> QED
      BY <3>2, <3>3, <3>4
  <2>7. /\ req' \in [Mailboxes -> ReqRecs] /\ box' \in [Mailboxes -> BoxRecs]
        /\ mail' \in [Mailboxes -> 0 .. MaxRows] /\ letters' \subseteq Mailboxes
        /\ lock' \in [Mailboxes -> Purgers \cup {None}]
    BY <1>0, <2>1, Types DEF Shape
  <2> QED
    BY <1>0, <2>2, <2>3, <2>5, <2>6, <2>7, StepOk
<1> QED
  BY <1>1, <1>2

(* The user goes after the receipt, the audit row and the grants.          *)
LEMMA PurgeFinalOk == ASSUME IInv, NEW p \in Purgers, PurgeFinal(p) PROVE IInv'
<1>0. purge[p].pc = "final" /\ Stops(p) /\ UNCHANGED <<world, lock, sync, trail, acts, faults, ghosts>>
  BY DEF PurgeFinal
<1>1. CASE ~(user /\ EvidenceUnchanged(p))
  BY <1>0, <1>1, StopsOk, Facts DEF PurgeFinal, BoxWork
<1>2. CASE user /\ EvidenceUnchanged(p)
  <2>1. /\ user' = FALSE /\ acct' = NoRequest
        /\ box' = [m \in Mailboxes |-> Absent] /\ req' = [m \in Mailboxes |-> NoRequest]
        /\ mail' = [m \in Mailboxes |-> 0] /\ letters' = {}
    BY <1>2 DEF PurgeFinal
  <2>2. purge' = [purge EXCEPT ![p] = Onward] /\ purge'[p] = Onward /\ Onward \in PurgeRecs
    BY <1>0, Facts DEF Stops, Onward, PurgeRecs
  <2>3. grant \subseteq late \cup lax /\ receipt /\ audits
    BY <1>0, Types DEF PurgeInv, AccountWork
  <2>4. Shape'
    <3>1. /\ acct' \in AcctRecs /\ req' \in [Mailboxes -> ReqRecs] /\ box' \in [Mailboxes -> BoxRecs]
          /\ mail' \in [Mailboxes -> 0 .. MaxRows]
      BY <2>1, Types DEF AcctRecs, NoRequest
    <3> QED
      BY <1>0, <2>1, <2>2, <3>1, Types DEF Shape
  <2>5. ASSUME NEW j \in Mailboxes PROVE BoxInv(j)' /\ GrantInv(j)' /\ LockInv(j)'
    <3>1. BoxInv(j)'
      BY <2>1 DEF BoxInv, Absent, NoRequest
    <3>2. GrantInv(j)'
      BY <1>0, <2>3 DEF GrantInv
    <3>3. LockInv(j)'
      BY <1>0, <2>2, HoldsNone, LockKeeps DEF BoxWork
    <3> QED
      BY <3>1, <3>2, <3>3
  <2>6. ASSUME NEW q \in Purgers PROVE PurgeInv(q)' /\ EvidenceInv(q)'
    <3>1. CASE q = p
      BY <2>2, <3>1 DEF Onward, PurgeInv, EvidenceInv, AccountWork, BoxWork
    <3>2. CASE q # p
      BY <1>0, <2>2, <3>2, OthersStay
    <3> QED
      BY <3>1, <3>2
  <2>7. DroppedCleanly'
    BY <1>0, <2>3 DEF DroppedCleanly
  <2> QED
    BY <2>4, <2>5, <2>6, <2>7 DEF IInv
<1> QED
  BY <1>1, <1>2

-------------------------------------------------------------------------------
(* The purge of one mailbox.                                               *)

LEMMA OneReq ==
  ASSUME IInv, NEW m \in Mailboxes, NEW s \in ReqRecs, req' = [req EXCEPT ![m] = s]
  PROVE  /\ req' \in [Mailboxes -> ReqRecs] /\ req'[m] = s
         /\ \A j \in Mailboxes \ {m} : req'[j] = req[j]
  BY Types DEF Shape

LEMMA SweepMailboxOk == ASSUME IInv, NEW p \in Purgers, SweepMailbox(p) PROVE IInv'
<1>0. purge[p].pc = "box" /\ UNCHANGED <<user, acct, store, world, lock, sync, trail, acts, faults, ghosts>>
  BY DEF SweepMailbox
<1>1. CASE purge' = [purge EXCEPT ![p] = IdlePurge] /\ req' = req
  <2>1. MovesTo(p, IdlePurge)
    BY <1>0, <1>1 DEF MovesTo
  <2>2. IdlePurge \in PurgeRecs /\ purge'[p] = IdlePurge
    BY <1>1, Facts DEF IdlePurge, PurgeRecs
  <2>3. PurgeInv(p)' /\ EvidenceInv(p)'
    BY <2>2 DEF IdlePurge, PurgeInv, EvidenceInv, AccountWork, BoxWork
  <2> QED
    BY <1>0, <2>1, <2>2, <2>3, MovesOk, Facts DEF BoxWork
<1>2. ASSUME NEW m \in Mailboxes, Claimable(req[m]), m \in purge[p].todo,
             req' = [req EXCEPT ![m] = [state |-> "executing", stale |-> FALSE]],
             purge' = [purge EXCEPT ![p].pc = "lock", ![p].box = m, ![p].todo = @ \ {m}]
      PROVE  IInv'
  <2> DEFINE t == [purge[p] EXCEPT !.pc = "lock", !.box = m, !.todo = @ \ {m}]
             s == [state |-> "executing", stale |-> FALSE]
  <2>1. purge' = [purge EXCEPT ![p] = t]
    BY <1>2, Facts
  <2>2. t \in PurgeRecs /\ t.pc = "lock" /\ t.box = m
    <3>1. purge[p] \in PurgeRecs
      BY Types
    <3> QED
      BY <3>1 DEF PurgeRecs
  <2>3. s \in ReqRecs /\ s.state = "executing" /\ req' = [req EXCEPT ![m] = s]
    BY <1>2 DEF ReqRecs
  <2> HIDE DEF t, s
  <2>4. /\ req' \in [Mailboxes -> ReqRecs] /\ req'[m] = s
        /\ \A j \in Mailboxes \ {m} : req'[j] = req[j]
    BY <2>3, OneReq
  <2>5. purge'[p] = t
    BY <2>1, Facts
  <2>6. PurgeInv(p)' /\ EvidenceInv(p)'
    BY <2>2, <2>5 DEF PurgeInv, EvidenceInv, AccountWork, BoxWork
  <2>7. ASSUME NEW j \in Mailboxes PROVE BoxInv(j)' /\ GrantInv(j)' /\ LockInv(j)'
    <3>1. BoxInv(j) /\ GrantInv(j)
      BY Types
    <3>2. BoxInv(j)'
      <4>1. req[m].state # "none"
        BY <1>2 DEF Claimable
      <4> QED
        BY <1>0, <2>3, <2>4, <3>1, <4>1 DEF BoxInv
    <3>3. GrantInv(j)'
      BY <1>0, <3>1 DEF GrantInv
    <3>4. LockInv(j)'
      BY <1>0, <2>1, HoldsNone, LockKeeps DEF BoxWork
    <3> QED
      BY <3>2, <3>3, <3>4
  <2> QED
    BY <1>0, <2>1, <2>2, <2>4, <2>6, <2>7, StepOk, Types DEF Shape
<1> QED
  <2>1. purge[p].todo \subseteq Mailboxes
    BY Facts
  <2> QED
    BY <1>1, <1>2, <2>1 DEF SweepMailbox

(* What leaves a mailbox: its lock, and a sweep with no mailbox.           *)
LEMMA EndsBoxOk ==
  ASSUME IInv, NEW p \in Purgers, EndsBox(p)
  PROVE  \E t \in PurgeRecs : /\ purge' = [purge EXCEPT ![p] = t] /\ purge'[p] = t
                              /\ t.pc = "box" /\ t.box = None
<1> DEFINE t == [purge[p] EXCEPT !.pc = "box", !.box = None]
<1>1. purge' = [purge EXCEPT ![p] = t] /\ purge'[p] = t
  BY Facts DEF EndsBox
<1>2. t \in PurgeRecs /\ t.pc = "box" /\ t.box = None
  <2>1. purge[p] \in PurgeRecs
    BY Types
  <2> QED
    BY <2>1 DEF PurgeRecs
<1> QED
  BY <1>1, <1>2

LEMMA AtBox ==
  ASSUME NEW p, purge'[p].pc = "box"
  PROVE  PurgeInv(p)' /\ EvidenceInv(p)'
  BY DEF PurgeInv, EvidenceInv, AccountWork, BoxWork

(* A failure of m is recorded over an executing request only.              *)
Fails(m) == req' = [req EXCEPT ![m].state = IF @ = "executing" THEN "failed" ELSE @]

LEMMA FailsOk ==
  ASSUME IInv, NEW m \in Mailboxes, Fails(m), UNCHANGED <<box, mail, letters, leaked, grant, late, lax>>
  PROVE  /\ req' \in [Mailboxes -> ReqRecs]
         /\ \A j \in Mailboxes : BoxInv(j)' /\ GrantInv(j)'
<1> DEFINE s == [req[m] EXCEPT !.state = IF @ = "executing" THEN "failed" ELSE @]
<1>1. req' = [req EXCEPT ![m] = s]
  BY Types DEF Fails, Shape
<1>2. s \in ReqRecs /\ s.state = IF req[m].state = "executing" THEN "failed" ELSE req[m].state
  <2>1. req[m] \in ReqRecs
    BY Types
  <2> QED
    BY <2>1 DEF ReqRecs
<1> HIDE DEF s
<1>3. /\ req' \in [Mailboxes -> ReqRecs] /\ req'[m] = s
      /\ \A j \in Mailboxes \ {m} : req'[j] = req[j]
  BY <1>1, <1>2, OneReq
<1>4. ASSUME NEW j \in Mailboxes PROVE BoxInv(j)' /\ GrantInv(j)'
  <2>1. BoxInv(j) /\ GrantInv(j)
    BY Types
  <2> QED
    BY <1>2, <1>3, <2>1 DEF BoxInv, GrantInv
<1> QED
  BY <1>3, <1>4

LEMMA MailboxLockOk == ASSUME IInv, NEW p \in Purgers, MailboxLock(p) PROVE IInv'
<1> DEFINE m == purge[p].box
<1>0. /\ purge[p].pc = "lock" /\ m \in Mailboxes
      /\ UNCHANGED <<user, acct, store, world, sync, trail, acts, faults, ghosts>>
  <2>1. PurgeInv(p)
    BY Types
  <2> QED
    BY <2>1 DEF MailboxLock, PurgeInv
<1>1. CASE lock[m] = None
  <2> DEFINE t == [purge[p] EXCEPT !.pc = "disconnect"]
  <2>1. lock' = [lock EXCEPT ![m] = p] /\ Goes(p, "disconnect") /\ req' = req
    BY <1>1 DEF MailboxLock
  <2>2. t \in PurgeRecs
    BY GoesTyped DEF PCs, BoxWork
  <2>3. /\ purge' = [purge EXCEPT ![p] = t]
        /\ purge'[p].pc = "disconnect" /\ purge'[p].box = purge[p].box
    BY <2>1, <2>2, GoesTo
  <2> HIDE DEF t
  <2>4. PurgeInv(p)' /\ EvidenceInv(p)'
    BY <1>0, <2>3 DEF PurgeInv, EvidenceInv, AccountWork
  <2>5. lock' \in [Mailboxes -> Purgers \cup {None}]
    BY <1>0, <2>1, Types DEF Shape
  <2>6. ASSUME NEW j \in Mailboxes PROVE BoxInv(j)' /\ GrantInv(j)' /\ LockInv(j)'
    <3>1. BoxInv(j) /\ GrantInv(j)
      BY Types
    <3>2. BoxInv(j)' /\ GrantInv(j)'
      BY <1>0, <2>1, <3>1 DEF BoxInv, GrantInv
    <3>3. lock'[j] = IF j = m THEN p ELSE lock[j]
      BY <1>0, <2>1, Types DEF Shape
    <3>4. CASE j = m
      BY <2>3, <3>2, <3>3, <3>4 DEF LockInv, BoxWork
    <3>5. CASE j # m
      BY <1>0, <2>3, <3>2, <3>3, <3>5, HoldsNone, LockKeeps DEF BoxWork
    <3> QED
      BY <3>4, <3>5
  <2> QED
    BY <1>0, <2>1, <2>2, <2>3, <2>4, <2>5, <2>6, StepOk, Types DEF Shape
<1>2. CASE lock[m] # None
  <2>1. lock' = lock /\ EndsBox(p) /\ Fails(m)
    BY <1>2 DEF MailboxLock, Fails
  <2>2. PICK t \in PurgeRecs : purge' = [purge EXCEPT ![p] = t] /\ purge'[p] = t /\ t.pc = "box"
    BY <2>1, EndsBoxOk
  <2>3. /\ req' \in [Mailboxes -> ReqRecs]
        /\ \A j \in Mailboxes : BoxInv(j)' /\ GrantInv(j)'
    BY <1>0, <2>1, FailsOk
  <2>4. \A j \in Mailboxes : LockInv(j)'
    BY <1>0, <2>1, <2>2, HoldsNone, LockKeeps DEF BoxWork
  <2> QED
    BY <1>0, <2>1, <2>2, <2>3, <2>4, AtBox, StepOk, Types DEF Shape
<1> QED
  BY <1>1, <1>2

LEMMA LockStays ==
  ASSUME IInv, NEW p \in Purgers, NEW t, purge' = [purge EXCEPT ![p] = t], lock' = lock,
         t.box = purge[p].box, t.pc \in BoxWork
  PROVE  \A j \in Mailboxes : LockInv(j)'
<1> TAKE j \in Mailboxes
<1>1. CASE lock[j] = p
  <2>1. LockInv(j) /\ purge'[p] = t
    BY Types, Facts
  <2> QED
    BY <1>1, <2>1 DEF LockInv
<1>2. CASE lock[j] # p
  BY <1>2, LockKeeps
<1> QED
  BY <1>1, <1>2

LEMMA AtBoxWork ==
  ASSUME NEW p, purge'[p].pc \in BoxWork, purge'[p].box \in Mailboxes
  PROVE  PurgeInv(p)' /\ EvidenceInv(p)'
  BY DEF PurgeInv, EvidenceInv, AccountWork, BoxWork

LEMMA AtMailbox ==
  ASSUME IInv, NEW p \in Purgers, purge[p].pc \in BoxWork
  PROVE  purge[p].box \in Mailboxes
  BY Types DEF PurgeInv, BoxWork

(* Disconnected before anything is erased: no Connect is let in meanwhile. *)
LEMMA MailboxDisconnectOk == ASSUME IInv, NEW p \in Purgers, MailboxDisconnect(p) PROVE IInv'
<1> DEFINE m == purge[p].box
<1>0. /\ purge[p].pc = "disconnect" /\ m \in Mailboxes
      /\ UNCHANGED <<user, requests, mail, letters, billing, sync, trail, acts, faults, ghosts>>
  BY AtMailbox DEF MailboxDisconnect, BoxWork
<1>1. CASE box[m].status = "absent"
  <2>1. EndsBox(p) /\ lock' = Releases(p) /\ UNCHANGED <<box, grant>>
    BY <1>1 DEF MailboxDisconnect
  <2>2. PICK t \in PurgeRecs : purge' = [purge EXCEPT ![p] = t] /\ purge'[p] = t /\ t.pc = "box"
    BY <2>1, EndsBoxOk
  <2>3. /\ lock' \in [Mailboxes -> Purgers \cup {None}]
        /\ \A j \in Mailboxes : LockInv(j)'
    BY <2>1, <2>2, ReleaseKeeps
  <2>4. \A j \in Mailboxes : BoxInv(j)' /\ GrantInv(j)'
    BY <1>0, <2>1, Types DEF BoxInv, GrantInv
  <2> QED
    BY <1>0, <2>1, <2>2, <2>3, <2>4, AtBox, StepOk, Types DEF Shape
<1>2. CASE box[m].status # "absent"
  <2> DEFINE t == [purge[p] EXCEPT !.pc = "erase"]
             gone == [status |-> "disconnected", creds |-> FALSE]
  <2>1. /\ box' = [box EXCEPT ![m] = gone]
        /\ grant' = IF box[m].creds THEN grant \ {m} ELSE grant
        /\ Goes(p, "erase") /\ lock' = lock
    BY <1>2 DEF MailboxDisconnect
  <2>2. t \in PurgeRecs /\ t.pc = "erase" /\ t.box = purge[p].box
    <3>1. purge[p] \in PurgeRecs
      BY Types
    <3> QED
      BY <3>1, GoesTyped DEF PCs, BoxWork, PurgeRecs
  <2>3. purge' = [purge EXCEPT ![p] = t] /\ purge'[p] = t
    BY <2>1, <2>2, GoesTo
  <2> HIDE DEF t
  <2>4. PurgeInv(p)' /\ EvidenceInv(p)'
    BY <1>0, <2>2, <2>3, AtBoxWork DEF BoxWork
  <2>5. /\ box' \in [Mailboxes -> BoxRecs] /\ box'[m] = gone
        /\ \A j \in Mailboxes \ {m} : box'[j] = box[j]
    BY <1>0, <2>1, Types DEF Shape, BoxRecs
  <2>6. \A j \in Mailboxes : LockInv(j)'
    BY <2>1, <2>2, <2>3, LockStays DEF BoxWork
  <2>7. ASSUME NEW j \in Mailboxes PROVE BoxInv(j)' /\ GrantInv(j)'
    <3>1. BoxInv(j) /\ GrantInv(j)
      BY Types
    <3>2. CASE j = m
      BY <1>0, <2>1, <2>5, <3>1, <3>2 DEF BoxInv, GrantInv
    <3>3. CASE j # m
      BY <1>0, <2>1, <2>5, <3>1, <3>3 DEF BoxInv, GrantInv
    <3> QED
      BY <3>2, <3>3
  <2> QED
    BY <1>0, <2>1, <2>2, <2>3, <2>4, <2>5, <2>6, <2>7, StepOk, Types DEF Shape
<1> QED
  BY <1>1, <1>2

LEMMA MailboxEraseOk == ASSUME IInv, NEW p \in Purgers, MailboxErase(p) PROVE IInv'
<1> DEFINE m == purge[p].box
<1>0. /\ purge[p].pc = "erase" /\ m \in Mailboxes
      /\ UNCHANGED <<user, requests, box, letters, world, lock, sync, trail, acts, faults, ghosts>>
  BY AtMailbox DEF MailboxErase, BoxWork
<1>1. CASE mail[m] > 0
  <2>1. mail' = [mail EXCEPT ![m] = @ - 1] /\ purge' = purge
    BY <1>1 DEF MailboxErase
  <2>2. /\ mail' \in [Mailboxes -> 0 .. MaxRows]
        /\ \A j \in Mailboxes : mail[j] = 0 => mail'[j] = mail[j]
    BY <1>0, <1>1, <2>1, OneLess
  <2>3. ASSUME NEW j \in Mailboxes PROVE (BoxInv(j) /\ GrantInv(j) /\ LockInv(j))'
    <3>1. BoxInv(j) /\ GrantInv(j) /\ LockInv(j)
      BY Types
    <3>2. BoxInv(j)'
      BY <1>0, <2>2, <3>1 DEF BoxInv
    <3> QED
      BY <1>0, <2>1, <3>1, <3>2 DEF GrantInv, LockInv
  <2>4. \A q \in Purgers : (PurgeInv(q) /\ EvidenceInv(q))'
    BY <1>0, <2>1, Types DEF PurgeInv, EvidenceInv
  <2> QED
    BY <1>0, <2>1, <2>2, <2>3, <2>4, Types DEF IInv, Shape, DroppedCleanly
<1>2. CASE ~(mail[m] > 0)
  <2> DEFINE t == [purge[p] EXCEPT !.pc = "finish"]
  <2>1. mail' = mail /\ Goes(p, "finish")
    BY <1>2 DEF MailboxErase
  <2>2. t \in PurgeRecs /\ t.pc = "finish" /\ t.box = purge[p].box
    <3>1. purge[p] \in PurgeRecs
      BY Types
    <3> QED
      BY <3>1, GoesTyped DEF PCs, BoxWork, PurgeRecs
  <2>3. purge' = [purge EXCEPT ![p] = t] /\ purge'[p] = t
    BY <2>1, <2>2, GoesTo
  <2> HIDE DEF t
  <2>4. PurgeInv(p)' /\ EvidenceInv(p)'
    BY <1>0, <2>2, <2>3, AtBoxWork DEF BoxWork
  <2>5. \A j \in Mailboxes : LockInv(j)'
    BY <1>0, <2>2, <2>3, LockStays DEF BoxWork
  <2>6. \A j \in Mailboxes : BoxInv(j)' /\ GrantInv(j)'
    BY <1>0, <2>1, Types DEF BoxInv, GrantInv
  <2> QED
    BY <1>0, <2>1, <2>2, <2>3, <2>4, <2>5, <2>6, StepOk, Types DEF Shape
<1> QED
  BY <1>1, <1>2

(* What is recorded as completed is a disconnected, empty mailbox.         *)
LEMMA MailboxFinishOk == ASSUME IInv, NEW p \in Purgers, MailboxFinish(p) PROVE IInv'
<1> DEFINE m == purge[p].box
           s == IF req[m].state = "none" THEN req[m] ELSE [state |-> "completed", stale |-> FALSE]
<1>0. /\ purge[p].pc = "finish" /\ m \in Mailboxes
      /\ EndsBox(p) /\ lock' = Releases(p)
      /\ mail' = [mail EXCEPT ![m] = 0] /\ letters' = letters \ {m}
      /\ UNCHANGED <<user, acct, box, world, sync, trail, acts, faults, ghosts>>
  BY AtMailbox DEF MailboxFinish, BoxWork
<1>1. req' = [req EXCEPT ![m] = s]
  BY <1>0, Types DEF MailboxFinish, Shape
<1>2. s \in ReqRecs /\ (s.state # "none" => req[m].state # "none")
  BY <1>0, Types DEF ReqRecs
<1> HIDE DEF s
<1>3. /\ req' \in [Mailboxes -> ReqRecs] /\ req'[m] = s
      /\ \A j \in Mailboxes \ {m} : req'[j] = req[j]
  BY <1>0, <1>1, <1>2, OneReq
<1>4. PICK t \in PurgeRecs : purge' = [purge EXCEPT ![p] = t] /\ purge'[p] = t /\ t.pc = "box"
  BY <1>0, EndsBoxOk
<1>5. /\ lock' \in [Mailboxes -> Purgers \cup {None}]
      /\ \A j \in Mailboxes : LockInv(j)'
  BY <1>0, <1>4, ReleaseKeeps
<1>6. /\ mail' \in [Mailboxes -> 0 .. MaxRows] /\ mail'[m] = 0
      /\ \A j \in Mailboxes \ {m} : mail'[j] = mail[j]
  BY <1>0, Types DEF Shape
<1>7. ASSUME NEW j \in Mailboxes PROVE BoxInv(j)' /\ GrantInv(j)'
  <2>1. BoxInv(j) /\ GrantInv(j)
    BY Types
  <2>2. CASE j = m
    BY <1>0, <1>2, <1>3, <1>6, <2>1, <2>2 DEF BoxInv, GrantInv
  <2>3. CASE j # m
    BY <1>0, <1>3, <1>6, <2>1, <2>3 DEF BoxInv, GrantInv
  <2> QED
    BY <2>2, <2>3
<1> QED
  BY <1>0, <1>3, <1>4, <1>5, <1>6, <1>7, AtBox, StepOk, Types DEF Shape

LEMMA MailboxFailsOk == ASSUME IInv, NEW p \in Purgers, MailboxFails(p) PROVE IInv'
<1> DEFINE m == purge[p].box
<1>0. /\ m \in Mailboxes /\ Fails(m) /\ EndsBox(p) /\ lock' = Releases(p)
      /\ UNCHANGED <<user, acct, store, world, sync, trail, acts, ghosts>>
  BY AtMailbox DEF MailboxFails, Fails, BoxWork
<1>1. PICK t \in PurgeRecs : purge' = [purge EXCEPT ![p] = t] /\ purge'[p] = t /\ t.pc = "box"
  BY <1>0, EndsBoxOk
<1>2. /\ lock' \in [Mailboxes -> Purgers \cup {None}]
      /\ \A j \in Mailboxes : LockInv(j)'
  BY <1>0, <1>1, ReleaseKeeps
<1>3. /\ req' \in [Mailboxes -> ReqRecs]
      /\ \A j \in Mailboxes : BoxInv(j)' /\ GrantInv(j)'
  BY <1>0, FailsOk
<1> QED
  BY <1>0, <1>1, <1>2, <1>3, AtBox, StepOk, Types DEF Shape

LEMMA CrashOk == ASSUME IInv, NEW p \in Purgers, Crash(p) PROVE IInv'
<1>0. /\ purge' = [purge EXCEPT ![p] = IdlePurge] /\ lock' = Releases(p)
      /\ UNCHANGED <<user, requests, store, world, sync, trail, acts, ghosts>>
  BY DEF Crash
<1>1. IdlePurge \in PurgeRecs /\ purge'[p] = IdlePurge
  BY <1>0, Facts DEF IdlePurge, PurgeRecs
<1>2. PurgeInv(p)' /\ EvidenceInv(p)'
  BY <1>1 DEF IdlePurge, PurgeInv, EvidenceInv, AccountWork, BoxWork
<1>3. /\ lock' \in [Mailboxes -> Purgers \cup {None}]
      /\ \A j \in Mailboxes : LockInv(j)'
  BY <1>0, ReleaseKeeps
<1>4. \A j \in Mailboxes : BoxInv(j)' /\ GrantInv(j)'
  BY <1>0, Types DEF BoxInv, GrantInv
<1> QED
  BY <1>0, <1>1, <1>2, <1>3, <1>4, StepOk, Types DEF Shape

(* A request grows stale, and stays what it is.                            *)
LEMMA TimePassesOk == ASSUME IInv, NEW m \in Mailboxes \cup {None}, TimePasses(m) PROVE IInv'
<1>0. UNCHANGED <<user, store, world, lock, sync, purge, trail, acts, ghosts>>
  BY DEF TimePasses
<1>1. /\ acct' \in AcctRecs /\ req' \in [Mailboxes -> ReqRecs]
      /\ \A j \in Mailboxes : req'[j].state = req[j].state
  <2>1. CASE m = None
    <3>1. acct' = [acct EXCEPT !.stale = TRUE] /\ req' = req
      BY <2>1 DEF TimePasses
    <3> QED
      BY <3>1, Types DEF Shape, AcctRecs
  <2>2. CASE m # None
    <3> DEFINE s == [req[m] EXCEPT !.stale = TRUE]
    <3>1. m \in Mailboxes /\ req' = [req EXCEPT ![m] = s] /\ acct' = acct
      BY <2>2, Types DEF TimePasses, Shape
    <3>2. s \in ReqRecs /\ s.state = req[m].state
      BY <3>1, Types DEF ReqRecs
    <3> HIDE DEF s
    <3> QED
      BY <3>1, <3>2, OneReq, Types DEF Shape
  <2> QED
    BY <2>1, <2>2
<1>2. \A j \in Mailboxes : (BoxInv(j) /\ GrantInv(j) /\ LockInv(j))'
  BY <1>0, <1>1, Types DEF BoxInv, GrantInv, LockInv
<1>3. \A p \in Purgers : (PurgeInv(p) /\ EvidenceInv(p))'
  BY <1>0, Types DEF PurgeInv, EvidenceInv
<1>4. Shape'
  BY <1>0, <1>1, Types DEF Shape
<1> QED
  BY <1>0, <1>2, <1>3, <1>4, Types DEF IInv, DroppedCleanly

-------------------------------------------------------------------------------
(* Every step keeps the invariant.                                         *)

LEMMA Stutter == IInv /\ UNCHANGED vars => IInv'
  BY DEF IInv, Shape, BoxInv, GrantInv, LockInv, PurgeInv, EvidenceInv, DroppedCleanly

LEMMA PurgeStepsOk == ASSUME IInv, NEW p \in Purgers, PurgeSteps(p) PROVE IInv'
<1>1. CASE PurgeVerify(p) \/ PurgeReverify(p)
  BY <1>1, VerifyOk DEF PurgeVerify, PurgeReverify
<1>2. CASE SweepStart(p) \/ PurgeCheck(p) \/ PurgeClaim(p) \/ PurgeRevoke(p) \/ PurgeRecheck(p)
  BY <1>2, SweepStartOk, PurgeCheckOk, PurgeClaimOk, PurgeRevokeOk, PurgeRecheckOk
<1>3. CASE PurgeReceipt(p) \/ PurgeAudit(p) \/ PurgeDrop(p) \/ PurgeFinal(p)
  BY <1>3, PurgeReceiptOk, PurgeAuditOk, PurgeDropOk, PurgeFinalOk
<1>4. CASE \/ SweepMailbox(p) \/ MailboxLock(p) \/ MailboxDisconnect(p)
           \/ MailboxErase(p) \/ MailboxFinish(p)
  BY <1>4, SweepMailboxOk, MailboxLockOk, MailboxDisconnectOk, MailboxEraseOk, MailboxFinishOk
<1> QED
  BY <1>1, <1>2, <1>3, <1>4 DEF PurgeSteps

LEMMA NextOk == IInv /\ [Next]_vars => IInv'
<1> SUFFICES ASSUME IInv, [Next]_vars PROVE IInv'
  OBVIOUS
<1>1. CASE RequestAccount \/ CancelAccount \/ BillingEvent
  BY <1>1, RequestAccountOk, CancelAccountOk, BillingEventOk
<1>2. ASSUME NEW m \in Mailboxes,
             \/ Connect(m) \/ Disconnect(m) \/ RequestMailbox(m) \/ SyncStart(m)
             \/ SyncSteps(m) \/ SyncFails(m)
      PROVE  IInv'
  BY <1>2, ConnectOk, DisconnectOk, RequestMailboxOk, SyncStartOk, ScanFetchOk, ScanFlushOk,
     IncrementalWritesOk, SyncFailsOk DEF SyncSteps
<1>3. ASSUME NEW p \in Purgers, PurgeSteps(p) \/ MailboxFails(p) \/ Crash(p) PROVE IInv'
  BY <1>3, PurgeStepsOk, MailboxFailsOk, CrashOk
<1>4. ASSUME NEW m \in Mailboxes \cup {None}, TimePasses(m) PROVE IInv'
  BY <1>4, TimePassesOk
<1>5. CASE UNCHANGED vars
  BY <1>5, Stutter
<1> QED
  BY <1>1, <1>2, <1>3, <1>4, <1>5 DEF Next

(* The inductive invariant holds in every reachable state.                 *)
THEOREM Invariance == Spec => []IInv
  BY InitOk, NextOk, PTL DEF Spec

-------------------------------------------------------------------------------
(* What it is for.                                                         *)

(* Every variable has its type, a mailbox that is not there has no data,   *)
(* and a lock is held by the sweep that works on its mailbox.              *)
THEOREM TypeCorrect == Spec => []TypeOK
<1>1. IInv => TypeOK
  <2> SUFFICES ASSUME IInv PROVE TypeOK
    OBVIOUS
  <2>1. ASSUME NEW m \in Mailboxes
        PROVE  /\ req[m].state \in {"none", "pending", "executing", "failed", "completed"}
               /\ box[m].status \in {"absent", "active", "disconnected"}
               /\ box[m].creds \in BOOLEAN
               /\ mail[m] \in 0 .. MaxRows
    BY Types DEF ReqRecs, BoxRecs
  <2>2. ASSUME NEW m \in Mailboxes PROVE box[m].creds = (box[m].status = "active")
    <3>1. box[m].creds <=> box[m].status = "active"
      BY Types DEF BoxInv
    <3> QED
      BY <2>1, <3>1
  <2>3. ASSUME NEW m \in Mailboxes
        PROVE  /\ box[m].status = "absent" => mail[m] = 0 /\ req[m].state = "none"
               /\ lock[m] # None => purge[lock[m]].box = m
    BY Types DEF BoxInv, LockInv
  <2>4. /\ {user, receipt, audits} \subseteq BOOLEAN /\ letters \subseteq Mailboxes
        /\ acct.state \in {"none", "pending", "executing", "cancelled"}
    BY Types DEF Shape, AcctRecs
  <2> QED
    BY <2>1, <2>2, <2>3, <2>4 DEF TypeOK
<1> QED
  BY <1>1, Invariance, PTL

(* Wherever the purges of an account stopped before, once the user is gone *)
(* the receipt is on its way, the audit row exists, and every live grant   *)
(* is one of a mailbox connected after a purge took its list or of one     *)
(* disconnected while Google did not answer.                               *)
THEOREM DroppedCorrect == Spec => []DroppedCleanly
<1>1. IInv => DroppedCleanly
  BY DEF IInv
<1> QED
  BY <1>1, Invariance, PTL

(* A mailbox recorded as deleted is empty, disconnected and without        *)
(* credentials, whatever connects, syncs and sweeps ran meanwhile; only a  *)
(* scan that began before may have left a last chunk.                      *)
THEOREM DeletedCorrect == Spec => []DeletedIsEmpty
<1>1. IInv => DeletedIsEmpty
  <2> SUFFICES ASSUME IInv, NEW m \in Mailboxes, req[m].state = "completed"
               PROVE  /\ box[m] = [status |-> "disconnected", creds |-> FALSE]
                      /\ m \notin letters /\ (mail[m] = 0 \/ m \in leaked)
    BY DEF DeletedIsEmpty
  <2>1. BoxInv(m) /\ box[m] \in BoxRecs
    BY Types
  <2>2. box[m].status = "disconnected" /\ box[m].creds = FALSE
    BY <2>1 DEF BoxInv, BoxRecs
  <2>3. box[m] = [status |-> box[m].status, creds |-> box[m].creds]
    BY <2>1 DEF BoxRecs
  <2> QED
    BY <2>1, <2>2, <2>3 DEF BoxInv
<1> QED
  BY <1>1, Invariance, PTL

(* No purge claims an account, and none drops a user, while the billing    *)
(* evidence says live: what was verified before is compared by revision.   *)
NeverBilled ==
  /\ (user /\ ~ user') => ~ billing.live
  /\ (acct.state # "executing" /\ acct'.state = "executing") => ~ billing.live

LEMMA NeverBilledOk == IInv /\ [Next]_vars => NeverBilled
<1> SUFFICES ASSUME IInv, [Next]_vars PROVE NeverBilled
  OBVIOUS
<1>1. CASE \E p \in Purgers : PurgeFinal(p)
  BY <1>1, Types DEF PurgeFinal, EvidenceInv, EvidenceUnchanged, NoRequest, NeverBilled
<1>2. CASE \E p \in Purgers : PurgeClaim(p)
  BY <1>2, Types DEF PurgeClaim, EvidenceInv, EvidenceUnchanged, NeverBilled
<1>3. CASE ~ \E p \in Purgers : PurgeFinal(p) \/ PurgeClaim(p)
  <2>1. user' = user
    BY <1>3, ZenonT(60)
       DEF Next, PurgeSteps, SyncSteps, RequestAccount, CancelAccount, BillingEvent, Connect,
           Disconnect, RequestMailbox, SyncStart, ScanFetch, ScanFlush, IncrementalWrites,
           SyncFails, SweepStart, PurgeCheck, PurgeVerify, PurgeRevoke, PurgeRecheck, Verify,
           PurgeReceipt, PurgeAudit, PurgeDrop, PurgeReverify, SweepMailbox, MailboxLock,
           MailboxDisconnect, MailboxErase, MailboxFinish, MailboxFails, Crash, TimePasses
  <2>2. acct' = acct \/ acct'.state \in {"pending", "cancelled", acct.state}
    <3>1. CASE \E p \in Purgers : PurgeCheck(p)
      BY <3>1 DEF PurgeCheck, Blocked
    <3>2. CASE RequestAccount
      BY <3>2 DEF RequestAccount
    <3>3. CASE CancelAccount
      BY <3>3, Types DEF CancelAccount, Shape, AcctRecs
    <3>4. CASE \E m \in Mailboxes \cup {None} : TimePasses(m)
      BY <3>4, Types DEF TimePasses, Shape, AcctRecs
    <3>5. CASE ~(\/ \E p \in Purgers : PurgeCheck(p)
                 \/ RequestAccount \/ CancelAccount
                 \/ \E m \in Mailboxes \cup {None} : TimePasses(m))
      <4>1. acct' = acct
        BY <1>3, <3>5, ZenonT(60)
           DEF Next, PurgeSteps, SyncSteps, BillingEvent, Connect,
               Disconnect, RequestMailbox, SyncStart, ScanFetch, ScanFlush, IncrementalWrites,
               SyncFails, SweepStart, PurgeVerify, PurgeRevoke, PurgeRecheck, Verify,
               PurgeReceipt, PurgeAudit, PurgeDrop, PurgeReverify, SweepMailbox, MailboxLock,
               MailboxDisconnect, MailboxErase, MailboxFinish, MailboxFails, Crash
      <4> QED
        BY <4>1
    <3> QED
      BY <3>1, <3>2, <3>3, <3>4, <3>5
  <2> QED
    BY <2>1, <2>2 DEF NeverBilled
<1> QED
  BY <1>1, <1>2, <1>3

(* A user is dropped, and a request claimed, only under stopped billing.   *)
THEOREM BilledCorrect == Spec => BilledNeverDropped
<1>1. IInv /\ [Next]_vars => [NeverBilled]_vars
  BY NeverBilledOk
<1> QED
  BY <1>1, Invariance, PTL DEF Spec, BilledNeverDropped, NeverBilled
===============================================================================
