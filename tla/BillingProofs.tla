---------------------------- MODULE BillingProofs ----------------------------
(***************************************************************************)
(* Proofs about Billing, for any number of settings pages, of provider     *)
(* events and of instants, whatever statuses the provider may enter.       *)
(*                                                                         *)
(* An event says only what the provider did: of a dispute it tells after   *)
(* it began, and of a dispute that is over after it was won (Honest).  So  *)
(* while a dispute is open nothing that reaches the projector can lift its *)
(* verdict, and no payload may write over it (StickInv).                   *)
(***************************************************************************)
EXTENDS Billing, SequenceTheorems, TLAPS

-------------------------------------------------------------------------------
(* The inductive invariant.                                                *)

EventKinds == {"subscription", "scheduled", "revoked", "settled"}
Adjustments == {"none", "open", "void", "settled"}
Keys ==
  ({"local"} \X {"scheduled", "revoked"}) \cup ({"provider"} \X Nat)
    \cup ({"recon"} \X Statuses \X BOOLEAN) \cup {<<"settled">>} \cup ({"refuted"} \X Verdicts)

Events ==
  [kind : EventKinds, status : Statuses \cup {"null"}, cap : BOOLEAN,
   reason : Verdicts \cup {"null"}, at : Nat]
Entries ==
  [key : Keys, kind : EventKinds, status : Statuses \cup {"null"}, cap : BOOLEAN,
   reason : Verdicts \cup {"null"}, at : Nat, done : BOOLEAN, wrote : BOOLEAN]

Shape ==
  /\ clock \in Nat
  /\ prov \in [status : Statuses, cap : BOOLEAN, refund : Adjustments, chargeback : Adjustments]
  /\ sent \in Seq(Events) /\ ledger \in Seq(Entries)
  /\ drift.pc = "fetched" => /\ drift.status \in Statuses /\ drift.cap \in BOOLEAN
                             /\ drift.at \in Nat

(* What an event, sent or in the ledger, may say of the provider p.        *)
HonestOf(p, e) ==
  /\ e.kind = "subscription" => e.status \in Statuses /\ e.reason = "null"
  /\ e.kind = "settled" => e.reason = "refund"
  /\ e.reason = "refund" => p.refund # "none"
  /\ e.reason = "chargeback" => /\ p.chargeback # "none"
                                /\ e.kind # "scheduled" => p.chargeback = "void"

Honest(e) == HonestOf(prov, e)

SentInv(n) == Honest(sent[n]) /\ (sent[n].kind # "subscription" => sent[n].reason \in Verdicts)

(* A marker of the user's is done, and is the only one to take no reason.  *)
LedgerInv(i) ==
  /\ Honest(ledger[i])
  /\ ledger[i].key[1] = "local" => ledger[i].done /\ ledger[i].kind \in {"scheduled", "revoked"}
  /\ ~ledger[i].done /\ ledger[i].kind # "subscription" => ledger[i].reason \in Verdicts

(* A dispute and a refund are not both of one subscription.                *)
ApartInv == ~Mixed => prov.refund = "none" \/ prov.chargeback = "none"

(* An open dispute that was applied is the row's verdict.                  *)
Disputed ==
  prov.chargeback = "open" /\ \E i \in Rows : ledger[i].reason = "chargeback" /\ ledger[i].done
StickInv ==
  ~Mixed /\ Disputed => row.source = "chargeback" /\ row.ends = "past" /\ ~tier

IInv ==
  /\ Shape /\ TypeOK /\ ApartInv /\ StickInv
  /\ \A n \in DOMAIN sent : SentInv(n)
  /\ \A i \in Rows : LedgerInv(i)

-------------------------------------------------------------------------------
(* What is easily had of the invariant.                                    *)

USE SetsAssumption, BoundsAssumption
USE DEF vars, books, outside, passes, Verdicts, Statuses

Provs == [status : Statuses, cap : BOOLEAN, refund : Adjustments, chargeback : Adjustments]

LEMMA Types ==
  ASSUME IInv
  PROVE  /\ clock \in Nat /\ prov \in Provs
         /\ sent \in Seq(Events) /\ ledger \in Seq(Entries)
         /\ \A n \in DOMAIN sent : sent[n] \in Events /\ SentInv(n)
         /\ \A i \in Rows : ledger[i] \in Entries /\ LedgerInv(i)
         /\ row \in RowType /\ tier \in BOOLEAN /\ TypeOK /\ ApartInv /\ StickInv
<1>1. clock \in Nat /\ prov \in Provs /\ sent \in Seq(Events) /\ ledger \in Seq(Entries)
  BY DEF IInv, Shape, Provs
<1>2. \A n \in DOMAIN sent : sent[n] \in Events
  BY <1>1
<1>3. \A i \in Rows : ledger[i] \in Entries
  BY <1>1 DEF Rows
<1> QED
  BY <1>1, <1>2, <1>3 DEF IInv, TypeOK

LEMMA InitOk == Init => IInv
<1> SUFFICES ASSUME Init PROVE IInv
  OBVIOUS
<1>1. Shape
  BY DEF Init, Shape, Adjustments, Idle
<1>2. TypeOK
  BY DEF Init, TypeOK, RowType, Fresh
<1>3. ApartInv /\ StickInv
  BY DEF Init, ApartInv, StickInv, Disputed, Rows
<1>4. DOMAIN sent = {} /\ Rows = {}
  BY DEF Init, Rows
<1> QED
  BY <1>1, <1>2, <1>3, <1>4 DEF IInv

(* One more at the end of a sequence.                                      *)
LEMMA OneMore ==
  ASSUME NEW S, NEW s \in Seq(S), NEW e \in S
  PROVE  /\ Append(s, e) \in Seq(S)
         /\ DOMAIN Append(s, e) = DOMAIN s \cup {Len(s) + 1}
         /\ \A n \in DOMAIN s : Append(s, e)[n] = s[n]
         /\ Append(s, e)[Len(s) + 1] = e /\ Len(s) + 1 \notin DOMAIN s
  OBVIOUS

-------------------------------------------------------------------------------
(* What the provider does, and what is heard of it.                        *)

(* An adjustment begins and ends, and never takes back that it began.      *)
Progresses ==
  /\ prov' \in Provs
  /\ prov.refund # "none" => prov'.refund # "none"
  /\ prov.chargeback # "none" => prov'.chargeback # "none"
  /\ prov.chargeback = "void" => prov'.chargeback = "void"
  /\ prov'.chargeback = "open" => prov.chargeback \in {"none", "open"}

LEMMA HonestStill ==
  ASSUME NEW e, Honest(e), Progresses
  PROVE  HonestOf(prov', e)
  BY DEF Honest, HonestOf, Progresses

SentGrows ==
  \/ sent' = sent
  \/ \E e \in Events : /\ sent' = Append(sent, e) /\ HonestOf(prov', e)
                       /\ e.kind # "subscription" => e.reason \in Verdicts

LedgerGrows ==
  \/ ledger' = ledger
  \/ \E e \in Entries : /\ ledger' = Append(ledger, e) /\ HonestOf(prov', e)
                        /\ ~e.done /\ e.key[1] # "local"
                        /\ e.kind # "subscription" => e.reason \in Verdicts

LEMMA SentOk ==
  ASSUME IInv, Progresses, SentGrows
  PROVE  sent' \in Seq(Events) /\ \A n \in DOMAIN sent' : SentInv(n)'
<1>0. \A n \in DOMAIN sent : HonestOf(prov', sent[n])
  BY Types, HonestStill DEF SentInv
<1>1. CASE sent' = sent
  BY <1>0, <1>1, Types DEF SentInv, Honest
<1>2. ASSUME NEW e \in Events, sent' = Append(sent, e), HonestOf(prov', e),
             e.kind # "subscription" => e.reason \in Verdicts
      PROVE  sent' \in Seq(Events) /\ \A n \in DOMAIN sent' : SentInv(n)'
  <2>1. /\ sent' \in Seq(Events) /\ DOMAIN sent' = DOMAIN sent \cup {Len(sent) + 1}
        /\ \A n \in DOMAIN sent : sent'[n] = sent[n]
        /\ sent'[Len(sent) + 1] = e
    BY <1>2, OneMore, Types
  <2> QED
    BY <1>0, <1>2, <2>1, Types DEF SentInv, Honest
<1> QED
  BY <1>1, <1>2 DEF SentGrows

LEMMA LedgerOk ==
  ASSUME IInv, Progresses, LedgerGrows
  PROVE  /\ ledger' \in Seq(Entries) /\ \A i \in Rows' : LedgerInv(i)'
         /\ \A i \in Rows' : ledger'[i].done => i \in Rows /\ ledger'[i] = ledger[i]
<1>0. \A i \in Rows : HonestOf(prov', ledger[i])
  BY Types, HonestStill DEF LedgerInv
<1>1. CASE ledger' = ledger
  BY <1>0, <1>1, Types DEF LedgerInv, Honest, Rows
<1>2. ASSUME NEW e \in Entries, ledger' = Append(ledger, e), HonestOf(prov', e),
             ~e.done, e.key[1] # "local",
             e.kind # "subscription" => e.reason \in Verdicts
      PROVE  /\ ledger' \in Seq(Entries) /\ \A i \in Rows' : LedgerInv(i)'
             /\ \A i \in Rows' : ledger'[i].done => i \in Rows /\ ledger'[i] = ledger[i]
  <2>1. /\ ledger' \in Seq(Entries) /\ Rows' = Rows \cup {Len(ledger) + 1}
        /\ \A i \in Rows : ledger'[i] = ledger[i]
        /\ ledger'[Len(ledger) + 1] = e
    BY <1>2, OneMore, Types DEF Rows
  <2> QED
    BY <1>0, <1>2, <2>1, Types DEF LedgerInv, Honest
<1> QED
  BY <1>1, <1>2 DEF LedgerGrows

(* Steps that leave the subscription's row to the projector.               *)
LEMMA HearsOk ==
  ASSUME IInv, Progresses, SentGrows, LedgerGrows, row' = row, tier' = tier,
         clock' \in Nat, ApartInv',
         drift'.pc = "fetched" => /\ drift'.status \in Statuses /\ drift'.cap \in BOOLEAN
                                  /\ drift'.at \in Nat
  PROVE  IInv'
<1>1. Shape'
  BY SentOk, LedgerOk DEF Shape, Progresses, Provs
<1>2. TypeOK'
  BY Types DEF TypeOK
<1>3. StickInv'
  <2> SUFFICES ASSUME ~Mixed, prov'.chargeback = "open",
                      NEW i \in Rows', ledger'[i].reason = "chargeback", ledger'[i].done
               PROVE  row'.source = "chargeback" /\ row'.ends = "past" /\ ~tier'
    BY DEF StickInv, Disputed
  <2>1. i \in Rows /\ ledger[i].reason = "chargeback" /\ ledger[i].done
    BY LedgerOk
  <2>2. prov.chargeback = "open"
    BY <2>1, Types DEF LedgerInv, Honest, HonestOf, Progresses
  <2> QED
    BY <2>1, <2>2, Types DEF StickInv, Disputed
<1> QED
  BY <1>1, <1>2, <1>3, SentOk, LedgerOk DEF IInv

-------------------------------------------------------------------------------
(* The provider's own steps.                                               *)

LEMMA KeepsApart ==
  ASSUME IInv, prov'.refund = prov.refund, prov'.chargeback = prov.chargeback
  PROVE  ApartInv'
  BY Types DEF ApartInv

LEMMA ChangeOk ==
  ASSUME IInv, NEW s \in Changes, ProviderChanges(s)
  PROVE  IInv'
<1> DEFINE e == Told("subscription", s, prov.cap, "null", clock)
<1>1. /\ prov' = [prov EXCEPT !.status = s] /\ sent' = Append(sent, e)
      /\ UNCHANGED <<clock, ledger, row, tier, drift>>
  BY DEF ProviderChanges, Enters, Say
<1>2. s \in Statuses
  BY Zenon
<1>3. Progresses /\ prov'.refund = prov.refund /\ prov'.chargeback = prov.chargeback
  BY <1>1, <1>2, Types DEF Progresses, Provs
<1>4. e \in Events /\ HonestOf(prov', e) /\ e.kind = "subscription"
  BY <1>2, Types DEF Told, Events, EventKinds, HonestOf, Provs
<1> HIDE DEF e
<1>5. SentGrows /\ LedgerGrows
  BY <1>1, <1>4 DEF SentGrows, LedgerGrows
<1> QED
  BY <1>1, <1>3, <1>5, KeepsApart, HearsOk, Types DEF IInv, Shape

LEMMA AdjustOk ==
  ASSUME IInv, NEW a \in Adjusts, Adjust(a)
  PROVE  IInv'
<1> DEFINE e == Told("scheduled", "null", FALSE, a, clock)
<1>1. /\ prov' = [prov EXCEPT ![a] = "open"] /\ sent' = Append(sent, e)
      /\ UNCHANGED <<clock, ledger, row, tier, drift>>
      /\ prov[a] = "none" /\ (Mixed \/ \A b \in Verdicts : prov[b] = "none")
  BY DEF Adjust, Enters, Say
<1>2. a \in {"refund", "chargeback"}
  BY Zenon
<1>3. Progresses /\ prov'[a] = "open" /\ ApartInv'
  <2>1. CASE a = "refund"
    BY <1>1, <2>1, Types DEF Progresses, Provs, Adjustments, ApartInv
  <2>2. CASE a = "chargeback"
    BY <1>1, <2>2, Types DEF Progresses, Provs, Adjustments, ApartInv
  <2> QED
    BY <1>2, <2>1, <2>2
<1>4. e \in Events /\ HonestOf(prov', e) /\ e.reason \in Verdicts
  BY <1>2, <1>3, Types DEF Told, Events, EventKinds, HonestOf
<1> HIDE DEF e
<1>5. SentGrows /\ LedgerGrows
  BY <1>1, <1>4 DEF SentGrows, LedgerGrows
<1> QED
  BY <1>1, <1>3, <1>5, HearsOk, Types DEF IInv, Shape

LEMMA AdjustEndsOk ==
  ASSUME IInv, NEW a \in Adjusts, AdjustEnds(a)
  PROVE  IInv'
<1>1. UNCHANGED <<clock, ledger, row, tier, drift>> /\ prov[a] = "open"
  BY DEF AdjustEnds
<1>2. a \in {"refund", "chargeback"}
  BY Zenon
<1>3. ASSUME NEW end \in {"void", "settled"}, NEW kind \in {"revoked", "settled"},
             end = "settled" => a = "refund", kind = "settled" => a = "refund",
             prov' = [prov EXCEPT ![a] = end],
             sent' = Append(sent, Told(kind, "null", FALSE, a, clock))
      PROVE  Progresses /\ SentGrows /\ ApartInv'
  <2> DEFINE e == Told(kind, "null", FALSE, a, clock)
  <2>1. Progresses /\ ApartInv' /\ (a = "refund" => prov'.refund # "none")
        /\ (a = "chargeback" => prov'.chargeback = "void")
    <3>1. CASE a = "refund"
      BY <1>1, <1>3, <3>1, Types DEF Progresses, Provs, Adjustments, ApartInv
    <3>2. CASE a = "chargeback"
      BY <1>1, <1>3, <3>2, Types DEF Progresses, Provs, Adjustments, ApartInv
    <3> QED
      BY <1>2, <3>1, <3>2
  <2>2. e \in Events /\ HonestOf(prov', e) /\ e.reason \in Verdicts
    BY <1>2, <1>3, <2>1, Types DEF Told, Events, EventKinds, HonestOf
  <2> HIDE DEF e
  <2>3. SentGrows
    BY <1>3, <2>2 DEF SentGrows, e
  <2> QED
    BY <2>1, <2>3
<1>4. Progresses /\ SentGrows /\ ApartInv'
  BY <1>3 DEF AdjustEnds, Enters, Say
<1> QED
  BY <1>1, <1>4, HearsOk, Types DEF IInv, Shape, LedgerGrows
-------------------------------------------------------------------------------
(* DeclutrMail's calls to the provider, the deliveries and the passes that *)
(* read the provider.                                                      *)

LEMMA SetsCapOk ==
  ASSUME IInv, NEW c \in BOOLEAN, SetsCap(c)
  PROVE  Progresses /\ SentGrows /\ ApartInv'
<1>1. CASE UNCHANGED <<prov, sent>>
  BY <1>1, Types, KeepsApart DEF Progresses, SentGrows
<1> DEFINE e == Told("subscription", prov.status, c, "null", clock)
<1>2. CASE prov' = [prov EXCEPT !.cap = c] /\ sent' = Append(sent, e)
  <2>1. Progresses /\ prov'.refund = prov.refund /\ prov'.chargeback = prov.chargeback
    BY <1>2, Types DEF Progresses, Provs
  <2>2. e \in Events /\ HonestOf(prov', e) /\ e.kind = "subscription"
    BY Types DEF Told, Events, EventKinds, HonestOf, Provs
  <2> HIDE DEF e
  <2> QED
    BY <1>2, <2>1, <2>2, KeepsApart DEF SentGrows
<1> QED
  BY <1>1, <1>2 DEF SetsCap, Enters, Say

LEMMA QuietOk ==
  ASSUME IInv, UNCHANGED <<prov, sent>>
  PROVE  Progresses /\ SentGrows /\ ApartInv'
  BY Types, KeepsApart DEF Progresses, SentGrows

LEMMA InsertOk ==
  ASSUME NEW e \in Entries, Insert(e), HonestOf(prov', e), ~e.done, e.key[1] # "local",
         e.kind # "subscription" => e.reason \in Verdicts
  PROVE  LedgerGrows
  BY DEF Insert, LedgerGrows

LEMMA CancelCallsOk ==
  ASSUME IInv, NEW t \in Tabs, CancelCalls(t)
  PROVE  IInv'
<1>1. SetsCap(TRUE) /\ UNCHANGED <<clock, ledger, row, tier, drift>>
  BY DEF CancelCalls
<1> QED
  BY <1>1, SetsCapOk, HearsOk, Types DEF IInv, Shape, LedgerGrows

LEMMA UncancelCallsOk ==
  ASSUME IInv, NEW t \in Tabs, UncancelCalls(t)
  PROVE  IInv'
<1>1. SetsCap(FALSE) /\ UNCHANGED <<clock, ledger, row, tier, drift>>
  BY DEF UncancelCalls
<1> QED
  BY <1>1, SetsCapOk, HearsOk, Types DEF IInv, Shape, LedgerGrows

(* The steps that touch nothing the invariant speaks of but the clock.     *)
LEMMA IdleOk ==
  ASSUME IInv, UNCHANGED <<prov, sent, ledger, row, tier, drift>>, clock' \in Nat
  PROVE  IInv'
  BY QuietOk, HearsOk DEF IInv, Shape, LedgerGrows

LEMMA DeliverOk ==
  ASSUME IInv, NEW n \in DOMAIN sent, Deliver(n)
  PROVE  IInv'
<1> DEFINE e == FromProvider(n)
<1>1. Insert(e) /\ UNCHANGED <<clock, prov, sent, row, tier, drift>>
  BY DEF Deliver
<1>2. n \in Nat /\ sent[n] \in Events /\ SentInv(n)
  BY Types
<1>3. <<"provider", n>> \in Keys
  BY <1>2 DEF Keys
<1>4. /\ e.key = <<"provider", n>> /\ e.kind = sent[n].kind /\ e.status = sent[n].status
      /\ e.reason = sent[n].reason /\ ~e.done
      /\ e \in Entries
  BY <1>2, <1>3 DEF FromProvider, Entry, Entries, Events
<1> HIDE DEF e
<1>5. HonestOf(prov', e) /\ e.key[1] # "local"
  BY <1>1, <1>2, <1>4 DEF SentInv, Honest, HonestOf
<1>6. LedgerGrows
  BY <1>1, <1>2, <1>4, <1>5, InsertOk DEF SentInv
<1> QED
  BY <1>1, <1>6, QuietOk, HearsOk, Types DEF IInv, Shape

LEMMA FetchOk ==
  ASSUME IInv, DriftFetch
  PROVE  IInv'
<1>1. /\ UNCHANGED <<clock, prov, sent, ledger, row, tier>>
      /\ drift' = [pc |-> "fetched", at |-> clock, status |-> prov.status, cap |-> prov.cap]
  BY DEF DriftFetch
<1>2. drift'.status \in Statuses /\ drift'.cap \in BOOLEAN /\ drift'.at \in Nat
  BY <1>1, Types DEF Provs
<1> QED
  BY <1>1, <1>2, QuietOk, HearsOk, Types DEF LedgerGrows

LEMMA ProjectOk ==
  ASSUME IInv, DriftProject
  PROVE  IInv'
<1> DEFINE e == Entry(Recon(drift), "subscription", drift.status, drift.cap, "null", drift.at)
<1>1. /\ Insert(e) /\ drift' = Idle /\ UNCHANGED <<clock, prov, sent, row, tier>>
      /\ drift.pc = "fetched"
  BY DEF DriftProject
<1>2. drift.status \in Statuses /\ drift.cap \in BOOLEAN /\ drift.at \in Nat
  BY <1>1 DEF IInv, Shape
<1>3. Recon(drift) \in Keys /\ Recon(drift)[1] = "recon"
  BY <1>2 DEF Keys, Recon
<1>4. e \in Entries /\ e.key = Recon(drift) /\ e.kind = "subscription" /\ ~e.done
  BY <1>2, <1>3 DEF Entry, Entries, EventKinds
<1>5. HonestOf(prov', e)
  BY <1>2 DEF HonestOf, Entry
<1> HIDE DEF e
<1>6. LedgerGrows
  BY <1>1, <1>3, <1>4, <1>5, InsertOk
<1> QED
  BY <1>1, <1>6, QuietOk, HearsOk, Types DEF Idle

(* A refund is settled, or a verdict refuted, only as the provider says.   *)
LEMMA VerdictOk ==
  ASSUME IInv, VerdictPass
  PROVE  IInv'
<1>1. UNCHANGED <<clock, row, tier, drift>> /\ row.source \in {"refund", "chargeback"}
  BY DEF VerdictPass
<1>2. Progresses /\ SentGrows /\ ApartInv'
  BY SetsCapOk, QuietOk, Zenon DEF VerdictPass
<1>3. \/ ledger' = ledger
      \/ Insert(SettledEntry) /\ FactSettled = "refund"
      \/ Insert(RefutedEntry(row.source)) /\ Refuted(row.source)
  BY DEF VerdictPass
<1>4. ASSUME Insert(SettledEntry), FactSettled = "refund"
      PROVE  LedgerGrows
  <2> DEFINE e == SettledEntry
  <2>1. <<"settled">> \in Keys /\ <<"settled">>[1] # "local"
    BY DEF Keys
  <2>2. e \in Entries /\ e.key = <<"settled">> /\ ~e.done /\ e.kind = "settled" /\ e.reason = "refund"
    BY <2>1, Types DEF SettledEntry, Entry, Entries, EventKinds
  <2>3. prov.refund = "settled"
    BY <1>4 DEF FactSettled
  <2> HIDE DEF e
  <2>4. HonestOf(prov', e)
    BY <1>2, <2>2, <2>3 DEF HonestOf, Progresses
  <2> QED
    BY <1>4, <2>1, <2>2, <2>4, InsertOk DEF e
<1>5. ASSUME Insert(RefutedEntry(row.source)), Refuted(row.source)
      PROVE  LedgerGrows
  <2> DEFINE a == row.source
             e == RefutedEntry(a)
  <2>1. <<"refuted", a>> \in Keys /\ <<"refuted", a>>[1] # "local"
    BY <1>1 DEF Keys
  <2>2. /\ e \in Entries /\ e.key = <<"refuted", a>> /\ ~e.done /\ e.kind = "revoked"
        /\ e.reason = a
    BY <1>1, <2>1, Types DEF RefutedEntry, Entry, Entries, EventKinds
  <2>3. prov[a] = "void"
    BY <1>5 DEF Refuted
  <2> HIDE DEF e
  <2>4. HonestOf(prov', e)
    <3>1. CASE a = "refund"
      BY <1>2, <2>2, <2>3, <3>1, Types DEF HonestOf, Progresses, Provs
    <3>2. CASE a = "chargeback"
      BY <1>2, <2>2, <2>3, <3>2, Types DEF HonestOf, Progresses, Provs
    <3> QED
      BY <1>1, <3>1, <3>2
  <2> QED
    BY <1>1, <1>5, <2>1, <2>2, <2>4, InsertOk DEF e
<1>6. LedgerGrows
  BY <1>3, <1>4, <1>5 DEF LedgerGrows
<1> QED
  BY <1>1, <1>2, <1>6, HearsOk, Types DEF IInv, Shape
-------------------------------------------------------------------------------
(* The user's commits.                                                     *)

LEMMA MarkOk ==
  ASSUME IInv, NEW kind \in {"scheduled", "revoked"}, Mark(kind), prov' = prov
  PROVE  /\ ledger' \in Seq(Entries) /\ \A i \in Rows' : LedgerInv(i)'
         /\ Disputed' => Disputed
<1> DEFINE e == Marker(kind)
<1>1. <<"local", kind>> \in Keys /\ <<"local", kind>>[1] = "local"
  BY DEF Keys
<1>2. Entry(<<"local", kind>>, kind, "null", FALSE, "null", clock) \in Entries
  BY <1>1, Types DEF Entry, Entries, EventKinds
<1>3. e \in Entries /\ e.done /\ e.kind = kind /\ e.reason = "null" /\ e.key = <<"local", kind>>
  BY <1>2 DEF Marker, Entry, Entries
<1>4. ledger' = Append(ledger, e)
  BY DEF Mark
<1> HIDE DEF e
<1>5. /\ ledger' \in Seq(Entries) /\ Rows' = Rows \cup {Len(ledger) + 1}
      /\ \A i \in Rows : ledger'[i] = ledger[i]
      /\ ledger'[Len(ledger) + 1] = e
  BY <1>3, <1>4, OneMore, Types DEF Rows
<1>6. HonestOf(prov', e)
  BY <1>3 DEF HonestOf
<1>7. \A i \in Rows' : LedgerInv(i)'
  <2> SUFFICES ASSUME NEW i \in Rows' PROVE LedgerInv(i)'
    OBVIOUS
  <2>1. CASE i \in Rows
    BY <1>5, <2>1, Types DEF LedgerInv, Honest, HonestOf
  <2>2. CASE i = Len(ledger) + 1
    BY <1>1, <1>3, <1>5, <1>6, <2>2 DEF LedgerInv, Honest, HonestOf
  <2> QED
    BY <1>5, <2>1, <2>2
<1>8. Disputed' => Disputed
  BY <1>3, <1>5 DEF Disputed
<1> QED
  BY <1>5, <1>7, <1>8

(* Steps that write the row under the eyes of what is already known.       *)
LEMMA RowOk ==
  ASSUME IInv, UNCHANGED <<clock, prov, sent, drift>>, TypeOK',
         ledger' \in Seq(Entries), \A i \in Rows' : LedgerInv(i)', StickInv'
  PROVE  IInv'
<1>1. Shape'
  BY Types DEF IInv, Shape
<1>2. ApartInv' /\ \A n \in DOMAIN sent' : SentInv(n)'
  BY Types DEF ApartInv, SentInv, Honest
<1> QED
  BY <1>1, <1>2 DEF IInv

LEMMA CancelCommitsOk ==
  ASSUME IInv, NEW t \in Tabs, CancelCommits(t)
  PROVE  IInv'
<1>1. /\ row' = [row EXCEPT !.cap = TRUE] /\ Mark("scheduled")
      /\ UNCHANGED <<clock, prov, sent, tier, drift>>
  BY DEF CancelCommits
<1>2. TypeOK'
  BY <1>1, Types DEF TypeOK, RowType
<1>3. StickInv'
  BY <1>1, MarkOk, Types DEF StickInv, RowType
<1> QED
  BY <1>1, <1>2, <1>3, MarkOk, RowOk

LEMMA UncancelCommitsOk ==
  ASSUME IInv, NEW t \in Tabs, UncancelCommits(t)
  PROVE  IInv'
<1>1. /\ UNCHANGED <<clock, prov, sent, tier, drift>>
      /\ \/ /\ row' = [row EXCEPT !.cap = FALSE] /\ Mark("revoked")
            /\ row.source \notin Verdicts
         \/ UNCHANGED <<row, ledger>>
  BY DEF UncancelCommits, Revocable
<1>2. CASE UNCHANGED <<row, ledger>>
  BY <1>1, <1>2, IdleOk, Types
<1>3. ASSUME row' = [row EXCEPT !.cap = FALSE], Mark("revoked"), row.source \notin Verdicts
      PROVE  IInv'
  <2>1. TypeOK'
    BY <1>1, <1>3, Types DEF TypeOK, RowType
  <2>2. StickInv'
    BY <1>1, <1>3, MarkOk, Types DEF StickInv, RowType
  <2> QED
    BY <1>1, <1>3, <2>1, <2>2, MarkOk, RowOk
<1> QED
  BY <1>1, <1>2, <1>3

-------------------------------------------------------------------------------
(* Deadlines and the sweep.                                                *)

LEMMA KnownOk ==
  ASSUME IInv, UNCHANGED <<clock, prov, sent, ledger, drift>>, TypeOK',
         Disputed /\ ~Mixed => row'.source = "chargeback" /\ row'.ends = "past" /\ ~tier'
  PROVE  IInv'
<1>1. StickInv'
  BY DEF StickInv, Disputed, Rows
<1>2. \A i \in Rows' : LedgerInv(i)'
  BY Types DEF LedgerInv, Honest, Rows
<1> QED
  BY <1>1, <1>2, RowOk, Types

LEMMA ElapseOk ==
  ASSUME IInv, Elapse
  PROVE  IInv'
<1>1. /\ row' = [row EXCEPT !.ends = "past"] /\ row.ends = "later"
      /\ UNCHANGED <<clock, prov, sent, ledger, tier, drift>>
  BY DEF Elapse
<1>2. TypeOK'
  BY <1>1, Types DEF TypeOK, RowType
<1> QED
  BY <1>1, <1>2, KnownOk, Types DEF StickInv

LEMMA SweepFlipOk ==
  ASSUME IInv, SweepFlip
  PROVE  IInv'
<1>1. /\ row' = [row EXCEPT !.status = "canceled",
                           !.source = IF @ = "null" THEN "provider" ELSE @]
      /\ UNCHANGED <<clock, prov, sent, ledger, tier, drift>>
  BY DEF SweepFlip
<1>2. TypeOK'
  BY <1>1, Types DEF TypeOK, RowType
<1> QED
  BY <1>1, <1>2, KnownOk, Types DEF StickInv, RowType

LEMMA SweepRecomputeOk ==
  ASSUME IInv, SweepRecompute
  PROVE  IInv'
<1>1. /\ UNCHANGED <<clock, prov, sent, ledger, row, drift>>
      /\ tier' = Grants(row) \/ tier' = tier
  BY DEF SweepRecompute
<1>2. TypeOK'
  BY <1>1, Types DEF TypeOK, Grants
<1> QED
  BY <1>1, <1>2, KnownOk, Types DEF StickInv, Grants
-------------------------------------------------------------------------------
(* The projector.                                                          *)

(* What Apply makes of the ledger: its entry is done, the rest stays.      *)
LEMMA AppliedLedger ==
  ASSUME IInv, NEW i \in Rows, Apply(i)
  PROVE  /\ ledger' \in Seq(Entries) /\ Rows' = Rows
         /\ \A j \in Rows \ {i} : ledger'[j] = ledger[j]
         /\ ledger'[i].done /\ ledger'[i].key = ledger[i].key /\ ledger'[i].kind = ledger[i].kind
         /\ ledger'[i].status = ledger[i].status /\ ledger'[i].reason = ledger[i].reason
<1> DEFINE w == Writes(i)
           e == [ledger[i] EXCEPT !.done = TRUE, !.wrote = w]
<1>1. ledger[i] \in Entries /\ i \in DOMAIN ledger
  BY Types DEF Rows
<1>2. w \in BOOLEAN
  <2>1. Stale(i) \in BOOLEAN /\ Terminal(ledger[i]) \in BOOLEAN
    BY DEF Stale, Terminal
  <2> QED
    BY <1>1, <2>1 DEF Writes, Entries, EventKinds
<1> HIDE DEF w
<1>3. /\ e \in Entries /\ e.done /\ e.key = ledger[i].key /\ e.kind = ledger[i].kind
      /\ e.status = ledger[i].status /\ e.reason = ledger[i].reason
  BY <1>1, <1>2 DEF Entries
<1>4. ledger' = [ledger EXCEPT ![i] = e]
  BY DEF Apply, w
<1> HIDE DEF e
<1> QED
  BY <1>1, <1>3, <1>4, Types DEF Rows

LEMMA WrittenTyped ==
  ASSUME IInv, NEW i \in Open
  PROVE  LET r == Written(ledger[i])
         IN /\ Writes(i) => /\ r \in RowType
                            /\ r.source = "provider" => r.status = "canceled"
                            /\ r.source \in Verdicts => r.cap /\ r.ends # "null"
            /\ Grants(r) \in BOOLEAN
<1> DEFINE e == ledger[i]
           r == Written(e)
<1>1. e \in Entries /\ LedgerInv(i) /\ ~e.done
  BY Types DEF Open
<1>2. row \in RowType /\ TypeOK
  BY Types
<1> SUFFICES ASSUME Writes(i)
             PROVE  /\ r \in RowType
                    /\ r.source = "provider" => r.status = "canceled"
                    /\ r.source \in Verdicts => r.cap /\ r.ends # "null"
  BY DEF Grants
<1>3. CASE e.kind = "subscription"
  <2>1. r = Upserted(e) /\ e.status \in Statuses /\ e.cap \in BOOLEAN
    BY <1>1, <1>3 DEF Written, LedgerInv, Honest, HonestOf, Entries
  <2>2. CASE LocalVerdict
    BY <1>2, <2>1, <2>2 DEF Upserted, LocalVerdict, RowType, TypeOK
  <2>3. CASE ~LocalVerdict
    BY <1>2, <2>1, <2>3 DEF Upserted, LocalVerdict, RowType, TypeOK
  <2> QED
    BY <2>2, <2>3
<1>4. CASE e.kind = "scheduled"
  <2>1. r = Scheduled(e) /\ e.reason \in Verdicts
    BY <1>1, <1>4 DEF Written, LedgerInv
  <2> QED
    BY <1>2, <2>1 DEF Scheduled, RowType, TypeOK
<1>5. CASE e.kind = "revoked"
  <2>1. r = [row EXCEPT !.source = "null", !.ends = "null"]
    BY <1>5 DEF Written
  <2> QED
    BY <1>2, <2>1 DEF RowType, TypeOK
<1>6. CASE e.kind = "settled"
  <2>1. r = [row EXCEPT !.status = "canceled", !.ends = "past"] /\ row.source = "refund"
    BY <1>6 DEF Written, Writes
  <2> QED
    BY <1>2, <2>1 DEF RowType, TypeOK
<1> QED
  BY <1>1, <1>3, <1>4, <1>5, <1>6 DEF Entries, EventKinds

(* An open dispute: what it wrote is not written over, for the events that *)
(* could lift it tell of a dispute that was won, or of a refund.           *)
LEMMA DisputeHolds ==
  ASSUME IInv, ~Mixed, prov.chargeback = "open", NEW i \in Open, Writes(i),
         Disputed \/ ledger[i].reason = "chargeback"
  PROVE  LET r == Written(ledger[i])
         IN r.source = "chargeback" /\ r.ends = "past"
<1> DEFINE e == ledger[i]
           r == Written(e)
<1>1. e \in Entries /\ LedgerInv(i) /\ Honest(e) /\ ~e.done /\ row \in RowType
  BY Types DEF Open, LedgerInv
<1>2. Disputed => row.source = "chargeback" /\ row.ends = "past"
  BY Types DEF StickInv
<1>3. e.reason # "refund"
  BY <1>1, Types DEF Honest, HonestOf, ApartInv
<1>4. CASE e.kind = "subscription"
  <2>1. r = Upserted(e) /\ Disputed
    BY <1>1, <1>4 DEF Written, Honest, HonestOf
  <2> QED
    BY <1>2, <2>1 DEF Upserted, LocalVerdict
<1>5. CASE e.kind = "scheduled"
  <2>1. r = Scheduled(e) /\ e.reason = "chargeback"
    BY <1>1, <1>3, <1>5 DEF Written, LedgerInv
  <2> QED
    BY <1>1, <2>1 DEF Scheduled, RowType
<1>6. CASE e.kind = "revoked"
  <2>1. e.reason # "chargeback"
    BY <1>1, <1>6 DEF Honest, HonestOf
  <2>2. row.source = e.reason
    BY <1>6 DEF Writes
  <2> QED
    BY <1>2, <2>1, <2>2
<1>7. CASE e.kind = "settled"
  <2>1. e.reason = "refund"
    BY <1>1, <1>7 DEF Honest, HonestOf
  <2> QED
    BY <1>3, <2>1
<1> QED
  BY <1>1, <1>4, <1>5, <1>6, <1>7 DEF Entries, EventKinds

LEMMA ApplyOk ==
  ASSUME IInv, NEW i \in Rows, Apply(i)
  PROVE  IInv'
<1> DEFINE r == Written(ledger[i])
<1>1. /\ i \in Open /\ UNCHANGED <<clock, prov, sent, drift>>
      /\ \/ Writes(i) /\ row' = r /\ tier' = Grants(r)
         \/ ~Writes(i) /\ row' = row /\ tier' = tier
  BY DEF Apply, Grants
<1> HIDE DEF r
<1>2. TypeOK'
  BY <1>1, WrittenTyped, Types DEF TypeOK, r
<1>3. \A j \in Rows' : LedgerInv(j)'
  <2> SUFFICES ASSUME NEW j \in Rows PROVE LedgerInv(j)'
    BY AppliedLedger
  <2>1. CASE j = i
    <3>1. ledger[i].key[1] # "local"
      BY <1>1, Types DEF LedgerInv, Open
    <3> QED
      BY <1>1, <2>1, <3>1, AppliedLedger, Types DEF LedgerInv, Honest, HonestOf
  <2>2. CASE j # i
    BY <1>1, <2>2, AppliedLedger, Types DEF LedgerInv, Honest, HonestOf
  <2> QED
    BY <2>1, <2>2
<1>4. StickInv'
  <2> SUFFICES ASSUME ~Mixed, prov.chargeback = "open", Disputed \/ ledger[i].reason = "chargeback"
               PROVE  row'.source = "chargeback" /\ row'.ends = "past" /\ ~tier'
    BY <1>1, AppliedLedger DEF StickInv, Disputed
  <2>1. CASE Writes(i)
    <3>1. row'.source = "chargeback" /\ row'.ends = "past"
      BY <1>1, <2>1, DisputeHolds DEF r
    <3> QED
      BY <1>1, <2>1, <3>1 DEF Grants
  <2>2. CASE ~Writes(i)
    <3>1. Disputed
      <4> SUFFICES ASSUME ledger[i].reason = "chargeback" PROVE FALSE
        OBVIOUS
      <4>1. ledger[i].kind = "scheduled"
        BY <1>1, Types DEF LedgerInv, Honest, HonestOf, Open
      <4> QED
        BY <2>2, <4>1 DEF Writes
    <3> QED
      BY <1>1, <2>2, <3>1, Types DEF StickInv
  <2> QED
    BY <2>1, <2>2
<1> QED
  BY <1>1, <1>2, <1>3, <1>4, AppliedLedger, RowOk
-------------------------------------------------------------------------------
(* Every step.                                                             *)

(* A step that is not the projector's only adds to the ledger.             *)
Adds == ledger' = ledger \/ \E e : ledger' = Append(ledger, e)

LEMMA OthersAdd ==
  ASSUME [Next]_vars
  PROVE  Adds \/ \E i \in Rows : Apply(i)
<1>1. CASE UNCHANGED vars
  BY <1>1 DEF Adds
<1>2. ASSUME NEW s \in Changes, ProviderChanges(s) PROVE Adds
  BY <1>2 DEF ProviderChanges, Adds
<1>3. ASSUME NEW a \in Adjusts, Adjust(a) \/ AdjustEnds(a) PROVE Adds
  BY <1>3 DEF Adjust, AdjustEnds, Adds
<1>4. ASSUME NEW t \in Tabs, CancelCalls(t) \/ UncancelReads(t) \/ TabDies(t) PROVE Adds
  BY <1>4 DEF CancelCalls, UncancelReads, TabDies, Adds
<1>5. ASSUME NEW t \in Tabs, CancelCommits(t) \/ UncancelCalls(t) \/ UncancelCommits(t) PROVE Adds
  BY <1>5, Zenon DEF CancelCommits, UncancelCalls, UncancelCommits, Mark, Adds
<1>6. ASSUME NEW n \in DOMAIN sent, Deliver(n) PROVE Adds
  BY <1>6, Zenon DEF Deliver, Insert, Adds
<1>7. CASE Tick \/ Elapse \/ SweepFlip \/ SweepRecompute \/ SweepStops \/ DriftFetch
  BY <1>7 DEF Tick, Elapse, SweepFlip, SweepRecompute, SweepStops, DriftFetch, Adds
<1>8. CASE DriftProject
  BY <1>8, Zenon DEF DriftProject, Insert, Adds
<1>9. CASE VerdictPass
  BY <1>9, Zenon DEF VerdictPass, Insert, Adds
<1> QED
  BY <1>1, <1>2, <1>3, <1>4, <1>5, <1>6, <1>7, <1>8, <1>9
  DEF Next, Time, Delivery, Handling, Committing, Drift, Sweep

LEMMA NextOk == IInv /\ [Next]_vars => IInv'
<1> SUFFICES ASSUME IInv, [Next]_vars PROVE IInv'
  OBVIOUS
<1>1. CASE UNCHANGED vars
  BY <1>1, IdleOk, Types
<1>2. ASSUME NEW t \in Tabs, UncancelReads(t) \/ TabDies(t) PROVE IInv'
  BY <1>2, IdleOk, Types DEF UncancelReads, TabDies
<1>3. CASE Tick
  <2>1. clock' \in Nat
    BY <1>3, Types DEF Tick
  <2> QED
    BY <1>3, <2>1, IdleOk DEF Tick
<1>4. CASE SweepStops
  BY <1>4, IdleOk, Types DEF SweepStops
<1>5. CASE \E s \in Changes : ProviderChanges(s)
  BY <1>5, ChangeOk
<1>6. CASE \E a \in Adjusts : Adjust(a) \/ AdjustEnds(a)
  BY <1>6, AdjustOk, AdjustEndsOk
<1>7. CASE \E t \in Tabs : CancelCalls(t)
  BY <1>7, CancelCallsOk
<1>8. CASE Committing
  BY <1>8, CancelCommitsOk, UncancelCallsOk, UncancelCommitsOk DEF Committing
<1>9. CASE Elapse \/ Sweep
  BY <1>9, ElapseOk, SweepFlipOk, SweepRecomputeOk DEF Sweep
<1>10. CASE Delivery \/ Handling
  BY <1>10, DeliverOk, ApplyOk DEF Delivery, Handling
<1>11. CASE Drift \/ VerdictPass
  BY <1>11, FetchOk, ProjectOk, VerdictOk DEF Drift
<1> QED
  BY <1>1, <1>2, <1>3, <1>4, <1>5, <1>6, <1>7, <1>8, <1>9, <1>10, <1>11 DEF Next, Time

-------------------------------------------------------------------------------
(* The results.                                                            *)

(* The inductive invariant holds in every reachable state.                 *)
THEOREM Invariance == Spec => []IInv
  BY InitOk, NextOk, PTL DEF Spec

(* The row is always one the code writes: a verdict has its deadline and   *)
(* stops the renewal, and only a canceled row was ended by the provider    *)
(* (applySubscription, applyScheduledCancellation).                        *)
THEOREM TypeCorrect == Spec => []TypeOK
<1>1. IInv => TypeOK
  BY Types
<1> QED
  BY <1>1, Invariance, PTL

(* Where a subscription is refunded or disputed, and not both, a           *)
(* chargeback that was applied takes the access away until the dispute is  *)
(* won, in whatever order the webhooks, the passes, the user and the       *)
(* deadlines come (applyScheduledCancellation, enforceLocalVerdicts).      *)
THEOREM ChargebackCorrect == ~Mixed => (Spec => []ChargebackSticks)
<1> SUFFICES ASSUME ~Mixed PROVE Spec => []ChargebackSticks
  OBVIOUS
<1>1. IInv => ChargebackSticks
  BY Types DEF ChargebackSticks, StickInv, Disputed
<1> QED
  BY <1>1, Invariance, PTL

(* A step that makes an entry done is the projector's, with that entry.    *)
LEMMA DoneByApply ==
  ASSUME IInv, [Next]_vars, NEW i \in Open, ledger'[i].done
  PROVE  Apply(i)
<1>1. i \in Rows /\ ~ledger[i].done /\ ledger \in Seq(Entries)
  BY Types DEF Open
<1>2. ~Adds
  BY <1>1 DEF Adds, Rows
<1>3. PICK k \in Rows : Apply(k)
  BY <1>2, OthersAdd
<1>4. k = i
  BY <1>1, <1>3, AppliedLedger
<1> QED
  BY <1>3, <1>4

(* Whoever turns the renewal flag round with a payload has looked at every *)
(* marker of the user's that is in the ledger: each came before it (Stale, *)
(* isNewer).                                                               *)
LEMMA LastWordStep ==
  ASSUME IInv, [Next]_vars, NEW i \in Rows, row.cap # row'.cap, i \in Open, ledger'[i].done,
         ledger[i].kind = "subscription", NEW j \in Rows, ledger[j].key[1] = "local"
  PROVE  Precedes(j, i)
<1>1. Apply(i)
  BY DoneByApply
<1>2. Writes(i)
  BY <1>1 DEF Apply
<1>3. ~Stale(i)
  BY <1>2 DEF Writes
<1>4. ledger[j].done /\ ledger[j].kind \in StateKinds /\ j # i
  BY Types DEF LedgerInv, StateKinds, Open
<1>5. ~IsNewer(j, i)
  BY <1>3, <1>4 DEF Stale
<1>6. i \in Nat /\ j \in Nat /\ ledger[i].at \in Nat /\ ledger[j].at \in Nat
  BY Types DEF Rows, Entries
<1> QED
  BY <1>4, <1>5, <1>6 DEF IsNewer, Precedes

(* The renewal flag the user set is not turned round by a payload from     *)
(* before, for any number of settings pages (cancelAtPeriodEnd,            *)
(* resumeCancellation).                                                    *)
THEOREM LastWordCorrect == Spec => UserHasTheLastWord
<1> DEFINE Step ==
      \A i \in Rows :
        (row.cap # row'.cap /\ i \in Open /\ ledger'[i].done /\ ledger[i].kind = "subscription")
        => \A j \in Rows : ledger[j].key[1] = "local" => Precedes(j, i)
<1>1. IInv /\ [Next]_vars => Step
  BY LastWordStep
<1> QED
  BY <1>1, Invariance, PTL DEF Spec, UserHasTheLastWord
===============================================================================
