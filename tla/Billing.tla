-------------------------------- MODULE Billing --------------------------------
(***************************************************************************)
(* One subscription of a workspace, as the payment provider tells of it    *)
(* and as DeclutrMail records it: the event ledger with its dedup and its  *)
(* staleness order, the projector every source goes through, the user's    *)
(* cancel and un-cancel, the drift and the verdict passes that read the    *)
(* provider, and the sweep that ends access when a deadline has passed.    *)
(* Webhooks are lost, repeated and reordered.  Plan changes, one-time      *)
(* passes, complimentary grants and checkouts are left out.                *)
(***************************************************************************)
EXTENDS Naturals, Sequences, FiniteSets

CONSTANTS
  Tabs,        \* the user's open settings pages
  Changes,     \* what the provider may do of itself: the statuses it may enter
  Adjusts,     \* money it may move: "refund", "chargeback"
  Mixed,       \* both may happen to the one subscription
  MaxSent,     \* bound: events of the provider
  MaxClock,    \* bound: instants; the last one is quiet
  MaxOpen      \* bound: open rows when a webhook is accepted

Statuses == {"active", "past_due", "paused", "canceled"}
Granting == {"active", "past_due"}         \* GRANTING_STATUSES
Live == Statuses \ {"canceled"}
Verdicts == {"refund", "chargeback"}       \* the local ones of cancel_source

ASSUME SetsAssumption ==
  /\ IsFiniteSet(Tabs) /\ Changes \subseteq Statuses
  /\ Mixed \in BOOLEAN /\ Adjusts \subseteq Verdicts

ASSUME BoundsAssumption ==
  /\ {MaxSent, MaxClock, MaxOpen} \subseteq Nat
  /\ MaxClock > 0

VARIABLES
  clock,    \* the instant
  prov,     \* the provider's truth: status, cap (cancels at period end), refund, chargeback
  sent,     \* its events, in the order they happened
  ledger,   \* subscription_events, in the order of arrival_seq
  row,      \* the subscriptions row
  tier,     \* workspaces.tier is a paid one
  tabs,     \* the user's requests at work
  drift,    \* the drift pass
  sweep,    \* the reconciliation sweep
  since,    \* ghost: when the provider came to its snapshot
  broken    \* ghost: the sweep stopped between its two transactions

books == <<ledger, row, tier>>
outside == <<prov, sent>>
passes == <<drift, sweep>>
vars == <<clock, outside, books, tabs, passes, since, broken>>

-------------------------------------------------------------------------------
Fresh == [status |-> "active", cap |-> FALSE, source |-> "null", ends |-> "null"]
Idle == [pc |-> "idle"]

(* A ledger row: its provider_event_id, what the payload says, the event's *)
(* time, processed_at, and whether it wrote the subscription (a ghost).    *)
Entry(key, kind, status, cap, reason, at) ==
  [key |-> key, kind |-> kind, status |-> status, cap |-> cap, reason |-> reason,
   at |-> at, done |-> FALSE, wrote |-> FALSE]

Told(kind, status, cap, reason, at) ==
  [kind |-> kind, status |-> status, cap |-> cap, reason |-> reason, at |-> at]

Rows == DOMAIN ledger
Has(key) == \E i \in Rows : ledger[i].key = key
Recorded(key) == \E i \in Rows : ledger[i].key = key /\ ledger[i].done

(* stateHash: the id under which a snapshot of the provider is reconciled. *)
Recon(p) == <<"recon", p.status, p.cap>>

(* recomputeWorkspaceTier: a deadline that has passed grants nothing.      *)
Grants(r) == r.status \in Granting /\ r.ends # "past"

(* The insert of process.  A handler that dies leaves an unprocessed row,  *)
(* and the redelivery resumes it: an open row is one a handler is, or will *)
(* again be, at work on.                                                   *)
Insert(e) == ledger' = IF Has(e.key) THEN ledger ELSE Append(ledger, e)
Open == {i \in Rows : ~ ledger[i].done}

-------------------------------------------------------------------------------
(* The provider. *)

(* The provider's instants and ours do not tie: it stamps the even ones.   *)
ProviderTime == clock % 2 = 0
LocalTime == clock % 2 = 1

Say(e) == sent' = Append(sent, e)

Enters(p) ==
  /\ prov' = p
  /\ since' = IF Recon(p) = Recon(prov) THEN since ELSE clock

ProviderChanges(s) ==
  /\ ProviderTime /\ clock < MaxClock /\ Len(sent) < MaxSent
  /\ s \in Changes \ {prov.status} /\ prov.status # "canceled"
  /\ Enters([prov EXCEPT !.status = s])
  /\ Say(Told("subscription", s, prov.cap, "null", clock))
  /\ UNCHANGED <<clock, books, tabs, passes, broken>>

(* A refund awaits the provider's approval; a chargeback is final until    *)
(* the dispute is won.                                                     *)
Adjust(a) ==
  /\ ProviderTime /\ clock < MaxClock /\ Len(sent) < MaxSent
  /\ a \in Adjusts /\ prov[a] = "none"
  /\ Mixed \/ \A b \in Verdicts : prov[b] = "none"
  /\ Enters([prov EXCEPT ![a] = "open"])
  /\ Say(Told("scheduled", "null", FALSE, a, clock))
  /\ UNCHANGED <<clock, books, tabs, passes, broken>>

AdjustEnds(a) ==
  /\ ProviderTime /\ clock < MaxClock /\ Len(sent) < MaxSent
  /\ prov[a] = "open"
  /\ \/ /\ Enters([prov EXCEPT ![a] = "void"])
        /\ Say(Told("revoked", "null", FALSE, a, clock))
     \/ /\ a = "refund"
        /\ Enters([prov EXCEPT ![a] = "settled"])
        /\ Say(Told("settled", "null", FALSE, a, clock))
  /\ UNCHANGED <<clock, books, tabs, passes, broken>>

(* A call of DeclutrMail that schedules, or clears, the cancellation; the  *)
(* provider tells of it like of any change.                                *)
SetsCap(c) ==
  IF prov.cap = c \/ prov.status = "canceled"
  THEN UNCHANGED <<outside, since>>
  ELSE /\ Enters([prov EXCEPT !.cap = c])
       /\ Say(Told("subscription", prov.status, c, "null", clock))

Tick ==
  /\ clock < MaxClock
  /\ clock' = clock + 1
  /\ UNCHANGED <<outside, books, tabs, passes, since, broken>>

-------------------------------------------------------------------------------
(* Delivery, in any order.  The provider's attempts run out: a webhook may *)
(* never come, so delivery has no fairness.                                *)

FromProvider(n) ==
  Entry(<<"provider", n>>, sent[n].kind, sent[n].status, sent[n].cap, sent[n].reason, sent[n].at)

Deliver(n) ==
  /\ n \in DOMAIN sent
  /\ ~ Has(<<"provider", n>>) /\ Cardinality(Open) < MaxOpen
  /\ Insert(FromProvider(n))
  /\ UNCHANGED <<clock, outside, row, tier, tabs, passes, since, broken>>

-------------------------------------------------------------------------------
(* The projector: one transaction per effect, under the lock of the        *)
(* subscription.  A handler does not look at processed_at again.           *)

StateKindsPayloads == {"subscription"}
StateKinds == {"subscription", "scheduled", "revoked"}

(* isNewer: the provider's time first, then arrival; on a tie a granting   *)
(* payload does not overwrite one that grants nothing.                     *)
IsNewer(j, i) ==
  LET p == ledger[j]
      e == ledger[i]
  IN IF p.at # e.at THEN p.at > e.at
     ELSE j > i \/ (e.status \in Granting /\ p.status \in {"paused", "canceled"})

Stale(i) ==
  \E j \in Rows \ {i} : ledger[j].done /\ ledger[j].kind \in StateKinds /\ IsNewer(j, i)

(* The terminal-canceled floor.                                            *)
Terminal(e) == row.status = "canceled" /\ e.status # "canceled"

LocalVerdictRefund == row.source = "refund"
LocalVerdict == row.source \in Verdicts

(* applySubscription's upsert: a local verdict keeps its mark, its         *)
(* deadline and the end of the renewal; a failed payment starts the        *)
(* dunning window.                                                         *)
Upserted(e) ==
  [status |-> e.status,
   cap    |-> LocalVerdict \/ e.cap,
   source |-> IF LocalVerdict THEN row.source
              ELSE IF e.status = "canceled" THEN "provider" ELSE "null",
   ends   |-> IF LocalVerdict THEN row.ends
              ELSE IF e.status = "past_due" THEN "later" ELSE "null"]

(* applyScheduledCancellation: a refund has a grace, the least of a week   *)
(* and the rest of the period; a chargeback ends access at once.           *)
Scheduled(e) ==
  [row EXCEPT !.cap = TRUE, !.source = e.reason,
              !.ends = IF e.reason = "chargeback" THEN "past" ELSE "later"]

(* Which events write: each update has its conditions in its WHERE.        *)
Writes(i) ==
  LET e == ledger[i]
  IN CASE e.kind = "subscription" -> ~ (Stale(i) \/ Terminal(e))
       [] e.kind = "scheduled" -> TRUE
       [] e.kind = "revoked" -> row.source = e.reason
       [] e.kind = "settled" -> row.source = "refund" /\ row.status \in Live

Written(e) ==
  CASE e.kind = "subscription" -> Upserted(e)
    [] e.kind = "scheduled" -> Scheduled(e)
    [] e.kind = "revoked" -> [row EXCEPT !.source = "null", !.ends = "null"]
    [] e.kind = "settled" -> [row EXCEPT !.status = "canceled", !.ends = "past"]

(* Every write recomputes the tier in its transaction.                     *)
Apply(i) ==
  /\ i \in Open
  /\ ledger' = [ledger EXCEPT ![i].done = TRUE, ![i].wrote = Writes(i)]
  /\ row' = IF Writes(i) THEN Written(ledger[i]) ELSE row
  /\ tier' = IF Writes(i) THEN Grants(row') ELSE tier
  /\ UNCHANGED <<clock, outside, tabs, passes, since, broken>>

-------------------------------------------------------------------------------
(* The user's cancel and un-cancel: the provider is called first, then one *)
(* transaction writes the flag and a marker that takes part in the order.  *)

Marker(kind) == [Entry(<<"local", kind>>, kind, "null", FALSE, "null", clock) EXCEPT !.done = TRUE]

Mark(kind) == ledger' = Append(ledger, Marker(kind))

CancelMarks == {i \in Rows : ledger[i].key = <<"local", "scheduled">>}

CancelCalls(t) ==
  /\ tabs[t].pc = "idle" /\ clock < MaxClock /\ ProviderTime
  /\ Len(sent) < MaxSent
  /\ row.status \in Live /\ ~ row.cap
  /\ prov.status # "canceled"
  /\ SetsCap(TRUE)
  /\ tabs' = [tabs EXCEPT ![t] = [pc |-> "cancel"]]
  /\ UNCHANGED <<clock, books, passes, broken>>

CancelCommits(t) ==
  /\ tabs[t].pc = "cancel" /\ LocalTime
  /\ row' = [row EXCEPT !.cap = TRUE]
  /\ Mark("scheduled")
  /\ tabs' = [tabs EXCEPT ![t] = Idle]
  /\ UNCHANGED <<clock, outside, tier, passes, since, broken>>

(* Only the user's own cancel can be taken back.                           *)
Revocable(r) == r.status \in Granting /\ r.source \notin Verdicts

UncancelReads(t) ==
  /\ tabs[t].pc = "idle" /\ clock < MaxClock
  /\ Len(sent) < MaxSent
  /\ row.cap /\ Revocable(row)
  /\ tabs' = [tabs EXCEPT ![t] = [pc |-> "uncancel", seen |-> CancelMarks]]
  /\ UNCHANGED <<clock, outside, books, passes, since, broken>>

UncancelCalls(t) ==
  /\ tabs[t].pc = "uncancel" /\ ProviderTime
  /\ SetsCap(FALSE)
  /\ tabs' = [tabs EXCEPT ![t] = IF prov.status = "canceled" THEN Idle
                                 ELSE [pc |-> "cleared", seen |-> tabs[t].seen]]
  /\ UNCHANGED <<clock, books, passes, broken>>

UncancelCommits(t) ==
  /\ tabs[t].pc = "cleared" /\ LocalTime
  /\ IF CancelMarks \subseteq tabs[t].seen /\ Revocable(row)
     THEN row' = [row EXCEPT !.cap = FALSE] /\ Mark("revoked")
     ELSE UNCHANGED <<row, ledger>>
  /\ tabs' = [tabs EXCEPT ![t] = Idle]
  /\ UNCHANGED <<clock, outside, tier, passes, since, broken>>

-------------------------------------------------------------------------------
(* The passes of the worker.  Each feeds the projector and waits for it.   *)

Working(source) == \E i \in Open : ledger[i].key[1] = source

(* reconcileLiveSubscriptions: the snapshot carries the time at which the  *)
(* request began.                                                          *)
DriftRowsActive == Granting
DriftRows == Live

DriftFetch ==
  /\ drift.pc = "idle" /\ ~ Working("recon") /\ LocalTime
  /\ row.status \in DriftRows
  /\ ~ Recorded(Recon(prov))
  /\ drift' = [pc |-> "fetched", at |-> clock, status |-> prov.status, cap |-> prov.cap]
  /\ UNCHANGED <<clock, outside, books, tabs, sweep, since, broken>>

DriftProject ==
  /\ drift.pc = "fetched"
  /\ Insert(Entry(Recon(drift), "subscription", drift.status, drift.cap, "null", drift.at))
  /\ drift' = Idle
  /\ UNCHANGED <<clock, outside, row, tier, tabs, sweep, since, broken>>

(* providerCancellationFacts. *)
FactSettled ==
  IF prov.chargeback = "open" THEN "chargeback"
  ELSE IF prov.refund = "settled" THEN "refund" ELSE "null"

Refuted(a) == prov[a] = "void"

SettledEntry == Entry(<<"settled">>, "settled", "null", FALSE, "refund", clock)
RefutedEntry(a) == Entry(<<"refuted", a>>, "revoked", "null", FALSE, a, clock)

(* enforceLocalVerdicts, on a row under a verdict or a refunded one that   *)
(* the provider may still be billing.  A settled adjustment: the renewal   *)
(* is stopped at the provider, and a refund frees the slot.  A refuted     *)
(* one: the verdict is lifted.                                             *)
VerdictPass ==
  /\ LocalTime /\ ~ Working("refuted") /\ ~ Working("settled")
  /\ prov.status # "canceled"
  /\ row.source \in Verdicts
  /\ LET live  == row.status # "canceled"
         stops == FactSettled # "null" /\ (live \/ FactSettled = "refund")
         frees == live /\ FactSettled = "refund" /\ row.source = "refund"
         lifts == live /\ FactSettled = "null" /\ Refuted(row.source)
     IN /\ live \/ row.source = "refund"
        /\ (stops /\ ~ prov.cap) \/ frees \/ lifts
        /\ IF stops THEN SetsCap(TRUE) ELSE UNCHANGED <<outside, since>>
        /\ IF frees THEN Insert(SettledEntry)
           ELSE IF lifts THEN Insert(RefutedEntry(row.source))
           ELSE ledger' = ledger
  /\ UNCHANGED <<clock, row, tier, tabs, drift, sweep, broken>>

(* A deadline passes. *)
Elapse ==
  /\ row.ends = "later"
  /\ row' = [row EXCEPT !.ends = "past"]
  /\ UNCHANGED <<clock, outside, ledger, tier, tabs, passes, since, broken>>

(* runBillingReconciliationSweep, in two transactions: the flip of a       *)
(* dunning row whose deadline passed, then the recompute of the workspaces *)
(* that hold an expired row or were flipped by this run.  A run that flips *)
(* nothing is its recompute.                                               *)
SweepFlip ==
  /\ sweep = "idle"
  /\ row.status = "past_due" /\ row.ends = "past"
  /\ row' = [row EXCEPT !.status = "canceled",
                        !.source = IF @ = "null" THEN "provider" ELSE @]
  /\ sweep' = "flipped"
  /\ UNCHANGED <<clock, outside, ledger, tier, tabs, drift, since, broken>>

CarriedNever == FALSE
Carried == sweep = "flipped"
HoldsExpired == row.status \in Granting /\ row.ends = "past"

SweepRecompute ==
  /\ sweep = "flipped" \/ HoldsExpired
  /\ tier' = IF Carried \/ HoldsExpired THEN Grants(row) ELSE tier
  /\ sweep' = "idle"
  /\ UNCHANGED <<clock, outside, ledger, row, tabs, drift, since, broken>>

-------------------------------------------------------------------------------
(* A request dies with its process, after its provider call; the sweep's   *)
(* second transaction fails.                                               *)
TabDies(t) ==
  /\ tabs[t].pc # "idle"
  /\ tabs' = [tabs EXCEPT ![t] = Idle]
  /\ UNCHANGED <<clock, outside, books, passes, since, broken>>

SweepStops ==
  /\ sweep = "flipped"
  /\ sweep' = "idle" /\ broken' = TRUE
  /\ UNCHANGED <<clock, outside, books, tabs, drift, since>>

-------------------------------------------------------------------------------
(* The activation has been projected; nothing else has happened yet.       *)
Init ==
  /\ clock = 0
  /\ prov = [status |-> "active", cap |-> FALSE, refund |-> "none", chargeback |-> "none"]
  /\ sent = <<>> /\ ledger = <<>>
  /\ row = Fresh /\ tier = TRUE
  /\ tabs = [t \in Tabs |-> Idle]
  /\ drift = Idle
  /\ sweep = "idle"
  /\ since = 0 /\ broken = FALSE

Time == Tick \/ Elapse
Delivery == \E n \in DOMAIN sent : Deliver(n)
Handling == \E i \in Rows : Apply(i)
Committing == \E t \in Tabs : CancelCommits(t) \/ UncancelCalls(t) \/ UncancelCommits(t)
Drift == DriftFetch \/ DriftProject
Sweep == SweepFlip \/ SweepRecompute

Next ==
  \/ \E s \in Changes : ProviderChanges(s)
  \/ \E a \in Adjusts : Adjust(a) \/ AdjustEnds(a)
  \/ \E t \in Tabs : CancelCalls(t) \/ UncancelReads(t) \/ TabDies(t)
  \/ SweepStops
  \/ Time \/ Delivery \/ Handling \/ Committing \/ Drift \/ VerdictPass \/ Sweep

Spec == Init /\ [][Next]_vars

(* Time passes; handlers and requests end; the worker's passes run again   *)
(* and again.  Delivery is not fair: a webhook may be lost.                *)
Fairness ==
  /\ WF_vars(Time) /\ WF_vars(Handling) /\ WF_vars(Committing)
  /\ WF_vars(Drift) /\ WF_vars(VerdictPass) /\ WF_vars(Sweep)

LiveSpec == Spec /\ Fairness

-------------------------------------------------------------------------------
(* Properties. *)

RowType ==
  [status : Statuses, cap : BOOLEAN,
   source : Verdicts \cup {"provider", "null"}, ends : {"null", "later", "past"}]

(* The row is one the code writes: a provider's cancellation is on a       *)
(* canceled row, a verdict has its deadline and stops the renewal.        *)
TypeOK ==
  /\ row \in RowType /\ tier \in BOOLEAN
  /\ row.source = "provider" => row.status = "canceled"
  /\ row.source \in Verdicts => row.cap /\ row.ends # "null"

(* A chargeback revokes entitlement immediately and sticks                 *)
(* (applyScheduledCancellation): once it was applied, and until the        *)
(* dispute is won, the subscription gives no access.                       *)
ChargebackSticks ==
  (prov.chargeback = "open" /\ \E i \in Rows : ledger[i].reason = "chargeback" /\ ledger[i].done)
     => ~ tier

(* The renewal flag the user set is not turned round by a payload from     *)
(* before: when a payload changes it, every marker of a cancel or an       *)
(* un-cancel is older, or of the same instant and already in the ledger    *)
(* when the payload came (the markers of cancelAtPeriodEnd and             *)
(* resumeCancellation take part in the staleness order).                   *)
Precedes(j, i) ==
  ledger[j].at < ledger[i].at \/ (ledger[j].at = ledger[i].at /\ j < i)

UserHasTheLastWord ==
  [][\A i \in Rows :
       (row.cap # row'.cap /\ i \in Open /\ ledger'[i].done /\ ledger[i].kind = "subscription")
       => \A j \in Rows : ledger[j].key[1] = "local" => Precedes(j, i)]_vars

(* Access ends: a tier that nothing grants any more is taken away, by an   *)
(* event or by the sweep (runBillingReconciliationSweep), unless a sweep   *)
(* stopped after it flipped the row.                                       *)
AccessEnds == (tier /\ ~ Grants(row)) ~> (~ tier \/ Grants(row) \/ broken)

(* The sweep keeps entitlement honest without a webhook (its header): it   *)
(* does so too when one of its runs fails.                                 *)
BackstopHolds == (tier /\ ~ Grants(row)) ~> (~ tier \/ Grants(row))

(* The row comes to the provider's status although webhooks are lost,      *)
(* repeated and reordered: the drift pass reads it.  The known gap is a    *)
(* snapshot whose reconciliation id was used up: one the provider came     *)
(* back to, or one that was refused as stale when it was projected.        *)
Spent ==
  \E i \in Rows : /\ ledger[i].key = Recon(prov) /\ ledger[i].done
                 /\ (ledger[i].at < since \/ ~ ledger[i].wrote)
Converges == <>[](row.status \in {prov.status, "canceled"} \/ Spent)
===============================================================================
