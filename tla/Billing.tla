------------------------------ MODULE Billing ------------------------------
(***************************************************************************)
(* Premium state driven by Stripe (src/modules/billing).  The gateway owns *)
(* the subscriptions; the server keeps a row per subscription, a derived   *)
(* User.isPremium and the set of webhook events it has applied.  Three     *)
(* kinds of process write that state and interleave statement by           *)
(* statement under READ COMMITTED: the webhook handlers (Workers), the     *)
(* billing-sync reconciler (Sync) and the account eraser.                  *)
(*                                                                         *)
(* A gateway subscription is its history: a sequence of versions, each     *)
(* with the second it was created in.  A local row carries, next to the    *)
(* columns, the version it was last copied from (ver, 0 when there is no   *)
(* row), which is what the properties compare.                             *)
(***************************************************************************)
EXTENDS Integers, Sequences, FiniteSets

CONSTANTS
    Users,          \* accounts
    Subs,           \* subscription slots, each to be used at most once
    Owner,          \* Owner[s]: the account that opens slot s
    Workers,        \* concurrent webhook requests
    Sync,           \* the billing-sync reconciler, a process of its own
    SyncEnabled,    \* BILLING_SYNC_ENABLED
    Erasable,       \* accounts whose deletion may fall due
    Kinds,          \* event kinds the gateway sends in this instance
    Minute,         \* width of the idempotency bucket of the two checkouts
    Period,         \* length of a trial or billing period
    Grace,          \* BILLING_SYNC_GRACE_MS
    Lookback,       \* BILLING_ORPHAN_LOOKBACK_MS
    Retention,      \* BILLING_WEBHOOK_RETENTION_DAYS
    Redelivery,     \* how long the gateway redelivers an event
    Latency,        \* longest time a handler or a sync of one row is in flight
    MaxTime,        \* bound: last instant of the clock
    MaxChange,      \* bound: last instant at which the gateway changes
    MaxVersions     \* bound: versions of one subscription

EventKinds == {"subscription", "invoice", "checkout", "setup"}

ASSUME OwnerAssumption == Subs # {} /\ Owner \in [Subs -> Users]
ASSUME SyncAssumption == Sync \notin Workers /\ SyncEnabled \in BOOLEAN
ASSUME KindsAssumption == Kinds \subseteq EventKinds /\ Erasable \subseteq Users
ASSUME TimesAssumption ==
    /\ Minute \in Nat \ {0}
    /\ {Period, Grace, Lookback, Retention, Redelivery, Latency, MaxTime,
        MaxChange, MaxVersions} \subseteq Nat
\* "o Stripe reenvia eventos por no maximo alguns dias", the purge waits 90.
ASSUME RetentionAssumption == Redelivery + Latency <= Retention

VARIABLES
    now,            \* the clock, in seconds
    hist,           \* gateway: versions of each subscription
    offer,          \* gateway: how and when each slot was opened
    customer,       \* gateway: the user's Customer
    custCard,       \* gateway: Customer.invoice_settings.default_payment_method
    sent,           \* gateway: events it has created
    account,        \* users: stripeCustomerId set, unset, or account anonymized
    erasing,        \* the eraser, past terminateBillingForUser of an account
    row,            \* subscriptions table
    isPremium,      \* users.isPremium
    processed,      \* webhook_events table: event and processedAt
    proc,           \* the in-flight request or sync of each process
    doneEver        \* history: events whose transaction ever committed

vars == <<now, hist, offer, customer, custCard, sent, account, erasing, row,
          isPremium, processed, proc, doneEver>>
gateway == <<hist, offer, customer, custCard, sent>>
database == <<account, erasing, row, isPremium, processed, doneEver>>

Procs == Workers \cup {Sync}

GatewayStatus == {"trialing", "active", "past_due", "canceled", "incomplete",
                  "incomplete_expired", "unpaid"}
LocalStatus == {"TRIALING", "ACTIVE", "PAST_DUE", "CANCELED", "INCOMPLETE",
                "INCOMPLETE_EXPIRED", "UNPAID"}

mapStatus == [g \in GatewayStatus |->
    CASE g = "trialing" -> "TRIALING"
      [] g = "active" -> "ACTIVE"
      [] g = "past_due" -> "PAST_DUE"
      [] g = "canceled" -> "CANCELED"
      [] g = "incomplete_expired" -> "INCOMPLETE_EXPIRED"
      [] g = "unpaid" -> "UNPAID"
      [] OTHER -> "INCOMPLETE"]

Version == [status: GatewayStatus, card: BOOLEAN, end: Nat, at: Nat]
Offer == [via: {"none", "checkout", "sheet"}, trial: BOOLEAN, at: Nat]
Event == [kind: EventKinds, sub: Subs, ver: Nat, at: Nat]
Job == [kind: EventKinds \cup {"idle", "sync", "adopt"}, sub: Subs, ver: Nat,
        at: Nat]
Row == [ver: Nat, status: LocalStatus, card: BOOLEAN, end: Nat, synced: Nat]
Proc == [pc: {"idle", "external", "begin", "stamp", "write", "count", "commit"},
         job: Job, got: Nat, card: BOOLEAN, stamp: Nat, since: Nat,
         locks: SUBSET Subs, prem: BOOLEAN]

NoRow == [ver |-> 0, status |-> "INCOMPLETE", card |-> FALSE, end |-> 0,
          synced |-> 0]
NoOffer == [via |-> "none", trial |-> FALSE, at |-> 0]
NoJob == [kind |-> "idle", sub |-> CHOOSE s \in Subs : TRUE, ver |-> 0, at |-> 0]
Idle == [pc |-> "idle", job |-> NoJob, got |-> 0, card |-> FALSE, stamp |-> 0,
         since |-> 0, locks |-> {}, prem |-> FALSE]

Known(s) == row[s].ver > 0
Linked(u) == account[u] = "linked"
OwnedBy(u) == {s \in Subs : Owner[s] = u}
Last(s) == hist[s][Len(hist[s])]
Opened(s) == Len(hist[s]) > 0

\* PREMIUM_GRANTING_OR: paid or being charged, or a trial with a card.
Granting(r) ==
    /\ r.ver > 0
    /\ \/ r.status \in {"ACTIVE", "PAST_DUE"}
       \/ r.status = "TRIALING" /\ r.card

\* hasAnyPreviousSubscription: what uses up the user's trial.
HadSubscription(u) ==
    \E s \in OwnedBy(u) :
        /\ Known(s)
        /\ row[s].card \/ row[s].status \in {"ACTIVE", "PAST_DUE", "UNPAID"}

\* Variant: no ordering check.
isEventNeverOlder(at, r) == FALSE

\* isEventOlder, at the gateway's one-second precision.
isEventOlder(at, r) == at < r.synced

-----------------------------------------------------------------------------
Init ==
    /\ now = 0
    /\ hist = [s \in Subs |-> <<>>]
    /\ offer = [s \in Subs |-> NoOffer]
    /\ customer = [u \in Users |-> "none"]
    /\ custCard = [u \in Users |-> FALSE]
    /\ sent = {}
    /\ account = [u \in Users |-> "unlinked"]
    /\ erasing = [u \in Users |-> "no"]
    /\ row = [s \in Subs |-> NoRow]
    /\ isPremium = [u \in Users |-> FALSE]
    /\ processed = {}
    /\ proc = [p \in Procs |-> Idle]
    /\ doneEver = {}

(* Time passes, but no request outlives Latency (transactions time out     *)
(* after 10 s, gateway calls after the SDK's timeout).                     *)
Tick ==
    /\ now < MaxTime
    /\ \A p \in Procs : proc[p].pc # "idle" => now - proc[p].since < Latency
    /\ now' = now + 1
    /\ UNCHANGED <<gateway, database, proc>>

-----------------------------------------------------------------------------
(* The gateway.  It appends versions and creates events; whether, when, in *)
(* which order and how often an event is delivered is up to Receive.       *)

Emit(events) == sent' = sent \cup {e \in events : e.kind \in Kinds}

Snapshot(s, n) == [kind |-> "subscription", sub |-> s, ver |-> n, at |-> now]

Append1(s, status, card, end) ==
    hist' = [hist EXCEPT ![s] =
        Append(@, [status |-> status, card |-> card, end |-> end, at |-> now])]

(* Both checkout endpoints: 409 while a subscription grants premium, the   *)
(* Customer created and linked on first use, a trial only for a first      *)
(* subscription, and one session per user and minute (idempotencyKey).     *)
MayOpen(s, via) ==
    LET u == Owner[s] IN
    /\ now <= MaxChange
    /\ offer[s] = NoOffer /\ ~ Opened(s)
    /\ account[u] # "erased" /\ customer[u] # "deleted"
    /\ ~ \E t \in OwnedBy(u) : Granting(row[t])
    /\ \A t \in OwnedBy(u) : offer[t].via = via =>
           offer[t].at \div Minute # now \div Minute

ensureStripeCustomer(u) ==
    /\ customer' = [customer EXCEPT ![u] = "live"]
    /\ account' = [account EXCEPT ![u] = "linked"]

createCheckoutSession(s) ==
    LET u == Owner[s] IN
    /\ MayOpen(s, "checkout")
    /\ ensureStripeCustomer(u)
    /\ offer' = [offer EXCEPT ![s] =
           [via |-> "checkout", trial |-> ~ HadSubscription(u), at |-> now]]
    /\ UNCHANGED <<now, hist, custCard, sent, erasing, row, isPremium,
                   processed, proc, doneEver>>

\* The session is paid in the browser: the subscription is born with a card.
CompleteCheckout(s) ==
    /\ now <= MaxChange
    /\ offer[s].via = "checkout" /\ ~ Opened(s)
    /\ customer[Owner[s]] = "live"
    /\ Append1(s, IF offer[s].trial THEN "trialing" ELSE "active", TRUE,
               now + Period)
    /\ Emit({Snapshot(s, 1),
             [kind |-> "checkout", sub |-> s, ver |-> 1, at |-> now]})
    /\ UNCHANGED <<now, offer, customer, custCard, database, proc>>

\* PaymentSheet: the subscription exists before any card does.
createSubscriptionIntent(s) ==
    LET u == Owner[s]
        trial == ~ HadSubscription(u) IN
    /\ MayOpen(s, "sheet")
    /\ ensureStripeCustomer(u)
    /\ offer' = [offer EXCEPT ![s] =
           [via |-> "sheet", trial |-> trial, at |-> now]]
    /\ Append1(s, IF trial THEN "trialing" ELSE "incomplete", FALSE,
               now + Period)
    /\ Emit({Snapshot(s, 1)})
    /\ UNCHANGED <<now, custCard, erasing, row, isPremium, processed, proc,
                   doneEver>>

\* The card of the sheet (or of createSetupIntent) is confirmed.
ConfirmSetup(s) ==
    /\ now <= MaxChange
    /\ Opened(s) /\ customer[Owner[s]] = "live"
    /\ \A e \in sent : ~ (e.kind = "setup" /\ e.sub = s)
    /\ Emit({[kind |-> "setup", sub |-> s, ver |-> 0, at |-> now]})
    /\ UNCHANGED <<now, hist, offer, customer, custCard, database, proc>>

CardOnFile(s) ==
    \/ Last(s).card
    \/ \E e \in sent : e.kind = "setup" /\ Owner[e.sub] = Owner[s]

\* Where the gateway may take a subscription from its current version.
Successors(s) ==
    CASE Last(s).status = "incomplete" -> {"active", "incomplete_expired"}
      [] Last(s).status = "trialing" ->
            IF CardOnFile(s) THEN {"active", "past_due", "canceled"}
                             ELSE {"canceled"}
      [] Last(s).status = "active" -> {"active", "past_due", "canceled"}
      [] Last(s).status = "past_due" -> {"active", "unpaid", "canceled"}
      [] Last(s).status = "unpaid" -> {"active", "canceled"}
      [] OTHER -> {}

GatewayChange(s) ==
    /\ now <= MaxChange
    /\ Opened(s) /\ Len(hist[s]) < MaxVersions
    /\ customer[Owner[s]] = "live"
    /\ \E status \in Successors(s) :
        Append1(s, status, Last(s).card \/ Last(s).status = "incomplete",
                IF status = "active" THEN now + Period ELSE Last(s).end)
    /\ Emit({Snapshot(s, Len(hist[s]) + 1)})
    /\ UNCHANGED <<now, offer, customer, custCard, database, proc>>

\* invoice.payment_succeeded or payment_failed of the current version.
EmitInvoice(s) ==
    /\ now <= MaxChange
    /\ Opened(s)
    /\ \A e \in sent :
           ~ (e.kind = "invoice" /\ e.sub = s /\ e.ver = Len(hist[s]))
    /\ Emit({[kind |-> "invoice", sub |-> s, ver |-> Len(hist[s]), at |-> now]})
    /\ UNCHANGED <<now, hist, offer, customer, custCard, database, proc>>

-----------------------------------------------------------------------------
(* A webhook request: processStripeWebhook, applyExternalEffects and       *)
(* applyLocalMutations, with the transaction split at its statements.      *)

WasProcessed(e) == \E x \in processed : x.ev = e

InTx(p) == proc[p].pc \in {"write", "count", "commit"}

\* Variant: the row is stamped with the time of processing.
EventStampNow(e) == now

\* eventCreated, the lastSyncedAt a webhook writes.
EventStamp(e) == e.at

\* Signature checked, optimistic short-circuit on webhook_events.
Receive(w) ==
    /\ proc[w].pc = "idle"
    /\ \E e \in sent :
        /\ now - e.at <= Redelivery
        /\ ~ WasProcessed(e)
        /\ proc' = [proc EXCEPT ![w] = [Idle EXCEPT !.pc = "external",
                                        !.job = e, !.since = now]]
    /\ UNCHANGED <<now, gateway, database>>

\* applyExternalEffects: retrieve the subscription, or set the Customer's
\* default card; subscription events carry their own snapshot.
applyExternalEffects(w) ==
    LET e == proc[w].job
        g == IF e.kind \in {"checkout", "invoice"} THEN Len(hist[e.sub])
             ELSE e.ver IN
    /\ proc[w].pc = "external" /\ e.kind \in EventKinds
    /\ e.kind = "setup" => customer[Owner[e.sub]] = "live"
    /\ custCard' = IF e.kind = "setup"
                   THEN [custCard EXCEPT ![Owner[e.sub]] = TRUE]
                   ELSE custCard
    /\ proc' = [proc EXCEPT ![w].pc = "begin", ![w].got = g,
                            ![w].card = g > 0 /\ hist[e.sub][g].card,
                            ![w].stamp = EventStamp(e)]
    /\ UNCHANGED <<now, hist, offer, customer, sent, database>>

\* Variant: no unique constraint on stripe_event_id.
MayInsertAgain(w) ==
    \A v \in Workers \ {w} : InTx(v) => proc[v].job # proc[w].job

\* markEventProcessedTx: a concurrent transaction that already inserted the
\* event makes this INSERT wait; a committed one makes it fail with P2002.
MayInsert(w) ==
    /\ ~ WasProcessed(proc[w].job)
    /\ \A v \in Workers \ {w} : InTx(v) => proc[v].job # proc[w].job

\* The guards of each case of the switch, evaluated on committed rows.
Applies(e) ==
    LET r == row[e.sub]
        linked == Linked(Owner[e.sub]) IN
    /\ e.kind \in {"setup", "checkout"} => linked
    /\ e.kind = "subscription" => Known(e.sub) \/ linked
    /\ e.kind = "invoice" => Known(e.sub)
    /\ e.kind # "setup" /\ Known(e.sub) => ~ isEventOlder(e.at, r)

Duplicate(w) ==
    /\ proc[w].pc = "begin" /\ w \in Workers /\ WasProcessed(proc[w].job)
    /\ proc' = [proc EXCEPT ![w] = Idle]
    /\ UNCHANGED <<now, gateway, database>>

Begin(w) ==
    /\ proc[w].pc = "begin" /\ w \in Workers
    /\ MayInsert(w) /\ Applies(proc[w].job)
    /\ proc' = [proc EXCEPT ![w].pc = "write"]
    /\ UNCHANGED <<now, gateway, database>>

\* Every early return of the switch commits the processed mark alone.
Discard(w) ==
    /\ proc[w].pc = "begin" /\ w \in Workers
    /\ MayInsert(w) /\ ~ Applies(proc[w].job)
    /\ processed' = processed \cup {[ev |-> proc[w].job, at |-> now]}
    /\ doneEver' = doneEver \cup {proc[w].job}
    /\ proc' = [proc EXCEPT ![w] = Idle]
    /\ UNCHANGED <<now, gateway, account, erasing, row, isPremium>>

\* Rows the UPDATE or upsert of p touches, and so locks until commit.
Targets(p) ==
    LET j == proc[p].job IN
    IF j.kind = "setup"
    THEN {s \in OwnedBy(Owner[j.sub]) :
              Known(s) /\ row[s].status = "TRIALING" /\ ~ row[s].card}
    ELSE {j.sub}

\* Variant: the payload's null overwrites the stored card.
KeptCardLost(p, s) == proc[p].card

\* The card an upsert leaves: `?? undefined` keeps the stored one.
KeptCard(p, s) == proc[p].card \/ row[s].card

\* setTrialingPaymentMethodTx, markSubscriptionCanceledTx (got = 0: the
\* gateway answered resource_missing) and upsertSubscriptionTx.
Written(p, s) ==
    LET q == proc[p]
        v == hist[s][q.got] IN
    CASE q.job.kind = "setup" -> [row[s] EXCEPT !.card = TRUE]
      [] q.job.kind # "setup" /\ q.got = 0 ->
            [row[s] EXCEPT !.status = "CANCELED", !.synced = q.stamp,
                           !.ver = Len(hist[s])]
      [] OTHER -> [ver |-> q.got, status |-> mapStatus[v.status],
                   card |-> KeptCard(p, s), end |-> v.end,
                   synced |-> q.stamp]

\* What p's own transaction sees: committed rows under its own writes.
View(p) == [s \in Subs |-> IF s \in proc[p].locks THEN Written(p, s) ELSE row[s]]

Write(p) ==
    /\ proc[p].pc = "write"
    /\ \A q \in Procs \ {p} : proc[q].locks \cap Targets(p) = {}
    \* UPDATE of a row that is gone: the transaction fails (see Fail).
    /\ proc[p].got = 0 => \A s \in Targets(p) : Known(s)
    /\ proc' = [proc EXCEPT ![p].pc = "count", ![p].locks = Targets(p)]
    /\ UNCHANGED <<now, gateway, database>>

\* Variant: the count does not see the transaction's own write.
RecountCommitted(p) ==
    /\ proc[p].pc = "count"
    /\ proc' = [proc EXCEPT ![p].pc = "commit", ![p].prem =
           \E s \in OwnedBy(Owner[proc[p].job.sub]) : Granting(row[s])]
    /\ UNCHANGED <<now, gateway, database>>

\* recalculateUserPremiumTx, the COUNT.
Recount(p) ==
    /\ proc[p].pc = "count"
    /\ proc' = [proc EXCEPT ![p].pc = "commit", ![p].prem =
           \E s \in OwnedBy(Owner[proc[p].job.sub]) : Granting(View(p)[s])]
    /\ UNCHANGED <<now, gateway, database>>

\* recalculateUserPremiumTx, the UPDATE, and COMMIT.
Commit(p) ==
    /\ proc[p].pc = "commit"
    /\ row' = View(p)
    /\ isPremium' = [isPremium EXCEPT ![Owner[proc[p].job.sub]] = proc[p].prem]
    /\ processed' = IF p \in Workers
                    THEN processed \cup {[ev |-> proc[p].job, at |-> now]}
                    ELSE processed
    /\ doneEver' = IF p \in Workers THEN doneEver \cup {proc[p].job}
                   ELSE doneEver
    /\ proc' = [proc EXCEPT ![p] = Idle]
    /\ UNCHANGED <<now, gateway, account, erasing>>

\* Gateway error, transaction timeout or crash of the instance: nothing of
\* the request survives; the gateway or the next tick tries again.
Fail(p) ==
    /\ proc[p].pc # "idle"
    /\ proc' = [proc EXCEPT ![p] = Idle]
    /\ UNCHANGED <<now, gateway, database>>

-----------------------------------------------------------------------------
(* The billing-sync reconciler, one subscription at a time.                *)

SyncJob(kind, s) == [kind |-> kind, sub |-> s, ver |-> 0, at |-> 0]

\* Variant: an orphan trial is not considered alive.
PaidStatuses == {"ACTIVE", "PAST_DUE"}

ACTIVE_STATUSES == {"TRIALING", "ACTIVE", "PAST_DUE"}

\* findStaleActiveSubscriptions
Stale(s) ==
    /\ Known(s)
    /\ row[s].status \in ACTIVE_STATUSES
    /\ row[s].end < now - Grace
    /\ row[s].synced < now - Grace

PickStale(s) ==
    /\ SyncEnabled /\ proc[Sync].pc = "idle"
    /\ Stale(s)
    /\ proc' = [proc EXCEPT ![Sync] =
           [Idle EXCEPT !.pc = "external", !.job = SyncJob("sync", s),
                        !.since = now]]
    /\ UNCHANGED <<now, gateway, database>>

\* subscriptions.retrieve; a deleted Customer's may be resource_missing.
RetrieveStale ==
    LET s == proc[Sync].job.sub IN
    /\ proc[Sync].pc = "external" /\ proc[Sync].job.kind = "sync"
    /\ \E g \in {Len(hist[s])} \cup
                (IF customer[Owner[s]] = "deleted" THEN {0} ELSE {}) :
        proc' = [proc EXCEPT ![Sync].pc = "stamp", ![Sync].got = g,
                             ![Sync].card = g > 0 /\ hist[s][g].card]
    /\ UNCHANGED <<now, gateway, database>>

\* `const syncedAt = new Date()` once the answer is in; no ordering check.
StampStale ==
    /\ proc[Sync].pc = "stamp"
    /\ proc' = [proc EXCEPT ![Sync].pc = "write", ![Sync].stamp = now]
    /\ UNCHANGED <<now, gateway, database>>

\* reconcileOrphanStripeSubscriptions starts: its `now` is the rows' stamp.
\* Scans that find nothing to adopt are left out.
StartScan(s) ==
    /\ SyncEnabled /\ proc[Sync].pc = "idle"
    /\ ~ Known(s) /\ Opened(s)
    /\ hist[s][1].at >= now - Lookback
    /\ proc' = [proc EXCEPT ![Sync] =
           [Idle EXCEPT !.pc = "external", !.job = SyncJob("adopt", s),
                        !.since = now, !.stamp = now]]
    /\ UNCHANGED <<now, gateway, database>>

\* Variant: trials are not scanned.
ActiveScanStatuses == {"active"}

ORPHAN_SCAN_STATUSES == {"trialing", "active"}

\* subscriptions.list by status, Customer expanded, then the known ids.
ListOrphan ==
    LET s == proc[Sync].job.sub IN
    /\ proc[Sync].pc = "external" /\ proc[Sync].job.kind = "adopt"
    /\ proc' = [proc EXCEPT ![Sync] =
           IF Last(s).status \in ORPHAN_SCAN_STATUSES /\ ~ Known(s)
           THEN [@ EXCEPT !.pc = "begin", !.got = Len(hist[s]),
                          !.card = Last(s).card \/ custCard[Owner[s]]]
           ELSE Idle]
    /\ UNCHANGED <<now, gateway, database>>

\* adoptOrphanSubscription: skipped when unlinked or when a row appeared.
Adopt ==
    LET s == proc[Sync].job.sub IN
    /\ proc[Sync].pc = "begin"
    /\ proc' = [proc EXCEPT ![Sync] =
           IF Linked(Owner[s]) /\ ~ Known(s) THEN [@ EXCEPT !.pc = "write"]
                                             ELSE Idle]
    /\ UNCHANGED <<now, gateway, database>>

-----------------------------------------------------------------------------
\* deleteWebhookEventsOlderThan
Purge ==
    /\ \E x \in processed : x.at < now - Retention
    /\ processed' = {x \in processed : x.at >= now - Retention}
    /\ UNCHANGED <<now, gateway, account, erasing, row, isPremium, proc,
                   doneEver>>

(* anonymizeAccount, in its two halves: the gateway first, the database    *)
(* afterwards, with requests of the same user in between.                  *)

\* Deleting the Customer cancels its subscriptions; no Customer, no deletion.
terminateBillingForUser(u) ==
    LET dies == Linked(u) /\ customer[u] = "live"
        live == {s \in OwnedBy(u) : dies /\ Opened(s) /\ Successors(s) # {}} IN
    /\ now <= MaxChange
    /\ u \in Erasable /\ account[u] # "erased" /\ erasing[u] = "no"
    /\ erasing' = [erasing EXCEPT ![u] =
                       IF Linked(u) THEN "terminated" ELSE "untouched"]
    /\ customer' = IF dies THEN [customer EXCEPT ![u] = "deleted"] ELSE customer
    /\ hist' = [s \in Subs |->
           IF s \in live
           THEN Append(hist[s], [Last(s) EXCEPT !.status = "canceled",
                                                !.at = now])
           ELSE hist[s]]
    /\ Emit({Snapshot(s, Len(hist[s]) + 1) : s \in live})
    /\ UNCHANGED <<now, offer, custCard, account, row, isPremium, processed,
                   doneEver, proc>>

\* anonymizeUserTx: waits for locked rows, does not see uncommitted inserts.
anonymizeUser(u) ==
    /\ erasing[u] # "no"
    /\ \A p \in Procs : \A s \in proc[p].locks \cap OwnedBy(u) : ~ Known(s)
    /\ erasing' = [erasing EXCEPT ![u] = "no"]
    /\ account' = [account EXCEPT ![u] = "erased"]
    /\ isPremium' = [isPremium EXCEPT ![u] = FALSE]
    /\ row' = [s \in Subs |-> IF Owner[s] = u THEN NoRow ELSE row[s]]
    /\ UNCHANGED <<now, gateway, processed, proc, doneEver>>

\* Or a login had reactivated the account meanwhile: unlinkStripeCustomer.
unlinkStripeCustomer(u) ==
    /\ erasing[u] # "no"
    /\ erasing' = [erasing EXCEPT ![u] = "no"]
    /\ account' = [account EXCEPT ![u] =
                       IF erasing[u] = "terminated" THEN "unlinked" ELSE @]
    /\ UNCHANGED <<now, gateway, row, isPremium, processed, proc, doneEver>>

-----------------------------------------------------------------------------
Gateway(s) ==
    \/ createCheckoutSession(s)
    \/ CompleteCheckout(s)
    \/ createSubscriptionIntent(s)
    \/ ConfirmSetup(s)
    \/ GatewayChange(s)
    \/ EmitInvoice(s)

Webhook(w) ==
    \/ Receive(w)
    \/ applyExternalEffects(w)
    \/ Duplicate(w)
    \/ Begin(w)
    \/ Discard(w)

Transaction(p) ==
    \/ Write(p)
    \/ Recount(p)
    \/ Commit(p)

Reconciler ==
    \/ \E s \in Subs : PickStale(s) \/ StartScan(s)
    \/ RetrieveStale
    \/ StampStale
    \/ ListOrphan
    \/ Adopt

Erasure(u) ==
    \/ terminateBillingForUser(u)
    \/ anonymizeUser(u)
    \/ unlinkStripeCustomer(u)

Next ==
    \/ Tick
    \/ \E s \in Subs : Gateway(s)
    \/ \E w \in Workers : Webhook(w)
    \/ \E p \in Procs : Transaction(p) \/ Fail(p)
    \/ Reconciler
    \/ Purge
    \/ \E u \in Users : Erasure(u)

Spec == Init /\ [][Next]_vars

(* The clock runs, every webhook request ends (answered or timed out), and *)
(* the reconciler, which comes back every BILLING_SYNC_INTERVAL_MS, does   *)
(* not fail forever.  Nothing is assumed of delivery: all webhooks may be  *)
(* lost.                                                                   *)
Fairness ==
    /\ WF_vars(Tick)
    /\ \A w \in Workers : WF_vars(Fail(w))
    /\ \A s \in Subs : SF_vars(PickStale(s)) /\ SF_vars(StartScan(s))
    /\ SF_vars(RetrieveStale) /\ SF_vars(StampStale)
    /\ SF_vars(ListOrphan) /\ SF_vars(Adopt)
    /\ SF_vars(Write(Sync)) /\ SF_vars(Recount(Sync)) /\ SF_vars(Commit(Sync))

FairSpec == Spec /\ Fairness

-----------------------------------------------------------------------------
(* Every variable keeps its type, and an in-flight job its bookkeeping.    *)
TypeOK ==
    /\ now \in 0..MaxTime
    /\ hist \in [Subs -> Seq(Version)]
    /\ offer \in [Subs -> Offer]
    /\ customer \in [Users -> {"none", "live", "deleted"}]
    /\ custCard \in [Users -> BOOLEAN]
    /\ sent \subseteq Event
    /\ account \in [Users -> {"unlinked", "linked", "erased"}]
    /\ erasing \in [Users -> {"no", "terminated", "untouched"}]
    /\ row \in [Subs -> Row]
    /\ isPremium \in [Users -> BOOLEAN]
    /\ processed \subseteq [ev: Event, at: Nat]
    /\ proc \in [Procs -> Proc]
    /\ doneEver \subseteq Event

(* A row's lastSyncedAt never runs ahead of its content: every gateway     *)
(* version older than the stamp is already in the row, so the events the   *)
(* ordering check of applyLocalMutations discards carry nothing new.       *)
DiscardsAreStale ==
    \A s \in Subs : Known(s) =>
        \A i \in 1..Len(hist[s]) :
            hist[s][i].at < row[s].synced => i <= row[s].ver

(* INSERT-first idempotency survives the retention purge: no transaction   *)
(* is ever under way for an event that already took effect.                *)
AppliedOnce ==
    \A w \in Workers : InTx(w) => proc[w].job \notin doneEver

(* User.isPremium is what recalculateUserPremiumTx promises: true exactly  *)
(* when one of the user's rows grants premium.                             *)
PremiumMatchesRows ==
    \A u \in Users :
        isPremium[u] <=> \E s \in OwnedBy(u) : Granting(row[s])

(* When every subscription event of a slot has been applied or discarded,  *)
(* in any order, the row holds a version of the gateway's last second.     *)
SettledRowsCurrent ==
    \A s \in Subs :
        /\ Opened(s) /\ Linked(Owner[s])
        /\ \A p \in Procs : proc[p].pc = "idle"
        /\ \A e \in sent :
               e.kind = "subscription" /\ e.sub = s => e \in doneEver
        => Known(s) /\ hist[s][row[s].ver].at = Last(s).at

(* upsertSubscriptionTx never moves a row back to an earlier stamp: what   *)
(* the ordering check is for.                                              *)
StampsNeverGoBack ==
    [][\A s \in Subs :
          Known(s) /\ row'[s].ver > 0 => row'[s].synced >= row[s].synced]_vars

(* The card of a trial, once recorded, survives every later payload that   *)
(* does not mention it (the sticky column of upsertSubscriptionTx).        *)
CardNeverLost ==
    [][\A s \in Subs :
          row[s].card /\ row'[s].ver > 0 => row'[s].card]_vars

(* A trial whose card was confirmed grants premium once both of its events *)
(* have been processed (createSubscriptionIntent's promise).               *)
ConfirmedTrialIsPremium ==
    \A e, f \in doneEver :
        /\ e.kind = "setup" /\ f.kind = "subscription"
        /\ e.sub = f.sub /\ Last(e.sub).status = "trialing"
        /\ Linked(Owner[e.sub])
        /\ \A p \in Procs : proc[p].pc = "idle"
        => isPremium[Owner[e.sub]]

(* reconcileStaleSubscriptions: a subscription the gateway has canceled    *)
(* stops granting premium for good, even if every webhook was lost.        *)
CanceledLosesPremium ==
    \A s \in Subs :
        <>[](Opened(s) /\ Last(s).status = "canceled" => ~ Granting(row[s]))

(* reconcileOrphanStripeSubscriptions: a live subscription of a linked     *)
(* account ends up known, even if its webhooks were lost.                  *)
OrphanBecomesKnown ==
    \A s \in Subs :
        <>[](/\ Opened(s) /\ Linked(Owner[s])
             /\ Last(s).status \in {"trialing", "active"}
             => Known(s))

=============================================================================
