--------------------------- MODULE BillingProofs ---------------------------
(***************************************************************************)
(* Theorems about Billing for every set of users, subscriptions, workers   *)
(* and every value of the time bounds.                                     *)
(***************************************************************************)
EXTENDS Billing, SequenceTheorems, TLAPS

(* Facts every step keeps, beside the types: an event or a job never names *)
(* a version its subscription does not have, and an upsert locks one row.  *)
EventsInHistory == \A e \in sent : e.ver <= Len(hist[e.sub])

JobsInHistory ==
    \A p \in Procs :
        /\ proc[p].job.ver <= Len(hist[proc[p].job.sub])
        /\ proc[p].got <= Len(hist[proc[p].job.sub])
        /\ proc[p].job.kind # "setup" => proc[p].locks \subseteq {proc[p].job.sub}

WorkersServeEvents ==
    \A w \in Workers : proc[w].pc # "idle" => proc[w].job \in sent

Typed == TypeOK /\ EventsInHistory /\ JobsInHistory /\ WorkersServeEvents

(* What a step of the gateway does to what the server can see of it.       *)
NewVersion(s) ==
    \/ hist'[s] = hist[s]
    \/ \E v \in Version : v.at = now /\ hist'[s] = Append(hist[s], v)

NewEvent(e) ==
    /\ e \in Event /\ e.at = now
    /\ e.ver <= Len(hist'[e.sub])
    /\ e.kind = "subscription" =>
           e.ver > 0 /\ hist'[e.sub][e.ver].at = e.at
    /\ e.kind \in {"checkout", "invoice"} => Len(hist'[e.sub]) > 0

GatewayEffect ==
    /\ UNCHANGED <<now, row, isPremium, processed, proc, doneEver>>
    /\ hist' \in [Subs -> Seq(Version)]
    /\ \A s \in Subs : NewVersion(s)
    /\ sent \subseteq sent'
    /\ \A e \in sent' \ sent : NewEvent(e)
    /\ offer' \in [Subs -> Offer]
    /\ customer' \in [Users -> {"none", "live", "deleted"}]
    /\ custCard' \in [Users -> BOOLEAN]
    /\ account' \in [Users -> {"unlinked", "linked", "erased"}]
    /\ erasing' \in [Users -> {"no", "terminated", "untouched"}]

GatewayStep ==
    \/ \E s \in Subs : Gateway(s)
    \/ \E u \in Users : terminateBillingForUser(u)

-----------------------------------------------------------------------------
LEMMA NoJobType == NoJob \in Job /\ Idle \in Proc
BY OwnerAssumption DEF NoJob, Job, Idle, Proc

LEMMA EventIsJob == Event \subseteq Job
BY DEF Event, Job

LEMMA LastIsVersion ==
    ASSUME TypeOK, NEW s \in Subs, Opened(s)
    PROVE  /\ Last(s) \in Version
           /\ Last(s).status \in GatewayStatus /\ Last(s).card \in BOOLEAN
           /\ Last(s).end \in Nat
<1>1. hist[s] \in Seq(Version) /\ Len(hist[s]) \in 1..Len(hist[s])
  BY DEF TypeOK, Opened
<1>2. Last(s) \in Version
  BY <1>1, ElementOfSeq DEF Last
<1> QED
  BY <1>2 DEF Version

LEMMA SuccessorsType ==
    ASSUME NEW s \in Subs PROVE Successors(s) \subseteq GatewayStatus
BY DEF Successors, GatewayStatus

(* Appending a version made now keeps the types and extends the history.   *)
LEMMA AppendVersion ==
    ASSUME TypeOK, NEW s \in Subs, NEW status \in GatewayStatus,
           NEW card \in BOOLEAN, NEW end \in Nat, Append1(s, status, card, end)
    PROVE  /\ hist' \in [Subs -> Seq(Version)]
           /\ \A t \in Subs : NewVersion(t)
           /\ Len(hist'[s]) = Len(hist[s]) + 1
           /\ hist'[s][Len(hist[s]) + 1].at = now
<1> DEFINE v == [status |-> status, card |-> card, end |-> end, at |-> now]
<1>1. v \in Version
  BY DEF Version, TypeOK
<1>2. hist[s] \in Seq(Version)
  BY DEF TypeOK
<1>3. hist' = [hist EXCEPT ![s] = Append(@, v)]
  BY DEF Append1
<1>4. Append(hist[s], v) \in Seq(Version)
  BY <1>1, <1>2, AppendProperties
<1>5. hist'[s] = Append(hist[s], v)
  BY <1>3 DEF TypeOK
<1>6. \A t \in Subs \ {s} : hist'[t] = hist[t]
  BY <1>3 DEF TypeOK
<1>7. hist' \in [Subs -> Seq(Version)]
  BY <1>3, <1>4 DEF TypeOK
<1>8. \A t \in Subs : NewVersion(t)
  BY <1>1, <1>5, <1>6 DEF NewVersion
<1>9. Len(hist'[s]) = Len(hist[s]) + 1 /\ hist'[s][Len(hist[s]) + 1] = v
  BY <1>1, <1>2, <1>5, AppendProperties
<1> QED
  BY <1>7, <1>8, <1>9

(* Every step of the gateway, and the deletion of a Customer, only appends *)
(* versions made now and creates events made now about them.               *)
LEMMA GatewayOnlyGrows ==
    ASSUME Typed, GatewayStep
    PROVE  GatewayEffect
<1> USE DEF Typed, GatewayEffect, vars, gateway, database
<1>0. TypeOK /\ now \in Nat
  BY TimesAssumption DEF TypeOK
<1>1. ASSUME NEW s \in Subs, createCheckoutSession(s) PROVE GatewayEffect
  BY <1>0, <1>1, OwnerAssumption
  DEF createCheckoutSession, ensureStripeCustomer, NewVersion, TypeOK, Offer
<1>2. ASSUME NEW s \in Subs, CompleteCheckout(s) PROVE GatewayEffect
  <2> DEFINE status == IF offer[s].trial THEN "trialing" ELSE "active"
             card == TRUE
             end == now + Period
  <2>1. status \in GatewayStatus /\ end \in Nat
    BY <1>0, TimesAssumption DEF GatewayStatus
  <2>2. Len(hist[s]) = 0
    BY <1>0, <1>2 DEF CompleteCheckout, Opened, TypeOK
  <2>a. Append1(s, status, card, end) /\ card \in BOOLEAN
    BY <1>2 DEF CompleteCheckout
  <2>3. /\ hist' \in [Subs -> Seq(Version)] /\ \A t \in Subs : NewVersion(t)
        /\ Len(hist'[s]) = 1 /\ hist'[s][1].at = now
    <3> HIDE DEF status, card, end
    <3>1. Append1(s, status, card, end) => 
             /\ hist' \in [Subs -> Seq(Version)] /\ \A t \in Subs : NewVersion(t)
             /\ Len(hist'[s]) = Len(hist[s]) + 1
             /\ hist'[s][Len(hist[s]) + 1].at = now
      BY <1>0, <2>1, <2>a, AppendVersion
    <3> QED BY <2>2, <2>a, <3>1
  <2>4. \A e \in sent' \ sent :
           e \in {Snapshot(s, 1), [kind |-> "checkout", sub |-> s, ver |-> 1,
                                   at |-> now]}
    BY <1>2 DEF CompleteCheckout, Emit
  <2>5. \A e \in sent' \ sent : NewEvent(e)
    BY <1>0, <2>3, <2>4 DEF NewEvent, Snapshot, Event, EventKinds
  <2> QED
    BY <1>0, <1>2, <2>3, <2>5 DEF CompleteCheckout, Emit, TypeOK
<1>3. ASSUME NEW s \in Subs, createSubscriptionIntent(s) PROVE GatewayEffect
  <2> DEFINE trial == ~ HadSubscription(Owner[s])
             status == IF trial THEN "trialing" ELSE "incomplete"
             card == FALSE
             end == now + Period
  <2>1. status \in GatewayStatus /\ end \in Nat /\ trial \in BOOLEAN
    BY <1>0, TimesAssumption DEF GatewayStatus, HadSubscription
  <2>a. Append1(s, status, card, end) /\ card \in BOOLEAN
    BY <1>3 DEF createSubscriptionIntent
  <2>b. Len(hist[s]) = 0
    BY <1>0, <1>3 DEF createSubscriptionIntent, MayOpen, Opened, TypeOK
  <2>2. /\ hist' \in [Subs -> Seq(Version)] /\ \A t \in Subs : NewVersion(t)
        /\ Len(hist'[s]) = 1 /\ hist'[s][1].at = now
    <3> HIDE DEF status, card, end
    <3>1. Append1(s, status, card, end) => 
             /\ hist' \in [Subs -> Seq(Version)] /\ \A t \in Subs : NewVersion(t)
             /\ Len(hist'[s]) = Len(hist[s]) + 1
             /\ hist'[s][Len(hist[s]) + 1].at = now
      BY <1>0, <2>1, <2>a, AppendVersion
    <3> QED BY <2>b, <2>a, <3>1
  <2>3. offer' = [offer EXCEPT ![s] = [via |-> "sheet", trial |-> trial,
                                       at |-> now]]
    BY <1>3 DEF createSubscriptionIntent
  <2>4. offer' \in [Subs -> Offer]
    BY <1>0, <2>1, <2>3 DEF TypeOK, Offer
  <2>5. \A e \in sent' \ sent : e = Snapshot(s, 1)
    BY <1>3 DEF createSubscriptionIntent, Emit
  <2>6. \A e \in sent' \ sent : NewEvent(e)
    BY <1>0, <2>2, <2>5 DEF NewEvent, Snapshot, Event, EventKinds
  <2>7. sent \subseteq sent'
    BY <1>3 DEF createSubscriptionIntent, Emit
  <2> HIDE DEF trial, status
  <2> QED
    BY <1>0, <1>3, <2>2, <2>4, <2>6, <2>7, OwnerAssumption
    DEF createSubscriptionIntent, ensureStripeCustomer, TypeOK
<1>4. ASSUME NEW s \in Subs, ConfirmSetup(s) PROVE GatewayEffect
  BY <1>0, <1>4
  DEF ConfirmSetup, Emit, NewVersion, NewEvent, TypeOK, Event, EventKinds
<1>5. ASSUME NEW s \in Subs, GatewayChange(s) PROVE GatewayEffect
  <2>1. PICK status \in Successors(s) :
           Append1(s, status, Last(s).card \/ Last(s).status = "incomplete",
                   IF status = "active" THEN now + Period ELSE Last(s).end)
    BY <1>5 DEF GatewayChange
  <2> DEFINE card == Last(s).card \/ Last(s).status = "incomplete"
             end == IF status = "active" THEN now + Period ELSE Last(s).end
             n == Len(hist[s]) + 1
  <2>2. status \in GatewayStatus /\ card \in BOOLEAN /\ end \in Nat
    BY <1>0, <1>5, LastIsVersion, SuccessorsType, TimesAssumption
    DEF GatewayChange
  <2>3. Append1(s, status, card, end)
    BY <2>1
  <2>4. /\ hist' \in [Subs -> Seq(Version)] /\ \A t \in Subs : NewVersion(t)
        /\ Len(hist'[s]) = n /\ hist'[s][n].at = now
    <3> HIDE DEF card, end
    <3> QED BY <1>0, <2>2, <2>3, AppendVersion
  <2>5. \A e \in sent' \ sent : e = Snapshot(s, n)
    BY <1>5 DEF GatewayChange, Emit
  <2>6. n \in Nat \ {0}
    BY <1>0 DEF TypeOK
  <2>7. \A e \in sent' \ sent : NewEvent(e)
    BY <1>0, <2>4, <2>5, <2>6 DEF NewEvent, Snapshot, Event, EventKinds
  <2> HIDE DEF card, end, n
  <2> QED
    BY <1>0, <1>5, <2>4, <2>7 DEF GatewayChange, Emit, TypeOK
<1>6. ASSUME NEW s \in Subs, EmitInvoice(s) PROVE GatewayEffect
  BY <1>0, <1>6
  DEF EmitInvoice, Emit, NewVersion, NewEvent, TypeOK, Event, EventKinds, Opened
<1>7. ASSUME NEW u \in Users, terminateBillingForUser(u) PROVE GatewayEffect
  <2> DEFINE dies == Linked(u) /\ customer[u] = "live"
             live == {s \in OwnedBy(u) : dies /\ Opened(s) /\ Successors(s) # {}}
             v(s) == [Last(s) EXCEPT !.status = "canceled", !.at = now]
  <2>1. hist' = [s \in Subs |-> IF s \in live THEN Append(hist[s], v(s))
                                             ELSE hist[s]]
    BY <1>7 DEF terminateBillingForUser
  <2>2. \A s \in live : s \in Subs /\ v(s) \in Version /\ v(s).at = now
    BY <1>0, LastIsVersion DEF OwnedBy, Version, GatewayStatus
  <2>3. \A s \in live : /\ hist'[s] \in Seq(Version)
                        /\ Len(hist'[s]) = Len(hist[s]) + 1
                        /\ hist'[s][Len(hist[s]) + 1].at = now
    <3> TAKE s \in live
    <3>1. hist[s] \in Seq(Version) /\ hist'[s] = Append(hist[s], v(s))
      BY <1>0, <2>1, <2>2 DEF TypeOK
    <3> HIDE DEF v, live
    <3> QED BY <2>2, <3>1, AppendProperties
  <2>4. hist' \in [Subs -> Seq(Version)] /\ \A s \in Subs : NewVersion(s)
    <3> HIDE DEF v, live
    <3> QED BY <1>0, <2>1, <2>2, <2>3 DEF TypeOK, NewVersion
  <2>5. \A e \in sent' \ sent : \E s \in live : e = Snapshot(s, Len(hist[s]) + 1)
    BY <1>7 DEF terminateBillingForUser, Emit
  <2>6. \A e \in sent' \ sent : NewEvent(e)
    <3> SUFFICES ASSUME NEW e \in sent' \ sent PROVE NewEvent(e)
      OBVIOUS
    <3>1. PICK s \in live : e = Snapshot(s, Len(hist[s]) + 1)
      BY <2>5
    <3>2. s \in Subs /\ Len(hist[s]) + 1 \in Nat \ {0}
      <4>1. s \in Subs
        BY <2>2
      <4>2. hist[s] \in Seq(Version)
        BY <1>0, <4>1 DEF TypeOK
      <4> QED BY <4>1, <4>2
    <3>3. Len(hist'[s]) = Len(hist[s]) + 1 /\ hist'[s][Len(hist[s]) + 1].at = now
      BY <2>3
    <3> HIDE DEF live
    <3> QED BY <1>0, <3>1, <3>2, <3>3 DEF NewEvent, Snapshot, Event, EventKinds
  <2> HIDE DEF live, v
  <2> QED
    BY <1>0, <1>7, <2>4, <2>6 DEF terminateBillingForUser, Emit, TypeOK
<1> QED
  BY <1>1, <1>2, <1>3, <1>4, <1>5, <1>6, <1>7 DEF GatewayStep, Gateway

(* Histories are only extended: what was there stays where it was.         *)
LEMMA HistoryExtends ==
    ASSUME Typed, GatewayEffect, NEW s \in Subs
    PROVE  /\ Len(hist[s]) \in Nat /\ Len(hist'[s]) \in Nat
           /\ Len(hist[s]) <= Len(hist'[s])
           /\ \A i \in 1..Len(hist[s]) : hist'[s][i] = hist[s][i]
           /\ \A i \in 1..Len(hist'[s]) : i > Len(hist[s]) => hist'[s][i].at = now
<1>1. hist[s] \in Seq(Version) /\ hist'[s] \in Seq(Version)
  BY DEF Typed, TypeOK, GatewayEffect
<1>2. NewVersion(s)
  BY DEF GatewayEffect
<1>3. CASE hist'[s] = hist[s]
  BY <1>1, <1>3
<1>4. CASE \E v \in Version : v.at = now /\ hist'[s] = Append(hist[s], v)
  <2>1. PICK v \in Version : v.at = now /\ hist'[s] = Append(hist[s], v)
    BY <1>4
  <2> QED BY <1>1, <2>1, AppendProperties
<1> QED BY <1>2, <1>3, <1>4 DEF NewVersion

LEMMA GatewayTyped == ASSUME Typed, GatewayStep PROVE Typed'
<1>1. GatewayEffect
  BY GatewayOnlyGrows
<1>2. sent' \subseteq Event
  BY <1>1 DEF GatewayEffect, NewEvent, Typed, TypeOK
<1>3. TypeOK'
  BY <1>1, <1>2 DEF GatewayEffect, Typed, TypeOK
<1>4. EventsInHistory'
  <2>1. \A e \in sent : e.sub \in Subs /\ e.ver \in Nat
    BY DEF Typed, TypeOK, Event
  <2> QED
    BY <1>1, <2>1, HistoryExtends
    DEF EventsInHistory, Typed, GatewayEffect, NewEvent
<1>5. JobsInHistory'
  <2>1. \A p \in Procs : /\ proc[p].job.sub \in Subs /\ proc[p].job.ver \in Nat
                         /\ proc[p].got \in Nat
    BY DEF Typed, TypeOK, Proc, Job
  <2> QED
    BY <1>1, <2>1, HistoryExtends DEF JobsInHistory, Typed, GatewayEffect
<1>6. WorkersServeEvents'
  BY <1>1 DEF WorkersServeEvents, Typed, GatewayEffect
<1> QED BY <1>3, <1>4, <1>5, <1>6 DEF Typed

(* What p's transaction sees of the table has the type of the table.       *)
LEMMA ViewType == ASSUME Typed, NEW p \in Procs PROVE View(p) \in [Subs -> Row]
<1> SUFFICES ASSUME NEW s \in Subs, s \in proc[p].locks
             PROVE  Written(p, s) \in Row
  BY DEF View, Typed, TypeOK
<1>1. row[s] \in Row /\ hist[s] \in Seq(Version) /\ proc[p] \in Proc
  BY DEF Typed, TypeOK
<1>2. CASE proc[p].job.kind = "setup"
  BY <1>1, <1>2 DEF Written, Row
<1>3. CASE proc[p].job.kind # "setup" /\ proc[p].got = 0
  <2>1. Written(p, s) = [row[s] EXCEPT !.status = "CANCELED",
                                       !.synced = proc[p].stamp,
                                       !.ver = Len(hist[s])]
    BY <1>3 DEF Written
  <2>2. Len(hist[s]) \in Nat /\ proc[p].stamp \in Nat
    BY <1>1 DEF Proc
  <2> QED BY <1>1, <2>1, <2>2 DEF Row, LocalStatus
<1>4. CASE proc[p].job.kind # "setup" /\ proc[p].got # 0
  <2> DEFINE v == hist[s][proc[p].got]
  <2>1. s = proc[p].job.sub /\ proc[p].got <= Len(hist[s])
    BY <1>4 DEF Typed, JobsInHistory
  <2>2. proc[p].got \in 1..Len(hist[s])
    BY <1>1, <1>4, <2>1 DEF Proc
  <2>3. v \in Version
    BY <1>1, <2>2, ElementOfSeq
  <2>4. mapStatus[v.status] \in LocalStatus /\ v.end \in Nat
    BY <2>3 DEF Version, mapStatus, GatewayStatus, LocalStatus
  <2>5. KeptCard(p, s) \in BOOLEAN
    BY DEF KeptCard
  <2>6. Written(p, s) = [ver |-> proc[p].got, status |-> mapStatus[v.status],
                         card |-> KeptCard(p, s), end |-> v.end,
                         synced |-> proc[p].stamp]
    BY <1>4 DEF Written
  <2> HIDE DEF v
  <2> QED BY <1>1, <2>4, <2>5, <2>6 DEF Row, Proc
<1> QED BY <1>2, <1>3, <1>4

(* A step of the server leaves the gateway alone, except that the external *)
(* phase of setup_intent.succeeded sets the Customer's default card.       *)
ServerEffect ==
    /\ UNCHANGED <<now, hist, offer, customer, sent>>
    /\ custCard' \in [Users -> BOOLEAN]
    /\ account' \in [Users -> {"unlinked", "linked", "erased"}]
    /\ erasing' \in [Users -> {"no", "terminated", "untouched"}]
    /\ row' \in [Subs -> Row]
    /\ isPremium' \in [Users -> BOOLEAN]
    /\ processed' \subseteq [ev: Event, at: Nat]
    /\ doneEver' \subseteq Event

ProcTyped(p, q) ==
    /\ q \in Proc
    /\ p \in Workers /\ q.pc # "idle" => q.job \in sent
    /\ q.job.ver <= Len(hist[q.job.sub])
    /\ q.got <= Len(hist[q.job.sub])
    /\ q.job.kind # "setup" => q.locks \subseteq {q.job.sub}

LEMMA ServerTyped ==
    ASSUME Typed, ServerEffect, NEW p \in Procs, NEW q, ProcTyped(p, q),
           proc' = [proc EXCEPT ![p] = q]
    PROVE  Typed'
<1>1. proc' \in [Procs -> Proc] /\ \A r \in Procs : ProcTyped(r, proc'[r])
  BY DEF ProcTyped, Typed, TypeOK, JobsInHistory, WorkersServeEvents
<1> QED
  BY <1>1
  DEF ProcTyped, ServerEffect, Typed, TypeOK, EventsInHistory, JobsInHistory,
      WorkersServeEvents, Procs

LEMMA IdleTyped == ASSUME Typed, NEW p \in Procs PROVE ProcTyped(p, Idle)
<1>1. NoJob.sub \in Subs /\ Idle.job = NoJob
  BY NoJobType DEF Job, Idle
<1>2. Len(hist[NoJob.sub]) \in Nat
  BY <1>1 DEF Typed, TypeOK
<1> QED BY <1>1, <1>2, NoJobType DEF ProcTyped, Idle, NoJob

LEMMA WebhookTyped ==
    ASSUME Typed, NEW w \in Workers, Webhook(w)
    PROVE  Typed'
<1> USE DEF gateway, database
<1>0. /\ w \in Procs /\ TypeOK /\ proc[w] \in Proc /\ ProcTyped(w, proc[w])
      /\ proc[w].job.sub \in Subs /\ hist[proc[w].job.sub] \in Seq(Version)
  BY DEF Typed, TypeOK, Procs, JobsInHistory, WorkersServeEvents, ProcTyped,
         Proc, Job
<1>1. CASE Receive(w)
  <2>1. PICK e \in sent : proc' = [proc EXCEPT ![w] =
           [Idle EXCEPT !.pc = "external", !.job = e, !.since = now]]
    BY <1>1 DEF Receive
  <2>2. e \in Job /\ e.ver <= Len(hist[e.sub]) /\ now \in Nat /\ e.sub \in Subs
    BY EventIsJob, TimesAssumption DEF Typed, TypeOK, EventsInHistory, Job
  <2>3. hist[e.sub] \in Seq(Version)
    BY <2>2 DEF Typed, TypeOK
  <2> DEFINE q == [Idle EXCEPT !.pc = "external", !.job = e, !.since = now]
  <2>4. ProcTyped(w, q)
    <3>1. Idle.got = 0 /\ Idle.locks = {} /\ Idle \in Proc
      BY NoJobType DEF Idle
    <3>2. q \in Proc
      BY <2>2, <3>1 DEF Proc
    <3>3. q.job = e /\ q.got = 0 /\ q.locks = {}
      BY <3>1 DEF Proc
    <3>4. Len(hist[e.sub]) \in Nat
      BY <2>3
    <3> HIDE DEF q
    <3> QED BY <2>2, <3>2, <3>3, <3>4 DEF ProcTyped
  <2>5. ServerEffect
    BY <1>0, <1>1 DEF Receive, ServerEffect, TypeOK
  <2> QED BY <1>0, <2>1, <2>4, <2>5, ServerTyped
<1>2. CASE applyExternalEffects(w)
  <2> DEFINE e == proc[w].job
             g == IF e.kind \in {"checkout", "invoice"} THEN Len(hist[e.sub])
                  ELSE e.ver
             card == g > 0 /\ hist[e.sub][g].card
             q == [proc[w] EXCEPT !.pc = "begin", !.got = g, !.card = card,
                                  !.stamp = EventStamp(e)]
  <2>1. proc' = [proc EXCEPT ![w] = q]
    BY <1>0, <1>2 DEF applyExternalEffects, TypeOK
  <2>2. g \in Nat /\ g <= Len(hist[e.sub])
    BY <1>0 DEF Proc, Job, ProcTyped
  <2>3. card \in BOOLEAN
    OBVIOUS
  <2>4. EventStamp(e) \in Nat
    BY <1>0 DEF EventStamp, Proc, Job
  <2>5. ProcTyped(w, q)
    <3>1. proc[w].pc # "idle"
      BY <1>2 DEF applyExternalEffects
    <3> HIDE DEF g, card
    <3> QED BY <1>0, <2>2, <2>3, <2>4, <3>1 DEF ProcTyped, Proc
  <2>6. ServerEffect
    BY <1>0, <1>2 DEF applyExternalEffects, ServerEffect, TypeOK
  <2> HIDE DEF q
  <2> QED BY <1>0, <2>1, <2>5, <2>6, ServerTyped
<1>3. CASE Duplicate(w)
  <2>1. ServerEffect
    BY <1>0, <1>3 DEF Duplicate, ServerEffect, TypeOK
  <2> QED BY <1>0, <1>3, <2>1, IdleTyped, ServerTyped DEF Duplicate
<1>4. CASE Begin(w)
  <2>1. ProcTyped(w, [proc[w] EXCEPT !.pc = "write"])
    <3>1. proc[w].pc # "idle"
      BY <1>4 DEF Begin
    <3> QED BY <1>0, <3>1 DEF ProcTyped, Proc
  <2>2. proc' = [proc EXCEPT ![w] = [proc[w] EXCEPT !.pc = "write"]]
    BY <1>0, <1>4 DEF Begin, TypeOK
  <2>3. ServerEffect
    BY <1>0, <1>4 DEF Begin, ServerEffect, TypeOK
  <2> QED BY <1>0, <2>1, <2>2, <2>3, ServerTyped
<1>5. CASE Discard(w)
  <2>1. proc[w].job \in Event
    BY <1>0, <1>5 DEF Discard, TypeOK, ProcTyped
  <2>2. ServerEffect
    BY <1>0, <1>5, <2>1, TimesAssumption DEF Discard, ServerEffect, TypeOK
  <2> QED BY <1>0, <1>5, <2>2, IdleTyped, ServerTyped DEF Discard
<1> QED BY <1>1, <1>2, <1>3, <1>4, <1>5 DEF Webhook

LEMMA TransactionTyped ==
    ASSUME Typed, NEW p \in Procs, Transaction(p) \/ Fail(p)
    PROVE  Typed'
<1> USE DEF gateway, database
<1>0. /\ TypeOK /\ proc[p] \in Proc /\ ProcTyped(p, proc[p])
      /\ proc[p].job.sub \in Subs /\ Owner[proc[p].job.sub] \in Users
  BY OwnerAssumption
  DEF Typed, TypeOK, JobsInHistory, WorkersServeEvents, ProcTyped, Proc, Job
<1>1. CASE Write(p)
  <2> DEFINE q == [proc[p] EXCEPT !.pc = "count", !.locks = Targets(p)]
  <2>1. proc' = [proc EXCEPT ![p] = q]
    BY <1>0, <1>1 DEF Write, TypeOK
  <2>2. Targets(p) \in SUBSET Subs
    BY <1>0 DEF Targets, OwnedBy
  <2>3. proc[p].job.kind # "setup" => Targets(p) \subseteq {proc[p].job.sub}
    BY DEF Targets
  <2>4. ProcTyped(p, q)
    <3>1. proc[p].pc # "idle"
      BY <1>1 DEF Write
    <3> QED BY <1>0, <2>2, <2>3, <3>1 DEF ProcTyped, Proc
  <2>5. ServerEffect
    BY <1>0, <1>1 DEF Write, ServerEffect, TypeOK
  <2> HIDE DEF q
  <2> QED BY <2>1, <2>4, <2>5, ServerTyped
<1>2. CASE Recount(p)
  <2> DEFINE prem == \E s \in OwnedBy(Owner[proc[p].job.sub]) : Granting(View(p)[s])
             q == [proc[p] EXCEPT !.pc = "commit", !.prem = prem]
  <2>1. proc' = [proc EXCEPT ![p] = q]
    BY <1>0, <1>2 DEF Recount, TypeOK
  <2>2. prem \in BOOLEAN
    OBVIOUS
  <2>3. ProcTyped(p, q)
    <3>1. proc[p].pc # "idle"
      BY <1>2 DEF Recount
    <3> HIDE DEF prem
    <3> QED BY <1>0, <2>2, <3>1 DEF ProcTyped, Proc
  <2>4. ServerEffect
    BY <1>0, <1>2 DEF Recount, ServerEffect, TypeOK
  <2> HIDE DEF q
  <2> QED BY <2>1, <2>3, <2>4, ServerTyped
<1>3. CASE Commit(p)
  <2>1. View(p) \in [Subs -> Row]
    BY ViewType
  <2>2. p \in Workers => proc[p].job \in Event
    BY <1>0, <1>3 DEF Commit, TypeOK, ProcTyped
  <2>3. proc[p].prem \in BOOLEAN /\ now \in Nat
    BY <1>0, TimesAssumption DEF Proc, TypeOK
  <2>4. ServerEffect
    BY <1>0, <1>3, <2>1, <2>2, <2>3 DEF Commit, ServerEffect, TypeOK
  <2> QED BY <1>3, <2>4, IdleTyped, ServerTyped DEF Commit
<1>4. CASE Fail(p)
  <2>1. ServerEffect
    BY <1>0, <1>4 DEF Fail, ServerEffect, TypeOK
  <2> QED BY <1>4, <2>1, IdleTyped, ServerTyped DEF Fail
<1> QED BY <1>1, <1>2, <1>3, <1>4 DEF Transaction

LEMMA ReconcilerTyped == ASSUME Typed, Reconciler PROVE Typed'
<1> USE DEF gateway, database
<1>0. /\ Sync \in Procs /\ Sync \notin Workers
      /\ TypeOK /\ proc[Sync] \in Proc /\ ProcTyped(Sync, proc[Sync])
      /\ proc[Sync].job.sub \in Subs /\ now \in Nat
  BY SyncAssumption, TimesAssumption
  DEF Procs, Typed, TypeOK, JobsInHistory, ProcTyped, Proc, Job
<1>1. ASSUME NEW s \in Subs, NEW kind \in {"sync", "adopt"}, NEW t \in Nat,
             NEW q, q = [Idle EXCEPT !.pc = "external", !.since = now,
                                     !.job = SyncJob(kind, s), !.stamp = t]
      PROVE  ProcTyped(Sync, q)
  <2>1. SyncJob(kind, s) \in Job /\ SyncJob(kind, s).ver = 0
        /\ SyncJob(kind, s).sub = s
    BY <1>1 DEF SyncJob, Job, EventKinds
  <2>2. Idle.got = 0 /\ Idle.locks = {} /\ Idle \in Proc
    BY NoJobType DEF Idle
  <2>3. q \in Proc /\ q.job = SyncJob(kind, s) /\ q.got = 0 /\ q.locks = {}
    BY <1>0, <1>1, <2>1, <2>2 DEF Proc
  <2>4. Len(hist[s]) \in Nat
    BY <1>0 DEF TypeOK
  <2> QED BY <1>0, <2>1, <2>3, <2>4 DEF ProcTyped
<1>2. ASSUME NEW s \in Subs, PickStale(s) PROVE Typed'
  <2>1. proc' = [proc EXCEPT ![Sync] =
           [Idle EXCEPT !.pc = "external", !.since = now,
                        !.job = SyncJob("sync", s), !.stamp = 0]]
    <3>1. Idle \in Proc /\ Idle.stamp = 0
      BY NoJobType DEF Idle
    <3> HIDE DEF Idle
    <3>2. [Idle EXCEPT !.pc = "external", !.job = SyncJob("sync", s),
                       !.since = now]
          = [Idle EXCEPT !.pc = "external", !.since = now,
                         !.job = SyncJob("sync", s), !.stamp = 0]
      BY <3>1 DEF Proc
    <3> QED BY <1>2, <3>2 DEF PickStale
  <2>2. ServerEffect
    BY <1>0, <1>2 DEF PickStale, ServerEffect, TypeOK
  <2> QED BY <1>0, <1>1, <2>1, <2>2, ServerTyped
<1>3. ASSUME NEW s \in Subs, StartScan(s) PROVE Typed'
  <2>1. proc' = [proc EXCEPT ![Sync] =
           [Idle EXCEPT !.pc = "external", !.since = now,
                        !.job = SyncJob("adopt", s), !.stamp = now]]
    BY <1>3 DEF StartScan, Idle
  <2>2. ServerEffect
    BY <1>0, <1>3 DEF StartScan, ServerEffect, TypeOK
  <2> QED BY <1>0, <1>1, <2>1, <2>2, ServerTyped
<1>4. ASSUME NEW pc \in {"begin", "stamp", "write"}, NEW got \in Nat,
             got <= Len(hist[proc[Sync].job.sub]), NEW card \in BOOLEAN,
             NEW t \in Nat, NEW q,
             q = [proc[Sync] EXCEPT !.pc = pc, !.got = got, !.card = card,
                                    !.stamp = t]
      PROVE  ProcTyped(Sync, q)
  BY <1>0, <1>4 DEF ProcTyped, Proc
<1>5. ASSUME RetrieveStale PROVE Typed'
  <2> DEFINE s == proc[Sync].job.sub
  <2>1. PICK g \in {Len(hist[s])} \cup
                   (IF customer[Owner[s]] = "deleted" THEN {0} ELSE {}) :
           proc' = [proc EXCEPT ![Sync].pc = "stamp", ![Sync].got = g,
                                ![Sync].card = g > 0 /\ hist[s][g].card]
    BY <1>5 DEF RetrieveStale
  <2> DEFINE card == g > 0 /\ hist[s][g].card
             q == [proc[Sync] EXCEPT !.pc = "stamp", !.got = g, !.card = card,
                                     !.stamp = proc[Sync].stamp]
  <2>2. g \in Nat /\ g <= Len(hist[s])
    BY <1>0, <2>1 DEF TypeOK
  <2>3. card \in BOOLEAN /\ proc[Sync].stamp \in Nat
    BY <1>0 DEF Proc
  <2>4. ProcTyped(Sync, q)
    <3> HIDE DEF card
    <3> QED BY <1>4, <2>2, <2>3
  <2>5. proc' = [proc EXCEPT ![Sync] = q]
    BY <1>0, <2>1 DEF TypeOK, Proc
  <2>6. ServerEffect
    BY <1>0, <1>5 DEF RetrieveStale, ServerEffect, TypeOK
  <2> HIDE DEF q
  <2> QED BY <1>0, <2>4, <2>5, <2>6, ServerTyped
<1>6. ASSUME StampStale PROVE Typed'
  <2> DEFINE q == [proc[Sync] EXCEPT !.pc = "write", !.got = proc[Sync].got,
                                     !.card = proc[Sync].card, !.stamp = now]
  <2>1. ProcTyped(Sync, q)
    <3>1. /\ proc[Sync].got \in Nat /\ proc[Sync].card \in BOOLEAN
          /\ proc[Sync].got <= Len(hist[proc[Sync].job.sub])
      BY <1>0 DEF Proc, ProcTyped
    <3> QED BY <1>0, <1>4, <3>1
  <2>2. proc' = [proc EXCEPT ![Sync] = q]
    BY <1>0, <1>6 DEF StampStale, TypeOK, Proc
  <2>3. ServerEffect
    BY <1>0, <1>6 DEF StampStale, ServerEffect, TypeOK
  <2> HIDE DEF q
  <2> QED BY <1>0, <2>1, <2>2, <2>3, ServerTyped
<1>7. ASSUME ListOrphan PROVE Typed'
  <2> DEFINE s == proc[Sync].job.sub
             card == Last(s).card \/ custCard[Owner[s]]
             q == [proc[Sync] EXCEPT !.pc = "begin", !.got = Len(hist[s]),
                      !.card = card, !.stamp = proc[Sync].stamp]
  <2>1. card \in BOOLEAN /\ Len(hist[s]) \in Nat /\ proc[Sync].stamp \in Nat
    BY <1>0 DEF TypeOK, Proc
  <2>2. ProcTyped(Sync, q)
    <3>1. Len(hist[s]) <= Len(hist[s])
      BY <2>1
    <3> HIDE DEF card
    <3> QED BY <1>4, <2>1, <3>1
  <2>3. \/ proc' = [proc EXCEPT ![Sync] = q]
        \/ proc' = [proc EXCEPT ![Sync] = Idle]
    BY <1>0, <1>7 DEF ListOrphan, TypeOK, Proc
  <2>4. ServerEffect
    BY <1>0, <1>7 DEF ListOrphan, ServerEffect, TypeOK
  <2> HIDE DEF q
  <2> QED BY <1>0, <2>2, <2>3, <2>4, IdleTyped, ServerTyped
<1>8. ASSUME Adopt PROVE Typed'
  <2> DEFINE q == [proc[Sync] EXCEPT !.pc = "write"]
  <2>1. ProcTyped(Sync, q)
    BY <1>0 DEF Proc, ProcTyped
  <2>2. \/ proc' = [proc EXCEPT ![Sync] = q]
        \/ proc' = [proc EXCEPT ![Sync] = Idle]
    BY <1>0, <1>8 DEF Adopt, TypeOK
  <2>3. ServerEffect
    BY <1>0, <1>8 DEF Adopt, ServerEffect, TypeOK
  <2> HIDE DEF q
  <2> QED BY <1>0, <2>1, <2>2, <2>3, IdleTyped, ServerTyped
<1> QED BY <1>2, <1>3, <1>5, <1>6, <1>7, <1>8 DEF Reconciler


LEMMA HousekeepingTyped ==
    ASSUME Typed, Purge \/ \E u \in Users : anonymizeUser(u) \/ unlinkStripeCustomer(u)
    PROVE  Typed'
<1> USE DEF gateway, database
<1>0. TypeOK
  BY DEF Typed
<1>1. UNCHANGED proc
  BY DEF Purge, anonymizeUser, unlinkStripeCustomer
<1>2. ServerEffect
  <2>1. CASE Purge
    BY <1>0, <2>1 DEF Purge, ServerEffect, TypeOK
  <2>2. ASSUME NEW u \in Users, anonymizeUser(u) PROVE ServerEffect
    <3>1. NoRow \in Row
      BY DEF NoRow, Row, LocalStatus
    <3>2. row' \in [Subs -> Row]
      BY <1>0, <2>2, <3>1 DEF anonymizeUser, TypeOK
    <3> QED BY <1>0, <2>2, <3>2 DEF anonymizeUser, ServerEffect, TypeOK
  <2>3. ASSUME NEW u \in Users, unlinkStripeCustomer(u) PROVE ServerEffect
    BY <1>0, <2>3 DEF unlinkStripeCustomer, ServerEffect, TypeOK
  <2> QED BY <2>1, <2>2, <2>3
<1> QED
  BY <1>0, <1>1, <1>2
  DEF ServerEffect, Typed, TypeOK, EventsInHistory, JobsInHistory,
      WorkersServeEvents

(* Typed is inductive.                                                     *)
LEMMA TypedInit == Init => Typed
<1> SUFFICES ASSUME Init PROVE Typed
  OBVIOUS
<1>1. NoRow \in Row /\ NoOffer \in Offer
  BY DEF NoRow, Row, LocalStatus, NoOffer, Offer
<1>2. TypeOK
  BY <1>1, NoJobType, TimesAssumption DEF Init, TypeOK
<1>3. \A p \in Procs : ProcTyped(p, proc[p])
  <2>1. Idle.pc = "idle" /\ Idle.job = NoJob /\ Idle.got = 0 /\ Idle.locks = {}
        /\ NoJob.ver = 0 /\ NoJob.sub \in Subs
    BY NoJobType DEF Idle, NoJob, Job
  <2>2. \A p \in Procs : proc[p] = Idle
    BY DEF Init
  <2>3. \A s \in Subs : Len(hist[s]) = 0
    BY DEF Init
  <2>4. Idle \in Proc
    BY NoJobType
  <2> QED BY <2>1, <2>2, <2>3, <2>4 DEF ProcTyped
<1> QED
  BY <1>2, <1>3 DEF Typed, EventsInHistory, JobsInHistory, WorkersServeEvents,
                    ProcTyped, Procs, Init

LEMMA TypedStep == Typed /\ [Next]_vars => Typed'
<1> SUFFICES ASSUME Typed, [Next]_vars PROVE Typed'
  OBVIOUS
<1>1. CASE Tick
  <2>1. now' \in 0..MaxTime
    BY <1>1, TimesAssumption DEF Tick, Typed, TypeOK
  <2> QED
    BY <1>1, <2>1 DEF Tick, gateway, database, Typed, TypeOK, EventsInHistory,
                      JobsInHistory, WorkersServeEvents
<1>2. CASE UNCHANGED vars
  BY <1>2 DEF vars, Typed, TypeOK, EventsInHistory, JobsInHistory,
              WorkersServeEvents
<1>3. ASSUME NEW w \in Workers, Webhook(w) PROVE Typed'
  BY <1>3, WebhookTyped
<1>4. ASSUME NEW p \in Procs, Transaction(p) \/ Fail(p) PROVE Typed'
  BY <1>4, TransactionTyped
<1>5. CASE GatewayStep
  BY <1>5, GatewayTyped
<1>6. CASE Purge \/ \E u \in Users : anonymizeUser(u) \/ unlinkStripeCustomer(u)
  BY <1>6, HousekeepingTyped
<1>7. CASE Reconciler
  BY <1>7, ReconcilerTyped
<1> QED
  BY <1>1, <1>2, <1>3, <1>4, <1>5, <1>6, <1>7 DEF Next, GatewayStep, Erasure

(* Type correctness: whatever the interleaving of webhooks, reconciler and *)
(* eraser, every table and every in-flight request of src/modules/billing  *)
(* keeps its type, and no event names a version that does not exist.       *)
THEOREM TypeCorrect == Spec => []TypeOK
<1>1. Typed => TypeOK
  BY DEF Typed
<1> QED BY <1>1, TypedInit, TypedStep, PTL DEF Spec

-----------------------------------------------------------------------------
(* INSERT-first idempotency.  An event that took effect stays in           *)
(* webhook_events for Retention, longer than the gateway redelivers it and *)
(* a handler runs, so whoever holds it now finds it there.                 *)

\* A transaction under way is the only one for its event, and the first.
OnceEach ==
    \A w \in Workers : InTx(w) =>
        /\ proc[w].job \notin doneEver
        /\ \A v \in Workers : InTx(v) /\ proc[v].job = proc[w].job => v = w

\* The row of an applied event outlives its deliveries.
Remembered ==
    \A e \in doneEver : WasProcessed(e) \/ now > e.at + Redelivery + Latency

ProcessedInOrder == \A x \in processed : x.ev.at <= x.at /\ x.at <= now

\* A request was received while its event was still being delivered, and has
\* not been in flight for longer than Latency.
InFlight ==
    \A p \in Procs : proc[p].pc # "idle" =>
        /\ proc[p].since <= now /\ now - proc[p].since <= Latency
        /\ p \in Workers => proc[p].since - proc[p].job.at <= Redelivery

SentInPast == \A e \in sent : e.at <= now

Once == OnceEach /\ Remembered /\ ProcessedInOrder /\ InFlight /\ SentInPast

\* A step of p that neither opens a transaction nor takes effect: p gives up,
\* starts on something, or goes on with what it was doing.
Routine(p, q) ==
    /\ proc' = [proc EXCEPT ![p] = q]
    /\ UNCHANGED <<now, sent, processed, doneEver>>
    /\ \/ q.pc = "idle"
       \/ /\ q.pc = "external" /\ q.since = now
          /\ p \in Workers => now - q.job.at <= Redelivery
       \/ /\ proc[p].pc # "idle"
          /\ q.job = proc[p].job /\ q.since = proc[p].since
          /\ p \in Workers /\ q.pc \in {"write", "count", "commit"} => InTx(p)

LEMMA RoutineOnce ==
    ASSUME Typed, Once, NEW p \in Procs, NEW q, Routine(p, q) PROVE Once'
<1>1. \A r \in Procs : proc'[r] = IF r = p THEN q ELSE proc[r]
  BY DEF Routine, Typed, TypeOK
<1>2. OnceEach'
  BY <1>1 DEF Routine, Once, OnceEach, InTx, Procs
<1>3. Remembered' /\ ProcessedInOrder' /\ SentInPast'
  BY DEF Routine, Once, Remembered, ProcessedInOrder, WasProcessed, SentInPast
<1>4. InFlight'
  BY <1>1, TimesAssumption DEF Routine, Once, InFlight, Typed, TypeOK
<1> QED BY <1>2, <1>3, <1>4 DEF Once

\* A worker holds an event of which no effect is on record: it never had one.
LEMMA UnrecordedIsNew ==
    ASSUME Typed, Once, NEW w \in Workers, proc[w].pc # "idle",
           ~ WasProcessed(proc[w].job)
    PROVE  proc[w].job \notin doneEver
<1>1. /\ proc[w].since \in Nat /\ proc[w].job.at \in Nat /\ now \in Nat
      /\ Redelivery \in Nat /\ Latency \in Nat
  BY TimesAssumption DEF Typed, TypeOK, Procs, Proc, Job
<1>2. now - proc[w].since <= Latency /\ proc[w].since - proc[w].job.at <= Redelivery
  BY DEF Once, InFlight, Procs
<1> QED BY <1>1, <1>2 DEF Once, Remembered

\* Recording an effect: Discard, and the Commit of a worker.
LEMMA RecordOnce ==
    ASSUME Typed, Once, NEW w \in Workers, proc[w].pc # "idle",
           proc' = [proc EXCEPT ![w] = Idle],
           UNCHANGED <<now, sent>>,
           processed' = processed \cup {[ev |-> proc[w].job, at |-> now]},
           doneEver' = doneEver \cup {proc[w].job},
           \A v \in Workers \ {w} : InTx(v) => proc[v].job # proc[w].job
    PROVE  Once'
<1>1. \A r \in Procs : proc'[r] = IF r = w THEN Idle ELSE proc[r]
  BY DEF Typed, TypeOK
<1>2. Idle.pc = "idle"
  BY DEF Idle
<1>3. OnceEach'
  BY <1>1, <1>2 DEF Once, OnceEach, InTx, Procs
<1>4. Remembered'
  <2>1. \E y \in processed' : y.ev = proc[w].job
    <3> DEFINE x == [ev |-> proc[w].job, at |-> now]
    <3>1. x \in processed' /\ x.ev = proc[w].job
      OBVIOUS
    <3> QED BY <3>1
  <2>2. \A e \in doneEver :
           \/ \E y \in processed' : y.ev = e
           \/ now' > e.at + Redelivery + Latency
    BY DEF Once, Remembered, WasProcessed
  <2> QED BY <2>1, <2>2 DEF Remembered, WasProcessed
<1>5. ProcessedInOrder'
  <2>1. proc[w].job.at <= now /\ now <= now
    BY TimesAssumption DEF Once, SentInPast, Typed, WorkersServeEvents, TypeOK
  <2> QED BY <2>1 DEF Once, ProcessedInOrder
<1>6. InFlight' /\ SentInPast'
  BY <1>1, <1>2 DEF Once, InFlight, SentInPast
<1> QED BY <1>3, <1>4, <1>5, <1>6 DEF Once

LEMMA OnceInit == Init => Once
<1> SUFFICES ASSUME Init PROVE Once
  OBVIOUS
<1>1. \A p \in Procs : proc[p].pc = "idle"
  BY DEF Init, Idle
<1> QED
  BY <1>1 DEF Init, Once, OnceEach, Remembered, ProcessedInOrder, InFlight,
              SentInPast, InTx, Procs

LEMMA WebhookOnce ==
    ASSUME Typed, Once, NEW w \in Workers, Webhook(w) PROVE Once'
<1> USE DEF gateway, database
<1>0. w \in Procs /\ proc[w] \in Proc /\ TypeOK
  BY DEF Procs, Typed, TypeOK
<1>1. CASE Receive(w)
  <2>1. PICK e \in sent :
           /\ now - e.at <= Redelivery
           /\ proc' = [proc EXCEPT ![w] = [Idle EXCEPT !.pc = "external",
                                           !.job = e, !.since = now]]
    BY <1>1 DEF Receive
  <2> DEFINE q == [Idle EXCEPT !.pc = "external", !.job = e, !.since = now]
  <2>2. q.pc = "external" /\ q.job = e /\ q.since = now
    BY NoJobType DEF Proc
  <2> HIDE DEF q
  <2>3. Routine(w, q)
    BY <1>1, <2>1, <2>2 DEF Routine, Receive, q
  <2> QED BY <1>0, <2>3, RoutineOnce
<1>2. CASE applyExternalEffects(w)
  <2> DEFINE e == proc[w].job
             g == IF e.kind \in {"checkout", "invoice"} THEN Len(hist[e.sub])
                  ELSE e.ver
             card == g > 0 /\ hist[e.sub][g].card
             q == [proc[w] EXCEPT !.pc = "begin", !.got = g, !.card = card,
                                  !.stamp = EventStamp(e)]
  <2>1. proc' = [proc EXCEPT ![w] = q]
    BY <1>0, <1>2 DEF applyExternalEffects, TypeOK
  <2>2. q.pc = "begin" /\ q.job = proc[w].job /\ q.since = proc[w].since
    <3> HIDE DEF g, card
    <3> QED BY <1>0 DEF Proc
  <2> HIDE DEF q
  <2>3. Routine(w, q)
    BY <1>2, <2>1, <2>2 DEF Routine, applyExternalEffects
  <2> QED BY <1>0, <2>3, RoutineOnce
<1>3. CASE Duplicate(w)
  <2>1. Routine(w, Idle)
    BY <1>3 DEF Routine, Duplicate, Idle
  <2> QED BY <1>0, <2>1, RoutineOnce
<1>4. CASE Begin(w)
  <2>1. \A r \in Procs : /\ r # w => proc'[r] = proc[r]
                         /\ proc'[r].job = proc[r].job
                         /\ proc'[r].since = proc[r].since
    BY <1>0, <1>4 DEF Begin, TypeOK, Proc
  <2>2. proc[w].job \notin doneEver
    BY <1>4, UnrecordedIsNew DEF Begin, MayInsert
  <2>3. OnceEach'
    BY <1>4, <2>1, <2>2 DEF Begin, MayInsert, Once, OnceEach, InTx, Procs
  <2>4. InFlight'
    BY <1>4, <2>1 DEF Begin, Once, InFlight
  <2> QED
    BY <1>4, <2>3, <2>4 DEF Begin, Once, Remembered, ProcessedInOrder,
                            SentInPast, WasProcessed
<1>5. CASE Discard(w)
  BY <1>5, RecordOnce DEF Discard, MayInsert
<1> QED BY <1>1, <1>2, <1>3, <1>4, <1>5 DEF Webhook

LEMMA TransactionOnce ==
    ASSUME Typed, Once, NEW p \in Procs, Transaction(p) \/ Fail(p) PROVE Once'
<1> USE DEF gateway, database
<1>0. proc[p] \in Proc /\ TypeOK /\ (p \in Workers \/ p = Sync)
  BY DEF Procs, Typed, TypeOK
<1>1. CASE Write(p)
  <2> DEFINE q == [proc[p] EXCEPT !.pc = "count", !.locks = Targets(p)]
  <2>1. proc' = [proc EXCEPT ![p] = q]
    BY <1>0, <1>1 DEF Write, TypeOK
  <2>2. q.pc = "count" /\ q.job = proc[p].job /\ q.since = proc[p].since
    BY <1>0 DEF Proc
  <2> HIDE DEF q
  <2>3. Routine(p, q)
    BY <1>1, <2>1, <2>2 DEF Routine, Write, InTx
  <2> QED BY <2>3, RoutineOnce
<1>2. CASE Recount(p)
  <2> DEFINE prem == \E s \in OwnedBy(Owner[proc[p].job.sub]) : Granting(View(p)[s])
             q == [proc[p] EXCEPT !.pc = "commit", !.prem = prem]
  <2>1. proc' = [proc EXCEPT ![p] = q]
    BY <1>0, <1>2 DEF Recount, TypeOK
  <2>2. q.pc = "commit" /\ q.job = proc[p].job /\ q.since = proc[p].since
    <3> HIDE DEF prem
    <3> QED BY <1>0 DEF Proc
  <2> HIDE DEF q
  <2>3. Routine(p, q)
    BY <1>2, <2>1, <2>2 DEF Routine, Recount, InTx
  <2> QED BY <2>3, RoutineOnce
<1>3. CASE Commit(p) /\ p \in Workers
  <2>1. \A v \in Workers \ {p} : InTx(v) => proc[v].job # proc[p].job
    BY <1>3 DEF Commit, Once, OnceEach, InTx
  <2> QED BY <1>3, <2>1, RecordOnce DEF Commit
<1>4. CASE Commit(p) /\ p \notin Workers
  <2>1. Routine(p, Idle)
    BY <1>4 DEF Routine, Commit, Idle
  <2> QED BY <2>1, RoutineOnce
<1>5. CASE Fail(p)
  <2>1. Routine(p, Idle)
    BY <1>5 DEF Routine, Fail, Idle
  <2> QED BY <2>1, RoutineOnce
<1> QED BY <1>1, <1>2, <1>3, <1>4, <1>5 DEF Transaction

LEMMA ReconcilerOnce == ASSUME Typed, Once, Reconciler PROVE Once'
<1> USE DEF gateway, database
<1>0. /\ Sync \in Procs /\ Sync \notin Workers /\ proc[Sync] \in Proc /\ TypeOK
  BY SyncAssumption DEF Procs, Typed, TypeOK
<1> SUFFICES ASSUME NEW q, proc' = [proc EXCEPT ![Sync] = q],
                    UNCHANGED <<now, sent, processed, doneEver>>,
                    \/ q.pc = "idle"
                    \/ q.pc = "external" /\ q.since = now
                    \/ /\ proc[Sync].pc # "idle"
                       /\ q.job = proc[Sync].job /\ q.since = proc[Sync].since
             PROVE  Once'
  <2>1. ASSUME NEW s \in Subs, PickStale(s) \/ StartScan(s) PROVE Once'
    <3>1. PICK q : /\ proc' = [proc EXCEPT ![Sync] = q]
                   /\ q.pc = "external" /\ q.since = now
      <4>1. Idle \in Proc
        BY NoJobType
      <4>2. CASE PickStale(s)
        <5> DEFINE q == [Idle EXCEPT !.pc = "external", !.since = now,
                                     !.job = SyncJob("sync", s)]
        <5>1. q.pc = "external" /\ q.since = now
          BY <4>1 DEF Proc
        <5> QED BY <4>2, <5>1 DEF PickStale
      <4>3. CASE StartScan(s)
        <5> DEFINE q == [Idle EXCEPT !.pc = "external", !.since = now,
                                     !.job = SyncJob("adopt", s), !.stamp = now]
        <5>1. q.pc = "external" /\ q.since = now
          BY <4>1 DEF Proc
        <5> QED BY <4>3, <5>1 DEF StartScan
      <4> QED BY <2>1, <4>2, <4>3
    <3> QED BY <2>1, <3>1 DEF PickStale, StartScan
  <2>2. CASE RetrieveStale
    <3>1. PICK g : proc' = [proc EXCEPT ![Sync].pc = "stamp", ![Sync].got = g,
                    ![Sync].card = g > 0 /\ hist[proc[Sync].job.sub][g].card]
      BY <2>2 DEF RetrieveStale
    <3> DEFINE card == g > 0 /\ hist[proc[Sync].job.sub][g].card
               q == [proc[Sync] EXCEPT !.pc = "stamp", !.got = g, !.card = card]
    <3>2. q.job = proc[Sync].job /\ q.since = proc[Sync].since
      BY <1>0 DEF Proc
    <3>3. proc' = [proc EXCEPT ![Sync] = q]
      BY <1>0, <3>1 DEF TypeOK
    <3> HIDE DEF q
    <3> QED BY <2>2, <3>2, <3>3 DEF RetrieveStale
  <2>3. CASE StampStale
    <3> DEFINE q == [proc[Sync] EXCEPT !.pc = "write", !.stamp = now]
    <3>1. q.job = proc[Sync].job /\ q.since = proc[Sync].since
      BY <1>0 DEF Proc
    <3>2. proc' = [proc EXCEPT ![Sync] = q]
      BY <1>0, <2>3 DEF StampStale, TypeOK
    <3> HIDE DEF q
    <3> QED BY <2>3, <3>1, <3>2 DEF StampStale
  <2>4. CASE ListOrphan
    <3> DEFINE s == proc[Sync].job.sub
               card == Last(s).card \/ custCard[Owner[s]]
               q == [proc[Sync] EXCEPT !.pc = "begin", !.got = Len(hist[s]),
                                       !.card = card]
    <3>1. q.job = proc[Sync].job /\ q.since = proc[Sync].since /\ Idle.pc = "idle"
      BY <1>0 DEF Proc, Idle
    <3>2. \/ proc' = [proc EXCEPT ![Sync] = q]
          \/ proc' = [proc EXCEPT ![Sync] = Idle]
      BY <1>0, <2>4 DEF ListOrphan, TypeOK
    <3> HIDE DEF q
    <3> QED BY <2>4, <3>1, <3>2 DEF ListOrphan
  <2>5. CASE Adopt
    <3> DEFINE q == [proc[Sync] EXCEPT !.pc = "write"]
    <3>1. q.job = proc[Sync].job /\ q.since = proc[Sync].since /\ Idle.pc = "idle"
      BY <1>0 DEF Proc, Idle
    <3>2. \/ proc' = [proc EXCEPT ![Sync] = q]
          \/ proc' = [proc EXCEPT ![Sync] = Idle]
      BY <1>0, <2>5 DEF Adopt, TypeOK
    <3> HIDE DEF q
    <3> QED BY <2>5, <3>1, <3>2 DEF Adopt
  <2> QED BY <2>1, <2>2, <2>3, <2>4, <2>5 DEF Reconciler
<1>1. Routine(Sync, q)
  BY <1>0 DEF Routine
<1> QED BY <1>0, <1>1, RoutineOnce

LEMMA PurgeOnce == ASSUME Typed, Once, Purge PROVE Once'
<1> USE DEF gateway
<1>1. UNCHANGED <<now, sent, proc, doneEver>>
      /\ processed' = {x \in processed : x.at >= now - Retention}
  BY DEF Purge
<1>2. Remembered'
  <2> SUFFICES ASSUME NEW e \in doneEver,
                      ~ \E x \in processed' : x.ev = e
               PROVE  now > e.at + Redelivery + Latency
    BY <1>1 DEF Remembered, WasProcessed
  <2>1. CASE WasProcessed(e)
    <3>1. PICK x \in processed : x.ev = e
      BY <2>1 DEF WasProcessed
    <3>2. x.at < now - Retention /\ e.at <= x.at
      <4>1. x.at \in Nat /\ now \in Nat /\ Retention \in Nat
        BY TimesAssumption DEF Typed, TypeOK
      <4>2. ~ (x.at >= now - Retention)
        BY <1>1, <3>1
      <4> QED BY <3>1, <4>1, <4>2 DEF Once, ProcessedInOrder
    <3>3. e.at \in Nat /\ x.at \in Nat /\ now \in Nat
          /\ {Retention, Redelivery, Latency} \subseteq Nat
      BY TimesAssumption DEF Typed, TypeOK, Event
    <3> QED BY <3>2, <3>3, RetentionAssumption
  <2>2. CASE ~ WasProcessed(e)
    BY <2>2 DEF Once, Remembered
  <2> QED BY <2>1, <2>2
<1> QED
  BY <1>1, <1>2 DEF Once, OnceEach, InTx, ProcessedInOrder, InFlight, SentInPast

LEMMA OnceStep == Typed /\ Once /\ [Next]_vars => Once'
<1> SUFFICES ASSUME Typed, Once, [Next]_vars PROVE Once'
  OBVIOUS
<1> USE DEF gateway, database
<1>1. CASE Tick
  <2>1. /\ now \in Nat /\ now' = now + 1
        /\ UNCHANGED <<sent, processed, proc, doneEver>>
    BY <1>1, TimesAssumption DEF Tick, Typed, TypeOK
  <2>2. OnceEach' /\ InFlight'
    <3>1. \A p \in Procs : proc[p].since \in Nat
      BY DEF Typed, TypeOK, Proc
    <3> QED
      BY <1>1, <2>1, <3>1, TimesAssumption
      DEF Tick, Once, OnceEach, InTx, InFlight
  <2>3. Remembered'
    <3>1. \A e \in doneEver : e.at \in Nat
      BY DEF Typed, TypeOK, Event
    <3> QED BY <2>1, <3>1, TimesAssumption DEF Once, Remembered, WasProcessed
  <2>4. ProcessedInOrder' /\ SentInPast'
    <3>1. /\ \A x \in processed : x.at \in Nat
          /\ \A e \in sent : e.at \in Nat
      BY DEF Typed, TypeOK, Event
    <3> QED BY <2>1, <3>1 DEF Once, ProcessedInOrder, SentInPast
  <2> QED BY <2>2, <2>3, <2>4 DEF Once
<1>2. CASE UNCHANGED vars
  BY <1>2 DEF vars, Once, OnceEach, InTx, Remembered, WasProcessed,
              ProcessedInOrder, InFlight, SentInPast
<1>3. ASSUME NEW w \in Workers, Webhook(w) PROVE Once'
  BY <1>3, WebhookOnce
<1>4. ASSUME NEW p \in Procs, Transaction(p) \/ Fail(p) PROVE Once'
  BY <1>4, TransactionOnce
<1>5. CASE GatewayStep
  <2>1. GatewayEffect
    BY <1>5, GatewayOnlyGrows
  <2>2. SentInPast'
    <3>1. now \in Nat /\ UNCHANGED now
      BY <2>1, TimesAssumption DEF Typed, TypeOK, GatewayEffect
    <3> QED BY <2>1, <3>1 DEF GatewayEffect, NewEvent, Once, SentInPast
  <2> QED
    BY <2>1, <2>2
    DEF GatewayEffect, Once, OnceEach, InTx, Remembered, WasProcessed,
        ProcessedInOrder, InFlight
<1>6. CASE Purge
  BY <1>6, PurgeOnce
<1>7. CASE \E u \in Users : anonymizeUser(u) \/ unlinkStripeCustomer(u)
  BY <1>7 DEF anonymizeUser, unlinkStripeCustomer, Once, OnceEach, InTx,
              Remembered, WasProcessed, ProcessedInOrder, InFlight, SentInPast
<1>8. CASE Reconciler
  BY <1>8, ReconcilerOnce
<1> QED
  BY <1>1, <1>2, <1>3, <1>4, <1>5, <1>6, <1>7, <1>8
  DEF Next, GatewayStep, Erasure

(* Idempotency: a webhook's transaction is never under way for an event    *)
(* that already took effect, however often the event is redelivered, in    *)
(* whatever order, to however many workers, and although webhook_events is *)
(* purged: what RetentionAssumption buys.                                  *)
THEOREM AppliesOnce == Spec => []AppliedOnce
<1>1. OnceEach => AppliedOnce
  BY DEF OnceEach, AppliedOnce
<1>2. Typed /\ Once => AppliedOnce
  BY <1>1 DEF Once
<1> QED BY <1>2, TypedInit, TypedStep, OnceInit, OnceStep, PTL DEF Spec

-----------------------------------------------------------------------------
(* Out-of-order delivery, with the webhooks alone (the reconciler stamps   *)
(* rows with its own clock, and BILLING_SYNC_ENABLED breaks the property). *)

HistoryOrdered ==
    \A s \in Subs : \A i \in 1..Len(hist[s]) :
        /\ hist[s][i].at <= now
        /\ \A j \in 1..Len(hist[s]) : i <= j => hist[s][i].at <= hist[s][j].at

\* An event is about a version that was there when it was created.
EventsAnchored ==
    \A e \in sent :
        /\ e.kind = "subscription" => e.ver > 0 /\ hist[e.sub][e.ver].at = e.at
        /\ e.kind \in {"checkout", "invoice"} => Len(hist[e.sub]) > 0

\* What a request holds after its external phase has every version older than
\* the stamp it will write.
FreshJob(q) ==
    q.pc \in {"begin", "write", "count", "commit"} /\ q.job.kind # "setup" =>
        /\ q.got > 0 /\ q.stamp = q.job.at
        /\ \A i \in 1..Len(hist[q.job.sub]) :
               hist[q.job.sub][i].at < q.stamp => i <= q.got

JobsFresh == \A w \in Workers : FreshJob(proc[w])

SyncOff == proc[Sync].pc = "idle"

RowsInPast == \A s \in Subs : Known(s) => row[s].synced <= now

Fresh == /\ HistoryOrdered /\ EventsAnchored /\ JobsFresh /\ SyncOff
         /\ RowsInPast /\ DiscardsAreStale

LEMMA FreshInit == Init => Fresh
<1> SUFFICES ASSUME Init PROVE Fresh
  OBVIOUS
<1>1. \A p \in Procs : proc[p].pc = "idle"
  BY DEF Init, Idle
<1>2. \A s \in Subs : ~ Known(s) /\ Len(hist[s]) = 0
  BY DEF Init, Known, NoRow
<1> QED
  BY <1>1, <1>2
  DEF Init, Fresh, HistoryOrdered, EventsAnchored, FreshJob, JobsFresh, SyncOff,
      RowsInPast, DiscardsAreStale, Procs

\* A request that goes on without touching the table.
LEMMA FreshRequest ==
    ASSUME Typed, Fresh, NEW w \in Workers, NEW q, FreshJob(q),
           proc' = [proc EXCEPT ![w] = q], UNCHANGED <<now, hist, sent, row>>
    PROVE  Fresh'
<1>1. w # Sync /\ Sync \in Procs
  BY SyncAssumption DEF Procs
<1>2. \A r \in Procs : proc'[r] = IF r = w THEN q ELSE proc[r]
  BY DEF Typed, TypeOK
<1>3. JobsFresh' /\ SyncOff'
  BY <1>1, <1>2 DEF Fresh, JobsFresh, FreshJob, SyncOff, Procs
<1> QED
  BY <1>3 DEF Fresh, HistoryOrdered, EventsAnchored, RowsInPast,
              DiscardsAreStale, Known

\* The external phase: the snapshot of a subscription event is the version it
\* names; what is retrieved for the others is the newest one.
LEMMA FetchedIsFresh ==
    ASSUME Typed, Fresh, Once, NEW e \in sent, NEW g, e.kind # "setup",
           g = IF e.kind \in {"checkout", "invoice"} THEN Len(hist[e.sub])
               ELSE e.ver
    PROVE  /\ g > 0
           /\ \A i \in 1..Len(hist[e.sub]) : hist[e.sub][i].at < e.at => i <= g
<1>1. /\ e.sub \in Subs /\ e.ver \in Nat /\ e.ver <= Len(hist[e.sub])
      /\ e.kind \in EventKinds /\ e.at \in Nat
  BY DEF Typed, TypeOK, EventsInHistory, Event
<1>2. hist[e.sub] \in Seq(Version) /\ Len(hist[e.sub]) \in Nat
  BY <1>1 DEF Typed, TypeOK
<1>3. CASE e.kind \in {"checkout", "invoice"}
  BY <1>1, <1>2, <1>3 DEF Fresh, EventsAnchored
<1>4. CASE e.kind = "subscription"
  <2>1. g = e.ver /\ g \in 1..Len(hist[e.sub]) /\ hist[e.sub][g].at = e.at
    BY <1>1, <1>2, <1>4 DEF Fresh, EventsAnchored
  <2>2. ASSUME NEW i \in 1..Len(hist[e.sub]), hist[e.sub][i].at < e.at
        PROVE  i <= g
    <3>1. hist[e.sub][i] \in Version
      BY <1>2, ElementOfSeq
    <3>2. g <= i => hist[e.sub][g].at <= hist[e.sub][i].at
      BY <1>1, <2>1 DEF Fresh, HistoryOrdered
    <3> QED BY <1>1, <1>2, <2>1, <2>2, <3>1, <3>2 DEF Version
  <2> QED BY <2>1, <2>2
<1> QED BY <1>1, <1>3, <1>4 DEF EventKinds

LEMMA WebhookFresh ==
    ASSUME Typed, Once, Fresh, NEW w \in Workers, Webhook(w) PROVE Fresh'
<1> USE DEF gateway, database
<1>0. w \in Procs /\ proc[w] \in Proc /\ TypeOK /\ FreshJob(proc[w])
  BY DEF Procs, Typed, TypeOK, Fresh, JobsFresh
<1>1. CASE Receive(w)
  <2>1. PICK e \in sent : proc' = [proc EXCEPT ![w] =
           [Idle EXCEPT !.pc = "external", !.job = e, !.since = now]]
    BY <1>1 DEF Receive
  <2> DEFINE q == [Idle EXCEPT !.pc = "external", !.job = e, !.since = now]
  <2>2. q.pc = "external"
    BY NoJobType DEF Proc
  <2>3. FreshJob(q)
    BY <2>2 DEF FreshJob
  <2> HIDE DEF q
  <2> QED BY <1>1, <2>1, <2>3, FreshRequest DEF Receive, q
<1>2. CASE applyExternalEffects(w)
  <2> DEFINE e == proc[w].job
             g == IF e.kind \in {"checkout", "invoice"} THEN Len(hist[e.sub])
                  ELSE e.ver
             card == g > 0 /\ hist[e.sub][g].card
             q == [proc[w] EXCEPT !.pc = "begin", !.got = g, !.card = card,
                                  !.stamp = EventStamp(e)]
  <2>1. proc' = [proc EXCEPT ![w] = q]
    BY <1>0, <1>2 DEF applyExternalEffects, TypeOK
  <2>2. q.job = e /\ q.got = g /\ q.stamp = e.at
    <3> HIDE DEF g, card
    <3> QED BY <1>0 DEF Proc, EventStamp
  <2>3. e \in sent
    BY <1>2 DEF applyExternalEffects, Typed, WorkersServeEvents
  <2>4. FreshJob(q)
    <3> HIDE DEF e, g, q
    <3>1. CASE e.kind # "setup"
      <4>1. g > 0 /\ \A i \in 1..Len(hist[e.sub]) :
                        hist[e.sub][i].at < e.at => i <= g
        BY <2>3, <3>1, FetchedIsFresh DEF g
      <4> QED BY <2>2, <4>1 DEF FreshJob
    <3>2. CASE e.kind = "setup"
      BY <2>2, <3>2 DEF FreshJob
    <3> QED BY <3>1, <3>2
  <2> HIDE DEF q
  <2> QED BY <1>2, <2>1, <2>4, FreshRequest DEF applyExternalEffects
<1>3. CASE Duplicate(w) \/ Discard(w)
  <2>1. FreshJob(Idle)
    BY DEF FreshJob, Idle
  <2> QED BY <1>3, <2>1, FreshRequest DEF Duplicate, Discard
<1>4. CASE Begin(w)
  <2> DEFINE q == [proc[w] EXCEPT !.pc = "write"]
  <2>1. proc' = [proc EXCEPT ![w] = q]
    BY <1>0, <1>4 DEF Begin, TypeOK
  <2>2. q.job = proc[w].job /\ q.got = proc[w].got /\ q.stamp = proc[w].stamp
    BY <1>0 DEF Proc
  <2>3. FreshJob(q)
    BY <1>0, <1>4, <2>2 DEF Begin, FreshJob
  <2> HIDE DEF q
  <2> QED BY <1>4, <2>1, <2>3, FreshRequest DEF Begin
<1> QED BY <1>1, <1>2, <1>3, <1>4 DEF Webhook

\* COMMIT: the row written carries the stamp and the version of the request.
LEMMA CommitFresh ==
    ASSUME Typed, Once, Fresh, NEW w \in Workers, Commit(w) PROVE Fresh'
<1> USE DEF gateway
<1>0. /\ w \in Procs /\ w # Sync /\ Sync \in Procs /\ proc[w] \in Proc /\ TypeOK
      /\ FreshJob(proc[w]) /\ proc[w].pc = "commit" /\ proc[w].job \in sent
      /\ UNCHANGED <<now, hist, sent>> /\ row' = View(w)
  BY SyncAssumption
  DEF Procs, Typed, TypeOK, Fresh, JobsFresh, Commit, WorkersServeEvents
<1>1. JobsFresh' /\ SyncOff'
  <2>1. \A r \in Procs : proc'[r] = IF r = w THEN Idle ELSE proc[r]
    BY <1>0 DEF Commit, TypeOK
  <2>2. Idle.pc = "idle"
    BY DEF Idle
  <2> QED BY <1>0, <2>1, <2>2 DEF Fresh, JobsFresh, FreshJob, SyncOff, Procs
<1>2. ASSUME NEW s \in Subs, Known(s)'
      PROVE  /\ row'[s].synced <= now
             /\ \A i \in 1..Len(hist[s]) :
                   hist[s][i].at < row'[s].synced => i <= row'[s].ver
  <2>1. row[s] \in Row /\ row'[s].ver > 0
    BY <1>0, <1>2 DEF TypeOK, Known
  <2>2. row'[s] = IF s \in proc[w].locks THEN Written(w, s) ELSE row[s]
    BY <1>0 DEF View
  <2>3. CASE s \notin proc[w].locks
    BY <2>1, <2>2, <2>3 DEF Fresh, RowsInPast, DiscardsAreStale, Known
  <2>4. CASE s \in proc[w].locks /\ proc[w].job.kind = "setup"
    <3>1. row'[s] = [row[s] EXCEPT !.card = TRUE]
      BY <2>2, <2>4 DEF Written
    <3>2. row'[s].synced = row[s].synced /\ row'[s].ver = row[s].ver
      BY <2>1, <3>1 DEF Row
    <3> QED BY <2>1, <3>2 DEF Fresh, RowsInPast, DiscardsAreStale, Known
  <2>5. CASE s \in proc[w].locks /\ proc[w].job.kind # "setup"
    <3>1. s = proc[w].job.sub
      BY <1>0, <2>5 DEF Typed, JobsInHistory
    <3>2. /\ proc[w].got > 0 /\ proc[w].stamp = proc[w].job.at
          /\ \A i \in 1..Len(hist[s]) :
                hist[s][i].at < proc[w].stamp => i <= proc[w].got
      BY <1>0, <2>5, <3>1 DEF FreshJob
    <3>3. row'[s].synced = proc[w].stamp /\ row'[s].ver = proc[w].got
      <4>1. proc[w].got # 0
        BY <1>0, <3>2 DEF Proc
      <4> QED BY <2>2, <2>5, <4>1 DEF Written
    <3>4. proc[w].stamp <= now
      BY <1>0, <3>2 DEF Once, SentInPast
    <3> QED BY <3>2, <3>3, <3>4
  <2> QED BY <2>3, <2>4, <2>5
<1>3. RowsInPast' /\ DiscardsAreStale'
  BY <1>0, <1>2 DEF RowsInPast, DiscardsAreStale, Known
<1> QED
  BY <1>0, <1>1, <1>3 DEF Fresh, HistoryOrdered, EventsAnchored

LEMMA TransactionFresh ==
    ASSUME Typed, Once, Fresh, NEW p \in Procs, Transaction(p) \/ Fail(p)
    PROVE  Fresh'
<1> USE DEF gateway, database
<1>0. p \in Workers /\ proc[p] \in Proc /\ TypeOK /\ FreshJob(proc[p])
  <2>1. p # Sync
    BY DEF Fresh, SyncOff, Transaction, Write, Recount, Commit, Fail
  <2> QED BY <2>1 DEF Procs, Typed, TypeOK, Fresh, JobsFresh
<1>1. CASE Write(p)
  <2> DEFINE q == [proc[p] EXCEPT !.pc = "count", !.locks = Targets(p)]
  <2>1. proc' = [proc EXCEPT ![p] = q]
    BY <1>0, <1>1 DEF Write, TypeOK
  <2>2. q.job = proc[p].job /\ q.got = proc[p].got /\ q.stamp = proc[p].stamp
    BY <1>0 DEF Proc
  <2> HIDE DEF q
  <2>3. FreshJob(q)
    BY <1>0, <1>1, <2>2 DEF Write, FreshJob
  <2> QED BY <1>0, <1>1, <2>1, <2>3, FreshRequest DEF Write
<1>2. CASE Recount(p)
  <2> DEFINE prem == \E s \in OwnedBy(Owner[proc[p].job.sub]) : Granting(View(p)[s])
             q == [proc[p] EXCEPT !.pc = "commit", !.prem = prem]
  <2>1. proc' = [proc EXCEPT ![p] = q]
    BY <1>0, <1>2 DEF Recount, TypeOK
  <2>2. q.job = proc[p].job /\ q.got = proc[p].got /\ q.stamp = proc[p].stamp
    <3> HIDE DEF prem
    <3> QED BY <1>0 DEF Proc
  <2> HIDE DEF q
  <2>3. FreshJob(q)
    BY <1>0, <1>2, <2>2 DEF Recount, FreshJob
  <2> QED BY <1>0, <1>2, <2>1, <2>3, FreshRequest DEF Recount
<1>3. CASE Commit(p)
  BY <1>0, <1>3, CommitFresh
<1>4. CASE Fail(p)
  <2>1. FreshJob(Idle)
    BY DEF FreshJob, Idle
  <2> QED BY <1>0, <1>4, <2>1, FreshRequest DEF Fail
<1> QED BY <1>1, <1>2, <1>3, <1>4 DEF Transaction

LEMMA GatewayFresh ==
    ASSUME Typed, Once, Fresh, GatewayEffect PROVE Fresh'
<1>0. now \in Nat /\ TypeOK /\ UNCHANGED <<now, row, proc>>
  BY TimesAssumption DEF Typed, TypeOK, GatewayEffect
<1>1. \A s \in Subs :
        /\ Len(hist[s]) \in Nat /\ Len(hist'[s]) \in Nat
        /\ Len(hist[s]) <= Len(hist'[s])
        /\ \A i \in 1..Len(hist[s]) : hist'[s][i] = hist[s][i]
        /\ \A i \in 1..Len(hist'[s]) : i > Len(hist[s]) => hist'[s][i].at = now
  BY HistoryExtends
<1>2. HistoryOrdered'
  <2> SUFFICES ASSUME NEW s \in Subs, NEW i \in 1..Len(hist'[s]),
                      NEW j \in 1..Len(hist'[s]), i <= j
               PROVE  hist'[s][i].at <= now /\ hist'[s][i].at <= hist'[s][j].at
    BY <1>0 DEF HistoryOrdered
  <2>1. CASE i > Len(hist[s])
    BY <1>0, <1>1, <2>1
  <2>2. CASE i <= Len(hist[s])
    <3>1. i \in 1..Len(hist[s]) /\ hist'[s][i] = hist[s][i]
      BY <1>1, <2>2
    <3>2. CASE j <= Len(hist[s])
      <4>1. j \in 1..Len(hist[s]) /\ hist'[s][j] = hist[s][j]
        BY <1>1, <3>2
      <4> QED BY <3>1, <4>1 DEF Fresh, HistoryOrdered
    <3>3. CASE j > Len(hist[s])
      BY <1>0, <1>1, <3>1, <3>3 DEF Fresh, HistoryOrdered
    <3> QED BY <1>1, <3>2, <3>3
  <2> QED BY <1>1, <2>1, <2>2
<1>3. EventsAnchored'
  <2>1. ASSUME NEW e \in sent
        PROVE  /\ e.kind = "subscription" =>
                     e.ver > 0 /\ hist'[e.sub][e.ver].at = e.at
               /\ e.kind \in {"checkout", "invoice"} => Len(hist'[e.sub]) > 0
    <3>1. e.sub \in Subs /\ e.ver \in Nat /\ e.ver <= Len(hist[e.sub])
      BY DEF Typed, TypeOK, EventsInHistory, Event
    <3>2. e.ver > 0 => hist'[e.sub][e.ver] = hist[e.sub][e.ver]
      BY <1>1, <3>1
    <3> QED BY <1>1, <3>1, <3>2 DEF Fresh, EventsAnchored
  <2> QED BY <2>1 DEF GatewayEffect, NewEvent, EventsAnchored
<1>4. JobsFresh'
  <2> SUFFICES ASSUME NEW w \in Workers, NEW q, q = proc[w],
                      q.pc \in {"begin", "write", "count", "commit"},
                      q.job.kind # "setup"
               PROVE  /\ q.got > 0 /\ q.stamp = q.job.at
                      /\ \A i \in 1..Len(hist'[q.job.sub]) :
                            hist'[q.job.sub][i].at < q.stamp => i <= q.got
    BY <1>0 DEF JobsFresh, FreshJob
  <2>1. /\ q.got > 0 /\ q.stamp = q.job.at
        /\ \A i \in 1..Len(hist[q.job.sub]) :
              hist[q.job.sub][i].at < q.stamp => i <= q.got
    BY DEF Fresh, JobsFresh, FreshJob
  <2>2. q.job.sub \in Subs /\ q.job.at \in Nat /\ q.job.at <= now
    BY DEF Typed, TypeOK, WorkersServeEvents, Event, Once, SentInPast
  <2>3. ASSUME NEW i \in 1..Len(hist'[q.job.sub]), hist'[q.job.sub][i].at < q.stamp
        PROVE  i <= q.got
    <3>1. ~ (i > Len(hist[q.job.sub]))
      BY <1>0, <1>1, <2>1, <2>2, <2>3
    <3>2. i \in 1..Len(hist[q.job.sub])
      BY <1>1, <2>2, <3>1
    <3> QED BY <1>1, <2>1, <2>2, <2>3, <3>2
  <2> QED BY <2>1, <2>3
<1>5. SyncOff' /\ RowsInPast'
  BY <1>0 DEF Fresh, SyncOff, RowsInPast, Known
<1>6. DiscardsAreStale'
  <2> SUFFICES ASSUME NEW s \in Subs, Known(s), NEW i \in 1..Len(hist'[s]),
                      hist'[s][i].at < row[s].synced
               PROVE  i <= row[s].ver
    BY <1>0 DEF DiscardsAreStale, Known
  <2>1. row[s].synced <= now /\ row[s].synced \in Nat
    BY DEF Fresh, RowsInPast, Typed, TypeOK, Row
  <2>2. ~ (i > Len(hist[s]))
    BY <1>0, <1>1, <2>1
  <2>3. i \in 1..Len(hist[s])
    BY <1>1, <2>2
  <2> QED BY <1>1, <2>3 DEF Fresh, DiscardsAreStale
<1> QED BY <1>2, <1>3, <1>4, <1>5, <1>6 DEF Fresh

LEMMA FreshStep ==
    ASSUME ~ SyncEnabled
    PROVE  Typed /\ Once /\ Fresh /\ [Next]_vars => Fresh'
<1> SUFFICES ASSUME Typed, Once, Fresh, [Next]_vars PROVE Fresh'
  OBVIOUS
<1> USE DEF gateway, database
<1>1. CASE Tick
  <2>1. /\ now \in Nat /\ now' = now + 1 /\ TypeOK
        /\ UNCHANGED <<hist, sent, row, proc>>
    BY <1>1, TimesAssumption DEF Tick, Typed, TypeOK
  <2>2. HistoryOrdered'
    <3> SUFFICES ASSUME NEW s \in Subs, NEW i \in 1..Len(hist[s])
                 PROVE  hist[s][i].at <= now + 1
      BY <2>1 DEF Fresh, HistoryOrdered
    <3>1. hist[s] \in Seq(Version)
      BY <2>1 DEF TypeOK
    <3>2. hist[s][i] \in Version
      BY <3>1, ElementOfSeq
    <3>3. hist[s][i].at \in Nat
      BY <3>2 DEF Version
    <3> QED BY <2>1, <3>3 DEF Fresh, HistoryOrdered
  <2>3. RowsInPast'
    <3>1. \A s \in Subs : row[s].synced \in Nat
      BY <2>1 DEF TypeOK, Row
    <3> QED BY <2>1, <3>1 DEF Fresh, RowsInPast, Known
  <2> QED
    BY <2>1, <2>2, <2>3
    DEF Fresh, EventsAnchored, JobsFresh, FreshJob, SyncOff, DiscardsAreStale, Known
<1>2. CASE UNCHANGED vars
  BY <1>2 DEF vars, Fresh, HistoryOrdered, EventsAnchored, JobsFresh, FreshJob,
              SyncOff, RowsInPast, DiscardsAreStale, Known
<1>3. ASSUME NEW w \in Workers, Webhook(w) PROVE Fresh'
  BY <1>3, WebhookFresh
<1>4. ASSUME NEW p \in Procs, Transaction(p) \/ Fail(p) PROVE Fresh'
  BY <1>4, TransactionFresh
<1>5. CASE GatewayStep
  BY <1>5, GatewayOnlyGrows, GatewayFresh
<1>6. CASE Purge \/ \E u \in Users : unlinkStripeCustomer(u)
  BY <1>6 DEF Purge, unlinkStripeCustomer, Fresh, HistoryOrdered,
              EventsAnchored, JobsFresh, FreshJob, SyncOff, RowsInPast,
              DiscardsAreStale, Known
<1>7. ASSUME NEW u \in Users, anonymizeUser(u) PROVE Fresh'
  <2>1. UNCHANGED <<now, hist, sent, proc>>
    BY <1>7 DEF anonymizeUser
  <2>2. \A s \in Subs : row'[s] = row[s] \/ row'[s].ver = 0
    BY <1>7 DEF anonymizeUser, NoRow
  <2> QED
    BY <2>1, <2>2 DEF Fresh, HistoryOrdered, EventsAnchored, JobsFresh, FreshJob,
                      SyncOff, RowsInPast, DiscardsAreStale, Known
<1>8. CASE Reconciler
  BY <1>8 DEF Reconciler, PickStale, StartScan, RetrieveStale, StampStale,
              ListOrphan, Adopt, Fresh, SyncOff
<1> QED
  BY <1>1, <1>2, <1>3, <1>4, <1>5, <1>6, <1>7, <1>8
  DEF Next, GatewayStep, Erasure

(* With the webhooks alone, the ordering check of applyLocalMutations      *)
(* never throws away news: whatever the order of delivery and however the  *)
(* requests interleave, an event older than a row's lastSyncedAt is about  *)
(* a version the row already includes.                                     *)
THEOREM OrderingDiscardsOnlyStale ==
    ASSUME ~ SyncEnabled PROVE Spec => []DiscardsAreStale
<1>1. Fresh => DiscardsAreStale
  BY DEF Fresh
<1> QED
  BY <1>1, TypedInit, TypedStep, OnceInit, OnceStep, FreshInit, FreshStep, PTL
  DEF Spec

-----------------------------------------------------------------------------
(* What an upsert may take away.  Two actions write the table: a COMMIT,   *)
(* and the anonymization, which empties a row.                             *)

LEMMA RowWriters ==
    ASSUME [Next]_vars
    PROVE  \/ UNCHANGED row
           \/ \E p \in Procs : Commit(p)
           \/ \E u \in Users : anonymizeUser(u)
<1> USE DEF gateway, database
<1>1. CASE Tick \/ UNCHANGED vars \/ Purge
  BY <1>1 DEF Tick, Purge, vars
<1>2. ASSUME NEW w \in Workers, Webhook(w) PROVE UNCHANGED row
  BY <1>2 DEF Webhook, Receive, applyExternalEffects, Duplicate, Begin, Discard
<1>3. ASSUME NEW p \in Procs, Transaction(p) \/ Fail(p), ~ Commit(p)
      PROVE  UNCHANGED row
  BY <1>3 DEF Transaction, Write, Recount, Fail
<1>4. CASE Reconciler
  BY <1>4 DEF Reconciler, PickStale, StartScan, RetrieveStale, StampStale,
              ListOrphan, Adopt
<1>5. ASSUME NEW s \in Subs, Gateway(s) PROVE UNCHANGED row
  BY <1>5 DEF Gateway, createCheckoutSession, CompleteCheckout,
              createSubscriptionIntent, ConfirmSetup, GatewayChange, EmitInvoice
<1>6. ASSUME NEW u \in Users, Erasure(u), ~ anonymizeUser(u)
      PROVE  UNCHANGED row
  BY <1>6 DEF Erasure, terminateBillingForUser, unlinkStripeCustomer
<1> QED BY <1>1, <1>2, <1>3, <1>4, <1>5, <1>6 DEF Next

\* Whatever its job, a transaction leaves a recorded card where it was.
LEMMA WrittenKeepsCard ==
    ASSUME Typed, NEW p \in Procs, NEW s \in Subs, row[s].card
    PROVE  Written(p, s).card
<1>1. row[s] \in Row
  BY DEF Typed, TypeOK
<1>2. CASE proc[p].job.kind = "setup"
  BY <1>1, <1>2 DEF Written, Row
<1>3. CASE proc[p].job.kind # "setup" /\ proc[p].got = 0
  BY <1>1, <1>3 DEF Written, Row
<1>4. CASE proc[p].job.kind # "setup" /\ proc[p].got # 0
  BY <1>4 DEF Written, KeptCard
<1> QED BY <1>2, <1>3, <1>4

LEMMA CardStays ==
    ASSUME Typed, [Next]_vars, NEW s \in Subs, row[s].card, row'[s].ver > 0
    PROVE  row'[s].card
<1>1. CASE UNCHANGED row
  BY <1>1
<1>2. ASSUME NEW p \in Procs, Commit(p) PROVE row'[s].card
  <2>1. row'[s] = row[s] \/ row'[s] = Written(p, s)
    BY <1>2 DEF Commit, View
  <2> QED BY <2>1, WrittenKeepsCard
<1>3. ASSUME NEW u \in Users, anonymizeUser(u) PROVE row'[s].card
  <2>1. row'[s] = row[s] \/ row'[s].ver = 0
    BY <1>3 DEF anonymizeUser, NoRow
  <2> QED BY <2>1
<1> QED BY <1>1, <1>2, <1>3, RowWriters

(* The card of a trial, once recorded, is there as long as the row is:     *)
(* whatever payload comes next, from a webhook or from the reconciler, in  *)
(* whatever order, upsertSubscriptionTx does not write it away.            *)
THEOREM CardIsSticky == Spec => CardNeverLost
<1>1. Typed /\ [Next]_vars =>
        [\A s \in Subs : row[s].card /\ row'[s].ver > 0 => row'[s].card]_vars
  BY CardStays
<1> QED BY <1>1, TypedInit, TypedStep, PTL DEF Spec, CardNeverLost

-----------------------------------------------------------------------------
(* recalculateUserPremiumTx for an account with one subscription.  The     *)
(* row the transaction wrote is locked until it commits, so what it        *)
(* counted is what it leaves.                                              *)

NoSetup ==
    /\ \A e \in sent : e.kind # "setup"
    /\ \A p \in Procs : proc[p].job.kind # "setup"

\* A transaction holds its row from the write to the commit, alone.
LocksHeld ==
    /\ \A p \in Procs : proc[p].locks =
           IF proc[p].pc \in {"count", "commit"} THEN {proc[p].job.sub} ELSE {}
    /\ \A p, q \in Procs : p # q => proc[p].locks \cap proc[q].locks = {}

\* A row that is canceled because the gateway has lost it is there.
MissingIsKnown ==
    \A p \in Procs :
        proc[p].pc \in {"count", "commit"} /\ proc[p].got = 0
        => Known(proc[p].job.sub)

\* A row that is not there has no card, and one that is has a history.
RowsReal ==
    \A s \in Subs : IF Known(s) THEN Opened(s) ELSE ~ row[s].card

\* Whether the row q leaves in the place of r grants premium.
Grants(q, h, r) ==
    /\ q.got > 0
    /\ \/ h[q.got].status \in {"active", "past_due"}
       \/ h[q.got].status = "trialing" /\ (q.card \/ r.card)

\* What was counted is what will be written.
Counted ==
    \A p \in Procs : proc[p].pc = "commit" =>
        LET s == proc[p].job.sub IN
        proc[p].prem <=> Grants(proc[p], hist[s], row[s])

Premium ==
    /\ NoSetup /\ LocksHeld /\ MissingIsKnown /\ RowsReal /\ Counted
    /\ PremiumMatchesRows

OneEach == \A s, t \in Subs : Owner[s] = Owner[t] => s = t

LEMMA WrittenGrants ==
    ASSUME Typed, NEW p \in Procs, NEW s \in Subs, s = proc[p].job.sub,
           proc[p].job.kind # "setup"
    PROVE  Granting(Written(p, s)) <=> Grants(proc[p], hist[s], row[s])
<1>1. row[s] \in Row /\ hist[s] \in Seq(Version) /\ proc[p] \in Proc
  BY DEF Typed, TypeOK
<1>2. CASE proc[p].got = 0
  <2>1. Written(p, s).status = "CANCELED"
    BY <1>1, <1>2 DEF Written, Row
  <2> QED BY <1>2, <2>1 DEF Granting, Grants
<1>3. CASE proc[p].got # 0
  <2> DEFINE v == hist[s][proc[p].got]
  <2>1. proc[p].got \in 1..Len(hist[s])
    BY <1>1, <1>3 DEF Proc, Typed, JobsInHistory
  <2>2. v \in Version
    BY <1>1, <2>1, ElementOfSeq
  <2>3. v.status \in GatewayStatus
    BY <2>2 DEF Version
  <2>4. /\ Written(p, s).ver = proc[p].got
        /\ Written(p, s).status = mapStatus[v.status]
        /\ Written(p, s).card = KeptCard(p, s)
    BY <1>3 DEF Written
  <2> HIDE DEF v
  <2>5. /\ mapStatus[v.status] = "ACTIVE" <=> v.status = "active"
        /\ mapStatus[v.status] = "PAST_DUE" <=> v.status = "past_due"
        /\ mapStatus[v.status] = "TRIALING" <=> v.status = "trialing"
    BY <2>3 DEF mapStatus, GatewayStatus
  <2>6. proc[p].got > 0 /\ v = hist[s][proc[p].got]
    BY <2>1 DEF v
  <2> QED BY <2>4, <2>5, <2>6 DEF Granting, Grants, KeptCard
<1> QED BY <1>2, <1>3

\* What p may become when it writes no table.
Fits(p, q) ==
    /\ q.job.kind # "setup"
    /\ q.locks = IF q.pc \in {"count", "commit"} THEN {q.job.sub} ELSE {}
    /\ \A r \in Procs \ {p} : q.locks \cap proc[r].locks = {}
    /\ q.pc \in {"count", "commit"} /\ q.got = 0 => Known(q.job.sub)
    /\ q.pc = "commit" =>
           (q.prem <=> Grants(q, hist[q.job.sub], row[q.job.sub]))

LEMMA PremiumRequest ==
    ASSUME Typed, Premium, NEW p \in Procs, NEW q, Fits(p, q),
           proc' = [proc EXCEPT ![p] = q],
           UNCHANGED <<hist, sent, row, isPremium>>
    PROVE  Premium'
<1>1. \A r \in Procs : proc'[r] = IF r = p THEN q ELSE proc[r]
  BY DEF Typed, TypeOK
<1>2. NoSetup'
  BY <1>1 DEF Fits, Premium, NoSetup
<1>3. LocksHeld'
  <2>1. \A r \in Procs : proc'[r].locks =
           IF proc'[r].pc \in {"count", "commit"} THEN {proc'[r].job.sub} ELSE {}
    BY <1>1 DEF Fits, Premium, LocksHeld
  <2>2. \A r, t \in Procs : r # t => proc'[r].locks \cap proc'[t].locks = {}
    BY <1>1 DEF Fits, Premium, LocksHeld
  <2> QED BY <2>1, <2>2 DEF LocksHeld
<1>4. MissingIsKnown'
  BY <1>1 DEF Fits, Premium, MissingIsKnown, Known
<1>5. RowsReal' /\ PremiumMatchesRows'
  BY DEF Premium, RowsReal, Known, Opened, PremiumMatchesRows
<1>6. Counted'
  BY <1>1 DEF Fits, Premium, Counted
<1> QED BY <1>2, <1>3, <1>4, <1>5, <1>6 DEF Premium

\* A step outside the transaction's two locked states holds nothing.
LEMMA Unlocked ==
    ASSUME NEW p, NEW q, q.pc \notin {"count", "commit"}, q.locks = {},
           q.job.kind # "setup"
    PROVE  Fits(p, q)
BY DEF Fits

LEMMA IdleFits == ASSUME NEW p PROVE Fits(p, Idle)
BY Unlocked DEF Idle, NoJob

LEMMA WebhookPremium ==
    ASSUME Typed, Premium, NEW w \in Workers, Webhook(w) PROVE Premium'
<1> USE DEF gateway, database
<1>0. /\ w \in Procs /\ proc[w] \in Proc /\ TypeOK
      /\ proc[w].job.kind # "setup"
      /\ proc[w].pc \notin {"count", "commit"} => proc[w].locks = {}
  BY DEF Procs, Typed, TypeOK, Premium, NoSetup, LocksHeld
<1>1. CASE Receive(w)
  <2>1. PICK e \in sent : proc' = [proc EXCEPT ![w] =
           [Idle EXCEPT !.pc = "external", !.job = e, !.since = now]]
    BY <1>1 DEF Receive
  <2> DEFINE q == [Idle EXCEPT !.pc = "external", !.job = e, !.since = now]
  <2>2. q.pc = "external" /\ q.job = e /\ q.locks = {}
    <3>1. Idle \in Proc /\ Idle.locks = {}
      BY NoJobType DEF Idle
    <3> HIDE DEF Idle
    <3> QED BY <3>1 DEF Proc
  <2> HIDE DEF q
  <2>3. Fits(w, q)
    BY <2>2, Unlocked DEF Premium, NoSetup
  <2> QED BY <1>0, <1>1, <2>1, <2>3, PremiumRequest DEF Receive, q
<1>2. CASE applyExternalEffects(w)
  <2> DEFINE e == proc[w].job
             g == IF e.kind \in {"checkout", "invoice"} THEN Len(hist[e.sub])
                  ELSE e.ver
             card == g > 0 /\ hist[e.sub][g].card
             q == [proc[w] EXCEPT !.pc = "begin", !.got = g, !.card = card,
                                  !.stamp = EventStamp(e)]
  <2>1. proc' = [proc EXCEPT ![w] = q]
    BY <1>0, <1>2 DEF applyExternalEffects, TypeOK
  <2>2. q.pc = "begin" /\ q.job = proc[w].job /\ q.locks = proc[w].locks
    <3> HIDE DEF g, card
    <3> QED BY <1>0 DEF Proc
  <2> HIDE DEF q
  <2>3. Fits(w, q)
    BY <1>0, <1>2, <2>2, Unlocked DEF applyExternalEffects
  <2> QED BY <1>0, <1>2, <2>1, <2>3, PremiumRequest DEF applyExternalEffects
<1>3. CASE Duplicate(w) \/ Discard(w)
  BY <1>0, <1>3, IdleFits, PremiumRequest DEF Duplicate, Discard
<1>4. CASE Begin(w)
  <2> DEFINE q == [proc[w] EXCEPT !.pc = "write"]
  <2>1. proc' = [proc EXCEPT ![w] = q]
    BY <1>0, <1>4 DEF Begin, TypeOK
  <2>2. q.pc = "write" /\ q.job = proc[w].job /\ q.locks = proc[w].locks
    BY <1>0 DEF Proc
  <2> HIDE DEF q
  <2>3. Fits(w, q)
    BY <1>0, <1>4, <2>2, Unlocked DEF Begin
  <2> QED BY <1>0, <1>4, <2>1, <2>3, PremiumRequest DEF Begin
<1> QED BY <1>1, <1>2, <1>3, <1>4 DEF Webhook

LEMMA ReconcilerPremium == ASSUME Typed, Premium, Reconciler PROVE Premium'
<1> USE DEF gateway, database
<1>0. /\ Sync \in Procs /\ proc[Sync] \in Proc /\ TypeOK
      /\ proc[Sync].job.kind # "setup"
      /\ proc[Sync].pc \notin {"count", "commit"} => proc[Sync].locks = {}
  BY DEF Procs, Typed, TypeOK, Premium, NoSetup, LocksHeld
<1>1. Idle \in Proc /\ Idle.locks = {}
  BY NoJobType DEF Idle
<1>2. UNCHANGED <<hist, sent, row, isPremium>>
  BY DEF Reconciler, PickStale, StartScan, RetrieveStale, StampStale,
         ListOrphan, Adopt
<1> SUFFICES ASSUME NEW q, proc' = [proc EXCEPT ![Sync] = q],
                    q.pc \notin {"count", "commit"}, q.locks = {},
                    q.job.kind # "setup"
             PROVE  Premium'
  <2>0. \A q : /\ proc' = [proc EXCEPT ![Sync] = q]
               /\ q.pc \notin {"count", "commit"} /\ q.locks = {}
               /\ q.job.kind # "setup"
               => Premium'
    OBVIOUS
  <2>6. proc' = [proc EXCEPT ![Sync] = Idle] => Premium'
    <3>1. Idle.pc = "idle" /\ Idle.job.kind = "idle"
      BY DEF Idle, NoJob
    <3> HIDE DEF Idle
    <3> QED BY <1>1, <2>0, <3>1
  <2>1. ASSUME NEW s \in Subs, PickStale(s) \/ StartScan(s) PROVE Premium'
    <3> HIDE DEF Idle
    <3>1. CASE PickStale(s)
      <4> DEFINE q == [Idle EXCEPT !.pc = "external", !.since = now,
                                   !.job = SyncJob("sync", s)]
      <4>1. q.pc = "external" /\ q.locks = {} /\ q.job.kind = "sync"
        BY <1>1 DEF Proc, SyncJob
      <4>2. proc' = [proc EXCEPT ![Sync] = q]
        BY <3>1 DEF PickStale
      <4> HIDE DEF q
      <4> QED BY <2>0, <4>1, <4>2
    <3>2. CASE StartScan(s)
      <4> DEFINE q == [Idle EXCEPT !.pc = "external", !.since = now,
                                   !.job = SyncJob("adopt", s), !.stamp = now]
      <4>1. q.pc = "external" /\ q.locks = {} /\ q.job.kind = "adopt"
        BY <1>1 DEF Proc, SyncJob
      <4>2. proc' = [proc EXCEPT ![Sync] = q]
        BY <3>2 DEF StartScan
      <4> HIDE DEF q
      <4> QED BY <2>0, <4>1, <4>2
    <3> QED BY <2>1, <3>1, <3>2
  <2>2. CASE RetrieveStale
    <3>1. PICK g : proc' = [proc EXCEPT ![Sync].pc = "stamp", ![Sync].got = g,
                    ![Sync].card = g > 0 /\ hist[proc[Sync].job.sub][g].card]
      BY <2>2 DEF RetrieveStale
    <3> DEFINE card == g > 0 /\ hist[proc[Sync].job.sub][g].card
               q == [proc[Sync] EXCEPT !.pc = "stamp", !.got = g, !.card = card]
    <3>2. q.pc = "stamp" /\ q.job = proc[Sync].job /\ q.locks = proc[Sync].locks
      BY <1>0 DEF Proc
    <3>3. proc' = [proc EXCEPT ![Sync] = q]
      BY <1>0, <3>1 DEF TypeOK
    <3>4. proc[Sync].pc = "external"
      BY <2>2 DEF RetrieveStale
    <3> HIDE DEF q
    <3> QED BY <1>0, <2>0, <3>2, <3>3, <3>4
  <2>3. CASE StampStale
    <3> DEFINE q == [proc[Sync] EXCEPT !.pc = "write", !.stamp = now]
    <3>1. q.pc = "write" /\ q.job = proc[Sync].job /\ q.locks = proc[Sync].locks
      BY <1>0 DEF Proc
    <3>2. proc' = [proc EXCEPT ![Sync] = q] /\ proc[Sync].pc = "stamp"
      BY <1>0, <2>3 DEF StampStale, TypeOK
    <3> HIDE DEF q
    <3> QED BY <1>0, <2>0, <3>1, <3>2
  <2>4. CASE ListOrphan
    <3> DEFINE s == proc[Sync].job.sub
               card == Last(s).card \/ custCard[Owner[s]]
               q == [proc[Sync] EXCEPT !.pc = "begin", !.got = Len(hist[s]),
                                       !.card = card]
    <3>1. q.pc = "begin" /\ q.job = proc[Sync].job /\ q.locks = proc[Sync].locks
      BY <1>0 DEF Proc
    <3>2. /\ proc[Sync].pc = "external"
          /\ \/ proc' = [proc EXCEPT ![Sync] = q]
             \/ proc' = [proc EXCEPT ![Sync] = Idle]
      BY <1>0, <2>4 DEF ListOrphan, TypeOK
    <3> HIDE DEF q, Idle
    <3> QED BY <1>0, <2>0, <2>6, <3>1, <3>2
  <2>5. CASE Adopt
    <3> DEFINE q == [proc[Sync] EXCEPT !.pc = "write"]
    <3>1. q.pc = "write" /\ q.job = proc[Sync].job /\ q.locks = proc[Sync].locks
      BY <1>0 DEF Proc
    <3>2. /\ proc[Sync].pc = "begin"
          /\ \/ proc' = [proc EXCEPT ![Sync] = q]
             \/ proc' = [proc EXCEPT ![Sync] = Idle]
      BY <1>0, <2>5 DEF Adopt, TypeOK
    <3> HIDE DEF q, Idle
    <3> QED BY <1>0, <2>0, <2>6, <3>1, <3>2
  <2> QED BY <2>1, <2>2, <2>3, <2>4, <2>5 DEF Reconciler
<1>3. Fits(Sync, q)
  BY Unlocked
<1> QED BY <1>0, <1>2, <1>3, PremiumRequest

LEMMA WritePremium ==
    ASSUME Typed, Premium, NEW p \in Procs, Write(p) PROVE Premium'
<1> USE DEF gateway, database
<1>0. /\ proc[p] \in Proc /\ TypeOK /\ proc[p].job.kind # "setup"
      /\ proc[p].got \in Nat
  BY DEF Typed, TypeOK, Premium, NoSetup, Proc
<1> DEFINE q == [proc[p] EXCEPT !.pc = "count", !.locks = Targets(p)]
<1>1. proc' = [proc EXCEPT ![p] = q]
  BY <1>0 DEF Write, TypeOK
<1>2. Targets(p) = {proc[p].job.sub}
  BY <1>0 DEF Targets
<1>3. /\ q.pc = "count" /\ q.job = proc[p].job /\ q.got = proc[p].got
      /\ q.locks = {proc[p].job.sub}
  BY <1>0, <1>2 DEF Proc
<1> HIDE DEF q
<1>4. \A r \in Procs \ {p} : q.locks \cap proc[r].locks = {}
  BY <1>2, <1>3 DEF Write
<1>5. q.got = 0 => Known(q.job.sub)
  BY <1>2, <1>3 DEF Write
<1>6. Fits(p, q)
  BY <1>0, <1>3, <1>4, <1>5 DEF Fits
<1> QED BY <1>1, <1>6, PremiumRequest DEF Write

\* The COUNT of the owner's only row, under the transaction's own write.
LEMMA RecountPremium ==
    ASSUME OneEach, Typed, Premium, NEW p \in Procs, Recount(p) PROVE Premium'
<1> USE DEF gateway, database
<1> DEFINE s == proc[p].job.sub
           prem == \E t \in OwnedBy(Owner[s]) : Granting(View(p)[t])
           q == [proc[p] EXCEPT !.pc = "commit", !.prem = prem]
<1>0. /\ proc[p] \in Proc /\ TypeOK /\ proc[p].job.kind # "setup"
      /\ proc[p].locks = {s} /\ s \in Subs
      /\ proc[p].got = 0 => Known(s)
      /\ \A r \in Procs \ {p} : proc[p].locks \cap proc[r].locks = {}
  BY DEF Typed, TypeOK, Premium, NoSetup, Proc, Job, LocksHeld, MissingIsKnown,
         Recount
<1>1. proc' = [proc EXCEPT ![p] = q]
  BY <1>0 DEF Recount, TypeOK
<1>2. OwnedBy(Owner[s]) = {s}
  BY <1>0 DEF OneEach, OwnedBy
<1>3. prem <=> Grants(proc[p], hist[s], row[s])
  <2>1. View(p)[s] = Written(p, s)
    BY <1>0 DEF View
  <2>2. prem <=> Granting(Written(p, s))
    BY <1>2, <2>1
  <2> HIDE DEF prem
  <2> QED BY <1>0, <2>2, WrittenGrants
<1>4. prem \in BOOLEAN
  OBVIOUS
<1>5. /\ q.pc = "commit" /\ q.job = proc[p].job /\ q.got = proc[p].got
      /\ q.locks = proc[p].locks /\ q.card = proc[p].card /\ q.prem = prem
  <2> HIDE DEF prem
  <2> QED BY <1>0, <1>4 DEF Proc
<1> HIDE DEF q, prem
<1>6. Grants(q, hist[s], row[s]) <=> Grants(proc[p], hist[s], row[s])
  BY <1>5 DEF Grants
<1>7. Fits(p, q)
  BY <1>0, <1>3, <1>5, <1>6 DEF Fits
<1> QED BY <1>1, <1>7, PremiumRequest DEF Recount

\* COMMIT: the flag is set to what the row now says, and no other row moves.
LEMMA CommitPremium ==
    ASSUME OneEach, Typed, Premium, NEW p \in Procs, Commit(p) PROVE Premium'
<1> USE DEF gateway
<1> DEFINE s == proc[p].job.sub
<1>a. /\ proc[p] \in Proc /\ TypeOK /\ proc[p].job.kind # "setup"
      /\ proc[p].pc = "commit" /\ UNCHANGED <<hist, sent>>
  BY DEF Typed, TypeOK, Premium, NoSetup, Commit
<1>b. /\ s \in Subs /\ Owner[s] \in Users
      /\ proc[p].got \in Nat /\ proc[p].got <= Len(hist[s])
      /\ Len(hist[s]) \in Nat
  BY <1>a, OwnerAssumption DEF TypeOK, Proc, Job, Typed, JobsInHistory
<1>c. /\ proc[p].locks = {s}
      /\ proc[p].got = 0 => Known(s)
      /\ \A r \in Procs \ {p} : proc[p].locks \cap proc[r].locks = {}
  BY <1>a DEF Premium, LocksHeld, MissingIsKnown
<1>0. /\ proc[p] \in Proc /\ TypeOK /\ proc[p].job.kind # "setup"
      /\ proc[p].locks = {s} /\ s \in Subs /\ Owner[s] \in Users
      /\ proc[p].got \in Nat /\ proc[p].got <= Len(hist[s])
      /\ Len(hist[s]) \in Nat
      /\ proc[p].got = 0 => Known(s)
      /\ \A r \in Procs \ {p} : proc[p].locks \cap proc[r].locks = {}
      /\ proc[p].pc = "commit" /\ UNCHANGED <<hist, sent>>
  BY <1>a, <1>b, <1>c
<1>1. \A r \in Procs : proc'[r] = IF r = p THEN Idle ELSE proc[r]
  BY <1>0 DEF Commit, TypeOK
<1>2. /\ row'[s] = Written(p, s)
      /\ \A t \in Subs \ {s} : row'[t] = row[t]
  BY <1>0 DEF Commit, View
<1>3. Idle.pc = "idle" /\ Idle.locks = {} /\ Idle.job.kind = "idle"
  BY DEF Idle, NoJob
<1>4. \A r \in Procs \ {p} :
        /\ proc'[r] = proc[r]
        /\ proc[r].pc \in {"count", "commit"} =>
              /\ proc[r].job.sub \in Subs
              /\ row'[proc[r].job.sub] = row[proc[r].job.sub]
  <2> SUFFICES ASSUME NEW r \in Procs \ {p}
               PROVE  /\ proc'[r] = proc[r]
                      /\ proc[r].pc \in {"count", "commit"} =>
                            /\ proc[r].job.sub \in Subs
                            /\ row'[proc[r].job.sub] = row[proc[r].job.sub]
    OBVIOUS
  <2>1. proc[r].job.sub \in Subs
    BY <1>0 DEF TypeOK, Proc, Job
  <2>2. proc[r].pc \in {"count", "commit"} => proc[r].job.sub # s
    BY <1>0 DEF Premium, LocksHeld
  <2> QED BY <1>1, <1>2, <2>1, <2>2
<1>5. NoSetup'
  BY <1>0, <1>3, <1>1 DEF Premium, NoSetup
<1>6. LocksHeld'
  BY <1>1, <1>3 DEF Premium, LocksHeld
<1>7. MissingIsKnown'
  BY <1>1, <1>3, <1>4 DEF Premium, MissingIsKnown, Known
<1>8. row'[s].ver > 0 /\ Len(hist[s]) > 0
  <2>1. CASE proc[p].got = 0
    <3>1. row[s] \in Row /\ Len(hist[s]) > 0
      BY <1>0, <2>1 DEF TypeOK, Premium, RowsReal, Opened
    <3>2. Written(p, s).ver = Len(hist[s])
      BY <1>0, <2>1, <3>1 DEF Written, Row
    <3> QED BY <1>2, <3>1, <3>2
  <2>2. CASE proc[p].got # 0
    <3>1. Written(p, s).ver = proc[p].got
      BY <1>0, <2>2 DEF Written
    <3> QED BY <1>0, <1>2, <2>2, <3>1
  <2> QED BY <2>1, <2>2
<1>9. RowsReal'
  BY <1>0, <1>2, <1>8 DEF Premium, RowsReal, Known, Opened
<1>10. Counted'
  BY <1>0, <1>1, <1>3, <1>4 DEF Premium, Counted
<1>11. PremiumMatchesRows'
  <2> SUFFICES ASSUME NEW u \in Users
               PROVE  isPremium'[u] <=> \E t \in OwnedBy(u) : Granting(row'[t])
    BY DEF PremiumMatchesRows, OwnedBy
  <2>1. CASE u = Owner[s]
    <3>1. OwnedBy(u) = {s}
      BY <1>0, <2>1 DEF OneEach, OwnedBy
    <3>2. isPremium'[u] = proc[p].prem
      BY <1>0, <2>1 DEF Commit, TypeOK
    <3>3. proc[p].prem <=> Granting(Written(p, s))
      BY <1>0, WrittenGrants DEF Premium, Counted
    <3> QED BY <1>2, <3>1, <3>2, <3>3
  <2>2. CASE u # Owner[s]
    <3>1. isPremium'[u] = isPremium[u]
      BY <1>0, <2>2 DEF Commit, TypeOK
    <3>2. \A t \in OwnedBy(u) : row'[t] = row[t]
      BY <1>2, <2>2 DEF OwnedBy
    <3> QED BY <3>1, <3>2 DEF Premium, PremiumMatchesRows
  <2> QED BY <2>1, <2>2
<1> QED BY <1>5, <1>6, <1>7, <1>9, <1>10, <1>11 DEF Premium

\* anonymizeUserTx waits for the rows somebody is writing.
LEMMA AnonymizePremium ==
    ASSUME Typed, Premium, NEW u \in Users, anonymizeUser(u) PROVE Premium'
<1>0. /\ TypeOK /\ UNCHANGED <<hist, sent, proc>>
      /\ isPremium' = [isPremium EXCEPT ![u] = FALSE]
      /\ \A s \in Subs : row'[s] = IF Owner[s] = u THEN NoRow ELSE row[s]
      /\ \A p \in Procs : \A s \in proc[p].locks \cap OwnedBy(u) : ~ Known(s)
  BY DEF anonymizeUser, gateway, Typed
<1>1. NoRow.ver = 0 /\ ~ NoRow.card
  BY DEF NoRow
<1>2. ASSUME NEW p \in Procs, proc[p].pc \in {"count", "commit"},
             NEW s, s = proc[p].job.sub
      PROVE  /\ Known(s) => row'[s] = row[s]
             /\ row'[s].card <=> row[s].card
  <2>1. s \in Subs /\ s \in proc[p].locks
    BY <1>0, <1>2 DEF TypeOK, Proc, Job, Premium, LocksHeld
  <2>2. CASE Owner[s] = u
    <3>1. ~ Known(s)
      BY <1>0, <2>1, <2>2 DEF OwnedBy
    <3> QED BY <1>0, <1>1, <2>1, <2>2, <3>1 DEF Premium, RowsReal
  <2>3. CASE Owner[s] # u
    BY <1>0, <2>1, <2>3
  <2> QED BY <2>2, <2>3
<1>3. NoSetup' /\ LocksHeld'
  BY <1>0 DEF Premium, NoSetup, LocksHeld
<1>4. MissingIsKnown'
  BY <1>0, <1>2 DEF Premium, MissingIsKnown, Known
<1>5. RowsReal'
  BY <1>0, <1>1 DEF Premium, RowsReal, Known, Opened
<1>6. Counted'
  BY <1>0, <1>2 DEF Premium, Counted, Grants
<1>7. PremiumMatchesRows'
  <2> SUFFICES ASSUME NEW v \in Users
               PROVE  isPremium'[v] <=> \E t \in OwnedBy(v) : Granting(row'[t])
    BY DEF PremiumMatchesRows, OwnedBy
  <2>1. CASE v = u
    <3>1. \A t \in OwnedBy(v) : ~ Granting(row'[t])
      BY <1>0, <1>1, <2>1 DEF OwnedBy, Granting
    <3>2. ~ isPremium'[v]
      BY <1>0, <2>1 DEF TypeOK
    <3> QED BY <3>1, <3>2
  <2>2. CASE v # u
    <3>1. isPremium'[v] = isPremium[v] /\ \A t \in OwnedBy(v) : row'[t] = row[t]
      BY <1>0, <2>2 DEF OwnedBy, TypeOK
    <3> QED BY <3>1 DEF Premium, PremiumMatchesRows
  <2> QED BY <2>1, <2>2
<1> QED BY <1>3, <1>4, <1>5, <1>6, <1>7 DEF Premium

LEMMA SentKinds ==
    ASSUME GatewayStep PROVE \A e \in sent' \ sent : e.kind \in Kinds
<1>1. ASSUME NEW s \in Subs, Gateway(s)
      PROVE  \A e \in sent' \ sent : e.kind \in Kinds
  BY <1>1 DEF Gateway, createCheckoutSession, CompleteCheckout,
              createSubscriptionIntent, ConfirmSetup, GatewayChange, EmitInvoice,
              Emit
<1>2. ASSUME NEW u \in Users, terminateBillingForUser(u)
      PROVE  \A e \in sent' \ sent : e.kind \in Kinds
  BY <1>2 DEF terminateBillingForUser, Emit
<1> QED BY <1>1, <1>2 DEF GatewayStep

LEMMA GatewayPremium ==
    ASSUME "setup" \notin Kinds, Typed, Premium, GatewayStep PROVE Premium'
<1>0. GatewayEffect /\ UNCHANGED <<row, isPremium, proc>> /\ TypeOK
  BY GatewayOnlyGrows DEF GatewayEffect, Typed
<1>1. NoSetup'
  BY <1>0, SentKinds DEF Premium, NoSetup
<1>2. \A s \in Subs :
        /\ Len(hist[s]) \in Nat /\ Len(hist'[s]) \in Nat
        /\ Len(hist[s]) <= Len(hist'[s])
        /\ \A i \in 1..Len(hist[s]) : hist'[s][i] = hist[s][i]
  BY <1>0, HistoryExtends
<1>3. LocksHeld' /\ MissingIsKnown' /\ PremiumMatchesRows'
  BY <1>0 DEF Premium, LocksHeld, MissingIsKnown, Known, PremiumMatchesRows
<1>4. RowsReal'
  BY <1>0, <1>2 DEF Premium, RowsReal, Known, Opened
<1>5. Counted'
  <2> SUFFICES ASSUME NEW p \in Procs, proc[p].pc = "commit",
                      NEW s, s = proc[p].job.sub
               PROVE  proc[p].prem <=> Grants(proc[p], hist'[s], row[s])
    BY <1>0 DEF Counted
  <2>1. s \in Subs /\ proc[p].got \in Nat /\ proc[p].got <= Len(hist[s])
    BY <1>0 DEF TypeOK, Proc, Job, Typed, JobsInHistory
  <2>2. proc[p].got > 0 => hist'[s][proc[p].got] = hist[s][proc[p].got]
    BY <1>2, <2>1
  <2>3. Grants(proc[p], hist'[s], row[s]) <=> Grants(proc[p], hist[s], row[s])
    BY <2>1, <2>2 DEF Grants
  <2> QED BY <2>3 DEF Premium, Counted
<1> QED BY <1>1, <1>3, <1>4, <1>5 DEF Premium

LEMMA PremiumInit == Init => Premium
<1> SUFFICES ASSUME Init PROVE Premium
  OBVIOUS
<1>1. \A p \in Procs : /\ proc[p].pc = "idle" /\ proc[p].locks = {}
                       /\ proc[p].job.kind = "idle"
  BY DEF Init, Idle, NoJob
<1>2. \A s \in Subs : row[s].ver = 0 /\ ~ row[s].card
  BY DEF Init, NoRow
<1>3. \A s \in Subs : ~ Known(s) /\ ~ Granting(row[s])
  BY <1>2 DEF Known, Granting
<1>4. \A u \in Users : ~ isPremium[u] /\ \A s \in OwnedBy(u) : s \in Subs
  BY DEF Init, OwnedBy
<1>5. sent = {}
  BY DEF Init
<1> QED
  BY <1>1, <1>2, <1>3, <1>4, <1>5
  DEF Premium, NoSetup, LocksHeld, MissingIsKnown, RowsReal, Counted,
      PremiumMatchesRows

LEMMA PremiumStep ==
    ASSUME OneEach, "setup" \notin Kinds
    PROVE  Typed /\ Premium /\ [Next]_vars => Premium'
<1> SUFFICES ASSUME Typed, Premium, [Next]_vars PROVE Premium'
  OBVIOUS
<1> USE DEF gateway, database
<1>1. CASE Tick \/ UNCHANGED vars \/ Purge \/ \E u \in Users : unlinkStripeCustomer(u)
  <2>1. UNCHANGED <<hist, sent, row, isPremium, proc>>
    BY <1>1 DEF Tick, vars, Purge, unlinkStripeCustomer
  <2> QED
    BY <2>1 DEF Premium, NoSetup, LocksHeld, MissingIsKnown, RowsReal, Counted,
                PremiumMatchesRows, Known, Opened
<1>2. ASSUME NEW w \in Workers, Webhook(w) PROVE Premium'
  BY <1>2, WebhookPremium
<1>3. ASSUME NEW p \in Procs, Transaction(p) PROVE Premium'
  BY <1>3, WritePremium, RecountPremium, CommitPremium DEF Transaction
<1>4. ASSUME NEW p \in Procs, Fail(p) PROVE Premium'
  BY <1>4, IdleFits, PremiumRequest DEF Fail
<1>5. CASE GatewayStep
  BY <1>5, GatewayPremium
<1>6. ASSUME NEW u \in Users, anonymizeUser(u) PROVE Premium'
  BY <1>6, AnonymizePremium
<1>7. CASE Reconciler
  BY <1>7, ReconcilerPremium
<1> QED
  BY <1>1, <1>2, <1>3, <1>4, <1>5, <1>6, <1>7 DEF Next, GatewayStep, Erasure

(* For accounts with a single subscription, User.isPremium agrees with the *)
(* rows in every state, however webhooks, the reconciler and the eraser    *)
(* interleave: each recalculation counts a row nobody else can move before *)
(* the flag is written.  setup_intent.succeeded is left out, because its   *)
(* update locks nothing when the row is still another transaction's        *)
(* uncommitted insert; so are second subscriptions, whose rows two         *)
(* transactions write, each without seeing the other's.                    *)
THEOREM PremiumIsCounted ==
    ASSUME OneEach, "setup" \notin Kinds
    PROVE  Spec => []PremiumMatchesRows
<1>1. Premium => PremiumMatchesRows
  BY DEF Premium
<1> QED BY <1>1, TypedInit, TypedStep, PremiumInit, PremiumStep, PTL DEF Spec

-----------------------------------------------------------------------------
(* One webhook at a time, and no reconciler: what the check of isEventOlder *)
(* is worth when nothing happens between the check and the write.          *)

OneAtATime == ~ SyncEnabled /\ \A v, w \in Workers : v = w

\* Past its external phase.
Fetched(w) == proc[w].pc \in {"begin", "write", "count", "commit"}

LEMMA ReconcilerOff == ASSUME ~ SyncEnabled, Fresh PROVE ~ Reconciler
BY DEF Reconciler, PickStale, StartScan, RetrieveStale, StampStale, ListOrphan,
       Adopt, Fresh, SyncOff

\* Nobody but the request itself, or its failure, moves a request.
LEMMA WorkerMoves ==
    ASSUME ~ SyncEnabled, Typed, Fresh, [Next]_vars, NEW w \in Workers
    PROVE  proc'[w] = proc[w] \/ Webhook(w) \/ Transaction(w) \/ Fail(w)
<1> USE DEF gateway, database
<1>0. w \in Procs /\ TypeOK
  BY DEF Procs, Typed
<1>1. \A p \in Procs : \A q : proc' = [proc EXCEPT ![p] = q] /\ p # w
                         => proc'[w] = proc[w]
  BY <1>0 DEF TypeOK
<1>2. ASSUME NEW v \in Workers, Webhook(v), v # w PROVE proc'[w] = proc[w]
  <2>0. v \in Procs /\ proc[v] \in Proc
    BY <1>0 DEF Procs, TypeOK
  <2>1. \E q : proc' = [proc EXCEPT ![v] = q]
    <3>1. CASE Receive(v)
      BY <3>1 DEF Receive
    <3>2. CASE applyExternalEffects(v)
      <4> DEFINE e == proc[v].job
                 g == IF e.kind \in {"checkout", "invoice"}
                      THEN Len(hist[e.sub]) ELSE e.ver
                 q == [proc[v] EXCEPT !.pc = "begin", !.got = g,
                            !.card = g > 0 /\ hist[e.sub][g].card,
                            !.stamp = EventStamp(e)]
      <4>1. proc' = [proc EXCEPT ![v] = q]
        BY <1>0, <2>0, <3>2 DEF applyExternalEffects, TypeOK
      <4> HIDE DEF q
      <4> QED BY <4>1
    <3>3. CASE Duplicate(v) \/ Discard(v)
      BY <3>3 DEF Duplicate, Discard
    <3>4. CASE Begin(v)
      <4>1. proc' = [proc EXCEPT ![v] = [proc[v] EXCEPT !.pc = "write"]]
        BY <1>0, <2>0, <3>4 DEF Begin, TypeOK
      <4> QED BY <4>1
    <3> QED BY <1>2, <3>1, <3>2, <3>3, <3>4 DEF Webhook
  <2> QED BY <1>1, <1>2, <2>0, <2>1
<1>3. ASSUME NEW p \in Procs, Transaction(p) \/ Fail(p), p # w
      PROVE  proc'[w] = proc[w]
  <2>0. proc[p] \in Proc
    BY <1>0 DEF TypeOK
  <2>1. \E q : proc' = [proc EXCEPT ![p] = q]
    <3>1. CASE Commit(p) \/ Fail(p)
      BY <3>1 DEF Commit, Fail
    <3>2. CASE Write(p)
      <4>1. proc' = [proc EXCEPT ![p] =
                       [proc[p] EXCEPT !.pc = "count", !.locks = Targets(p)]]
        BY <1>0, <2>0, <3>2 DEF Write, TypeOK
      <4> QED BY <4>1
    <3>3. CASE Recount(p)
      <4> DEFINE q == [proc[p] EXCEPT !.pc = "commit", !.prem =
                        \E s \in OwnedBy(Owner[proc[p].job.sub]) :
                            Granting(View(p)[s])]
      <4>1. proc' = [proc EXCEPT ![p] = q]
        BY <1>0, <2>0, <3>3 DEF Recount, TypeOK
      <4> HIDE DEF q
      <4> QED BY <4>1
    <3> QED BY <1>3, <3>1, <3>2, <3>3 DEF Transaction
  <2> QED BY <1>1, <1>3, <2>1
<1>4. CASE GatewayStep
  BY <1>4, GatewayOnlyGrows DEF GatewayEffect
<1> QED
  BY <1>2, <1>3, <1>4, ReconcilerOff
  DEF Next, Tick, vars, Purge, Erasure, anonymizeUser, unlinkStripeCustomer,
      GatewayStep

\* A request that is past its external phase was there before, or went
\* through it in this step; its transaction goes on, or has just begun.
LEMMA JobSource ==
    ASSUME ~ SyncEnabled, Typed, Fresh, [Next]_vars, NEW w \in Workers, Fetched(w)'
    PROVE  /\ proc'[w].job = proc[w].job
           /\ \/ applyExternalEffects(w)
              \/ Fetched(w) /\ proc'[w].got = proc[w].got
           /\ InTx(w)' => InTx(w) \/ Begin(w)
           /\ proc'[w].pc \in {"count", "commit"} =>
                 \/ Write(w)
                 \/ /\ proc[w].pc \in {"count", "commit"}
                    /\ proc'[w].locks = proc[w].locks
<1> USE DEF gateway, database, Fetched, InTx
<1>0. w \in Procs /\ proc[w] \in Proc /\ TypeOK
  BY DEF Procs, Typed, TypeOK
<1>1. CASE proc'[w] = proc[w]
  BY <1>1
<1>2. CASE Receive(w)
  <2>1. PICK e \in sent : proc' = [proc EXCEPT ![w] =
           [Idle EXCEPT !.pc = "external", !.job = e, !.since = now]]
    BY <1>2 DEF Receive
  <2>2. proc'[w].pc = "external"
    BY <1>0, <2>1, NoJobType DEF TypeOK, Proc
  <2> QED BY <2>2
<1>3. CASE applyExternalEffects(w)
  <2> DEFINE e == proc[w].job
             g == IF e.kind \in {"checkout", "invoice"} THEN Len(hist[e.sub])
                  ELSE e.ver
             card == g > 0 /\ hist[e.sub][g].card
             q == [proc[w] EXCEPT !.pc = "begin", !.got = g, !.card = card,
                                  !.stamp = EventStamp(e)]
  <2>1. proc' = [proc EXCEPT ![w] = q]
    BY <1>0, <1>3 DEF applyExternalEffects, TypeOK
  <2>2. q.job = proc[w].job /\ q.pc = "begin"
    <3> HIDE DEF g, card
    <3> QED BY <1>0 DEF Proc
  <2> HIDE DEF q
  <2>3. proc'[w].job = proc[w].job /\ proc'[w].pc = "begin"
    BY <1>0, <2>1, <2>2 DEF TypeOK
  <2> QED BY <1>3, <2>3
<1>4. CASE Begin(w)
  <2>1. /\ proc'[w].job = proc[w].job /\ proc'[w].got = proc[w].got
        /\ proc[w].pc = "begin" /\ proc'[w].pc = "write"
    BY <1>0, <1>4 DEF Begin, TypeOK, Proc
  <2> QED BY <1>4, <2>1
<1>5. CASE Duplicate(w) \/ Discard(w) \/ Commit(w) \/ Fail(w)
  <2>1. proc'[w] = Idle
    BY <1>0, <1>5 DEF Duplicate, Discard, Commit, Fail, TypeOK
  <2> QED BY <2>1 DEF Idle
<1>6. CASE Write(w)
  <2>1. /\ proc'[w].job = proc[w].job /\ proc'[w].got = proc[w].got
        /\ proc[w].pc = "write"
    BY <1>0, <1>6 DEF Write, TypeOK, Proc
  <2> QED BY <1>6, <2>1
<1>7. CASE Recount(w)
  <2> DEFINE prem == \E s \in OwnedBy(Owner[proc[w].job.sub]) :
                         Granting(View(w)[s])
             q == [proc[w] EXCEPT !.pc = "commit", !.prem = prem]
  <2>1. /\ q.job = proc[w].job /\ q.got = proc[w].got
        /\ q.locks = proc[w].locks
    <3> HIDE DEF prem
    <3> QED BY <1>0 DEF Proc
  <2>2. proc' = [proc EXCEPT ![w] = q] /\ proc[w].pc = "count"
    BY <1>0, <1>7 DEF Recount, TypeOK
  <2> HIDE DEF q
  <2>3. proc'[w] = q
    BY <1>0, <2>2 DEF TypeOK
  <2> QED BY <2>1, <2>2, <2>3
<1> QED
  BY <1>1, <1>2, <1>3, <1>4, <1>5, <1>6, <1>7, WorkerMoves
  DEF Webhook, Transaction

\* The transaction under way stamps the row no earlier than it is stamped.
Ahead ==
    \A w \in Workers :
        /\ InTx(w) /\ proc[w].job.kind # "setup" /\ Known(proc[w].job.sub)
        => row[proc[w].job.sub].synced <= proc[w].job.at

LEMMA AheadInit == Init => Ahead
BY DEF Init, Ahead, InTx, Idle, Procs

LEMMA AheadStep ==
    ASSUME OneAtATime
    PROVE  Typed /\ Fresh /\ Ahead /\ [Next]_vars => Ahead'
<1> SUFFICES ASSUME Typed, Fresh, Ahead, [Next]_vars,
                    NEW w \in Workers, InTx(w)', NEW s, s = proc'[w].job.sub,
                    proc'[w].job.kind # "setup", row'[s].ver > 0
             PROVE  row'[s].synced <= proc'[w].job.at
  BY DEF Ahead, Known
<1>0. w \in Procs /\ proc[w] \in Proc /\ TypeOK
  BY DEF Procs, Typed, TypeOK
<1>1. proc'[w].job = proc[w].job /\ (InTx(w) \/ Begin(w))
  BY JobSource DEF OneAtATime, Fetched, InTx
<1>2. s \in Subs /\ row[s] \in Row /\ proc[w].job.at \in Nat
  BY <1>0, <1>1 DEF Proc, Job, TypeOK
<1>3. row[s].ver > 0 => row[s].synced <= proc[w].job.at
  <2>1. CASE InTx(w)
    BY <1>1, <2>1 DEF Ahead, Known
  <2>2. CASE Begin(w)
    BY <1>1, <1>2, <2>2 DEF Begin, Applies, Known, isEventOlder, Row
  <2> QED BY <1>1, <2>1, <2>2
<1>4. row'[s] = row[s] \/ row'[s].ver = 0
  <2>1. ASSUME NEW p \in Procs, Commit(p) PROVE FALSE
    <3>1. p = w
      BY <2>1, SyncAssumption DEF Commit, OneAtATime, Procs, Fresh, SyncOff
    <3>2. proc'[w] = Idle
      BY <1>0, <2>1, <3>1 DEF Commit, TypeOK
    <3> QED BY <3>2 DEF InTx, Idle
  <2>2. ASSUME NEW u \in Users, anonymizeUser(u)
        PROVE  row'[s] = row[s] \/ row'[s].ver = 0
    BY <1>2, <2>2 DEF anonymizeUser, NoRow
  <2> QED BY <2>1, <2>2, RowWriters
<1> QED BY <1>1, <1>3, <1>4

\* What the COMMIT of w leaves in the table.
LEMMA CommitRow ==
    ASSUME Typed, Fresh, NEW w \in Workers, Commit(w), NEW s \in Subs
    PROVE  \/ row'[s] = row[s]
           \/ /\ proc[w].job.kind = "setup"
              /\ row'[s].ver = row[s].ver /\ row'[s].synced = row[s].synced
           \/ /\ proc[w].job.kind # "setup" /\ s = proc[w].job.sub
              /\ row'[s].ver = proc[w].got /\ row'[s].synced = proc[w].job.at
              /\ proc[w].got \in 1..Len(hist[s])
<1>0. /\ w \in Procs /\ proc[w] \in Proc /\ row[s] \in Row
      /\ FreshJob(proc[w]) /\ proc[w].pc = "commit"
  BY DEF Procs, Typed, TypeOK, Fresh, JobsFresh, Commit
<1>1. row'[s] = IF s \in proc[w].locks THEN Written(w, s) ELSE row[s]
  BY DEF Commit, View
<1>2. CASE s \in proc[w].locks /\ proc[w].job.kind = "setup"
  BY <1>0, <1>1, <1>2 DEF Written, Row
<1>3. CASE s \in proc[w].locks /\ proc[w].job.kind # "setup"
  <2>1. s = proc[w].job.sub /\ proc[w].got <= Len(hist[s])
    BY <1>0, <1>3 DEF Typed, JobsInHistory
  <2>2. proc[w].got > 0 /\ proc[w].stamp = proc[w].job.at /\ proc[w].got \in Nat
    BY <1>0, <1>3 DEF FreshJob, Proc
  <2>3. Len(hist[s]) \in Nat
    BY DEF Typed, TypeOK
  <2>4. Written(w, s).ver = proc[w].got /\ Written(w, s).synced = proc[w].stamp
    BY <1>3, <2>2 DEF Written
  <2> QED BY <1>1, <1>3, <2>1, <2>2, <2>3, <2>4
<1> QED BY <1>1, <1>2, <1>3

LEMMA StampStays ==
    ASSUME OneAtATime, Typed, Fresh, Ahead, [Next]_vars, NEW s \in Subs,
           Known(s), row'[s].ver > 0
    PROVE  row'[s].synced >= row[s].synced
<1>0. row[s].synced \in Nat
  BY DEF Typed, TypeOK, Row
<1>1. ASSUME NEW p \in Procs, Commit(p) PROVE row'[s].synced >= row[s].synced
  <2>1. p \in Workers /\ InTx(p)
    BY <1>1 DEF Commit, Procs, Fresh, SyncOff, InTx
  <2>2. CASE row'[s].synced = row[s].synced
    BY <1>0, <2>2
  <2>3. CASE /\ proc[p].job.kind # "setup" /\ s = proc[p].job.sub
             /\ row'[s].synced = proc[p].job.at
    <3>1. proc[p].job.at \in Nat
      BY DEF Typed, TypeOK, Proc, Job
    <3> QED BY <1>0, <2>1, <2>3, <3>1 DEF Ahead
  <2> QED BY <1>1, <2>1, <2>2, <2>3, CommitRow
<1>2. ASSUME NEW u \in Users, anonymizeUser(u)
      PROVE  row'[s].synced >= row[s].synced
  <2>1. row'[s] = row[s]
    BY <1>2 DEF anonymizeUser, NoRow
  <2> QED BY <1>0, <2>1
<1>3. CASE UNCHANGED row
  BY <1>0, <1>3
<1> QED BY <1>1, <1>2, <1>3, RowWriters

(* One webhook at a time: upsertSubscriptionTx never takes a row back to   *)
(* an earlier stamp, in whatever order the events arrive and whatever the  *)
(* eraser does meanwhile.  With two handlers the check of isEventOlder and *)
(* the write are two steps, and the older event may write last.            *)
THEOREM StampsGrow ==
    ASSUME OneAtATime
    PROVE  Spec => StampsNeverGoBack
<1>0. ~ SyncEnabled
  BY DEF OneAtATime
<1>1. Typed /\ Fresh /\ Ahead /\ [Next]_vars =>
        [\A s \in Subs : Known(s) /\ row'[s].ver > 0
             => row'[s].synced >= row[s].synced]_vars
  BY StampStays
<1> QED
  BY <1>0, <1>1, TypedInit, TypedStep, OnceInit, OnceStep, FreshInit, FreshStep,
     AheadInit, AheadStep, PTL
  DEF Spec, StampsNeverGoBack

-----------------------------------------------------------------------------
(* After the last event.  An account is linked to its Customer before it   *)
(* has a subscription, and once unlinked it is never linked again, so no   *)
(* event of a linked account was ever turned away for want of the link.    *)

Accounts ==
    /\ \A u \in Users :
          /\ customer[u] = "live" => account[u] # "unlinked"
          /\ Linked(u) => customer[u] # "none"
          /\ erasing[u] = "terminated" => customer[u] = "deleted"
    /\ \A s \in Subs :
          Opened(s) /\ account[Owner[s]] = "unlinked"
          => customer[Owner[s]] = "deleted"

LEMMA AccountsInit == Init => Accounts
BY DEF Init, Accounts, Linked, Opened

\* A step that opens no subscription.
LEMMA AccountsKept ==
    ASSUME Accounts, TypeOK, \A s \in Subs : Opened(s)' => Opened(s),
           \A u \in Users :
              \/ /\ customer'[u] = customer[u]
                 /\ account'[u] = account[u]
                 /\ erasing'[u] = erasing[u]
              \/ /\ customer'[u] = customer[u]
                 /\ account'[u] = "erased" /\ erasing'[u] = "no"
              \/ /\ customer[u] # "deleted" /\ customer'[u] = "live"
                 /\ account'[u] = "linked" /\ erasing'[u] = erasing[u]
              \/ /\ customer'[u] = customer[u] /\ erasing'[u] = "no"
                 /\ account'[u] = IF erasing[u] = "terminated" THEN "unlinked"
                                  ELSE account[u]
              \/ /\ account'[u] = account[u]
                 /\ customer'[u] = IF Linked(u) /\ customer[u] = "live"
                                   THEN "deleted" ELSE customer[u]
                 /\ erasing'[u] = IF Linked(u) THEN "terminated" ELSE "untouched"
    PROVE  Accounts'
<1>1. ASSUME NEW u \in Users
      PROVE  /\ customer'[u] = "live" => account'[u] # "unlinked"
             /\ account'[u] = "linked" => customer'[u] # "none"
             /\ erasing'[u] = "terminated" => customer'[u] = "deleted"
  BY DEF Accounts, Linked, TypeOK
<1>2. ASSUME NEW s \in Subs, Opened(s)', account'[Owner[s]] = "unlinked"
      PROVE  customer'[Owner[s]] = "deleted"
  <2>1. Owner[s] \in Users
    BY OwnerAssumption
  <2> QED BY <1>2, <2>1 DEF Accounts, Linked, TypeOK
<1> QED BY <1>1, <1>2 DEF Accounts, Linked

LEMMA AccountsStep == Typed /\ Accounts /\ [Next]_vars => Accounts'
<1> SUFFICES ASSUME Typed, Accounts, [Next]_vars PROVE Accounts'
  OBVIOUS
<1> USE DEF gateway, database
<1>0. TypeOK /\ \A s \in Subs : Owner[s] \in Users
  BY OwnerAssumption DEF Typed
<1>1. UNCHANGED <<hist, customer, account, erasing>> => Accounts'
  BY DEF Accounts, Linked, Opened
<1>2. ASSUME NEW s \in Subs, createCheckoutSession(s) PROVE Accounts'
  <2>1. \A t \in Subs : Opened(t)' => Opened(t)
    BY <1>2 DEF createCheckoutSession, Opened
  <2>2. \A u \in Users :
          \/ /\ customer'[u] = customer[u] /\ account'[u] = account[u]
             /\ erasing'[u] = erasing[u]
          \/ /\ customer[u] # "deleted" /\ customer'[u] = "live"
             /\ account'[u] = "linked" /\ erasing'[u] = erasing[u]
    BY <1>0, <1>2
    DEF createCheckoutSession, ensureStripeCustomer, MayOpen, TypeOK
  <2> QED BY <1>0, <2>1, <2>2, AccountsKept
<1>3. ASSUME NEW s \in Subs, NEW status, NEW card, NEW end,
             Append1(s, status, card, end)
      PROVE  \A t \in Subs \ {s} : Opened(t)' => Opened(t)
  BY <1>0, <1>3 DEF Append1, Opened, TypeOK
<1>4. ASSUME NEW s \in Subs, CompleteCheckout(s) PROVE Accounts'
  <2>1. \A t \in Subs \ {s} : Opened(t)' => Opened(t)
    BY <1>3, <1>4 DEF CompleteCheckout
  <2>2. customer[Owner[s]] = "live" /\ UNCHANGED <<customer, account, erasing>>
    BY <1>4 DEF CompleteCheckout
  <2> QED BY <1>0, <2>1, <2>2 DEF Accounts, Linked
<1>5. ASSUME NEW s \in Subs, createSubscriptionIntent(s) PROVE Accounts'
  <2>1. \A t \in Subs \ {s} : Opened(t)' => Opened(t)
    BY <1>3, <1>5 DEF createSubscriptionIntent
  <2>2. /\ customer' = [customer EXCEPT ![Owner[s]] = "live"]
        /\ account' = [account EXCEPT ![Owner[s]] = "linked"]
        /\ erasing' = erasing /\ customer[Owner[s]] # "deleted"
    BY <1>5 DEF createSubscriptionIntent, ensureStripeCustomer, MayOpen
  <2>3. \A u \in Users :
          /\ customer'[u] = "live" => account'[u] # "unlinked"
          /\ account'[u] = "linked" => customer'[u] # "none"
          /\ erasing'[u] = "terminated" => customer'[u] = "deleted"
    BY <1>0, <2>2 DEF Accounts, Linked, TypeOK
  <2>4. \A t \in Subs : Opened(t)' /\ account'[Owner[t]] = "unlinked"
                        => customer'[Owner[t]] = "deleted"
    <3> SUFFICES ASSUME NEW t \in Subs, Opened(t)',
                        account'[Owner[t]] = "unlinked"
                 PROVE  customer'[Owner[t]] = "deleted"
      OBVIOUS
    <3>1. Owner[t] # Owner[s] /\ Owner[t] \in Users
      BY <1>0, <2>2 DEF TypeOK
    <3>2. /\ account'[Owner[t]] = account[Owner[t]]
          /\ customer'[Owner[t]] = customer[Owner[t]] /\ t # s
      BY <1>0, <2>2, <3>1 DEF TypeOK
    <3> QED BY <2>1, <3>2 DEF Accounts
  <2> QED BY <2>3, <2>4 DEF Accounts, Linked
<1>6. ASSUME NEW s \in Subs, ConfirmSetup(s) \/ EmitInvoice(s) PROVE Accounts'
  BY <1>1, <1>6 DEF ConfirmSetup, EmitInvoice
<1>7. ASSUME NEW s \in Subs, GatewayChange(s) PROVE Accounts'
  <2>1. \A t \in Subs : Opened(t)' => Opened(t)
    <3>1. PICK status : \E card, end : Append1(s, status, card, end)
      BY <1>7 DEF GatewayChange
    <3> QED BY <1>3, <1>7, <3>1 DEF GatewayChange
  <2>2. UNCHANGED <<customer, account, erasing>>
    BY <1>7 DEF GatewayChange
  <2> QED BY <1>0, <2>1, <2>2, AccountsKept
<1>8. ASSUME NEW u \in Users, terminateBillingForUser(u) PROVE Accounts'
  <2>1. \A t \in Subs : Opened(t)' => Opened(t)
    <3> SUFFICES ASSUME NEW t \in Subs, ~ Opened(t) PROVE hist'[t] = hist[t]
      BY DEF Opened
    <3> QED BY <1>0, <1>8 DEF terminateBillingForUser
  <2>2. \A v \in Users :
          \/ /\ customer'[v] = customer[v] /\ account'[v] = account[v]
             /\ erasing'[v] = erasing[v]
          \/ /\ account'[v] = account[v]
             /\ customer'[v] = IF Linked(v) /\ customer[v] = "live"
                               THEN "deleted" ELSE customer[v]
             /\ erasing'[v] = IF Linked(v) THEN "terminated" ELSE "untouched"
    BY <1>0, <1>8 DEF terminateBillingForUser, TypeOK
  <2> QED BY <1>0, <2>1, <2>2, AccountsKept
<1>9. ASSUME NEW u \in Users, anonymizeUser(u) PROVE Accounts'
  <2>1. \A t \in Subs : Opened(t)' => Opened(t)
    BY <1>9 DEF anonymizeUser, Opened
  <2>2. \A v \in Users :
          \/ /\ customer'[v] = customer[v] /\ account'[v] = account[v]
             /\ erasing'[v] = erasing[v]
          \/ /\ customer'[v] = customer[v] /\ account'[v] = "erased"
             /\ erasing'[v] = "no"
    BY <1>0, <1>9 DEF anonymizeUser, TypeOK
  <2> QED BY <1>0, <2>1, <2>2, AccountsKept
<1>10. ASSUME NEW u \in Users, unlinkStripeCustomer(u) PROVE Accounts'
  <2>1. \A t \in Subs : Opened(t)' => Opened(t)
    BY <1>10 DEF unlinkStripeCustomer, Opened
  <2>2. \A v \in Users :
          \/ /\ customer'[v] = customer[v] /\ account'[v] = account[v]
             /\ erasing'[v] = erasing[v]
          \/ /\ customer'[v] = customer[v] /\ erasing'[v] = "no"
             /\ account'[v] = IF erasing[v] = "terminated" THEN "unlinked"
                              ELSE account[v]
    BY <1>0, <1>10 DEF unlinkStripeCustomer, TypeOK
  <2> QED BY <1>0, <2>1, <2>2, AccountsKept
<1>11. ASSUME NEW w \in Workers, Webhook(w) PROVE Accounts'
  BY <1>1, <1>11
  DEF Webhook, Receive, applyExternalEffects, Duplicate, Begin, Discard
<1>12. ASSUME NEW p \in Procs, Transaction(p) \/ Fail(p) PROVE Accounts'
  BY <1>1, <1>12 DEF Transaction, Write, Recount, Commit, Fail
<1>13. CASE Reconciler
  BY <1>1, <1>13 DEF Reconciler, PickStale, StartScan, RetrieveStale, StampStale,
                     ListOrphan, Adopt
<1>14. CASE Tick \/ Purge \/ UNCHANGED vars
  BY <1>1, <1>14 DEF Tick, Purge, vars
<1> QED
  BY <1>2, <1>4, <1>5, <1>6, <1>7, <1>8, <1>9, <1>10, <1>11, <1>12, <1>13, <1>14
  DEF Next, Gateway, Erasure

(* What the gateway tells: an event for each version, made when it was.    *)
Told ==
    \A s \in Subs : \A n \in 1..Len(hist[s]) : \E e \in sent :
        /\ e.kind = "subscription" /\ e.sub = s /\ e.ver = n
        /\ e.at = hist[s][n].at

LEMMA ToldInit == Init => Told
BY DEF Init, Told

\* The version a step appends comes with its event.
LEMMA GatewayTells ==
    ASSUME "subscription" \in Kinds, Typed, GatewayStep, NEW s \in Subs
    PROVE  \/ hist'[s] = hist[s]
           \/ /\ Len(hist'[s]) = Len(hist[s]) + 1
              /\ Snapshot(s, Len(hist[s]) + 1) \in sent'
<1> DEFINE Tells == \/ hist'[s] = hist[s]
                    \/ /\ Len(hist'[s]) = Len(hist[s]) + 1
                       /\ Snapshot(s, Len(hist[s]) + 1) \in sent'
<1>0. TypeOK /\ hist[s] \in Seq(Version) /\ Len(hist[s]) \in Nat
  BY DEF Typed, TypeOK
<1>1. ASSUME NEW t \in Subs, NEW v, NEW events,
             hist' = [hist EXCEPT ![t] = Append(@, v)], Emit(events),
             Snapshot(t, Len(hist[t]) + 1) \in events
      PROVE  Tells
  <2>1. CASE s = t
    <3>1. hist'[s] = Append(hist[s], v)
      BY <1>0, <1>1, <2>1 DEF TypeOK
    <3>2. Len(hist'[s]) = Len(hist[s]) + 1
      BY <1>0, <3>1
    <3>3. Snapshot(s, Len(hist[s]) + 1) \in sent'
      BY <1>1, <2>1 DEF Emit, Snapshot
    <3> QED BY <3>2, <3>3
  <2>2. CASE s # t
    BY <1>0, <1>1, <2>2 DEF TypeOK
  <2> QED BY <2>1, <2>2
<1> HIDE DEF Tells
<1>2. hist'[s] = hist[s] => Tells
  BY DEF Tells
<1>3. ASSUME NEW t \in Subs,
             createCheckoutSession(t) \/ ConfirmSetup(t) \/ EmitInvoice(t)
      PROVE  Tells
  BY <1>2, <1>3 DEF createCheckoutSession, ConfirmSetup, EmitInvoice
<1>4. \A t \in Subs : ~ Opened(t) => Len(hist[t]) = 0
  BY <1>0 DEF Opened, TypeOK
<1>5. ASSUME NEW t \in Subs, CompleteCheckout(t) PROVE Tells
  <2>1. Len(hist[t]) + 1 = 1
    BY <1>4, <1>5 DEF CompleteCheckout
  <2>2. \E v, events : /\ hist' = [hist EXCEPT ![t] = Append(@, v)]
                       /\ Emit(events) /\ Snapshot(t, 1) \in events
    <3> DEFINE v == [status |-> IF offer[t].trial THEN "trialing" ELSE "active",
                     card |-> TRUE, end |-> now + Period, at |-> now]
               events == {Snapshot(t, 1), [kind |-> "checkout", sub |-> t,
                                           ver |-> 1, at |-> now]}
    <3>1. hist' = [hist EXCEPT ![t] = Append(@, v)] /\ Emit(events)
      BY <1>5 DEF CompleteCheckout, Append1
    <3>2. Snapshot(t, 1) \in events
      OBVIOUS
    <3> HIDE DEF v, events
    <3> QED BY <3>1, <3>2
  <2> QED BY <1>1, <2>1, <2>2
<1>6. ASSUME NEW t \in Subs, createSubscriptionIntent(t) PROVE Tells
  <2>1. Len(hist[t]) + 1 = 1
    BY <1>4, <1>6 DEF createSubscriptionIntent, MayOpen
  <2>2. \E v, events : /\ hist' = [hist EXCEPT ![t] = Append(@, v)]
                       /\ Emit(events) /\ Snapshot(t, 1) \in events
    BY <1>6 DEF createSubscriptionIntent, Append1
  <2> QED BY <1>1, <2>1, <2>2
<1>7. ASSUME NEW t \in Subs, GatewayChange(t) PROVE Tells
  <2>1. \E v, events : /\ hist' = [hist EXCEPT ![t] = Append(@, v)]
                       /\ Emit(events)
                       /\ Snapshot(t, Len(hist[t]) + 1) \in events
    BY <1>7 DEF GatewayChange, Append1
  <2> QED BY <1>1, <2>1
<1>8. ASSUME NEW u \in Users, terminateBillingForUser(u) PROVE Tells
  <2> DEFINE live == {t \in OwnedBy(u) : /\ Linked(u) /\ customer[u] = "live"
                                         /\ Opened(t) /\ Successors(t) # {}}
             v == [Last(s) EXCEPT !.status = "canceled", !.at = now]
  <2>1. hist'[s] = IF s \in live THEN Append(hist[s], v) ELSE hist[s]
    BY <1>8 DEF terminateBillingForUser
  <2>2. s \in live => Snapshot(s, Len(hist[s]) + 1) \in sent'
    BY <1>8 DEF terminateBillingForUser, Emit, Snapshot
  <2> HIDE DEF live, v
  <2>3. Len(Append(hist[s], v)) = Len(hist[s]) + 1
    BY <1>0
  <2> QED BY <1>2, <2>1, <2>2, <2>3 DEF Tells
<1> QED
  BY <1>3, <1>5, <1>6, <1>7, <1>8 DEF GatewayStep, Gateway, Tells

LEMMA ToldStep ==
    ASSUME "subscription" \in Kinds
    PROVE  Typed /\ Told /\ [Next]_vars => Told'
<1> SUFFICES ASSUME Typed, Told, [Next]_vars PROVE Told'
  OBVIOUS
<1> USE DEF gateway, database
<1>1. UNCHANGED <<hist, sent>> => Told'
  BY DEF Told
<1>2. CASE GatewayStep
  <2>0. GatewayEffect
    BY <1>2, GatewayOnlyGrows
  <2> SUFFICES ASSUME NEW s \in Subs, NEW n \in 1..Len(hist'[s])
               PROVE  \E e \in sent' :
                         /\ e.kind = "subscription" /\ e.sub = s /\ e.ver = n
                         /\ e.at = hist'[s][n].at
    BY DEF Told
  <2>1. /\ Len(hist[s]) \in Nat /\ Len(hist[s]) <= Len(hist'[s])
        /\ Len(hist'[s]) \in Nat
        /\ \A i \in 1..Len(hist[s]) : hist'[s][i] = hist[s][i]
        /\ \A i \in 1..Len(hist'[s]) : i > Len(hist[s]) => hist'[s][i].at = now
    BY <2>0, HistoryExtends
  <2>2. CASE n <= Len(hist[s])
    <3>1. n \in 1..Len(hist[s])
      BY <2>1, <2>2
    <3>2. PICK e \in sent : /\ e.kind = "subscription" /\ e.sub = s /\ e.ver = n
                            /\ e.at = hist[s][n].at
      BY <3>1 DEF Told
    <3> QED BY <2>0, <2>1, <3>1, <3>2 DEF GatewayEffect
  <2>3. CASE n > Len(hist[s])
    <3>1. hist'[s] # hist[s]
      BY <2>1, <2>3
    <3>2. /\ Len(hist'[s]) = Len(hist[s]) + 1
          /\ Snapshot(s, Len(hist[s]) + 1) \in sent'
      BY <1>2, <3>1, GatewayTells
    <3>3. n = Len(hist[s]) + 1 /\ hist'[s][n].at = now
      BY <2>1, <2>3, <3>2
    <3>4. /\ Snapshot(s, n).kind = "subscription" /\ Snapshot(s, n).sub = s
          /\ Snapshot(s, n).ver = n /\ Snapshot(s, n).at = now
      BY DEF Snapshot
    <3> QED BY <3>2, <3>3, <3>4
  <2> QED BY <2>1, <2>2, <2>3
<1>3. ASSUME NEW w \in Workers, Webhook(w) PROVE Told'
  BY <1>1, <1>3
  DEF Webhook, Receive, applyExternalEffects, Duplicate, Begin, Discard
<1>4. ASSUME NEW p \in Procs, Transaction(p) \/ Fail(p) PROVE Told'
  BY <1>1, <1>4 DEF Transaction, Write, Recount, Commit, Fail
<1>5. CASE Reconciler
  BY <1>1, <1>5 DEF Reconciler, PickStale, StartScan, RetrieveStale, StampStale,
                    ListOrphan, Adopt
<1>6. CASE \/ Tick \/ Purge \/ UNCHANGED vars
           \/ \E u \in Users : anonymizeUser(u) \/ unlinkStripeCustomer(u)
  BY <1>1, <1>6 DEF Tick, Purge, vars, anonymizeUser, unlinkStripeCustomer
<1> QED
  BY <1>2, <1>3, <1>4, <1>5, <1>6 DEF Next, GatewayStep, Erasure

(* What one webhook at a time leaves behind each subscription event that   *)
(* took effect, or was discarded, for a linked account.                    *)

DoneWasSent == doneEver \subseteq sent

RowsInHistory == \A s \in Subs : row[s].ver <= Len(hist[s])

\* What is retrieved for a checkout or an invoice is newer than all that any
\* event before it was about.
Caught ==
    \A w \in Workers : Fetched(w) /\ proc[w].job.kind \in {"checkout", "invoice"} =>
        \A e \in doneEver :
            e.kind = "subscription" /\ e.sub = proc[w].job.sub
            => e.ver <= proc[w].got

\* A subscription event carries its own version, and the transaction of one
\* that writes a subscription holds its row.
Carried ==
    \A w \in Workers : Fetched(w) =>
        /\ proc[w].job.kind = "subscription" => proc[w].got = proc[w].job.ver
        /\ proc[w].pc \in {"count", "commit"} /\ proc[w].job.kind # "setup"
           => proc[w].job.sub \in proc[w].locks

\* The row has e, or better.
Includes(s, e) ==
    /\ Known(s) /\ e.at <= row[s].synced
    /\ e.at <= hist[s][row[s].ver].at

Absorbed ==
    \A s \in Subs : \A e \in doneEver :
        e.kind = "subscription" /\ e.sub = s /\ Linked(Owner[s]) => Includes(s, e)

Settling == DoneWasSent /\ RowsInHistory /\ Caught /\ Carried /\ Absorbed

LEMMA SettlingInit == Init => Settling
<1> SUFFICES ASSUME Init PROVE Settling
  OBVIOUS
<1>1. doneEver = {} /\ \A s \in Subs : row[s].ver = 0 /\ Len(hist[s]) = 0
  BY DEF Init, NoRow
<1>2. \A w \in Workers : ~ Fetched(w)
  BY DEF Init, Fetched, Idle, Procs
<1> QED
  BY <1>1, <1>2
  DEF Settling, DoneWasSent, RowsInHistory, Caught, Carried, Absorbed

\* Only the end of a request adds to what is done.
LEMMA DoneSource ==
    ASSUME [Next]_vars
    PROVE  \/ UNCHANGED doneEver
           \/ \E w \in Workers :
                 /\ Discard(w) \/ Commit(w)
                 /\ doneEver' = doneEver \cup {proc[w].job}
<1> USE DEF gateway, database
<1>1. ASSUME NEW w \in Workers, Webhook(w), ~ Discard(w) PROVE UNCHANGED doneEver
  BY <1>1 DEF Webhook, Receive, applyExternalEffects, Duplicate, Begin
<1>2. ASSUME NEW w \in Workers, Discard(w)
      PROVE  doneEver' = doneEver \cup {proc[w].job}
  BY <1>2 DEF Discard
<1>3. ASSUME NEW p \in Procs, Transaction(p) \/ Fail(p)
      PROVE  \/ UNCHANGED doneEver
             \/ p \in Workers /\ Commit(p) /\ doneEver' = doneEver \cup {proc[p].job}
  BY <1>3 DEF Transaction, Write, Recount, Commit, Fail
<1>4. CASE Reconciler
  BY <1>4 DEF Reconciler, PickStale, StartScan, RetrieveStale, StampStale,
              ListOrphan, Adopt
<1>5. ASSUME NEW s \in Subs, Gateway(s) PROVE UNCHANGED doneEver
  BY <1>5 DEF Gateway, createCheckoutSession, CompleteCheckout,
              createSubscriptionIntent, ConfirmSetup, GatewayChange, EmitInvoice
<1>6. ASSUME NEW u \in Users, Erasure(u) PROVE UNCHANGED doneEver
  BY <1>6 DEF Erasure, terminateBillingForUser, anonymizeUser,
              unlinkStripeCustomer
<1>7. CASE Tick \/ UNCHANGED vars \/ Purge
  BY <1>7 DEF Tick, Purge, vars
<1> QED BY <1>1, <1>2, <1>3, <1>4, <1>5, <1>6, <1>7 DEF Next

\* Histories and what was sent of them only grow.
LEMMA Grows ==
    ASSUME Typed, [Next]_vars
    PROVE  /\ sent \subseteq sent'
           /\ \A s \in Subs :
                /\ Len(hist[s]) \in Nat /\ Len(hist'[s]) \in Nat
                /\ Len(hist[s]) <= Len(hist'[s])
                /\ \A i \in 1..Len(hist[s]) : hist'[s][i] = hist[s][i]
<1> USE DEF gateway, database
<1>0. \A s \in Subs : Len(hist[s]) \in Nat
  BY DEF Typed, TypeOK
<1>1. CASE GatewayStep
  BY <1>1, GatewayOnlyGrows, HistoryExtends DEF GatewayEffect
<1>2. CASE ~ GatewayStep
  <2>1. UNCHANGED <<hist, sent>>
    <3>1. ASSUME NEW w \in Workers, Webhook(w) PROVE UNCHANGED <<hist, sent>>
      BY <3>1
      DEF Webhook, Receive, applyExternalEffects, Duplicate, Begin, Discard
    <3>2. ASSUME NEW p \in Procs, Transaction(p) \/ Fail(p)
          PROVE  UNCHANGED <<hist, sent>>
      BY <3>2 DEF Transaction, Write, Recount, Commit, Fail
    <3>3. CASE Reconciler
      BY <3>3 DEF Reconciler, PickStale, StartScan, RetrieveStale, StampStale,
                  ListOrphan, Adopt
    <3>4. CASE \/ Tick \/ Purge \/ UNCHANGED vars
               \/ \E u \in Users : anonymizeUser(u) \/ unlinkStripeCustomer(u)
      BY <3>4 DEF Tick, Purge, vars, anonymizeUser, unlinkStripeCustomer
    <3> QED
      BY <1>2, <3>1, <3>2, <3>3, <3>4 DEF Next, GatewayStep, Erasure
  <2> QED BY <1>0, <2>1
<1> QED BY <1>1, <1>2

\* A row that stays keeps what it includes.
LEMMA IncludesStays ==
    ASSUME Typed, RowsInHistory, [Next]_vars, NEW s \in Subs, NEW e,
           Includes(s, e), row'[s] = row[s]
    PROVE  /\ row'[s].ver > 0 /\ e.at <= row'[s].synced
           /\ e.at <= hist'[s][row'[s].ver].at
<1>1. row[s].ver \in 1..Len(hist[s])
  BY DEF Typed, TypeOK, Row, Includes, Known, RowsInHistory
<1> QED BY <1>1, Grows DEF Includes, Known

LEMMA RowsInHistoryStep ==
    ASSUME ~ SyncEnabled
    PROVE  Typed /\ Fresh /\ RowsInHistory /\ [Next]_vars => RowsInHistory'
<1> SUFFICES ASSUME Typed, Fresh, RowsInHistory, [Next]_vars, NEW s \in Subs
             PROVE  row'[s].ver <= Len(hist'[s])
  BY DEF RowsInHistory
<1>0. /\ Len(hist[s]) \in Nat /\ Len(hist'[s]) \in Nat
      /\ Len(hist[s]) <= Len(hist'[s]) /\ row[s].ver \in Nat
      /\ row[s].ver <= Len(hist[s])
  BY Grows DEF Typed, TypeOK, Row, RowsInHistory
<1>1. \/ row'[s].ver = row[s].ver \/ row'[s].ver = 0
      \/ row'[s].ver \in 1..Len(hist[s])
  <2>1. ASSUME NEW p \in Procs, Commit(p)
        PROVE  row'[s].ver = row[s].ver \/ row'[s].ver \in 1..Len(hist[s])
    <3>1. p \in Workers
      BY <2>1 DEF Commit, Procs, Fresh, SyncOff
    <3> QED BY <2>1, <3>1, CommitRow
  <2>2. ASSUME NEW u \in Users, anonymizeUser(u)
        PROVE  row'[s] = row[s] \/ row'[s].ver = 0
    BY <2>2 DEF anonymizeUser, NoRow
  <2> QED BY <2>1, <2>2, RowWriters
<1> QED BY <1>0, <1>1

LEMMA DoneWasSentStep == Typed /\ DoneWasSent /\ [Next]_vars => DoneWasSent'
<1> SUFFICES ASSUME Typed, DoneWasSent, [Next]_vars PROVE DoneWasSent'
  OBVIOUS
<1>1. ASSUME NEW w \in Workers, Discard(w) \/ Commit(w) PROVE proc[w].job \in sent
  BY <1>1 DEF Discard, Commit, Typed, WorkersServeEvents
<1> QED BY <1>1, DoneSource, Grows DEF DoneWasSent

LEMMA CaughtStep ==
    ASSUME OneAtATime
    PROVE  Typed /\ Fresh /\ Settling /\ [Next]_vars => Caught'
<1> SUFFICES ASSUME Typed, Fresh, Settling, [Next]_vars,
                    NEW w \in Workers, Fetched(w)',
                    proc'[w].job.kind \in {"checkout", "invoice"},
                    NEW e \in doneEver', e.kind = "subscription",
                    e.sub = proc'[w].job.sub
             PROVE  e.ver <= proc'[w].got
  BY DEF Caught
<1>0. w \in Procs /\ TypeOK /\ proc[w] \in Proc
  BY DEF Procs, Typed, TypeOK
<1>1. /\ proc'[w].job = proc[w].job
      /\ \/ applyExternalEffects(w)
         \/ Fetched(w) /\ proc'[w].got = proc[w].got
  BY JobSource DEF OneAtATime
<1>2. doneEver' = doneEver
  <2>1. ASSUME NEW v \in Workers, Discard(v) \/ Commit(v) PROVE FALSE
    <3>1. v = w
      BY DEF OneAtATime
    <3>2. proc'[w] = Idle
      BY <1>0, <2>1, <3>1 DEF Discard, Commit, TypeOK
    <3> QED BY <3>2 DEF Fetched, Idle
  <2> QED BY <2>1, DoneSource
<1>3. CASE applyExternalEffects(w)
  <2>1. proc'[w].got = Len(hist[proc[w].job.sub])
    BY <1>0, <1>1, <1>3 DEF applyExternalEffects, TypeOK, Proc
  <2>2. e.ver <= Len(hist[e.sub])
    BY <1>2 DEF Settling, DoneWasSent, Typed, EventsInHistory
  <2> QED BY <1>1, <2>1, <2>2
<1>4. CASE Fetched(w) /\ proc'[w].got = proc[w].got
  BY <1>1, <1>2, <1>4 DEF Settling, Caught
<1> QED BY <1>1, <1>3, <1>4

LEMMA CarriedStep ==
    ASSUME ~ SyncEnabled
    PROVE  Typed /\ Fresh /\ Carried /\ [Next]_vars => Carried'
<1> SUFFICES ASSUME Typed, Fresh, Carried, [Next]_vars,
                    NEW w \in Workers, Fetched(w)'
             PROVE  /\ proc'[w].job.kind = "subscription"
                       => proc'[w].got = proc'[w].job.ver
                    /\ /\ proc'[w].pc \in {"count", "commit"}
                       /\ proc'[w].job.kind # "setup"
                       => proc'[w].job.sub \in proc'[w].locks
  BY DEF Carried
<1>0. w \in Procs /\ TypeOK /\ proc[w] \in Proc
  BY DEF Procs, Typed, TypeOK
<1>1. /\ proc'[w].job = proc[w].job
      /\ \/ applyExternalEffects(w)
         \/ Fetched(w) /\ proc'[w].got = proc[w].got
      /\ proc'[w].pc \in {"count", "commit"} =>
            \/ Write(w)
            \/ /\ proc[w].pc \in {"count", "commit"}
               /\ proc'[w].locks = proc[w].locks
  BY JobSource
<1>2. proc[w].job.kind = "subscription" => proc'[w].got = proc[w].job.ver
  <2>1. CASE applyExternalEffects(w)
    BY <1>0, <2>1 DEF applyExternalEffects, TypeOK, Proc
  <2>2. CASE Fetched(w) /\ proc'[w].got = proc[w].got
    BY <2>2 DEF Carried
  <2> QED BY <1>1, <2>1, <2>2
<1>3. ASSUME proc'[w].pc \in {"count", "commit"}, proc[w].job.kind # "setup"
      PROVE  proc[w].job.sub \in proc'[w].locks
  <2>1. CASE Write(w)
    <3>1. Targets(w) = {proc[w].job.sub}
      BY <1>3 DEF Targets
    <3>2. proc'[w].locks = Targets(w)
      BY <1>0, <2>1 DEF Write, TypeOK, Proc
    <3> QED BY <3>1, <3>2
  <2>2. CASE /\ proc[w].pc \in {"count", "commit"}
             /\ proc'[w].locks = proc[w].locks
    BY <1>3, <2>2 DEF Carried, Fetched
  <2> QED BY <1>1, <1>3, <2>1, <2>2
<1> QED BY <1>1, <1>2, <1>3

\* The end of a request, for the events it settles.
LEMMA CommitAbsorbs ==
    ASSUME Typed, Fresh, Ahead, Settling, NEW w \in Workers, Commit(w),
           [Next]_vars, NEW s \in Subs, Linked(Owner[s]),
           NEW e \in doneEver \cup {proc[w].job}, e.kind = "subscription",
           e.sub = s
    PROVE  /\ row'[s].ver > 0 /\ e.at <= row'[s].synced
           /\ e.at <= hist'[s][row'[s].ver].at
<1> DEFINE j == proc[w].job
           g == proc[w].got
<1>0. /\ w \in Procs /\ proc[w] \in Proc /\ TypeOK /\ InTx(w) /\ j \in sent
      /\ j \in Event /\ FreshJob(proc[w]) /\ proc[w].pc = "commit" /\ Fetched(w)
      /\ UNCHANGED hist
  BY DEF Procs, Typed, TypeOK, Commit, InTx, WorkersServeEvents, Fresh, JobsFresh,
         Fetched, gateway
<1>1. e \in sent /\ e \in Event /\ e.at \in Nat /\ e.ver \in Nat
      /\ e.ver <= Len(hist[s])
  BY <1>0 DEF Settling, DoneWasSent, TypeOK, Event, Typed, EventsInHistory
<1>2. e.ver \in 1..Len(hist[s]) /\ hist[s][e.ver].at = e.at
  <2>1. Len(hist[s]) \in Nat
    BY <1>0 DEF TypeOK
  <2> QED BY <1>1, <2>1 DEF Fresh, EventsAnchored
<1>3. e \in doneEver => Includes(s, e)
  BY DEF Settling, Absorbed
<1>4. e \notin doneEver => e = j
  OBVIOUS
<1>5. CASE e \in doneEver /\ row'[s] = row[s]
  BY <1>3, <1>5, IncludesStays DEF Settling
<1>6. CASE /\ e \in doneEver /\ row'[s].ver = row[s].ver
           /\ row'[s].synced = row[s].synced
  BY <1>0, <1>3, <1>6 DEF Includes, Known
<1>7. CASE /\ j.kind # "setup" /\ s = j.sub
           /\ row'[s].ver = g /\ row'[s].synced = j.at /\ g \in 1..Len(hist[s])
  <2>1. e.at <= j.at
    <3>1. CASE e \in doneEver
      <4>1. Known(s) /\ e.at <= row[s].synced /\ row[s].synced <= j.at
        BY <1>0, <1>3, <1>7, <3>1 DEF Includes, Ahead
      <4>2. row[s].synced \in Nat /\ j.at \in Nat
        BY <1>0 DEF TypeOK, Row, Event
      <4> QED BY <1>1, <4>1, <4>2
    <3>2. CASE e = j
      BY <1>1, <3>2
    <3> QED BY <1>4, <3>1, <3>2
  <2>2. e.at <= hist[s][g].at
    <3>1. hist[s] \in Seq(Version) /\ hist[s][g] \in Version
      <4>1. hist[s] \in Seq(Version)
        BY <1>0 DEF TypeOK
      <4> QED BY <1>7, <4>1, ElementOfSeq
    <3>2. e.ver <= g => hist[s][e.ver].at <= hist[s][g].at
      BY <1>2, <1>7 DEF Fresh, HistoryOrdered
    <3>3. CASE j.kind \in {"checkout", "invoice"}
      <4>1. e \in doneEver
        BY <1>4, <3>3
      <4>2. e.ver <= g
        BY <1>0, <1>7, <3>3, <4>1 DEF Settling, Caught
      <4> QED BY <1>2, <3>2, <4>2
    <3>4. CASE j.kind = "subscription"
      <4>2. g = j.ver
        BY <1>0, <3>4 DEF Settling, Carried
      <4>3. hist[s][g].at = j.at
        BY <1>0, <1>7, <3>4, <4>2 DEF Fresh, EventsAnchored
      <4> QED BY <2>1, <4>3
    <3> QED BY <1>0, <1>7, <3>3, <3>4 DEF Event, EventKinds
  <2> QED BY <1>0, <1>7, <2>1, <2>2
<1>8. e = j =>
        /\ j.kind # "setup" /\ s = j.sub
        /\ row'[s].ver = g /\ row'[s].synced = j.at /\ g \in 1..Len(hist[s])
  <2> SUFFICES ASSUME e = j
               PROVE  /\ j.kind # "setup" /\ s = j.sub
                      /\ row'[s].ver = g /\ row'[s].synced = j.at
                      /\ g \in 1..Len(hist[s])
    OBVIOUS
  <2>1. j.kind # "setup" /\ s = j.sub /\ s \in proc[w].locks
    BY <1>0 DEF Settling, Carried
  <2>2. row'[s] = Written(w, s)
    BY <2>1 DEF Commit, View
  <2>3. g > 0 /\ proc[w].stamp = j.at /\ g \in Nat /\ g <= Len(hist[s])
    BY <1>0, <2>1 DEF FreshJob, Proc, Typed, JobsInHistory
  <2>4. Len(hist[s]) \in Nat
    BY <1>0 DEF TypeOK
  <2>5. Written(w, s).ver = g /\ Written(w, s).synced = j.at
    BY <2>1, <2>3 DEF Written
  <2> QED BY <2>1, <2>2, <2>3, <2>4, <2>5
<1> QED BY <1>4, <1>5, <1>6, <1>7, <1>8, CommitRow

LEMMA DiscardAbsorbs ==
    ASSUME Typed, Fresh, Settling, NEW w \in Workers, Discard(w),
           NEW s \in Subs, Linked(Owner[s]),
           NEW e \in doneEver \cup {proc[w].job}, e.kind = "subscription",
           e.sub = s
    PROVE  Includes(s, e)
<1>1. CASE e \in doneEver
  BY <1>1 DEF Settling, Absorbed
<1>2. CASE e = proc[w].job
  <2>1. /\ e \in sent /\ e \in Event /\ ~ Applies(e) /\ e.at \in Nat
        /\ e.ver \in Nat /\ e.ver <= Len(hist[s])
    BY <1>2 DEF Discard, Typed, TypeOK, WorkersServeEvents, EventsInHistory, Event
  <2>2. Known(s) /\ e.at < row[s].synced
    BY <2>1 DEF Applies, isEventOlder
  <2>3. hist[s] \in Seq(Version) /\ row[s] \in Row /\ Len(hist[s]) \in Nat
    BY DEF Typed, TypeOK
  <2>4. e.ver \in 1..Len(hist[s]) /\ hist[s][e.ver].at = e.at
    BY <2>1, <2>3 DEF Fresh, EventsAnchored
  <2>5. e.ver <= row[s].ver
    BY <2>2, <2>4 DEF Fresh, DiscardsAreStale
  <2>6. row[s].ver \in 1..Len(hist[s])
    BY <2>2, <2>3 DEF Settling, RowsInHistory, Known, Row
  <2>7. hist[s][e.ver].at <= hist[s][row[s].ver].at
    BY <2>4, <2>5, <2>6 DEF Fresh, HistoryOrdered
  <2> QED BY <2>1, <2>2, <2>3, <2>4, <2>7 DEF Includes, Row
<1> QED BY <1>1, <1>2

\* No account is linked after an event of one of its subscriptions was done.
LEMMA LinkedBefore ==
    ASSUME Typed, Fresh, Accounts, Settling, [Next]_vars, NEW s \in Subs,
           NEW e \in doneEver, e.kind = "subscription", e.sub = s,
           account'[Owner[s]] = "linked"
    PROVE  Linked(Owner[s])
<1> USE DEF gateway, database
<1>0. TypeOK /\ \A t \in Subs : Owner[t] \in Users
  BY OwnerAssumption DEF Typed
<1>1. Opened(s)
  <2>1. e \in sent /\ e.ver > 0 /\ e.ver <= Len(hist[s]) /\ e.ver \in Nat
    BY <1>0 DEF Settling, DoneWasSent, Fresh, EventsAnchored, Typed,
                EventsInHistory, TypeOK, Event
  <2>2. Len(hist[s]) \in Nat
    BY <1>0 DEF TypeOK
  <2> QED BY <2>1, <2>2 DEF Opened
<1>2. UNCHANGED account => Linked(Owner[s])
  BY DEF Linked
<1>3. ASSUME NEW t \in Subs, createCheckoutSession(t) \/ createSubscriptionIntent(t)
      PROVE  Linked(Owner[s])
  <2>1. CASE Owner[t] = Owner[s]
    BY <1>0, <1>1, <1>3, <2>1
    DEF createCheckoutSession, createSubscriptionIntent, MayOpen, Accounts,
        TypeOK, Linked
  <2>2. CASE Owner[t] # Owner[s]
    BY <1>0, <1>3, <2>2
    DEF createCheckoutSession, createSubscriptionIntent, ensureStripeCustomer,
        TypeOK, Linked
  <2> QED BY <2>1, <2>2
<1>4. ASSUME NEW t \in Subs,
             \/ CompleteCheckout(t) \/ ConfirmSetup(t)
             \/ GatewayChange(t) \/ EmitInvoice(t)
      PROVE  Linked(Owner[s])
  BY <1>2, <1>4 DEF CompleteCheckout, ConfirmSetup, GatewayChange, EmitInvoice
<1>5. ASSUME NEW u \in Users, Erasure(u) PROVE Linked(Owner[s])
  BY <1>0, <1>2, <1>5
  DEF Erasure, terminateBillingForUser, anonymizeUser, unlinkStripeCustomer,
      TypeOK, Linked
<1>6. ASSUME NEW w \in Workers, Webhook(w) PROVE Linked(Owner[s])
  BY <1>2, <1>6
  DEF Webhook, Receive, applyExternalEffects, Duplicate, Begin, Discard
<1>7. ASSUME NEW p \in Procs, Transaction(p) \/ Fail(p) PROVE Linked(Owner[s])
  BY <1>2, <1>7 DEF Transaction, Write, Recount, Commit, Fail
<1>8. CASE Reconciler
  BY <1>2, <1>8 DEF Reconciler, PickStale, StartScan, RetrieveStale, StampStale,
                    ListOrphan, Adopt
<1>9. CASE Tick \/ Purge \/ UNCHANGED vars
  BY <1>2, <1>9 DEF Tick, Purge, vars
<1> QED
  BY <1>3, <1>4, <1>5, <1>6, <1>7, <1>8, <1>9 DEF Next, Gateway

LEMMA AbsorbedStep ==
    ASSUME OneAtATime
    PROVE  Typed /\ Fresh /\ Accounts /\ Ahead /\ Settling /\ [Next]_vars
           => Absorbed'
<1> SUFFICES ASSUME Typed, Fresh, Accounts, Ahead, Settling, [Next]_vars,
                    NEW s \in Subs, NEW e \in doneEver', e.kind = "subscription",
                    e.sub = s, account'[Owner[s]] = "linked"
             PROVE  /\ row'[s].ver > 0 /\ e.at <= row'[s].synced
                    /\ e.at <= hist'[s][row'[s].ver].at
  BY DEF Absorbed, Includes, Known, Linked
<1> USE DEF gateway, database
<1>1. ASSUME NEW w \in Workers, Commit(w)
      PROVE  /\ row'[s].ver > 0 /\ e.at <= row'[s].synced
             /\ e.at <= hist'[s][row'[s].ver].at
  <2>1. Linked(Owner[s]) /\ e \in doneEver \cup {proc[w].job}
    BY <1>1 DEF Commit, Linked
  <2> QED BY <1>1, <2>1, CommitAbsorbs
<1>2. ASSUME NEW w \in Workers, Discard(w)
      PROVE  /\ row'[s].ver > 0 /\ e.at <= row'[s].synced
             /\ e.at <= hist'[s][row'[s].ver].at
  <2>1. Linked(Owner[s]) /\ e \in doneEver \cup {proc[w].job}
    BY <1>2 DEF Discard, Linked
  <2>2. Includes(s, e)
    BY <1>2, <2>1, DiscardAbsorbs
  <2>3. row' = row
    BY <1>2 DEF Discard
  <2> QED BY <2>2, <2>3, IncludesStays DEF Settling
<1>3. ASSUME ~ \E w \in Workers : Commit(w) \/ Discard(w)
      PROVE  /\ row'[s].ver > 0 /\ e.at <= row'[s].synced
             /\ e.at <= hist'[s][row'[s].ver].at
  <2>1. e \in doneEver
    BY <1>3, DoneSource
  <2>2. Linked(Owner[s])
    BY <2>1, LinkedBefore
  <2>3. Includes(s, e)
    BY <2>1, <2>2 DEF Settling, Absorbed
  <2>4. row'[s] = row[s]
    <3>1. ASSUME NEW p \in Procs, Commit(p) PROVE FALSE
      BY <1>3, <3>1 DEF Commit, Procs, Fresh, SyncOff
    <3>2. ASSUME NEW u \in Users, anonymizeUser(u) PROVE row'[s] = row[s]
      <4>1. u # Owner[s]
        BY <3>2 DEF anonymizeUser, Typed, TypeOK
      <4> QED BY <3>2, <4>1 DEF anonymizeUser
    <3> QED BY <3>1, <3>2, RowWriters
  <2> QED BY <2>3, <2>4, IncludesStays DEF Settling
<1> QED BY <1>1, <1>2, <1>3

LEMMA SettlingStep ==
    ASSUME OneAtATime
    PROVE  Typed /\ Fresh /\ Accounts /\ Ahead /\ Settling /\ [Next]_vars
           => Settling'
BY AbsorbedStep, CaughtStep, CarriedStep, DoneWasSentStep, RowsInHistoryStep
   DEF Settling, OneAtATime

\* The event of the last version is done, so the row has it.
LEMMA SettledIsCurrent ==
    ASSUME Typed, Fresh, Told, Settling PROVE SettledRowsCurrent
<1> SUFFICES ASSUME NEW s \in Subs, Opened(s), Linked(Owner[s]),
                    \A e \in sent : e.kind = "subscription" /\ e.sub = s
                                    => e \in doneEver
             PROVE  Known(s) /\ hist[s][row[s].ver].at = Last(s).at
  BY DEF SettledRowsCurrent
<1> DEFINE n == Len(hist[s])
<1>1. hist[s] \in Seq(Version) /\ n \in 1..n
  BY DEF Typed, TypeOK, Opened
<1>2. PICK e \in sent : /\ e.kind = "subscription" /\ e.sub = s
                        /\ e.at = hist[s][n].at
  BY <1>1 DEF Told
<1>3. Known(s) /\ e.at <= hist[s][row[s].ver].at
  BY <1>2 DEF Settling, Absorbed, Includes
<1>4. row[s].ver \in 1..n
  BY <1>3 DEF Settling, RowsInHistory, Known, Typed, TypeOK, Row
<1>5. hist[s][row[s].ver].at <= hist[s][n].at
  BY <1>1, <1>4 DEF Fresh, HistoryOrdered
<1>6. hist[s][row[s].ver] \in Version /\ hist[s][n] \in Version
  BY <1>1, <1>4, ElementOfSeq
<1> QED BY <1>2, <1>3, <1>5, <1>6 DEF Last, Version

(* One webhook at a time: when every event of a subscription whose account *)
(* is linked has been taken, in whatever order and with whatever number of *)
(* redeliveries and failures, and whatever the eraser did, the row shows   *)
(* the subscription as the gateway has it.  The discarded events lost      *)
(* nothing, and none was dropped because the link came late.               *)
THEOREM SettledIsUpToDate ==
    ASSUME OneAtATime, "subscription" \in Kinds
    PROVE  Spec => []SettledRowsCurrent
<1>0. ~ SyncEnabled
  BY DEF OneAtATime
<1> QED
  BY <1>0, TypedInit, TypedStep, OnceInit, OnceStep, FreshInit, FreshStep,
     AheadInit, AheadStep, AccountsInit, AccountsStep, ToldInit, ToldStep,
     SettlingInit, SettlingStep, SettledIsCurrent, PTL
  DEF Spec

=============================================================================
