------------------------------ MODULE Featured ------------------------------
(***************************************************************************)
(* Paid promotion of an event: the windows bought (featured_events), the   *)
(* monthly quota they spend, the mirror events.isFeatured, and the job     *)
(* `promotion.started` that sends the first wave of a window.              *)
(*                                                                         *)
(* The reconciler ticks far more often than windows open: the clock moves  *)
(* once a tick has run and no request or job is open.                      *)
(***************************************************************************)
EXTENDS Naturals, FiniteSets

CONSTANTS Windows,       \* the promotions asked for
          Slots,         \* bound: requests at the same time
          MonthlyLimit,  \* PROMOTION_MONTHLY_LIMIT
          MaxDuration,   \* PROMOTION_MAX_DURATION_DAYS
          EventDate,     \* the start of the event; the clock stops there
          MonthLength,   \* the instants of a month
          MaxCrashes,    \* bound: processes that stop
          None           \* no value

Times == 0..EventDate
Feature == [startsAt : Times, endsAt : Nat, canceled : BOOLEAN, month : Times]

FeaturedAssumption ==
  /\ MonthlyLimit \in Nat /\ MaxDuration \in Nat /\ EventDate \in Nat
  /\ MonthLength \in Nat \ {0} /\ MaxCrashes \in Nat /\ IsFiniteSet(Windows)
  /\ None \notin Feature

VARIABLES
  now,        \* the clock
  features,   \* [Windows -> [startsAt, endsAt, canceled, month]
              \* of the purchase, or None]
  usage,      \* [months -> promotions spent]: EventPromotionUsage
  isFeatured, \* the mirror on the event row
  slot,       \* [Slots -> what the request holds, or None]
  tick,       \* the reconciler: "due", "deactivated", "enqueuing", "ran"
  job,        \* a promotion.started job waits in the queue (one per event)
  reached,    \* windows whose first wave went out
  crashes     \* processes that stopped

vars == <<now, features, usage, isFeatured, slot, tick, job, reached, crashes>>

TypeOK ==
  /\ now \in Times /\ crashes \in 0..MaxCrashes /\ {isFeatured, job} \subseteq BOOLEAN
  /\ features \in [Windows -> Feature \cup {None}]
  /\ usage \in [Times -> Nat] /\ reached \subseteq Windows /\ DOMAIN slot = Slots
  /\ tick \in {"due", "deactivated", "enqueuing", "ran"}

Init ==
  /\ now = 0
  /\ features = [w \in Windows |-> None]
  /\ usage = [m \in Times |-> 0]
  /\ isFeatured = FALSE
  /\ slot = [s \in Slots |-> None]
  /\ tick = "due"
  /\ job = FALSE
  /\ reached = {}
  /\ crashes = 0

-----------------------------------------------------------------------------
Bought == {w \in Windows : features[w] # None /\ ~features[w].canceled}

\* The window is open: both ends count.
OpenAt(f, t) == f.startsAt <= t /\ t <= f.endsAt

\* findActiveFeature: any of them, when two touch.
ActiveFeatures == {w \in Bought : OpenAt(features[w], now)}

\* findOverlappingActiveFeature and the exclusion constraint: [start, end).
Overlaps(f) ==
  \E w \in Bought : features[w].startsAt < f.endsAt /\ features[w].endsAt > f.startsAt

\* promotionPeriodFor: the month of the instant.
Period(t) == t \div MonthLength

Holds(s, op) == slot[s] # None /\ slot[s].op = op
Step(s, h) == slot' = [slot EXCEPT ![s] = h]

-----------------------------------------------------------------------------
(* Requests.                                                               *)

\* addFeaturedEvent: not in the past, over before the event, not too long,
\* and no overlap with what is bought by now.
addFeaturedEvent(s) ==
  /\ slot[s] = None
  /\ \E w \in Windows, from \in Times, to \in Times :
       LET f == [startsAt |-> from, endsAt |-> to] IN
       /\ features[w] = None
       /\ \A r \in Slots : slot[r] # None => slot[r].w # w
       /\ from >= now /\ from < to /\ to - from <= MaxDuration
       /\ ~Overlaps(f)
       /\ Step(s, [op |-> "create", w |-> w, f |-> f])
  /\ UNCHANGED <<now, features, usage, isFeatured, tick, job, reached, crashes>>

\* createFeaturedEventWithQuota: consumePromotionQuotaTx, the row, and the
\* mirror when the window is open, in one transaction; over the quota or over
\* another window the whole of it is undone.
QuotaLeft == usage[Period(now)] + 1 <= MonthlyLimit

\* A refused purchase is counted as well.
SpentAnyway(committed) == 1

\* The quota is written in the transaction of the purchase.
Spent(committed) == IF committed THEN 1 ELSE 0

createFeaturedEvent(s) ==
  /\ Holds(s, "create")
  /\ LET h == slot[s]
         committed == QuotaLeft /\ ~Overlaps(h.f) IN
       /\ features' = IF ~committed THEN features
                      ELSE [features EXCEPT ![h.w] = [startsAt |-> h.f.startsAt,
                              endsAt |-> h.f.endsAt, canceled |-> FALSE,
                              month |-> Period(now)]]
       /\ usage' = [usage EXCEPT ![Period(now)] = @ + Spent(committed)]
       /\ isFeatured' = (isFeatured \/ (committed /\ OpenAt(h.f, now)))
       /\ Step(s, IF committed THEN [h EXCEPT !.op = "created"] ELSE None)
  /\ UNCHANGED <<now, tick, job, reached, crashes>>

\* The paid reach of a window already open is queued after the commit.
enqueueCreated(s) ==
  /\ Holds(s, "created")
  /\ job' = (job \/ OpenAt(slot[s].f, now))
  /\ Step(s, None)
  /\ UNCHANGED <<now, features, usage, isFeatured, tick, reached, crashes>>

\* What the mirror becomes when `w` is canceled: another may be open.
MirrorWithout(w) == ActiveFeatures \ {w} # {}

\* cancelFeaturedEvent: softCancelAndRecalculateTx.  The quota is not returned.
cancelFeaturedEvent(w) ==
  /\ w \in Bought
  /\ features' = [features EXCEPT ![w].canceled = TRUE]
  /\ isFeatured' = MirrorWithout(w)
  /\ UNCHANGED <<now, usage, slot, tick, job, reached, crashes>>

-----------------------------------------------------------------------------
(* reconcileFeaturedEvents: two updates and the enqueueing of what the     *)
(* second one turned on.                                                   *)

deactivate ==
  /\ tick = "due"
  /\ isFeatured' = (isFeatured /\ ActiveFeatures # {})
  /\ tick' = "deactivated"
  /\ UNCHANGED <<now, features, usage, slot, job, reached, crashes>>

\* No window opens.
ActivatesNone == FALSE
\* Does the second update turn the mirror on?
Activates == ~isFeatured /\ ActiveFeatures # {}

activate ==
  /\ tick = "deactivated"
  /\ isFeatured' = (isFeatured \/ Activates)
  /\ tick' = IF Activates THEN "enqueuing" ELSE "ran"
  /\ UNCHANGED <<now, features, usage, slot, job, reached, crashes>>

enqueueActivated ==
  /\ tick = "enqueuing"
  /\ job' = TRUE
  /\ tick' = "ran"
  /\ UNCHANGED <<now, features, usage, isFeatured, slot, reached, crashes>>

-----------------------------------------------------------------------------
(* runPromotionReachFanout, with the retries of its queue: the wave of the *)
(* window open now, once.                                                  *)
runReach ==
  /\ job
  /\ \/ /\ ActiveFeatures = {}
        /\ UNCHANGED reached
     \/ \E w \in ActiveFeatures : reached' = reached \cup {w}
  /\ job' = FALSE
  /\ UNCHANGED <<now, features, usage, isFeatured, slot, tick, crashes>>

-----------------------------------------------------------------------------
\* The process stops: its requests and its pass are gone, the queue stays.
crash ==
  /\ crashes < MaxCrashes
  /\ crashes' = crashes + 1
  /\ slot' = [s \in Slots |-> None]
  /\ tick' = "due"
  /\ UNCHANGED <<now, features, usage, isFeatured, job, reached>>

Advance ==
  /\ tick = "ran"
  /\ ~job
  /\ \A s \in Slots : slot[s] = None
  /\ tick' = "due"
  /\ now' = IF now < EventDate THEN now + 1 ELSE now
  /\ UNCHANGED <<features, usage, isFeatured, slot, job, reached, crashes>>

Serve(s) == createFeaturedEvent(s) \/ enqueueCreated(s)
Reconcile == deactivate \/ activate \/ enqueueActivated

Next ==
  \/ \E s \in Slots : \/ addFeaturedEvent(s) \/ createFeaturedEvent(s)
                      \/ enqueueCreated(s)
  \/ \E w \in Windows : cancelFeaturedEvent(w)
  \/ deactivate \/ activate \/ enqueueActivated
  \/ runReach \/ crash \/ Advance

(* Requests once begun go on, the timer fires, the worker takes jobs, time *)
(* passes.                                                                 *)
Fairness ==
  /\ \A s \in Slots : WF_vars(Serve(s))
  /\ WF_vars(Reconcile) /\ WF_vars(runReach) /\ WF_vars(Advance)

Spec == Init /\ [][Next]_vars /\ Fairness

-----------------------------------------------------------------------------
(* The quota of a month counts the promotions bought in it and no attempt  *)
(* that was refused; it never passes the limit.                            *)
QuotaCountsPurchases ==
  \A m \in Times :
    /\ usage[m] <= MonthlyLimit
    /\ usage[m] = Cardinality({w \in Windows : /\ features[w] # None
                                             /\ features[w].month = m})

(* The mirror follows the windows: it never stays on after them, nor off   *)
(* while one is open.                                                      *)
MirrorCatchesUp ==
  isFeatured # (ActiveFeatures # {}) ~> isFeatured = (ActiveFeatures # {})

(* The wave of a paid window goes out, unless the author cancels it or a   *)
(* process stops on its way (featured-events.service: a scheduled one is   *)
(* queued by the reconciler in the tick in which its window opens).        *)
Touches(v, w) == /\ v # w /\ features[v] # None
                 /\ \/ features[v].endsAt = features[w].startsAt
                    \/ features[v].startsAt = features[w].endsAt
PaidReach ==
  \A w \in Windows :
    w \in ActiveFeatures ~> (w \in reached \/ w \notin Bought \/ crashes > 0)

(* The same for a window that no other one touches.                        *)
LoneWindowReached ==
  \A w \in Windows :
    w \in ActiveFeatures ~>
      \/ w \in reached \/ w \notin Bought \/ crashes > 0
      \/ \E v \in Windows : Touches(v, w)
=============================================================================
