------------------------------- MODULE Fanout -------------------------------
(***************************************************************************)
(* The fan-outs of the notifications worker: a published event, the reach  *)
(* a promotion bought, a published spot (with its discovery pass for a     *)
(* premium creator) and a spot somebody joined.  A job pages its audience  *)
(* by user id, drops who was told already, inserts the rows and delivers   *)
(* them.  Audiences change meanwhile, steps fail, the worker dies and its  *)
(* jobs are run again.                                                     *)
(***************************************************************************)
EXTENDS Naturals, FiniteSets, FiniteSetsExt

CONSTANTS Users,        \* user ids, in the order of the keyset
          Jobs,         \* the jobs
          Groups,       \* sets of jobs that may be queued together
          Kind,         \* [Jobs -> "created", "promotion", "spot", "joined"]
          Target,       \* [Jobs -> the event or spot]
          Premium,      \* the spot jobs whose creator is premium
          Batch,        \* NOTIFY_FANOUT_BATCH_SIZE
          Attempts,     \* attempts of a promotion.started job
          Gap,          \* PROMOTION_REACH_MIN_GAP_HOURS
          DISCOVERY_DAILY_CAP,
          MaxTime,      \* bound on the clock
          MaxChanges,   \* [Jobs -> bound on changes a job may see]
          MaxFaults     \* bound on steps that throw and deaths of the worker

ASSUME FanoutAssumption ==
  /\ Users \subseteq Nat \ {0} /\ IsFiniteSet(Users) /\ Users # {}
  /\ IsFiniteSet(Jobs) /\ Groups \subseteq SUBSET Jobs
  /\ \A j, k \in Jobs :      \* an event is announced by one job
       Kind[j] = "created" /\ Kind[k] = "created" /\ Target[j] = Target[k] => j = k
  /\ Batch \in Nat \ {0} /\ Attempts \in Nat \ {0}
  /\ Gap \in Nat /\ DISCOVERY_DAILY_CAP \in Nat /\ MaxTime \in Nat \ {0}

VARIABLES
  group,          \* the jobs queued
  now, near,      \* who each target's query admits, tastes apart
  prefers,        \* who likes a category or subcategory of the target
  live,           \* targets neither canceled nor over
  at,             \* when the row of a job's key and a user was made (0: none)
  sent,           \* deliveries of each row
  usage,          \* spot_discovery_usage of the day
  found,          \* who the discovery pass of each job counted that day
  run,            \* where each job is
  steady,         \* who has been in the audience since the job was loaded
  changes, faults

env == <<group, now, near, prefers, live, changes>>
vars == <<env, at, sent, usage, found, run, steady, faults>>

Waiting == [pc |-> "waiting", discovery |-> FALSE, cursor |-> 0, page |-> {},
            to |-> {}, since |-> 0, left |-> Attempts]

TypeOK ==
  /\ group \in Groups /\ now \in 1..MaxTime
  /\ near \in [Jobs -> SUBSET Users] /\ prefers \in [Jobs -> SUBSET Users]
  /\ live \subseteq {Target[j] : j \in Jobs}
  /\ at \in [Jobs -> [Users -> 0..MaxTime]] /\ sent \in [Jobs -> [Users -> Nat]]
  /\ usage \in [Users -> 0..DISCOVERY_DAILY_CAP]
  /\ found \in [Jobs -> SUBSET Users] /\ steady \in [Jobs -> SUBSET Users]
  /\ \A j \in Jobs : run[j].page \subseteq Users /\ run[j].to \subseteq run[j].page

Init ==
  /\ group \in Groups /\ now = 1 /\ live = {Target[j] : j \in Jobs}
  /\ near = [j \in Jobs |-> Users] /\ prefers = [j \in Jobs |-> {Max(Users)}]
  /\ at = [j \in Jobs |-> [u \in Users |-> 0]]
  /\ sent = [j \in Jobs |-> [u \in Users |-> 0]]
  /\ usage = [u \in Users |-> 0] /\ found = [j \in Jobs |-> {}]
  /\ run = [j \in Jobs |-> Waiting] /\ steady = [j \in Jobs |-> {}]
  /\ changes = 0 /\ faults = 0

-----------------------------------------------------------------------------
(* The audience of a job, and who of a page is still to be told. *)

\* A promotion pays to leave the bubble of tastes; the discovery pass takes
\* those the first pass left out.
Audience(j, discovery) ==
  IF Kind[j] \in {"promotion", "joined"} THEN near[j]
  ELSE IF discovery THEN near[j] \ prefers[j] ELSE near[j] \cap prefers[j]

\* The next page: the first ids above the cursor.
Page(j) ==
  LET rest == {u \in Audience(j, run[j].discovery) : u > run[j].cursor}
  IN {u \in rest : Kind[j] = "joined" \/ Cardinality({v \in rest : v <= u}) <= Batch}

\* A page shorter than the batch is the last one.
LastPage(j) == Kind[j] = "joined" \/ Cardinality(run[j].page) < Batch

HasRow(j) == {u \in Users : at[j][u] > 0}

\* The jobs whose rows count as this job's: those of its dedupe key, but an
\* announcement goes by type and event, which a promotion's rows share.
Alike(j) == IF Kind[j] = "created"
            THEN {k \in Jobs : Target[k] = Target[j] /\ Kind[k] \in {"created", "promotion"}}
            ELSE {j}

Existing(j) == UNION {HasRow(k) : k \in Alike(j)}

\* Who heard of the same event since the cutoff, by whatever key.
JustNotified(j) ==
  {u \in Users : \E k \in Jobs : Target[k] = Target[j] /\ at[k][u] > 0
                                 /\ at[k][u] >= run[j].since}

\* Earlier notices of this job are not asked for.
RecipientsAnyway(j) ==
  LET page == run[j].page
  IN IF Kind[j] = "promotion" THEN page \ JustNotified(j) ELSE page

\* Whoever was not told of it before; a promotion spares who was told of the event a moment ago.
Recipients(j) ==
  LET page == run[j].page
  IN IF Kind[j] = "promotion" THEN page \ (Existing(j) \cup JustNotified(j))
                              ELSE page \ Existing(j)

\* No daily budget.
BudgetedAnyway(S) == S
\* The one statement that counts a discovery and says whom it counted.
Budgeted(S) == {u \in S : usage[u] < DISCOVERY_DAILY_CAP}

-----------------------------------------------------------------------------
(* A job. *)

Set(j, r) == run' = [run EXCEPT ![j] = r]

Finished(j, pc) == [Waiting EXCEPT !.pc = pc]

\* The job begins, or begins again: the target is read, and with it the
\* moment a promotion counts its gap from.
load(j) ==
  /\ run[j].pc = "waiting" /\ j \in group
  /\ IF Target[j] \in live
     THEN /\ Set(j, [run[j] EXCEPT !.pc = "scan",
                                   !.since = IF now > Gap THEN now - Gap ELSE 0])
          /\ steady' = [steady EXCEPT ![j] = Audience(j, FALSE)]
     ELSE Set(j, Finished(j, "done")) /\ steady' = [steady EXCEPT ![j] = {}]
  /\ UNCHANGED <<env, at, sent, usage, found, faults>>

\* What follows the last page: a premium spot's discovery pass, or the end.
AfterPass(j) ==
  IF j \in Premium /\ ~run[j].discovery
  THEN [run[j] EXCEPT !.pc = "scan", !.discovery = TRUE, !.cursor = 0,
                      !.page = {}, !.to = {}]
  ELSE Finished(j, "done")

\* The cursor one user too far.
scanFromPage(j) ==
  /\ run[j].pc = "scan"
  /\ Set(j, IF Page(j) = {} THEN AfterPass(j)
            ELSE [run[j] EXCEPT !.pc = "filter", !.page = Page(j),
                                !.cursor = Max(Page(j)) + 1])
  /\ UNCHANGED <<env, at, sent, usage, found, steady, faults>>

\* The next page of candidates; without one the pass is over.
scan(j) ==
  /\ run[j].pc = "scan"
  /\ Set(j, IF Page(j) = {} THEN AfterPass(j)
            ELSE [run[j] EXCEPT !.pc = "filter", !.page = Page(j),
                                !.cursor = Max(Page(j))])
  /\ UNCHANGED <<env, at, sent, usage, found, steady, faults>>

NextPage(j) == IF LastPage(j) THEN AfterPass(j)
               ELSE [run[j] EXCEPT !.pc = "scan", !.page = {}, !.to = {}]

filter(j) ==
  LET to == IF run[j].discovery THEN Budgeted(Recipients(j)) ELSE Recipients(j)
  IN /\ run[j].pc = "filter"
     /\ usage' = IF run[j].discovery
                 THEN [u \in Users |-> IF u \in to /\ usage[u] < DISCOVERY_DAILY_CAP
                                       THEN usage[u] + 1 ELSE usage[u]]
                 ELSE usage
     /\ found' = IF run[j].discovery THEN [found EXCEPT ![j] = @ \cup to] ELSE found
     /\ Set(j, IF to = {} THEN NextPage(j)
               ELSE [run[j] EXCEPT !.pc = "create", !.to = to])
     /\ UNCHANGED <<env, at, sent, steady, faults>>

\* One INSERT for the page; rows that exist are skipped.
create(j) ==
  /\ run[j].pc = "create"
  /\ at' = [at EXCEPT ![j] = [u \in Users |-> IF u \in run[j].to \ HasRow(j)
                                              THEN now ELSE @[u]]]
  /\ Set(j, [run[j] EXCEPT !.pc = "deliver"])
  /\ UNCHANGED <<env, sent, usage, found, steady, faults>>

\* The rows are read back and sent.
Delivered(j, S) ==
  sent' = [k \in Jobs |-> IF k \in Alike(j)
             THEN [u \in Users |-> IF u \in S \cap HasRow(k) THEN sent[k][u] + 1
                                                            ELSE sent[k][u]]
             ELSE sent[k]]

deliver(j) ==
  /\ run[j].pc = "deliver"
  /\ Delivered(j, run[j].to)
  /\ Set(j, NextPage(j))
  /\ UNCHANGED <<env, at, usage, found, steady, faults>>

Active(j) == run[j].pc \notin {"waiting", "done", "failed"}

\* A free fan-out ends quietly on an error; a promotion's job is retried.
AfterError(j) ==
  IF Kind[j] = "promotion" /\ run[j].left > 1
  THEN [Waiting EXCEPT !.left = run[j].left - 1]
  ELSE Finished(j, "failed")

\* A step throws; a delivery may have reached some of its users before.
fail(j) ==
  /\ Active(j) /\ faults < MaxFaults /\ faults' = faults + 1
  /\ \E S \in SUBSET (IF run[j].pc = "deliver" THEN run[j].to ELSE {}) : Delivered(j, S)
  /\ Set(j, AfterError(j))
  /\ UNCHANGED <<env, at, usage, found, steady>>

\* The worker dies; the jobs it held stall and are run again from the start.
crash ==
  /\ faults < MaxFaults /\ \E j \in Jobs : Active(j)
  /\ faults' = faults + 1
  /\ run' = [j \in Jobs |-> IF Active(j) THEN [Waiting EXCEPT !.left = run[j].left]
                                         ELSE run[j]]
  /\ UNCHANGED <<env, at, sent, usage, found, steady>>

-----------------------------------------------------------------------------
(* The users, the targets and the calendar. *)

\* Bound: only changes a job that is not over may still see.
Seen(j) == j \in group /\ run[j].pc \notin {"done", "failed"} /\ changes < MaxChanges[j]

\* A consent, a location, a block, an attendance or a membership changes.
move(j, u) ==
  /\ Seen(j) /\ changes' = changes + 1
  /\ near' = [near EXCEPT ![j] = SymDiff(@, {u})]
  /\ steady' = [steady EXCEPT ![j] = @ \ {u}]
  /\ UNCHANGED <<group, now, prefers, live, at, sent, usage, found, run, faults>>

changeTaste(j, u) ==
  /\ Seen(j) /\ Kind[j] \in {"created", "spot"} /\ changes' = changes + 1
  /\ prefers' = [prefers EXCEPT ![j] = SymDiff(@, {u})]
  /\ steady' = [steady EXCEPT ![j] = @ \ {u}]
  /\ UNCHANGED <<group, now, near, live, at, sent, usage, found, run, faults>>

cancel(j) ==
  /\ Seen(j) /\ Target[j] \in live /\ changes' = changes + 1
  /\ live' = live \ {Target[j]}
  /\ UNCHANGED <<group, now, near, prefers, at, sent, usage, found, run, steady, faults>>

\* A day: the discovery cap starts over.
Tick ==
  /\ now < MaxTime /\ now' = now + 1
  /\ usage' = [u \in Users |-> 0] /\ found' = [j \in Jobs |-> {}]
  /\ UNCHANGED <<group, near, prefers, live, changes, at, sent, run, steady, faults>>

Step(j) == load(j) \/ scan(j) \/ filter(j) \/ create(j) \/ deliver(j)

Next ==
  \/ \E j \in Jobs : Step(j) \/ fail(j) \/ cancel(j)
  \/ \E j \in Jobs, u \in Users : move(j, u) \/ changeTaste(j, u)
  \/ crash \/ Tick

Spec == Init /\ [][Next]_vars

-----------------------------------------------------------------------------
(* Properties. *)

\* A promotion's rows may be sent again by the announcement of its event.
Again(j) == Kind[j] = "promotion"
            /\ \E g \in Groups : j \in g /\ \E k \in g : Kind[k] = "created" /\ j \in Alike(k)

Counted == {p \in Jobs \X Users : ~Again(p[1])}

Box == INSTANCE Outbox WITH
         Pairs <- Counted,
         stored <- {p \in Counted : at[p[1]][p[2]] > 0},
         sent <- [p \in Counted |-> sent[p[1]][p[2]]]

\* A fan-out that failed or died half way and is run again tells nobody twice,
\* and sends nothing it has not stored: it implements the outbox
\* (proximity-fanout.service.ts:20-21).
DeliversOnce == Box!Spec

\* When a job completes, whoever was in its audience from the load on has its
\* row, whatever joined or left the pages meanwhile: the keyset skips nobody.
\* Only those told of the same event by another job may be left out.
ReachCovered ==
  \A j \in group : run[j].pc = "done" =>
    \A u \in steady[j] : \E k \in Jobs : Target[k] = Target[j] /\ at[k][u] > 0
                                         /\ (k = j \/ Kind[j] \in {"created", "promotion"})

\* However many premium spots are published at once, nobody is counted in a day
\* for more spots outside their tastes than the cap.
DiscoveryCapped ==
  \A u \in Users : Cardinality({j \in Jobs : u \in found[j]}) <= DISCOVERY_DAILY_CAP
=============================================================================
