------------------------------- MODULE Spots -------------------------------
(***************************************************************************)
(* The spots (roles) of one creator: publication under the cap, the group  *)
(* conversation that is born with a spot, joining, renewal and its         *)
(* reminder, cancellation, and the clean-up when a spot is over.           *)
(*                                                                         *)
(* A handler keeps what it read in its slot, one action per statement or   *)
(* transaction.  The reconciler runs far more often than the clock of the  *)
(* model moves: time waits for it, not for the handlers.                   *)
(***************************************************************************)
EXTENDS Naturals, FiniteSets

CONSTANTS Creator, Guests,   \* users
          Friends,           \* guests who follow the creator and are followed back
          Blocked,           \* guests with a block between them and the creator
          Spots,             \* bound: the spots ever published
          Slots,             \* bound: handlers at the same time
          MAX_ACTIVE_SPOTS, SPOT_WINDOW,  \* the cap; the hours of a window
          LEAD, SOON,        \* the reminder's lead; SOON_THRESHOLD
          MaxTime,           \* bound: the clock
          MaxRequests,       \* bound: requests
          MaxCrashes,        \* bound: processes that stop
          None               \* no value

Everyone == Guests \cup {Creator}

SpotsAssumption ==
  /\ Creator \notin Guests /\ Friends \cup Blocked \subseteq Guests
  /\ Friends \cap Blocked = {}     \* a block severs the follows
  /\ SPOT_WINDOW \in Nat \ {0} /\ LEAD \in Nat \ {0} /\ SOON \in Nat
  /\ MAX_ACTIVE_SPOTS \in Nat /\ {MaxTime, MaxRequests, MaxCrashes} \subseteq Nat
  /\ IsFiniteSet(Spots) /\ IsFiniteSet(Guests)
  /\ None \notin Everyone /\ \A S \in SUBSET Everyone : S # None

Statuses == {"ONGOING", "SOON", "UPCOMING", "PAST", "CANCELED"}

VARIABLES
  now,       \* the clock
  spots,     \* [Spots -> row or None]
  members,   \* [Spots -> active participants of its conversation, or None]
  slot,      \* [Slots -> what the handler holds, or None]
  pass,      \* the reconciler
  reminded,  \* the SPOT_RENEWAL rows, by dedupe key: <<spot, end of window>>
  excused,   \* history: spots whose reminder was cut short, renewed under it, or
             \* that were inserted after their end
  late,      \* history: spots that a join or a renewal reached after their end
  requests, crashes

vars == <<now, spots, members, slot, pass, reminded, excused, late, requests,
          crashes>>

Idle == [step |-> "idle", todo |-> {}, at |-> 0]

TypeOK ==
  /\ now \in 0..MaxTime /\ requests \in 0..MaxRequests /\ crashes \in 0..MaxCrashes
  /\ \A i \in Spots : /\ spots[i] # None => spots[i].starts < spots[i].ends
                      /\ members[i] # None => members[i] \subseteq Guests \cup {Creator}
  /\ DOMAIN slot = Slots
  /\ pass.step \in {"idle", "remind", "marked", "clean", "counted"}
  /\ reminded \subseteq Spots \X Nat /\ excused \cup late \subseteq Spots

Init ==
  /\ now = 0
  /\ spots = [i \in Spots |-> None]
  /\ members = [i \in Spots |-> None]
  /\ slot = [s \in Slots |-> None]
  /\ pass = Idle
  /\ reminded = {}
  /\ excused = {}
  /\ late = {}
  /\ requests = 0
  /\ crashes = 0

-----------------------------------------------------------------------------
(* What is read.                                                           *)

Stored(i) == spots[i] # None
ActiveAt(i, t) == Stored(i) /\ ~spots[i].canceled /\ spots[i].ends > t
Active(i) == ActiveAt(i, now)

\* canView: open to all, or the creator, or a friend; nobody's id is None.
CanView(i, v) == ~spots[i].private \/ v = Creator \/ v \in Friends

\* ensureSpotVisible: what the detail answers to v, and to an anonymous reader.
Visible(i, v) == Stored(i) /\ v \notin Blocked /\ CanView(i, v)

\* The same with the border of the two open intervals left out.
StatusPredicateGap(i, status) ==
  \/ status = {}
  \/ "ONGOING" \in status /\ spots[i].starts <= now
  \/ "SOON" \in status /\ spots[i].starts > now /\ spots[i].starts < now + SOON
  \/ "UPCOMING" \in status /\ spots[i].starts > now + SOON

\* statusPredicate: a filter of statuses no active spot has matches nothing.
StatusPredicate(i, status) ==
  \/ status = {}
  \/ "ONGOING" \in status /\ spots[i].starts <= now
  \/ "SOON" \in status /\ spots[i].starts > now /\ spots[i].starts <= now + SOON
  \/ "UPCOMING" \in status /\ spots[i].starts > now + SOON

\* findVisibleSpotIds; findSpotIdsInBbox and findSpotIdsNearPoint only add where.
ListVisible(v, friendsOnly, status) ==
  {i \in Spots :
     /\ Active(i)
     /\ StatusPredicate(i, status)
     /\ IF v = None THEN ~friendsOnly /\ ~spots[i].private
        ELSE /\ v = Creator \/ v \in Friends \/ (~friendsOnly /\ ~spots[i].private)
             /\ v \notin Blocked}

Holds(s, op) == slot[s] # None /\ slot[s].op = op
Step(s, h) == slot' = [slot EXCEPT ![s] = h]
Begin(s, h) ==
  /\ slot[s] = None
  /\ requests < MaxRequests
  /\ requests' = requests + 1
  /\ Step(s, h)
World == <<now, crashes>>

\* The row is written by the transaction of the clean-up: others wait for it.
Locked(i) == pass.step = "counted" /\ pass.i = i

-----------------------------------------------------------------------------
(* Publication.                                                            *)

\* createSpot: a window that has not ended and is not longer than a day.
createSpot(s) ==
  /\ \E ends \in (now + 1)..(now + SPOT_WINDOW), private \in BOOLEAN :
       Begin(s, [op |-> "create", row |->
         [starts |-> ends - 1, ends |-> ends, private |-> private,
          canceled |-> FALSE, notified |-> FALSE]])
  /\ UNCHANGED <<World, spots, members, pass, reminded, excused, late>>

\* No lock on the creator.
UnlockedNot == TRUE

\* pg_advisory_xact_lock on the creator.
Unlocked == \A s \in Slots : ~Holds(s, "insert")

\* createSpotWithConversation: the lock and the count.
countActive(s) ==
  /\ Holds(s, "create")
  /\ Unlocked
  /\ Step(s, IF Cardinality({i \in Spots : Active(i)}) >= MAX_ACTIVE_SPOTS
             THEN None ELSE [slot[s] EXCEPT !.op = "insert"])
  /\ UNCHANGED <<World, spots, members, pass, reminded, excused, late, requests>>

\* The conversation with the creator and the spot, and the commit.
insertSpot(s) ==
  /\ Holds(s, "insert")
  /\ \E i \in Spots :
       /\ ~Stored(i) /\ members[i] = None
       /\ spots' = [spots EXCEPT ![i] = slot[s].row]
       /\ members' = [members EXCEPT ![i] = {Creator}]
       /\ excused' = IF slot[s].row.ends > now THEN excused ELSE excused \cup {i}
  /\ Step(s, None)
  /\ UNCHANGED <<World, pass, reminded, late, requests>>

-----------------------------------------------------------------------------
(* Joining and leaving.                                                    *)

\* joinSpot: a member already is told so; everyone else joins next.
joinSpot(s) ==
  /\ \E i \in Spots, g \in Guests :
       /\ Visible(i, g) /\ Active(i)
       /\ g \notin members[i]
       /\ Begin(s, [op |-> "join", i |-> i, u |-> g])
  /\ UNCHANGED <<World, spots, members, pass, reminded, excused, late>>

\* reactivateParticipant: without its conversation the upsert fails.
reactivateParticipant(s) ==
  /\ Holds(s, "join")
  /\ LET i == slot[s].i IN
       /\ members' = IF members[i] = None THEN members
                     ELSE [members EXCEPT ![i] = @ \cup {slot[s].u}]
       /\ late' = IF Active(i) THEN late ELSE late \cup {i}
  /\ Step(s, None)
  /\ UNCHANGED <<World, spots, pass, reminded, excused, requests>>

\* leaveGroup and removeGroupParticipant, from the chat.
leave(u, i) ==
  /\ members[i] # None /\ u \in members[i]
  /\ requests < MaxRequests
  /\ requests' = requests + 1
  /\ members' = [members EXCEPT ![i] = @ \ {u}]
  /\ UNCHANGED <<World, spots, slot, pass, reminded, excused, late>>

-----------------------------------------------------------------------------
(* The creator: cancelSpot, renewSpot.  (editSpot changes no column kept.) *)

cancelSpot(s) ==
  /\ \E i \in Spots : /\ Stored(i) /\ ~spots[i].canceled
                      /\ Begin(s, [op |-> "cancel", i |-> i])
  /\ UNCHANGED <<World, spots, members, pass, reminded, excused, late>>

cancelSpotById(s) ==
  /\ Holds(s, "cancel") /\ ~Locked(slot[s].i)
  /\ spots' = IF Stored(slot[s].i)
              THEN [spots EXCEPT ![slot[s].i].canceled = TRUE] ELSE spots
  /\ Step(s, None)
  /\ UNCHANGED <<World, members, pass, reminded, excused, late, requests>>

\* renewSpot: active when read; the quota is consumed before the update.
renewSpot(s) ==
  /\ \E i \in Spots : Active(i) /\ Begin(s, [op |-> "renew", i |-> i])
  /\ UNCHANGED <<World, spots, members, pass, reminded, excused, late>>

\* The same without the second column.
RenewedArmedNot(row) == [row EXCEPT !.ends = @ + SPOT_WINDOW]

\* One window more, and the reminder armed again.
Renewed(row) == [row EXCEPT !.ends = @ + SPOT_WINDOW, !.notified = FALSE]

\* renewSpotById, whatever became of the spot since it was read.
renewSpotById(s) ==
  /\ Holds(s, "renew") /\ ~Locked(slot[s].i)
  /\ LET i == slot[s].i IN
       /\ spots' = IF Stored(i) THEN [spots EXCEPT ![i] = Renewed(@)] ELSE spots
       /\ late' = IF Active(i) THEN late ELSE late \cup {i}
       /\ excused' = IF pass.step \in {"remind", "marked"} /\ \E r \in pass.todo : r[1] = i
                     THEN excused \cup {i} ELSE excused
  /\ Step(s, None)
  /\ UNCHANGED <<World, members, pass, reminded, requests>>

-----------------------------------------------------------------------------
(* reconcileSpotLifecycle.                                                 *)

\* findSpotsNeedingRenewalReminder.
NeedsReminder == {i \in Spots : /\ Active(i) /\ ~spots[i].notified
                                /\ spots[i].ends <= now + LEAD}

\* findCleanableSpots, and the guard of the deletion.
Cleanable(i, t) == Stored(i) /\ (spots[i].canceled \/ spots[i].ends <= t)

\* The spots to remind of, each with the end of the window it was read in.
findReminders ==
  /\ pass.step = "idle"
  /\ NeedsReminder # {} \/ \E i \in Spots : Cleanable(i, now)
  /\ pass' = [step |-> "remind", at |-> now,
              todo |-> {<<i, spots[i].ends>> : i \in NeedsReminder}]
  /\ UNCHANGED <<World, spots, members, slot, reminded, excused, late, requests>>

\* markSpotRenewalNotified: only where the flag is still clear.
markNotified ==
  /\ pass.step = "remind"
  /\ \E r \in pass.todo :
       LET i == r[1]
           won == Stored(i) /\ ~spots[i].notified IN
       /\ spots' = IF won THEN [spots EXCEPT ![i].notified = TRUE] ELSE spots
       /\ pass' = IF won THEN [step |-> "marked", at |-> pass.at, r |-> r,
                               todo |-> pass.todo]
                  ELSE [pass EXCEPT !.todo = @ \ {r}]
  /\ UNCHANGED <<World, members, slot, reminded, excused, late, requests>>

\* createNotificationIfNew, keyed by the window that was read.
createReminder ==
  /\ pass.step = "marked"
  /\ reminded' = reminded \cup {pass.r}
  /\ pass' = [step |-> "remind", at |-> pass.at, todo |-> pass.todo \ {pass.r}]
  /\ UNCHANGED <<World, spots, members, slot, excused, late, requests>>

findCleanable ==
  /\ pass.step = "remind" /\ pass.todo = {}
  /\ pass' = [step |-> "clean", at |-> pass.at,
              todo |-> {i \in Spots : Cleanable(i, pass.at)}]
  /\ UNCHANGED <<World, spots, members, slot, reminded, excused, late, requests>>

\* A pair counts as alone.
AloneOrTwo(i) == Cardinality(members[i]) <= 2

\* At most one active member is left.
Alone(i) == Cardinality(members[i]) <= 1

\* The transaction of deleteCleanableSpot: the guarded deletion and the count.
countMembers ==
  /\ pass.step = "clean"
  /\ \E i \in pass.todo :
       pass' = IF Cleanable(i, pass.at)
               THEN [step |-> "counted", at |-> pass.at, i |-> i,
                     alone |-> Alone(i), todo |-> pass.todo]
               ELSE [pass EXCEPT !.todo = @ \ {i}]
  /\ UNCHANGED <<World, spots, members, slot, reminded, excused, late, requests>>

\* The conversation, with whoever is in it by now, and the commit.
deleteSpot ==
  /\ pass.step = "counted"
  /\ spots' = [spots EXCEPT ![pass.i] = None]
  /\ members' = IF pass.alone THEN [members EXCEPT ![pass.i] = None] ELSE members
  /\ pass' = [step |-> "clean", at |-> pass.at, todo |-> pass.todo \ {pass.i}]
  /\ UNCHANGED <<World, slot, reminded, excused, late, requests>>

endPass ==
  /\ pass.step = "clean" /\ pass.todo = {}
  /\ pass' = Idle
  /\ UNCHANGED <<World, spots, members, slot, reminded, excused, late, requests>>

-----------------------------------------------------------------------------
\* The process stops: what it had marked and not yet sent is not sent.
crash ==
  /\ crashes < MaxCrashes
  /\ pass # Idle \/ \E s \in Slots : slot[s] # None
  /\ crashes' = crashes + 1
  /\ slot' = [s \in Slots |-> None]
  /\ pass' = Idle
  /\ excused' = IF pass.step = "marked" THEN excused \cup {pass.r[1]} ELSE excused
  /\ UNCHANGED <<now, spots, members, reminded, late, requests>>

tick ==
  /\ now < MaxTime
  /\ pass.step = "idle"
  /\ NeedsReminder = {} /\ \A i \in Spots : ~Cleanable(i, now)
  /\ now' = now + 1
  /\ UNCHANGED <<spots, members, slot, pass, reminded, excused,
                 late, requests, crashes>>

Next ==
  \/ \E s \in Slots :
       \/ createSpot(s) \/ countActive(s) \/ insertSpot(s)
       \/ joinSpot(s) \/ reactivateParticipant(s)
       \/ cancelSpot(s) \/ cancelSpotById(s) \/ renewSpot(s) \/ renewSpotById(s)
  \/ \E u \in Everyone, i \in Spots : leave(u, i)
  \/ findReminders \/ markNotified \/ createReminder \/ findCleanable
  \/ countMembers \/ deleteSpot \/ endPass
  \/ crash \/ tick

Spec == Init /\ [][Next]_vars

-----------------------------------------------------------------------------
(* No interleaving of publications takes the creator over the cap, unless  *)
(* a renewal that had read an active spot revives it after its end.        *)
CapKept ==
  late = {} => Cardinality({i \in Spots : Active(i)}) <= MAX_ACTIVE_SPOTS

(* The list and the detail agree: what the map shows to a reader opens,    *)
(* what opens and is active is shown under exactly one status, and nothing *)
(* private or blocked is shown to a stranger.                              *)
ListedOpens ==
  \A v \in Everyone \cup {None}, i \in Spots :
    /\ i \in ListVisible(v, FALSE, {}) <=> (Visible(i, v) /\ Active(i))
    /\ i \in ListVisible(v, TRUE, {}) => v \in Friends \cup {Creator}
    /\ i \in ListVisible(v, FALSE, {}) =>
         Cardinality({st \in Statuses : i \in ListVisible(v, FALSE, {st})}) = 1

(* The clean-up never takes the conversation from two people or more: a    *)
(* group with other members graduates.  (A join that arrives after the     *)
(* spot ended may be counted out.)                                         *)
Graduates ==
  \A i \in Spots :
    members[i] # None /\ members'[i] = None /\ i \notin late => Cardinality(members[i]) <= 1

GroupsGraduate == [][Graduates]_vars

(* The creator is reminded of every window that runs out, once, unless the *)
(* process stopped in the middle or the spot was renewed under the pass.   *)
EveryWindowReminded ==
  \A i \in Spots :
    /\ Stored(i) /\ ~spots[i].canceled /\ now >= spots[i].ends
    /\ i \notin excused
    => <<i, spots[i].ends>> \in reminded

(* The clean-up only takes a conversation in which the creator is alone    *)
(* (spots.repository: "se so resta o criador").                            *)
OnlyCreatorLoses ==
  \A i \in Spots :
    members[i] # None /\ members'[i] = None /\ i \notin late => members[i] \subseteq {Creator}

OnlyCreatorLosesChat == [][OnlyCreatorLoses]_vars
=============================================================================
