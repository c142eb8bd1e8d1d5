------------------------------- MODULE Events -------------------------------
(***************************************************************************)
(* One event and everything that hangs from it: the author's writes, the   *)
(* invitations and the shareable links, the RSVPs and the arrivals, and    *)
(* the shared list caches (public list and map viewport).                  *)
(*                                                                         *)
(* A handler is a sequence of database statements: it runs in a slot, one  *)
(* action per statement or transaction, and any other handler may run in   *)
(* between.  What the handler read stays in its slot.  A process may die   *)
(* between two of its statements.                                          *)
(***************************************************************************)
EXTENDS Naturals, FiniteSets

CONSTANTS Author, Guests,   \* the users
          Caches,           \* shared lists: the public list and the viewport
          Slots,            \* bound: handlers that run at the same time
          MaxLinks,         \* bound: shareable links ever created
          MaxTime,          \* bound: the clock
          MaxRequests,      \* bound: requests in a behaviour
          None              \* no value

Everyone == Guests \cup {Author}
Links == 1..MaxLinks
Times == 0..MaxTime
Rsvps == {"INTERESTED", "CONFIRMED", "NOT_INTERESTED"}

VARIABLES
  now,        \* the clock
  event,      \* the event row: [stored, isPublic, canceled, start, end]
  blocked,    \* guests with a block between them and the author
  links,      \* [Links -> link row or None]
  invites,    \* [Guests -> the link that made the row, 0 if by hand, or None]
  rsvp,       \* [Guests -> Rsvps or None]
  arrived,    \* guests with a check-in row
  cache,      \* [Caches -> BOOLEAN (does the entry show the event?) or None]
  slot,       \* [Slots -> what the handler in the slot holds, or None]
  requests,   \* requests so far
  overlapped  \* history: a list was cached or an edit decided on an old read,
              \* or a handler ended before it cleared the lists

vars == <<now, event, blocked, links, invites, rsvp, arrived, cache, slot,
          requests, overlapped>>

Event == [stored : BOOLEAN, isPublic : BOOLEAN, canceled : BOOLEAN,
          start : Times, end : Times]
Link == [revoked : BOOLEAN, expires : Times, uses : Nat]

EventsAssumption ==
  /\ Author \notin Guests /\ IsFiniteSet(Guests)
  /\ MaxLinks \in Nat /\ MaxTime \in Nat \ {0} /\ MaxRequests \in Nat \ {0}
  /\ None \notin Link /\ None \notin BOOLEAN /\ None \notin 0..MaxLinks
  /\ None \notin [op : {"invalidate"}]

TypeOK ==
  /\ now \in Times /\ requests \in 0..MaxRequests /\ overlapped \in BOOLEAN
  /\ event \in Event
  /\ blocked \subseteq Guests /\ arrived \subseteq Everyone
  /\ DOMAIN links = Links /\ DOMAIN slot = Slots
  /\ invites \in [Guests -> 0..MaxLinks \cup {None}]
  /\ rsvp \in [Guests -> Rsvps \cup {None}]
  /\ cache \in [Caches -> BOOLEAN \cup {None}]

Init ==
  /\ now = 0
  /\ event \in [stored : BOOLEAN, isPublic : BOOLEAN, canceled : {FALSE},
                start : {1}, end : {MaxTime}]
  /\ blocked = {}
  /\ links = [l \in Links |-> None]
  /\ invites = [g \in Guests |-> None]
  /\ rsvp = [g \in Guests |-> None]
  /\ arrived = {}
  /\ cache = [c \in Caches |-> None]
  /\ slot = [s \in Slots |-> None]
  /\ requests = 0
  /\ overlapped = FALSE

-----------------------------------------------------------------------------
(* The rulers every module shares.                                         *)

\* computeEventStatus, SOON and UPCOMING being one here.
Status(e) == IF e.canceled THEN "CANCELED"
             ELSE IF now >= e.end THEN "PAST"
             ELSE IF now >= e.start THEN "ONGOING" ELSE "UPCOMING"

\* What the lists show of the event: the filters that an author can change.
Discoverable == event.stored /\ event.isPublic /\ ~event.canceled

\* hasEventAccess, on the event as read.
HasAccess(u, e) ==
  \/ u = Author
  \/ e.isPublic
  \/ u \notin blocked /\ invites[u] # None

Live(l) == links[l] # None /\ ~links[l].revoked
Active(l) == Live(l) /\ links[l].expires > now

-----------------------------------------------------------------------------
(* Slots.                                                                  *)

Same == UNCHANGED <<now, overlapped>>
Rows == <<event, links, invites, rsvp, arrived>>

\* A request arrives, passes its checks and keeps h for its next statement.
Begin(s, h) ==
  /\ slot[s] = None
  /\ requests < MaxRequests
  /\ requests' = requests + 1
  /\ slot' = [slot EXCEPT ![s] = h]
  /\ Same /\ UNCHANGED <<Rows, cache, blocked>>

\* The handler's next statement follows: h is what it keeps, None at its end.
Step(s, h) == slot' = [slot EXCEPT ![s] = h] /\ UNCHANGED <<requests, blocked>>

Holds(s, op) == slot[s] # None /\ slot[s].op = op

-----------------------------------------------------------------------------
(* The author: addEvent, editEvent, removeEvent.                           *)

\* createEvent.  A public event clears the lists next.
addEvent(s) ==
  /\ ~event.stored /\ requests = 0
  /\ requests' = 1
  /\ event' = [event EXCEPT !.stored = TRUE]
  /\ slot' = [slot EXCEPT ![s] = IF event.isPublic THEN [op |-> "invalidate"]
                                                    ELSE None]
  /\ Same /\ UNCHANGED <<links, invites, rsvp, arrived, cache, blocked>>

\* What the body of an edit may change.
Edits == [isPublic : BOOLEAN] \cup [canceled : BOOLEAN] \cup [end : Times]

Edited(e, d) ==
  [e EXCEPT !.isPublic = IF "isPublic" \in DOMAIN d THEN d.isPublic ELSE @,
            !.canceled = IF "canceled" \in DOMAIN d THEN d.canceled ELSE @,
            !.end      = IF "end" \in DOMAIN d THEN d.end ELSE @]

\* editEvent reads the event: its author only, and an end after the start.
editEvent(s) ==
  /\ event.stored
  /\ \E d \in Edits :
       /\ Edited(event, d).end > event.start
       /\ Begin(s, [op |-> "edit", e |-> event, d |-> d])

\* Only an event that is public after the edit.
ClearsNew(e, d) == Edited(e, d).isPublic
\* Does the edit touch what the lists show?
Clears(e, d) == e.isPublic \/ ("isPublic" \in DOMAIN d /\ d.isPublic)

\* updateEvent writes the fields of the body; a row deleted since fails.
updateEvent(s) ==
  /\ Holds(s, "edit")
  /\ LET h == slot[s] IN
       /\ event' = IF event.stored THEN Edited(event, h.d) ELSE event
       /\ Step(s, IF event.stored /\ Clears(h.e, h.d)
                  THEN [op |-> "invalidate"] ELSE None)
       /\ overlapped' = (overlapped \/ h.e.isPublic # event.isPublic)
  /\ UNCHANGED <<now, links, invites, rsvp, arrived, cache>>

\* removeEvent reads the event; its images go before the row.
removeEvent(s) == event.stored /\ Begin(s, [op |-> "remove", e |-> event])

\* deleteEvent cascades to the links, the invites, the RSVPs and the arrivals.
deleteEvent(s) ==
  /\ Holds(s, "remove")
  /\ event' = [event EXCEPT !.stored = FALSE]
  /\ links' = [l \in Links |-> None]
  /\ invites' = [g \in Guests |-> None]
  /\ rsvp' = [g \in Guests |-> None]
  /\ arrived' = {}
  /\ Step(s, IF event.stored /\ slot[s].e.isPublic
             THEN [op |-> "invalidate"] ELSE None)
  /\ overlapped' = (overlapped \/ slot[s].e.isPublic # event.isPublic)
  /\ UNCHANGED <<now, cache>>

\* invalidateEventCaches: every key of the two lists.
invalidateEventCaches(s) ==
  /\ Holds(s, "invalidate")
  /\ cache' = [c \in Caches |-> None]
  /\ Step(s, None)
  /\ Same /\ UNCHANGED Rows

-----------------------------------------------------------------------------
(* listEvents and getSharedViewport: cache, else query and set with a TTL. *)

findEvents(s) ==
  \E c \in Caches :
    /\ cache[c] = None
    /\ Begin(s, [op |-> "list", c |-> c, shown |-> Discoverable])

cacheSet(s) ==
  /\ Holds(s, "list")
  /\ cache' = [cache EXCEPT ![slot[s].c] = slot[s].shown]
  /\ Step(s, None)
  /\ overlapped' = (overlapped \/ slot[s].shown # Discoverable)
  /\ UNCHANGED <<now, Rows>>

\* Redis drops the key at its TTL.
expireKey(c) ==
  /\ cache[c] # None
  /\ cache' = [cache EXCEPT ![c] = None]
  /\ Same /\ UNCHANGED <<Rows, blocked, slot, requests>>

-----------------------------------------------------------------------------
(* Invitations.                                                            *)

\* inviteToEvent: a private event's author, anyone for a public one, while
\* the event lives; the ids already invited are read before the insertion.
\* The ids are those asked for, or the followers, that findInvitableIds keeps.
inviteToEvent(s) ==
  \E u \in Everyone, ids \in SUBSET Guests :
    LET targets == ids \ {u} IN
    /\ event.stored
    /\ event.isPublic \/ u = Author
    /\ Status(event) \notin {"CANCELED", "PAST"}
    /\ targets # {}
    /\ Begin(s, [op |-> "invite",
                 ids |-> {g \in targets : invites[g] = None}])

\* createMany with skipDuplicates.
createInvites(s) ==
  /\ Holds(s, "invite")
  /\ event.stored
  /\ invites' = [g \in Guests |-> IF g \in slot[s].ids /\ invites[g] = None
                                  THEN 0 ELSE invites[g]]
  /\ Step(s, None)
  /\ Same /\ UNCHANGED <<event, links, rsvp, arrived, cache>>

-----------------------------------------------------------------------------
(* Shareable links.                                                        *)

\* createInviteLink: the event lives; the link expires when it ends.
createInviteLink(s) ==
  /\ event.stored /\ ~event.canceled /\ event.end > now
  /\ Begin(s, [op |-> "link", expires |-> event.end, at |-> now])

\* No lock on the event.
UnlockedNot == TRUE
\* pg_advisory_xact_lock: one creation at a time for an event.
Unlocked == \A s \in Slots : ~Holds(s, "create")

\* The transaction of findOrCreateActiveLink: the lock and the read.  A link
\* still active at the instant the handler read is reused.
findActiveLink(s) ==
  /\ Holds(s, "link")
  /\ Unlocked
  /\ Step(s, IF \E l \in Links : Live(l) /\ links[l].expires > slot[s].at
             THEN None ELSE [slot[s] EXCEPT !.op = "create"])
  /\ Same /\ UNCHANGED <<Rows, cache>>

\* The insertion and the commit, which frees the lock.
createLink(s) ==
  /\ Holds(s, "create")
  /\ event.stored
  /\ \E l \in Links :
       /\ links[l] = None
       /\ \A k \in 1..(l - 1) : links[k] # None
       /\ links' = [links EXCEPT ![l] = [revoked |-> FALSE, uses |-> 0,
                                         expires |-> slot[s].expires]]
  /\ Step(s, None)
  /\ Same /\ UNCHANGED <<event, invites, rsvp, arrived, cache>>

\* revokeInviteLink reads the link and writes it when it is not revoked yet.
revokeInviteLink(s) ==
  \E l \in Links : Live(l) /\ Begin(s, [op |-> "revoke", l |-> l])

revokeLink(s) ==
  /\ Holds(s, "revoke")
  /\ links' = [links EXCEPT ![slot[s].l] =
                 IF @ = None THEN None ELSE [@ EXCEPT !.revoked = TRUE]]
  /\ Step(s, None)
  /\ Same /\ UNCHANGED <<event, invites, rsvp, arrived, cache>>

\* classifyInviteLink.
Usable(l) == ~event.canceled /\ Active(l)

\* acceptInviteLink resolves the link: blocked guests see none; a public
\* event needs no invite.
acceptInviteLink(s) ==
  \E l \in Links, g \in Guests :
    /\ Usable(l)
    /\ g \notin blocked
    /\ ~event.isPublic
    /\ Begin(s, [op |-> "accept", l |-> l, g |-> g])

\* A guest who was there already uses up the link as well.
UsesAnyway(n, created) == n + 1
\* The uses a link gains when the insertion made `created` rows.
Uses(n, created) == n + created

\* acceptLink: the invite (skipDuplicates) and its count, one transaction.
acceptLink(s) ==
  /\ Holds(s, "accept")
  /\ event.stored
  /\ LET h == slot[s]
         created == IF invites[h.g] = None THEN 1 ELSE 0 IN
       /\ links[h.l] # None
       /\ invites' = IF created = 1 THEN [invites EXCEPT ![h.g] = h.l]
                                    ELSE invites
       /\ links' = [links EXCEPT ![h.l].uses = Uses(@, created)]
  /\ Step(s, None)
  /\ Same /\ UNCHANGED <<event, rsvp, arrived, cache>>

-----------------------------------------------------------------------------
(* RSVP and arrival: ensureEventAccess, then the write.                    *)

confirmAttendance(s) ==
  \E g \in Guests, t \in Rsvps :
    /\ event.stored /\ HasAccess(g, event)
    /\ Begin(s, [op |-> "rsvp", g |-> g, t |-> t])

cancelAttendance(s) ==
  \E g \in Guests :
    /\ event.stored /\ HasAccess(g, event) /\ rsvp[g] # None
    /\ Begin(s, [op |-> "rsvp", g |-> g, t |-> None])

\* upsertAttendance, deleteAttendance.
writeAttendance(s) ==
  /\ Holds(s, "rsvp")
  /\ event.stored
  /\ rsvp' = [rsvp EXCEPT ![slot[s].g] = slot[s].t]
  /\ Step(s, None)
  /\ Same /\ UNCHANGED <<event, links, invites, arrived, cache>>

checkInToEvent(s) ==
  \E g \in Guests :
    /\ event.stored /\ HasAccess(g, event) /\ Status(event) = "ONGOING"
    /\ Begin(s, [op |-> "checkIn", g |-> g])

\* createCheckIn: the arrival takes the RSVP to CONFIRMED in its transaction.
createCheckIn(s) ==
  /\ Holds(s, "checkIn")
  /\ event.stored
  /\ arrived' = arrived \cup {slot[s].g}
  /\ rsvp' = [rsvp EXCEPT ![slot[s].g] = "CONFIRMED"]
  /\ Step(s, None)
  /\ Same /\ UNCHANGED <<event, links, invites, cache>>

-----------------------------------------------------------------------------
(* The rest of the world.                                                  *)

\* A handler ends early: its write finds no row, Redis answers an error, or
\* the process stops.  Lists left uncleared stay until their TTL.
fail(s) ==
  /\ slot[s] # None
  /\ overlapped' = (overlapped \/ Holds(s, "invalidate"))
  /\ Step(s, None)
  /\ UNCHANGED <<now, Rows, cache>>

block(g) ==
  /\ g \notin blocked
  /\ blocked' = blocked \cup {g}
  /\ Same /\ UNCHANGED <<Rows, cache, slot, requests>>

tick ==
  /\ now < MaxTime
  /\ now' = now + 1
  /\ UNCHANGED <<Rows, blocked, cache, slot, requests, overlapped>>

Next ==
  \/ \E s \in Slots :
       \/ addEvent(s) \/ editEvent(s) \/ updateEvent(s)
       \/ removeEvent(s) \/ deleteEvent(s) \/ invalidateEventCaches(s)
       \/ findEvents(s) \/ cacheSet(s)
       \/ inviteToEvent(s) \/ createInvites(s)
       \/ createInviteLink(s) \/ findActiveLink(s) \/ createLink(s)
       \/ revokeInviteLink(s) \/ revokeLink(s)
       \/ acceptInviteLink(s) \/ acceptLink(s)
       \/ confirmAttendance(s) \/ cancelAttendance(s) \/ writeAttendance(s)
       \/ checkInToEvent(s) \/ createCheckIn(s)
       \/ fail(s)
  \/ \E c \in Caches : expireKey(c)
  \/ \E g \in Guests : block(g)
  \/ tick

Spec == Init /\ [][Next]_vars

-----------------------------------------------------------------------------
(* Two creations at once never leave an event with two links that work     *)
(* (findOrCreateActiveLink's lock), whatever is edited, revoked or expired *)
(* meanwhile.                                                              *)
OneActiveLink == \A k, l \in Links : Active(k) /\ Active(l) => k = l

(* usesCount is the number of guests whose invite came from the link, also *)
(* when the same guest accepts twice at once or was invited by hand.       *)
UsesCountInvites ==
  \A l \in Links : links[l] # None =>
    links[l].uses = Cardinality({g \in Guests : invites[g] = l})

(* An event made private, canceled or deleted is in no cached list once    *)
(* the handler has ended, unless a list was being read or another edit was *)
(* open during the write, or the handler was cut short.                    *)
HiddenIsUnlisted ==
  \A c \in Caches :
    cache[c] = TRUE /\ ~Discoverable =>
      overlapped \/ \E s \in Slots : Holds(s, "invalidate")
=============================================================================
