------------------------------ MODULE Notices -------------------------------
(***************************************************************************)
(* The notifications a user keeps: those of a follow, made after the       *)
(* follow's own commit and cleared after the unfollow's; those of comments *)
(* and reactions; reading, marking and paging them; and the retention      *)
(* that purges them.                                                       *)
(***************************************************************************)
EXTENDS Naturals, FiniteSets, FiniteSetsExt

CONSTANTS Slots,        \* handlers running at once
          Others,       \* dedupe keys of comments, reactions, invites
          Follow,       \* the dedupe key of the follow
          Limit,        \* page size
          MaxRows,      \* bound on rows ever made
          MaxRequests   \* bound on follows and unfollows

NoticesAssumption ==
  Follow \notin Others /\ {Limit, MaxRows} \subseteq Nat \ {0} /\ MaxRequests \in Nat

Keys == Others \cup {Follow}

VARIABLES
  followed, blocked,    \* the follow row; a block between the two users
  consent,              \* push consent of the recipient
  rows,                 \* rows: id, key and whether it was read
  made,                 \* ids given so far, in the order of (createdAt, id)
  pushes,               \* ids whose push was queued
  op,                   \* what each handler is about to do
  crossed,              \* a clear was skipped, or crossed a dispatch, since the last clear
  seen, cursor, stay,   \* a reader: rows shown, where it is, rows it must show
  requests

vars == <<followed, blocked, consent, rows, made, pushes, op, crossed,
          seen, cursor, stay, requests>>

Idle == [at |-> "idle", key |-> Follow, id |-> 0]
Start == MaxRows + 1    \* before the newest row

TypeOK ==
  /\ followed \in BOOLEAN /\ blocked \in BOOLEAN /\ consent \in BOOLEAN
  /\ rows \subseteq [id : 1..MaxRows, key : Keys, read : BOOLEAN]
  /\ made \in 0..MaxRows /\ pushes \subseteq 1..made
  /\ \A s \in Slots : op[s].at \in {"idle", "notify", "create", "push", "clear"}
                      /\ op[s].key \in Keys /\ op[s].id \in 0..made
  /\ seen \subseteq 1..MaxRows /\ stay \subseteq 1..MaxRows /\ cursor \in 0..Start

Init ==
  /\ followed = FALSE /\ blocked = FALSE /\ consent = TRUE
  /\ rows = {} /\ made = 0 /\ pushes = {}
  /\ op = [s \in Slots |-> Idle] /\ crossed = FALSE
  /\ seen = {} /\ cursor = 0 /\ stay = {} /\ requests = 0

Become(s, at, key, id) == op' = [op EXCEPT ![s] = [at |-> at, key |-> key, id |-> id]]
Done(s) == op' = [op EXCEPT ![s] = Idle]

RowsOf(key) == {r \in rows : r.key = key}
Dispatching == \E s \in Slots : op[s].at \in {"notify", "create"} /\ op[s].key = Follow
Clearing == \E s \in Slots : op[s].at = "clear"

Request == requests < MaxRequests /\ requests' = requests + 1
KeepReader == UNCHANGED <<seen, cursor, stay>>

-----------------------------------------------------------------------------
(* Follows, and the dispatch every trigger ends with. *)

\* The follow is committed, its dispatch follows.
followUser(s) ==
  /\ op[s].at = "idle" /\ Request /\ ~followed /\ ~blocked
  /\ followed' = TRUE /\ Become(s, "notify", Follow, 0)
  /\ crossed' = (crossed \/ Clearing)
  /\ UNCHANGED <<blocked, consent, rows, made, pushes>> /\ KeepReader

\* A comment, a reaction or an invite is committed.
act(s, key) ==
  /\ op[s].at = "idle" /\ Request /\ key \in Others
  /\ Become(s, "notify", key, 0)
  /\ UNCHANGED <<followed, blocked, consent, rows, made, pushes, crossed>> /\ KeepReader

\* dispatchSocial asks whether a block stands, before it makes the row.
dispatchSocial(s) ==
  /\ op[s].at = "notify"
  /\ IF blocked THEN Done(s) ELSE Become(s, "create", op[s].key, 0)
  /\ UNCHANGED <<followed, blocked, consent, rows, made, pushes, crossed, requests>>
  /\ KeepReader

\* A taken key does not turn a row away.
TakenNot(key) == FALSE
\* The unique (userId, dedupeKey) turns a second row away, and its push.
Taken(key) == RowsOf(key) # {}

createNotificationIfNew(s) ==
  LET id == made + 1
      key == op[s].key
  IN /\ op[s].at = "create" /\ made < MaxRows
     /\ IF Taken(key)
        THEN Done(s) /\ UNCHANGED <<rows, made>>
        ELSE /\ rows' = rows \cup {[id |-> id, key |-> key, read |-> FALSE]}
             /\ made' = id /\ Become(s, "push", key, id)
     /\ UNCHANGED <<followed, blocked, consent, pushes, crossed, requests>>
     /\ KeepReader

\* The live frame goes out; the push is queued for whoever consents now.
enqueuePush(s) ==
  /\ op[s].at = "push" /\ Done(s)
  /\ pushes' = IF consent THEN pushes \cup {op[s].id} ELSE pushes
  /\ UNCHANGED <<followed, blocked, consent, rows, made, crossed, requests>>
  /\ KeepReader

\* The dispatch never fails its caller: an error ends it where it is.
dispatchFails(s) ==
  /\ op[s].at \in {"notify", "create", "push"} /\ Done(s)
  /\ UNCHANGED <<followed, blocked, consent, rows, made, pushes, crossed, requests>>
  /\ KeepReader

\* unfollowUser, rejectFollowRequest, removeFollower: the row goes first.
unfollowUser(s) ==
  /\ op[s].at = "idle" /\ Request /\ followed
  /\ followed' = FALSE /\ Become(s, "clear", Follow, 0)
  /\ crossed' = (crossed \/ Dispatching)
  /\ UNCHANGED <<blocked, consent, rows, made, pushes>> /\ KeepReader

\* Only the unread ones are cleared.
ClearedUnread == {r \in rows : r.key = Follow /\ ~r.read}

\* Every notice of this follower goes.
Cleared == {r \in rows : r.key = Follow}

clearFollowNotifications(s) ==
  /\ op[s].at = "clear" /\ rows' = rows \ Cleared /\ Done(s)
  /\ crossed' = (crossed /\ (Dispatching \/ \E t \in Slots \ {s} : op[t].at = "clear"))
  /\ stay' = stay \ {r.id : r \in Cleared}
  /\ UNCHANGED <<followed, blocked, consent, made, pushes, seen, cursor, requests>>

\* The clear is best effort too.
clearFails(s) ==
  /\ op[s].at = "clear" /\ Done(s) /\ crossed' = TRUE
  /\ UNCHANGED <<followed, blocked, consent, rows, made, pushes, requests>>
  /\ KeepReader

\* A block severs the follow and leaves its notification where it is.
block ==
  /\ ~blocked /\ blocked' = TRUE /\ followed' = FALSE
  /\ crossed' = (crossed \/ followed)
  /\ UNCHANGED <<consent, rows, made, pushes, op, requests>> /\ KeepReader

unblock ==
  /\ blocked /\ blocked' = FALSE
  /\ UNCHANGED <<followed, consent, rows, made, pushes, op, crossed, requests>>
  /\ KeepReader

changeConsent ==
  /\ consent' = ~consent
  /\ UNCHANGED <<followed, blocked, rows, made, pushes, op, crossed, requests>>
  /\ KeepReader

-----------------------------------------------------------------------------
(* The reader. *)

markRead(S) ==
  /\ S \subseteq rows /\ \E r \in S : ~r.read
  /\ rows' = (rows \ S) \cup {[r EXCEPT !.read = TRUE] : r \in S}
  /\ UNCHANGED <<followed, blocked, consent, made, pushes, op, crossed, requests>>
  /\ KeepReader

\* A page that starts one row late.
OlderOrSame == {r.id : r \in {x \in rows : x.id < cursor - 1}}
\* The keyset: rows strictly older than the cursor, newest first.
Older == {r.id : r \in {x \in rows : x.id < cursor}}

PageOf(S) == {i \in S : Cardinality({k \in S : k >= i}) <= Limit}

openList ==
  /\ cursor = 0 /\ cursor' = Start /\ seen' = {}
  /\ stay' = {r.id : r \in rows}
  /\ UNCHANGED <<followed, blocked, consent, rows, made, pushes, op, crossed, requests>>

\* A full page carries a cursor to the next one.
getNotifications ==
  LET page == PageOf(Older)
  IN /\ cursor > 0 /\ seen' = seen \cup page
     /\ cursor' = IF Cardinality(page) = Limit THEN Min(page) ELSE 0
     /\ UNCHANGED <<followed, blocked, consent, rows, made, pushes, op, crossed,
                    stay, requests>>

\* Retention purges what is older than its window.
purge ==
  /\ rows # {}
  /\ LET old == CHOOSE r \in rows : \A x \in rows : r.id <= x.id
     IN rows' = rows \ {old} /\ stay' = stay \ {old.id}
  /\ UNCHANGED <<followed, blocked, consent, made, pushes, op, crossed, seen, cursor,
                 requests>>

Next ==
  \/ \E s \in Slots : \/ followUser(s) \/ \E key \in Others : act(s, key)
                      \/ dispatchSocial(s) \/ createNotificationIfNew(s)
                      \/ enqueuePush(s) \/ dispatchFails(s)
                      \/ unfollowUser(s) \/ clearFollowNotifications(s) \/ clearFails(s)
  \/ block \/ unblock \/ changeConsent
  \/ (\E r \in rows : markRead({r})) \/ markRead(rows)
  \/ openList \/ getNotifications \/ purge

Spec == Init /\ [][Next]_vars

-----------------------------------------------------------------------------
(* Properties. *)

\* Two triggers of one key keep one row and queue one push, whichever of them
\* the other overtakes, until a clear or the retention frees the key.
OneRowPerKey == \A key \in Keys : Cardinality(RowsOf(key)) <= 1

\* An undone follow leaves no notification of it, so that the next one notifies
\* again (notifications.service.ts:189-193), unless the undoing crossed the
\* dispatch, its clear failed, or it was a block.
UnfollowForgets ==
  ~followed /\ ~crossed /\ ~Clearing => RowsOf(Follow) = {}

\* A reader that reached the end was shown every notification that was there
\* when it began and still is, whatever came in or was purged meanwhile.
ReaderMissesNone == cursor = 0 => stay \subseteq seen
=============================================================================
