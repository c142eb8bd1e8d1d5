------------------------------ MODULE Follows ------------------------------
(***************************************************************************)
(* Follows, blocks and the counters of both ends (src/modules/follows,     *)
(* src/modules/blocks, and what the eraser of src/modules/users does to    *)
(* them).                                                                  *)
(*                                                                         *)
(* Every handler reads in one statement and writes in a transaction of its *)
(* own; createBlock reads once more inside its transaction, at READ        *)
(* COMMITTED, which takes no lock on what it reads.  No handler reads the  *)
(* notifications that follows send and clear, which are left out.          *)
(***************************************************************************)
EXTENDS Integers, FiniteSets

CONSTANTS
    Users,          \* accounts
    Requests,       \* slots for handlers in flight
    MaxFollows      \* bound: follow rows ever created

ASSUME UsersAssumption == IsFiniteSet(Users) /\ \E u, v \in Users : u # v
ASSUME BoundAssumption == MaxFollows \in Nat

VARIABLES
    account,        \* User.accountStatus
    private,        \* accounts with User.isPrivate
    follow,         \* table follows
    blocks,         \* table blocks
    followers,      \* User.followersCount
    following,      \* User.followingCount
    req,            \* what each slot is doing
    rows,           \* follow rows created so far
    raced,          \* history: pairs changed behind a handler that counts
    crossed         \* history: pairs followed and blocked at the same time

vars == <<account, private, follow, blocks, followers, following, req, rows,
          raced, crossed>>
users == <<account, private>>
counters == <<followers, following>>

\* <<a, b>>: a follows b, or a blocks b.
Pair == {p \in Users \X Users : p[1] # p[2]}
Back(p) == <<p[2], p[1]>>
Between(p) == {p, Back(p)}
With(u) == {p \in Pair : u \in {p[1], p[2]}}

\* The unique index allows a row per pair; id tells it from an earlier one.
Follow == [id: 0..MaxFollows, status: {"NONE", "PENDING", "ACCEPTED"}]
NoFollow == [id |-> 0, status |-> "NONE"]

\* row and seen are what the handler has read: a row, or the rows that the
\* transaction of a block collected.
Request == [pc: {"idle", "find", "create", "accept", "delete", "block", "sever"},
            pair: Pair, row: Follow, seen: SUBSET [pair: Pair, row: Follow]]

Idle == [pc |-> "idle", pair |-> CHOOSE p \in Pair : TRUE, row |-> NoFollow,
         seen |-> {}]

Exists(p) == follow[p].status # "NONE"
Accepted(p) == follow[p].status = "ACCEPTED"
Snapshot(ps) == {[pair |-> p, row |-> follow[p]] : p \in {q \in ps : Exists(q)}}

-----------------------------------------------------------------------------
Init ==
    /\ account = [u \in Users |-> "ACTIVE"]
    /\ private \in SUBSET Users
    /\ follow = [p \in Pair |-> NoFollow]
    /\ blocks = {}
    /\ followers = [u \in Users |-> 0] /\ following = [u \in Users |-> 0]
    /\ req = [r \in Requests |-> Idle]
    /\ rows = 0 /\ raced = {} /\ crossed = {}

Done(r) == req' = [req EXCEPT ![r] = Idle]

Start(r, actor, pc, p, row) ==
    /\ req[r].pc = "idle" /\ account[actor] # "ANONYMIZED"
    /\ req' = [req EXCEPT ![r] = [Idle EXCEPT !.pc = pc, !.pair = p, !.row = row]]
    /\ UNCHANGED <<users, follow, blocks, counters, rows, raced, crossed>>

\* The pairs whose rows a handler has read and will count by.
Scope(r) ==
    CASE req[r].pc = "accept" -> {req[r].pair}
      [] req[r].pc = "sever"  -> Between(req[r].pair)
      [] OTHER -> {}

\* The history of a step of r that changes the rows of ps.
Race(r, ps) ==
    raced' = raced \cup {p \in ps : \E o \in Requests \ {r} : p \in Scope(o)}

\* Rows of ps cease to count, or begin to (by = 1).
Count(ps, by) ==
    /\ followers' = [u \in Users |->
          followers[u] + by * Cardinality({p \in ps : p[2] = u})]
    /\ following' = [u \in Users |->
          following[u] + by * Cardinality({p \in ps : p[1] = u})]

-----------------------------------------------------------------------------
(* The owner of an account.                                                *)

\* updateUser.
setPrivate(u) ==
    /\ account[u] = "ACTIVE"
    /\ \E now \in {private \cup {u}, private \ {u}} : private' = now
    /\ UNCHANGED <<account, follow, blocks, counters, req, rows, raced, crossed>>

\* A deletion is asked for, or called off.
setAccount(u) ==
    /\ account[u] # "ANONYMIZED"
    /\ \E s \in {"ACTIVE", "PENDING_DELETION"} : account' = [account EXCEPT ![u] = s]
    /\ UNCHANGED <<private, follow, blocks, counters, req, rows, raced, crossed>>

-----------------------------------------------------------------------------
(* Follows.                                                                *)

\* isBlockedEitherWay.
followUser(r, p) ==
    /\ Between(p) \cap blocks = {}
    /\ Start(r, p[1], "find", p, NoFollow)

\* findUserById, findFollow: what there is to create, if anything.
findFollow(r) ==
    /\ req[r].pc = "find"
    /\ LET p == req[r].pair IN
       IF account[p[2]] = "ACTIVE" /\ ~Exists(p)
       THEN req' = [req EXCEPT ![r].pc = "create", ![r].row =
              [id |-> 0, status |-> IF p[2] \in private THEN "PENDING" ELSE "ACCEPTED"]]
       ELSE Done(r)
    /\ UNCHANGED <<users, follow, blocks, counters, rows, raced, crossed>>

\* The unique index refuses a second row: then nothing is counted.
createFollow(r) ==
    /\ req[r].pc = "create"
    /\ LET p == req[r].pair IN
       IF Exists(p)
       THEN UNCHANGED <<follow, counters, rows, raced, crossed>>
       ELSE /\ rows < MaxFollows
            /\ rows' = rows + 1
            /\ follow' = [follow EXCEPT ![p] = [req[r].row EXCEPT !.id = rows + 1]]
            /\ Count(IF req[r].row.status = "ACCEPTED" THEN {p} ELSE {}, 1)
            /\ Race(r, {p})
            /\ crossed' = IF \E o \in Requests :
                                req[o].pc = "sever" /\ p \in Between(req[o].pair)
                          THEN crossed \cup Between(p) ELSE crossed
    /\ Done(r)
    /\ UNCHANGED <<users, blocks>>

approveFollowRequest(r, p) ==
    /\ follow[p].status = "PENDING"
    /\ Start(r, p[2], "accept", p, follow[p])

\* By the id of the row, whatever its status is by now.
acceptFollow(r) ==
    /\ req[r].pc = "accept"
    /\ LET p == req[r].pair IN
       IF follow[p].id = req[r].row.id
       THEN /\ follow' = [follow EXCEPT ![p].status = "ACCEPTED"]
            /\ Count({p}, 1)
            /\ Race(r, {p})
       ELSE UNCHANGED <<follow, counters, raced>>
    /\ Done(r)
    /\ UNCHANGED <<users, blocks, rows, crossed>>

\* unfollowUser, removeFollower, and rejectFollowRequest of a pending one.
findFollowToDelete(r, p) ==
    /\ Exists(p)
    /\ \E actor \in {p[1], p[2]} : Start(r, actor, "delete", p, follow[p])

\* Variant: counts by the row that was read before.
deleteFollowAsRead(r) ==
    /\ req[r].pc = "delete"
    /\ LET p == req[r].pair IN
       IF Exists(p)
       THEN /\ follow' = [follow EXCEPT ![p] = NoFollow]
            /\ Count(IF req[r].row.status = "ACCEPTED" THEN {p} ELSE {}, -1)
            /\ Race(r, {p})
       ELSE UNCHANGED <<follow, counters, raced>>
    /\ Done(r)
    /\ UNCHANGED <<users, blocks, rows, crossed>>

\* By the pair, and counted by the status of the row that was deleted.
deleteFollow(r) ==
    /\ req[r].pc = "delete"
    /\ LET p == req[r].pair IN
       IF Exists(p)
       THEN /\ follow' = [follow EXCEPT ![p] = NoFollow]
            /\ Count(IF Accepted(p) THEN {p} ELSE {}, -1)
            /\ Race(r, {p})
       ELSE UNCHANGED <<follow, counters, raced>>
    /\ Done(r)
    /\ UNCHANGED <<users, blocks, rows, crossed>>

-----------------------------------------------------------------------------
(* Blocks.                                                                 *)

\* userExists, findBlock.
blockUser(r, p) ==
    /\ account[p[2]] = "ACTIVE" /\ p \notin blocks
    /\ Start(r, p[1], "block", p, NoFollow)

\* The transaction inserts the block, which nobody sees yet, and reads the
\* follows there are.  The unique index makes it wait for another transaction
\* with the same block, and fail if that one commits.
findSevered(r) ==
    /\ req[r].pc = "block"
    /\ \A o \in Requests : req[o].pc = "sever" => req[o].pair # req[r].pair
    /\ IF req[r].pair \in blocks
       THEN Done(r)
       ELSE req' = [req EXCEPT ![r].pc = "sever", ![r].seen = Snapshot(Between(req[r].pair))]
    /\ UNCHANGED <<users, follow, blocks, counters, rows, raced, crossed>>

AcceptedIn(seen) == {x.pair : x \in {y \in seen : y.row.status = "ACCEPTED"}}

\* Variant: only the follow of the blocked one is severed.
severFollowsOneWay(r) ==
    /\ req[r].pc = "sever"
    /\ LET p == req[r].pair
           dead == {x.pair : x \in {y \in req[r].seen :
                      y.pair = Back(p) /\ follow[y.pair].id = y.row.id}}
       IN
       /\ blocks' = blocks \cup {p}
       /\ follow' = [q \in Pair |-> IF q \in dead THEN NoFollow ELSE follow[q]]
       /\ Count(AcceptedIn(req[r].seen) \cap {Back(p)}, -1)
       /\ Race(r, dead)
       /\ crossed' = IF \E o \in Requests :
                           req[o].pc \in {"find", "create"} /\ req[o].pair \in Between(p)
                     THEN crossed \cup Between(p) ELSE crossed
    /\ Done(r)
    /\ UNCHANGED <<users, rows>>

\* The rest of the transaction: the rows are deleted by their ids, and the
\* counters follow what was read.
severFollowsBetween(r) ==
    /\ req[r].pc = "sever"
    /\ LET p == req[r].pair
           dead == {x.pair : x \in {y \in req[r].seen : follow[y.pair].id = y.row.id}}
       IN
       /\ blocks' = blocks \cup {p}
       /\ follow' = [q \in Pair |-> IF q \in dead THEN NoFollow ELSE follow[q]]
       /\ Count(AcceptedIn(req[r].seen), -1)
       /\ Race(r, dead)
       /\ crossed' = IF \E o \in Requests :
                           req[o].pc \in {"find", "create"} /\ req[o].pair \in Between(p)
                     THEN crossed \cup Between(p) ELSE crossed
    /\ Done(r)
    /\ UNCHANGED <<users, rows>>

unblockUser(p) ==
    /\ account[p[1]] # "ANONYMIZED" /\ p \in blocks
    /\ blocks' = blocks \ {p}
    /\ UNCHANGED <<users, follow, counters, req, rows, raced, crossed>>

-----------------------------------------------------------------------------
(* The eraser.                                                             *)

\* One step: the transaction first writes the keys of the user's row, which
\* waits for the transactions that counted or blocked that user and holds up
\* those to come.  The counters of the user itself are not touched.
anonymizeUserTx(u) ==
    /\ account[u] = "PENDING_DELETION"
    /\ \A r \in Requests : req[r].pc = "sever" => u \notin {req[r].pair[1], req[r].pair[2]}
    /\ account' = [account EXCEPT ![u] = "ANONYMIZED"]
    /\ private' = private \cup {u}
    /\ blocks' = {p \in blocks : p[1] # u}
    /\ follow' = [p \in Pair |-> IF p \in With(u) THEN NoFollow ELSE follow[p]]
    /\ followers' = [v \in Users |-> IF v # u /\ Accepted(<<u, v>>)
                                     THEN followers[v] - 1 ELSE followers[v]]
    /\ following' = [v \in Users |-> IF v # u /\ Accepted(<<v, u>>)
                                     THEN following[v] - 1 ELSE following[v]]
    /\ UNCHANGED <<req, rows, raced, crossed>>

\* A crash, an error or a transaction chosen to end a deadlock.
Fail(r) ==
    /\ req[r].pc # "idle"
    /\ Done(r)
    /\ UNCHANGED <<users, follow, blocks, counters, rows, raced, crossed>>

-----------------------------------------------------------------------------
Owner(u) == setPrivate(u) \/ setAccount(u) \/ anonymizeUserTx(u)

Arrive(r, p) ==
    \/ followUser(r, p) \/ approveFollowRequest(r, p)
    \/ findFollowToDelete(r, p) \/ blockUser(r, p)

Step(r) ==
    \/ findFollow(r) \/ createFollow(r) \/ acceptFollow(r) \/ deleteFollow(r)
    \/ findSevered(r) \/ severFollowsBetween(r)

Next ==
    \/ \E u \in Users : Owner(u)
    \/ \E p \in Pair : unblockUser(p)
    \/ \E r \in Requests : Step(r) \/ Fail(r) \/ \E p \in Pair : Arrive(r, p)

Spec == Init /\ [][Next]_vars

-----------------------------------------------------------------------------
(* Properties.                                                             *)

\* Every variable keeps its type, and a row in the table has the id of one
\* that was created.
TypeOK ==
    /\ account \in [Users -> {"ACTIVE", "PENDING_DELETION", "ANONYMIZED"}]
    /\ private \subseteq Users
    /\ follow \in [Pair -> Follow]
    /\ blocks \subseteq Pair /\ raced \subseteq Pair /\ crossed \subseteq Pair
    /\ followers \in [Users -> Int] /\ following \in [Users -> Int]
    /\ req \in [Requests -> Request]
    /\ rows \in 0..MaxFollows
    /\ \A p \in Pair : follow[p].id <= rows

Followers(u) == {p \in Pair : p[2] = u /\ Accepted(p)}
Following(u) == {p \in Pair : p[1] = u /\ Accepted(p)}

\* The counters of an account are the number of its accepted follows,
\* whatever overlaps, but for the pairs in which a row changed behind an
\* approval or a block that had read it and counts by what it read.
CountersFollowRows ==
    \A u \in Users :
        account[u] # "ANONYMIZED" /\ With(u) \cap raced = {} =>
            /\ followers[u] = Cardinality(Followers(u))
            /\ following[u] = Cardinality(Following(u))

\* A block leaves no follow between the two, in either direction, and lets
\* none begin, but for a follow that was under way when it was committed.
BlocksSever ==
    \A p \in blocks :
        p \notin crossed => ~Exists(p) /\ ~Exists(Back(p))

=============================================================================
