--------------------------- MODULE FollowsProofs ---------------------------
(***************************************************************************)
(* Proofs about Follows, for any number of users and handlers and any      *)
(* bound on the rows.                                                      *)
(***************************************************************************)
EXTENDS Follows, FiniteSetTheorems, TLAPS

LEMMA PairType ==
    \A p \in Pair : /\ Back(p) \in Pair /\ Back(Back(p)) = p /\ Back(p) # p
                    /\ Between(p) \subseteq Pair /\ p \in Between(p)
                    /\ Between(Back(p)) = Between(p)
                    /\ p[1] \in Users /\ p[2] \in Users /\ p[1] # p[2]
BY DEF Pair, Back, Between

LEMMA SomePair == (CHOOSE p \in Pair : TRUE) \in Pair
<1>1. PICK u \in Users, v \in Users : u # v
  BY UsersAssumption
<1>2. <<u, v>> \in Pair
  BY <1>1 DEF Pair
<1> QED BY <1>2

LEMMA NoFollowType == NoFollow \in Follow /\ NoFollow.status = "NONE" /\ NoFollow.id = 0
BY BoundAssumption DEF NoFollow, Follow

LEMMA IdleType == Idle \in Request /\ Idle.pc = "idle"
BY SomePair, NoFollowType DEF Idle, Request

-----------------------------------------------------------------------------
(* Types.                                                                  *)

LEMMA TypeInit == Init => TypeOK
BY IdleType, NoFollowType, BoundAssumption DEF Init, TypeOK

LEMMA DoneType == ASSUME TypeOK, NEW r \in Requests, Done(r)
                  PROVE  req' \in [Requests -> Request]
BY IdleType DEF TypeOK, Done

LEMMA StartType ==
    ASSUME TypeOK, NEW r \in Requests, NEW p \in Pair, NEW actor, NEW pc, NEW row \in Follow,
           pc \in {"find", "accept", "delete", "block"}, Start(r, actor, pc, p, row)
    PROVE  TypeOK'
<1>1. [Idle EXCEPT !.pc = pc, !.pair = p, !.row = row] \in Request
  BY IdleType DEF Request
<1>2. req' \in [Requests -> Request]
  BY <1>1 DEF TypeOK, Start
<1> QED BY <1>2 DEF TypeOK, Start, users, counters

LEMMA CountType ==
    ASSUME TypeOK, NEW ps, NEW by \in {1, -1}, ps \subseteq Pair, Count(ps, by)
    PROVE  followers' \in [Users -> Int] /\ following' \in [Users -> Int]
<1>1. IsFiniteSet(Pair)
  <2>1. IsFiniteSet(Users \X Users)
    BY UsersAssumption, FS_Product
  <2> QED BY <2>1, FS_Subset DEF Pair
<1>2. \A X \in SUBSET Pair : Cardinality(X) \in Int
  BY <1>1, FS_Subset, FS_CardinalityType
<1>3. \A u \in Users : /\ Cardinality({p \in ps : p[2] = u}) \in Int
                       /\ Cardinality({p \in ps : p[1] = u}) \in Int
  BY <1>2
<1>4. \A n, k \in Int : n + by * k \in Int
  OBVIOUS
<1> QED BY <1>3, <1>4 DEF Count, TypeOK

LEMMA SnapshotType ==
    ASSUME TypeOK, NEW ps, ps \subseteq Pair
    PROVE  Snapshot(ps) \in SUBSET [pair: Pair, row: Follow]
BY DEF Snapshot, TypeOK

LEMMA AcceptedInType ==
    ASSUME NEW seen \in SUBSET [pair: Pair, row: Follow]
    PROVE  AcceptedIn(seen) \subseteq Pair
BY DEF AcceptedIn

LEMMA TypeNext == TypeOK /\ [Next]_vars => TypeOK'
<1> SUFFICES ASSUME TypeOK, [Next]_vars PROVE TypeOK'
  OBVIOUS
<1> USE BoundAssumption
<1>1. ASSUME NEW u \in Users, setPrivate(u) PROVE TypeOK'
  BY <1>1 DEF setPrivate, TypeOK, counters
<1>2. ASSUME NEW u \in Users, setAccount(u) PROVE TypeOK'
  BY <1>2 DEF setAccount, TypeOK, counters
<1>3. ASSUME NEW u \in Users, anonymizeUserTx(u) PROVE TypeOK'
  <2>1. \A v \in Users : v # u => <<u, v>> \in Pair /\ <<v, u>> \in Pair
    BY DEF Pair
  <2>2. /\ followers' \in [Users -> Int] /\ following' \in [Users -> Int]
    BY <1>3, <2>1 DEF anonymizeUserTx, TypeOK
  <2>3. follow' \in [Pair -> Follow] /\ \A p \in Pair : follow'[p].id <= rows'
    BY <1>3, NoFollowType DEF anonymizeUserTx, TypeOK
  <2>4. account' \in [Users -> {"ACTIVE", "PENDING_DELETION", "ANONYMIZED"}]
    BY <1>3 DEF anonymizeUserTx, TypeOK
  <2> QED BY <1>3, <2>2, <2>3, <2>4 DEF anonymizeUserTx, TypeOK
<1>4. ASSUME NEW p \in Pair, unblockUser(p) PROVE TypeOK'
  BY <1>4 DEF unblockUser, TypeOK, users, counters
<1>5. ASSUME NEW r \in Requests, findFollow(r) PROVE TypeOK'
  <2>1. req' \in [Requests -> Request]
    <3> DEFINE new == [id |-> 0, status |-> IF req[r].pair[2] \in private
                                            THEN "PENDING" ELSE "ACCEPTED"]
    <3>1. new \in Follow
      BY DEF Follow
    <3>2. [req[r] EXCEPT !.pc = "create", !.row = new] \in Request
      BY <3>1 DEF TypeOK, Request
    <3>3. CASE req' = [req EXCEPT ![r].pc = "create", ![r].row = new]
      BY <3>2, <3>3 DEF TypeOK
    <3>4. CASE Done(r)
      BY <3>4, DoneType
    <3> QED BY <1>5, <3>3, <3>4 DEF findFollow
  <2> QED BY <1>5, <2>1 DEF findFollow, TypeOK, users, counters
<1>6. ASSUME NEW r \in Requests, createFollow(r) PROVE TypeOK'
  <2> DEFINE p == req[r].pair
             x == [req[r].row EXCEPT !.id = rows + 1]
  <2>1. p \in Pair /\ req[r].row \in Follow
    BY DEF TypeOK, Request
  <2>2. req' \in [Requests -> Request]
    BY <1>6, DoneType DEF createFollow
  <2>3. CASE Exists(p)
    BY <1>6, <2>2, <2>3 DEF createFollow, TypeOK, users, counters
  <2>4. CASE ~Exists(p)
    <3>1. rows < MaxFollows /\ rows' = rows + 1 /\ follow' = [follow EXCEPT ![p] = x]
      BY <1>6, <2>4 DEF createFollow
    <3>2. x \in Follow /\ x.id = rows + 1
      BY <2>1, <3>1 DEF Follow, TypeOK
    <3>3. /\ follow' \in [Pair -> Follow] /\ rows' \in 0..MaxFollows
          /\ \A q \in Pair : follow'[q].id <= rows'
      <4>1. \A q \in Pair : follow[q].id \in Int /\ follow[q].id <= rows
        BY DEF TypeOK, Follow
      <4>2. rows' \in 0..MaxFollows /\ rows \in Int
        BY <3>1 DEF TypeOK
      <4> HIDE DEF x
      <4>3. \A q \in Pair : follow'[q] = IF q = p THEN x ELSE follow[q]
        BY <2>1, <3>1 DEF TypeOK
      <4>4. \A q \in Pair : follow'[q].id <= rows'
        BY <3>1, <3>2, <4>1, <4>2, <4>3
      <4>5. follow' \in [Pair -> Follow]
        BY <2>1, <3>1, <3>2 DEF TypeOK
      <4> QED BY <4>2, <4>4, <4>5
    <3>4. followers' \in [Users -> Int] /\ following' \in [Users -> Int]
      BY <1>6, <2>1, <2>4, CountType DEF createFollow
    <3>5. raced' \subseteq Pair /\ crossed' \subseteq Pair
      <4>1. raced' \subseteq Pair
        BY <1>6, <2>1, <2>4 DEF createFollow, Race, TypeOK
      <4>2. crossed' \subseteq Pair
        BY <1>6, <2>1, <2>4, PairType DEF createFollow, TypeOK
      <4> QED BY <4>1, <4>2
    <3> QED BY <1>6, <2>2, <3>3, <3>4, <3>5 DEF createFollow, TypeOK, users
  <2> QED BY <2>3, <2>4
<1>7. ASSUME NEW r \in Requests, acceptFollow(r) PROVE TypeOK'
  <2> DEFINE p == req[r].pair
  <2>1. p \in Pair
    BY DEF TypeOK, Request
  <2>2. req' \in [Requests -> Request]
    BY <1>7, DoneType DEF acceptFollow
  <2>3. CASE follow[p].id # req[r].row.id
    BY <1>7, <2>2, <2>3 DEF acceptFollow, TypeOK, users, counters
  <2>4. CASE follow[p].id = req[r].row.id
    <3>1. follow' = [follow EXCEPT ![p].status = "ACCEPTED"]
      BY <1>7, <2>4 DEF acceptFollow
    <3>2. [follow[p] EXCEPT !.status = "ACCEPTED"] \in Follow
      BY <2>1 DEF TypeOK, Follow
    <3>3. /\ follow' \in [Pair -> Follow]
          /\ \A q \in Pair : follow'[q].id = follow[q].id
      BY <2>1, <3>1, <3>2 DEF TypeOK, Follow
    <3>4. followers' \in [Users -> Int] /\ following' \in [Users -> Int]
      BY <1>7, <2>1, <2>4, CountType DEF acceptFollow
    <3> QED BY <1>7, <2>1, <2>2, <2>4, <3>3, <3>4 DEF acceptFollow, TypeOK, users, Race
  <2> QED BY <2>3, <2>4
<1>8. ASSUME NEW r \in Requests, deleteFollow(r) PROVE TypeOK'
  <2> DEFINE p == req[r].pair
  <2>1. p \in Pair
    BY DEF TypeOK, Request
  <2>2. req' \in [Requests -> Request]
    BY <1>8, DoneType DEF deleteFollow
  <2>3. CASE ~Exists(p)
    BY <1>8, <2>2, <2>3 DEF deleteFollow, TypeOK, users, counters
  <2>4. CASE Exists(p)
    <3>1. /\ follow' \in [Pair -> Follow]
          /\ \A q \in Pair : follow'[q].id <= rows
      BY <1>8, <2>1, <2>4, NoFollowType DEF deleteFollow, TypeOK
    <3>2. followers' \in [Users -> Int] /\ following' \in [Users -> Int]
      BY <1>8, <2>1, <2>4, CountType DEF deleteFollow
    <3> QED BY <1>8, <2>1, <2>2, <2>4, <3>1, <3>2 DEF deleteFollow, TypeOK, users, Race
  <2> QED BY <2>3, <2>4
<1>9. ASSUME NEW r \in Requests, findSevered(r) PROVE TypeOK'
  <2>1. req[r].pair \in Pair
    BY DEF TypeOK, Request
  <2>2. Snapshot(Between(req[r].pair)) \in SUBSET [pair: Pair, row: Follow]
    BY <2>1, PairType, SnapshotType
  <2> HIDE DEF Snapshot
  <2>3. [req[r] EXCEPT !.pc = "sever", !.seen = Snapshot(Between(req[r].pair))] \in Request
    BY <2>2 DEF TypeOK, Request
  <2>4. req' \in [Requests -> Request]
    <3>1. CASE Done(r)
      BY <3>1, DoneType
    <3>2. CASE req' = [req EXCEPT ![r].pc = "sever",
                                  ![r].seen = Snapshot(Between(req[r].pair))]
      BY <2>3, <3>2 DEF TypeOK
    <3> QED BY <1>9, <3>1, <3>2 DEF findSevered
  <2> QED BY <1>9, <2>4 DEF findSevered, TypeOK, users, counters
<1>10. ASSUME NEW r \in Requests, severFollowsBetween(r) PROVE TypeOK'
  <2>1. req[r].pair \in Pair /\ req[r].seen \in SUBSET [pair: Pair, row: Follow]
    BY DEF TypeOK, Request
  <2>2. req' \in [Requests -> Request]
    BY <1>10, DoneType DEF severFollowsBetween
  <2>3. /\ follow' \in [Pair -> Follow]
        /\ \A q \in Pair : follow'[q].id <= rows
    BY <1>10, NoFollowType DEF severFollowsBetween, TypeOK
  <2>4. followers' \in [Users -> Int] /\ following' \in [Users -> Int]
    BY <1>10, <2>1, AcceptedInType, CountType DEF severFollowsBetween
  <2>5. raced' \subseteq Pair
    BY <1>10, <2>1 DEF severFollowsBetween, Race, TypeOK
  <2>6. crossed' \subseteq Pair /\ blocks' \subseteq Pair
    BY <1>10, <2>1, PairType DEF severFollowsBetween, TypeOK
  <2> QED BY <1>10, <2>2, <2>3, <2>4, <2>5, <2>6 DEF severFollowsBetween, TypeOK, users
<1>11. ASSUME NEW r \in Requests, Fail(r) PROVE TypeOK'
  BY <1>11, DoneType DEF Fail, TypeOK, users, counters
<1>12. ASSUME NEW r \in Requests, NEW p \in Pair, Arrive(r, p) PROVE TypeOK'
  <2>1. follow[p] \in Follow
    BY DEF TypeOK
  <2>2. CASE followUser(r, p)
    BY <2>2, NoFollowType, StartType DEF followUser
  <2>3. CASE approveFollowRequest(r, p)
    BY <2>1, <2>3, StartType DEF approveFollowRequest
  <2>4. CASE findFollowToDelete(r, p)
    BY <2>1, <2>4, StartType DEF findFollowToDelete
  <2>5. CASE blockUser(r, p)
    BY <2>5, NoFollowType, StartType DEF blockUser
  <2> QED BY <1>12, <2>2, <2>3, <2>4, <2>5 DEF Arrive
<1>13. CASE UNCHANGED vars
  BY <1>13 DEF vars, TypeOK
<1> QED BY <1>1, <1>2, <1>3, <1>4, <1>5, <1>6, <1>7, <1>8, <1>9, <1>10, <1>11, <1>12, <1>13
        DEF Next, Owner, Step

\* Every variable keeps its type, and a row has the id of one that was created.
THEOREM TypeCorrect == Spec => []TypeOK
<1> QED BY TypeInit, TypeNext, PTL DEF Spec

-----------------------------------------------------------------------------
(* Blocks.                                                                 *)

\* What a handler in flight may rely on.
Going(r) ==
    /\ req[r].pc = "create" => req[r].row.status # "NONE"
    /\ req[r].pc = "accept" => req[r].row.id > 0
    /\ req[r].pc \in {"find", "create"} =>
          Between(req[r].pair) \cap blocks = {} \/ req[r].pair \in crossed
    /\ req[r].pc = "sever" => \A q \in Between(req[r].pair) :
          Exists(q) => \/ q \in crossed
                       \/ \E x \in req[r].seen : x.pair = q /\ x.row.id = follow[q].id

RowsOK == \A p \in Pair : Exists(p) <=> follow[p].id > 0
BothWays == \A p \in crossed : Back(p) \in crossed

BlockInv == RowsOK /\ BothWays /\ BlocksSever /\ \A r \in Requests : Going(r)

\* A handler that only deletes leaves the others what they rely on.
LEMMA ShrinkStep ==
    ASSUME TypeOK, BlockInv, crossed' = crossed, blocks' \subseteq blocks,
           \A p \in Pair : Exists(p)' => Exists(p) /\ follow'[p].id = follow[p].id,
           \A p \in Pair : ~Exists(p)' => follow'[p].id = 0,
           \A o \in Requests : req'[o] = req[o] \/ Going(o)'
    PROVE  BlockInv'
<1>1. \A p \in Pair : Between(p) \subseteq Pair /\ Back(p) \in Pair
  BY PairType
<1>2. RowsOK'
  BY DEF BlockInv, RowsOK
<1>3. BothWays'
  BY DEF BlockInv, BothWays
<1>4. BlocksSever'
  BY <1>1 DEF BlockInv, BlocksSever, TypeOK
<1>5. ASSUME NEW o \in Requests, req'[o] = req[o] PROVE Going(o)'
  <2>1. req[o].pair \in Pair /\ Going(o)
    BY DEF TypeOK, Request, BlockInv
  <2>2. \A q \in Between(req[o].pair) : q \in Pair
    BY <1>1, <2>1
  <2> QED BY <1>5, <2>1, <2>2 DEF Going
<1> QED BY <1>2, <1>3, <1>4, <1>5 DEF BlockInv

\* A handler that only begins, ends or moves on.
LEMMA QuietStep ==
    ASSUME TypeOK, BlockInv, crossed' = crossed, blocks' \subseteq blocks, follow' = follow,
           \A o \in Requests : req'[o] = req[o] \/ Going(o)'
    PROVE  BlockInv'
<1>1. \A p \in Pair : /\ Exists(p)' => Exists(p) /\ follow'[p].id = follow[p].id
                      /\ ~Exists(p)' => follow'[p].id = 0
  BY DEF Exists, BlockInv, RowsOK, TypeOK, Follow
<1> QED BY <1>1, ShrinkStep DEF Exists

LEMMA DoneGoing ==
    ASSUME TypeOK, NEW r \in Requests, Done(r), NEW o \in Requests
    PROVE  req'[o] = req[o] \/ Going(o)'
<1>1. req'[o] = IF o = r THEN Idle ELSE req[o]
  BY DEF TypeOK, Done
<1>2. Idle.pc = "idle"
  BY IdleType
<1> QED BY <1>1, <1>2 DEF Going

LEMMA StartReq ==
    ASSUME TypeOK, NEW r \in Requests, NEW p, NEW actor, NEW pc, NEW row,
           Start(r, actor, pc, p, row), NEW o \in Requests
    PROVE  \/ req'[o] = req[o]
           \/ /\ o = r /\ req'[o].pc = pc /\ req'[o].pair = p /\ req'[o].row = row
              /\ req'[o].seen = {}
<1> DEFINE x == [Idle EXCEPT !.pc = pc, !.pair = p, !.row = row]
<1>1. x.pc = pc /\ x.pair = p /\ x.row = row /\ x.seen = {}
  BY DEF Idle
<1>2. req'[o] = IF o = r THEN x ELSE req[o]
  BY DEF Start, TypeOK
<1> QED BY <1>1, <1>2

LEMMA BlockNext == TypeOK /\ BlockInv /\ [Next]_vars => BlockInv'
<1> SUFFICES ASSUME TypeOK, BlockInv, [Next]_vars PROVE BlockInv'
  OBVIOUS
<1>1. ASSUME NEW u \in Users, setPrivate(u) PROVE BlockInv'
  BY <1>1, QuietStep DEF setPrivate
<1>2. ASSUME NEW u \in Users, setAccount(u) PROVE BlockInv'
  BY <1>2, QuietStep DEF setAccount
<1>3. ASSUME NEW u \in Users, anonymizeUserTx(u) PROVE BlockInv'
  <2>1. \A p \in Pair : follow'[p] = IF p \in With(u) THEN NoFollow ELSE follow[p]
    BY <1>3 DEF anonymizeUserTx
  <2>2. \A p \in Pair : /\ Exists(p)' => Exists(p) /\ follow'[p].id = follow[p].id
                        /\ ~Exists(p)' => follow'[p].id = 0
    BY <2>1, NoFollowType DEF Exists, BlockInv, RowsOK, TypeOK, Follow
  <2>3. blocks' \subseteq blocks /\ crossed' = crossed /\ req' = req
    BY <1>3 DEF anonymizeUserTx
  <2> QED BY <2>2, <2>3, ShrinkStep DEF Exists
<1>4. ASSUME NEW p \in Pair, unblockUser(p) PROVE BlockInv'
  BY <1>4, QuietStep DEF unblockUser
<1>5. ASSUME NEW r \in Requests, findFollow(r) PROVE BlockInv'
  <2>1. CASE Done(r)
    BY <1>5, <2>1, DoneGoing, QuietStep DEF findFollow
  <2>2. CASE ~Done(r)
    <3> DEFINE new == [id |-> 0, status |-> IF req[r].pair[2] \in private
                                            THEN "PENDING" ELSE "ACCEPTED"]
               x == [req[r] EXCEPT !.pc = "create", !.row = new]
    <3>1. req' = [req EXCEPT ![r] = x]
      BY <1>5, <2>2 DEF findFollow
    <3>2. x.pc = "create" /\ x.pair = req[r].pair /\ x.row.status # "NONE"
      BY DEF TypeOK, Request
    <3> HIDE DEF x
    <3>3. \A o \in Requests : req'[o] = IF o = r THEN x ELSE req[o]
      BY <3>1 DEF TypeOK
    <3>4. blocks' = blocks /\ crossed' = crossed /\ follow' = follow /\ req[r].pc = "find"
      BY <1>5 DEF findFollow
    <3>5. Going(r)'
      BY <3>2, <3>3, <3>4 DEF Going, BlockInv
    <3> QED BY <3>3, <3>4, <3>5, QuietStep
  <2> QED BY <2>1, <2>2
<1>6. ASSUME NEW r \in Requests, createFollow(r) PROVE BlockInv'
  <2> DEFINE p == req[r].pair
             x == [req[r].row EXCEPT !.id = rows + 1]
  <2>1. p \in Pair /\ req[r].row \in Follow /\ Going(r) /\ req[r].pc = "create" /\ Done(r)
    BY <1>6 DEF TypeOK, Request, BlockInv, createFollow
  <2>2. CASE Exists(p)
    BY <1>6, <2>1, <2>2, DoneGoing, QuietStep DEF createFollow
  <2>3. CASE ~Exists(p)
    <3>1. x.id = rows + 1 /\ x.status = req[r].row.status /\ x.status # "NONE"
      BY <2>1 DEF Follow, Going
    <3> HIDE DEF x
    <3>2. /\ follow' = [follow EXCEPT ![p] = x] /\ blocks' = blocks
          /\ crossed' = IF \E o \in Requests :
                              req[o].pc = "sever" /\ p \in Between(req[o].pair)
                        THEN crossed \cup Between(p) ELSE crossed
      BY <1>6, <2>3 DEF createFollow, x
    <3>3. \A q \in Pair : follow'[q] = IF q = p THEN x ELSE follow[q]
      BY <3>2, <2>1 DEF TypeOK
    <3>4. RowsOK'
      <4>1. rows \in Nat
        BY BoundAssumption DEF TypeOK
      <4> QED BY <3>1, <3>3, <4>1 DEF RowsOK, BlockInv, Exists
    <3>5. crossed \subseteq crossed' /\ BothWays'
      <4>1. crossed \subseteq crossed' /\ crossed' \subseteq crossed \cup Between(p)
        BY <3>2
      <4>2. \A q \in Between(p) : Back(q) \in Between(p)
        BY <2>1, PairType DEF Between
      <4>3. CASE crossed' = crossed
        BY <4>3 DEF BothWays, BlockInv
      <4>4. CASE crossed' = crossed \cup Between(p)
        BY <4>2, <4>4 DEF BothWays, BlockInv
      <4> QED BY <3>2, <4>1, <4>3, <4>4
    <3>6. BlocksSever'
      <4> SUFFICES ASSUME NEW b \in blocks, b \notin crossed'
                   PROVE  ~Exists(b)' /\ ~Exists(Back(b))'
        BY <3>2 DEF BlocksSever
      <4>1. b \in Pair /\ Back(b) \in Pair /\ b \notin crossed /\ Back(b) \notin crossed
        BY <3>5, PairType DEF TypeOK, BlockInv, BothWays
      <4>2. ~Exists(b) /\ ~Exists(Back(b))
        BY <4>1 DEF BlockInv, BlocksSever
      <4>3. p # b /\ p # Back(b)
        <5>1. SUFFICES ASSUME p = b \/ p = Back(b) PROVE FALSE
          OBVIOUS
        <5>2. b \in Between(p)
          BY <5>1, <4>1, PairType DEF Between
        <5>3. p \in crossed
          BY <5>2, <2>1 DEF Going
        <5> QED BY <5>1, <5>3, <4>1
      <4> QED BY <3>3, <4>1, <4>2, <4>3 DEF Exists
    <3>7. ASSUME NEW o \in Requests, req'[o] = req[o] PROVE Going(o)'
      <4>1. req[o].pair \in Pair /\ Going(o) /\ Between(req[o].pair) \subseteq Pair
        BY PairType DEF TypeOK, Request, BlockInv
      <4>2. ASSUME req[o].pc = "sever", NEW q \in Between(req[o].pair), Exists(q)'
            PROVE  q \in crossed' \/ \E y \in req[o].seen : y.pair = q /\ y.row.id = follow'[q].id
        <5>1. CASE q = p
          BY <5>1, <4>2, <3>2, <2>1, PairType
        <5>2. CASE q # p
          BY <5>2, <4>1, <4>2, <3>3, <3>5 DEF Going, Exists
        <5> QED BY <5>1, <5>2
      <4> QED BY <3>2, <3>5, <3>7, <4>1, <4>2 DEF Going
    <3> QED BY <3>4, <3>5, <3>6, <3>7, <2>1, DoneGoing DEF BlockInv
  <2> QED BY <2>2, <2>3
<1>7. ASSUME NEW r \in Requests, acceptFollow(r) PROVE BlockInv'
  <2> DEFINE p == req[r].pair
  <2>1. p \in Pair /\ Going(r) /\ req[r].pc = "accept" /\ Done(r)
    BY <1>7 DEF TypeOK, Request, BlockInv, acceptFollow
  <2>2. CASE follow[p].id # req[r].row.id
    BY <1>7, <2>1, <2>2, DoneGoing, QuietStep DEF acceptFollow
  <2>3. CASE follow[p].id = req[r].row.id
    <3> DEFINE x == [follow[p] EXCEPT !.status = "ACCEPTED"]
    <3>1. x.id = follow[p].id /\ x.status = "ACCEPTED"
      BY <2>1 DEF TypeOK, Follow
    <3>2. follow' = [follow EXCEPT ![p] = x] /\ blocks' = blocks /\ crossed' = crossed
      BY <1>7, <2>3 DEF acceptFollow
    <3> HIDE DEF x
    <3>3. \A q \in Pair : follow'[q] = IF q = p THEN x ELSE follow[q]
      BY <3>2 DEF TypeOK
    <3>4. Exists(p)
      BY <2>1, <2>3 DEF Going, BlockInv, RowsOK
    <3>5. \A q \in Pair : /\ Exists(q)' => Exists(q) /\ follow'[q].id = follow[q].id
                          /\ ~Exists(q)' => follow'[q].id = 0
      BY <3>1, <3>3, <3>4 DEF Exists, BlockInv, RowsOK, TypeOK, Follow
    <3> QED BY <3>2, <3>5, <2>1, DoneGoing, ShrinkStep DEF Exists
  <2> QED BY <2>2, <2>3
<1>8. ASSUME NEW r \in Requests, deleteFollow(r) PROVE BlockInv'
  <2> DEFINE p == req[r].pair
  <2>1. p \in Pair /\ Done(r) /\ blocks' = blocks /\ crossed' = crossed
    BY <1>8 DEF TypeOK, Request, deleteFollow
  <2>2. \A q \in Pair : follow'[q] = follow[q] \/ follow'[q] = NoFollow
    BY <1>8, <2>1 DEF deleteFollow, TypeOK
  <2>3. \A q \in Pair : /\ Exists(q)' => Exists(q) /\ follow'[q].id = follow[q].id
                        /\ ~Exists(q)' => follow'[q].id = 0
    BY <2>2, NoFollowType DEF Exists, BlockInv, RowsOK, TypeOK, Follow
  <2> QED BY <2>1, <2>3, DoneGoing, ShrinkStep DEF Exists
<1>9. ASSUME NEW r \in Requests, findSevered(r) PROVE BlockInv'
  <2> DEFINE p == req[r].pair
  <2>1. p \in Pair /\ blocks' = blocks /\ crossed' = crossed /\ follow' = follow
    BY <1>9 DEF TypeOK, Request, findSevered
  <2>2. CASE Done(r)
    BY <2>1, <2>2, DoneGoing, QuietStep
  <2>3. CASE ~Done(r)
    <3> DEFINE seen == Snapshot(Between(p))
               x == [req[r] EXCEPT !.pc = "sever", !.seen = seen]
    <3>1. req' = [req EXCEPT ![r] = x]
      BY <1>9, <2>3 DEF findSevered
    <3>2. \A q \in Between(p) : Exists(q) =>
             \E y \in seen : y.pair = q /\ y.row.id = follow[q].id
      <4> SUFFICES ASSUME NEW q \in Between(p), Exists(q)
                   PROVE  \E y \in seen : y.pair = q /\ y.row.id = follow[q].id
        OBVIOUS
      <4>1. [pair |-> q, row |-> follow[q]] \in seen
        BY DEF Snapshot
      <4> QED BY <4>1
    <3> HIDE DEF seen
    <3>3. x.pc = "sever" /\ x.pair = p /\ x.seen = seen
      BY DEF TypeOK, Request
    <3> HIDE DEF x
    <3>4. \A o \in Requests : req'[o] = IF o = r THEN x ELSE req[o]
      BY <3>1 DEF TypeOK
    <3>5. Going(r)'
      BY <3>2, <3>3, <3>4, <2>1 DEF Going, Exists
    <3> QED BY <3>4, <3>5, <2>1, QuietStep
  <2> QED BY <2>2, <2>3
<1>10. ASSUME NEW r \in Requests, severFollowsBetween(r) PROVE BlockInv'
  <2> DEFINE p == req[r].pair
             dead == {x.pair : x \in {y \in req[r].seen : follow[y.pair].id = y.row.id}}
  <2>1. /\ p \in Pair /\ Back(p) \in Pair /\ Between(p) \subseteq Pair
        /\ req[r].pc = "sever" /\ Going(r) /\ Done(r)
    BY <1>10, PairType DEF TypeOK, Request, BlockInv, severFollowsBetween
  <2>2. /\ blocks' = blocks \cup {p}
        /\ \A q \in Pair : follow'[q] = IF q \in dead THEN NoFollow ELSE follow[q]
        /\ crossed' = IF \E o \in Requests :
                            req[o].pc \in {"find", "create"} /\ req[o].pair \in Between(p)
                      THEN crossed \cup Between(p) ELSE crossed
    BY <1>10 DEF severFollowsBetween
  <2>3. \A q \in Between(p) : Exists(q) => q \in crossed \/ q \in dead
    BY <2>1 DEF Going
  <2> HIDE DEF dead
  <2>4. \A q \in Pair : /\ Exists(q)' => Exists(q) /\ follow'[q].id = follow[q].id
                        /\ ~Exists(q)' => follow'[q].id = 0
    BY <2>2, NoFollowType DEF Exists, BlockInv, RowsOK, TypeOK, Follow
  <2>5. RowsOK'
    BY <2>4 DEF BlockInv, RowsOK, Exists
  <2>6. crossed \subseteq crossed' /\ BothWays'
    <3>1. \A q \in Between(p) : Back(q) \in Between(p)
      BY <2>1, PairType DEF Between
    <3>2. CASE crossed' = crossed
      BY <3>2 DEF BothWays, BlockInv
    <3>3. CASE crossed' = crossed \cup Between(p)
      BY <3>1, <3>3 DEF BothWays, BlockInv
    <3> QED BY <2>2, <3>2, <3>3
  <2>7. BlocksSever'
    <3>1. ASSUME NEW b \in blocks, b \notin crossed' PROVE ~Exists(b)' /\ ~Exists(Back(b))'
      BY <3>1, <2>4, <2>6, PairType DEF BlockInv, BlocksSever, TypeOK, Exists
    <3>2. ASSUME p \notin crossed'
          PROVE  follow'[p].status = "NONE" /\ follow'[Back(p)].status = "NONE"
      <4>1. p \notin crossed /\ Back(p) \notin crossed
        BY <3>2, <2>6, <2>1, PairType DEF BlockInv, BothWays
      <4>2. p \in Between(p) /\ Back(p) \in Between(p)
        BY DEF Between
      <4>3. ASSUME NEW q \in Between(p), q \notin crossed PROVE follow'[q].status = "NONE"
        <5>1. q \in Pair
          BY <2>1
        <5>2. CASE q \in dead
          BY <5>1, <5>2, <2>2, NoFollowType
        <5>3. CASE q \notin dead
          BY <5>1, <5>3, <4>3, <2>2, <2>3 DEF Exists
        <5> QED BY <5>2, <5>3
      <4> QED BY <4>1, <4>2, <4>3
    <3> QED BY <3>1, <3>2, <2>2 DEF BlocksSever, Exists
  <2>8. ASSUME NEW o \in Requests, req'[o] = req[o] PROVE Going(o)'
    <3>1. req[o].pair \in Pair /\ Going(o) /\ Between(req[o].pair) \subseteq Pair
      BY PairType DEF TypeOK, Request, BlockInv
    <3>2. ASSUME req[o].pc \in {"find", "create"}
          PROVE  Between(req[o].pair) \cap blocks' = {} \/ req[o].pair \in crossed'
      <4>1. CASE p \in Between(req[o].pair)
        <5>1. req[o].pair \in Between(p)
          BY <4>1, <2>1, <3>1, PairType DEF Between
        <5> QED BY <5>1, <3>2, <2>2
      <4>2. CASE p \notin Between(req[o].pair)
        BY <4>2, <3>1, <3>2, <2>2, <2>6 DEF Going
      <4> QED BY <4>1, <4>2
    <3>3. ASSUME req[o].pc = "sever", NEW q \in Between(req[o].pair), Exists(q)'
          PROVE  q \in crossed' \/ \E y \in req[o].seen : y.pair = q /\ y.row.id = follow'[q].id
      BY <3>1, <3>3, <2>4, <2>6 DEF Going, Exists
    <3> QED BY <2>8, <3>1, <3>2, <3>3 DEF Going
  <2> QED BY <2>5, <2>6, <2>7, <2>8, <2>1, DoneGoing DEF BlockInv
<1>11. ASSUME NEW r \in Requests, Fail(r) PROVE BlockInv'
  BY <1>11, DoneGoing, QuietStep DEF Fail
<1>12. ASSUME NEW r \in Requests, NEW p \in Pair, Arrive(r, p) PROVE BlockInv'
  <2>1. CASE followUser(r, p)
    <3>1. Start(r, p[1], "find", p, NoFollow) /\ Between(p) \cap blocks = {}
      BY <2>1 DEF followUser
    <3>2. follow' = follow /\ blocks' = blocks /\ crossed' = crossed
      BY <3>1 DEF Start
    <3>3. \A o \in Requests : req'[o] = req[o] \/ Going(o)'
      BY <3>1, <3>2, StartReq DEF Going
    <3> QED BY <3>2, <3>3, QuietStep
  <2>2. CASE approveFollowRequest(r, p)
    <3>1. Start(r, p[2], "accept", p, follow[p]) /\ follow[p].id > 0
      BY <2>2 DEF approveFollowRequest, BlockInv, RowsOK, Exists
    <3>2. follow' = follow /\ blocks' = blocks /\ crossed' = crossed
      BY <3>1 DEF Start
    <3>3. \A o \in Requests : req'[o] = req[o] \/ Going(o)'
      BY <3>1, StartReq DEF Going
    <3> QED BY <3>2, <3>3, QuietStep
  <2>3. CASE findFollowToDelete(r, p)
    <3>1. PICK actor : Start(r, actor, "delete", p, follow[p])
      BY <2>3 DEF findFollowToDelete
    <3>2. follow' = follow /\ blocks' = blocks /\ crossed' = crossed
      BY <3>1 DEF Start
    <3>3. \A o \in Requests : req'[o] = req[o] \/ Going(o)'
      BY <3>1, StartReq DEF Going
    <3> QED BY <3>2, <3>3, QuietStep
  <2>4. CASE blockUser(r, p)
    <3>1. Start(r, p[1], "block", p, NoFollow)
      BY <2>4 DEF blockUser
    <3>2. follow' = follow /\ blocks' = blocks /\ crossed' = crossed
      BY <3>1 DEF Start
    <3>3. \A o \in Requests : req'[o] = req[o] \/ Going(o)'
      BY <3>1, StartReq DEF Going
    <3> QED BY <3>2, <3>3, QuietStep
  <2> QED BY <1>12, <2>1, <2>2, <2>3, <2>4 DEF Arrive
<1>13. CASE UNCHANGED vars
  BY <1>13, QuietStep DEF vars
<1> QED BY <1>1, <1>2, <1>3, <1>4, <1>5, <1>6, <1>7, <1>8, <1>9, <1>10, <1>11, <1>12, <1>13
        DEF Next, Owner, Step

LEMMA BlockInit == Init => BlockInv
<1> SUFFICES ASSUME Init PROVE BlockInv
  OBVIOUS
<1>1. \A r \in Requests : req[r].pc = "idle"
  BY IdleType DEF Init
<1>2. \A p \in Pair : ~Exists(p) /\ follow[p].id = 0
  BY NoFollowType DEF Init, Exists
<1> QED BY <1>1, <1>2 DEF Init, BlockInv, RowsOK, BothWays, BlocksSever, Going

\* A block leaves no follow between the two and lets none begin, but for one
\* that was under way when the block was committed.
THEOREM BlocksHold == Spec => []BlocksSever
<1>1. BlockInv => BlocksSever
  BY DEF BlockInv
<1> QED BY <1>1, TypeInit, TypeNext, BlockInit, BlockNext, PTL DEF Spec

-----------------------------------------------------------------------------
(* Counters.                                                               *)

Agree(u) ==
    /\ followers[u] = Cardinality(Followers(u))
    /\ following[u] = Cardinality(Following(u))

\* Unless something changed behind it, a handler that counts by what it read
\* knows what is in the table.
Counted(r) ==
    /\ req[r].pc = "accept" =>
          /\ req[r].row.status = "PENDING"
          /\ req[r].pair \notin raced =>
                follow[req[r].pair] = req[r].row \/ ~Exists(req[r].pair)
    /\ req[r].pc = "sever" =>
          /\ \A x \in req[r].seen : x.pair \in Between(req[r].pair)
          /\ \A q \in Between(req[r].pair) : q \notin raced =>
                /\ Exists(q) => [pair |-> q, row |-> follow[q]] \in req[r].seen
                /\ \A x \in req[r].seen : x.pair = q => x.row = follow[q]

CountInv == CountersFollowRows /\ \A r \in Requests : Counted(r)

LEMMA PairFinite == IsFiniteSet(Pair)
<1>1. IsFiniteSet(Users \X Users)
  BY UsersAssumption, FS_Product
<1> QED BY <1>1, FS_Subset DEF Pair

LEMMA Plus ==
    ASSUME NEW S, NEW X, IsFiniteSet(S), IsFiniteSet(X), S \cap X = {}
    PROVE  Cardinality(S \cup X) = Cardinality(S) + Cardinality(X)
<1>1. Cardinality(S \cup X) = Cardinality(S) + Cardinality(X) - Cardinality(S \cap X)
  BY FS_Union
<1>2. Cardinality(S \cap X) = 0
  BY FS_EmptySet
<1>3. Cardinality(S) \in Nat /\ Cardinality(X) \in Nat
  BY FS_CardinalityType
<1> QED BY <1>1, <1>2, <1>3

LEMMA Minus ==
    ASSUME NEW S, NEW X, IsFiniteSet(S), X \subseteq S
    PROVE  Cardinality(S \ X) = Cardinality(S) - Cardinality(X)
<1>1. S \cap X = X
  OBVIOUS
<1> QED BY <1>1, FS_Difference

LEMMA CountUp ==
    ASSUME NEW u \in Users, NEW ps, ps \subseteq Pair, Count(ps, 1), Agree(u),
           \A p \in With(u) :
               follow'[p].status = "ACCEPTED" <=> follow[p].status = "ACCEPTED" \/ p \in ps,
           \A p \in ps \cap With(u) : follow[p].status # "ACCEPTED"
    PROVE  Agree(u)'
<1> DEFINE In == {p \in ps : p[2] = u}
           Out == {p \in ps : p[1] = u}
<1>1. /\ IsFiniteSet(In) /\ IsFiniteSet(Out)
      /\ IsFiniteSet(Followers(u)) /\ IsFiniteSet(Following(u))
  <2>1. In \subseteq Pair /\ Out \subseteq Pair
    OBVIOUS
  <2>2. Followers(u) \subseteq Pair /\ Following(u) \subseteq Pair
    BY DEF Followers, Following
  <2> QED BY <2>1, <2>2, PairFinite, FS_Subset
<1>2. /\ Followers(u)' = Followers(u) \cup In /\ Followers(u) \cap In = {}
      /\ Following(u)' = Following(u) \cup Out /\ Following(u) \cap Out = {}
  BY DEF Followers, Following, Accepted, With
<1>3. /\ Cardinality(Followers(u)') = Cardinality(Followers(u)) + Cardinality(In)
      /\ Cardinality(Following(u)') = Cardinality(Following(u)) + Cardinality(Out)
  BY <1>1, <1>2, Plus
<1>4. followers'[u] = followers[u] + 1 * Cardinality(In)
      /\ following'[u] = following[u] + 1 * Cardinality(Out)
  BY DEF Count
<1>5. Cardinality(In) \in Nat /\ Cardinality(Out) \in Nat
  BY <1>1, FS_CardinalityType
<1> HIDE DEF In, Out
<1> QED BY <1>3, <1>4, <1>5 DEF Agree

LEMMA CountDown ==
    ASSUME NEW u \in Users, NEW ps, ps \subseteq Pair, Count(ps, -1), Agree(u),
           \A p \in With(u) :
               follow'[p].status = "ACCEPTED" <=> follow[p].status = "ACCEPTED" /\ p \notin ps,
           \A p \in ps \cap With(u) : follow[p].status = "ACCEPTED"
    PROVE  Agree(u)'
<1> DEFINE In == {p \in ps : p[2] = u}
           Out == {p \in ps : p[1] = u}
<1>1. IsFiniteSet(Followers(u)) /\ IsFiniteSet(Following(u))
  <2>1. Followers(u) \subseteq Pair /\ Following(u) \subseteq Pair
    BY DEF Followers, Following
  <2> QED BY <2>1, PairFinite, FS_Subset
<1>2. /\ Followers(u)' = Followers(u) \ In /\ In \subseteq Followers(u)
      /\ Following(u)' = Following(u) \ Out /\ Out \subseteq Following(u)
  BY DEF Followers, Following, Accepted, With
<1>3. /\ Cardinality(Followers(u)') = Cardinality(Followers(u)) - Cardinality(In)
      /\ Cardinality(Following(u)') = Cardinality(Following(u)) - Cardinality(Out)
  BY <1>1, <1>2, Minus
<1>4. followers'[u] = followers[u] + (-1) * Cardinality(In)
      /\ following'[u] = following[u] + (-1) * Cardinality(Out)
  BY DEF Count
<1>5. /\ Cardinality(In) \in Nat /\ Cardinality(Out) \in Nat
      /\ Cardinality(Followers(u)) \in Nat /\ Cardinality(Following(u)) \in Nat
  <2>1. IsFiniteSet(In) /\ IsFiniteSet(Out)
    BY <1>1, <1>2, FS_Subset
  <2> QED BY <1>1, <2>1, FS_CardinalityType
<1> HIDE DEF In, Out
<1> QED BY <1>3, <1>4, <1>5 DEF Agree

LEMMA AgreeSame ==
    ASSUME NEW u \in Users, Agree(u), follow' = follow, followers' = followers,
           following' = following
    PROVE  Agree(u)'
BY DEF Agree, Followers, Following, Accepted

\* A step that leaves what o has read, or is recorded as a race.
LEMMA CountedStep ==
    ASSUME TypeOK, NEW o \in Requests, Counted(o), req'[o] = req[o], raced \subseteq raced',
           \A q \in Scope(o) : \/ q \in raced' \/ follow'[q] = follow[q]
                               \/ req[o].pc = "accept" /\ follow'[q].status = "NONE"
    PROVE  Counted(o)'
<1>1. req[o].pc = "accept" => Scope(o) = {req[o].pair}
  BY DEF Scope
<1>2. req[o].pc = "sever" => Scope(o) = Between(req[o].pair)
  BY DEF Scope
<1> QED BY <1>1, <1>2 DEF Counted, Exists

LEMMA DoneCounted ==
    ASSUME TypeOK, NEW r \in Requests, Done(r), NEW o \in Requests
    PROVE  (req'[o] = req[o] /\ o # r) \/ Counted(o)'
<1>1. req'[o] = IF o = r THEN Idle ELSE req[o]
  BY DEF TypeOK, Done
<1>2. Idle.pc = "idle"
  BY IdleType
<1> QED BY <1>1, <1>2 DEF Counted

\* A handler that begins, ends or moves on.
LEMMA QuietCount ==
    ASSUME TypeOK, CountInv, raced' = raced, follow' = follow, followers' = followers,
           following' = following,
           \A u \in Users : account'[u] # "ANONYMIZED" => account[u] # "ANONYMIZED",
           \A o \in Requests : req'[o] = req[o] \/ Counted(o)'
    PROVE  CountInv'
<1>1. \A o \in Requests : Counted(o)'
  BY CountedStep DEF CountInv
<1>2. CountersFollowRows'
  <2> SUFFICES ASSUME NEW u \in Users, account'[u] # "ANONYMIZED", With(u) \cap raced' = {}
               PROVE  Agree(u)'
    BY DEF CountersFollowRows, Agree, With
  <2>1. Agree(u)
    BY DEF CountInv, CountersFollowRows, Agree
  <2> QED BY <2>1, AgreeSame
<1> QED BY <1>1, <1>2 DEF CountInv

\* A handler that changes the rows of ps, ends, and leaves the accounts.
LEMMA RaceStep ==
    ASSUME TypeOK, CountInv, NEW r \in Requests, Done(r), NEW ps, Race(r, ps),
           ps \subseteq Pair, account' = account,
           \A q \in Pair \ ps : follow'[q] = follow[q],
           \A u \in Users : Agree(u) /\ With(u) \cap raced' = {} => Agree(u)'
    PROVE  CountInv'
<1>1. raced \subseteq raced'
  BY DEF Race
<1>2. \A o \in Requests : Counted(o)'
  <2> SUFFICES ASSUME NEW o \in Requests, req'[o] = req[o], o # r PROVE Counted(o)'
    BY DoneCounted
  <2>1. req[o].pair \in Pair /\ Scope(o) \subseteq Pair
    BY PairType DEF TypeOK, Request, Scope
  <2>2. \A q \in Scope(o) : q \in raced' \/ follow'[q] = follow[q]
    BY <2>1 DEF Race
  <2> QED BY <1>1, <2>2, CountedStep DEF CountInv
<1>3. CountersFollowRows'
  <2> SUFFICES ASSUME NEW u \in Users, account'[u] # "ANONYMIZED", With(u) \cap raced' = {}
               PROVE  Agree(u)'
    BY DEF CountersFollowRows, Agree, With
  <2>1. Agree(u)
    BY <1>1 DEF CountInv, CountersFollowRows, Agree
  <2> QED BY <2>1
<1> QED BY <1>2, <1>3 DEF CountInv

LEMMA CountNext == TypeOK /\ BlockInv /\ CountInv /\ [Next]_vars => CountInv'
<1> SUFFICES ASSUME TypeOK, BlockInv, CountInv, [Next]_vars PROVE CountInv'
  OBVIOUS
<1>1. ASSUME NEW u \in Users, setPrivate(u) PROVE CountInv'
  BY <1>1, QuietCount DEF setPrivate, counters
<1>2. ASSUME NEW u \in Users, setAccount(u) PROVE CountInv'
  BY <1>2, QuietCount DEF setAccount, counters, TypeOK
<1>3. ASSUME NEW u \in Users, anonymizeUserTx(u) PROVE CountInv'
  <2>1. /\ req' = req /\ raced' = raced
        /\ \A p \in Pair : follow'[p] = IF p \in With(u) THEN NoFollow ELSE follow[p]
        /\ \A r \in Requests : req[r].pc = "sever" => u \notin {req[r].pair[1], req[r].pair[2]}
    BY <1>3 DEF anonymizeUserTx
  <2>2. ASSUME NEW o \in Requests PROVE Counted(o)'
    <3>1. req[o].pair \in Pair /\ Scope(o) \subseteq Pair
      BY PairType DEF TypeOK, Request, Scope
    <3>2. CASE req[o].pc = "sever"
      <4>1. \A q \in Scope(o) : q \notin With(u)
        BY <2>1, <3>2 DEF Scope, With, Between, Back
      <4> QED BY <2>1, <3>1, <4>1, CountedStep DEF CountInv
    <3>3. CASE req[o].pc = "accept"
      BY <2>1, <3>1, <3>3, NoFollowType, CountedStep DEF CountInv
    <3>4. CASE req[o].pc \notin {"sever", "accept"}
      BY <2>1, <3>4 DEF Counted
    <3> QED BY <3>2, <3>3, <3>4
  <2>3. CountersFollowRows'
    <3> SUFFICES ASSUME NEW v \in Users, account'[v] # "ANONYMIZED", With(v) \cap raced' = {}
                 PROVE  Agree(v)'
      BY DEF CountersFollowRows, Agree, With
    <3>1. v # u /\ account[v] # "ANONYMIZED"
      BY <1>3 DEF anonymizeUserTx, TypeOK
    <3>2. Agree(v)
      BY <2>1, <3>1 DEF CountInv, CountersFollowRows, Agree
    <3> DEFINE in == <<u, v>>
               out == <<v, u>>
               In == {p \in {in} : Accepted(p)}
               Out == {p \in {out} : Accepted(p)}
    <3>3. in \in Pair /\ out \in Pair
      BY <3>1 DEF Pair
    <3>4. \A p \in Pair : /\ p \in With(u) /\ p[2] = v <=> p = in
                          /\ p \in With(u) /\ p[1] = v <=> p = out
      BY <3>1 DEF Pair, With
    <3>5. /\ Followers(v)' = Followers(v) \ In /\ In \subseteq Followers(v)
          /\ Following(v)' = Following(v) \ Out /\ Out \subseteq Following(v)
      BY <2>1, <3>3, <3>4, NoFollowType DEF Followers, Following, Accepted
    <3>6. IsFiniteSet(Followers(v)) /\ IsFiniteSet(Following(v))
      <4>1. Followers(v) \subseteq Pair /\ Following(v) \subseteq Pair
        BY DEF Followers, Following
      <4> QED BY <4>1, PairFinite, FS_Subset
    <3>7. /\ Cardinality(Followers(v)') = Cardinality(Followers(v)) - Cardinality(In)
          /\ Cardinality(Following(v)') = Cardinality(Following(v)) - Cardinality(Out)
      BY <3>5, <3>6, Minus
    <3>8. /\ Cardinality(In) = IF Accepted(in) THEN 1 ELSE 0
          /\ Cardinality(Out) = IF Accepted(out) THEN 1 ELSE 0
      <4>1. In = IF Accepted(in) THEN {in} ELSE {}
        OBVIOUS
      <4>2. Out = IF Accepted(out) THEN {out} ELSE {}
        OBVIOUS
      <4> QED BY <4>1, <4>2, FS_Singleton, FS_EmptySet
    <3>9. /\ followers'[v] = IF Accepted(in) THEN followers[v] - 1 ELSE followers[v]
          /\ following'[v] = IF Accepted(out) THEN following[v] - 1 ELSE following[v]
      BY <1>3, <3>1 DEF anonymizeUserTx
    <3>10. followers[v] \in Int /\ following[v] \in Int
      BY DEF TypeOK
    <3> HIDE DEF In, Out, in, out
    <3> QED BY <3>2, <3>7, <3>8, <3>9, <3>10 DEF Agree
  <2> QED BY <2>2, <2>3 DEF CountInv
<1>4. ASSUME NEW p \in Pair, unblockUser(p) PROVE CountInv'
  BY <1>4, QuietCount DEF unblockUser, counters, users
<1>5. ASSUME NEW r \in Requests, findFollow(r) PROVE CountInv'
  <2>1. \A o \in Requests : req'[o] = req[o] \/ req'[o].pc \in {"idle", "create"}
    BY <1>5, IdleType DEF findFollow, Done, TypeOK, Request
  <2>2. \A o \in Requests : req'[o] = req[o] \/ Counted(o)'
    BY <2>1 DEF Counted
  <2> QED BY <1>5, <2>2, QuietCount DEF findFollow, counters, users
<1>6. ASSUME NEW r \in Requests, createFollow(r) PROVE CountInv'
  <2> DEFINE p == req[r].pair
             x == [req[r].row EXCEPT !.id = rows + 1]
             ps == IF req[r].row.status = "ACCEPTED" THEN {p} ELSE {}
  <2>1. p \in Pair /\ req[r].row \in Follow /\ Done(r) /\ account' = account
    BY <1>6 DEF TypeOK, Request, createFollow, users
  <2>2. CASE Exists(p)
    BY <1>6, <2>1, <2>2, DoneCounted, QuietCount DEF createFollow, counters
  <2>3. CASE ~Exists(p)
    <3>1. follow' = [follow EXCEPT ![p] = x] /\ Count(ps, 1) /\ Race(r, {p})
      BY <1>6, <2>3 DEF createFollow
    <3>2. x.status = req[r].row.status
      BY <2>1 DEF Follow
    <3> HIDE DEF x
    <3>3. \A q \in Pair : follow'[q] = IF q = p THEN x ELSE follow[q]
      BY <3>1 DEF TypeOK
    <3>4. ASSUME NEW u \in Users, Agree(u) PROVE Agree(u)'
      <4>1. \A q \in With(u) : q \in Pair
        BY DEF With
      <4>2. \A q \in With(u) :
               follow'[q].status = "ACCEPTED" <=> follow[q].status = "ACCEPTED" \/ q \in ps
        BY <2>3, <3>2, <3>3, <4>1 DEF Exists
      <4>3. \A q \in ps \cap With(u) : follow[q].status # "ACCEPTED"
        BY <2>3 DEF Exists
      <4>4. ps \subseteq Pair
        BY <2>1
      <4> HIDE DEF ps
      <4> QED BY <3>1, <3>4, <4>2, <4>3, <4>4, CountUp
    <3> QED BY <2>1, <3>1, <3>3, <3>4, RaceStep
  <2> QED BY <2>2, <2>3
<1>7. ASSUME NEW r \in Requests, acceptFollow(r) PROVE CountInv'
  <2> DEFINE p == req[r].pair
  <2>1. /\ p \in Pair /\ Done(r) /\ account' = account /\ req[r].pc = "accept"
        /\ Going(r) /\ Counted(r)
    BY <1>7 DEF TypeOK, Request, acceptFollow, users, BlockInv, CountInv
  <2>2. CASE follow[p].id # req[r].row.id
    BY <1>7, <2>1, <2>2, DoneCounted, QuietCount DEF acceptFollow, counters
  <2>3. CASE follow[p].id = req[r].row.id
    <3> DEFINE x == [follow[p] EXCEPT !.status = "ACCEPTED"]
    <3>1. follow' = [follow EXCEPT ![p] = x] /\ Count({p}, 1) /\ Race(r, {p})
      BY <1>7, <2>3 DEF acceptFollow
    <3>2. x.status = "ACCEPTED"
      BY <2>1 DEF TypeOK, Follow
    <3> HIDE DEF x
    <3>3. \A q \in Pair : follow'[q] = IF q = p THEN x ELSE follow[q]
      BY <3>1 DEF TypeOK
    <3>4. p \notin raced => follow[p].status = "PENDING"
      BY <2>1, <2>3 DEF Going, Counted, BlockInv, RowsOK
    <3>5. ASSUME NEW u \in Users, Agree(u), With(u) \cap raced' = {} PROVE Agree(u)'
      <4>1. \A q \in With(u) : q \in Pair /\ q \notin raced
        BY <3>1, <3>5 DEF With, Race
      <4>2. \A q \in With(u) :
               follow'[q].status = "ACCEPTED" <=> follow[q].status = "ACCEPTED" \/ q \in {p}
        BY <3>2, <3>3, <4>1
      <4>3. \A q \in {p} \cap With(u) : follow[q].status # "ACCEPTED"
        BY <3>4, <4>1
      <4> QED BY <2>1, <3>1, <3>5, <4>2, <4>3, CountUp
    <3> QED BY <2>1, <3>1, <3>3, <3>5, RaceStep
  <2> QED BY <2>2, <2>3
<1>8. ASSUME NEW r \in Requests, deleteFollow(r) PROVE CountInv'
  <2> DEFINE p == req[r].pair
             ps == IF Accepted(p) THEN {p} ELSE {}
  <2>1. p \in Pair /\ Done(r) /\ account' = account
    BY <1>8 DEF TypeOK, Request, deleteFollow, users
  <2>2. CASE ~Exists(p)
    BY <1>8, <2>1, <2>2, DoneCounted, QuietCount DEF deleteFollow, counters
  <2>3. CASE Exists(p)
    <3>1. follow' = [follow EXCEPT ![p] = NoFollow] /\ Count(ps, -1) /\ Race(r, {p})
      BY <1>8, <2>3 DEF deleteFollow
    <3>2. \A q \in Pair : follow'[q] = IF q = p THEN NoFollow ELSE follow[q]
      BY <3>1 DEF TypeOK
    <3>3. ASSUME NEW u \in Users, Agree(u) PROVE Agree(u)'
      <4>1. \A q \in With(u) : q \in Pair
        BY DEF With
      <4>2. \A q \in With(u) :
               follow'[q].status = "ACCEPTED" <=> follow[q].status = "ACCEPTED" /\ q \notin ps
        BY <3>2, <4>1, NoFollowType DEF Accepted
      <4>3. \A q \in ps \cap With(u) : follow[q].status = "ACCEPTED"
        BY DEF Accepted
      <4>4. ps \subseteq Pair
        BY <2>1
      <4> HIDE DEF ps
      <4> QED BY <3>1, <3>3, <4>2, <4>3, <4>4, CountDown
    <3> QED BY <2>1, <3>1, <3>2, <3>3, RaceStep
  <2> QED BY <2>2, <2>3
<1>9. ASSUME NEW r \in Requests, findSevered(r) PROVE CountInv'
  <2> DEFINE p == req[r].pair
  <2>1. /\ p \in Pair /\ follow' = follow /\ raced' = raced /\ account' = account
        /\ followers' = followers /\ following' = following
    BY <1>9 DEF TypeOK, Request, findSevered, users, counters
  <2>2. CASE Done(r)
    BY <2>1, <2>2, DoneCounted, QuietCount
  <2>3. CASE ~Done(r)
    <3> DEFINE seen == Snapshot(Between(p))
               x == [req[r] EXCEPT !.pc = "sever", !.seen = seen]
    <3>1. req' = [req EXCEPT ![r] = x]
      BY <1>9, <2>3 DEF findSevered
    <3>2. \A q \in Between(p) : Exists(q) => [pair |-> q, row |-> follow[q]] \in seen
      BY DEF Snapshot
    <3>3. \A y \in seen : y.pair \in Between(p) /\ y.row = follow[y.pair]
      BY DEF Snapshot
    <3> HIDE DEF seen
    <3>4. x.pc = "sever" /\ x.pair = p /\ x.seen = seen
      BY DEF TypeOK, Request
    <3> HIDE DEF x
    <3>5. \A o \in Requests : req'[o] = IF o = r THEN x ELSE req[o]
      BY <3>1 DEF TypeOK
    <3>6. Counted(r)'
      BY <3>2, <3>3, <3>4, <3>5, <2>1 DEF Counted, Exists
    <3> QED BY <3>5, <3>6, <2>1, QuietCount
  <2> QED BY <2>2, <2>3
<1>10. ASSUME NEW r \in Requests, severFollowsBetween(r) PROVE CountInv'
  <2> DEFINE p == req[r].pair
             seen == req[r].seen
             dead == {x.pair : x \in {y \in seen : follow[y.pair].id = y.row.id}}
             ps == AcceptedIn(seen)
  <2>1. /\ p \in Pair /\ seen \in SUBSET [pair: Pair, row: Follow]
        /\ Done(r) /\ account' = account /\ req[r].pc = "sever" /\ Counted(r)
    BY <1>10 DEF TypeOK, Request, severFollowsBetween, users, CountInv
  <2>2. /\ \A q \in Pair : follow'[q] = IF q \in dead THEN NoFollow ELSE follow[q]
        /\ Count(ps, -1) /\ Race(r, dead)
    BY <1>10 DEF severFollowsBetween
  <2>3. dead \subseteq Pair
    BY <2>1
  <2>4. ps \subseteq Pair
    BY <2>1, AcceptedInType
  <2>5. \A q \in Pair \ raced : /\ q \in ps => q \in dead /\ follow[q].status = "ACCEPTED"
                                /\ q \in dead /\ follow[q].status = "ACCEPTED" => q \in ps
    <3> SUFFICES ASSUME NEW q \in Pair, q \notin raced
                 PROVE  /\ q \in ps => q \in dead /\ follow[q].status = "ACCEPTED"
                        /\ q \in dead /\ follow[q].status = "ACCEPTED" => q \in ps
      OBVIOUS
    <3>1. \A y \in seen : y.pair = q => y.row = follow[q]
      BY <2>1 DEF Counted
    <3>2. ASSUME q \in ps PROVE q \in dead /\ follow[q].status = "ACCEPTED"
      <4>1. PICK y \in seen : y.row.status = "ACCEPTED" /\ y.pair = q
        BY <3>2 DEF AcceptedIn
      <4> QED BY <3>1, <4>1
    <3>3. ASSUME q \in dead, follow[q].status = "ACCEPTED" PROVE q \in ps
      <4>1. PICK y \in seen : y.pair = q
        BY <3>3
      <4> QED BY <3>1, <3>3, <4>1 DEF AcceptedIn
    <3> QED BY <3>2, <3>3
  <2> HIDE DEF dead, ps
  <2>6. ASSUME NEW u \in Users, Agree(u), With(u) \cap raced' = {} PROVE Agree(u)'
    <3>1. \A q \in With(u) : q \in Pair /\ q \notin raced
      BY <2>2, <2>6 DEF With, Race
    <3>2. \A q \in With(u) :
             follow'[q].status = "ACCEPTED" <=> follow[q].status = "ACCEPTED" /\ q \notin ps
      BY <2>2, <2>5, <3>1, NoFollowType
    <3>3. \A q \in ps \cap With(u) : follow[q].status = "ACCEPTED"
      BY <2>5, <3>1
    <3> QED BY <2>2, <2>4, <2>6, <3>2, <3>3, CountDown
  <2> QED BY <2>1, <2>2, <2>3, <2>6, RaceStep
<1>11. ASSUME NEW r \in Requests, Fail(r) PROVE CountInv'
  BY <1>11, DoneCounted, QuietCount DEF Fail, users, counters
<1>12. ASSUME NEW r \in Requests, NEW p \in Pair, Arrive(r, p) PROVE CountInv'
  <2>1. PICK actor, pc, row : /\ Start(r, actor, pc, p, row) /\ pc # "sever"
                              /\ pc = "accept" => row = follow[p] /\ row.status = "PENDING"
    BY <1>12 DEF Arrive, followUser, approveFollowRequest, findFollowToDelete, blockUser
  <2>2. /\ follow' = follow /\ raced' = raced /\ account' = account
        /\ followers' = followers /\ following' = following
    BY <2>1 DEF Start, users, counters
  <2>3. \A o \in Requests : req'[o] = req[o] \/ Counted(o)'
    BY <2>1, <2>2, StartReq DEF Counted
  <2> QED BY <2>2, <2>3, QuietCount
<1>13. CASE UNCHANGED vars
  BY <1>13, QuietCount DEF vars
<1> QED BY <1>1, <1>2, <1>3, <1>4, <1>5, <1>6, <1>7, <1>8, <1>9, <1>10, <1>11, <1>12, <1>13
        DEF Next, Owner, Step

LEMMA CountInit == Init => CountInv
<1> SUFFICES ASSUME Init PROVE CountInv
  OBVIOUS
<1>1. \A r \in Requests : req[r].pc = "idle"
  BY IdleType DEF Init
<1>2. \A u \in Users : Followers(u) = {} /\ Following(u) = {}
  BY NoFollowType DEF Init, Followers, Following, Accepted
<1>3. \A u \in Users : followers[u] = 0 /\ following[u] = 0
  BY DEF Init
<1> QED BY <1>1, <1>2, <1>3, FS_EmptySet DEF CountInv, Counted, CountersFollowRows

\* Whatever overlaps, the counters of an account are the number of its
\* accepted follows, but for pairs changed behind an approval or a block.
THEOREM CountersAgree == Spec => []CountersFollowRows
<1>1. CountInv => CountersFollowRows
  BY DEF CountInv
<1> QED BY <1>1, TypeInit, TypeNext, BlockInit, BlockNext, CountInit, CountNext, PTL DEF Spec

=============================================================================
