------------------------------- MODULE Groups -------------------------------
(***************************************************************************)
(* Who takes part in chat conversations: a pair that opens its direct      *)
(* conversation from both ends, and a group whose members are added,       *)
(* removed, promoted and leave, handing the administration on.  Every      *)
(* handler checks its actor first and writes later.                        *)
(***************************************************************************)
EXTENDS Naturals, FiniteSets

CONSTANTS Members,      \* a set of naturals: users in order of (joinedAt, userId)
          Slots,        \* handlers running at once
          MaxRequests,  \* bound on requests
          None

VARIABLES
  active, admin,        \* participants with leftAt null; those with role ADMIN
  op,                   \* what each handler is about to do
  strayed,              \* a removal crossed another, an administrator demoted itself,
                        \* or a handler stopped before handing the role on
  hidden,               \* participants with clearedAt set
  keys,                 \* direct conversations by key: id of each
  direct,               \* ids created
  answers,              \* the ids given to either end
  requests

GroupsAssumption ==
  Members \subseteq Nat /\ IsFiniteSet(Members) /\ Members # {} /\ None \notin Members

vars == <<active, admin, op, strayed, hidden, keys, direct, answers, requests>>
group == <<active, admin, strayed, hidden>>
pairs == <<keys, direct, answers>>

Free == [at |-> "idle", by |-> None, target |-> None]
Steps == {"idle", "remove", "role", "add", "left", "promote", "create", "refetch"}

TypeOK ==
  /\ active \subseteq Members /\ admin \subseteq Members /\ hidden \subseteq Members
  /\ \A s \in Slots : op[s].at \in Steps /\ op[s].by \in Members \cup {None}
                      /\ op[s].target \in Members \cup {None}
  /\ strayed \in BOOLEAN /\ answers \subseteq direct

Creator == CHOOSE m \in Members : \A n \in Members : m <= n

Init ==
  /\ active = Members /\ admin = {Creator} /\ hidden = {}
  /\ op = [s \in Slots |-> Free] /\ strayed = FALSE
  /\ keys = {} /\ direct = {} /\ answers = {} /\ requests = 0

Become(s, at, by, target) ==
  op' = [op EXCEPT ![s] = [at |-> at, by |-> by, target |-> target]]
Done(s) == op' = [op EXCEPT ![s] = Free]

IsAdmin(m) == m \in active \cap admin
Request(s) == op[s].at = "idle" /\ requests < MaxRequests /\ requests' = requests + 1

-----------------------------------------------------------------------------
(* The group. *)

\* A system message follows each change: the conversation comes back for those
\* who hid it.
Announced == hidden' = {}

\* removeGroupParticipant, setParticipantRole and addGroupParticipant check
\* that their actor is an active administrator.
authorize(s, m, t, at) ==
  /\ Request(s) /\ IsAdmin(m)
  /\ \/ at = "remove" /\ t # m
     \/ at = "role" /\ t \in active
     \/ at = "add" /\ t \notin active
  /\ Become(s, at, m, t)
  /\ UNCHANGED <<group, pairs>>

removeGroupParticipant(s) ==
  LET t == op[s].target
  IN /\ op[s].at = "remove" /\ Done(s)
     /\ active' = active \ {t}
     /\ strayed' = (strayed \/ (t \in active /\ ~IsAdmin(op[s].by)))
     /\ IF t \in active THEN Announced ELSE UNCHANGED hidden
     /\ UNCHANGED <<admin, pairs, requests>>

\* Nothing keeps the last administrator from demoting itself.
setParticipantRole(s) ==
  LET t == op[s].target
  IN /\ op[s].at = "role" /\ Done(s)
     /\ t \in active
     /\ \E a \in {admin \cup {t}, admin \ {t}} :
          /\ admin' = a
          /\ strayed' = (strayed \/ (active # {} /\ a \cap active = {}))
     /\ UNCHANGED <<active, hidden, pairs, requests>>

setRoleOfNobody(s) ==
  /\ op[s].at = "role" /\ op[s].target \notin active /\ Done(s)
  /\ UNCHANGED <<group, pairs, requests>>

\* The upsert brings the row back as a member, whatever it was when it left, and
\* also when another request has brought it back meanwhile.
Returned(t) == admin \ {t}

reactivateParticipant(s) ==
  LET t == op[s].target
  IN /\ op[s].at = "add" /\ Done(s)
     /\ active' = active \cup {t} /\ admin' = Returned(t) /\ Announced
     /\ strayed' = (strayed \/ IsAdmin(t) \/ ~IsAdmin(op[s].by))
     /\ UNCHANGED <<pairs, requests>>

leaveGroup(s, m) ==
  /\ Request(s) /\ m \in active
  /\ active' = active \ {m} /\ Announced
  /\ Become(s, "left", m, None)
  /\ UNCHANGED <<admin, strayed, pairs>>

\* promoteOldestParticipantIfNoAdmin reads, then promotes who is still a member.
Oldest == CHOOSE m \in active : \A n \in active : m <= n

\* An administrator who has left still counts as one.
findOldestOfAll(s) ==
  /\ op[s].at = "left"
  /\ IF admin # {} \/ active = {} THEN Done(s) ELSE Become(s, "promote", op[s].by, Oldest)
  /\ UNCHANGED <<group, pairs, requests>>

\* The oldest member is promoted when no administrator is left.
findOldest(s) ==
  /\ op[s].at = "left"
  /\ IF active \cap admin # {} \/ active = {} THEN Done(s)
     ELSE Become(s, "promote", op[s].by, Oldest)
  /\ UNCHANGED <<group, pairs, requests>>

promote(s) ==
  LET t == op[s].target
  IN /\ op[s].at = "promote" /\ Done(s)
     /\ IF t \in active \ admin THEN admin' = admin \cup {t} /\ Announced
                                ELSE UNCHANGED <<admin, hidden>>
     /\ UNCHANGED <<active, strayed, pairs, requests>>

\* The handler stops between the exit and the promotion.
fail(s) ==
  /\ op[s].at \in {"left", "promote"} /\ Done(s) /\ strayed' = TRUE
  /\ UNCHANGED <<active, admin, hidden, pairs, requests>>

clearConversation(m) ==
  /\ m \in active \ hidden /\ hidden' = hidden \cup {m}
  /\ UNCHANGED <<active, admin, op, strayed, pairs, requests>>

-----------------------------------------------------------------------------
(* The direct conversation of two users. *)

\* A key in the order of the call.
DirectKeyOfCaller(m) == m
\* The key is the same from either end.
DirectKey(m) == "pair"

\* An id is handed out when the row is made; a taken key turns the row away.
startConversation(s, m) ==
  /\ Request(s)
  /\ IF \E k \in keys : k[1] = DirectKey(m)
     THEN answers' = answers \cup {k[2] : k \in {x \in keys : x[1] = DirectKey(m)}} /\ UNCHANGED op
     ELSE Become(s, "create", m, None) /\ UNCHANGED answers
  /\ UNCHANGED <<group, keys, direct>>

createDirect(s) ==
  LET key == DirectKey(op[s].by)
      id == Cardinality(direct) + 1
  IN /\ op[s].at = "create"
     /\ IF \E k \in keys : k[1] = key
        THEN Become(s, "refetch", op[s].by, None) /\ UNCHANGED pairs
        ELSE /\ keys' = keys \cup {<<key, id>>} /\ direct' = direct \cup {id}
             /\ answers' = answers \cup {id} /\ Done(s)
     /\ UNCHANGED <<group, requests>>

refetchDirect(s) ==
  /\ op[s].at = "refetch" /\ Done(s)
  /\ answers' = answers \cup {k[2] : k \in {x \in keys : x[1] = DirectKey(op[s].by)}}
  /\ UNCHANGED <<group, keys, direct, requests>>

Next ==
  \/ \E s \in Slots, m, t \in Members : \E at \in {"remove", "role", "add"} : authorize(s, m, t, at)
  \/ \E s \in Slots : \/ removeGroupParticipant(s) \/ setParticipantRole(s) \/ setRoleOfNobody(s)
                      \/ reactivateParticipant(s) \/ findOldest(s) \/ promote(s) \/ fail(s)
                      \/ createDirect(s) \/ refetchDirect(s)
  \/ \E s \in Slots, m \in Members : leaveGroup(s, m) \/ startConversation(s, m)
  \/ \E m \in Members : clearConversation(m)

Spec == Init /\ [][Next]_vars

-----------------------------------------------------------------------------
(* Properties. *)

Quiet == \A s \in Slots : op[s].at \notin {"left", "promote"}

\* However exits, promotions and returns overlap, a group with members has an
\* administrator once the exits are over, but for the strayed cases: an
\* administrator that demotes itself, two that remove each other.
GroupKeepsAdmin == Quiet /\ ~strayed => active = {} \/ active \cap admin # {}

\* Two ends that open their conversation at once are answered the same one.
OneDirectPerPair == Cardinality(answers) <= 1
=============================================================================
