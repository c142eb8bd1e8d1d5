--------------------------- MODULE AccountProofs ---------------------------
(***************************************************************************)
(* Theorems about Account for every set of accounts and of requests.       *)
(***************************************************************************)
EXTENDS Account, TLAPS

Owners == \E p \in Requests : \/ findAccountState(p)
                              \/ setAccountDeactivated(p)
                              \/ setAccountPendingDeletion(p)
                              \/ setAccountActive(p)

Logins == \E p \in Requests : \/ findUserForLogin(p)
                              \/ clearExpiredSuspension(p)
                              \/ reactivateOnLogin(p)

Moderators == \E p \in Requests : \/ findModerationState(p)
                                  \/ setUserSuspended(p)
                                  \/ setUserBanned(p)
                                  \/ setUserUnsuspended(p)

Others == \/ Tick \/ Flush
          \/ \E p \in Requests : \/ block(p) \/ unblock(p)
                                 \/ findPunished(p) \/ rebuildFromDb(p)
                                 \/ anonymizeUserTx(p) \/ Fail(p)

LEMMA Cases ==
    ASSUME [Next]_vars
    PROVE  \/ \E p \in Requests : Arrive(p)
           \/ Owners \/ Logins \/ Moderators \/ Others \/ UNCHANGED vars
BY DEF Next, Read, Write, Mark, Owners, Logins, Moderators, Others

LEMMA IdleType == Idle \in Request
BY UsersAssumption DEF Idle, Request, Ops

(* The shape of a step of p: it goes on, with or without an update.        *)
LEMMA GoType ==
    ASSUME TypeOK, NEW p \in Requests,
           NEW pc \in {"idle", "read", "write", "clear", "unblock", "revive", "block"},
           Go(p, pc)
    PROVE  req' \in [Requests -> Request]
<1>1. req[p] \in Request
  BY DEF TypeOK
<1>2. [req[p] EXCEPT !.pc = pc] \in Request
  BY <1>1 DEF Request
<1> QED BY <1>2, IdleType DEF Go, TypeOK

LEMMA SetType ==
    ASSUME TypeOK, NEW p \in Requests, NEW s \in AccountStatus,
           NEW t \in 0..(MaxTime + Days), NEW d \in 0..(MaxTime + Grace),
           NEW pc \in {"idle", "read", "write", "clear", "unblock", "revive", "block"},
           Set(p, s, t, d, pc), leaving' \in [Users -> BOOLEAN]
    PROVE  TypeOK'
<1>1. req' \in [Requests -> Request]
  BY GoType DEF Set
<1> QED BY <1>1 DEF Set, TypeOK

LEMMA TypeInit == Init => TypeOK
BY IdleType, TimesAssumption DEF Init, TypeOK, AccountStatus

LEMMA TypeStep == TypeOK /\ [Next]_vars => TypeOK'
<1> SUFFICES ASSUME TypeOK, [Next]_vars PROVE TypeOK'
  OBVIOUS
<1> USE DEF account
<1>0. /\ 0 \in 0..(MaxTime + Days) /\ 0 \in 0..(MaxTime + Grace)
      /\ now + Days \in 0..(MaxTime + Days) /\ now + Grace \in 0..(MaxTime + Grace)
      /\ \A p \in Requests : /\ req[p] \in Request /\ req[p].user \in Users
                             /\ until[req[p].user] \in 0..(MaxTime + Days)
                             /\ due[req[p].user] \in 0..(MaxTime + Grace)
  BY TimesAssumption DEF TypeOK, Request
<1>1. ASSUME NEW p \in Requests, Arrive(p) PROVE TypeOK'
  <2>1. PICK u \in Users, op \in Ops, pc \in {"read", "write", "revive"} : Start(p, u, op, pc)
    BY <1>1 DEF Arrive, authenticate, moderate, login, resetPassword, reconcileSuspensions,
                reconcileAccountDeletions, boot, Ops
  <2>2. [Idle EXCEPT !.pc = pc, !.op = op, !.user = u] \in Request
    BY IdleType DEF Request
  <2>3. calm' \in BOOLEAN
    BY <2>1 DEF Start, Overlap, Alone, TypeOK
  <2> QED BY <2>1, <2>2, <2>3 DEF Start, TypeOK
<1>2. ASSUME NEW p \in Requests, findAccountState(p) \/ findUserForLogin(p)
             \/ findModerationState(p)
      PROVE TypeOK'
  <2>1. UNCHANGED <<now, account, denylist, leaving, calm>>
    BY <1>2 DEF findAccountState, findUserForLogin, findModerationState
  <2>2. req' \in [Requests -> Request]
    <3>1. PICK pc \in {"idle", "write", "clear", "unblock", "revive"} : Go(p, pc)
      BY <1>2 DEF findAccountState, findUserForLogin, findModerationState
    <3> QED BY <3>1, GoType
  <2> QED BY <2>1, <2>2 DEF TypeOK
<1>3. ASSUME NEW p \in Requests, findPunished(p) PROVE TypeOK'
  <2>1. [req[p] EXCEPT !.pc = "write", !.punished = Punished] \in Request
    BY <1>0 DEF Request, Punished
  <2> QED BY <1>3, <2>1 DEF findPunished, TypeOK
<1>4. ASSUME NEW p \in Requests,
             setAccountDeactivated(p) \/ setAccountPendingDeletion(p) \/ setAccountActive(p)
      PROVE TypeOK'
  <2>1. leaving' \in [Users -> BOOLEAN]
    BY <1>0, <1>4 DEF setAccountDeactivated, setAccountPendingDeletion,
                      setAccountActive, TypeOK
  <2>2. CASE setAccountDeactivated(p)
    BY <1>0, <2>1, <2>2, SetType DEF setAccountDeactivated, AccountStatus
  <2>3. CASE setAccountPendingDeletion(p)
    BY <1>0, <2>1, <2>3, SetType DEF setAccountPendingDeletion, AccountStatus
  <2>4. CASE setAccountActive(p)
    BY <1>0, <2>1, <2>4, SetType DEF setAccountActive, AccountStatus
  <2> QED BY <1>4, <2>2, <2>3, <2>4
<1>5. ASSUME NEW p \in Requests, clearExpiredSuspension(p) PROVE TypeOK'
  <2>1. leaving' \in [Users -> BOOLEAN]
    BY <1>5 DEF clearExpiredSuspension, TypeOK
  <2>2. CASE Expired(req[p].user)
    BY <1>0, <1>5, <2>1, <2>2, SetType DEF clearExpiredSuspension, AccountStatus
  <2>3. CASE ~ Expired(req[p].user)
    <3>1. req' \in [Requests -> Request]
      BY <1>5, <2>3, GoType DEF clearExpiredSuspension
    <3> QED BY <1>5, <2>3, <3>1 DEF clearExpiredSuspension, TypeOK
  <2> QED BY <2>2, <2>3
<1>6. ASSUME NEW p \in Requests, reactivateOnLogin(p) PROVE TypeOK'
  <2>1. leaving' \in [Users -> BOOLEAN]
    BY <1>0, <1>6 DEF reactivateOnLogin, TypeOK
  <2>2. CASE status[req[p].user] \in {"DEACTIVATED", "PENDING_DELETION"}
    BY <1>0, <1>6, <2>1, <2>2, SetType DEF reactivateOnLogin, AccountStatus
  <2>3. CASE status[req[p].user] \notin {"DEACTIVATED", "PENDING_DELETION"}
    <3>1. req' \in [Requests -> Request]
      BY <1>6, <2>3, GoType DEF reactivateOnLogin
    <3> QED BY <1>6, <2>1, <2>3, <3>1 DEF reactivateOnLogin, TypeOK
  <2> QED BY <2>2, <2>3
<1>7. ASSUME NEW p \in Requests,
             setUserSuspended(p) \/ setUserBanned(p) \/ setUserUnsuspended(p)
      PROVE TypeOK'
  <2>1. leaving' \in [Users -> BOOLEAN]
    BY <1>7 DEF setUserSuspended, setUserBanned, setUserUnsuspended, TypeOK
  <2>2. CASE setUserSuspended(p)
    BY <1>0, <2>1, <2>2, SetType DEF setUserSuspended, AccountStatus
  <2>3. CASE setUserBanned(p)
    BY <1>0, <2>1, <2>3, SetType DEF setUserBanned, AccountStatus
  <2>4. CASE setUserUnsuspended(p)
    BY <1>0, <2>1, <2>4, SetType DEF setUserUnsuspended, AccountStatus
  <2> QED BY <1>7, <2>2, <2>3, <2>4
<1>8. ASSUME NEW p \in Requests, anonymizeUserTx(p) PROVE TypeOK'
  <2>1. leaving' \in [Users -> BOOLEAN]
    BY <1>8 DEF anonymizeUserTx, TypeOK
  <2>2. CASE status[req[p].user] = "PENDING_DELETION"
    BY <1>0, <1>8, <2>1, <2>2, SetType DEF anonymizeUserTx, AccountStatus
  <2>3. CASE status[req[p].user] # "PENDING_DELETION"
    <3>1. req' \in [Requests -> Request]
      BY <1>8, <2>3, GoType DEF anonymizeUserTx
    <3> QED BY <1>8, <2>3, <3>1 DEF anonymizeUserTx, TypeOK
  <2> QED BY <2>2, <2>3
<1>9. ASSUME NEW p \in Requests,
             block(p) \/ unblock(p) \/ rebuildFromDb(p) \/ Fail(p)
      PROVE TypeOK'
  <2>1. PICK pc \in {"idle", "revive"} : Go(p, pc)
    BY <1>9 DEF block, unblock, rebuildFromDb, Fail
  <2>2. req' \in [Requests -> Request]
    BY <2>1, GoType
  <2>3. denylist' \subseteq Users
    BY <1>0, <1>9 DEF block, unblock, rebuildFromDb, Fail, TypeOK, Request
  <2> QED
    BY <1>9, <2>2, <2>3 DEF block, unblock, rebuildFromDb, Fail, TypeOK
<1>10. CASE Tick
  BY <1>10, TimesAssumption DEF Tick, TypeOK
<1>11. CASE Flush
  BY <1>11 DEF Flush, TypeOK
<1>12. CASE UNCHANGED vars
  BY <1>12 DEF vars, TypeOK
<1> QED
  BY <1>1, <1>2, <1>3, <1>4, <1>5, <1>6, <1>7, <1>8, <1>9, <1>10, <1>11, <1>12,
     Cases
  DEF Owners, Logins, Moderators, Others

(* Type correctness of the accounts, the denylist and the requests.        *)
THEOREM TypeCorrect == Spec => []TypeOK
BY TypeInit, TypeStep, PTL DEF Spec

-----------------------------------------------------------------------------
(* The owner's last word.  A deletion is pending only while the owner's    *)
(* last word was to leave, and the eraser looks at nothing else.           *)
PendingIsLeaving ==
    \A u \in Users : status[u] = "PENDING_DELETION" => leaving[u]

\* What each step does to the statuses.
LEMMA StatusStep ==
    ASSUME TypeOK, [Next]_vars
    PROVE  \/ UNCHANGED <<status, leaving>>
           \/ \E p \in Requests, s \in AccountStatus, l \in BOOLEAN :
                 LET u == req[p].user IN
                 /\ u \in Users
                 /\ status' = [status EXCEPT ![u] = s]
                 /\ leaving' = [leaving EXCEPT ![u] = l]
                 /\ s = "PENDING_DELETION" => l
                 /\ s = "ANONYMIZED" => status[u] = "PENDING_DELETION"
<1> USE DEF account
<1>0. \A p \in Requests : req[p].user \in Users /\ leaving[req[p].user] \in BOOLEAN
  BY DEF TypeOK, Request
<1>1. ASSUME NEW p \in Requests, Arrive(p) PROVE UNCHANGED <<status, leaving>>
  BY <1>1 DEF Arrive, authenticate, moderate, login, resetPassword, reconcileSuspensions,
              reconcileAccountDeletions, boot, Start
<1>2. ASSUME NEW p \in Requests, NEW s \in AccountStatus, NEW l \in BOOLEAN, NEW t, NEW d,
             NEW pc, Set(p, s, t, d, pc), leaving' = [leaving EXCEPT ![req[p].user] = l],
             s = "PENDING_DELETION" => l,
             s = "ANONYMIZED" => status[req[p].user] = "PENDING_DELETION"
      PROVE  \E q \in Requests, a \in AccountStatus, b \in BOOLEAN :
                 LET u == req[q].user IN
                 /\ u \in Users
                 /\ status' = [status EXCEPT ![u] = a]
                 /\ leaving' = [leaving EXCEPT ![u] = b]
                 /\ a = "PENDING_DELETION" => b
                 /\ a = "ANONYMIZED" => status[u] = "PENDING_DELETION"
  BY <1>0, <1>2 DEF Set
<1>3. \A u \in Users : leaving = [leaving EXCEPT ![u] = leaving[u]]
  BY DEF TypeOK
<1>4. CASE Owners
  BY <1>2, <1>4 DEF Owners, findAccountState, setAccountDeactivated,
     setAccountPendingDeletion, setAccountActive, AccountStatus
<1>5. CASE Logins
  BY <1>0, <1>2, <1>3, <1>5 DEF Logins, findUserForLogin, clearExpiredSuspension,
     reactivateOnLogin, AccountStatus
<1>6. CASE Moderators
  BY <1>0, <1>2, <1>3, <1>6 DEF Moderators, findModerationState, setUserSuspended,
     setUserBanned, setUserUnsuspended, AccountStatus
<1>7. CASE Others
  BY <1>0, <1>2, <1>3, <1>7 DEF Others, Tick, Flush, block, unblock, findPunished,
     rebuildFromDb, anonymizeUserTx, Fail, AccountStatus
<1> QED BY <1>1, <1>4, <1>5, <1>6, <1>7, Cases DEF vars

LEMMA LeavingInit == Init => PendingIsLeaving
BY DEF Init, PendingIsLeaving

LEMMA LeavingStep ==
    TypeOK /\ PendingIsLeaving /\ [Next]_vars =>
        /\ PendingIsLeaving'
        /\ \A u \in Users :
              status[u] # "ANONYMIZED" /\ status'[u] = "ANONYMIZED" => leaving[u]
<1> SUFFICES ASSUME TypeOK, PendingIsLeaving, [Next]_vars
             PROVE  /\ PendingIsLeaving'
                    /\ \A u \in Users :
                          status[u] # "ANONYMIZED" /\ status'[u] = "ANONYMIZED"
                              => leaving[u]
  OBVIOUS
<1>1. CASE UNCHANGED <<status, leaving>>
  BY <1>1 DEF PendingIsLeaving
<1>2. CASE \E p \in Requests, s \in AccountStatus, l \in BOOLEAN :
             LET u == req[p].user IN
             /\ u \in Users
             /\ status' = [status EXCEPT ![u] = s]
             /\ leaving' = [leaving EXCEPT ![u] = l]
             /\ s = "PENDING_DELETION" => l
             /\ s = "ANONYMIZED" => status[u] = "PENDING_DELETION"
  BY <1>2 DEF PendingIsLeaving, TypeOK
<1> QED BY <1>1, <1>2, StatusStep

(* However requests and reconcilers overlap, the eraser only ever takes    *)
(* accounts whose owner's last word was to leave.                          *)
THEOREM LoginWins == Spec => OnlyLeaversErased
<1>1. TypeOK /\ PendingIsLeaving /\ [Next]_vars =>
        [\A u \in Users :
            status[u] # "ANONYMIZED" /\ status'[u] = "ANONYMIZED" => leaving[u]]_vars
  BY LeavingStep
<1> QED
  BY <1>1, TypeInit, TypeStep, LeavingInit, LeavingStep, PTL
  DEF Spec, OnlyLeaversErased

-----------------------------------------------------------------------------
(* The denylist, one request at a time.                                    *)

\* How far the denylist and the table may differ while p is in flight.
Mirrored(p) ==
    LET r == req[p] IN
    /\ r.pc \in {"read", "write", "clear", "revive"} /\ r.op # "boot" =>
           denylist = Punished
    /\ r.pc = "block" => Punished = denylist \cup {r.user}
    /\ r.pc = "unblock" => Punished = denylist \ {r.user}
    /\ r.op = "boot" /\ r.pc = "write" => r.punished = Punished
    /\ r.op \in OwnerOps /\ r.pc \in {"read", "write"} => r.user \notin Punished
    /\ r.op = "suspend" /\ r.pc = "write" => status[r.user] # "BANNED"
    /\ r.op = "expire" /\ r.pc \in {"read", "write"} => status[r.user] = "SUSPENDED"

AllIdle == \A p \in Requests : req[p].pc = "idle"

Calm == calm =>
    /\ \A p, q \in Requests : req[p].pc # "idle" /\ req[q].pc # "idle" => p = q
    /\ \A p \in Requests : Mirrored(p)
    /\ AllIdle => denylist = Punished

LEMMA CalmInit == Init => Calm
BY DEF Init, Calm, Mirrored, AllIdle, Punished, Idle, OwnerOps

\* A request that has the system to itself takes a step.
LEMMA CalmGo ==
    ASSUME TypeOK, Calm, NEW p \in Requests, NEW pc, req[p].pc # "idle", calm,
           pc \in {"idle", "read", "write", "clear", "unblock", "revive", "block"},
           Go(p, pc)
    PROVE  /\ \A q \in Requests \ {p} : req[q].pc = "idle" /\ req'[q] = req[q]
           /\ req'[p].pc = pc
           /\ pc # "idle" => /\ req'[p].op = req[p].op /\ req'[p].user = req[p].user
                             /\ req'[p].punished = req[p].punished
<1>1. req[p] \in Request
  BY DEF TypeOK
<1>2. \A q \in Requests \ {p} : req[q].pc = "idle" /\ req'[q] = req[q]
  BY DEF Calm, Go, TypeOK
<1>3. req'[p] = IF pc = "idle" THEN Idle ELSE [req[p] EXCEPT !.pc = pc]
  BY DEF Go, TypeOK
<1>4. Idle.pc = "idle"
  BY DEF Idle
<1> QED BY <1>1, <1>2, <1>3, <1>4 DEF Request

\* Calm is kept by a step of p that leaves p mirrored, and, if p is done, the
\* denylist right.
LEMMA CalmKept ==
    ASSUME TypeOK, Calm, NEW p \in Requests, NEW pc, req[p].pc # "idle",
           pc \in {"idle", "read", "write", "clear", "unblock", "revive", "block"},
           Go(p, pc), UNCHANGED calm,
           calm => Mirrored(p)', calm /\ pc = "idle" => (denylist = Punished)'
    PROVE  Calm'
<1> SUFFICES ASSUME calm
             PROVE  /\ \A q, r \in Requests :
                           req'[q].pc # "idle" /\ req'[r].pc # "idle" => q = r
                    /\ \A q \in Requests : Mirrored(q)'
                    /\ AllIdle' => (denylist = Punished)'
  BY DEF Calm
<1>1. /\ \A q \in Requests \ {p} : req'[q].pc = "idle"
      /\ req'[p].pc = pc
  BY CalmGo
<1>2. \A q \in Requests \ {p} : Mirrored(q)'
  BY <1>1 DEF Mirrored
<1> QED BY <1>1, <1>2 DEF AllIdle

\* A request arrives.
LEMMA CalmArrive ==
    ASSUME TypeOK, Calm, NEW p \in Requests, Arrive(p) PROVE Calm'
<1> USE DEF account
<1>1. PICK u \in Users, op \in Ops, pc \in {"read", "write", "revive"} :
         /\ Start(p, u, op, pc)
         /\ op \in OwnerOps => u \notin denylist
         /\ op = "expire" => status[u] = "SUSPENDED"
         /\ op \in {"suspend", "boot"} => pc = "read"
  BY DEF Arrive, authenticate, moderate, login, resetPassword, reconcileSuspensions, Expired,
         reconcileAccountDeletions, boot, Ops, OwnerOps, AdminOps
<1> SUFFICES ASSUME calm'
             PROVE  /\ \A q, r \in Requests :
                           req'[q].pc # "idle" /\ req'[r].pc # "idle" => q = r
                    /\ \A q \in Requests : Mirrored(q)'
                    /\ AllIdle' => (denylist = Punished)'
  BY DEF Calm
<1>2. /\ \A q \in Requests : req[q].pc = "idle"
      /\ calm \/ op = "boot"
  BY <1>1 DEF Start, Overlap, Alone
<1>3. op # "boot" => denylist = Punished
  BY <1>2 DEF Calm, AllIdle
<1>4. /\ req'[p].pc = pc /\ req'[p].op = op /\ req'[p].user = u
      /\ \A q \in Requests \ {p} : req'[q].pc = "idle"
  <2>1. req'[p] = [Idle EXCEPT !.pc = pc, !.op = op, !.user = u]
    BY <1>1 DEF Start, TypeOK
  <2>2. \A q \in Requests \ {p} : req'[q] = req[q]
    BY <1>1 DEF Start, TypeOK
  <2> QED BY <1>2, <2>1, <2>2, IdleType DEF Request
<1>5. UNCHANGED <<status, denylist>> /\ Punished' = Punished
  BY <1>1 DEF Start, Punished
<1>6. Mirrored(p)'
  <2>1. op \in OwnerOps => u \notin Punished
    BY <1>1, <1>3 DEF OwnerOps
  <2>2. /\ op # "boot" => denylist = Punished
        /\ op = "expire" => status[u] = "SUSPENDED"
        /\ op \in {"suspend", "boot"} => pc = "read"
    BY <1>1, <1>3
  <2> QED BY <1>4, <1>5, <2>1, <2>2 DEF Mirrored
<1>7. \A q \in Requests \ {p} : Mirrored(q)'
  BY <1>4 DEF Mirrored
<1> QED BY <1>4, <1>6, <1>7 DEF AllIdle

\* A step of p that decides and writes nothing.
LEMMA CalmTurn ==
    ASSUME TypeOK, Calm, NEW p \in Requests,
           NEW pc \in {"idle", "write", "clear", "unblock", "revive"}, Go(p, pc),
           req[p].pc \in {"read", "clear", "revive"}, req[p].op # "boot",
           UNCHANGED <<status, denylist, calm>>,
           req[p].op \in OwnerOps => req[p].pc = "read",
           req[p].op = "expire" => req[p].pc = "read",
           pc = "unblock" => req[p].user \notin Punished,
           req[p].op = "suspend" /\ pc = "write" => status[req[p].user] # "BANNED"
    PROVE  Calm'
<1>1. Punished' = Punished
  BY DEF Punished
<1>2. calm => /\ denylist = Punished
              /\ req[p].op \in OwnerOps => req[p].user \notin Punished
              /\ req[p].op = "expire" => status[req[p].user] = "SUSPENDED"
  BY DEF Calm, Mirrored
<1>3. ASSUME calm PROVE Mirrored(p)'
  <2>1. CASE pc = "idle"
    <3>1. req'[p].pc = "idle"
      BY <1>3, <2>1, CalmGo
    <3> QED BY <3>1 DEF Mirrored
  <2>2. CASE pc # "idle"
    <3>1. /\ req'[p].pc = pc /\ req'[p].op = req[p].op
          /\ req'[p].user = req[p].user
      BY <1>3, <2>2, CalmGo
    <3> QED BY <1>1, <1>2, <1>3, <3>1 DEF Mirrored
  <2> QED BY <2>1, <2>2
<1> QED BY <1>1, <1>2, <1>3, CalmKept

\* The early returns.
LEMMA CalmRead ==
    ASSUME TypeOK, Calm, NEW p \in Requests, Read(p) PROVE Calm'
<1> USE DEF account, At
<1>1. CASE findAccountState(p)
  <2>1. PICK pc \in {"idle", "write"} : Go(p, pc)
    BY <1>1 DEF findAccountState
  <2> QED BY <1>1, <2>1, CalmTurn DEF findAccountState, OwnerOps
<1>2. CASE findUserForLogin(p)
  <2>1. PICK pc \in {"idle", "clear", "revive"} : Go(p, pc)
    BY <1>2 DEF findUserForLogin
  <2> QED BY <1>2, <2>1, CalmTurn DEF findUserForLogin, OwnerOps
<1>3. CASE findModerationState(p)
  <2>1. PICK pc \in {"idle", "write", "unblock"} :
           /\ Go(p, pc)
           /\ pc = "unblock" => req[p].user \notin Punished
           /\ req[p].op = "suspend" /\ pc = "write" =>
                  status[req[p].user] # "BANNED"
    BY <1>3 DEF findModerationState, Punished
  <2>2. /\ req[p].pc = "read" /\ req[p].op # "boot"
        /\ UNCHANGED <<status, denylist, calm>>
    BY <1>3 DEF findModerationState, AdminOps
  <2> QED BY <2>1, <2>2, CalmTurn
<1>4. CASE findPunished(p)
  <2>1. UNCHANGED <<status, denylist, calm>>
    BY <1>4 DEF findPunished
  <2>2. Punished' = Punished
    BY <2>1 DEF Punished
  <2> SUFFICES ASSUME calm PROVE Calm'
    BY <2>1 DEF Calm
  <2>3. \A q \in Requests \ {p} : req[q].pc = "idle" /\ req'[q] = req[q]
    BY <1>4 DEF findPunished, Calm, TypeOK
  <2>4. /\ req'[p].pc = "write" /\ req'[p].op = "boot"
        /\ req'[p].punished = Punished
    BY <1>4 DEF findPunished, TypeOK, Request
  <2>5. Mirrored(p)'
    BY <2>2, <2>4 DEF Mirrored, OwnerOps
  <2>6. \A q \in Requests \ {p} : Mirrored(q)'
    BY <2>3 DEF Mirrored
  <2> QED BY <2>3, <2>4, <2>5, <2>6 DEF Calm, AllIdle
<1> QED BY <1>1, <1>2, <1>3, <1>4 DEF Read

\* The unconditional writes: by the owner (not punished), or by moderation,
\* which goes on to the denylist.
LEMMA CalmSet ==
    ASSUME TypeOK, Calm, NEW p \in Requests, NEW s \in AccountStatus, NEW t, NEW d,
           NEW pc \in {"idle", "block", "unblock", "revive"},
           Set(p, s, t, d, pc), req[p].pc \in {"write", "clear", "revive"},
           req[p].op # "boot",
           pc = "block" <=> s \in {"SUSPENDED", "BANNED"},
           pc \in {"idle", "revive"} /\ calm => req[p].user \notin Punished
    PROVE  Calm'
<1>1. UNCHANGED <<denylist, calm>> /\ Go(p, pc) /\ req[p].user \in Users
  BY DEF Set, TypeOK, Request
<1>2. Punished' = IF pc = "block" THEN Punished \cup {req[p].user}
                                  ELSE Punished \ {req[p].user}
  BY <1>1 DEF Set, Punished, TypeOK
<1>3. calm => denylist = Punished
  BY DEF Calm, Mirrored
<1>4. calm => Mirrored(p)'
  BY <1>1, <1>2, <1>3, CalmGo DEF Mirrored
<1> QED BY <1>1, <1>2, <1>3, <1>4, CalmKept

LEMMA CalmWrite ==
    ASSUME TypeOK, Calm, NEW p \in Requests, Write(p) PROVE Calm'
<1> USE DEF account, At, AccountStatus
<1>0. req[p].user \in Users /\ (calm => Mirrored(p))
  BY DEF TypeOK, Request, Calm
<1>1. CASE setAccountDeactivated(p)
  BY <1>0, <1>1, CalmSet DEF setAccountDeactivated, Mirrored, OwnerOps
<1>2. CASE setAccountPendingDeletion(p)
  BY <1>0, <1>2, CalmSet DEF setAccountPendingDeletion, Mirrored, OwnerOps
<1>3. CASE setAccountActive(p)
  BY <1>0, <1>3, CalmSet DEF setAccountActive, Mirrored, OwnerOps
<1>4. CASE clearExpiredSuspension(p)
  <2>1. CASE Expired(req[p].user)
    BY <1>4, <2>1, CalmSet DEF clearExpiredSuspension
  <2>2. CASE ~ Expired(req[p].user)
    <3>1. Go(p, "revive") /\ UNCHANGED <<status, denylist, calm>> /\ Punished' = Punished
      BY <1>4, <2>2 DEF clearExpiredSuspension, Punished
    <3>2. calm => Mirrored(p)'
      BY <1>0, <1>4, <3>1, CalmGo DEF clearExpiredSuspension, Mirrored, OwnerOps
    <3> QED BY <1>4, <3>1, <3>2, CalmKept DEF clearExpiredSuspension
  <2> QED BY <2>1, <2>2
<1>5. CASE reactivateOnLogin(p)
  <2>1. CASE status[req[p].user] \in {"DEACTIVATED", "PENDING_DELETION"}
    <3>1. req[p].user \notin Punished
      BY <2>1 DEF Punished
    <3> QED BY <1>5, <2>1, <3>1, CalmSet DEF reactivateOnLogin
  <2>2. CASE status[req[p].user] \notin {"DEACTIVATED", "PENDING_DELETION"}
    <3>1. Go(p, "idle") /\ UNCHANGED <<status, denylist, calm>> /\ Punished' = Punished
      BY <1>5, <2>2 DEF reactivateOnLogin, Punished
    <3>2. calm => Mirrored(p)'
      BY <3>1, <1>5, CalmGo DEF reactivateOnLogin, Mirrored
    <3>3. calm => denylist = Punished
      BY <1>0, <1>5 DEF reactivateOnLogin, Mirrored
    <3> QED BY <1>5, <3>1, <3>2, <3>3, CalmKept DEF reactivateOnLogin
  <2> QED BY <2>1, <2>2
<1>6. CASE setUserSuspended(p)
  BY <1>6, CalmSet DEF setUserSuspended
<1>7. CASE setUserBanned(p)
  BY <1>7, CalmSet DEF setUserBanned
<1>8. CASE setUserUnsuspended(p)
  BY <1>8, CalmSet DEF setUserUnsuspended
<1>9. CASE anonymizeUserTx(p)
  <2>1. CASE status[req[p].user] = "PENDING_DELETION"
    <3>1. req[p].user \notin Punished
      BY <2>1 DEF Punished
    <3> QED BY <1>9, <2>1, <3>1, CalmSet DEF anonymizeUserTx
  <2>2. CASE status[req[p].user] # "PENDING_DELETION"
    <3>1. Go(p, "idle") /\ UNCHANGED <<status, denylist, calm>> /\ Punished' = Punished
      BY <1>9, <2>2 DEF anonymizeUserTx, Punished
    <3>2. calm => Mirrored(p)'
      BY <3>1, <1>9, CalmGo DEF anonymizeUserTx, Mirrored
    <3>3. calm => denylist = Punished
      BY <1>0, <1>9 DEF anonymizeUserTx, Mirrored
    <3> QED BY <1>9, <3>1, <3>2, <3>3, CalmKept DEF anonymizeUserTx
  <2> QED BY <2>1, <2>2
<1> QED
  BY <1>1, <1>2, <1>3, <1>4, <1>5, <1>6, <1>7, <1>8, <1>9 DEF Write

\* The denylist catches up with the table.
LEMMA CalmMark ==
    ASSUME TypeOK, Calm, NEW p \in Requests, Mark(p) PROVE Calm'
<1> USE DEF account
<1>0. UNCHANGED <<status, calm>> /\ Punished' = Punished /\ (calm => Mirrored(p))
  BY DEF Mark, block, unblock, rebuildFromDb, Punished, Calm
<1>1. CASE block(p)
  <2>1. Go(p, "idle") /\ (calm => denylist' = Punished)
    BY <1>0, <1>1 DEF block, Mirrored
  <2>2. calm => Mirrored(p)'
    BY <1>1, <2>1, CalmGo DEF block, Mirrored
  <2> QED BY <1>0, <1>1, <2>1, <2>2, CalmKept DEF block
<1>2. CASE unblock(p)
  <2>1. PICK pc \in {"idle", "revive"} :
           Go(p, pc) /\ (pc = "revive" => req[p].op = "login")
    BY <1>2 DEF unblock
  <2>2. calm => denylist' = Punished
    BY <1>0, <1>2 DEF unblock, Mirrored
  <2>3. calm => Mirrored(p)'
    BY <1>0, <1>2, <2>1, <2>2, CalmGo DEF unblock, Mirrored, OwnerOps
  <2> QED BY <1>0, <1>2, <2>1, <2>2, <2>3, CalmKept DEF unblock
<1>3. CASE rebuildFromDb(p)
  <2>1. Go(p, "idle") /\ (calm => denylist' = Punished)
    BY <1>0, <1>3 DEF rebuildFromDb, At, Mirrored
  <2>2. calm => Mirrored(p)'
    BY <1>3, <2>1, CalmGo DEF rebuildFromDb, At, Mirrored
  <2> QED BY <1>0, <1>3, <2>1, <2>2, CalmKept DEF rebuildFromDb, At
<1> QED BY <1>1, <1>2, <1>3 DEF Mark

LEMMA CalmStep == TypeOK /\ Calm /\ [Next]_vars => Calm'
<1> SUFFICES ASSUME TypeOK, Calm, [Next]_vars PROVE Calm'
  OBVIOUS
<1>1. ASSUME NEW p \in Requests, Arrive(p) PROVE Calm'
  BY <1>1, CalmArrive
<1>2. ASSUME NEW p \in Requests, Read(p) PROVE Calm'
  BY <1>2, CalmRead
<1>3. ASSUME NEW p \in Requests, Write(p) PROVE Calm'
  BY <1>3, CalmWrite
<1>4. ASSUME NEW p \in Requests, Mark(p) PROVE Calm'
  BY <1>4, CalmMark
<1>5. ASSUME NEW p \in Requests, Fail(p) PROVE Calm'
  BY <1>5 DEF Fail, Calm
<1>6. CASE Flush
  BY <1>6 DEF Flush, Calm
<1>7. CASE Tick \/ UNCHANGED vars
  <2>1. UNCHANGED <<status, denylist, req, calm>>
    BY <1>7 DEF Tick, vars, account
  <2>2. Punished' = Punished
    BY <2>1 DEF Punished
  <2>3. \A p \in Requests : Mirrored(p) => Mirrored(p)'
    BY <2>1, <2>2 DEF Mirrored
  <2> QED BY <2>1, <2>2, <2>3 DEF Calm, AllIdle
<1> QED BY <1>1, <1>2, <1>3, <1>4, <1>5, <1>6, <1>7 DEF Next

(* Without overlap, the denylist mirrors the table whenever the system is  *)
(* at rest, for any number of accounts; a boot alone restores that.        *)
THEOREM DenylistRight == Spec => []DenylistMirrorsTable
<1>1. Calm => DenylistMirrorsTable
  BY DEF Calm, AllIdle, DenylistMirrorsTable
<1> QED BY <1>1, TypeInit, TypeStep, CalmInit, CalmStep, PTL DEF Spec

\* The only write that takes a banned account out of the ban is an admin's.
LEMMA BanStep ==
    ASSUME TypeOK, Calm, calm, [Next]_vars, NEW u \in Users,
           status[u] = "BANNED", status'[u] # "BANNED"
    PROVE  LiftedByAdmin(u)
<1> USE DEF account, At, AccountStatus
<1>1. PICK p \in Requests : Write(p)
  <2>1. CASE UNCHANGED status
    BY <2>1
  <2>2. CASE \E p \in Requests : Write(p)
    BY <2>2
  <2>3. ASSUME NEW p \in Requests, Arrive(p) PROVE UNCHANGED status
    BY <2>3 DEF Arrive, authenticate, moderate, login, resetPassword, reconcileSuspensions,
                reconcileAccountDeletions, boot, Start
  <2>4. ASSUME NEW p \in Requests, Read(p) PROVE UNCHANGED status
    BY <2>4 DEF Read, findAccountState, findUserForLogin, findModerationState,
                findPunished
  <2>5. ASSUME NEW p \in Requests, Mark(p) \/ Fail(p) PROVE UNCHANGED status
    BY <2>5 DEF Mark, block, unblock, rebuildFromDb, Fail
  <2>6. Tick \/ Flush \/ UNCHANGED vars => UNCHANGED status
    BY DEF Tick, Flush, vars
  <2> QED BY <2>1, <2>2, <2>3, <2>4, <2>5, <2>6 DEF Next
<1>2. /\ u \in Punished
      /\ req[p].op \in OwnerOps /\ req[p].pc = "write" => req[p].user # u
      /\ req[p].op = "suspend" /\ req[p].pc = "write" => req[p].user # u
      /\ req[p].op = "expire" /\ req[p].pc = "write" => req[p].user # u
  <2>1. Mirrored(p)
    BY DEF Calm
  <2> QED BY <2>1 DEF Mirrored, Punished
<1>3. ASSUME NEW s, NEW t, NEW d, NEW pc, Set(p, s, t, d, pc)
      PROVE  req[p].user = u /\ s # "BANNED"
  BY <1>3 DEF Set, TypeOK, Request
<1>4. CASE \/ setAccountDeactivated(p)
           \/ setAccountPendingDeletion(p)
           \/ setAccountActive(p)
  BY <1>2, <1>3, <1>4
  DEF setAccountDeactivated, setAccountPendingDeletion, setAccountActive, OwnerOps
<1>5. CASE clearExpiredSuspension(p) \/ reactivateOnLogin(p) \/ anonymizeUserTx(p)
  BY <1>3, <1>5 DEF clearExpiredSuspension, Expired, reactivateOnLogin, anonymizeUserTx
<1>6. CASE setUserSuspended(p) \/ setUserBanned(p)
  BY <1>2, <1>3, <1>6 DEF setUserSuspended, setUserBanned
<1>7. CASE setUserUnsuspended(p)
  BY <1>2, <1>3, <1>7 DEF setUserUnsuspended, LiftedByAdmin
<1> QED BY <1>1, <1>4, <1>5, <1>6, <1>7 DEF Write

(* Without overlap a ban ends only by an admin's hand: not by a login, not *)
(* by the expiry of an earlier suspension, not from the owner's session.   *)
THEOREM BansHold == Spec => CalmBanIsPermanent
<1>1. TypeOK /\ Calm /\ [Next]_vars =>
        [\A u \in Users :
            calm /\ status[u] = "BANNED" /\ status'[u] # "BANNED" =>
                LiftedByAdmin(u)]_vars
  BY BanStep
<1> QED
  BY <1>1, TypeInit, TypeStep, CalmInit, CalmStep, PTL DEF Spec, CalmBanIsPermanent

=============================================================================
