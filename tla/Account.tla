------------------------------ MODULE Account ------------------------------
(***************************************************************************)
(* The life of an account (src/modules/users, the login of modules/auth)   *)
(* and the moderation denylist in Redis (src/lib/moderation-denylist).     *)
(*                                                                         *)
(* Handlers, the two reconcilers and the boot of an instance run at the    *)
(* same time and interleave between their database and Redis calls.  Most  *)
(* of them read the status, decide, and then write it unconditionally; the *)
(* login and the eraser write it conditionally.                            *)
(***************************************************************************)
EXTENDS Integers, FiniteSets

CONSTANTS
    Users,          \* accounts
    Requests,       \* slots for handlers and reconciler passes in flight
    Grace,          \* ACCOUNT_DELETION_GRACE_DAYS
    Days,           \* length of a suspension
    MaxTime         \* bound: last instant of the clock

ASSUME UsersAssumption == Users # {}
ASSUME TimesAssumption ==
    Grace \in Nat \ {0} /\ Days \in Nat \ {0} /\ MaxTime \in Nat

VARIABLES
    now,            \* the clock
    status,         \* User.accountStatus
    until,          \* User.suspendedUntil, 0 when null
    due,            \* User.scheduledDeletionAt, 0 when null
    denylist,       \* Redis: the set moderation:blocked
    req,            \* what each slot is doing
    leaving,        \* history: the owner's last word was to delete the account
    calm            \* history: see Overlap

vars == <<now, status, until, due, denylist, req, leaving, calm>>
account == <<status, until, due>>

AccountStatus == {"ACTIVE", "DEACTIVATED", "PENDING_DELETION", "ANONYMIZED",
                  "SUSPENDED", "BANNED"}
OwnerOps == {"deactivate", "schedule", "reactivate"}
AdminOps == {"suspend", "ban", "unsuspend"}
Ops == OwnerOps \cup AdminOps \cup {"login", "expire", "erase", "boot"}

Request == [pc: {"idle", "read", "write", "clear", "unblock", "revive", "block"},
            op: Ops, user: Users, punished: SUBSET Users]

Idle == [pc |-> "idle", op |-> "boot", user |-> CHOOSE u \in Users : TRUE,
         punished |-> {}]

Punished == {u \in Users : status[u] \in {"SUSPENDED", "BANNED"}}

-----------------------------------------------------------------------------
Init ==
    /\ now = 0
    /\ status = [u \in Users |-> "ACTIVE"]
    /\ until = [u \in Users |-> 0]
    /\ due = [u \in Users |-> 0]
    /\ denylist = {}
    /\ req = [p \in Requests |-> Idle]
    /\ leaving = [u \in Users |-> FALSE]
    /\ calm = TRUE

Tick ==
    /\ now < MaxTime
    /\ now' = now + 1
    /\ UNCHANGED <<account, denylist, req, leaving, calm>>

Alone(p) == \A q \in Requests \ {p} : req[q].pc = "idle"

(* The history variable calm is lost when two requests overlap, when one   *)
(* is cut short or when Redis is flushed; a boot that has the system to    *)
(* itself brings it back.                                                  *)
Overlap(p, op) == calm' = (Alone(p) /\ (calm \/ op = "boot"))

Start(p, u, op, pc) ==
    /\ req[p].pc = "idle"
    /\ req' = [req EXCEPT ![p] = [Idle EXCEPT !.pc = pc, !.op = op, !.user = u]]
    /\ Overlap(p, op)
    /\ UNCHANGED <<now, account, denylist, leaving>>

At(p, op, pc) == req[p].op = op /\ req[p].pc = pc

Go(p, pc) == req' = [req EXCEPT ![p] = IF pc = "idle" THEN Idle
                                       ELSE [@ EXCEPT !.pc = pc]]

\* The update of one account by p, which goes on to pc.
Set(p, s, t, d, pc) ==
    LET u == req[p].user IN
    /\ status' = [status EXCEPT ![u] = s]
    /\ until' = [until EXCEPT ![u] = t]
    /\ due' = [due EXCEPT ![u] = d]
    /\ Go(p, pc)
    /\ UNCHANGED <<now, denylist, calm>>

-----------------------------------------------------------------------------
(* Requests of the owner.                                                  *)

\* Variant: the session of a punished account is not cut off.
authenticateAny(p, u, op) == Start(p, u, op, "read")

\* The decorator: the JWT does not expire, the denylist is asked.
authenticate(p, u, op) == u \notin denylist /\ Start(p, u, op, "read")

\* deactivateAccount, scheduleAccountDeletion and reactivateAccount: the early
\* returns, decided on the status read here.
findAccountState(p) ==
    LET s == status[req[p].user] IN
    /\ req[p].op \in OwnerOps /\ req[p].pc = "read"
    /\ Go(p, IF \/ s = "ANONYMIZED"
                \/ req[p].op = "deactivate" /\ s = "DEACTIVATED"
                \/ req[p].op = "schedule" /\ s = "PENDING_DELETION"
                \/ req[p].op = "reactivate" /\ s = "ACTIVE"
             THEN "idle" ELSE "write")
    /\ UNCHANGED <<now, account, denylist, leaving, calm>>

setAccountDeactivated(p) ==
    /\ At(p, "deactivate", "write")
    /\ Set(p, "DEACTIVATED", until[req[p].user], 0, "idle")
    /\ leaving' = [leaving EXCEPT ![req[p].user] = FALSE]

setAccountPendingDeletion(p) ==
    /\ At(p, "schedule", "write")
    /\ Set(p, "PENDING_DELETION", until[req[p].user], now + Grace, "idle")
    /\ leaving' = [leaving EXCEPT ![req[p].user] = TRUE]

setAccountActive(p) ==
    /\ At(p, "reactivate", "write")
    /\ Set(p, "ACTIVE", until[req[p].user], 0, "idle")
    /\ leaving' = [leaving EXCEPT ![req[p].user] = FALSE]

-----------------------------------------------------------------------------
(* validateLogin, after the password.                                      *)

login(p, u) == Start(p, u, "login", "read")

\* The reset of the password ends with reactivateOnLogin, a social login begins
\* with it; neither asks for the status first.
resetPassword(p, u) == Start(p, u, "login", "revive")

findUserForLogin(p) ==
    LET u == req[p].user IN
    /\ At(p, "login", "read")
    /\ Go(p, CASE status[u] \in {"ANONYMIZED", "BANNED"} -> "idle"
               [] status[u] = "SUSPENDED" ->
                     IF until[u] > now THEN "idle" ELSE "clear"
               [] OTHER -> "revive")
    /\ UNCHANGED <<now, account, denylist, leaving, calm>>

Expired(u) == status[u] = "SUSPENDED" /\ until[u] # 0 /\ until[u] <= now

\* A conditional updateMany; the unblock follows only if it matched.
clearExpiredSuspension(p) ==
    LET u == req[p].user IN
    /\ At(p, "login", "clear")
    /\ IF Expired(u) THEN Set(p, "ACTIVE", 0, due[u], "unblock")
       ELSE /\ Go(p, "revive")
            /\ UNCHANGED <<now, account, denylist, calm>>
    /\ UNCHANGED leaving

\* A conditional updateMany: the login wins over the eraser or does nothing.
reactivateOnLogin(p) ==
    LET u == req[p].user IN
    /\ At(p, "login", "revive")
    /\ IF status[u] \in {"DEACTIVATED", "PENDING_DELETION"}
       THEN /\ Set(p, "ACTIVE", until[u], 0, "idle")
            /\ leaving' = [leaving EXCEPT ![u] = FALSE]
       ELSE /\ Go(p, "idle")
            /\ UNCHANGED <<now, account, denylist, leaving, calm>>

-----------------------------------------------------------------------------
(* Moderation and the expiry of suspensions.                               *)

moderate(p, u, op) == Start(p, u, op, "read")

\* findAccountsDueForUnsuspension lists u; unsuspendUser(u) comes later.
reconcileSuspensions(p, u) == Expired(u) /\ Start(p, u, "expire", "read")

\* assertModeratable, and the two paths of unsuspendUser.
findModerationState(p) ==
    LET s == status[req[p].user] IN
    /\ req[p].op \in AdminOps \cup {"expire"} /\ req[p].pc = "read"
    /\ Go(p, IF req[p].op \in {"suspend", "ban"}
             THEN IF req[p].op = "suspend" /\ s = "BANNED" THEN "idle" ELSE "write"
             ELSE IF s \in {"SUSPENDED", "BANNED"} THEN "write" ELSE "unblock")
    /\ UNCHANGED <<now, account, denylist, leaving, calm>>

setUserSuspended(p) ==
    /\ At(p, "suspend", "write")
    /\ Set(p, "SUSPENDED", now + Days, due[req[p].user], "block")
    /\ UNCHANGED leaving

setUserBanned(p) ==
    /\ At(p, "ban", "write")
    /\ Set(p, "BANNED", 0, due[req[p].user], "block")
    /\ UNCHANGED leaving

setUserUnsuspended(p) ==
    /\ req[p].op \in {"unsuspend", "expire"} /\ req[p].pc = "write"
    /\ Set(p, "ACTIVE", 0, due[req[p].user], "unblock")
    /\ UNCHANGED leaving

block(p) ==
    /\ req[p].pc = "block"
    /\ denylist' = denylist \cup {req[p].user}
    /\ Go(p, "idle")
    /\ UNCHANGED <<now, account, leaving, calm>>

\* Variant: the expiry of a suspension leaves the user in the denylist.
unblockNot(p) ==
    /\ req[p].pc = "unblock"
    /\ Go(p, IF req[p].op = "login" THEN "revive" ELSE "idle")
    /\ UNCHANGED <<now, account, denylist, leaving, calm>>

unblock(p) ==
    /\ req[p].pc = "unblock"
    /\ denylist' = denylist \ {req[p].user}
    /\ Go(p, IF req[p].op = "login" THEN "revive" ELSE "idle")
    /\ UNCHANGED <<now, account, leaving, calm>>

-----------------------------------------------------------------------------
(* rebuildFromDb, at the boot of an instance, while others serve.          *)

boot(p) == \E u \in Users : Start(p, u, "boot", "read")

findPunished(p) ==
    /\ At(p, "boot", "read")
    /\ req' = [req EXCEPT ![p].pc = "write", ![p].punished = Punished]
    /\ UNCHANGED <<now, account, denylist, leaving, calm>>

\* MULTI: DEL and SADD.
rebuildFromDb(p) ==
    /\ At(p, "boot", "write")
    /\ denylist' = req[p].punished
    /\ Go(p, "idle")
    /\ UNCHANGED <<now, account, leaving, calm>>

Flush ==
    /\ denylist # {}
    /\ denylist' = {}
    /\ calm' = FALSE
    /\ UNCHANGED <<now, account, req, leaving>>

-----------------------------------------------------------------------------
(* The deletion reconciler.                                                *)

\* Variant: the comparison of the WHERE is the other way round.
NotYetDue(u) == status[u] = "PENDING_DELETION" /\ due[u] >= now

DueForAnonymization(u) ==
    status[u] = "PENDING_DELETION" /\ due[u] # 0 /\ due[u] <= now

\* findAccountsDueForAnonymization lists u; anonymizeAccount(u) comes after the
\* accounts listed before it and after its own storage and gateway calls.
reconcileAccountDeletions(p, u) ==
    DueForAnonymization(u) /\ Start(p, u, "erase", "write")

\* Variant: the update is not conditional on the status.
anonymizeUserAlways(p) ==
    /\ At(p, "erase", "write")
    /\ Set(p, "ANONYMIZED", until[req[p].user], 0, "idle")
    /\ UNCHANGED leaving

anonymizeUserTx(p) ==
    LET u == req[p].user IN
    /\ At(p, "erase", "write")
    /\ IF status[u] = "PENDING_DELETION"
       THEN Set(p, "ANONYMIZED", until[u], 0, "idle")
       ELSE /\ Go(p, "idle")
            /\ UNCHANGED <<now, account, denylist, calm>>
    /\ UNCHANGED leaving

\* A crash, a refused call of the gateway, a Redis error.
Fail(p) ==
    /\ req[p].pc # "idle"
    /\ Go(p, "idle")
    /\ calm' = FALSE
    /\ UNCHANGED <<now, account, denylist, leaving>>

-----------------------------------------------------------------------------
Arrive(p) ==
    \/ \E u \in Users :
        \/ \E op \in OwnerOps : authenticate(p, u, op)
        \/ \E op \in AdminOps : moderate(p, u, op)
        \/ login(p, u) \/ resetPassword(p, u)
        \/ reconcileSuspensions(p, u)
        \/ reconcileAccountDeletions(p, u)
    \/ boot(p)

Read(p) ==
    \/ findAccountState(p)
    \/ findUserForLogin(p)
    \/ findModerationState(p)
    \/ findPunished(p)

Write(p) ==
    \/ setAccountDeactivated(p)
    \/ setAccountPendingDeletion(p)
    \/ setAccountActive(p)
    \/ clearExpiredSuspension(p)
    \/ reactivateOnLogin(p)
    \/ setUserSuspended(p)
    \/ setUserBanned(p)
    \/ setUserUnsuspended(p)
    \/ anonymizeUserTx(p)

Mark(p) == block(p) \/ unblock(p) \/ rebuildFromDb(p)

Next ==
    \/ Tick
    \/ Flush
    \/ \E p \in Requests : Arrive(p) \/ Read(p) \/ Write(p) \/ Mark(p) \/ Fail(p)

Spec == Init /\ [][Next]_vars

(* Every request ends, if only by failing; the reconcilers come back every *)
(* interval, and what they do for an account does not fail forever.        *)
Fairness ==
    /\ WF_vars(Tick)
    /\ \A p \in Requests : WF_vars(Fail(p))
    /\ \A u \in Users :
        /\ SF_vars(\E p \in Requests : reconcileSuspensions(p, u))
        /\ SF_vars(\E p \in Requests : reconcileAccountDeletions(p, u))
        /\ SF_vars(\E p \in Requests : /\ At(p, "expire", "read")
                                       /\ req[p].user = u
                                       /\ findModerationState(p))
        /\ SF_vars(\E p \in Requests : req[p].user = u /\ setUserUnsuspended(p))
        /\ SF_vars(\E p \in Requests : req[p].user = u /\ anonymizeUserTx(p))

FairSpec == Spec /\ Fairness

-----------------------------------------------------------------------------
(* Every variable keeps its type, and deadlines stay within the grace and  *)
(* the suspension counted from now.                                        *)
TypeOK ==
    /\ now \in 0..MaxTime
    /\ status \in [Users -> AccountStatus]
    /\ until \in [Users -> 0..(MaxTime + Days)]
    /\ due \in [Users -> 0..(MaxTime + Grace)]
    /\ denylist \subseteq Users
    /\ req \in [Requests -> Request]
    /\ leaving \in [Users -> BOOLEAN]
    /\ calm \in BOOLEAN

(* anonymizeUserTx never erases an account whose owner came back: whatever *)
(* overlaps, the owner's last login, reactivation or deactivation since    *)
(* the deletion was scheduled wins over the reconciler.                    *)
OnlyLeaversErased ==
    [][\A u \in Users :
          status[u] # "ANONYMIZED" /\ status'[u] = "ANONYMIZED" => leaving[u]]_vars

(* The denylist mirrors the table whenever nothing is in flight, as long   *)
(* as requests came one at a time since the last rebuild: no path forgets  *)
(* its block or unblock, and a boot repairs whatever was lost before it.   *)
DenylistMirrorsTable ==
    calm /\ (\A p \in Requests : req[p].pc = "idle") => denylist = Punished

LiftedByAdmin(u) ==
    \E p \in Requests : At(p, "unsuspend", "write") /\ req[p].user = u

(* A ban is permanent, one request at a time: neither the expiry of an     *)
(* earlier suspension, nor a login, nor the owner's own session ends it.   *)
CalmBanIsPermanent ==
    [][\A u \in Users :
          calm /\ status[u] = "BANNED" /\ status'[u] # "BANNED" =>
              LiftedByAdmin(u)]_vars

(* "Banimento e permanente": the same, whatever overlaps.                  *)
BanIsPermanent ==
    [][\A u \in Users :
          status[u] = "BANNED" /\ status'[u] # "BANNED" => LiftedByAdmin(u)]_vars

(* "Conta ANONYMIZED e terminal": nothing gives it another status.          *)
AnonymizedIsTerminal ==
    [][\A u \in Users :
          status[u] = "ANONYMIZED" => status'[u] = "ANONYMIZED"]_vars

\* A null deadline counts as one that has passed.
Overdue(u) ==
    \/ status[u] = "PENDING_DELETION" /\ due[u] <= now
    \/ status[u] = "SUSPENDED" /\ until[u] <= now

(* Deadlines are met although nobody asks: a deletion that fell due erases *)
(* the account or was called off, and a suspension that ran out ends, even *)
(* if passes of the two reconcilers fail and requests cross them.          *)
DeadlinesMet == \A u \in Users : Overdue(u) ~> ~ Overdue(u)

=============================================================================
