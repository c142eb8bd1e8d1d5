------------------------------ MODULE Sessions ------------------------------
(***************************************************************************)
(* The sessions of one account (src/modules/auth): refresh tokens, their   *)
(* rotation and revocation.                                                *)
(*                                                                         *)
(* Every statement on the database is a step; handlers of the account      *)
(* interleave between their statements, and may be cut short.              *)
(***************************************************************************)
EXTENDS Integers

CONSTANTS
    Requests,       \* slots for handlers in flight
    Tokens,         \* refresh tokens that may be issued
    NoToken,        \* a null reference
    Reuse,          \* REFRESH_TOKEN_REUSE_GRACE_MS
    MaxEra,         \* bound: decisions to end every session
    MaxTime         \* bound: last instant of the clock

ASSUME NoTokenAssumption == NoToken \notin Tokens
ASSUME NumbersAssumption == {Reuse, MaxEra, MaxTime} \subseteq Nat

VARIABLES
    now,            \* the clock
    punished,       \* the account is ANONYMIZED, BANNED or SUSPENDED
    token,          \* table refresh_tokens
    req,            \* what each slot is doing
    era             \* history: decisions taken so far to end every session

vars == <<now, punished, token, req, era>>

Never == -1                 \* a null date

\* era and loose are history: when the credentials behind the token were
\* checked, and whether it comes from what a revocation could not reach.
Token == [state: {"none", "valid", "expired", "revoked"},
          rotated: {Never} \cup 0..MaxTime, next: Tokens \cup {NoToken},
          era: 0..MaxEra, loose: BOOLEAN]

Request == [pc: {"idle", "check", "issue", "link", "revoke"},
            kind: {"login", "rotated", "grace"},
            token: Tokens \cup {NoToken}, next: Tokens \cup {NoToken},
            era: 0..MaxEra, loose: BOOLEAN]

Idle == [pc |-> "idle", kind |-> "login", token |-> NoToken, next |-> NoToken,
         era |-> 0, loose |-> FALSE]

-----------------------------------------------------------------------------
Init ==
    /\ now = 0
    /\ punished = FALSE
    /\ token = [t \in Tokens |->
                  [state |-> "none", rotated |-> Never, next |-> NoToken,
                   era |-> 0, loose |-> FALSE]]
    /\ req = [p \in Requests |-> Idle]
    /\ era = 0

Tick ==
    /\ now < MaxTime
    /\ now' = now + 1
    /\ UNCHANGED <<punished, token, req, era>>

\* REFRESH_TOKEN_EXPIRES_IN runs out for t, long after the reuse window.
Expire(t) ==
    /\ token[t].state = "valid"
    /\ token' = [token EXCEPT ![t].state = "expired"]
    /\ UNCHANGED <<now, punished, req, era>>

\* Moderation, its expiry and the eraser (module Account).
Moderate ==
    /\ punished' = ~punished
    /\ UNCHANGED <<now, token, req, era>>

\* A decision to end every session of the account.
Decide == era < MaxEra /\ era' = era + 1

Done(p) == req' = [req EXCEPT ![p] = Idle]

Recent(t) == token[t].rotated # Never /\ now - token[t].rotated <= Reuse

-----------------------------------------------------------------------------
(* Login and rotation.                                                     *)

\* Password, status and second factor accepted. Social login and sign-up end
\* in the same issueSession.
validateLogin(p) ==
    /\ req[p].pc = "idle" /\ ~punished
    /\ req' = [req EXCEPT ![p] = [Idle EXCEPT !.pc = "issue", !.era = era]]
    /\ UNCHANGED <<now, punished, token, era>>

Present(p, t, kind) ==
    req' = [req EXCEPT ![p] = [Idle EXCEPT !.pc = "check", !.kind = kind,
              !.token = t, !.era = token[t].era, !.loose = token[t].loose]]

\* Variant: validates and then revokes whatever it finds.
claimAgain(p, t) ==
    /\ req[p].pc = "idle" /\ token[t].state \in {"valid", "revoked"}
    /\ token' = [token EXCEPT ![t].state = "revoked", ![t].rotated = now]
    /\ Present(p, t, "rotated")
    /\ UNCHANGED <<now, punished, era>>

\* The conditional updateMany: one winner for every token.
claimRefreshToken(p, t) ==
    /\ req[p].pc = "idle" /\ token[t].state = "valid"
    /\ token' = [token EXCEPT ![t].state = "revoked", ![t].rotated = now]
    /\ Present(p, t, "rotated")
    /\ UNCHANGED <<now, punished, era>>

\* rotateRefreshToken, claim lost: a token rotated just now is reissued, an
\* older one ends every session, any other is only refused.
rotateRefreshToken(p, t) ==
    /\ req[p].pc = "idle" /\ token[t].rotated # Never
    /\ IF Recent(t)
       THEN Present(p, t, "grace") /\ UNCHANGED era
       ELSE Decide /\ req' = [req EXCEPT ![p] = [Idle EXCEPT !.pc = "revoke"]]
    /\ UNCHANGED <<now, punished, token>>

assertSessionRenewable(p) ==
    /\ req[p].pc = "check"
    /\ IF punished
       THEN Decide /\ req' = [req EXCEPT ![p] = [Idle EXCEPT !.pc = "revoke"]]
       ELSE UNCHANGED era /\ req' = [req EXCEPT ![p].pc = "issue"]
    /\ UNCHANGED <<now, punished, token>>

issueSession(p) ==
    /\ req[p].pc = "issue"
    /\ \E t \in Tokens :
        /\ token[t].state = "none"
        /\ token' = [token EXCEPT ![t] = [@ EXCEPT !.state = "valid",
                       !.era = req[p].era, !.loose = req[p].loose]]
        /\ req' = [req EXCEPT ![p] = IF @.kind = "rotated"
                       THEN [@ EXCEPT !.pc = "link", !.next = t] ELSE Idle]
    /\ UNCHANGED <<now, punished, era>>

linkRefreshTokenSuccessor(p) ==
    /\ req[p].pc = "link"
    /\ token' = [token EXCEPT ![req[p].token].next = req[p].next]
    /\ Done(p)
    /\ UNCHANGED <<now, punished, era>>

-----------------------------------------------------------------------------
(* Revocation.                                                             *)

\* revokeRefreshTokenByHash: the logout of one device.
logout(t) ==
    /\ token[t].state \in {"valid", "expired"}
    /\ token' = [token EXCEPT ![t].state = "revoked"]
    /\ UNCHANGED <<now, punished, req, era>>

\* revokeAllRefreshTokensForUser. Out of its reach are the tokens rotated just
\* now, which are reissued until the window ends, and the sessions that
\* handlers past their check (not those in skip) are about to create.
RevokeAll(skip) ==
    /\ token' = [t \in Tokens |->
          [token[t] EXCEPT !.state = IF @ \in {"valid", "expired"} THEN "revoked" ELSE @,
                           !.loose = @ \/ Recent(t)]]
    /\ req' = [q \in Requests |->
          IF q \in skip THEN Idle
          ELSE [req[q] EXCEPT !.loose = @ \/ req[q].pc \in {"check", "issue"}]]

logoutAll ==
    /\ Decide
    /\ RevokeAll({})
    /\ UNCHANGED <<now, punished>>

revokeAllSessions(p) ==
    /\ req[p].pc = "revoke"
    /\ RevokeAll({p})
    /\ UNCHANGED <<now, punished, era>>

\* Variant: the sessions opened with the old password are left alone.
resetPasswordQuietly(p) ==
    /\ req[p].pc = "idle"
    /\ Decide
    /\ UNCHANGED <<now, punished, token, req>>

\* resetPassword and disableMfa: the change is committed, the sessions it
\* must end come next.
resetPassword(p) ==
    /\ req[p].pc = "idle"
    /\ Decide
    /\ req' = [req EXCEPT ![p] = [Idle EXCEPT !.pc = "revoke"]]
    /\ UNCHANGED <<now, punished, token>>

\* A crash or a failed statement. A revocation that does not happen after its
\* decision leaves every session behind.
Fail(p) ==
    /\ req[p].pc # "idle"
    /\ IF req[p].pc = "revoke"
       THEN /\ token' = [t \in Tokens |->
                  [token[t] EXCEPT !.loose = token[t].state # "none"]]
            /\ req' = [q \in Requests |-> IF q = p THEN Idle
                  ELSE [req[q] EXCEPT !.loose = @ \/ req[q].pc \in {"check", "issue"}]]
       ELSE Done(p) /\ UNCHANGED token
    /\ UNCHANGED <<now, punished, era>>

-----------------------------------------------------------------------------
Step(p) ==
    \/ validateLogin(p)
    \/ \E t \in Tokens : claimRefreshToken(p, t) \/ rotateRefreshToken(p, t)
    \/ assertSessionRenewable(p)
    \/ issueSession(p)
    \/ linkRefreshTokenSuccessor(p)
    \/ revokeAllSessions(p)
    \/ resetPassword(p)

Next ==
    \/ Tick
    \/ Moderate
    \/ \E t \in Tokens : Expire(t) \/ logout(t)
    \/ logoutAll
    \/ \E p \in Requests : Step(p) \/ Fail(p)

Spec == Init /\ [][Next]_vars

-----------------------------------------------------------------------------
(* Every variable keeps its type.                                          *)
TypeOK ==
    /\ now \in 0..MaxTime
    /\ punished \in BOOLEAN
    /\ token \in [Tokens -> Token]
    /\ req \in [Requests -> Request]
    /\ era \in 0..MaxEra

Rotating(p) == req[p].kind = "rotated" /\ req[p].pc \in {"check", "issue", "link"}

(* One refresh token has one successor, whoever presents it and however    *)
(* often: no two handlers rotate it, and none once its successor is known  *)
(* (the race that claimRefreshToken closes).                               *)
OneSuccessor ==
    \A p \in Requests : Rotating(p) =>
        /\ token[req[p].token].next = NoToken
        /\ \A q \in Requests \ {p} : Rotating(q) => req[q].token # req[p].token

(* After a logout-all, a password reset, the refresh of a punished account *)
(* or a late reuse, no session granted before goes on, but for what is     *)
(* known to escape: handlers past their check, tokens rotated within the   *)
(* window, a revocation still to come or cut short.                        *)
SessionsEnd ==
    \A t \in Tokens :
        token[t].state = "valid" /\ token[t].era < era =>
            token[t].loose \/ \E p \in Requests : req[p].pc = "revoke"

=============================================================================
