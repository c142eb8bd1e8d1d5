--------------------------- MODULE SessionsProofs ---------------------------
(***************************************************************************)
(* Proofs about Sessions, for any number of handlers and tokens, any       *)
(* window and any bounds.                                                  *)
(***************************************************************************)
EXTENDS Sessions, TLAPS

\* The disjuncts of Next, for proofs by cases.
LEMMA Cases ==
    Next <=> \/ Tick \/ Moderate \/ logoutAll
             \/ \E t \in Tokens : Expire(t) \/ logout(t)
             \/ \E p \in Requests : \/ Step(p)
                                    \/ Fail(p)
BY DEF Next

LEMMA IdleType == Idle \in Request
BY NumbersAssumption DEF Idle, Request

-----------------------------------------------------------------------------
(* Types.                                                                  *)

LEMMA Numbers == /\ Reuse \in Nat /\ MaxEra \in Nat /\ MaxTime \in Nat
                 /\ Never \in Int
BY NumbersAssumption DEF Never

LEMMA TypeInit == Init => TypeOK
<1> SUFFICES ASSUME Init PROVE TypeOK
  OBVIOUS
<1>1. token \in [Tokens -> Token]
  <2>1. [state |-> "none", rotated |-> Never, next |-> NoToken,
         era |-> 0, loose |-> FALSE] \in Token
    BY Numbers DEF Token
  <2> QED BY <2>1 DEF Init
<1>2. req \in [Requests -> Request]
  BY IdleType DEF Init
<1>3. punished \in BOOLEAN
  BY DEF Init
<1>4. now \in 0..MaxTime /\ era \in 0..MaxEra
  BY Numbers DEF Init
<1> QED BY <1>1, <1>2, <1>3, <1>4 DEF TypeOK

LEMMA DecideType == ASSUME era \in 0..MaxEra, Decide PROVE era' \in 0..MaxEra
BY Numbers DEF Decide

LEMMA RevokeAllType ==
    ASSUME TypeOK, NEW skip, RevokeAll(skip)
    PROVE  token' \in [Tokens -> Token] /\ req' \in [Requests -> Request]
<1>1. ASSUME NEW t \in Tokens
      PROVE  [token[t] EXCEPT
                 !.state = IF @ \in {"valid", "expired"} THEN "revoked" ELSE @,
                 !.loose = @ \/ Recent(t)] \in Token
  BY DEF TypeOK, Token, Recent
<1>2. ASSUME NEW q \in Requests
      PROVE  [req[q] EXCEPT !.loose = @ \/ req[q].pc \in {"check", "issue"}] \in Request
  BY DEF TypeOK, Request
<1> QED BY <1>1, <1>2, IdleType DEF RevokeAll

LEMMA TypeStep == TypeOK /\ [Next]_vars => TypeOK'
<1> SUFFICES ASSUME TypeOK, [Next]_vars PROVE TypeOK'
  OBVIOUS
<1> USE Numbers, IdleType
<1>1. CASE Tick
  BY <1>1 DEF Tick, TypeOK
<1>2. CASE Moderate
  BY <1>2 DEF Moderate, TypeOK
<1>3. CASE logoutAll
  BY <1>3, DecideType, RevokeAllType DEF logoutAll, TypeOK
<1>4. ASSUME NEW t \in Tokens, Expire(t) \/ logout(t) PROVE TypeOK'
  BY <1>4 DEF Expire, logout, TypeOK, Token
<1>5. ASSUME NEW p \in Requests, Step(p) PROVE TypeOK'
  <2>1. CASE validateLogin(p)
    BY <2>1 DEF validateLogin, TypeOK, Request
  <2>2. ASSUME NEW t \in Tokens, NEW kind \in {"rotated", "grace"}, Present(p, t, kind)
        PROVE  req' \in [Requests -> Request]
    <3>1. /\ token[t].era \in 0..MaxEra /\ token[t].loose \in BOOLEAN
          /\ t \in Tokens \cup {NoToken}
      BY DEF TypeOK, Token
    <3>2. [Idle EXCEPT !.pc = "check", !.kind = kind, !.token = t,
               !.era = token[t].era, !.loose = token[t].loose] \in Request
      BY <2>2, <3>1 DEF Request
    <3> QED BY <2>2, <3>2 DEF Present, TypeOK
  <2>3. ASSUME NEW t \in Tokens, claimRefreshToken(p, t) PROVE TypeOK'
    <3>1. [token[t] EXCEPT !.state = "revoked", !.rotated = now] \in Token
      BY DEF TypeOK, Token
    <3>2. token' = [token EXCEPT ![t] =
                      [token[t] EXCEPT !.state = "revoked", !.rotated = now]]
      BY <2>3 DEF claimRefreshToken, TypeOK
    <3>3. token' \in [Tokens -> Token]
      BY <3>1, <3>2 DEF TypeOK
    <3> QED BY <2>2, <2>3, <3>3 DEF claimRefreshToken, TypeOK
  <2>4. [Idle EXCEPT !.pc = "revoke"] \in Request
    BY DEF Request
  <2>5. ASSUME NEW t \in Tokens, rotateRefreshToken(p, t) PROVE TypeOK'
    <3>1. CASE Recent(t)
      BY <2>2, <2>5, <3>1 DEF rotateRefreshToken, TypeOK
    <3>2. CASE ~Recent(t)
      BY <2>4, <2>5, <3>2, DecideType DEF rotateRefreshToken, TypeOK
    <3> QED BY <3>1, <3>2
  <2>6. CASE assertSessionRenewable(p)
    BY <2>6, DecideType DEF assertSessionRenewable, TypeOK, Request
  <2>7. CASE issueSession(p)
    <3>1. PICK t \in Tokens :
             /\ token' = [token EXCEPT ![t] = [token[t] EXCEPT !.state = "valid",
                            !.era = req[p].era, !.loose = req[p].loose]]
             /\ req' = [req EXCEPT ![p] =
                   IF req[p].kind = "rotated"
                   THEN [req[p] EXCEPT !.pc = "link", !.next = t] ELSE Idle]
      BY <2>7 DEF issueSession, TypeOK
    <3>2. [token[t] EXCEPT !.state = "valid", !.era = req[p].era,
               !.loose = req[p].loose] \in Token
      <4>1. req[p].era \in 0..MaxEra /\ req[p].loose \in BOOLEAN
        BY DEF TypeOK, Request
      <4>2. token[t] \in Token
        BY DEF TypeOK
      <4> QED BY <4>1, <4>2 DEF Token
    <3>3. [req[p] EXCEPT !.pc = "link", !.next = t] \in Request
      BY DEF TypeOK, Request
    <3> QED BY <2>7, <3>1, <3>2, <3>3 DEF issueSession, TypeOK
  <2>8. CASE linkRefreshTokenSuccessor(p)
    <3>1. ASSUME NEW t \in Tokens PROVE [token[t] EXCEPT !.next = req[p].next] \in Token
      BY DEF TypeOK, Token, Request
    <3>2. token' \in [Tokens -> Token]
      BY <2>8, <3>1 DEF linkRefreshTokenSuccessor, TypeOK
    <3> QED BY <2>8, <3>2 DEF linkRefreshTokenSuccessor, Done, TypeOK
  <2>9. CASE revokeAllSessions(p)
    BY <2>9, RevokeAllType DEF revokeAllSessions, TypeOK
  <2>10. CASE resetPassword(p)
    BY <2>4, <2>10, DecideType DEF resetPassword, TypeOK
  <2> QED
    BY <1>5, <2>1, <2>3, <2>5, <2>6, <2>7, <2>8, <2>9, <2>10 DEF Step
<1>6. ASSUME NEW p \in Requests, Fail(p) PROVE TypeOK'
  <2>1. CASE req[p].pc = "revoke"
    <3>1. ASSUME NEW t \in Tokens
          PROVE  [token[t] EXCEPT !.loose = token[t].state # "none"] \in Token
      BY DEF TypeOK, Token
    <3>2. ASSUME NEW q \in Requests
          PROVE  [req[q] EXCEPT !.loose = @ \/ req[q].pc \in {"check", "issue"}]
                     \in Request
      BY DEF TypeOK, Request
    <3> QED BY <1>6, <2>1, <3>1, <3>2 DEF Fail, TypeOK
  <2>2. CASE req[p].pc # "revoke"
    BY <1>6, <2>2 DEF Fail, Done, TypeOK
  <2> QED BY <2>1, <2>2
<1>7. CASE UNCHANGED vars
  BY <1>7 DEF vars, TypeOK
<1> QED
  BY <1>1, <1>2, <1>3, <1>4, <1>5, <1>6, <1>7, Cases

(* Every variable keeps its type, whatever the numbers of the instance.    *)
THEOREM TypeCorrect == Spec => []TypeOK
BY TypeInit, TypeStep, PTL DEF Spec

-----------------------------------------------------------------------------
(* Rotation.                                                               *)

\* Only a rotation is linked, and only an issued token is rotated.
Shape ==
    /\ \A p \in Requests : req[p].pc = "link" => req[p].kind = "rotated"
    /\ \A t \in Tokens : token[t].state = "none" => token[t].rotated = Never

LEMMA ShapeInit == Init => Shape
BY DEF Init, Shape, Idle

LEMMA ShapeStep == TypeOK /\ Shape /\ [Next]_vars => Shape'
<1> SUFFICES ASSUME TypeOK, Shape, [Next]_vars PROVE Shape'
  OBVIOUS
<1>1. CASE Tick \/ Moderate \/ UNCHANGED vars
  BY <1>1 DEF Tick, Moderate, vars, Shape
<1>2. CASE logoutAll
  BY <1>2 DEF logoutAll, RevokeAll, Shape, TypeOK, Token, Request
<1>3. ASSUME NEW t \in Tokens, Expire(t) \/ logout(t) PROVE Shape'
  BY <1>3 DEF Expire, logout, Shape, TypeOK, Token
<1>4. ASSUME NEW p \in Requests, Step(p) PROVE Shape'
  <2>1. CASE validateLogin(p) \/ assertSessionRenewable(p) \/ resetPassword(p)
    BY <2>1
    DEF validateLogin, assertSessionRenewable, resetPassword, Shape, TypeOK,
        Request, Idle
  <2>2. ASSUME NEW t \in Tokens, claimRefreshToken(p, t) \/ rotateRefreshToken(p, t)
        PROVE  Shape'
    <3>1. req'[p].pc # "link" /\ \A q \in Requests \ {p} : req'[q] = req[q]
      BY <2>2
      DEF claimRefreshToken, rotateRefreshToken, Present, TypeOK, Request, Idle
    <3>2. \A u \in Tokens : token'[u] = token[u] \/ token'[u].state = "revoked"
      BY <2>2 DEF claimRefreshToken, rotateRefreshToken, TypeOK, Token
    <3> QED BY <3>1, <3>2 DEF Shape
  <2>3. CASE issueSession(p)
    BY <2>3 DEF issueSession, Shape, TypeOK, Token, Request, Idle
  <2>4. CASE linkRefreshTokenSuccessor(p)
    BY <2>4 DEF linkRefreshTokenSuccessor, Done, Shape, TypeOK, Token, Idle
  <2>5. CASE revokeAllSessions(p)
    BY <2>5 DEF revokeAllSessions, RevokeAll, Shape, TypeOK, Token, Request, Idle
  <2> QED BY <1>4, <2>1, <2>2, <2>3, <2>4, <2>5 DEF Step
<1>5. ASSUME NEW p \in Requests, Fail(p) PROVE Shape'
  BY <1>5 DEF Fail, Done, Shape, TypeOK, Token, Request, Idle
<1> QED BY <1>1, <1>2, <1>3, <1>4, <1>5, Cases

\* A token being rotated is dead, so that nobody can claim it again, and it has
\* no successor; neither has a token that can still be claimed.
Chain ==
    /\ \A p \in Requests : Rotating(p) =>
          /\ req[p].token \in Tokens
          /\ token[req[p].token].state = "revoked"
    /\ \A t \in Tokens :
          token[t].state \in {"none", "valid"} => token[t].next = NoToken

LEMMA ChainInit == Init => Chain /\ OneSuccessor
BY DEF Init, Chain, OneSuccessor, Rotating, Idle

\* Steps that rotate nothing: no new rotation, no revival, no new successor.
LEMMA ChainQuiet ==
    ASSUME TypeOK, Chain, OneSuccessor,
           \A p \in Requests : Rotating(p)' =>
               Rotating(p) /\ req'[p].token = req[p].token,
           \A t \in Tokens : /\ token'[t].next = token[t].next
                             /\ token'[t].state \in {"none", "valid"} =>
                                    token[t].state \in {"none", "valid"}
                             /\ token[t].state = "revoked" =>
                                    token'[t].state = "revoked"
    PROVE  Chain' /\ OneSuccessor'
BY DEF Chain, OneSuccessor

LEMMA ChainStep ==
    TypeOK /\ Shape /\ Chain /\ OneSuccessor /\ [Next]_vars => Chain' /\ OneSuccessor'
<1> SUFFICES ASSUME TypeOK, Shape, Chain, OneSuccessor, [Next]_vars
             PROVE  Chain' /\ OneSuccessor'
  OBVIOUS
<1>1. CASE Tick \/ Moderate \/ UNCHANGED vars
  BY <1>1, ChainQuiet DEF Tick, Moderate, vars, Rotating
<1>2. ASSUME NEW skip, RevokeAll(skip) PROVE Chain' /\ OneSuccessor'
  <2>1. \A p \in Requests : Rotating(p)' =>
            Rotating(p) /\ req'[p].token = req[p].token
    BY <1>2 DEF RevokeAll, Rotating, TypeOK, Request, Idle
  <2>2. \A t \in Tokens : /\ token'[t].next = token[t].next
                          /\ token'[t].state \in {"none", "valid"} =>
                                 token[t].state \in {"none", "valid"}
                          /\ token[t].state = "revoked" =>
                                 token'[t].state = "revoked"
    BY <1>2 DEF RevokeAll, TypeOK, Token
  <2> QED BY <2>1, <2>2, ChainQuiet
<1>3. ASSUME NEW t \in Tokens, Expire(t) \/ logout(t) PROVE Chain' /\ OneSuccessor'
  <2>1. \A p \in Requests : Rotating(p)' =>
            Rotating(p) /\ req'[p].token = req[p].token
    BY <1>3 DEF Expire, logout, Rotating
  <2>2. \A u \in Tokens : /\ token'[u].next = token[u].next
                          /\ token'[u].state \in {"none", "valid"} =>
                                 token[u].state \in {"none", "valid"}
                          /\ token[u].state = "revoked" =>
                                 token'[u].state = "revoked"
    BY <1>3 DEF Expire, logout, TypeOK, Token
  <2> QED BY <2>1, <2>2, ChainQuiet
<1>4. ASSUME NEW p \in Requests, Step(p) PROVE Chain' /\ OneSuccessor'
  <2>1. CASE validateLogin(p) \/ assertSessionRenewable(p) \/ resetPassword(p)
    <3>1. UNCHANGED token
      BY <2>1 DEF validateLogin, assertSessionRenewable, resetPassword
    <3>2. \A q \in Requests \ {p} : req'[q] = req[q]
      BY <2>1 DEF validateLogin, assertSessionRenewable, resetPassword, TypeOK
    <3>3. Rotating(p)' => Rotating(p) /\ req'[p].token = req[p].token
      <4>1. CASE validateLogin(p) \/ resetPassword(p)
        BY <4>1 DEF validateLogin, resetPassword, Rotating, TypeOK, Idle
      <4>2. CASE assertSessionRenewable(p)
        BY <4>2 DEF assertSessionRenewable, Rotating, TypeOK, Request, Idle
      <4> QED BY <2>1, <4>1, <4>2
    <3> QED BY <3>1, <3>2, <3>3, ChainQuiet DEF Rotating
  <2>2. ASSUME NEW t \in Tokens, claimRefreshToken(p, t)
        PROVE  Chain' /\ OneSuccessor'
    <3>1. /\ req'[p].token = t
          /\ \A q \in Requests \ {p} : req'[q] = req[q]
      BY <2>2 DEF claimRefreshToken, Present, TypeOK
    <3>2. /\ token[t].state = "valid" /\ token[t].next = NoToken
          /\ token'[t].state = "revoked" /\ token'[t].next = NoToken
          /\ \A u \in Tokens \ {t} : token'[u] = token[u]
      BY <2>2 DEF claimRefreshToken, TypeOK, Token, Chain
    <3>3. \A q \in Requests \ {p} : Rotating(q) => req[q].token # t
      BY <3>2 DEF Chain
    <3> QED BY <3>1, <3>2, <3>3 DEF Chain, OneSuccessor, Rotating
  <2>3. ASSUME NEW t \in Tokens, rotateRefreshToken(p, t)
        PROVE  Chain' /\ OneSuccessor'
    <3>1. UNCHANGED token
      BY <2>3 DEF rotateRefreshToken
    <3>2. \A q \in Requests : Rotating(q)' =>
              Rotating(q) /\ req'[q].token = req[q].token
      BY <2>3 DEF rotateRefreshToken, Present, Rotating, TypeOK, Request, Idle
    <3> QED BY <3>1, <3>2, ChainQuiet
  <2>4. CASE issueSession(p)
    <3>1. \A q \in Requests : Rotating(q)' =>
              Rotating(q) /\ req'[q].token = req[q].token
      BY <2>4 DEF issueSession, Rotating, TypeOK, Request, Idle
    <3>2. \A t \in Tokens : /\ token'[t].next = token[t].next
                            /\ token'[t].state \in {"none", "valid"} =>
                                   token[t].state \in {"none", "valid"}
                            /\ token[t].state = "revoked" =>
                                   token'[t].state = "revoked"
      BY <2>4 DEF issueSession, TypeOK, Token
    <3> QED BY <3>1, <3>2, ChainQuiet
  <2>5. CASE linkRefreshTokenSuccessor(p)
    <3> DEFINE t == req[p].token
    <3>1. Rotating(p)' = FALSE /\ \A q \in Requests \ {p} : req'[q] = req[q]
      BY <2>5 DEF linkRefreshTokenSuccessor, Done, TypeOK, Rotating, Idle
    <3>2. CASE t \in Tokens /\ Rotating(p)
      <4>1. /\ \A u \in Tokens \ {t} : token'[u] = token[u]
            /\ token'[t].state = token[t].state
        BY <2>5, <3>2 DEF linkRefreshTokenSuccessor, TypeOK, Token
      <4>2. \A q \in Requests \ {p} : Rotating(q) => req[q].token # t
        BY <3>2 DEF OneSuccessor
      <4>3. token[t].state = "revoked"
        BY <3>2 DEF Chain
      <4> QED BY <3>1, <4>1, <4>2, <4>3 DEF Chain, OneSuccessor, Rotating
    <3>3. Rotating(p)
      BY <2>5 DEF linkRefreshTokenSuccessor, Shape, Rotating
    <3> QED BY <3>2, <3>3 DEF Chain
  <2>6. CASE revokeAllSessions(p)
    BY <1>2, <2>6 DEF revokeAllSessions
  <2> QED
    BY <1>4, <2>1, <2>2, <2>3, <2>4, <2>5, <2>6 DEF Step
<1>5. ASSUME NEW p \in Requests, Fail(p) PROVE Chain' /\ OneSuccessor'
  <2>1. \A q \in Requests : Rotating(q)' =>
            Rotating(q) /\ req'[q].token = req[q].token
    BY <1>5 DEF Fail, Done, Rotating, TypeOK, Request, Idle
  <2>2. \A t \in Tokens : token'[t].next = token[t].next /\ token'[t].state = token[t].state
    BY <1>5 DEF Fail, TypeOK, Token
  <2> QED BY <2>1, <2>2, ChainQuiet
<1>6. CASE logoutAll
  BY <1>2, <1>6 DEF logoutAll
<1> QED BY <1>1, <1>3, <1>4, <1>5, <1>6, Cases

(* Of any number of handlers that present a refresh token at once, one     *)
(* rotates it; and once it has a successor nobody gives it another.        *)
THEOREM RotatesOnce == Spec => []OneSuccessor
BY TypeInit, TypeStep, ShapeInit, ShapeStep, ChainInit, ChainStep, PTL DEF Spec

-----------------------------------------------------------------------------
(* Revocation.                                                             *)

Pending == \E p \in Requests : req[p].pc = "revoke"

\* What lets an old session go on: a token that can be claimed or reissued, a
\* handler that will issue one. Each has escaped or waits for its revocation.
Accounted ==
    Pending \/
    /\ \A t \in Tokens :
          /\ token[t].state = "valid" \/ Recent(t)
          /\ token[t].era < era
          => token[t].loose
    /\ \A p \in Requests :
          req[p].pc \in {"check", "issue"} /\ req[p].era < era => req[p].loose

LEMMA AccountedInit == Init => Accounted
BY NumbersAssumption DEF Init, Accounted, Pending, Recent, Never, Idle

\* After a revocation nothing old is left that has not escaped.
LEMMA AccountedRevoke ==
    ASSUME TypeOK, NEW skip, RevokeAll(skip), UNCHANGED now
    PROVE  Accounted'
<1>1. \A t \in Tokens : /\ token'[t].state # "valid"
                        /\ Recent(t)' => token'[t].loose
  BY DEF RevokeAll, TypeOK, Token, Recent
<1>2. \A p \in Requests : req'[p].pc \in {"check", "issue"} => req'[p].loose
  BY DEF RevokeAll, TypeOK, Request, Idle
<1> QED BY <1>1, <1>2 DEF Accounted

LEMMA AccountedStep == TypeOK /\ Shape /\ Accounted /\ [Next]_vars => Accounted'
<1> SUFFICES ASSUME TypeOK, Shape, Accounted, [Next]_vars PROVE Accounted'
  OBVIOUS
<1> USE NumbersAssumption
<1>1. CASE Tick
  <2>1. \A t \in Tokens : Recent(t)' => Recent(t)
    BY <1>1 DEF Tick, Recent, TypeOK, Token, Never
  <2> QED BY <1>1, <2>1 DEF Tick, Accounted, Pending
<1>2. CASE Moderate \/ UNCHANGED vars
  BY <1>2 DEF Moderate, vars, Accounted, Pending, Recent
<1>3. ASSUME NEW t \in Tokens, Expire(t) \/ logout(t) PROVE Accounted'
  <2>1. \A u \in Tokens : /\ Recent(u)' <=> Recent(u)
                          /\ token'[u].state = "valid" => token[u].state = "valid"
                          /\ token'[u].era = token[u].era
                          /\ token'[u].loose = token[u].loose
    BY <1>3 DEF Expire, logout, TypeOK, Token, Recent
  <2> QED BY <1>3, <2>1 DEF Expire, logout, Accounted, Pending
<1>4. CASE logoutAll
  BY <1>4, AccountedRevoke DEF logoutAll
<1>5. ASSUME NEW p \in Requests, Step(p) PROVE Accounted'
  <2>1. ASSUME req'[p].pc = "revoke" PROVE Accounted'
    BY <2>1 DEF Accounted, Pending
  <2>2. CASE validateLogin(p)
    <3>1. /\ req[p].pc # "revoke" /\ req'[p].era = era' /\ era' = era
          /\ \A q \in Requests \ {p} : req'[q] = req[q]
      BY <2>2 DEF validateLogin, TypeOK, Request, Idle
    <3> QED
      BY <2>2, <3>1 DEF validateLogin, Accounted, Pending, Recent, TypeOK
  <2>3. ASSUME NEW t \in Tokens, NEW kind, Present(p, t, kind),
               req[p].pc = "idle", UNCHANGED <<now, era>>,
               token[t].state = "valid" \/ Recent(t),
               \A u \in Tokens : /\ token'[u].era = token[u].era
                                 /\ token'[u].loose = token[u].loose,
               \A u \in Tokens : token'[u].state = "valid" \/ Recent(u)' =>
                                 token[u].state = "valid" \/ Recent(u)
        PROVE  Accounted'
    <3>1. /\ req'[p].era = token[t].era /\ req'[p].loose = token[t].loose
          /\ \A q \in Requests \ {p} : req'[q] = req[q]
      BY <2>3 DEF Present, TypeOK, Request, Idle
    <3>2. Pending => Pending'
      BY <2>3, <3>1 DEF Pending
    <3> QED BY <2>3, <3>1, <3>2 DEF Accounted
  <2>4. ASSUME NEW t \in Tokens, claimRefreshToken(p, t) PROVE Accounted'
    BY <2>3, <2>4 DEF claimRefreshToken, Recent, TypeOK, Token
  <2>5. ASSUME NEW t \in Tokens, rotateRefreshToken(p, t) PROVE Accounted'
    <3>1. CASE Recent(t)
      BY <2>3, <2>5, <3>1 DEF rotateRefreshToken, Recent
    <3>2. CASE ~Recent(t)
      <4>1. req'[p].pc = "revoke"
        BY <2>5, <3>2 DEF rotateRefreshToken, TypeOK, Request, Idle
      <4> QED BY <4>1, <2>1
    <3> QED BY <3>1, <3>2
  <2>6. CASE assertSessionRenewable(p)
    <3>1. CASE punished
      <4>1. req'[p].pc = "revoke"
        BY <2>6, <3>1 DEF assertSessionRenewable, TypeOK, Request, Idle
      <4> QED BY <4>1, <2>1
    <3>2. CASE ~punished
      <4>1. /\ req[p].pc = "check" /\ req'[p].era = req[p].era
            /\ req'[p].loose = req[p].loose
            /\ \A q \in Requests \ {p} : req'[q] = req[q]
        BY <2>6, <3>2 DEF assertSessionRenewable, TypeOK, Request
      <4> QED
        BY <2>6, <3>2, <4>1 DEF assertSessionRenewable, Accounted, Pending, Recent
    <3> QED BY <3>1, <3>2 DEF TypeOK
  <2>7. CASE issueSession(p)
    <3>1. PICK t \in Tokens :
             /\ token' = [token EXCEPT ![t] = [@ EXCEPT !.state = "valid",
                            !.era = req[p].era, !.loose = req[p].loose]]
      BY <2>7 DEF issueSession
    <3>2. /\ req[p].pc = "issue" /\ req'[p].pc \in {"idle", "link"}
          /\ \A q \in Requests \ {p} : req'[q] = req[q]
      BY <2>7 DEF issueSession, TypeOK, Request, Idle
    <3>3. /\ token'[t].era = req[p].era /\ token'[t].loose = req[p].loose
          /\ \A u \in Tokens \ {t} : token'[u] = token[u]
      BY <3>1 DEF TypeOK, Token
    <3> QED
      BY <2>7, <3>2, <3>3 DEF issueSession, Accounted, Pending, Recent
  <2>8. CASE linkRefreshTokenSuccessor(p)
    <3>1. \A u \in Tokens : /\ Recent(u)' <=> Recent(u)
                            /\ token'[u].state = token[u].state
                            /\ token'[u].era = token[u].era
                            /\ token'[u].loose = token[u].loose
      BY <2>8 DEF linkRefreshTokenSuccessor, TypeOK, Token, Recent
    <3>2. /\ req[p].pc = "link" /\ req'[p].pc = "idle"
          /\ \A q \in Requests \ {p} : req'[q] = req[q]
      BY <2>8 DEF linkRefreshTokenSuccessor, Done, TypeOK, Idle
    <3> QED
      BY <2>8, <3>1, <3>2 DEF linkRefreshTokenSuccessor, Accounted, Pending
  <2>9. CASE revokeAllSessions(p)
    BY <2>9, AccountedRevoke DEF revokeAllSessions
  <2>10. CASE resetPassword(p)
    <3>1. req'[p].pc = "revoke"
      BY <2>10 DEF resetPassword, TypeOK, Request, Idle
    <3> QED BY <3>1, <2>1
  <2> QED
    BY <1>5, <2>2, <2>4, <2>5, <2>6, <2>7, <2>8, <2>9, <2>10 DEF Step
<1>6. ASSUME NEW p \in Requests, Fail(p) PROVE Accounted'
  <2>1. CASE req[p].pc = "revoke"
    <3>1. \A t \in Tokens : token'[t].state # "none" => token'[t].loose
      <4> SUFFICES ASSUME NEW t \in Tokens, token'[t].state # "none"
                   PROVE  token'[t].loose
        OBVIOUS
      <4>1. token'[t] = [token[t] EXCEPT !.loose = token[t].state # "none"]
        BY <1>6, <2>1 DEF Fail
      <4>2. token[t] \in Token
        BY DEF TypeOK
      <4>3. token[t].state # "none"
        BY <4>1, <4>2 DEF Token
      <4> QED BY <4>1, <4>2, <4>3 DEF Token
    <3>2. \A q \in Requests :
              req'[q].pc \in {"check", "issue"} => req'[q].loose
      <4>1. req'[p].pc = "idle"
        BY <1>6, <2>1 DEF Fail, TypeOK, Idle
      <4>2. ASSUME NEW q \in Requests \ {p}
            PROVE  /\ req'[q].pc = req[q].pc
                   /\ req'[q].loose =
                        (req[q].loose \/ req[q].pc \in {"check", "issue"})
        BY <1>6, <2>1 DEF Fail, TypeOK, Request
      <4> QED BY <4>1, <4>2
    <3>3. \A t \in Tokens : Recent(t)' => token'[t].state # "none"
      BY <1>6, <2>1 DEF Fail, TypeOK, Token, Recent, Shape
    <3> QED BY <3>1, <3>2, <3>3 DEF Accounted
  <2>2. CASE req[p].pc # "revoke"
    <3>1. /\ req'[p].pc = "idle"
          /\ \A q \in Requests \ {p} : req'[q] = req[q]
      BY <1>6, <2>2 DEF Fail, Done, TypeOK, Idle
    <3> QED BY <1>6, <2>2, <3>1 DEF Fail, Accounted, Pending, Recent
  <2> QED BY <2>1, <2>2
<1> QED BY <1>1, <1>2, <1>3, <1>4, <1>5, <1>6, Cases

(* However handlers, revocations and failures overlap, a session that      *)
(* outlives a revocation has escaped it in one of the ways known.          *)
THEOREM NothingElseEscapes == Spec => []SessionsEnd
<1>1. Accounted => SessionsEnd
  BY DEF Accounted, Pending, SessionsEnd
<1> QED BY <1>1, TypeInit, TypeStep, ShapeInit, ShapeStep,
     AccountedInit, AccountedStep, PTL DEF Spec

=============================================================================
