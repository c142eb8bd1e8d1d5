----------------------------- MODULE ChatProofs -----------------------------
(***************************************************************************)
(* Proofs about Chat, for any number of users, handlers, messages and      *)
(* files and any quota.                                                    *)
(***************************************************************************)
EXTENDS Chat, FiniteSetTheorems, TLAPS

LEMMA SomeUser == (CHOOSE u \in Users : TRUE) \in Users
BY UsersAssumption

LEMMA Numbers == Quota \in Nat /\ MaxCalls \in Nat
BY PoolsAssumption

LEMMA IdleType == Idle \in Request
BY SomeUser DEF Idle, Request, Kind

LEMMA NoMessageType == NoMessage \in Message
BY SomeUser DEF NoMessage, Message, Kind

-----------------------------------------------------------------------------
(* Types.                                                                  *)

LEMMA TypeInit == Init => TypeOK
<1> SUFFICES ASSUME Init PROVE TypeOK
  OBVIOUS
<1>1. \A r \in Requests : req[r].pc = "idle"
  BY DEF Init, Idle
<1> QED BY <1>1, IdleType, NoMessageType, StandingsAssumption, Numbers
        DEF Init, TypeOK

\* The part of TypeOK that speaks of the handlers.
ReqOK ==
    /\ req \in [Requests -> Request]
    /\ \A r \in Requests :
        req[r].pc \in {"publish", "edit", "remove", "media"} => req[r].msg \in Msgs

LEMMA ReqStep ==
    ASSUME ReqOK, NEW r \in Requests, NEW x \in Request,
           x.pc \in {"publish", "edit", "remove", "media"} => x.msg \in Msgs,
           req' = [req EXCEPT ![r] = x]
    PROVE  ReqOK'
BY DEF ReqOK

LEMMA DoneStep ==
    ASSUME ReqOK, NEW r \in Requests, Done(r)
    PROVE  ReqOK'
<1>1. ~(Idle.pc \in {"publish", "edit", "remove", "media"})
  BY DEF Idle
<1> QED BY <1>1, ReqStep, IdleType DEF Done

LEMMA GotoStep ==
    ASSUME ReqOK, NEW r \in Requests, NEW pc, Goto(r, pc),
           pc \in {"quota", "upload", "asset", "poster", "insert", "conflict", "drop"}
                  \cup (IF req[r].msg \in Msgs THEN {"media"} ELSE {})
    PROVE  ReqOK'
<1> DEFINE x == [req[r] EXCEPT !.pc = pc]
<1>1. x \in Request /\ x.pc = pc /\ x.msg = req[r].msg
  BY DEF ReqOK, Request
<1>2. req' = [req EXCEPT ![r] = x]
  BY DEF Goto
<1> HIDE DEF x
<1> QED BY <1>1, <1>2, ReqStep

LEMMA TypeStep == TypeOK /\ [Next]_vars => TypeOK'
<1> SUFFICES ASSUME TypeOK, [Next]_vars PROVE TypeOK'
  OBVIOUS
<1>0. ReqOK
  BY DEF TypeOK, ReqOK
<1>1. ASSUME NEW to \in Standings, ChangeRole(to) PROVE TypeOK'
  BY <1>1, StandingsAssumption DEF ChangeRole, history, TypeOK
<1>2. ASSUME NEW u \in Users, NEW f \in Files, createVideoUploadSignature(u, f)
      PROVE  TypeOK'
  BY <1>2 DEF createVideoUploadSignature, history, TypeOK
<1>3. ASSUME NEW r \in Requests, Arrive(r) PROVE TypeOK'
  <2>1. ASSUME NEW u \in Users, NEW kind \in Kind, NEW k \in Keys \cup {NoKey},
               NEW f \in Files \cup {NoFile}, authorizeSend(r, u, kind, k, f)
        PROVE  TypeOK'
    <3> DEFINE x == [Idle EXCEPT !.pc = "lookup", !.user = u, !.kind = kind,
                       !.key = k, !.file = f]
    <3>1. x \in Request /\ x.pc = "lookup"
      BY IdleType DEF Request, Idle
    <3>2. req' = [req EXCEPT ![r] = x]
      BY <2>1 DEF authorizeSend
    <3> HIDE DEF x
    <3>3. ReqOK'
      BY <1>0, <3>1, <3>2, ReqStep
    <3>4. calls' \in 0..MaxCalls
      BY <2>1, Numbers DEF authorizeSend, TypeOK
    <3> QED BY <2>1, <3>3, <3>4 DEF authorizeSend, history, TypeOK, ReqOK
  <2>2. ASSUME NEW u \in Users, NEW m \in Msgs,
               editMessage(r, u, m) \/ deleteMessage(r, u, m)
        PROVE  TypeOK'
    <3>1. PICK pc \in {"edit", "remove"} :
            req' = [req EXCEPT ![r] = [Idle EXCEPT !.pc = pc, !.user = u, !.msg = m]]
      BY <2>2 DEF editMessage, deleteMessage
    <3> DEFINE x == [Idle EXCEPT !.pc = pc, !.user = u, !.msg = m]
    <3>2. x \in Request /\ x.msg = m
      BY IdleType DEF Request, Idle
    <3> HIDE DEF x
    <3>3. ReqOK'
      BY <1>0, <3>1, <3>2, ReqStep DEF x
    <3>4. calls' \in 0..MaxCalls
      BY <2>2, Numbers DEF editMessage, deleteMessage, TypeOK
    <3> QED BY <2>2, <3>3, <3>4 DEF editMessage, deleteMessage, history, TypeOK, ReqOK
  <2> QED BY <1>3, <2>1, <2>2 DEF Arrive
<1>4. ASSUME NEW r \in Requests, Step(r) PROVE TypeOK'
  <2>1. CASE findIdempotentMessage(r)
    <3>1. ReqOK'
      BY <2>1, <1>0, DoneStep, GotoStep DEF findIdempotentMessage
    <3> QED BY <2>1, <3>1 DEF findIdempotentMessage, history, TypeOK, ReqOK
  <2>2. CASE assertQuotaAvailable(r)
    <3>1. ReqOK'
      BY <2>2, <1>0, DoneStep, GotoStep DEF assertQuotaAvailable
    <3> QED BY <2>2, <3>1 DEF assertQuotaAvailable, history, TypeOK, ReqOK
  <2>3. CASE uploadMedia(r)
    <3>1. PICK f \in Files \ issued :
            /\ issued' = issued \cup {f} /\ stored' = stored \cup {f}
            /\ req' = [req EXCEPT ![r].pc = "insert", ![r].file = f]
      BY <2>3 DEF uploadMedia
    <3> DEFINE x == [req[r] EXCEPT !.pc = "insert", !.file = f]
    <3>2. x \in Request /\ x.pc = "insert" /\ req' = [req EXCEPT ![r] = x]
      BY <1>0, <3>1 DEF ReqOK, Request
    <3> HIDE DEF x
    <3>3. ReqOK'
      BY <1>0, <3>2, ReqStep
    <3> QED BY <2>3, <3>1, <3>3 DEF uploadMedia, history, TypeOK, ReqOK
  <2>4. CASE getAsset(r)
    <3>1. ReqOK'
      BY <2>4, <1>0, DoneStep, GotoStep DEF getAsset
    <3>2. req[r].key \in Keys \cup {NoKey}
      BY <1>0 DEF ReqOK, Request
    <3>3. CASE req[r].file \in stored
      BY <2>4, <3>1, <3>2, <3>3 DEF getAsset, TypeOK, ReqOK
    <3>4. CASE req[r].file \notin stored
      BY <2>4, <3>1, <3>4 DEF getAsset, TypeOK, ReqOK
    <3> QED BY <3>3, <3>4
  <2>5. CASE uploadPoster(r)
    <3>1. CASE Goto(r, "insert") /\ UNCHANGED <<stored, issued>>
      <4>1. ReqOK'
        BY <3>1, <1>0, GotoStep
      <4> QED BY <2>5, <3>1, <4>1 DEF uploadPoster, history, TypeOK, ReqOK
    <3>2. ASSUME NEW f \in Files \ issued,
                 issued' = issued \cup {f} /\ stored' = stored \cup {f},
                 req' = [req EXCEPT ![r].pc = "insert", ![r].poster = f]
          PROVE  TypeOK'
      <4> DEFINE x == [req[r] EXCEPT !.pc = "insert", !.poster = f]
      <4>1. x \in Request /\ x.pc = "insert" /\ req' = [req EXCEPT ![r] = x]
        BY <1>0, <3>2 DEF ReqOK, Request
      <4> HIDE DEF x
      <4>2. ReqOK'
        BY <1>0, <4>1, ReqStep
      <4> QED BY <2>5, <3>2, <4>2 DEF uploadPoster, history, TypeOK, ReqOK
    <3> QED BY <2>5, <3>1, <3>2 DEF uploadPoster
  <2>6. CASE insertMessage(r)
    <3>1. PICK m \in Msgs :
            /\ message' = [message EXCEPT ![m] =
                 [state |-> "live", sender |-> req[r].user, kind |-> req[r].kind,
                  key |-> req[r].key, file |-> req[r].file,
                  poster |-> req[r].poster, edited |-> FALSE]]
            /\ req' = [req EXCEPT ![r].pc = "publish", ![r].msg = m]
      BY <2>6 DEF insertMessage
    <3>2. message' \in [Msgs -> Message]
      BY <1>0, <3>1 DEF Message, Request, ReqOK, TypeOK
    <3> DEFINE x == [req[r] EXCEPT !.pc = "publish", !.msg = m]
    <3>3. x \in Request /\ x.msg = m /\ req' = [req EXCEPT ![r] = x]
      BY <1>0, <3>1 DEF Request, ReqOK
    <3> HIDE DEF x
    <3>4. ReqOK'
      BY <1>0, <3>3, ReqStep
    <3> QED BY <2>6, <3>2, <3>4 DEF insertMessage, history, TypeOK, ReqOK
  <2>7. CASE QuotaExceeded(r) \/ UniqueViolation(r) \/ InsertError(r)
    <3>1. ReqOK'
      BY <2>7, <1>0, DoneStep, GotoStep DEF QuotaExceeded, UniqueViolation, InsertError
    <3> QED BY <2>7, <3>1 DEF QuotaExceeded, UniqueViolation, InsertError, history,
                              TypeOK, ReqOK
  <2>8. CASE dropMedia(r) \/ resolveIdempotencyConflict(r)
    <3>1. ReqOK' /\ stored' \subseteq stored
      BY <2>8, <1>0, DoneStep DEF dropMedia, resolveIdempotencyConflict
    <3> QED BY <2>8, <3>1 DEF dropMedia, resolveIdempotencyConflict, history, TypeOK, ReqOK
  <2>9. CASE publishMessage(r)
    <3>1. ReqOK'
      BY <2>9, <1>0, DoneStep DEF publishMessage
    <3>2. published' \in [Msgs -> Nat]
      BY <2>9 DEF publishMessage, TypeOK
    <3> QED BY <2>9, <3>1, <3>2 DEF publishMessage, history, TypeOK, ReqOK
  <2>10. CASE editMessageContent(r)
    <3>1. ReqOK'
      BY <2>10, <1>0, DoneStep DEF editMessageContent
    <3>2. PICK m \in Msgs : m = req[r].msg
      BY <2>10 DEF editMessageContent, TypeOK
    <3>3. [message[m] EXCEPT !.edited = TRUE] \in Message
      <4>1. message[m] \in Message
        BY <3>2 DEF TypeOK
      <4> QED BY <4>1 DEF Message
    <3>4. \/ message' = message
          \/ message' = [message EXCEPT ![m] = [message[m] EXCEPT !.edited = TRUE]]
      BY <2>10, <3>2 DEF editMessageContent
    <3>5. message' \in [Msgs -> Message]
      BY <3>3, <3>4 DEF TypeOK
    <3> QED BY <2>10, <3>1, <3>5 DEF editMessageContent, history, TypeOK, ReqOK
  <2>11. CASE softDeleteMessage(r)
    <3>1. ReqOK'
      BY <2>11, <1>0, GotoStep DEF softDeleteMessage, ReqOK
    <3>2. message' \in [Msgs -> Message]
      BY <2>11 DEF softDeleteMessage, TypeOK, Message
    <3> QED BY <2>11, <3>1, <3>2 DEF softDeleteMessage, history, TypeOK, ReqOK
  <2>12. CASE deleteAttachments(r)
    <3>1. ReqOK' /\ stored' \subseteq stored
      BY <2>12, <1>0, DoneStep DEF deleteAttachments
    <3> QED BY <2>12, <3>1 DEF deleteAttachments, history, TypeOK, ReqOK
  <2> QED BY <1>4, <2>1, <2>2, <2>3, <2>4, <2>5, <2>6, <2>7, <2>8, <2>9, <2>10,
             <2>11, <2>12 DEF Step, Insert
<1>5. ASSUME NEW r \in Requests, Fail(r) PROVE TypeOK'
  <2>1. ReqOK'
    BY <1>5, <1>0, DoneStep DEF Fail
  <2> QED BY <1>5, <2>1 DEF Fail, TypeOK, ReqOK
<1>6. CASE UNCHANGED vars
  BY <1>6 DEF vars, TypeOK
<1> QED BY <1>1, <1>2, <1>3, <1>4, <1>5, <1>6 DEF Next, Environment

\* Every variable keeps its type, and a handler past its check has a message.
THEOREM TypeCorrect == Spec => []TypeOK
BY TypeInit, TypeStep, PTL DEF Spec

-----------------------------------------------------------------------------
(* What a step does to messages and to handlers.                           *)

\* Every step is the environment's or some handler's.
LEMMA Cases ==
    ASSUME [Next]_vars
    PROVE  \/ UNCHANGED vars
           \/ \E to \in Standings : ChangeRole(to)
           \/ \E u \in Users, f \in Files : createVideoUploadSignature(u, f)
           \/ \E r \in Requests : Arrive(r) \/ Step(r) \/ Fail(r)
BY DEF Next, Environment

\* A handler never touches another one.
LEMMA OthersKept ==
    ASSUME TypeOK, NEW r \in Requests, Arrive(r) \/ Step(r) \/ Fail(r)
    PROVE  \A q \in Requests \ {r} : req'[q] = req[q]
<1>1. CASE Arrive(r)
  BY <1>1 DEF Arrive, authorizeSend, editMessage, deleteMessage, TypeOK
<1>2. CASE Step(r)
  <2>1. CASE findIdempotentMessage(r) \/ assertQuotaAvailable(r) \/ uploadMedia(r)
             \/ getAsset(r) \/ uploadPoster(r)
    BY <2>1 DEF findIdempotentMessage, assertQuotaAvailable, uploadMedia, getAsset,
                uploadPoster, Done, Goto, TypeOK
  <2>2. CASE Insert(r)
    BY <2>2 DEF Insert, insertMessage, QuotaExceeded, UniqueViolation, InsertError,
                Done, Goto, TypeOK
  <2>3. CASE dropMedia(r) \/ resolveIdempotencyConflict(r) \/ publishMessage(r)
             \/ editMessageContent(r) \/ softDeleteMessage(r) \/ deleteAttachments(r)
    BY <2>3 DEF dropMedia, resolveIdempotencyConflict, publishMessage,
                editMessageContent, softDeleteMessage, deleteAttachments, Done, Goto,
                TypeOK
  <2> QED BY <1>2, <2>1, <2>2, <2>3 DEF Step
<1>3. CASE Fail(r)
  BY <1>3 DEF Fail, Done, TypeOK
<1> QED BY <1>1, <1>2, <1>3

\* The message of a handler past its check exists, and is deleted before its
\* files are.
Targets ==
    \A r \in Requests :
        /\ req[r].pc \in {"publish", "edit", "remove", "media"} => Row(req[r].msg)
        /\ req[r].pc = "media" => ~Live(req[r].msg)

\* m keeps what it was sent as, and never comes back.
Kept(m) ==
    /\ Row(m)' <=> Row(m)
    /\ message'[m].sender = message[m].sender
    /\ message'[m].kind = message[m].kind
    /\ message'[m].key = message[m].key
    /\ message'[m].file = message[m].file
    /\ message'[m].poster = message[m].poster
    /\ Live(m)' => Live(m)
    /\ ~Live(m) => message'[m] = message[m]

\* Handler r makes message m.
Inserted(r, m) ==
    /\ insertMessage(r) /\ ~Row(m)
    /\ message' = [message EXCEPT ![m] =
         [state |-> "live", sender |-> req[r].user, kind |-> req[r].kind,
          key |-> req[r].key, file |-> req[r].file,
          poster |-> req[r].poster, edited |-> FALSE]]
    /\ req' = [req EXCEPT ![r].pc = "publish", ![r].msg = m]

LEMMA SameKept ==
    ASSUME UNCHANGED message
    PROVE  \A m \in Msgs : Kept(m)
BY DEF Kept, Row, Live

LEMMA MessageStep ==
    ASSUME TypeOK, Targets, [Next]_vars
    PROVE  \/ \A m \in Msgs : Kept(m)
           \/ \E r \in Requests, m \in Msgs : Inserted(r, m)
<1>1. CASE UNCHANGED vars \/ (\E to \in Standings : ChangeRole(to))
           \/ (\E u \in Users, f \in Files : createVideoUploadSignature(u, f))
  BY <1>1, SameKept DEF vars, ChangeRole, createVideoUploadSignature
<1>2. ASSUME NEW r \in Requests, Arrive(r) \/ Fail(r)
      PROVE  \A m \in Msgs : Kept(m)
  BY <1>2, SameKept DEF Arrive, Fail, authorizeSend, editMessage, deleteMessage
<1>3. ASSUME NEW r \in Requests, Step(r)
      PROVE  \/ \A m \in Msgs : Kept(m)
             \/ \E m \in Msgs : Inserted(r, m)
  <2>1. CASE UNCHANGED message
    BY <2>1, SameKept
  <2>2. CASE insertMessage(r)
    BY <2>2 DEF insertMessage, Inserted
  <2>3. CASE editMessageContent(r)
    <3>1. PICK m \in Msgs : m = req[r].msg
      BY <2>3 DEF editMessageContent, TypeOK
    <3>2. CASE Live(m)
      <4>1. /\ message' = [message EXCEPT ![m] = [message[m] EXCEPT !.edited = TRUE]]
            /\ message[m] \in Message
        BY <2>3, <3>1, <3>2 DEF editMessageContent, TypeOK
      <4>2. message'[m] = [message[m] EXCEPT !.edited = TRUE]
        BY <3>1, <4>1 DEF TypeOK
      <4>3. \A n \in Msgs \ {m} : message'[n] = message[n]
        BY <4>1 DEF TypeOK
      <4> QED BY <3>2, <4>1, <4>2, <4>3 DEF Kept, Row, Live, Message
    <3>3. CASE ~Live(m)
      BY <2>3, <3>1, <3>3, SameKept DEF editMessageContent
    <3> QED BY <3>2, <3>3
  <2>4. CASE softDeleteMessage(r)
    <3>1. PICK m \in Msgs : m = req[r].msg
      BY <2>4 DEF softDeleteMessage, TypeOK
    <3>2. Row(m) /\ message[m] \in Message
      BY <2>4, <3>1 DEF softDeleteMessage, Targets, TypeOK
    <3>3. /\ message'[m] = [message[m] EXCEPT !.state = "deleted"]
          /\ \A n \in Msgs \ {m} : message'[n] = message[n]
      BY <2>4, <3>1 DEF softDeleteMessage, TypeOK
    <3>4. ~Live(m) => message'[m] = message[m]
      <4>1. ~Live(m) => message[m].state = "deleted"
        BY <3>2 DEF Live, Row, Message
      <4> QED BY <3>2, <3>3, <4>1 DEF Message
    <3> QED BY <3>2, <3>3, <3>4 DEF Kept, Row, Live, Message
  <2> QED
    BY <1>3, <2>1, <2>2, <2>3, <2>4
       DEF Step, Insert, findIdempotentMessage, assertQuotaAvailable, uploadMedia,
           getAsset, uploadPoster, QuotaExceeded, UniqueViolation, InsertError,
           dropMedia, resolveIdempotencyConflict, publishMessage, deleteAttachments
<1> QED BY <1>1, <1>2, <1>3, Cases

\* No step takes a message away or brings one back.
LEMMA RowsStay ==
    ASSUME TypeOK, Targets, [Next]_vars, NEW m \in Msgs
    PROVE  (Row(m) => Row(m)') /\ (Row(m) /\ ~Live(m) => ~Live(m)')
<1>1. CASE \A n \in Msgs : Kept(n)
  BY <1>1 DEF Kept
<1>2. ASSUME NEW r \in Requests, NEW n \in Msgs, Inserted(r, n)
      PROVE  (Row(m) => Row(m)') /\ (Row(m) /\ ~Live(m) => ~Live(m)')
  BY <1>2 DEF Inserted, Row, Live, TypeOK
<1> QED BY <1>1, <1>2, MessageStep

LEMMA TargetsStep == TypeOK /\ Targets /\ [Next]_vars => Targets'
<1> SUFFICES ASSUME TypeOK, Targets, [Next]_vars PROVE Targets'
  OBVIOUS
<1>1. ASSUME NEW q \in Requests, req'[q] = req[q]
      PROVE  /\ req'[q].pc \in {"publish", "edit", "remove", "media"} =>
                    Row(req[q].msg)'
             /\ req'[q].pc = "media" => ~Live(req[q].msg)'
  BY <1>1, RowsStay DEF Targets, TypeOK
<1>2. CASE UNCHANGED req
  BY <1>1, <1>2 DEF Targets, Row, Live
<1>3. ASSUME NEW r \in Requests, Arrive(r) \/ Step(r) \/ Fail(r) PROVE Targets'
  <2>1. \A q \in Requests \ {r} : req'[q] = req[q]
    BY <1>3, OthersKept
  <2>2. /\ req'[r].pc \in {"publish", "edit", "remove", "media"} => Row(req[r].msg)'
        /\ req'[r].pc = "media" => ~Live(req[r].msg)'
    <3>1. CASE Arrive(r)
      <4>1. ASSUME NEW u \in Users, NEW m \in Msgs,
                   editMessage(r, u, m) \/ deleteMessage(r, u, m)
            PROVE  req'[r].msg = m /\ Row(m)' /\ req'[r].pc # "media"
        BY <4>1 DEF editMessage, deleteMessage, Row, Live, TypeOK, Idle
      <4>2. ASSUME NEW u \in Users, NEW kind \in Kind, NEW key \in Keys \cup {NoKey},
                   NEW f \in Files \cup {NoFile}, authorizeSend(r, u, kind, key, f)
            PROVE  req'[r].pc = "lookup"
        BY <4>2 DEF authorizeSend, TypeOK, Idle
      <4> QED BY <3>1, <4>1, <4>2 DEF Arrive
    <3>2. CASE Fail(r)
      BY <3>2 DEF Fail, Done, TypeOK, Idle
    <3>3. CASE insertMessage(r)
      BY <3>3 DEF insertMessage, Row, Live, TypeOK, Request
    <3>4. CASE softDeleteMessage(r)
      <4>1. /\ req'[r].msg = req[r].msg /\ req[r].msg \in Msgs
            /\ message' = [message EXCEPT ![req[r].msg].state = "deleted"]
        BY <3>4 DEF softDeleteMessage, Goto, TypeOK, Request
      <4>2. message'[req[r].msg].state = "deleted"
        BY <4>1 DEF TypeOK, Message
      <4> QED BY <4>1, <4>2 DEF Row, Live
    <3>5. CASE findIdempotentMessage(r) \/ assertQuotaAvailable(r) \/ uploadMedia(r)
               \/ getAsset(r) \/ uploadPoster(r)
      BY <3>5 DEF findIdempotentMessage, assertQuotaAvailable, uploadMedia, getAsset,
                  uploadPoster, Done, Goto, TypeOK, Idle, Request
    <3>6. CASE QuotaExceeded(r) \/ UniqueViolation(r) \/ InsertError(r) \/ dropMedia(r)
               \/ resolveIdempotencyConflict(r) \/ publishMessage(r)
               \/ editMessageContent(r) \/ deleteAttachments(r)
      BY <3>6 DEF QuotaExceeded, UniqueViolation, InsertError, dropMedia,
                  resolveIdempotencyConflict, publishMessage, editMessageContent,
                  deleteAttachments, Done, Goto, TypeOK, Idle, Request
    <3> QED BY <1>3, <3>1, <3>2, <3>3, <3>4, <3>5, <3>6 DEF Step, Insert
  <2> QED BY <1>1, <2>1, <2>2 DEF Targets, Row, Live
<1> QED
  BY <1>2, <1>3, Cases DEF vars, ChangeRole, createVideoUploadSignature

LEMMA TargetsInit == Init => Targets
BY DEF Init, Targets, Idle

\* A deleted message rests, whatever read it before.
THEOREM DeletedRest == Spec => TombstonesRest
<1>1. TypeOK /\ Targets /\ [Next]_vars =>
        [\A m \in Msgs : message[m].state = "deleted" => message'[m] = message[m]]_vars
  <2> SUFFICES ASSUME TypeOK, Targets, [Next]_vars, NEW m \in Msgs,
                      message[m].state = "deleted"
               PROVE  message'[m] = message[m]
    OBVIOUS
  <2>1. CASE \A n \in Msgs : Kept(n)
    BY <2>1 DEF Kept, Live
  <2>2. ASSUME NEW r \in Requests, NEW n \in Msgs, Inserted(r, n)
        PROVE  message'[m] = message[m]
    BY <2>2 DEF Inserted, Row, TypeOK
  <2> QED BY <2>1, <2>2, MessageStep
<1> QED BY <1>1, TypeInit, TypeStep, TargetsInit, TargetsStep, PTL
        DEF Spec, TombstonesRest

-----------------------------------------------------------------------------
(* One message for a key, announced once.                                  *)

OneRow ==
    \A m, n \in Msgs :
        Row(m) /\ Row(n) /\ message[m].key = message[n].key
               /\ message[m].sender = message[n].sender /\ message[m].key # NoKey
            => m = n

LEMMA OneRowStep ==
    ASSUME TypeOK, Targets, OneRow, [Next]_vars
    PROVE  OneRow'
<1>1. CASE \A n \in Msgs : Kept(n)
  BY <1>1 DEF Kept, OneRow
<1>2. ASSUME NEW r \in Requests, NEW m \in Msgs, Inserted(r, m)
      PROVE  OneRow'
  <2>1. /\ message'[m].key = req[r].key /\ message'[m].sender = req[r].user
        /\ \A n \in Msgs \ {m} : message'[n] = message[n]
    BY <1>2 DEF Inserted, TypeOK
  <2>2. \A n \in Msgs : ~(Row(n) /\ message[n].sender = req[r].user
                          /\ message[n].key = req[r].key /\ req[r].key # NoKey)
    BY <1>2 DEF Inserted, insertMessage, Unique, Existing
  <2> QED BY <2>1, <2>2 DEF OneRow, Row
<1> QED BY <1>1, <1>2, MessageStep

\* A message still to be announced was not announced before, and has one
\* handler to do it.
Announcing ==
    /\ \A m \in Msgs : published[m] <= 1 /\ (~Row(m) => published[m] = 0)
    /\ \A r \in Requests : req[r].pc = "publish" => published[req[r].msg] = 0
    /\ \A q, r \in Requests :
        req[q].pc = "publish" /\ req[r].pc = "publish" /\ req[q].msg = req[r].msg
            => q = r

\* Only an insert leads to an announcement.
LEMMA NewAnnouncement ==
    ASSUME TypeOK, NEW r \in Requests, Arrive(r) \/ Step(r) \/ Fail(r),
           ~insertMessage(r)
    PROVE  req'[r].pc # "publish"
<1>1. CASE Arrive(r)
  <2>1. ASSUME NEW u \in Users, NEW m \in Msgs,
               editMessage(r, u, m) \/ deleteMessage(r, u, m)
        PROVE  req'[r].pc # "publish"
    BY <2>1 DEF editMessage, deleteMessage, TypeOK, Idle
  <2>2. ASSUME NEW u \in Users, NEW kind \in Kind, NEW key \in Keys \cup {NoKey},
               NEW f \in Files \cup {NoFile}, authorizeSend(r, u, kind, key, f)
        PROVE  req'[r].pc # "publish"
    BY <2>2 DEF authorizeSend, TypeOK, Idle
  <2> QED BY <1>1, <2>1, <2>2 DEF Arrive
<1>2. CASE Fail(r)
  BY <1>2 DEF Fail, Done, TypeOK, Idle
<1>3. CASE findIdempotentMessage(r) \/ assertQuotaAvailable(r) \/ uploadMedia(r)
           \/ getAsset(r) \/ uploadPoster(r)
  BY <1>3 DEF findIdempotentMessage, assertQuotaAvailable, uploadMedia, getAsset,
              uploadPoster, Done, Goto, TypeOK, Idle, Request
<1>4. CASE QuotaExceeded(r) \/ UniqueViolation(r) \/ InsertError(r) \/ dropMedia(r)
           \/ resolveIdempotencyConflict(r) \/ publishMessage(r)
           \/ editMessageContent(r) \/ softDeleteMessage(r) \/ deleteAttachments(r)
  BY <1>4 DEF QuotaExceeded, UniqueViolation, InsertError, dropMedia,
              resolveIdempotencyConflict, publishMessage, editMessageContent,
              softDeleteMessage, deleteAttachments, Done, Goto, TypeOK, Idle, Request
<1> QED BY <1>1, <1>2, <1>3, <1>4 DEF Step, Insert

LEMMA AnnouncingStep ==
    ASSUME TypeOK, Targets, Announcing, [Next]_vars
    PROVE  Announcing'
<1>1. ASSUME UNCHANGED <<published, req>> PROVE Announcing'
  BY <1>1, RowsStay DEF Announcing, TypeOK
<1>2. ASSUME NEW r \in Requests, Arrive(r) \/ Step(r) \/ Fail(r)
      PROVE  Announcing'
  <2>1. \A q \in Requests \ {r} : req'[q] = req[q]
    BY <1>2, OthersKept
  <2>2. CASE insertMessage(r)
    <3>1. PICK m \in Msgs : Inserted(r, m)
      BY <2>2 DEF insertMessage, Inserted
    <3>2. /\ req'[r].pc = "publish" /\ req'[r].msg = m /\ published[m] = 0
          /\ published' = published
      BY <3>1, <2>2 DEF Inserted, insertMessage, Announcing, TypeOK, Request
    <3>3. \A q \in Requests \ {r} : req[q].pc = "publish" => req[q].msg # m
      BY <3>1 DEF Inserted, Targets
    <3>4. \A n \in Msgs : ~Row(n)' => ~Row(n)
      BY RowsStay
    <3> QED BY <2>1, <3>2, <3>3, <3>4 DEF Announcing
  <2>3. CASE publishMessage(r)
    <3>1. /\ req[r].pc = "publish" /\ req[r].msg \in Msgs /\ Row(req[r].msg)
          /\ published' = [published EXCEPT ![req[r].msg] = published[req[r].msg] + 1]
          /\ message' = message
      BY <2>3 DEF publishMessage, Targets, TypeOK
    <3>2. req'[r].pc # "publish"
      BY <2>3, NewAnnouncement, <1>2 DEF publishMessage, insertMessage
    <3>3. \A m \in Msgs : /\ published'[m] <= 1
                          /\ ~Row(m)' => published'[m] = 0
      BY <3>1 DEF Announcing, TypeOK, Row
    <3>4. \A q \in Requests : req'[q].pc = "publish" =>
              /\ q # r /\ req'[q] = req[q] /\ req[q].msg # req[r].msg
              /\ req[q].msg \in Msgs
      BY <2>1, <3>1, <3>2 DEF Announcing, TypeOK
    <3>5. \A q \in Requests : req'[q].pc = "publish" => published'[req'[q].msg] = 0
      BY <3>1, <3>4 DEF Announcing, TypeOK
    <3> QED BY <3>3, <3>4, <3>5 DEF Announcing
  <2>4. CASE ~insertMessage(r) /\ ~publishMessage(r)
    <3>1. req'[r].pc # "publish"
      BY <1>2, <2>4, NewAnnouncement
    <3>2. published' = published
      BY <1>2, <2>4
         DEF Arrive, Step, Fail, Insert, authorizeSend, editMessage, deleteMessage,
             findIdempotentMessage, assertQuotaAvailable, uploadMedia, getAsset,
             uploadPoster, QuotaExceeded, UniqueViolation, InsertError, dropMedia,
             resolveIdempotencyConflict, editMessageContent, softDeleteMessage,
             deleteAttachments
    <3>3. \A n \in Msgs : ~Row(n)' => ~Row(n)
      BY RowsStay
    <3> QED BY <2>1, <3>1, <3>2, <3>3 DEF Announcing
  <2> QED BY <2>2, <2>3, <2>4
<1> QED
  BY <1>1, <1>2, Cases DEF vars, ChangeRole, createVideoUploadSignature

\* However many retries of a send overlap, one message and one announcement.
THEOREM OneMessagePerKey == Spec => []OncePerKey
<1>1. Init => OneRow /\ Announcing
  BY DEF Init, OneRow, Announcing, Row, NoMessage, Idle
<1>2. OneRow /\ Announcing => OncePerKey
  BY DEF OneRow, Announcing, OncePerKey
<1>3. TypeOK /\ Targets /\ OneRow /\ Announcing /\ [Next]_vars
        => OneRow' /\ Announcing'
  BY OneRowStep, AnnouncingStep
<1> QED BY <1>1, <1>2, <1>3, TypeInit, TypeStep, TargetsInit, TargetsStep, PTL
        DEF Spec

-----------------------------------------------------------------------------
(* The quota.                                                              *)

LEMMA MediaFinite ==
    ASSUME NEW u \in Users
    PROVE  IsFiniteSet(ActiveMedia(u))
<1>1. ActiveMedia(u) \subseteq Msgs
  BY DEF ActiveMedia
<1> QED BY <1>1, PoolsAssumption, FS_Subset

LEMMA QuotaStep ==
    ASSUME TypeOK, Targets, QuotaKept, [Next]_vars
    PROVE  QuotaKept'
<1> SUFFICES ASSUME NEW u \in Users PROVE Used(u)' <= Quota
  BY DEF QuotaKept
<1>0. IsFiniteSet(ActiveMedia(u)) /\ Used(u) \in Nat /\ Used(u) <= Quota
  BY MediaFinite, FS_CardinalityType DEF Used, QuotaKept
<1>1. ASSUME ActiveMedia(u)' \subseteq ActiveMedia(u)
      PROVE  Used(u)' <= Quota
  <2>1. /\ Cardinality(ActiveMedia(u)') \in Nat
        /\ Cardinality(ActiveMedia(u)') <= Cardinality(ActiveMedia(u))
    BY <1>0, <1>1, FS_Subset, FS_CardinalityType
  <2> QED BY <1>0, <2>1, Numbers DEF Used
<1>2. CASE \A n \in Msgs : Kept(n)
  BY <1>1, <1>2 DEF ActiveMedia, Kept
<1>3. ASSUME NEW r \in Requests, NEW m \in Msgs, Inserted(r, m)
      PROVE  Used(u)' <= Quota
  <2>1. /\ message'[m].sender = req[r].user /\ message'[m].kind = req[r].kind
        /\ \A n \in Msgs \ {m} : message'[n] = message[n]
        /\ m \notin ActiveMedia(u)
    BY <1>3 DEF Inserted, TypeOK, ActiveMedia, Live, Row
  <2>2. CASE req[r].user # u \/ req[r].kind = "TEXT"
    <3>1. ActiveMedia(u)' \subseteq ActiveMedia(u)
      BY <2>1, <2>2 DEF ActiveMedia, Live
    <3> QED BY <1>1, <3>1
  <2>3. CASE req[r].user = u /\ req[r].kind # "TEXT"
    <3>1. ActiveMedia(u)' \subseteq ActiveMedia(u) \cup {m}
      BY <2>1 DEF ActiveMedia, Live
    <3>2. Used(u) + 1 <= Quota
      BY <1>3, <2>3 DEF Inserted, insertMessage, Fits
    <3>3. /\ IsFiniteSet(ActiveMedia(u) \cup {m})
          /\ Cardinality(ActiveMedia(u) \cup {m}) = Cardinality(ActiveMedia(u)) + 1
      BY <1>0, <2>1, FS_AddElement
    <3>4. /\ Cardinality(ActiveMedia(u)') \in Nat
          /\ Cardinality(ActiveMedia(u)') <= Cardinality(ActiveMedia(u) \cup {m})
      BY <3>1, <3>3, FS_Subset, FS_CardinalityType
    <3> QED BY <1>0, <3>2, <3>3, <3>4, Numbers DEF Used
  <2> QED BY <2>2, <2>3
<1> QED BY <1>2, <1>3, MessageStep

\* The lock of the sender holds the quota against any number of uploads.
THEOREM QuotaHolds == Spec => []QuotaKept
<1>1. Init => QuotaKept
  <2> SUFFICES ASSUME Init, NEW u \in Users PROVE Used(u) <= Quota
    BY DEF QuotaKept
  <2>1. ActiveMedia(u) = {}
    BY DEF Init, ActiveMedia, Live, NoMessage
  <2> QED BY <2>1, FS_EmptySet, Numbers DEF Used
<1>2. TypeOK /\ Targets /\ QuotaKept /\ [Next]_vars => QuotaKept'
  BY QuotaStep
<1> QED BY <1>1, <1>2, TypeInit, TypeStep, TargetsInit, TargetsStep, PTL DEF Spec

-----------------------------------------------------------------------------
(* Files. Handlers and messages both hold some: those the server uploaded  *)
(* are theirs alone, a video may be presented again.                       *)

Own(x) == ({x.poster} \cup (IF x.kind = "MEDIA" THEN {x.file} ELSE {})) \ {NoFile}
Video(x) == IF x.kind = "VIDEO" THEN {x.file} ELSE {}

ROwn(r) == IF req[r].pc \in {"insert", "conflict", "drop"} THEN Own(req[r]) ELSE {}
RVid(r) == IF req[r].pc \in {"poster", "insert", "conflict", "drop"}
           THEN Video(req[r]) ELSE {}
MOwn(m) == IF Row(m) THEN Own(message[m]) ELSE {}
MVid(m) == IF Row(m) THEN Video(message[m]) ELSE {}

\* A text has no file, a video was handed out to a client.
Kinds ==
    /\ \A r \in Requests :
        /\ req[r].kind = "VIDEO" => req[r].file \in videos
        /\ req[r].kind = "TEXT" => req[r].file = NoFile
        /\ req[r].pc \in {"quota", "upload"} => req[r].kind = "MEDIA"
        /\ req[r].pc \in {"asset", "poster"} => req[r].kind = "VIDEO"
        /\ req[r].pc \in {"lookup", "quota", "upload", "asset", "poster"}
              => req[r].poster = NoFile
    /\ \A m \in Msgs :
        Row(m) => /\ message[m].kind = "VIDEO" => message[m].file \in videos
                  /\ message[m].kind = "TEXT" => message[m].file = NoFile

\* What the server uploaded has a name of its own.
Names ==
    /\ \A r \in Requests : ROwn(r) \subseteq issued \ videos
    /\ \A m \in Msgs : MOwn(m) \subseteq issued \ videos

\* No two holders share a file, but for videos presented again.
Apart ==
    /\ \A q, r \in Requests :
        q # r => ROwn(q) \cap ROwn(r) = {} /\ RVid(q) \cap RVid(r) \subseteq again
    /\ \A r \in Requests, m \in Msgs :
        ROwn(r) \cap MOwn(m) = {} /\ RVid(r) \cap MVid(m) \subseteq again
    /\ \A m, n \in Msgs :
        m # n => MOwn(m) \cap MOwn(n) = {} /\ MVid(m) \cap MVid(n) \subseteq again

\* A video that is held was presented.
Shown ==
    /\ \A r \in Requests : \A f \in RVid(r) : shown[f] # {}
    /\ \A m \in Msgs : \A f \in MVid(m) : shown[f] # {}

\* What is about to become a message, or is one, is in the store.
Safe ==
    /\ \A r \in Requests :
        /\ req[r].pc = "insert" => ROwn(r) \subseteq stored
        /\ RVid(r) \subseteq stored \cup again
    /\ \A m \in Msgs :
        Live(m) => MOwn(m) \subseteq stored /\ MVid(m) \subseteq stored \cup again

FilesOK == Kinds /\ Names /\ Apart /\ Shown /\ Safe

LEMMA FilesInit == Init => FilesOK
<1> SUFFICES ASSUME Init PROVE FilesOK
  OBVIOUS
<1>1. \A r \in Requests : /\ req[r].pc = "idle" /\ req[r].kind = "TEXT"
                          /\ req[r].file = NoFile /\ ROwn(r) = {} /\ RVid(r) = {}
  BY DEF Init, Idle, ROwn, RVid
<1>2. \A m \in Msgs : ~Row(m) /\ ~Live(m) /\ MOwn(m) = {} /\ MVid(m) = {}
  BY DEF Init, NoMessage, Row, Live, MOwn, MVid
<1> QED BY <1>1, <1>2 DEF FilesOK, Kinds, Names, Apart, Shown, Safe

\* A step after which nobody holds more than before, and that takes out of the
\* store only what nobody else needs, is harmless.
LEMMA Shrink ==
    ASSUME FilesOK, Kinds', NEW D, stored \ D \subseteq stored',
           issued \subseteq issued', videos' = videos, again \subseteq again',
           \A f \in Files : shown[f] # {} => shown'[f] # {},
           \A r \in Requests : ROwn(r)' \subseteq ROwn(r) /\ RVid(r)' \subseteq RVid(r),
           \A r \in Requests : RVid(r)' \subseteq Files,
           \A m \in Msgs : MVid(m)' \subseteq Files,
           \A r \in Requests : req'[r].pc = "insert" =>
               req[r].pc = "insert" \/ ROwn(r)' = {},
           \A m \in Msgs : MOwn(m)' \subseteq MOwn(m) /\ MVid(m)' \subseteq MVid(m),
           \A m \in Msgs : Live(m)' => Live(m),
           \A r \in Requests : req'[r].pc = "insert" => ROwn(r)' \cap D = {},
           \A r \in Requests : RVid(r)' \cap D \subseteq again',
           \A m \in Msgs : Live(m)' =>
               MOwn(m)' \cap D = {} /\ MVid(m)' \cap D \subseteq again'
    PROVE  FilesOK'
<1>1. Names'
  BY DEF FilesOK, Names
<1>2. Apart'
  <2>1. ASSUME NEW q \in Requests, NEW r \in Requests, q # r
        PROVE  /\ ROwn(q)' \cap ROwn(r)' = {}
               /\ RVid(q)' \cap RVid(r)' \subseteq again'
    BY <2>1 DEF FilesOK, Apart
  <2>2. ASSUME NEW r \in Requests, NEW m \in Msgs
        PROVE  /\ ROwn(r)' \cap MOwn(m)' = {}
               /\ RVid(r)' \cap MVid(m)' \subseteq again'
    BY DEF FilesOK, Apart
  <2>3. ASSUME NEW m \in Msgs, NEW n \in Msgs, m # n
        PROVE  /\ MOwn(m)' \cap MOwn(n)' = {}
               /\ MVid(m)' \cap MVid(n)' \subseteq again'
    BY <2>3 DEF FilesOK, Apart
  <2> QED BY <2>1, <2>2, <2>3 DEF Apart
<1>3. Shown'
  BY DEF FilesOK, Shown
<1>4. Safe'
  <2>1. ASSUME NEW r \in Requests
        PROVE  /\ req'[r].pc = "insert" => ROwn(r)' \subseteq stored'
               /\ RVid(r)' \subseteq stored' \cup again'
    BY DEF FilesOK, Safe
  <2>2. ASSUME NEW m \in Msgs, Live(m)'
        PROVE  MOwn(m)' \subseteq stored' /\ MVid(m)' \subseteq stored' \cup again'
    BY <2>2 DEF FilesOK, Safe
  <2> QED BY <2>1, <2>2 DEF Safe
<1> QED BY <1>1, <1>2, <1>3, <1>4 DEF FilesOK

LEMMA KindsStep ==
    ASSUME TypeOK, Targets, Kinds, [Next]_vars
    PROVE  Kinds'
<1>1. videos \subseteq videos'
  <2>1. ASSUME NEW r \in Requests, Arrive(r) \/ Fail(r) PROVE videos' = videos
    BY <2>1 DEF Arrive, Fail, authorizeSend, editMessage, deleteMessage
  <2>2. ASSUME NEW r \in Requests, Insert(r) PROVE videos' = videos
    BY <2>2 DEF Insert, insertMessage, QuotaExceeded, UniqueViolation, InsertError
  <2>3. ASSUME NEW r \in Requests, Step(r), ~Insert(r) PROVE videos' = videos
    BY <2>3 DEF Step, findIdempotentMessage, assertQuotaAvailable, uploadMedia,
         getAsset, uploadPoster, dropMedia, resolveIdempotencyConflict,
         publishMessage, editMessageContent, softDeleteMessage, deleteAttachments
  <2> QED
    BY <2>1, <2>2, <2>3, Cases DEF vars, ChangeRole, createVideoUploadSignature
<1> DEFINE KR(r) == /\ req[r].kind = "VIDEO" => req[r].file \in videos
                    /\ req[r].kind = "TEXT" => req[r].file = NoFile
                    /\ req[r].pc \in {"quota", "upload"} => req[r].kind = "MEDIA"
                    /\ req[r].pc \in {"asset", "poster"} => req[r].kind = "VIDEO"
                    /\ req[r].pc \in {"lookup", "quota", "upload", "asset", "poster"}
                          => req[r].poster = NoFile
           KM(m) == Row(m) => /\ message[m].kind = "VIDEO" => message[m].file \in videos
                              /\ message[m].kind = "TEXT" => message[m].file = NoFile
<1>2. ASSUME NEW r \in Requests PROVE KR(r)'
  <2>1. CASE req'[r] = req[r]
    BY <1>1, <2>1 DEF Kinds
  <2>2. CASE req'[r].pc = "idle" /\ req'[r].kind = "TEXT" /\ req'[r].file = NoFile
    BY <2>2
  <2>3. CASE Arrive(r)
    <3>1. ASSUME NEW u \in Users, NEW m \in Msgs,
                 editMessage(r, u, m) \/ deleteMessage(r, u, m)
          PROVE  KR(r)'
      <4>1. PICK pc \in {"edit", "remove"} :
              req' = [req EXCEPT ![r] = [Idle EXCEPT !.pc = pc, !.user = u, !.msg = m]]
        BY <3>1 DEF editMessage, deleteMessage
      <4>2. req'[r].pc = pc /\ req'[r].kind = "TEXT" /\ req'[r].file = NoFile
        BY <4>1 DEF TypeOK, Idle
      <4> QED BY <4>2
    <3>2. ASSUME NEW u \in Users, NEW kind \in Kind, NEW key \in Keys \cup {NoKey},
                 NEW f \in Files \cup {NoFile}, authorizeSend(r, u, kind, key, f)
          PROVE  KR(r)'
      BY <3>2, <1>1 DEF authorizeSend, TypeOK, Idle
    <3> QED BY <2>3, <3>1, <3>2 DEF Arrive
  <2>4. CASE Step(r) \/ Fail(r)
    <3>0. req[r] \in Request /\ KR(r)
      BY DEF TypeOK, Kinds
    <3>1. CASE Done(r)
      BY <3>1, <2>2 DEF Done, TypeOK, Idle
    <3>2. CASE findIdempotentMessage(r)
      BY <3>0, <3>1, <3>2, <1>1 DEF findIdempotentMessage, Goto, TypeOK, Request, Kind
    <3>3. CASE uploadMedia(r)
      BY <3>0, <3>3, <1>1 DEF uploadMedia, TypeOK, Request
    <3>4. CASE uploadPoster(r)
      BY <3>0, <3>4, <1>1 DEF uploadPoster, Goto, TypeOK, Request
    <3>5. CASE insertMessage(r)
      BY <3>0, <3>5, <1>1 DEF insertMessage, TypeOK, Request
    <3>6. CASE assertQuotaAvailable(r) \/ getAsset(r) \/ QuotaExceeded(r)
               \/ UniqueViolation(r) \/ InsertError(r) \/ softDeleteMessage(r)
      BY <3>0, <3>1, <3>6, <1>1 DEF assertQuotaAvailable, getAsset, QuotaExceeded,
           UniqueViolation, InsertError, softDeleteMessage, Goto, TypeOK, Request
    <3> QED
      BY <2>4, <3>1, <3>2, <3>3, <3>4, <3>5, <3>6
         DEF Step, Fail, Insert, dropMedia, resolveIdempotencyConflict, publishMessage,
             editMessageContent, deleteAttachments
  <2>5. ASSUME NEW q \in Requests \ {r}, Arrive(q) \/ Step(q) \/ Fail(q)
        PROVE  KR(r)'
    BY <2>1, <2>5, OthersKept
  <2> QED
    BY <2>1, <2>3, <2>4, <2>5, Cases DEF vars, ChangeRole, createVideoUploadSignature
<1>3. ASSUME NEW m \in Msgs PROVE KM(m)'
  <2>1. CASE \A n \in Msgs : Kept(n)
    BY <1>1, <2>1 DEF Kinds, Kept
  <2>2. ASSUME NEW r \in Requests, NEW n \in Msgs, Inserted(r, n)
        PROVE  KM(m)'
    <3>1. CASE m = n
      BY <1>1, <2>2, <3>1 DEF Inserted, Kinds, TypeOK
    <3>2. CASE m # n
      BY <1>1, <2>2, <3>2 DEF Inserted, Kinds, TypeOK, Row
    <3> QED BY <3>1, <3>2
  <2> QED BY <2>1, <2>2, MessageStep
<1> QED BY <1>2, <1>3 DEF Kinds

LEMMA VideosAreFiles ==
    ASSUME TypeOK, Kinds
    PROVE  /\ \A r \in Requests : RVid(r) \subseteq videos /\ RVid(r) \subseteq Files
           /\ \A m \in Msgs : MVid(m) \subseteq videos /\ MVid(m) \subseteq Files
BY DEF TypeOK, Kinds, RVid, MVid, Video

LEMMA SameHolding ==
    ASSUME NEW r \in Requests, req'[r] = req[r]
    PROVE  ROwn(r)' = ROwn(r) /\ RVid(r)' = RVid(r)
BY DEF ROwn, RVid, Own, Video

LEMMA KeptHolding ==
    ASSUME NEW m \in Msgs, Kept(m)
    PROVE  MOwn(m)' = MOwn(m) /\ MVid(m)' = MVid(m) /\ (Live(m)' => Live(m))
BY DEF Kept, MOwn, MVid, Own, Video

\* A step of r that gains nothing, and deletes at most what r gives up or what
\* belonged to a message no longer shown.
LEMMA Quiet ==
    ASSUME TypeOK, TypeOK', FilesOK, Kinds', NEW r \in Requests,
           \A q \in Requests \ {r} : req'[q] = req[q],
           \A m \in Msgs : Kept(m),
           UNCHANGED <<issued, videos>>, again' = again, shown' = shown,
           NEW D, stored' = stored \ D,
           ROwn(r)' \subseteq ROwn(r), RVid(r)' \subseteq RVid(r),
           req'[r].pc = "insert" => req[r].pc = "insert" \/ ROwn(r)' = {},
           \/ D = {}
           \/ /\ D \subseteq ROwn(r) \cup RVid(r) \cup {NoFile}
              /\ ROwn(r)' = {} /\ RVid(r)' = {}
           \/ \E m \in Msgs : ~Live(m)' /\ D \subseteq MOwn(m) \cup MVid(m) \cup {NoFile}
    PROVE  FilesOK'
<1>1. \A q \in Requests \ {r} : ROwn(q)' = ROwn(q) /\ RVid(q)' = RVid(q)
  BY SameHolding
<1>2. \A m \in Msgs : MOwn(m)' = MOwn(m) /\ MVid(m)' = MVid(m) /\ (Live(m)' => Live(m))
  BY KeptHolding
<1>3. /\ \A q \in Requests : RVid(q) \subseteq videos /\ RVid(q) \subseteq Files
      /\ \A m \in Msgs : MVid(m) \subseteq videos /\ MVid(m) \subseteq Files
  BY VideosAreFiles DEF FilesOK
<1>4. /\ \A q \in Requests : NoFile \notin ROwn(q) /\ NoFile \notin RVid(q)
      /\ \A m \in Msgs : NoFile \notin MOwn(m) /\ NoFile \notin MVid(m)
  BY <1>3, NullsAssumption DEF ROwn, MOwn, Own
<1>5. /\ \A q \in Requests : ROwn(q) \cap videos = {}
      /\ \A m \in Msgs : MOwn(m) \cap videos = {}
  BY DEF FilesOK, Names
<1>6. /\ \A q \in Requests : ROwn(q)' \cap D = {} /\ RVid(q)' \cap D \subseteq again
      /\ \A m \in Msgs : Live(m)' =>
            MOwn(m)' \cap D = {} /\ MVid(m)' \cap D \subseteq again
  <2>1. CASE D = {}
    BY <2>1
  <2>2. CASE /\ D \subseteq ROwn(r) \cup RVid(r) \cup {NoFile}
             /\ ROwn(r)' = {} /\ RVid(r)' = {}
    <3>1. ASSUME NEW q \in Requests \ {r}
          PROVE  ROwn(q) \cap D = {} /\ RVid(q) \cap D \subseteq again
      BY <2>2, <1>3, <1>4, <1>5 DEF FilesOK, Apart
    <3>2. ASSUME NEW m \in Msgs
          PROVE  MOwn(m) \cap D = {} /\ MVid(m) \cap D \subseteq again
      BY <2>2, <1>3, <1>4, <1>5 DEF FilesOK, Apart
    <3> QED BY <2>2, <3>1, <3>2, <1>1, <1>2
  <2>3. ASSUME NEW n \in Msgs, ~Live(n)',
               D \subseteq MOwn(n) \cup MVid(n) \cup {NoFile}
        PROVE  /\ \A q \in Requests : ROwn(q)' \cap D = {} /\ RVid(q)' \cap D \subseteq again
               /\ \A m \in Msgs : Live(m)' =>
                     MOwn(m)' \cap D = {} /\ MVid(m)' \cap D \subseteq again
    <3>1. ASSUME NEW q \in Requests
          PROVE  ROwn(q) \cap D = {} /\ RVid(q) \cap D \subseteq again
      BY <2>3, <1>3, <1>4, <1>5 DEF FilesOK, Apart
    <3>2. ASSUME NEW m \in Msgs \ {n}
          PROVE  MOwn(m) \cap D = {} /\ MVid(m) \cap D \subseteq again
      BY <2>3, <1>3, <1>4, <1>5 DEF FilesOK, Apart
    <3> QED BY <2>3, <3>1, <3>2, <1>1, <1>2
  <2> QED BY <2>1, <2>2, <2>3
<1>7. \A q \in Requests : /\ ROwn(q)' \subseteq ROwn(q) /\ RVid(q)' \subseteq RVid(q)
                          /\ RVid(q)' \subseteq Files
                          /\ req'[q].pc = "insert" =>
                                req[q].pc = "insert" \/ ROwn(q)' = {}
  BY <1>1, <1>3
<1> QED BY <1>2, <1>3, <1>6, <1>7, Shrink

\* The server uploads a file under a name never used.
LEMMA Fresh ==
    ASSUME TypeOK, FilesOK, Kinds', NEW r \in Requests, NEW f \in Files \ issued,
           \A q \in Requests \ {r} : req'[q] = req[q],
           \A m \in Msgs : Kept(m),
           videos' = videos, again' = again, shown' = shown,
           issued' = issued \cup {f}, stored' = stored \cup {f},
           ROwn(r)' = {f}, RVid(r)' \subseteq RVid(r)
    PROVE  FilesOK'
<1>1. \A q \in Requests \ {r} : ROwn(q)' = ROwn(q) /\ RVid(q)' = RVid(q)
  BY SameHolding
<1>2. \A m \in Msgs : MOwn(m)' = MOwn(m) /\ MVid(m)' = MVid(m) /\ (Live(m)' => Live(m))
  BY KeptHolding
<1>3. /\ \A q \in Requests : f \notin ROwn(q)
      /\ \A m \in Msgs : f \notin MOwn(m)
      /\ f \notin videos
  BY DEF FilesOK, Names, TypeOK
<1>4. Names'
  BY <1>1, <1>2, <1>3 DEF FilesOK, Names
<1>5. Apart'
  <2>1. ASSUME NEW p \in Requests, NEW q \in Requests, p # q
        PROVE  ROwn(p)' \cap ROwn(q)' = {} /\ RVid(p)' \cap RVid(q)' \subseteq again
    BY <1>1, <1>3, <2>1 DEF FilesOK, Apart
  <2>2. ASSUME NEW q \in Requests, NEW m \in Msgs
        PROVE  ROwn(q)' \cap MOwn(m)' = {} /\ RVid(q)' \cap MVid(m)' \subseteq again
    BY <1>1, <1>2, <1>3 DEF FilesOK, Apart
  <2> QED BY <2>1, <2>2, <1>2 DEF FilesOK, Apart
<1>6. Shown'
  BY <1>1, <1>2 DEF FilesOK, Shown
<1>7. Safe'
  BY <1>1, <1>2 DEF FilesOK, Safe
<1> QED BY <1>4, <1>5, <1>6, <1>7 DEF FilesOK

\* A request that reaches neither "insert" nor the steps around it holds nothing.
LEMMA IdleHolds ==
    ASSUME NEW r \in Requests,
           req'[r].pc \notin {"poster", "insert", "conflict", "drop"}
    PROVE  ROwn(r)' = {} /\ RVid(r)' = {}
BY DEF ROwn, RVid

LEMMA DoneHolds ==
    ASSUME TypeOK, NEW r \in Requests, Done(r)
    PROVE  /\ ROwn(r)' = {} /\ RVid(r)' = {} /\ req'[r].pc = "idle"
           /\ \A q \in Requests \ {r} : req'[q] = req[q]
<1>1. req'[r].pc = "idle" /\ \A q \in Requests \ {r} : req'[q] = req[q]
  BY DEF Done, TypeOK, Idle
<1> QED BY <1>1, IdleHolds

\* What a handler is about to delete is what it holds.
LEMMA Holds ==
    ASSUME TypeOK, Kinds
    PROVE  /\ \A r \in Requests : req[r].pc \in {"conflict", "drop"} =>
                {req[r].file, req[r].poster} \subseteq ROwn(r) \cup RVid(r) \cup {NoFile}
           /\ \A m \in Msgs : Row(m) =>
                {message[m].file, message[m].poster}
                    \subseteq MOwn(m) \cup MVid(m) \cup {NoFile}
<1>1. \A r \in Requests : req[r].kind \in Kind
  BY DEF TypeOK, Request
<1>2. \A m \in Msgs : message[m].kind \in Kind
  BY DEF TypeOK, Message
<1> QED BY <1>1, <1>2 DEF Kinds, ROwn, RVid, MOwn, MVid, Own, Video, Kind

LEMMA ArriveFiles ==
    ASSUME TypeOK, TypeOK', FilesOK, Kinds', NEW r \in Requests, Arrive(r) \/ Fail(r)
    PROVE  FilesOK'
<1>1. req'[r].pc \in {"idle", "lookup", "edit", "remove"}
  <2>1. ASSUME NEW u \in Users, NEW m \in Msgs,
               editMessage(r, u, m) \/ deleteMessage(r, u, m)
        PROVE  req'[r].pc \in {"edit", "remove"}
    <3>1. PICK pc \in {"edit", "remove"} :
            req' = [req EXCEPT ![r] = [Idle EXCEPT !.pc = pc, !.user = u, !.msg = m]]
      BY <2>1 DEF editMessage, deleteMessage
    <3> QED BY <3>1 DEF TypeOK, Idle
  <2>2. ASSUME NEW u \in Users, NEW kind \in Kind, NEW key \in Keys \cup {NoKey},
               NEW f \in Files \cup {NoFile}, authorizeSend(r, u, kind, key, f)
        PROVE  req'[r].pc = "lookup"
    BY <2>2 DEF authorizeSend, TypeOK, Idle
  <2>3. CASE Fail(r)
    BY <2>3, DoneHolds DEF Fail
  <2> QED BY <2>1, <2>2, <2>3 DEF Arrive
<1>2. ROwn(r)' = {} /\ RVid(r)' = {} /\ req'[r].pc # "insert"
  BY <1>1, IdleHolds
<1>3. UNCHANGED <<message, stored, issued, videos, again, shown>>
  BY DEF Arrive, Fail, authorizeSend, editMessage, deleteMessage, history
<1>4. stored' = stored \ {}
  BY <1>3
<1>5. \A q \in Requests \ {r} : req'[q] = req[q]
  BY OthersKept
<1>6. \A m \in Msgs : Kept(m)
  BY <1>3, SameKept
<1> QED BY <1>2, <1>3, <1>4, <1>5, <1>6, Quiet

\* getAsset finds the video.
LEMMA AssetFiles ==
    ASSUME TypeOK, FilesOK, Kinds', NEW r \in Requests, getAsset(r),
           req[r].file \in stored
    PROVE  FilesOK'
<1> DEFINE f == req[r].file
<1>1. /\ req[r].pc = "asset" /\ req[r].kind = "VIDEO" /\ f \in Files
      /\ again' = (IF shown[f] = {} THEN again ELSE again \cup {f})
      /\ shown' = [shown EXCEPT ![f] = shown[f] \cup {req[r].key}]
      /\ UNCHANGED <<message, stored, issued, videos>>
  BY DEF getAsset, FilesOK, Kinds, TypeOK
<1>2. /\ req'[r].pc = "poster" /\ req'[r].kind = "VIDEO" /\ req'[r].file = f
      /\ \A q \in Requests \ {r} : req'[q] = req[q]
  BY <1>1 DEF getAsset, Goto, TypeOK, Request
<1>3. ROwn(r)' = {} /\ RVid(r)' = {f} /\ ROwn(r) = {} /\ RVid(r) = {}
  BY <1>1, <1>2 DEF ROwn, RVid, Video
<1>4. \A q \in Requests \ {r} : ROwn(q)' = ROwn(q) /\ RVid(q)' = RVid(q)
  BY <1>2, SameHolding
<1>5. \A m \in Msgs : MOwn(m)' = MOwn(m) /\ MVid(m)' = MVid(m) /\ Live(m)' = Live(m)
  BY <1>1 DEF MOwn, MVid, Own, Video, Row, Live
<1>6. /\ again \subseteq again' /\ f \in stored'
      /\ \A g \in Files : shown[g] # {} => shown'[g] # {}
      /\ shown'[f] # {} /\ (shown[f] # {} => f \in again')
  BY <1>1 DEF TypeOK
<1>7. /\ \A q \in Requests : RVid(q) \subseteq Files
      /\ \A m \in Msgs : MVid(m) \subseteq Files
  BY VideosAreFiles DEF FilesOK
<1>8. Names'
  BY <1>1, <1>3, <1>4, <1>5 DEF FilesOK, Names
<1>9. Apart'
  <2>1. ASSUME NEW p \in Requests, NEW q \in Requests, p # q
        PROVE  ROwn(p)' \cap ROwn(q)' = {} /\ RVid(p)' \cap RVid(q)' \subseteq again'
    BY <1>3, <1>4, <1>6, <2>1 DEF FilesOK, Apart, Shown
  <2>2. ASSUME NEW q \in Requests, NEW m \in Msgs
        PROVE  ROwn(q)' \cap MOwn(m)' = {} /\ RVid(q)' \cap MVid(m)' \subseteq again'
    BY <1>3, <1>4, <1>5, <1>6 DEF FilesOK, Apart, Shown
  <2>3. ASSUME NEW m \in Msgs, NEW n \in Msgs, m # n
        PROVE  MOwn(m)' \cap MOwn(n)' = {} /\ MVid(m)' \cap MVid(n)' \subseteq again'
    BY <1>5, <1>6, <2>3 DEF FilesOK, Apart
  <2> QED BY <2>1, <2>2, <2>3 DEF Apart
<1>10. Shown'
  BY <1>3, <1>4, <1>5, <1>6, <1>7 DEF FilesOK, Shown
<1>11. Safe'
  BY <1>1, <1>2, <1>3, <1>4, <1>5, <1>6 DEF FilesOK, Safe
<1> QED BY <1>8, <1>9, <1>10, <1>11 DEF FilesOK

\* A message takes over what its handler holds.
LEMMA InsertFiles ==
    ASSUME TypeOK, FilesOK, Kinds', NEW r \in Requests, NEW m \in Msgs, Inserted(r, m)
    PROVE  FilesOK'
<1>1. /\ req[r].pc = "insert" /\ ~Row(m) /\ req'[r].pc = "publish"
      /\ UNCHANGED <<stored, issued, videos, again, shown>>
      /\ \A q \in Requests \ {r} : req'[q] = req[q]
      /\ \A n \in Msgs \ {m} : message'[n] = message[n]
  BY DEF Inserted, insertMessage, history, TypeOK, Request
<1>2. /\ message'[m].kind = req[r].kind /\ message'[m].file = req[r].file
      /\ message'[m].poster = req[r].poster /\ message'[m].state = "live"
  BY DEF Inserted, TypeOK
<1>3. /\ ROwn(r)' = {} /\ RVid(r)' = {}
      /\ MOwn(m)' = ROwn(r) /\ MVid(m)' = RVid(r)
  BY <1>1, <1>2 DEF ROwn, RVid, MOwn, MVid, Own, Video, Row
<1>4. \A q \in Requests \ {r} : ROwn(q)' = ROwn(q) /\ RVid(q)' = RVid(q)
  BY <1>1, SameHolding
<1>5. \A n \in Msgs \ {m} : MOwn(n)' = MOwn(n) /\ MVid(n)' = MVid(n) /\ Live(n)' = Live(n)
  BY <1>1 DEF MOwn, MVid, Own, Video, Row, Live
<1>6. Names'
  BY <1>1, <1>3, <1>4, <1>5 DEF FilesOK, Names
<1>7. Apart'
  <2>1. ASSUME NEW p \in Requests, NEW q \in Requests, p # q
        PROVE  ROwn(p)' \cap ROwn(q)' = {} /\ RVid(p)' \cap RVid(q)' \subseteq again'
    BY <1>1, <1>3, <1>4, <2>1 DEF FilesOK, Apart
  <2>2. ASSUME NEW q \in Requests, NEW n \in Msgs
        PROVE  ROwn(q)' \cap MOwn(n)' = {} /\ RVid(q)' \cap MVid(n)' \subseteq again'
    <3>1. CASE q = r
      BY <1>3, <3>1
    <3>2. CASE q # r
      BY <1>1, <1>3, <1>4, <1>5, <3>2 DEF FilesOK, Apart
    <3> QED BY <3>1, <3>2
  <2>3. ASSUME NEW n \in Msgs, NEW o \in Msgs, n # o
        PROVE  MOwn(n)' \cap MOwn(o)' = {} /\ MVid(n)' \cap MVid(o)' \subseteq again'
    BY <1>1, <1>3, <1>5, <2>3 DEF FilesOK, Apart
  <2> QED BY <2>1, <2>2, <2>3 DEF Apart
<1>8. Shown'
  BY <1>1, <1>3, <1>4, <1>5 DEF FilesOK, Shown
<1>9. Safe'
  BY <1>1, <1>3, <1>4, <1>5 DEF FilesOK, Safe
<1> QED BY <1>6, <1>7, <1>8, <1>9 DEF FilesOK

\* Only insertMessage makes a message.
LEMMA StepKeeps ==
    ASSUME TypeOK, Targets, NEW r \in Requests, Step(r), ~insertMessage(r)
    PROVE  \A m \in Msgs : Kept(m)
<1>1. ASSUME NEW q \in Requests, NEW m \in Msgs, Inserted(q, m)
      PROVE  q = r
  <2>1. req'[q].pc = "publish" /\ req[q].pc = "insert"
    BY <1>1 DEF Inserted, insertMessage, TypeOK, Request
  <2> QED BY <2>1, OthersKept
<1>2. [Next]_vars
  BY DEF Next
<1> QED BY <1>1, <1>2, MessageStep DEF Inserted

LEMMA StepFiles ==
    ASSUME TypeOK, TypeOK', Targets, FilesOK, Kinds', NEW r \in Requests, Step(r)
    PROVE  FilesOK'
<1>1. \A q \in Requests \ {r} : req'[q] = req[q]
  BY OthersKept
<1>2. CASE insertMessage(r)
  BY <1>2, InsertFiles DEF insertMessage, Inserted
<1>3. CASE ~insertMessage(r)
  <2>1. \A m \in Msgs : Kept(m)
    BY <1>3, StepKeeps
  <2>2. ASSUME Done(r), stored' = stored, UNCHANGED <<issued, videos, again, shown>>
        PROVE  FilesOK'
    <3>1. stored' = stored \ {} /\ again' = again /\ shown' = shown
      BY <2>2
    <3> QED BY <2>1, <2>2, <3>1, DoneHolds, Quiet
  <2>3. ASSUME NEW pc, Goto(r, pc), stored' = stored,
               UNCHANGED <<issued, videos, again, shown>>,
               \/ pc \notin {"poster", "insert", "conflict", "drop"}
               \/ req[r].pc = "insert" /\ pc \in {"conflict", "drop"}
               \/ req[r].pc = "poster" /\ pc = "insert"
               \/ req[r].pc = "lookup" /\ req[r].kind = "TEXT" /\ pc = "insert"
        PROVE  FilesOK'
    <3>1. stored' = stored \ {} /\ again' = again /\ shown' = shown
      BY <2>3
    <3>2. /\ req'[r].pc = pc /\ req'[r].kind = req[r].kind
          /\ req'[r].file = req[r].file /\ req'[r].poster = req[r].poster
      BY <2>3 DEF Goto, TypeOK, Request
    <3>3. RVid(r)' \subseteq RVid(r)
      BY <2>3, <3>2 DEF RVid, Video
    <3>4. /\ ROwn(r)' \subseteq ROwn(r)
          /\ pc = "insert" => ROwn(r)' = {}
      BY <2>3, <3>2 DEF ROwn, Own, FilesOK, Kinds
    <3> QED BY <1>1, <2>1, <2>3, <3>1, <3>2, <3>3, <3>4, Quiet
  <2>4. CASE findIdempotentMessage(r)
    <3>1. CASE Done(r)
      BY <2>2, <2>4, <3>1 DEF findIdempotentMessage, history
    <3>2. CASE ~Done(r)
      <4>1. PICK pc \in {"insert", "quota", "asset"} :
              Goto(r, pc) /\ (pc = "insert" => req[r].kind = "TEXT")
        <5>1. req[r].kind \in Kind
          BY DEF TypeOK, Request
        <5> QED BY <2>4, <3>2, <5>1 DEF findIdempotentMessage, Kind
      <4> QED BY <2>3, <2>4, <4>1 DEF findIdempotentMessage, history
    <3> QED BY <3>1, <3>2
  <2>5. CASE assertQuotaAvailable(r)
    BY <2>2, <2>3, <2>5 DEF assertQuotaAvailable, history
  <2>6. CASE getAsset(r)
    <3>1. CASE req[r].file \in stored
      BY <2>6, <3>1, AssetFiles
    <3>2. CASE req[r].file \notin stored
      BY <2>2, <2>6, <3>2 DEF getAsset
    <3> QED BY <3>1, <3>2
  <2>7. CASE QuotaExceeded(r) \/ UniqueViolation(r) \/ InsertError(r)
    BY <2>2, <2>3, <2>7 DEF QuotaExceeded, UniqueViolation, InsertError, history
  <2>8. CASE publishMessage(r) \/ editMessageContent(r)
    BY <2>2, <2>8 DEF publishMessage, editMessageContent, history
  <2>9. CASE softDeleteMessage(r)
    BY <2>3, <2>9 DEF softDeleteMessage, history
  <2>10. CASE uploadMedia(r)
    <3>1. PICK f \in Files \ issued :
            /\ issued' = issued \cup {f} /\ stored' = stored \cup {f}
            /\ req' = [req EXCEPT ![r].pc = "insert", ![r].file = f]
      BY <2>10 DEF uploadMedia
    <3>2. req[r].kind = "MEDIA" /\ req[r].poster = NoFile
      BY <2>10 DEF uploadMedia, FilesOK, Kinds
    <3>3. /\ req'[r].pc = "insert" /\ req'[r].file = f
          /\ req'[r].kind = "MEDIA" /\ req'[r].poster = NoFile
      BY <3>1, <3>2 DEF TypeOK, Request
    <3>4. f # NoFile
      BY NullsAssumption
    <3>5. ROwn(r)' = {f} /\ RVid(r)' = {}
      BY <3>3, <3>4 DEF ROwn, RVid, Own, Video
    <3>6. UNCHANGED <<videos, again, shown>>
      BY <2>10 DEF uploadMedia, history
    <3> QED BY <1>1, <2>1, <3>1, <3>5, <3>6, Fresh
  <2>11. CASE uploadPoster(r)
    <3>1. UNCHANGED <<videos, again, shown>> /\ req[r].pc = "poster"
      BY <2>11 DEF uploadPoster, history
    <3>2. CASE Goto(r, "insert") /\ UNCHANGED <<stored, issued>>
      BY <2>3, <3>1, <3>2
    <3>3. ASSUME NEW f \in Files \ issued,
                 issued' = issued \cup {f} /\ stored' = stored \cup {f},
                 req' = [req EXCEPT ![r].pc = "insert", ![r].poster = f]
          PROVE  FilesOK'
      <4>1. req[r].kind = "VIDEO" /\ f # NoFile
        BY <3>1, NullsAssumption DEF FilesOK, Kinds
      <4>2. /\ req'[r].pc = "insert" /\ req'[r].file = req[r].file
            /\ req'[r].kind = "VIDEO" /\ req'[r].poster = f
        BY <3>3, <4>1 DEF TypeOK, Request
      <4>3. ROwn(r)' = {f} /\ RVid(r)' \subseteq RVid(r)
        BY <3>1, <4>1, <4>2 DEF ROwn, RVid, Own, Video
      <4> QED BY <1>1, <2>1, <3>1, <3>3, <4>3, Fresh
    <3> QED BY <2>11, <3>2, <3>3 DEF uploadPoster
  <2>12. CASE dropMedia(r) \/ resolveIdempotencyConflict(r)
    <3>1. PICK D \in SUBSET {req[r].file, req[r].poster} : stored' = stored \ D
      <4>1. CASE dropMedia(r)
        BY <4>1 DEF dropMedia
      <4>2. CASE resolveIdempotencyConflict(r)
        <5> DEFINE D == CASE req[r].kind = "TEXT" -> {}
                          [] req[r].kind = "MEDIA" -> {req[r].file}
                          [] OTHER -> {req[r].poster}
        <5>1. D \in SUBSET {req[r].file, req[r].poster}
          OBVIOUS
        <5> QED BY <4>2, <5>1 DEF resolveIdempotencyConflict
      <4> QED BY <2>12, <4>1, <4>2
    <3>2. D \subseteq ROwn(r) \cup RVid(r) \cup {NoFile}
      BY <2>12, <3>1, Holds DEF dropMedia, resolveIdempotencyConflict, FilesOK
    <3>3. Done(r) /\ UNCHANGED <<issued, videos, again, shown>>
      BY <2>12 DEF dropMedia, resolveIdempotencyConflict, history
    <3> QED BY <2>1, <3>1, <3>2, <3>3, DoneHolds, Quiet
  <2>13. CASE deleteAttachments(r)
    <3>0. PICK m \in Msgs : m = req[r].msg
      BY <2>13 DEF deleteAttachments, TypeOK
    <3>1. Row(m) /\ ~Live(m)
      BY <2>13, <3>0 DEF deleteAttachments, Targets
    <3>4. PICK D : D = {message[m].file, message[m].poster}
      OBVIOUS
    <3>2. D \subseteq MOwn(m) \cup MVid(m) \cup {NoFile} /\ ~Live(m)'
      BY <2>1, <3>1, <3>4, Holds DEF FilesOK, Kept
    <3>3. /\ Done(r) /\ UNCHANGED <<issued, videos, again, shown>>
          /\ stored' = stored \ D
      BY <2>13, <3>0, <3>4 DEF deleteAttachments, history
    <3> QED BY <2>1, <3>1, <3>2, <3>3, DoneHolds, Quiet
  <2> QED
    BY <1>3, <2>4, <2>5, <2>6, <2>7, <2>8, <2>9, <2>10, <2>11, <2>12, <2>13
       DEF Step, Insert
<1> QED BY <1>2, <1>3

LEMMA FilesStep == TypeOK /\ Targets /\ FilesOK /\ [Next]_vars => FilesOK'
<1> SUFFICES ASSUME TypeOK, Targets, FilesOK, [Next]_vars PROVE FilesOK'
  OBVIOUS
<1>1. TypeOK' /\ Kinds'
  BY TypeStep, KindsStep DEF FilesOK
<1>2. CASE UNCHANGED vars \/ \E to \in Standings : ChangeRole(to)
  <2>1. UNCHANGED <<message, stored, issued, videos, req, shown, again>>
    BY <1>2 DEF vars, ChangeRole, history
  <2>2. /\ \A r \in Requests : ROwn(r)' = ROwn(r) /\ RVid(r)' = RVid(r)
        /\ \A m \in Msgs : /\ MOwn(m)' = MOwn(m) /\ MVid(m)' = MVid(m)
                            /\ Live(m)' = Live(m)
    BY <2>1 DEF ROwn, RVid, MOwn, MVid, Own, Video, Row, Live
  <2>3. Names'
    BY <2>1, <2>2 DEF FilesOK, Names
  <2>4. Apart' /\ Shown'
    BY <2>1, <2>2 DEF FilesOK, Apart, Shown
  <2>5. Safe'
    BY <2>1, <2>2 DEF FilesOK, Safe
  <2> QED BY <1>1, <2>3, <2>4, <2>5 DEF FilesOK
<1>3. ASSUME NEW u \in Users, NEW f \in Files, createVideoUploadSignature(u, f)
      PROVE  FilesOK'
  <2>1. /\ f \notin issued /\ UNCHANGED <<message, req, shown, again>>
        /\ issued' = issued \cup {f} /\ videos' = videos \cup {f}
        /\ stored' = stored \cup {f}
    BY <1>3 DEF createVideoUploadSignature, history
  <2>2. /\ \A r \in Requests : ROwn(r)' = ROwn(r) /\ RVid(r)' = RVid(r)
        /\ \A m \in Msgs : /\ MOwn(m)' = MOwn(m) /\ MVid(m)' = MVid(m)
                            /\ Live(m)' = Live(m)
    BY <2>1 DEF ROwn, RVid, MOwn, MVid, Own, Video, Row, Live
  <2>3. Names'
    BY <2>1, <2>2 DEF FilesOK, Names
  <2>4. Apart' /\ Shown'
    BY <2>1, <2>2 DEF FilesOK, Apart, Shown
  <2>5. Safe'
    BY <2>1, <2>2 DEF FilesOK, Safe
  <2> QED BY <1>1, <2>3, <2>4, <2>5 DEF FilesOK
<1>4. ASSUME NEW r \in Requests, Arrive(r) \/ Fail(r) PROVE FilesOK'
  BY <1>1, <1>4, ArriveFiles
<1>5. ASSUME NEW r \in Requests, Step(r) PROVE FilesOK'
  BY <1>1, <1>5, StepFiles
<1> QED BY <1>2, <1>3, <1>4, <1>5, Cases

\* What a message that is still shown points to is in the store, but for a
\* video that was presented more than once: no handler deletes a file that
\* another one, or a message still shown, holds.
THEOREM MediaStays == Spec => []LiveMediaStored
<1>1. TypeOK /\ FilesOK => LiveMediaStored
  <2> SUFFICES ASSUME TypeOK, FilesOK, NEW m \in Msgs, Live(m)
               PROVE  /\ message[m].poster \in stored \cup {NoFile}
                      /\ message[m].file \in stored \cup again \cup {NoFile}
    BY DEF LiveMediaStored
  <2>1. Row(m)
    BY DEF Row, Live
  <2>2. {message[m].file, message[m].poster} \subseteq MOwn(m) \cup MVid(m) \cup {NoFile}
    BY <2>1, Holds DEF FilesOK
  <2>3. MOwn(m) \subseteq stored /\ MVid(m) \subseteq stored \cup again
    BY DEF FilesOK, Safe
  <2>4. message[m].poster \in stored \cup {NoFile}
    BY <2>1, <2>3 DEF MOwn, Own
  <2> QED BY <2>2, <2>3, <2>4
<1> QED BY <1>1, FilesInit, FilesStep, TypeInit, TypeStep, TargetsInit, TargetsStep,
           PTL DEF Spec

-----------------------------------------------------------------------------
(* Nothing is kept for nobody.                                             *)

\* A handler is about to delete the files of m.
Deleting(m) == \E r \in Requests : req[r].pc = "media" /\ req[r].msg = m

\* Somebody who will clean up, or a message still shown, holds f.
Owned(f) ==
    \/ \E m \in Msgs : f \in MOwn(m) /\ (Live(m) \/ Deleting(m))
    \/ \E r \in Requests : f \in ROwn(r)

Bare(m) == {message[m].file, message[m].poster} \cap stored = {}

\* Only a video has a poster.
Posters == \A r \in Requests : req[r].kind # "VIDEO" => req[r].poster = NoFile

\* As long as no handler is cut short, what the server uploaded has an owner,
\* and the files of a deleted message are gone or about to go.
Owners ==
    clean => /\ \A f \in stored \ videos : Owned(f)
             /\ \A m \in Msgs : message[m].state = "deleted" => Bare(m) \/ Deleting(m)

LEMMA PostersStep ==
    ASSUME TypeOK, Kinds, Posters, [Next]_vars
    PROVE  Posters'
<1> SUFFICES ASSUME NEW r \in Requests, req'[r].kind # "VIDEO"
             PROVE  req'[r].poster = NoFile
  BY DEF Posters
<1>1. CASE req'[r] = req[r]
  BY <1>1 DEF Posters
<1>2. CASE Arrive(r)
  <2>1. ASSUME NEW u \in Users, NEW m \in Msgs,
               editMessage(r, u, m) \/ deleteMessage(r, u, m)
        PROVE  req'[r].poster = NoFile
    <3>1. PICK pc \in {"edit", "remove"} :
            req' = [req EXCEPT ![r] = [Idle EXCEPT !.pc = pc, !.user = u, !.msg = m]]
      BY <2>1 DEF editMessage, deleteMessage
    <3> QED BY <3>1 DEF TypeOK, Idle
  <2>2. ASSUME NEW u \in Users, NEW kind \in Kind, NEW key \in Keys \cup {NoKey},
               NEW f \in Files \cup {NoFile}, authorizeSend(r, u, kind, key, f)
        PROVE  req'[r].poster = NoFile
    BY <2>2 DEF authorizeSend, TypeOK, Idle
  <2> QED BY <1>2, <2>1, <2>2 DEF Arrive
<1>3. CASE Step(r) \/ Fail(r)
  <2>0. req[r] \in Request /\ (req[r].kind # "VIDEO" => req[r].poster = NoFile)
    BY DEF TypeOK, Posters
  <2>1. CASE Done(r)
    BY <2>1 DEF Done, TypeOK, Idle
  <2>2. ASSUME NEW pc, Goto(r, pc) PROVE req'[r].poster = NoFile
    <3>1. req'[r].kind = req[r].kind /\ req'[r].poster = req[r].poster
      BY <2>0, <2>2 DEF Goto, TypeOK, Request
    <3> QED BY <2>0, <3>1
  <2>3. CASE uploadMedia(r)
    BY <2>0, <2>3 DEF uploadMedia, TypeOK, Request
  <2>4. CASE uploadPoster(r)
    <3>1. req[r].kind = "VIDEO"
      BY <2>4 DEF uploadPoster, Kinds
    <3>2. req'[r].kind = req[r].kind
      BY <2>0, <2>4 DEF uploadPoster, Goto, TypeOK, Request
    <3> QED BY <3>1, <3>2
  <2>5. CASE insertMessage(r)
    BY <2>0, <2>5 DEF insertMessage, TypeOK, Request
  <2> QED
    BY <1>3, <2>1, <2>2, <2>3, <2>4, <2>5
       DEF Step, Fail, Insert, dropMedia, resolveIdempotencyConflict, publishMessage,
           editMessageContent, deleteAttachments, findIdempotentMessage,
           assertQuotaAvailable, getAsset, QuotaExceeded, UniqueViolation, InsertError,
           softDeleteMessage
<1>4. ASSUME NEW q \in Requests \ {r}, Arrive(q) \/ Step(q) \/ Fail(q)
      PROVE  req'[r] = req[r]
  BY <1>4, OthersKept
<1> QED
  BY <1>1, <1>2, <1>3, <1>4, Cases DEF vars, ChangeRole, createVideoUploadSignature

\* The files of a message have been issued.
LEMMA MessageFiles ==
    ASSUME TypeOK, FilesOK, NEW m \in Msgs, Row(m)
    PROVE  {message[m].file, message[m].poster} \subseteq issued \cup {NoFile}
<1>1. {message[m].file, message[m].poster} \subseteq MOwn(m) \cup MVid(m) \cup {NoFile}
  BY Holds DEF FilesOK
<1>2. MOwn(m) \subseteq issued
  BY DEF FilesOK, Names
<1>3. MVid(m) \subseteq videos /\ videos \subseteq issued
  BY VideosAreFiles DEF FilesOK, TypeOK
<1> QED BY <1>1, <1>2, <1>3

\* A step of r that deletes what r stops holding, and what r had to delete.
LEMMA Tidied ==
    ASSUME TypeOK, Owners, NEW r \in Requests, clean' = clean,
           \A q \in Requests \ {r} : req'[q] = req[q],
           \A m \in Msgs : Kept(m),
           videos' = videos, NEW D, stored' = stored \ D,
           ROwn(r) \ D \subseteq ROwn(r)',
           \A m \in Msgs : req[r].pc = "media" /\ req[r].msg = m =>
               {message[m].file, message[m].poster} \subseteq D,
           \A m \in Msgs : Live(m) /\ ~Live(m)' => Deleting(m)'
    PROVE  Owners'
<1> SUFFICES ASSUME clean
             PROVE  /\ \A f \in stored' \ videos : Owned(f)'
                    /\ \A m \in Msgs : message'[m].state = "deleted" =>
                          Bare(m)' \/ Deleting(m)'
  BY DEF Owners
<1>1. \A m \in Msgs : /\ message'[m].file = message[m].file
                      /\ message'[m].poster = message[m].poster
                      /\ Row(m)' <=> Row(m)
                      /\ ~Live(m) => message'[m] = message[m]
  BY DEF Kept
<1>2. \A m \in Msgs : MOwn(m)' = MOwn(m)
  BY KeptHolding
<1>3. \A q \in Requests \ {r} : ROwn(q)' = ROwn(q)
  BY SameHolding
<1>4. ASSUME NEW m \in Msgs, Deleting(m)
      PROVE  Deleting(m)' \/ {message[m].file, message[m].poster} \subseteq D
  <2>1. PICK q \in Requests : req[q].pc = "media" /\ req[q].msg = m
    BY <1>4 DEF Deleting
  <2>2. CASE q = r
    BY <2>1, <2>2
  <2>3. CASE q # r
    BY <2>1, <2>3 DEF Deleting
  <2> QED BY <2>2, <2>3
<1>5. ASSUME NEW f \in stored' \ videos PROVE Owned(f)'
  <2>1. f \in stored /\ f \notin D /\ Owned(f)
    BY <1>5 DEF Owners
  <2>2. ASSUME NEW m \in Msgs, f \in MOwn(m), Live(m) \/ Deleting(m)
        PROVE  Owned(f)'
    <3>1. f \in {message[m].file, message[m].poster}
      BY <2>2 DEF MOwn, Own
    <3>2. Live(m)' \/ Deleting(m)'
      BY <1>4, <2>1, <2>2, <3>1
    <3> QED BY <1>2, <2>2, <3>2 DEF Owned
  <2>3. ASSUME NEW q \in Requests, f \in ROwn(q) PROVE Owned(f)'
    <3>1. f \in ROwn(q)'
      BY <1>3, <2>1, <2>3
    <3> QED BY <3>1 DEF Owned
  <2> QED BY <2>1, <2>2, <2>3 DEF Owned
<1>6. ASSUME NEW m \in Msgs, message'[m].state = "deleted"
      PROVE  Bare(m)' \/ Deleting(m)'
  <2>0. ~Live(m)'
    BY <1>6 DEF Live
  <2>1. CASE Live(m)
    BY <2>0, <2>1
  <2>2. CASE ~Live(m)
    <3>1. Bare(m) \/ Deleting(m)
      BY <1>1, <1>6, <2>2 DEF Owners
    <3>2. CASE Bare(m)
      BY <1>1, <3>2 DEF Bare
    <3>3. CASE Deleting(m)
      BY <1>1, <1>4, <3>3 DEF Bare
    <3> QED BY <3>1, <3>2, <3>3
  <2> QED BY <2>1, <2>2
<1> QED BY <1>5, <1>6

\* A step of r that uploads a file under a name never used, and holds it.
LEMMA TidyUpload ==
    ASSUME TypeOK, FilesOK, Owners, NEW r \in Requests, NEW f \in Files \ issued,
           clean' = clean, \A q \in Requests \ {r} : req'[q] = req[q],
           message' = message, videos' = videos, stored' = stored \cup {f},
           ROwn(r) \cup {f} \subseteq ROwn(r)', req[r].pc # "media"
    PROVE  Owners'
<1>1. \A m \in Msgs : MOwn(m)' = MOwn(m) /\ Live(m)' = Live(m)
  BY DEF MOwn, Own, Row, Live
<1>2. \A q \in Requests : ROwn(q) \subseteq ROwn(q)'
  BY SameHolding
<1>3. \A m \in Msgs : Deleting(m) => Deleting(m)'
  BY DEF Deleting
<1>4. ASSUME NEW m \in Msgs, Row(m), Bare(m) PROVE Bare(m)'
  <2>1. f \notin {message[m].file, message[m].poster}
    BY <1>4, MessageFiles, NullsAssumption
  <2> QED BY <1>4, <2>1 DEF Bare
<1>5. ASSUME clean, NEW g \in stored' \ videos PROVE Owned(g)'
  <2>1. CASE g = f
    BY <2>1 DEF Owned
  <2>2. CASE g # f
    <3>1. Owned(g)
      BY <1>5, <2>2 DEF Owners
    <3> QED BY <1>1, <1>2, <1>3, <3>1 DEF Owned
  <2> QED BY <2>1, <2>2
<1>6. ASSUME clean, NEW m \in Msgs, message[m].state = "deleted"
      PROVE  Bare(m)' \/ Deleting(m)'
  <2>1. Row(m) /\ (Bare(m) \/ Deleting(m))
    BY <1>6 DEF Owners, Row
  <2> QED BY <1>3, <1>4, <2>1
<1> QED BY <1>5, <1>6 DEF Owners

\* A message takes over what its handler holds.
LEMMA TidyInsert ==
    ASSUME TypeOK, Owners, NEW r \in Requests, NEW m \in Msgs, Inserted(r, m)
    PROVE  Owners'
<1>1. /\ req[r].pc = "insert" /\ ~Row(m)
      /\ UNCHANGED <<stored, videos, clean>>
      /\ \A q \in Requests \ {r} : req'[q] = req[q]
      /\ \A n \in Msgs \ {m} : message'[n] = message[n]
  BY DEF Inserted, insertMessage, history, TypeOK, Request
<1>2. /\ message'[m].kind = req[r].kind /\ message'[m].file = req[r].file
      /\ message'[m].poster = req[r].poster /\ message'[m].state = "live"
  BY DEF Inserted, TypeOK
<1>3. MOwn(m)' = ROwn(r) /\ Live(m)' /\ MOwn(m) = {}
  BY <1>1, <1>2 DEF ROwn, MOwn, Own, Row, Live
<1>4. \A q \in Requests \ {r} : ROwn(q)' = ROwn(q)
  BY <1>1, SameHolding
<1>5. \A n \in Msgs \ {m} : MOwn(n)' = MOwn(n) /\ Live(n)' = Live(n) /\ Bare(n)' = Bare(n)
  BY <1>1 DEF MOwn, Own, Row, Live, Bare
<1>6. \A n \in Msgs : Deleting(n) => Deleting(n)'
  BY <1>1 DEF Deleting
<1>7. ASSUME clean, NEW f \in stored \ videos PROVE Owned(f)'
  <2>1. Owned(f)
    BY <1>7 DEF Owners
  <2>2. ASSUME NEW n \in Msgs, f \in MOwn(n), Live(n) \/ Deleting(n)
        PROVE  Owned(f)'
    <3>1. n # m
      BY <1>3, <2>2
    <3> QED BY <1>5, <1>6, <2>2, <3>1 DEF Owned
  <2>3. ASSUME NEW q \in Requests, f \in ROwn(q) PROVE Owned(f)'
    <3>1. CASE q = r
      BY <1>3, <2>3, <3>1 DEF Owned
    <3>2. CASE q # r
      BY <1>4, <2>3, <3>2 DEF Owned
    <3> QED BY <3>1, <3>2
  <2> QED BY <2>1, <2>2, <2>3 DEF Owned
<1>8. ASSUME clean, NEW n \in Msgs, message'[n].state = "deleted"
      PROVE  Bare(n)' \/ Deleting(n)'
  <2>1. n # m
    BY <1>2, <1>8
  <2>2. Bare(n) \/ Deleting(n)
    BY <1>1, <1>8, <2>1 DEF Owners
  <2> QED BY <1>5, <1>6, <2>1, <2>2
<1> QED BY <1>1, <1>7, <1>8 DEF Owners

LEMMA NothingHeld ==
    ASSUME NEW r \in Requests, req[r].pc \notin {"insert", "conflict", "drop"}
    PROVE  ROwn(r) = {}
BY DEF ROwn

LEMMA TidyArrive ==
    ASSUME TypeOK, Owners, NEW r \in Requests, Arrive(r)
    PROVE  Owners'
<1>1. req[r].pc = "idle" /\ UNCHANGED <<message, stored, videos, clean>>
  BY DEF Arrive, authorizeSend, editMessage, deleteMessage, history
<1>2. \A q \in Requests \ {r} : req'[q] = req[q]
  BY OthersKept
<1>3. \A m \in Msgs : Kept(m)
  BY <1>1, SameKept
<1>4. stored' = stored \ {} /\ ROwn(r) \ {} \subseteq ROwn(r)'
  BY <1>1, NothingHeld
<1>5. \A m \in Msgs : Live(m)' = Live(m)
  BY <1>1 DEF Live
<1> QED BY <1>1, <1>2, <1>3, <1>4, <1>5, Tidied

LEMMA TidyStep ==
    ASSUME TypeOK, Targets, FilesOK, Posters, Owners, NEW r \in Requests, Step(r)
    PROVE  Owners'
<1>1. \A q \in Requests \ {r} : req'[q] = req[q]
  BY OthersKept
<1>2. CASE insertMessage(r)
  BY <1>2, TidyInsert DEF insertMessage, Inserted
<1>3. CASE ~insertMessage(r)
  <2>0. clean' = clean /\ videos' = videos /\ req[r] \in Request
    BY <1>3 DEF Step, Insert, findIdempotentMessage, assertQuotaAvailable, uploadMedia,
         getAsset, uploadPoster, QuotaExceeded, UniqueViolation, InsertError,
         dropMedia, resolveIdempotencyConflict, publishMessage, editMessageContent,
         softDeleteMessage, deleteAttachments, history, TypeOK
  <2>1. \A m \in Msgs : Kept(m)
    BY <1>3, StepKeeps
  <2>2. ASSUME ROwn(r) \subseteq ROwn(r)', stored' = stored, req[r].pc # "media",
               \A m \in Msgs : Live(m)' = Live(m)
        PROVE  Owners'
    <3>1. stored' = stored \ {} /\ ROwn(r) \ {} \subseteq ROwn(r)'
      BY <2>2
    <3> QED BY <1>1, <2>0, <2>1, <2>2, <3>1, Tidied
  <2>3. ASSUME UNCHANGED <<message, stored>>, req[r].pc # "media", ROwn(r) = {}
        PROVE  Owners'
    <3>1. \A m \in Msgs : Live(m)' = Live(m)
      BY <2>3 DEF Live
    <3> QED BY <2>2, <2>3, <3>1
  <2>4. CASE findIdempotentMessage(r) \/ assertQuotaAvailable(r) \/ getAsset(r)
             \/ publishMessage(r)
    BY <2>3, <2>4, NothingHeld DEF findIdempotentMessage, assertQuotaAvailable, getAsset,
         publishMessage
  <2>5. CASE editMessageContent(r)
    <3>1. req[r].pc = "edit" /\ stored' = stored
      BY <2>5 DEF editMessageContent
    <3>2. ASSUME NEW m \in Msgs PROVE Live(m)' = Live(m)
      <4>1. message[m] \in Message
        BY DEF TypeOK
      <4> QED BY <2>5, <4>1 DEF editMessageContent, Live, TypeOK, Message
    <3> QED BY <2>2, <3>1, <3>2, NothingHeld
  <2>6. ASSUME NEW pc \in {"conflict", "drop"}, Goto(r, pc), req[r].pc = "insert",
               UNCHANGED <<message, stored>>
        PROVE  Owners'
    <3>1. /\ req'[r].pc = pc /\ req'[r].kind = req[r].kind
          /\ req'[r].file = req[r].file /\ req'[r].poster = req[r].poster
      BY <2>0, <2>6 DEF Goto, TypeOK, Request
    <3>2. ROwn(r)' = ROwn(r)
      BY <2>6, <3>1 DEF ROwn, Own
    <3>3. \A m \in Msgs : Live(m)' = Live(m)
      BY <2>6 DEF Live
    <3> QED BY <2>2, <2>6, <3>2, <3>3
  <2>7. CASE QuotaExceeded(r) \/ UniqueViolation(r)
    BY <2>6, <2>7 DEF QuotaExceeded, UniqueViolation
  <2>8. CASE InsertError(r)
    <3>1. CASE req[r].kind = "TEXT"
      <4>1. ROwn(r) = {}
        BY <3>1 DEF ROwn, Own, Posters
      <4> QED BY <2>3, <2>8, <4>1 DEF InsertError
    <3>2. CASE req[r].kind # "TEXT"
      BY <2>6, <2>8, <3>2 DEF InsertError
    <3> QED BY <3>1, <3>2
  <2>9. CASE softDeleteMessage(r)
    <3>1. PICK m \in Msgs : m = req[r].msg
      BY <2>9 DEF softDeleteMessage, TypeOK
    <3>2. /\ req[r].pc = "remove" /\ stored' = stored
          /\ \A n \in Msgs \ {m} : message'[n] = message[n]
      BY <2>9, <3>1 DEF softDeleteMessage, TypeOK
    <3>3. req'[r].pc = "media" /\ req'[r].msg = m
      BY <2>0, <2>9, <3>1 DEF softDeleteMessage, Goto, TypeOK, Request
    <3>4. \A n \in Msgs : Live(n) /\ ~Live(n)' => Deleting(n)'
      BY <3>2, <3>3 DEF Deleting, Live
    <3>5. stored' = stored \ {} /\ ROwn(r) \ {} \subseteq ROwn(r)'
      BY <3>2, NothingHeld
    <3> QED BY <1>1, <2>0, <2>1, <3>2, <3>4, <3>5, Tidied
  <2>10. CASE uploadMedia(r)
    <3>1. PICK f \in Files \ issued :
            /\ stored' = stored \cup {f}
            /\ req' = [req EXCEPT ![r].pc = "insert", ![r].file = f]
      BY <2>10 DEF uploadMedia
    <3>2. req[r].kind = "MEDIA" /\ req[r].pc = "upload" /\ message' = message
      BY <2>10 DEF uploadMedia, FilesOK, Kinds
    <3>3. req'[r].pc = "insert" /\ req'[r].file = f /\ req'[r].kind = "MEDIA"
      BY <3>1, <3>2 DEF TypeOK, Request
    <3>4. ROwn(r) \cup {f} \subseteq ROwn(r)'
      BY <3>2, <3>3, NothingHeld, NullsAssumption DEF ROwn, Own
    <3> QED BY <1>1, <2>0, <3>1, <3>2, <3>4, TidyUpload
  <2>11. CASE uploadPoster(r)
    <3>1. req[r].pc = "poster" /\ message' = message
      BY <2>11 DEF uploadPoster
    <3>2. CASE stored' = stored
      BY <2>3, <3>1, <3>2, NothingHeld
    <3>3. ASSUME NEW f \in Files \ issued, stored' = stored \cup {f},
                 req' = [req EXCEPT ![r].pc = "insert", ![r].poster = f]
          PROVE  Owners'
      <4>1. req'[r].pc = "insert" /\ req'[r].poster = f
        BY <2>0, <3>3 DEF TypeOK, Request
      <4>2. ROwn(r) \cup {f} \subseteq ROwn(r)'
        BY <3>1, <4>1, NothingHeld, NullsAssumption DEF ROwn, Own
      <4> QED BY <1>1, <2>0, <3>1, <3>3, <4>2, TidyUpload
    <3> QED BY <2>11, <3>2, <3>3 DEF uploadPoster
  <2>12. CASE dropMedia(r) \/ resolveIdempotencyConflict(r)
    <3>1. PICK D : stored' = stored \ D /\ ROwn(r) \subseteq D
      <4>1. CASE dropMedia(r)
        <5>1. ROwn(r) \subseteq {req[r].file, req[r].poster}
          BY DEF ROwn, Own
        <5> QED BY <4>1, <5>1 DEF dropMedia
      <4>2. CASE resolveIdempotencyConflict(r)
        <5> DEFINE D == CASE req[r].kind = "TEXT" -> {}
                          [] req[r].kind = "MEDIA" -> {req[r].file}
                          [] OTHER -> {req[r].poster}
        <5>1. ROwn(r) \subseteq D
          <6>1. req[r].kind # "VIDEO" => req[r].poster = NoFile
            BY DEF Posters
          <6>2. req[r].kind \in Kind
            BY <2>0 DEF Request
          <6> QED BY <6>1, <6>2 DEF ROwn, Own, Kind
        <5> QED BY <4>2, <5>1 DEF resolveIdempotencyConflict
      <4> QED BY <2>12, <4>1, <4>2
    <3>2. message' = message /\ req[r].pc # "media"
      BY <2>12 DEF dropMedia, resolveIdempotencyConflict
    <3>3. \A m \in Msgs : Live(m)' = Live(m)
      BY <3>2 DEF Live
    <3>4. ROwn(r) \ D \subseteq ROwn(r)'
      BY <3>1
    <3> QED BY <1>1, <2>0, <2>1, <3>1, <3>2, <3>3, <3>4, Tidied
  <2>13. CASE deleteAttachments(r)
    <3>1. PICK m \in Msgs : m = req[r].msg
      BY <2>13 DEF deleteAttachments, TypeOK
    <3>2. PICK D : D = {message[m].file, message[m].poster}
      OBVIOUS
    <3>3. stored' = stored \ D /\ message' = message /\ req[r].pc = "media"
      BY <2>13, <3>1, <3>2 DEF deleteAttachments
    <3>4. \A n \in Msgs : Live(n)' = Live(n)
      BY <3>3 DEF Live
    <3>5. ROwn(r) \ D \subseteq ROwn(r)'
      BY <3>3, NothingHeld
    <3> QED BY <1>1, <2>0, <2>1, <3>1, <3>2, <3>3, <3>4, <3>5, Tidied
  <2> QED
    BY <1>3, <2>4, <2>5, <2>7, <2>8, <2>9, <2>10, <2>11, <2>12, <2>13
       DEF Step, Insert
<1> QED BY <1>2, <1>3

LEMMA OwnersStep ==
    TypeOK /\ Targets /\ FilesOK /\ Posters /\ Owners /\ [Next]_vars => Owners'
<1> SUFFICES ASSUME TypeOK, Targets, FilesOK, Posters, Owners, [Next]_vars
             PROVE  Owners'
  OBVIOUS
<1>1. CASE UNCHANGED vars \/ \E to \in Standings : ChangeRole(to)
  <2>1. UNCHANGED <<message, stored, videos, req, clean>>
    BY <1>1 DEF vars, ChangeRole, history
  <2> QED BY <2>1 DEF Owners, Owned, Bare, Deleting, ROwn, MOwn, Own, Row, Live
<1>2. ASSUME NEW u \in Users, NEW f \in Files, createVideoUploadSignature(u, f)
      PROVE  Owners'
  <2>1. /\ f \notin issued /\ UNCHANGED <<message, req, clean>>
        /\ videos' = videos \cup {f} /\ stored' = stored \cup {f}
    BY <1>2 DEF createVideoUploadSignature, history
  <2>2. \A g : Owned(g)' = Owned(g)
    BY <2>1 DEF Owned, Deleting, ROwn, MOwn, Own, Row, Live
  <2>3. \A m \in Msgs : Deleting(m)' = Deleting(m)
    BY <2>1 DEF Deleting
  <2>4. ASSUME NEW m \in Msgs, Row(m), Bare(m) PROVE Bare(m)'
    <3>1. f \notin {message[m].file, message[m].poster}
      BY <2>1, <2>4, MessageFiles, NullsAssumption
    <3> QED BY <2>1, <2>4, <3>1 DEF Bare
  <2> QED BY <2>1, <2>2, <2>3, <2>4 DEF Owners, Row
<1>3. ASSUME NEW r \in Requests, Arrive(r) PROVE Owners'
  BY <1>3, TidyArrive
<1>4. ASSUME NEW r \in Requests, Step(r) PROVE Owners'
  BY <1>4, TidyStep
<1>5. ASSUME NEW r \in Requests, Fail(r) PROVE Owners'
  BY <1>5 DEF Fail, Owners
<1> QED BY <1>1, <1>2, <1>3, <1>4, <1>5, Cases

\* When nothing is in flight, no handler was cut short and no delete failed,
\* what the server uploaded belongs to a message still shown, and a deleted
\* message keeps no file: the quota and conflict paths delete their uploads,
\* and deleteMessage its attachments.
THEOREM NothingIsLeft == Spec => []NoOrphans
<1>1. Init => Posters /\ Owners
  <2> SUFFICES ASSUME Init PROVE Posters /\ Owners
    OBVIOUS
  <2>1. \A r \in Requests : req[r].poster = NoFile
    BY DEF Init, Idle
  <2>2. \A m \in Msgs : message[m].state = "none"
    BY DEF Init, NoMessage
  <2> QED BY <2>1, <2>2 DEF Init, Posters, Owners
<1>2. TypeOK /\ Targets /\ FilesOK /\ Posters /\ [Next]_vars => Posters'
  BY PostersStep DEF FilesOK
<1>3. Owners => NoOrphans
  <2> SUFFICES ASSUME Owners, clean, \A r \in Requests : req[r].pc = "idle"
               PROVE  /\ \A f \in stored \ videos :
                           \E m \in Msgs : /\ Live(m)
                                           /\ f \in {message[m].file, message[m].poster}
                      /\ \A m \in Msgs : message[m].state = "deleted" =>
                           {message[m].file, message[m].poster} \cap stored = {}
    BY DEF NoOrphans
  <2>1. \A m \in Msgs : ~Deleting(m)
    BY DEF Deleting
  <2>2. \A r \in Requests : ROwn(r) = {}
    BY NothingHeld
  <2>3. \A m \in Msgs : MOwn(m) \subseteq {message[m].file, message[m].poster}
    BY DEF MOwn, Own
  <2> QED BY <2>1, <2>2, <2>3 DEF Owners, Owned, Bare
<1> QED BY <1>1, <1>2, <1>3, OwnersStep, FilesInit, FilesStep, TypeInit, TypeStep,
           TargetsInit, TargetsStep, PTL DEF Spec

=============================================================================
