------------------------- MODULE PasswordResetProofs -------------------------
(***************************************************************************)
(* Proofs about PasswordReset, for any number of handlers, codes and       *)
(* attempts.                                                               *)
(***************************************************************************)
EXTENDS PasswordReset, FiniteSetTheorems, TLAPS

LEMMA Numbers ==
    /\ Cooldown \in Nat /\ CodeTtl \in Nat /\ MaxCodes \in Nat /\ MaxTime \in Nat
    /\ MaxAttempts \in Nat /\ MaxAttempts >= 1
BY NumbersAssumption

LEMMA IdleType == Idle \in Request
BY DEF Idle, Request

-----------------------------------------------------------------------------
(* Types, and what a code looks like before its use.                       *)

\* A code not used yet has not changed the password.
Unspent == \A c \in Codes : code[c].state \in {"none", "unused"} => code[c].spent = 0

LEMMA TypeInit == Init => TypeOK /\ Unspent
<1> SUFFICES ASSUME Init PROVE TypeOK /\ Unspent
  OBVIOUS
<1>1. code \in [Codes -> Code] /\ Unspent
  BY Numbers DEF Init, Code, Unspent
<1> QED BY <1>1, IdleType, Numbers DEF Init, TypeOK

LEMMA StartType ==
    ASSUME TypeOK, NEW p \in Requests, NEW c \in {0} \cup Codes,
           NEW pc \in {"create", "count", "consume"}, Start(p, pc, c)
    PROVE  TypeOK'
<1>1. [pc |-> pc, code |-> c] \in Request
  BY DEF Request
<1> QED BY <1>1 DEF Start, TypeOK

\* What the creation of code c does to each code.
LEMMA CreateStep ==
    ASSUME TypeOK, NEW p \in Requests, createCodeIfNoneActive(p)
    PROVE  /\ code' \in [Codes -> Code]
           /\ \A d \in Codes : /\ code'[d].spent = code[d].spent
                               /\ code'[d].attempts = code[d].attempts
           /\ \E c \in Codes :
                /\ NewCode(c) /\ code'[c].state = "unused"
                /\ \A d \in Codes \ {c} :
                      code'[d].state = IF code[d].state = "unused" THEN "deleted"
                                       ELSE code[d].state
<1> USE Numbers
<1>1. PICK c \in Codes :
         /\ NewCode(c)
         /\ code' = [d \in Codes |->
              IF d = c THEN [code[d] EXCEPT !.state = "unused", !.born = now]
              ELSE [code[d] EXCEPT !.state = IF @ = "unused" THEN "deleted" ELSE @]]
  BY DEF createCodeIfNoneActive
<1>2. ASSUME NEW d \in Codes \ {c}
      PROVE  /\ code'[d] \in Code
             /\ code'[d].spent = code[d].spent
             /\ code'[d].attempts = code[d].attempts
             /\ code'[d].state = IF code[d].state = "unused" THEN "deleted"
                                 ELSE code[d].state
  <2>1. code[d] \in Code
    BY DEF TypeOK
  <2>2. code'[d] = [code[d] EXCEPT !.state =
                      IF code[d].state = "unused" THEN "deleted" ELSE code[d].state]
    BY <1>1
  <2> QED BY <2>1, <2>2 DEF Code
<1>3. /\ code'[c] \in Code
      /\ code'[c].spent = code[c].spent
      /\ code'[c].attempts = code[c].attempts
      /\ code'[c].state = "unused"
  <2>1. code[c] \in Code /\ now \in 0..MaxTime
    BY DEF TypeOK
  <2>2. code'[c] = [code[c] EXCEPT !.state = "unused", !.born = now]
    BY <1>1
  <2> QED BY <2>1, <2>2 DEF Code
<1>4. code' \in [Codes -> Code]
  BY <1>1, <1>2, <1>3
<1> QED BY <1>1, <1>2, <1>3, <1>4

LEMMA TypeStep == TypeOK /\ Unspent /\ [Next]_vars => TypeOK' /\ Unspent'
<1> SUFFICES ASSUME TypeOK, Unspent, [Next]_vars PROVE TypeOK' /\ Unspent'
  OBVIOUS
<1> USE Numbers
<1>1. CASE Tick \/ UNCHANGED vars
  BY <1>1 DEF Tick, vars, TypeOK, Unspent
<1>2. CASE reconcilePasswordResetCodes
  BY <1>2 DEF reconcilePasswordResetCodes, TypeOK, Unspent, Code
<1>3. ASSUME NEW p \in Requests, Step(p) PROVE TypeOK' /\ Unspent'
  <2>1. CASE requestPasswordReset(p)
    <3>1. CASE Cooling
      BY <2>1, <3>1 DEF requestPasswordReset, vars, TypeOK, Unspent
    <3>2. CASE ~Cooling
      BY <2>1, <3>2, StartType DEF requestPasswordReset, Start, Unspent
    <3> QED BY <3>1, <3>2
  <2>2. ASSUME code' \in [Codes -> Code], Unspent', Done(p), UNCHANGED now
        PROVE  TypeOK' /\ Unspent'
    BY <2>2, IdleType DEF Done, TypeOK
  <2>3. CASE createCodeIfNoneActive(p)
    <3>1. code' \in [Codes -> Code] /\ Unspent'
      BY <2>3, CreateStep DEF NewCode, Unspent
    <3> QED BY <2>2, <2>3, <3>1 DEF createCodeIfNoneActive
  <2>4. ASSUME NEW c \in Codes, NEW right \in BOOLEAN, resetPassword(p, c, right)
        PROVE  TypeOK' /\ Unspent'
    BY <2>4, StartType DEF resetPassword, Start, Unspent
  <2>5. CASE incrementAttempts(p)
    <3>1. code' \in [Codes -> Code] /\ Unspent'
      <4>1. CASE code' = code
        BY <4>1 DEF TypeOK, Unspent
      <4>2. CASE code' = [code EXCEPT ![req[p].code].attempts = @ + 1]
        <5>1. ASSUME NEW c \in Codes
              PROVE  [code[c] EXCEPT !.attempts = @ + 1] \in Code
          BY DEF TypeOK, Code
        <5> QED BY <4>2, <5>1 DEF TypeOK, Unspent, Code
      <4> QED BY <2>5, <4>1, <4>2 DEF incrementAttempts
    <3> QED BY <2>2, <2>5, <3>1 DEF incrementAttempts
  <2>6. CASE consumeCodeAndSetPassword(p)
    <3>1. code' \in [Codes -> Code] /\ Unspent'
      <4> DEFINE c == req[p].code
      <4>1. CASE code' = code
        BY <4>1 DEF TypeOK, Unspent
      <4>2. CASE c \notin Codes
        BY <2>6, <4>2 DEF consumeCodeAndSetPassword, TypeOK, Unspent
      <4>3. CASE c \in Codes /\ code[c].state = "unused"
        <5>1. code[c] \in Code /\ code[c].spent = 0
          BY <4>3 DEF TypeOK, Unspent
        <5>2. code' = [code EXCEPT ![c] =
                         [code[c] EXCEPT !.state = "used", !.spent = code[c].spent + 1]]
          BY <2>6, <4>3, <5>1 DEF consumeCodeAndSetPassword, Code
        <5> DEFINE s == code[c].spent + 1
        <5>3. s = 1
          BY <5>1
        <5> HIDE DEF s
        <5>4. [code[c] EXCEPT !.state = "used", !.spent = s] \in Code
          BY <5>1, <5>3 DEF Code
        <5>5. [code[c] EXCEPT !.state = "used", !.spent = s].state = "used"
          BY <5>1 DEF Code
        <5>6. code' = [code EXCEPT ![c] = [code[c] EXCEPT !.state = "used", !.spent = s]]
          BY <5>2 DEF s
        <5> QED BY <4>3, <5>4, <5>5, <5>6 DEF TypeOK, Unspent
      <4> QED BY <2>6, <4>1, <4>2, <4>3 DEF consumeCodeAndSetPassword
    <3> QED BY <2>2, <2>6, <3>1 DEF consumeCodeAndSetPassword
  <2>7. CASE Fail(p)
    BY <2>7, IdleType DEF Fail, Done, TypeOK, Unspent
  <2> QED BY <1>3, <2>1, <2>3, <2>4, <2>5, <2>6, <2>7 DEF Step
<1> QED BY <1>1, <1>2, <1>3 DEF Next

(* Every variable keeps its type: in particular no code changes the        *)
(* password twice, however the resets that present it overlap.             *)
THEOREM TypeCorrect == Spec => []TypeOK
BY TypeInit, TypeStep, PTL DEF Spec

-----------------------------------------------------------------------------
(* The order of the codes.                                                 *)

\* Codes are created in order, and each takes the place of the one before.
Ordered ==
    \A c, d \in Codes : c < d =>
        /\ code[c].state = "none" => code[d].state = "none"
        /\ code[c].state = "unused" => code[d].state = "none"

LEMMA OrderedInit == Init => Ordered
BY DEF Init, Ordered

\* Nothing but the creation of a code makes one unused.
LEMMA OrderedQuiet ==
    ASSUME Ordered,
           \A c \in Codes : /\ code'[c].state = "none" <=> code[c].state = "none"
                            /\ code'[c].state = "unused" => code[c].state = "unused"
    PROVE  Ordered'
BY DEF Ordered

LEMMA CodeStep ==
    ASSUME TypeOK, [Next]_vars,
           ~ \E p \in Requests : createCodeIfNoneActive(p)
    PROVE  \A c \in Codes :
              /\ code'[c].state = "none" <=> code[c].state = "none"
              /\ code'[c].state = "unused" => code[c].state = "unused"
              /\ code'[c].born = code[c].born
<1>1. CASE Tick \/ UNCHANGED vars
  BY <1>1 DEF Tick, vars
<1>2. CASE reconcilePasswordResetCodes
  BY <1>2 DEF reconcilePasswordResetCodes, TypeOK, Code
<1>3. ASSUME NEW p \in Requests, Step(p), ~ createCodeIfNoneActive(p)
      PROVE  \A c \in Codes :
                /\ code'[c].state = "none" <=> code[c].state = "none"
                /\ code'[c].state = "unused" => code[c].state = "unused"
                /\ code'[c].born = code[c].born
  <2>1. CASE UNCHANGED code
    BY <2>1
  <2>2. CASE incrementAttempts(p)
    BY <2>2 DEF incrementAttempts, TypeOK, Code
  <2>3. CASE consumeCodeAndSetPassword(p)
    BY <2>3 DEF consumeCodeAndSetPassword, TypeOK, Code
  <2>4. requestPasswordReset(p) \/ Fail(p) => UNCHANGED code
    BY DEF requestPasswordReset, Start, Fail, vars
  <2>5. ASSUME NEW c \in Codes, NEW right \in BOOLEAN, resetPassword(p, c, right)
        PROVE  UNCHANGED code
    BY <2>5 DEF resetPassword, Start
  <2> QED BY <1>3, <2>1, <2>2, <2>3, <2>4, <2>5 DEF Step
<1> QED BY <1>1, <1>2, <1>3 DEF Next

LEMMA OrderedStep == TypeOK /\ Ordered /\ [Next]_vars => Ordered'
<1> SUFFICES ASSUME TypeOK, Ordered, [Next]_vars PROVE Ordered'
  OBVIOUS
<1>1. CASE ~ \E p \in Requests : createCodeIfNoneActive(p)
  BY <1>1, CodeStep, OrderedQuiet
<1>2. ASSUME NEW p \in Requests, createCodeIfNoneActive(p) PROVE Ordered'
  <2>1. PICK c \in Codes :
           /\ NewCode(c) /\ code'[c].state = "unused"
           /\ \A d \in Codes \ {c} :
                 code'[d].state = IF code[d].state = "unused" THEN "deleted"
                                  ELSE code[d].state
    BY <1>2, CreateStep
  <2>2. /\ code'[c].state = "unused"
        /\ \A d \in Codes \ {c} : /\ code'[d].state # "unused"
                                  /\ code'[d].state = "none" <=> code[d].state = "none"
    BY <2>1
  <2>3. \A d \in Codes : d < c => code[d].state # "none"
    BY <2>1, Numbers DEF NewCode, Codes
  <2>4. \A d \in Codes : c < d => code[d].state = "none"
    BY <2>1 DEF NewCode, Ordered
  <2> QED BY <2>2, <2>3, <2>4, Numbers DEF Ordered, Codes
<1> QED BY <1>1, <1>2

(* There is never a choice between two codes.                              *)
THEOREM OneCode == Spec => []OneActiveCode
<1>1. TypeOK /\ Ordered => OneActiveCode
  BY Numbers DEF Ordered, OneActiveCode, Codes
<1> QED
  BY <1>1, TypeInit, TypeStep, OrderedInit, OrderedStep, PTL DEF Spec

(* Whatever overlaps, the password is changed by the last code sent.       *)
THEOREM LastCode == Spec => LastCodeWins
<1>1. ASSUME TypeOK, Ordered, [Next]_vars, NEW c \in Codes,
             code'[c].spent # code[c].spent, NEW d \in Codes, d > c
      PROVE  code[d].state = "none"
  <2>1. CASE Tick \/ UNCHANGED vars
    BY <1>1, <2>1 DEF Tick, vars
  <2>2. CASE reconcilePasswordResetCodes
    BY <1>1, <2>2 DEF reconcilePasswordResetCodes, TypeOK, Code
  <2>3. ASSUME NEW p \in Requests, Step(p) PROVE code[d].state = "none"
    <3>1. CASE createCodeIfNoneActive(p)
      BY <1>1, <3>1, CreateStep
    <3>2. CASE incrementAttempts(p)
      BY <1>1, <3>2 DEF incrementAttempts, TypeOK, Code
    <3>3. CASE consumeCodeAndSetPassword(p)
      <4>1. code[c].state = "unused"
        BY <1>1, <3>3 DEF consumeCodeAndSetPassword, TypeOK
      <4> QED BY <1>1, <4>1, Numbers DEF Ordered, Codes
    <3>4. requestPasswordReset(p) \/ Fail(p) => UNCHANGED code
      BY DEF requestPasswordReset, Start, Fail, vars
    <3>5. ASSUME NEW e \in Codes, NEW right \in BOOLEAN, resetPassword(p, e, right)
          PROVE  UNCHANGED code
      BY <3>5 DEF resetPassword, Start
    <3> QED BY <1>1, <2>3, <3>1, <3>2, <3>3, <3>4, <3>5 DEF Step
  <2> QED BY <1>1, <2>1, <2>2, <2>3 DEF Next
<1>2. TypeOK /\ Ordered /\ [Next]_vars =>
        [\A c \in Codes : code'[c].spent # code[c].spent =>
            \A d \in Codes : d > c => code[d].state = "none"]_vars
  BY <1>1
<1> QED
  BY <1>2, TypeInit, TypeStep, OrderedInit, OrderedStep, PTL
  DEF Spec, LastCodeWins

-----------------------------------------------------------------------------
(* The lock and the cooldown.                                              *)

\* Whoever is about to create a code has the lock, and what it found still holds.
Locked ==
    \A p \in Requests : req[p].pc = "create" =>
        ~Cooling /\ \A q \in Requests \ {p} : req[q].pc # "create"

LEMMA LockedInit == Init => Locked
BY DEF Init, Locked, Idle

LEMMA LockedStep == TypeOK /\ Locked /\ [Next]_vars => Locked'
<1> SUFFICES ASSUME TypeOK, Locked, [Next]_vars PROVE Locked'
  OBVIOUS
<1>1. ASSUME NEW p \in Requests, createCodeIfNoneActive(p) PROVE Locked'
  <2>1. /\ req'[p].pc = "idle"
        /\ \A q \in Requests \ {p} : req'[q] = req[q] /\ req[q].pc # "create"
    BY <1>1 DEF createCodeIfNoneActive, Done, TypeOK, Idle, Locked
  <2> QED BY <2>1 DEF Locked
<1>2. ASSUME ~ \E p \in Requests : createCodeIfNoneActive(p) PROVE Locked'
  <2>1. Cooling' => Cooling
    <3>1. now' >= now /\ now' \in Int /\ now \in Int
      <4>1. now' = now \/ now' = now + 1
        BY DEF Next, Tick, vars, reconcilePasswordResetCodes, Step,
               requestPasswordReset, createCodeIfNoneActive, resetPassword, Start,
               incrementAttempts, consumeCodeAndSetPassword, Fail
      <4> QED BY <4>1, Numbers DEF TypeOK
    <3>2. \A c \in Codes : code'[c].born = code[c].born /\ code[c].born \in Int
      BY <1>2, CodeStep, Numbers DEF TypeOK, Code
    <3>3. \A c \in Codes : code'[c].state = "unused" => code[c].state = "unused"
      BY <1>2, CodeStep
    <3> QED BY <3>1, <3>2, <3>3, Numbers DEF Cooling, Unused
  <2>2. CASE \A p \in Requests : req'[p].pc = "create" => req[p].pc = "create"
    BY <2>1, <2>2 DEF Locked
  <2>3. ASSUME NEW p \in Requests, requestPasswordReset(p) PROVE Locked'
    <3>1. CASE Cooling
      BY <2>2, <2>3, <3>1 DEF requestPasswordReset, vars
    <3>2. CASE ~Cooling
      BY <2>1, <2>3, <3>2 DEF requestPasswordReset, Start, TypeOK, Locked
    <3> QED BY <3>1, <3>2
  <2>4. ASSUME NEW p \in Requests, NEW c \in Codes, NEW right \in BOOLEAN,
               resetPassword(p, c, right)
        PROVE  \A q \in Requests : req'[q].pc = "create" => req[q].pc = "create"
    BY <2>4 DEF resetPassword, Start, TypeOK
  <2>5. ASSUME NEW p \in Requests, Done(p)
        PROVE  \A q \in Requests : req'[q].pc = "create" => req[q].pc = "create"
    BY <2>5 DEF Done, TypeOK, Idle
  <2>6. Tick \/ reconcilePasswordResetCodes \/ UNCHANGED vars => UNCHANGED req
    BY DEF Tick, reconcilePasswordResetCodes, vars
  <2> QED
    BY <1>2, <2>2, <2>3, <2>4, <2>5, <2>6
    DEF Next, Step, incrementAttempts, consumeCodeAndSetPassword, Fail
<1> QED BY <1>1, <1>2

(* Under the lock the cooldown holds, however requests for codes overlap.  *)
THEOREM CooldownHolds == Spec => CooldownKept
<1>1. ASSUME TypeOK, Locked, [Next]_vars, NEW c \in Codes,
             code[c].state = "none", code'[c].state # "none"
      PROVE  ~Cooling
  <2>1. PICK p \in Requests : createCodeIfNoneActive(p)
    BY <1>1, CodeStep
  <2> QED BY <1>1, <2>1 DEF createCodeIfNoneActive, Locked
<1>2. TypeOK /\ Locked /\ [Next]_vars =>
        [(\E c \in Codes : code[c].state = "none" /\ code'[c].state # "none")
            => ~Cooling]_vars
  BY <1>1
<1> QED
  BY <1>2, TypeInit, TypeStep, LockedInit, LockedStep, PTL DEF Spec, CooldownKept

-----------------------------------------------------------------------------
(* The attempts.                                                           *)

\* The wrong guesses whose increment is still to come.
Counting(c) == {p \in Requests : req[p].pc = "count" /\ req[p].code = c}

Budget ==
    \A c \in Codes :
        code[c].attempts + Cardinality(Counting(c)) <=
            MaxAttempts + Cardinality(Requests) - 1

LEMMA CountingFinite ==
    ASSUME NEW c
    PROVE  /\ IsFiniteSet(Counting(c)) /\ Cardinality(Counting(c)) \in Nat
           /\ Cardinality(Requests) \in Nat
           /\ Cardinality(Counting(c)) <= Cardinality(Requests)
<1>1. Counting(c) \subseteq Requests
  BY DEF Counting
<1> QED BY <1>1, RequestsAssumption, FS_Subset, FS_CardinalityType

LEMMA BudgetInit == Init => Budget
<1> SUFFICES ASSUME Init, NEW c \in Codes
             PROVE  code[c].attempts + Cardinality(Counting(c)) <=
                        MaxAttempts + Cardinality(Requests) - 1
  BY DEF Budget
<1>1. code[c].attempts = 0
  BY DEF Init
<1>2. Counting(c) = {}
  BY DEF Init, Counting, Idle
<1> QED BY <1>1, <1>2, CountingFinite, FS_EmptySet, Numbers

\* A step that counts no guess and starts none.
LEMMA BudgetQuiet ==
    ASSUME TypeOK, Budget, NEW c \in Codes,
           code'[c].attempts = code[c].attempts, Counting(c)' \subseteq Counting(c)
    PROVE  code'[c].attempts + Cardinality(Counting(c)') <=
               MaxAttempts + Cardinality(Requests) - 1
<1>1. Cardinality(Counting(c)') <= Cardinality(Counting(c))
  BY CountingFinite, FS_Subset
<1>2. Cardinality(Counting(c)') \in Nat
  BY CountingFinite, FS_Subset, FS_CardinalityType
<1>3. code[c].attempts \in Nat
  BY DEF TypeOK, Code
<1> QED BY <1>1, <1>2, <1>3, CountingFinite, Numbers DEF Budget

LEMMA BudgetStep == TypeOK /\ TypeOK' /\ Budget /\ [Next]_vars => Budget'
<1> SUFFICES ASSUME TypeOK, TypeOK', Budget, [Next]_vars, NEW c \in Codes
             PROVE  code'[c].attempts + Cardinality(Counting(c)') <=
                        MaxAttempts + Cardinality(Requests) - 1
  BY DEF Budget
<1>1. CASE Tick \/ reconcilePasswordResetCodes \/ UNCHANGED vars
  <2>1. code'[c].attempts = code[c].attempts /\ UNCHANGED req
    BY <1>1 DEF Tick, reconcilePasswordResetCodes, vars, TypeOK, Code
  <2> QED BY <2>1, BudgetQuiet DEF Counting
<1>2. ASSUME NEW p \in Requests, Step(p)
      PROVE  code'[c].attempts + Cardinality(Counting(c)') <=
                 MaxAttempts + Cardinality(Requests) - 1
  <2>1. CASE requestPasswordReset(p)
    <3>1. Counting(c)' \subseteq Counting(c)
      BY <2>1 DEF requestPasswordReset, Start, vars, Counting, TypeOK
    <3>2. UNCHANGED code
      BY <2>1 DEF requestPasswordReset, Start, vars
    <3> QED BY <3>1, <3>2, BudgetQuiet
  <2>2. ASSUME Done(p), code'[c].attempts = code[c].attempts
        PROVE  code'[c].attempts + Cardinality(Counting(c)') <=
                   MaxAttempts + Cardinality(Requests) - 1
    <3>1. Counting(c)' \subseteq Counting(c)
      BY <2>2 DEF Done, Counting, TypeOK, Idle
    <3> QED BY <2>2, <3>1, BudgetQuiet
  <2>3. CASE createCodeIfNoneActive(p)
    BY <2>2, <2>3, CreateStep DEF createCodeIfNoneActive
  <2>4. ASSUME NEW d \in Codes, NEW right \in BOOLEAN, resetPassword(p, d, right)
        PROVE  code'[c].attempts + Cardinality(Counting(c)') <=
                   MaxAttempts + Cardinality(Requests) - 1
    <3>1. UNCHANGED code
      BY <2>4 DEF resetPassword, Start
    <3>2. CASE c # d
      <4>1. Counting(c)' \subseteq Counting(c)
        BY <2>4, <3>2 DEF resetPassword, Start, Counting, TypeOK
      <4> QED BY <3>1, <4>1, BudgetQuiet
    <3>3. CASE c = d
      <4>1. code[c].attempts < MaxAttempts /\ code[c].attempts \in Nat
        BY <2>4, <3>3 DEF resetPassword, TypeOK, Code
      <4>2. Counting(c)' \subseteq Requests
        BY DEF Counting
      <4>3. /\ Cardinality(Counting(c)') <= Cardinality(Requests)
            /\ Cardinality(Counting(c)') \in Nat
        BY <4>2, RequestsAssumption, FS_Subset, FS_CardinalityType
      <4> QED BY <3>1, <4>1, <4>3, CountingFinite, Numbers
    <3> QED BY <3>2, <3>3
  <2>5. CASE incrementAttempts(p)
    <3>1. CASE c # req[p].code \/ code[c].state = "deleted"
      <4>1. code'[c].attempts = code[c].attempts
        BY <2>5, <3>1 DEF incrementAttempts, TypeOK
      <4> QED BY <2>2, <2>5, <4>1 DEF incrementAttempts
    <3>2. CASE c = req[p].code /\ code[c].state # "deleted"
      <4>1. code'[c].attempts = code[c].attempts + 1 /\ code[c].attempts \in Nat
        BY <2>5, <3>2 DEF incrementAttempts, TypeOK, Code
      <4>2. p \in Counting(c) /\ Counting(c)' = Counting(c) \ {p}
        BY <2>5, <3>2 DEF incrementAttempts, Done, Counting, TypeOK, Idle
      <4>3. Cardinality(Counting(c)') = Cardinality(Counting(c)) - 1
        BY <4>2, CountingFinite, FS_RemoveElement
      <4> QED BY <4>1, <4>3, CountingFinite, Numbers DEF Budget
    <3> QED BY <3>1, <3>2
  <2>6. CASE consumeCodeAndSetPassword(p)
    <3>1. code'[c].attempts = code[c].attempts
      BY <2>6 DEF consumeCodeAndSetPassword, TypeOK, Code
    <3> QED BY <2>2, <2>6, <3>1 DEF consumeCodeAndSetPassword
  <2>7. CASE Fail(p)
    BY <2>2, <2>7 DEF Fail
  <2> QED BY <1>2, <2>1, <2>3, <2>4, <2>5, <2>6, <2>7 DEF Step
<1> QED BY <1>1, <1>2 DEF Next

(* A code is compared with at most as many wrong guesses as the cap allows *)
(* and handlers overlap: the cap is exact when they come one by one.       *)
THEOREM CapHolds == Spec => []AttemptsBounded
<1>1. TypeOK /\ Budget => AttemptsBounded
  <2> SUFFICES ASSUME TypeOK, Budget, NEW c \in Codes
               PROVE  code[c].attempts <= MaxAttempts + Cardinality(Requests) - 1
    BY DEF AttemptsBounded
  <2>1. code[c].attempts \in Nat
    BY DEF TypeOK, Code
  <2> QED BY <2>1, CountingFinite, Numbers DEF Budget
<1> QED
  BY <1>1, TypeInit, TypeStep, BudgetInit, BudgetStep, PTL DEF Spec

=============================================================================
