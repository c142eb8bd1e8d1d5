---------------------------- MODULE PasswordReset ----------------------------
(***************************************************************************)
(* The reset of the password of one account by a code sent by e-mail       *)
(* (src/modules/password-reset): requests, attempts and the purge of codes *)
(* interleave between their statements. What a reset does to the sessions  *)
(* is in module Sessions, to the account in module Account.                *)
(***************************************************************************)
EXTENDS Integers, FiniteSets

CONSTANTS
    Requests,       \* slots for handlers in flight
    Cooldown,       \* PASSWORD_RESET_REQUEST_COOLDOWN_SECONDS
    CodeTtl,        \* PASSWORD_RESET_CODE_TTL_MINUTES
    MaxAttempts,    \* PASSWORD_RESET_MAX_ATTEMPTS
    MaxCodes,       \* bound: codes
    MaxTime         \* bound: last instant of the clock

ASSUME RequestsAssumption == IsFiniteSet(Requests)
ASSUME NumbersAssumption ==
    /\ {Cooldown, CodeTtl, MaxCodes, MaxTime} \subseteq Nat
    /\ MaxAttempts \in Nat \ {0}

VARIABLES
    now,            \* the clock
    code,           \* table password_reset_codes
    req             \* what each slot is doing

vars == <<now, code, req>>

Codes == 1..MaxCodes

\* spent is history: how often the code changed the password.
Code == [state: {"none", "unused", "used", "deleted"}, born: 0..MaxTime,
         attempts: Nat, spent: {0, 1}]

Request == [pc: {"idle", "create", "count", "consume"}, code: {0} \cup Codes]

Idle == [pc |-> "idle", code |-> 0]

-----------------------------------------------------------------------------
Init ==
    /\ now = 0
    /\ code = [c \in Codes |->
                  [state |-> "none", born |-> 0, attempts |-> 0, spent |-> 0]]
    /\ req = [p \in Requests |-> Idle]

Tick ==
    /\ now < MaxTime
    /\ now' = now + 1
    /\ UNCHANGED <<code, req>>

Start(p, pc, c) ==
    /\ req[p].pc = "idle"
    /\ req' = [req EXCEPT ![p] = [pc |-> pc, code |-> c]]
    /\ UNCHANGED <<now, code>>

Done(p) == req' = [req EXCEPT ![p] = Idle]

-----------------------------------------------------------------------------
(* A code is asked for.                                                    *)

Unused(c) == code[c].state = "unused" /\ now < code[c].born + CodeTtl

Cooling == \E c \in Codes : Unused(c) /\ now - code[c].born < Cooldown

\* Variant: without the advisory lock.
requestUnlocked(p) ==
    IF Cooling THEN req[p].pc = "idle" /\ UNCHANGED vars
    ELSE Start(p, "create", 0)

\* createCodeIfNoneActive takes the lock of the account and looks for a recent
\* code; there is none...
requestPasswordReset(p) ==
    /\ \A q \in Requests : req[q].pc # "create"
    /\ IF Cooling THEN req[p].pc = "idle" /\ UNCHANGED vars
       ELSE Start(p, "create", 0)

NewCode(c) ==
    /\ code[c].state = "none"
    /\ \A d \in 1..(c - 1) : code[d].state # "none"

\* Variant: the codes before are left in place.
createCodeBeside(p) ==
    /\ req[p].pc = "create"
    /\ \E c \in Codes :
        /\ NewCode(c)
        /\ code' = [code EXCEPT ![c] = [@ EXCEPT !.state = "unused", !.born = now]]
    /\ Done(p)
    /\ UNCHANGED now

\* ... deletes the unused ones and inserts the new one. The commit gives the
\* lock back.
createCodeIfNoneActive(p) ==
    /\ req[p].pc = "create"
    /\ \E c \in Codes :
        /\ NewCode(c)
        /\ code' = [d \in Codes |->
             IF d = c THEN [code[d] EXCEPT !.state = "unused", !.born = now]
             ELSE [code[d] EXCEPT !.state = IF @ = "unused" THEN "deleted" ELSE @]]
    /\ Done(p)
    /\ UNCHANGED now

-----------------------------------------------------------------------------
(* A code is presented.                                                    *)

\* findActiveCodeByUser: the newest of the unused ones.
ActiveCode(c) == Unused(c) /\ \A d \in Codes : Unused(d) => d <= c

\* Variant: one attempt too many.
resetOneMore(p, c, right) ==
    /\ ActiveCode(c) /\ code[c].attempts <= MaxAttempts
    /\ Start(p, IF right THEN "consume" ELSE "count", c)

\* resetPassword up to the comparison; a locked code is refused.
resetPassword(p, c, right) ==
    /\ ActiveCode(c) /\ code[c].attempts < MaxAttempts
    /\ Start(p, IF right THEN "consume" ELSE "count", c)

\* The update throws if the row is gone.
incrementAttempts(p) ==
    LET c == req[p].code IN
    /\ req[p].pc = "count"
    /\ code' = IF code[c].state = "deleted" THEN code
               ELSE [code EXCEPT ![c].attempts = @ + 1]
    /\ Done(p)
    /\ UNCHANGED now

\* One transaction; the expiry is not asked again. A code already used or
\* deleted leaves the password alone.
consumeCodeAndSetPassword(p) ==
    LET c == req[p].code IN
    /\ req[p].pc = "consume"
    /\ code' = IF code[c].state # "unused" THEN code
               ELSE [code EXCEPT ![c].state = "used", ![c].spent = @ + 1]
    /\ Done(p)
    /\ UNCHANGED now

\* deleteExpiredAndUsedCodes.
reconcilePasswordResetCodes ==
    LET dead == {c \in Codes : code[c].state \in {"used", "unused"} /\ ~Unused(c)} IN
    /\ dead # {}
    /\ code' = [c \in Codes |->
          IF c \in dead THEN [code[c] EXCEPT !.state = "deleted"] ELSE code[c]]
    /\ UNCHANGED <<now, req>>

\* A crash or a failed statement.
Fail(p) == req[p].pc # "idle" /\ Done(p) /\ UNCHANGED <<now, code>>

-----------------------------------------------------------------------------
Step(p) ==
    \/ requestPasswordReset(p)
    \/ createCodeIfNoneActive(p)
    \/ \E c \in Codes, right \in BOOLEAN : resetPassword(p, c, right)
    \/ incrementAttempts(p)
    \/ consumeCodeAndSetPassword(p)
    \/ Fail(p)

Next == Tick \/ reconcilePasswordResetCodes \/ \E p \in Requests : Step(p)

Spec == Init /\ [][Next]_vars

-----------------------------------------------------------------------------
(* Every variable keeps its type; no code is spent twice.                  *)
TypeOK ==
    /\ now \in 0..MaxTime
    /\ code \in [Codes -> Code]
    /\ req \in [Requests -> Request]

(* Only the last code sent changes the password, even if resets with an    *)
(* older one, new requests and the purge overlap.                          *)
LastCodeWins ==
    [][\A c \in Codes : code'[c].spent # code[c].spent =>
          \A d \in Codes : d > c => code[d].state = "none"]_vars

(* The cooldown holds when requests overlap: no code is created while a    *)
(* younger one could still be used.                                        *)
CooldownKept ==
    [][(\E c \in Codes : code[c].state = "none" /\ code'[c].state # "none")
          => ~Cooling]_vars

(* At most one code opens the account.                                     *)
OneActiveCode ==
    \A c, d \in Codes : code[c].state = "unused" /\ code[d].state = "unused" => c = d

(* The cap is read before the comparison and the counter written after it: *)
(* guesses that overlap exceed the cap, by no more than their number.      *)
AttemptsBounded ==
    \A c \in Codes :
        code[c].attempts <= MaxAttempts + Cardinality(Requests) - 1

=============================================================================
