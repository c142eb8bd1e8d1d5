---------------------------- MODULE SecondFactor ----------------------------
(***************************************************************************)
(* The second factor of one administrator: the TOTP secret, the switch and *)
(* the recovery codes, used by logins and changed by requests that verify  *)
(* what they read and write it back later.                                 *)
(***************************************************************************)
EXTENDS Naturals

CONSTANTS Slots,        \* requests under way
          MaxSecrets,   \* bound on setups
          MaxBatches,   \* bound on enablings; of a batch of codes one is followed
          MaxRequests   \* bound on requests

VARIABLES
  secret, enabled,      \* mfaSecret (0: null) and mfaEnabled
  codes,                \* mfaRecoveryCodes
  secrets, batches,     \* how many secrets and batches were handed out
  op, requests,
  proven,               \* secrets of which some enabling saw a code
  uses,                 \* how often a recovery code was accepted
  raced                 \* a request wrote over what it had not read

SecondFactorAssumption == MaxSecrets \in Nat /\ MaxBatches \in Nat /\ MaxRequests \in Nat

vars == <<secret, enabled, codes, secrets, batches, op, requests, proven, uses, raced>>

Idle == [at |-> "idle"]

Init ==
  /\ secret = 0 /\ enabled = FALSE /\ codes = {} /\ secrets = 0 /\ batches = 0
  /\ op = [s \in Slots |-> Idle] /\ requests = 0
  /\ proven = {} /\ uses = [c \in 1..MaxBatches |-> 0] /\ raced = FALSE

TypeOK ==
  /\ secret \in 0..MaxSecrets /\ secrets \in 0..MaxSecrets /\ batches \in 0..MaxBatches
  /\ enabled \in BOOLEAN /\ raced \in BOOLEAN
  /\ codes \subseteq 1..MaxBatches /\ proven \subseteq 1..MaxSecrets
  /\ uses \in [1..MaxBatches -> Nat] /\ requests \in 0..MaxRequests

-----------------------------------------------------------------------------

Starts(s, to) ==
  /\ op[s] = Idle /\ requests < MaxRequests
  /\ op' = [op EXCEPT ![s] = to] /\ requests' = requests + 1

Goes(s, to) == op' = [op EXCEPT ![s] = to] /\ UNCHANGED requests

Row == <<secret, enabled>>
\* A request goes on with the row it read, and with a recovery code or 0.
Read(step, then, code) == [at |-> step, row |-> Row, then |-> then, code |-> code]
NotesRace(s) == raced' = (raced \/ op[s].row # Row)

setupMfa(s) ==
  /\ ~enabled /\ Starts(s, Read("setup", "end", 0))
  /\ UNCHANGED <<secret, enabled, codes, secrets, batches, proven, uses, raced>>

writeSecret(s) ==
  /\ op[s].at = "setup" /\ Goes(s, Idle) /\ secrets < MaxSecrets
  /\ secrets' = secrets + 1 /\ secret' = secrets + 1
  /\ NotesRace(s)
  /\ UNCHANGED <<enabled, codes, batches, proven, uses>>

\* A code of any secret is accepted.
VerifiedAny(held) == secret # 0
\* A code of a secret the authenticator holds: it must be the stored one.
Verified(held) == secret # 0 /\ held = secret

enableMfa(s, held) ==
  /\ ~enabled /\ Verified(held) /\ Starts(s, Read("enable", "end", 0))
  /\ proven' = proven \cup ({held} \cap {secret})
  /\ UNCHANGED <<secret, enabled, codes, secrets, batches, uses, raced>>

writeEnabled(s) ==
  /\ op[s].at = "enable" /\ Goes(s, Idle) /\ batches < MaxBatches
  /\ batches' = batches + 1
  /\ enabled' = TRUE /\ codes' = {batches + 1}
  /\ NotesRace(s)
  /\ UNCHANGED <<secret, secrets, proven, uses>>

\* Of a login or a disabling: TOTP first, anything else is a recovery code.
verifyMfaCode(s, then) ==
  /\ enabled /\ (then = "login" => secret # 0)
  /\ \/ \E held \in 1..secrets : Verified(held) /\ Starts(s, Read(then, then, 0))
     \/ \E c \in 1..batches : Starts(s, Read("consume", then, c))
  /\ UNCHANGED <<secret, enabled, codes, secrets, batches, proven, uses, raced>>

\* A used code stays.
LeavesCode(c) == codes

\* A recovery code is used once.
RemovesCode(c) == codes \ {c}

\* One UPDATE finds the code and removes it.
consumeRecoveryCode(s) ==
  /\ op[s].at = "consume"
  /\ LET c == op[s].code
     IN IF c \in codes
        THEN /\ codes' = RemovesCode(c) /\ uses' = [uses EXCEPT ![c] = @ + 1]
             /\ Goes(s, [op[s] EXCEPT !.at = op[s].then])
        ELSE Goes(s, Idle) /\ UNCHANGED <<codes, uses>>
  /\ UNCHANGED <<secret, enabled, secrets, batches, proven, raced>>

\* The session itself is another module's.
validateLogin(s) ==
  /\ op[s].at = "login" /\ Goes(s, Idle)
  /\ UNCHANGED <<secret, enabled, codes, secrets, batches, proven, uses, raced>>

disableMfa(s) ==
  /\ op[s].at = "disable" /\ Goes(s, Idle)
  /\ secret' = 0 /\ enabled' = FALSE /\ codes' = {}
  /\ NotesRace(s)
  /\ UNCHANGED <<secrets, batches, proven, uses>>

Next ==
  \E s \in Slots :
    \/ setupMfa(s) \/ writeSecret(s) \/ writeEnabled(s)
    \/ \E held \in 1..secrets : enableMfa(s, held)
    \/ \E then \in {"login", "disable"} : verifyMfaCode(s, then)
    \/ consumeRecoveryCode(s) \/ validateLogin(s) \/ disableMfa(s)

Spec == Init /\ [][Next]_vars

-----------------------------------------------------------------------------

(* A recovery code opens the account once, however its uses overlap; the   *)
(* factor in force is one whose code was seen, and none leaves codes       *)
(* behind, unless a request wrote over a row that changed after its read.  *)
FactorHolds ==
  /\ \A c \in 1..MaxBatches : uses[c] <= 1
  /\ ~raced => /\ enabled => secret \in proven
               /\ ~enabled => codes = {}

=============================================================================
