------------------------------- MODULE SignIn -------------------------------
(***************************************************************************)
(* How accounts come to be and are found again: the registration with a    *)
(* password, the login with Google or Apple that finds, links or creates   *)
(* an account, and the anonymization that ends one.  Requests read, decide *)
(* and write in separate calls.                                            *)
(***************************************************************************)
EXTENDS Naturals

CONSTANTS Users,        \* ids of rows, each used once
          Emails,
          Usernames,
          Identities,   \* accounts at the providers
          EmailOf,      \* [Identities -> Emails]: the address the provider signs
          Slots,        \* requests under way
          USERNAME_RETRY_ATTEMPTS,
          MaxRequests,  \* bound on requests
          None

SignInAssumption ==
  EmailOf \in [Identities -> Emails] /\ None \notin Users /\ MaxRequests \in Nat

VARIABLES
  row,                  \* the users: NoRow or e-mail, username, password and status
  social,               \* social_accounts: whom an identity belongs to, or None
  op, requests,
  met,                  \* who last signed in with an identity
  split,                \* an identity was let into a second account beside a live one
  overtaken             \* identities linked to an account after it was anonymized

vars == <<row, social, op, requests, met, split, overtaken>>

NoRow == [status |-> "none"]
Idle == [at |-> "idle"]
Rows == {u \in Users : row[u] # NoRow}
Live == {u \in Rows : row[u].status # "ANONYMIZED"}

Init ==
  /\ row = [u \in Users |-> NoRow] /\ social = [i \in Identities |-> None]
  /\ op = [s \in Slots |-> Idle] /\ requests = 0
  /\ met = [i \in Identities |-> None] /\ split = FALSE /\ overtaken = {}

TypeOK ==
  /\ \A u \in Rows :
       row[u] \in [status : {"ACTIVE", "PENDING_DELETION", "ANONYMIZED"},
                   email : Emails \cup {None}, username : Usernames \cup {None},
                   password : BOOLEAN]
  /\ social \in [Identities -> Users \cup {None}] /\ met \in [Identities -> Users \cup {None}]
  /\ requests \in 0..MaxRequests /\ split \in BOOLEAN /\ overtaken \subseteq Identities

-----------------------------------------------------------------------------

Starts(s, to) ==
  /\ op[s] = Idle /\ requests < MaxRequests
  /\ op' = [op EXCEPT ![s] = to] /\ requests' = requests + 1

Goes(s, to) == op' = [op EXCEPT ![s] = to] /\ UNCHANGED requests

HasEmail(e) == {u \in Live : row[u].email = e}
HasUsername(n) == {u \in Live : row[u].username = n}
Unused == {u \in Users : row[u] = NoRow}

NewRow(e, n, password) ==
  [status |-> "ACTIVE", email |-> e, username |-> n, password |-> password]

\* Both lookups pass before the password is hashed.
registerUser(s, e, n) ==
  /\ HasEmail(e) = {} /\ HasUsername(n) = {}
  /\ Starts(s, [at |-> "create", email |-> e, username |-> n])
  /\ UNCHANGED <<row, social, met, split, overtaken>>

\* The unique indexes have the last word.
createUser(s) ==
  /\ op[s].at = "create" /\ Goes(s, Idle)
  /\ \/ /\ HasEmail(op[s].email) = {} /\ HasUsername(op[s].username) = {}
        /\ \E u \in Unused : row' = [row EXCEPT ![u] = NewRow(op[s].email, op[s].username, TRUE)]
     \/ /\ HasEmail(op[s].email) \cup HasUsername(op[s].username) # {} /\ UNCHANGED row
  /\ UNCHANGED <<social, met, split, overtaken>>

-----------------------------------------------------------------------------
(* The social login: existing, linkable or new. *)

At(step, i) == [at |-> step, id |-> i]
Loads(i, u) == [at |-> "load", id |-> i, user |-> u]

findSocialAccount(s, i) ==
  /\ Starts(s, IF social[i] = None THEN At("email", i)
               ELSE [at |-> "reactivate", id |-> i, user |-> social[i]])
  /\ UNCHANGED <<row, social, met, split, overtaken>>

\* An address the provider has verified links to the account that holds it.
Linkable(i) == HasEmail(EmailOf[i])

findUserByEmail(s) ==
  /\ op[s].at = "email"
  /\ \/ \E u \in Linkable(op[s].id) :
          Goes(s, [at |-> "link", id |-> op[s].id, user |-> u])
     \/ Linkable(op[s].id) = {}
          /\ Goes(s, [at |-> "name", id |-> op[s].id, left |-> USERNAME_RETRY_ATTEMPTS])
  /\ UNCHANGED <<row, social, met, split, overtaken>>

\* The row is unique by identity: a login of the same one that came first wins.
createSocialAccount(s) ==
  /\ op[s].at = "link"
  /\ LET i == op[s].id  u == op[s].user
     IN IF social[i] # None THEN Goes(s, Idle) /\ UNCHANGED <<social, overtaken>>
        ELSE /\ social' = [social EXCEPT ![i] = u]
             /\ overtaken' = IF u \in Live THEN overtaken ELSE overtaken \cup {i}
             /\ Goes(s, [at |-> "reactivate", id |-> i, user |-> u])
  /\ UNCHANGED <<row, met, split>>

generateUniqueUsername(s) ==
  /\ op[s].at = "name"
  /\ \E n \in {x \in Usernames : HasUsername(x) = {}} :
       Goes(s, [at |-> "insert", id |-> op[s].id, left |-> op[s].left, username |-> n])
  /\ UNCHANGED <<row, social, met, split, overtaken>>

\* The user without its identity.
InsertsUserOnly(u, i, n) ==
  /\ row' = [row EXCEPT ![u] = NewRow(EmailOf[i], n, FALSE)]
  /\ UNCHANGED social
\* The user and its identity in one transaction.
Inserts(u, i, n) ==
  /\ row' = [row EXCEPT ![u] = NewRow(EmailOf[i], n, FALSE)]
  /\ social' = [social EXCEPT ![i] = u]
\* Only a taken username is tried again; a taken address or identity is an error.
createUserWithSocialAccount(s) ==
  /\ op[s].at = "insert"
  /\ LET i == op[s].id
         usernameTaken == HasUsername(op[s].username) # {}
         taken == HasEmail(EmailOf[i]) # {} \/ social[i] # None
     IN \/ /\ ~usernameTaken /\ ~taken
           /\ \E u \in Unused : Inserts(u, i, op[s].username) /\ Goes(s, Loads(i, u))
        \/ /\ usernameTaken /\ op[s].left > 1
           /\ Goes(s, [at |-> "name", id |-> i, left |-> op[s].left - 1])
           /\ UNCHANGED <<row, social>>
        \/ /\ taken \/ (usernameTaken /\ op[s].left = 1)
           /\ Goes(s, Idle) /\ UNCHANGED <<row, social>>
  /\ UNCHANGED <<met, split, overtaken>>

\* Only an account still in its grace period comes back.
reactivateOnLogin(s) ==
  /\ op[s].at = "reactivate" /\ Goes(s, Loads(op[s].id, op[s].user))
  /\ row' = IF row[op[s].user].status = "PENDING_DELETION"
            THEN [row EXCEPT ![op[s].user].status = "ACTIVE"] ELSE row
  /\ UNCHANGED <<social, met, split, overtaken>>

\* An anonymized account is refused, any other is entered.
loadUserAndDecorate(s) ==
  /\ op[s].at = "load" /\ Goes(s, Idle)
  /\ LET i == op[s].id  u == op[s].user
     IN IF u \in Live
        THEN /\ met' = [met EXCEPT ![i] = u]
             /\ split' = (split \/ \E j \in Identities :
                            /\ EmailOf[j] = EmailOf[i] /\ met[j] \in Live \ {u})
        ELSE UNCHANGED <<met, split>>
  /\ UNCHANGED <<row, social, overtaken>>

-----------------------------------------------------------------------------
(* The end of an account, as far as signing in goes. *)

setAccountPendingDeletion(u) ==
  /\ u \in Rows /\ row[u].status = "ACTIVE"
  /\ row' = [row EXCEPT ![u].status = "PENDING_DELETION"]
  /\ UNCHANGED <<social, op, requests, met, split, overtaken>>

anonymizeUserTx(u) ==
  /\ u \in Rows /\ row[u].status = "PENDING_DELETION"
  /\ row' = [row EXCEPT ![u] = [status |-> "ANONYMIZED", email |-> None, username |-> None,
                                password |-> FALSE]]
  /\ social' = [i \in Identities |-> IF social[i] = u THEN None ELSE social[i]]
  /\ UNCHANGED <<op, requests, met, split, overtaken>>

-----------------------------------------------------------------------------

Next ==
  \/ \E s \in Slots :
       \/ \E e \in Emails, n \in Usernames : registerUser(s, e, n)
       \/ createUser(s)
       \/ \E i \in Identities : findSocialAccount(s, i)
       \/ findUserByEmail(s) \/ createSocialAccount(s)
       \/ generateUniqueUsername(s) \/ createUserWithSocialAccount(s)
       \/ reactivateOnLogin(s) \/ loadUserAndDecorate(s)
  \/ \E u \in Users : setAccountPendingDeletion(u) \/ anonymizeUserTx(u)

Spec == Init /\ [][Next]_vars

-----------------------------------------------------------------------------

(* Whatever the races between registrations, logins and the eraser: the    *)
(* identities of one address never lead to two accounts that both live, an *)
(* account without a password keeps an identity that opens it, and one     *)
(* that was anonymized keeps none, unless a login was linking it meanwhile.*)
OneWayIn ==
  /\ ~split
  /\ \A i, j \in Identities :
       EmailOf[i] = EmailOf[j] /\ social[i] \in Live /\ social[j] \in Live => social[i] = social[j]
  /\ \A u \in Live : ~row[u].password => \E i \in Identities : social[i] = u
  /\ \A i \in Identities \ overtaken : social[i] \in Live \cup {None}

=============================================================================
