------------------------------ MODULE Consent ------------------------------
(***************************************************************************)
(* One user's consents and what is kept under them: the audit trail, the   *)
(* coarse location and the Spotify link with the taste derived from it.    *)
(* Requests are interleaved at their database and Spotify calls, among     *)
(* themselves and with the reconcilers.                                    *)
(***************************************************************************)
EXTENDS Naturals

CONSTANTS Accounts,     \* Spotify accounts the user may link
          Slots,        \* requests under way
          MaxRequests,  \* bound on requests
          MaxTokens,    \* bound on refresh tokens Spotify issues
          MaxFaults,    \* bound on errors and deaths of a step
          None

ConsentAssumption == {MaxRequests, MaxTokens, MaxFaults} \subseteq Nat

VARIABLES
  consent, revoked,     \* the UserConsent row, and revokedAt IS NOT NULL
  logged,               \* the last value of every field in the audit log
  located,              \* users.locationGeohash IS NOT NULL
  link, snapshot,       \* the SpotifyLink row; whose taste the snapshots hold
  valid, issued,        \* refresh tokens Spotify honours, and how many it issued
  op, sync,             \* the requests and the taste reconciler
  requests, faults,
  overlapped,           \* a consent was written over a value its writer never read
  slips,                \* what was stored past its withdrawal, or not erased
  removed, lost,        \* accounts that removed the app; a rotated token was lost
  since                 \* the link was made after the last revocation

saved == <<consent, revoked, logged, overlapped>>
spotify == <<link, snapshot, valid, issued, removed, lost, since>>
vars == <<saved, located, spotify, op, sync, requests, faults, slips>>

Fields == {"location", "marketing", "spotify"}
Patched == {"location", "marketing"}  \* what PATCH accepts
Strict == {"marketing"}    \* given by the user: no mirror of the phone, nor of the link

Idle == [at |-> "idle"]
NoLink == [status |-> "none"]
AllFalse == [f \in Fields |-> FALSE]
Bodies == UNION {[S -> BOOLEAN] : S \in SUBSET Patched \ {{}}}
Tokens == [account : Accounts, serial : 1..MaxTokens]

\* The sign-up creates the row and its first log entry together; the user may
\* have set the patched fields since.
Init ==
  /\ consent \in [Fields -> BOOLEAN] /\ ~consent["spotify"]
  /\ revoked = FALSE /\ logged = consent /\ located = FALSE
  /\ link = NoLink /\ snapshot = None /\ valid = {} /\ issued = 0
  /\ op = [s \in Slots |-> Idle] /\ sync = Idle /\ requests = 0 /\ faults = 0
  /\ overlapped = FALSE /\ slips = {} /\ removed = {} /\ lost = FALSE /\ since = FALSE

TypeOK ==
  /\ consent \in [Fields -> BOOLEAN] /\ logged \in [Fields -> BOOLEAN]
  /\ {revoked, located, overlapped, lost, since} \subseteq BOOLEAN
  /\ link \in {NoLink} \cup [status : {"ACTIVE", "REVOKED"}, account : Accounts, token : Tokens]
  /\ snapshot \in Accounts \cup {None} /\ valid \subseteq Tokens /\ issued \in 0..MaxTokens
  /\ slips \subseteq {"location", "taste"} /\ removed \subseteq Accounts
  /\ requests \in 0..MaxRequests /\ faults \in 0..MaxFaults

-----------------------------------------------------------------------------
(* Consents. *)

Starts(s, to) ==
  /\ op[s] = Idle /\ requests < MaxRequests
  /\ op' = [op EXCEPT ![s] = to] /\ requests' = requests + 1

Goes(s, to) == op' = [op EXCEPT ![s] = to] /\ UNCHANGED requests

\* Only the grants enter the trail.
ChangedGrants(old, new) == {f \in DOMAIN new : new[f] /\ ~old[f]}
\* The fields whose value really changes: the entries of the audit log.
Changed(old, new) == {f \in DOMAIN new : old[f] # new[f]}

\* One transaction: the row and its audit entries, computed from what was read.
Writes(old, new) ==
  /\ consent' = [f \in Fields |-> IF f \in DOMAIN new THEN new[f] ELSE consent[f]]
  /\ logged' = [f \in Fields |-> IF f \in Changed(old, new) THEN new[f] ELSE logged[f]]
  /\ overlapped' = (overlapped \/ \E f \in DOMAIN new : consent[f] # old[f])

\* Best effort: an error is logged and the request goes on.
Erases(what, erased, kept) ==
  \/ erased /\ UNCHANGED <<slips, faults>>
  \/ faults < MaxFaults /\ faults' = faults + 1 /\ slips' = slips \cup {what} /\ kept

clearUserLocation == Erases("location", located' = FALSE, UNCHANGED located)

TurnsOff(body) == "location" \in DOMAIN body /\ ~body["location"]

\* The location goes first, even if no field changes.
updateConsent(s, body) ==
  /\ Starts(s, IF Changed(consent, body) = {} THEN Idle
               ELSE [at |-> "patch", old |-> consent, body |-> body])
  /\ IF TurnsOff(body) THEN clearUserLocation ELSE UNCHANGED <<located, slips, faults>>
  /\ UNCHANGED <<saved, spotify, sync>>

\* Only a strict field turned on undoes a revocation.
updateConsentFields(s) ==
  /\ op[s].at = "patch" /\ Goes(s, Idle)
  /\ Writes(op[s].old, op[s].body)
  /\ revoked' = (revoked /\ Changed(op[s].old, op[s].body)
                              \cap Strict \cap {f \in DOMAIN op[s].body : op[s].body[f]} = {})
  /\ UNCHANGED <<located, spotify, sync, faults, slips>>

revokeAllConsents(s) ==
  /\ Starts(s, IF revoked /\ consent = AllFalse THEN Idle ELSE [at |-> "revoke", old |-> consent])
  /\ UNCHANGED <<saved, located, spotify, sync, faults, slips>>

revokeConsentWithAudit(s) ==
  /\ op[s].at = "revoke" /\ Goes(s, [at |-> "clear"])
  /\ Writes(op[s].old, AllFalse)
  /\ revoked' = TRUE /\ since' = FALSE
  /\ UNCHANGED <<located, link, snapshot, valid, issued, removed, lost, sync, faults, slips>>

clearLocationOnRevoke(s) ==
  /\ op[s].at = "clear" /\ Goes(s, [at |-> "forget"])
  /\ clearUserLocation
  /\ UNCHANGED <<saved, spotify, sync>>

\* The link goes and the taste stays.
DeletesLinkOnly == link' = NoLink /\ UNCHANGED snapshot
\* The tokens and the taste go in one transaction.
DeletesLink == link' = NoLink /\ snapshot' = None

deleteSpotifyLinkOnRevoke(s) ==
  /\ op[s].at = "forget" /\ Goes(s, Idle)
  /\ Erases("taste", DeletesLink, UNCHANGED <<link, snapshot>>)
  /\ UNCHANGED <<saved, located, valid, issued, removed, lost, since, sync>>

\* The consent that exists while a link does; it never undoes a revocation.
setDerivedConsent(s) ==
  /\ op[s].at = "derive"
  /\ Goes(s, IF consent["spotify"] = op[s].granted THEN Idle
             ELSE [at |-> "derived", old |-> consent, granted |-> op[s].granted])
  /\ UNCHANGED <<saved, located, spotify, sync, faults, slips>>

setDerivedConsentField(s) ==
  /\ op[s].at = "derived" /\ Goes(s, Idle)
  /\ Writes(op[s].old, [f \in {"spotify"} |-> op[s].granted])
  /\ UNCHANGED <<revoked, located, spotify, sync, faults, slips>>

-----------------------------------------------------------------------------
(* Location. *)

hasConsent(f) == ~revoked /\ consent[f]

setUserLocation(s) ==
  /\ hasConsent("location") /\ Starts(s, [at |-> "store"])
  /\ UNCHANGED <<saved, located, spotify, sync, faults, slips>>

\* A withdrawal since the check, or one that has already cleared, is overtaken.
updateUserLocation(s) ==
  /\ op[s].at = "store" /\ Goes(s, Idle)
  /\ located' = TRUE
  /\ LET overtakes == \/ ~hasConsent("location")
                      \/ \E t \in Slots : op[t].at = "patch" /\ TurnsOff(op[t].body)
     IN slips' = IF overtakes THEN slips \cup {"location"} ELSE slips
  /\ UNCHANGED <<saved, spotify, sync, faults>>

\* The retention reconciler, whenever the location is old enough.
clearStaleUserLocations ==
  /\ located /\ located' = FALSE
  /\ UNCHANGED <<saved, spotify, op, sync, requests, faults, slips>>

-----------------------------------------------------------------------------
(* The Spotify link. *)

Issue(a) == [account |-> a, serial |-> issued + 1]

linkSpotifyAccount(s, a) ==
  /\ issued < MaxTokens /\ Starts(s, [at |-> "upsert", token |-> Issue(a)])
  /\ issued' = issued + 1 /\ valid' = valid \cup {Issue(a)}
  /\ UNCHANGED <<saved, located, link, snapshot, removed, lost, since, sync, faults, slips>>

upsertLink(s) ==
  /\ op[s].at = "upsert" /\ Goes(s, [at |-> "tops", account |-> op[s].token.account])
  /\ link' = [status |-> "ACTIVE", account |-> op[s].token.account, token |-> op[s].token]
  /\ since' = TRUE
  /\ UNCHANGED <<saved, located, snapshot, valid, issued, removed, lost, sync, faults, slips>>

\* Upserts keyed by the user: nothing asks whether the link is still there.
Tastes(account) ==
  /\ snapshot' = account
  /\ slips' = IF link = NoLink THEN slips \cup {"taste"} ELSE slips

\* touchLinkSynced fails when the link is gone, and the request with it.
syncTasteWithToken(s) ==
  /\ op[s].at = "tops"
  /\ Goes(s, IF link = NoLink THEN Idle ELSE [at |-> "derive", granted |-> TRUE])
  /\ Tastes(op[s].account)
  /\ UNCHANGED <<saved, located, link, valid, issued, removed, lost, since, sync, faults>>

unlinkSpotifyAccount(s) ==
  /\ link # NoLink /\ Starts(s, [at |-> "unlink"])
  /\ UNCHANGED <<saved, located, spotify, sync, faults, slips>>

deleteLinkAndSnapshot(s) ==
  /\ op[s].at = "unlink" /\ Goes(s, [at |-> "derive", granted |-> FALSE])
  /\ DeletesLink
  /\ UNCHANGED <<saved, located, valid, issued, removed, lost, since, sync, faults, slips>>

\* The user removes the app on Spotify's side: every token of the account dies.
removeApp(a) ==
  /\ a \notin removed /\ \E t \in valid : t.account = a
  /\ removed' = removed \cup {a} /\ valid' = {t \in valid : t.account # a}
  /\ UNCHANGED <<saved, located, link, snapshot, issued, lost, since, op, sync, requests,
                 faults, slips>>

-----------------------------------------------------------------------------
(* The taste reconciler works on the row it listed. *)

Quiet == UNCHANGED <<saved, located, op, requests, removed, since>>

findLinksDueForSync ==
  /\ sync = Idle /\ link.status = "ACTIVE"
  /\ sync' = [at |-> "refresh", token |-> link.token]
  /\ Quiet /\ UNCHANGED <<link, snapshot, valid, issued, lost, faults, slips>>

\* The new token is never stored.
AfterRefreshTopsFirst(token) == [at |-> "tops", token |-> token]
\* Where a sync goes with the access token: a rotated token is persisted first.
AfterRefresh(token) ==
  [at |-> IF token = sync.token THEN "tops" ELSE "persist", token |-> token]

\* invalid_grant, the same token, or a rotated one that replaces it.
refreshAccessToken ==
  /\ sync.at = "refresh"
  /\ \/ /\ sync.token \notin valid
        /\ sync' = [sync EXCEPT !.at = "mark"] /\ UNCHANGED <<valid, issued>>
     \/ /\ sync.token \in valid
        /\ sync' = AfterRefresh(sync.token) /\ UNCHANGED <<valid, issued>>
     \/ /\ sync.token \in valid /\ issued < MaxTokens
        /\ issued' = issued + 1
        /\ valid' = (valid \ {sync.token}) \cup {Issue(sync.token.account)}
        /\ sync' = AfterRefresh(Issue(sync.token.account))
  /\ Quiet /\ UNCHANGED <<link, snapshot, lost, faults, slips>>

\* An update of a row that is gone is an error, and the sync ends there.
updateLinkTokens ==
  /\ sync.at = "persist"
  /\ IF link = NoLink THEN sync' = Idle /\ UNCHANGED link
     ELSE /\ link' = [link EXCEPT !.token = sync.token]
          /\ sync' = [sync EXCEPT !.at = "tops"]
  /\ Quiet /\ UNCHANGED <<snapshot, valid, issued, lost, faults, slips>>

markLinkRevoked ==
  /\ sync.at = "mark" /\ sync' = Idle
  /\ link' = IF link = NoLink THEN link ELSE [link EXCEPT !.status = "REVOKED"]
  /\ Quiet /\ UNCHANGED <<snapshot, valid, issued, lost, faults, slips>>

syncTasteForLink ==
  /\ sync.at = "tops" /\ sync' = Idle
  /\ Tastes(sync.token.account)
  /\ Quiet /\ UNCHANGED <<link, valid, issued, lost, faults>>

\* An error of the database or of Spotify, or the death of the process.
failRequest(s) ==
  /\ op[s] # Idle /\ faults < MaxFaults /\ faults' = faults + 1
  /\ Goes(s, Idle)
  /\ slips' = slips \cup (CASE op[s].at = "clear" -> {"location", "taste"}
                            [] op[s].at = "forget" -> {"taste"}
                            [] OTHER -> {})
  /\ UNCHANGED <<saved, located, spotify, sync>>

failSync ==
  /\ sync # Idle /\ faults < MaxFaults /\ faults' = faults + 1
  /\ sync' = Idle
  /\ lost' = (lost \/ sync.at = "persist")
  /\ Quiet /\ UNCHANGED <<link, snapshot, valid, issued, slips>>

-----------------------------------------------------------------------------

Next ==
  \/ \E s \in Slots :
       \/ \E body \in Bodies : updateConsent(s, body)
       \/ updateConsentFields(s) \/ revokeAllConsents(s) \/ revokeConsentWithAudit(s)
       \/ clearLocationOnRevoke(s) \/ deleteSpotifyLinkOnRevoke(s)
       \/ setDerivedConsent(s) \/ setDerivedConsentField(s)
       \/ setUserLocation(s) \/ updateUserLocation(s)
       \/ \E a \in Accounts : linkSpotifyAccount(s, a)
       \/ upsertLink(s) \/ syncTasteWithToken(s)
       \/ unlinkSpotifyAccount(s) \/ deleteLinkAndSnapshot(s)
       \/ failRequest(s)
  \/ \E a \in Accounts : removeApp(a)
  \/ clearStaleUserLocations
  \/ findLinksDueForSync \/ refreshAccessToken \/ updateLinkTokens
  \/ markLinkRevoked \/ syncTasteForLink \/ failSync

Spec == Init /\ [][Next]_vars

-----------------------------------------------------------------------------

(* The audit trail replays to the consents in force: the last value logged *)
(* of a field is its value, unless two writers of the row overlapped.      *)
TrailReplays == ~overlapped => logged = consent

(* What is withdrawn is forgotten: a location is stored only under a       *)
(* consent in force, a taste only beside its link, and a link older than a *)
(* revocation goes with it, once the request that withdraws has ended and  *)
(* unless a store was under way or the erasure failed.                     *)
WithdrawalForgets ==
  /\ located /\ "location" \notin slips /\ (\A s \in Slots : op[s].at # "clear")
       => hasConsent("location")
  /\ "taste" \notin slips =>
       /\ snapshot # None => link # NoLink
       /\ revoked /\ link # NoLink /\ ~since
            => \E s \in Slots : op[s].at \in {"clear", "forget"}

(* No failure after a refresh costs the user the link: the stored token of *)
(* an active link is one Spotify honours, unless the user removed the app  *)
(* there or the rotated token died before it was persisted.                *)
TokenKept ==
  link.status = "ACTIVE" /\ link.token.account \notin removed /\ ~lost /\ sync.at # "persist"
    => link.token \in valid

=============================================================================
