------------------------------- MODULE MCTalk -------------------------------
(***************************************************************************)
(* The instances that check what people say and who they are: the keys of  *)
(* the chat, its sockets, receipts, notices, groups, reports, galleries,   *)
(* comments, consents, sign-in and the second factor.  A behaviour is one  *)
(* of the parts; the variables of the others stay None.  Variables with    *)
(* one name in several modules (op, requests...) belong to the part that   *)
(* runs.                                                                   *)
(***************************************************************************)
EXTENDS ChatKeys, TLC

CONSTANTS
  Requests,                                   \* bound on the requests of each part
  MaxCrashes,
  MaxMessages,                                \* receipts
  Others, Follow, Limit, MaxRows,             \* notices
  Members,                                    \* groups
  Reporters, Flagged, Posts, People, Tickets, \* reports: their messages, their ids
  Albums, Images, MAX_GALLERY_IMAGES,         \* galleries
  Authors, Scopes, Ids,                       \* comments: who writes them, their ids
  Accounts, MaxTokens,                        \* consents
  Users, Emails, Usernames, Identities, EmailOf, USERNAME_RETRY_ATTEMPTS,   \* sign-in
  MaxSecrets, MaxBatches,                     \* the second factor
  Sockets, Client, MAX_SOCKETS_PER_USER, MAX_INBOUND_FRAMES_PER_WINDOW    \* the gateway

VARIABLES
  part, requests, crashes, consent, hidden, there, raced,
  socket, sent, deleted, channel, marking, delivered, read, waiting, pushed,
  received, blind, member,
  followed, blocked, rows, made, pushes, crossed, seen, cursor, stay,
  admin, strayed, keys, direct, answers,
  report, shown, files, punished, sweep, trail, takenBy,
  blobs, taken, missed,
  comment, likes,
  revoked, logged, located, link, snapshot, valid, issued, sync, overlapped,
  slips, removed, lost, since,
  social, met, split, overtaken,
  secret, enabled, codes, secrets, batches, proven, uses,
  place, state, count, burst, banned, announcing

\* What one part alone uses.
ofKeys == <<keks, cache, messages, purged, pass, pending, passed, unsure, minted, sends>>
ofReceipts == <<socket, sent, deleted, channel, marking, delivered, read, waiting,
                pushed, received, blind, member>>
ofNotices == <<followed, blocked, rows, made, pushes, crossed, seen, cursor, stay>>
ofGroups == <<admin, strayed, keys, direct, answers>>
ofReports == <<report, files, punished, sweep, trail, takenBy>>
ofGalleries == <<blobs, taken, missed>>
ofComments == <<comment, likes>>
ofConsent == <<revoked, logged, located, link, snapshot, valid, issued, sync,
               slips, removed, lost, since>>
ofSignIn == <<social, met, split, overtaken>>
ofFactor == <<secret, enabled, codes, secrets, batches, proven, uses>>
ofGateway == <<place, state, count, burst, banned, announcing>>
shared == <<active, row, op, faults, requests, crashes, consent, hidden, there, raced,
            shown, overlapped>>

all == <<part, shared, ofKeys, ofReceipts, ofNotices, ofGroups, ofReports, ofGalleries,
         ofComments, ofConsent, ofSignIn, ofFactor, ofGateway>>

Bounds == [notices |-> 3, groups |-> 4, reports |-> 4, galleries |-> 4, comments |-> 5,
           consent |-> 3, signin |-> 4, factor |-> 6]
SameEmail == [i \in Identities |-> "mail"]

Rc == INSTANCE Receipts WITH Messages <- 1..MaxMessages
No == INSTANCE Notices WITH MaxRequests <- Requests["notices"]
Gr == INSTANCE Groups WITH MaxRequests <- Requests["groups"]
Rp == INSTANCE Reports WITH
  Messages <- Flagged, Ids <- Tickets, MaxRequests <- Requests["reports"]
Ga == INSTANCE Galleries WITH MaxRequests <- Requests["galleries"]
Co == INSTANCE Comments WITH Users <- Authors, MaxRequests <- Requests["comments"]
Cs == INSTANCE Consent WITH MaxRequests <- Requests["consent"]
Si == INSTANCE SignIn WITH MaxRequests <- Requests["signin"]
Sf == INSTANCE SecondFactor WITH MaxRequests <- Requests["factor"]
Gw == INSTANCE Gateway WITH at <- place

ASSUME TalkAssumption ==
  /\ MaxMessages \in Nat /\ Rc!ReceiptsAssumption /\ No!NoticesAssumption /\ Gr!GroupsAssumption
  /\ Rp!ReportsAssumption /\ Ga!GalleriesAssumption /\ Co!CommentsAssumption
  /\ Cs!ConsentAssumption /\ Si!SignInAssumption /\ Sf!SecondFactorAssumption
  /\ Gw!GatewayAssumption

-----------------------------------------------------------------------------
(* The parts. *)

Blank ==
  /\ part # "keys" =>
       /\ keks = None /\ cache = None /\ messages = None /\ purged = None
       /\ pass = None /\ pending = None /\ passed = None /\ unsure = None
       /\ minted = None /\ sends = None
  /\ part # "receipts" =>
       /\ socket = None /\ sent = None /\ deleted = None /\ channel = None
       /\ marking = None /\ delivered = None /\ read = None /\ waiting = None
       /\ pushed = None /\ received = None /\ blind = None /\ member = None
  /\ part # "notices" =>
       /\ followed = None /\ blocked = None /\ rows = None /\ made = None
       /\ pushes = None /\ crossed = None /\ seen = None /\ cursor = None /\ stay = None
  /\ part # "groups" =>
       /\ admin = None /\ strayed = None /\ keys = None /\ direct = None /\ answers = None
  /\ part # "reports" =>
       /\ report = None /\ files = None /\ punished = None /\ sweep = None
       /\ trail = None /\ takenBy = None
  /\ part # "galleries" => blobs = None /\ taken = None /\ missed = None
  /\ part # "comments" => comment = None /\ likes = None
  /\ part # "consent" =>
       /\ revoked = None /\ logged = None /\ located = None /\ link = None
       /\ snapshot = None /\ valid = None /\ issued = None /\ sync = None
       /\ slips = None /\ removed = None /\ lost = None /\ since = None
  /\ part # "signin" => social = None /\ met = None /\ split = None /\ overtaken = None
  /\ part # "factor" =>
       /\ secret = None /\ enabled = None /\ codes = None /\ secrets = None
       /\ batches = None /\ proven = None /\ uses = None
  /\ part # "gateway" =>
       /\ place = None /\ state = None /\ count = None /\ burst = None /\ banned = None
       /\ announcing = None
  /\ part \notin {"keys", "groups"} => active = None
  /\ part \notin {"keys", "galleries", "signin"} => row = None
  /\ part \in {"receipts", "gateway"} => op = None
  /\ part \notin {"keys", "receipts", "consent", "gateway"} => faults = None
  /\ part \in {"keys", "receipts", "gateway"} => requests = None
  /\ part \notin {"reports", "galleries"} => crashes = None
  /\ part \notin {"notices", "consent"} => consent = None
  /\ part \notin {"groups", "comments"} => hidden = None
  /\ part \notin {"galleries", "comments"} => there = None
  /\ part \notin {"galleries", "factor"} => raced = None
  /\ part \notin {"reports", "gateway"} => shown = None
  /\ part \notin {"consent", "gateway"} => overlapped = None

Idle ==
  /\ part # "keys" => UNCHANGED ofKeys
  /\ part # "receipts" => UNCHANGED ofReceipts
  /\ part # "notices" => UNCHANGED ofNotices
  /\ part # "groups" => UNCHANGED ofGroups
  /\ part # "reports" => UNCHANGED ofReports
  /\ part # "galleries" => UNCHANGED ofGalleries
  /\ part # "comments" => UNCHANGED ofComments
  /\ part # "consent" => UNCHANGED ofConsent
  /\ part # "signin" => UNCHANGED ofSignIn
  /\ part # "factor" => UNCHANGED ofFactor
  /\ part # "gateway" => UNCHANGED ofGateway
  /\ part \notin {"keys", "groups"} => UNCHANGED active
  /\ part \notin {"keys", "galleries", "signin"} => UNCHANGED row
  /\ part \in {"receipts", "gateway"} => UNCHANGED op
  /\ part \notin {"keys", "receipts", "consent", "gateway"} => UNCHANGED faults
  /\ part \in {"keys", "receipts", "gateway"} => UNCHANGED requests
  /\ part \notin {"reports", "galleries"} => UNCHANGED crashes
  /\ part \notin {"notices", "consent"} => UNCHANGED consent
  /\ part \notin {"groups", "comments"} => UNCHANGED hidden
  /\ part \notin {"galleries", "comments"} => UNCHANGED there
  /\ part \notin {"galleries", "factor"} => UNCHANGED raced
  /\ part \notin {"reports", "gateway"} => UNCHANGED shown
  /\ part \notin {"consent", "gateway"} => UNCHANGED overlapped

\* Bound: a second send, or a third version of the KEK.
KeysBound == sends' < MaxSends \/ \A i \in Instances : active'[i] < 3

\* Bound: it ends when the member has left, and only the first message is deleted.
ReceiptsBound == member /\ deleted' \subseteq {1}

\* Bound: requests and errors together.
ConsentBound == requests' + faults' <= Requests["consent"]

MCInit ==
  /\ \/ part = "keys" /\ Init
     \/ part = "receipts" /\ Rc!Init
     \/ part = "notices" /\ No!Init
     \/ part = "groups" /\ Gr!Init
     \/ part = "reports" /\ Rp!Init
     \/ part = "galleries" /\ Ga!Init
     \/ part = "comments" /\ Co!Init
     \/ part = "consent" /\ Cs!Init
     \/ part = "signin" /\ Si!Init
     \/ part = "factor" /\ Sf!Init
     \/ part = "gateway" /\ Gw!Init
  /\ Blank

MCNext ==
  /\ \/ part = "keys" /\ Next /\ KeysBound
     \/ part = "receipts" /\ Rc!Next /\ ReceiptsBound
     \/ part = "notices" /\ No!Next
     \/ part = "groups" /\ Gr!Next
     \/ part = "reports" /\ Rp!Next
     \/ part = "galleries" /\ Ga!Next
     \/ part = "comments" /\ Co!Next
     \/ part = "consent" /\ Cs!Next /\ ConsentBound
     \/ part = "signin" /\ Si!Next
     \/ part = "factor" /\ Sf!Next
     \/ part = "gateway" /\ Gw!Next
  /\ Idle
  /\ UNCHANGED part

MCSpec == MCInit /\ [][MCNext]_all

Symmetry == Permutations(Slots) \cup Permutations(Instances)

-----------------------------------------------------------------------------
(* Properties. *)

\* What an instance wrote with a key every instance can open, and no key that a
\* row still needs is dropped.
KeysHold == part = "keys" => TypeOK /\ OneKeyOpensAll /\ NeededKeysHeld

\* Neither an envelope nor a watermark of a conversation is ever taken back.
NothingGoesBack ==
  [][/\ part = "keys" => EnvelopeAdvances
     /\ part = "receipts" => Rc!Advances]_all

\* What a member has not seen was pushed to them; a notice is kept once, forgotten
\* with its follow and missed by no reader; a group keeps an administrator and two
\* people have one direct conversation; the gateway keeps its caps and ends with the
\* true presence.
ConversationsHold ==
  /\ part = "receipts" => Rc!TypeOK /\ Rc!UnseenIsPushed
  /\ part = "notices" => /\ No!TypeOK /\ No!OneRowPerKey /\ No!UnfollowForgets
                         /\ No!ReaderMissesNone
  /\ part = "groups" => Gr!TypeOK /\ Gr!GroupKeepsAdmin /\ Gr!OneDirectPerPair
  /\ part = "gateway" => /\ Gw!TypeOK /\ Gw!SocketsCapped /\ Gw!FloodBounded
                         /\ Gw!PresenceSettles

\* A removal by moderation leaves the evidence, and the trail of a report is that
\* of its status.
EvidenceHolds ==
  part = "reports" => Rp!TypeOK /\ Rp!RemovalSparesEvidence /\ Rp!TrailIsTrue

\* Files and rows of a gallery match and keep their order; threads have one level
\* and their counts are those of what is listed.
ContentHolds ==
  /\ part = "galleries" => /\ Ga!TypeOK /\ Ga!BlobsMatchRows /\ Ga!LimitPlusRaces
                           /\ Ga!PositionsDistinct
  /\ part = "comments" => Co!TypeOK /\ Co!ThreadsAreShallow /\ Co!CountsMatchLists

\* Consents replay from their trail and a withdrawal forgets what it covered; an
\* identity opens one account, and a second factor that is on is the one verified.
PersonHolds ==
  /\ part = "consent" => /\ Cs!TypeOK /\ Cs!TrailReplays /\ Cs!WithdrawalForgets
                         /\ Cs!TokenKept
  /\ part = "signin" => Si!TypeOK /\ Si!OneWayIn
  /\ part = "factor" => Sf!TypeOK /\ Sf!FactorHolds
=============================================================================
