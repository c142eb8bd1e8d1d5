-------------------------------- MODULE Chat --------------------------------
(***************************************************************************)
(* Messages of one conversation (src/modules/chat): sending with an        *)
(* idempotency key, the storage quota, edits, deletions, and the files     *)
(* that messages point to.                                                 *)
(*                                                                         *)
(* Rows are in PostgreSQL and files in an object store: no transaction     *)
(* covers both, and handlers interleave between their awaited statements.  *)
(* Images and audio differ in nothing a property sees: both are MEDIA, a   *)
(* file the server uploads under a fresh name.  The file of a VIDEO is     *)
(* uploaded by the client beforehand, and a retry names it again.  Every   *)
(* attachment counts as one unit of quota.                                 *)
(***************************************************************************)
EXTENDS Integers, FiniteSets

CONSTANTS
    Users,          \* accounts
    Requests,       \* slots for handlers in flight
    Keys,           \* Idempotency-Key values
    NoKey,          \* the header is absent
    Msgs,           \* message ids that may be issued
    NoMsg,
    Files,          \* object names that may be issued
    NoFile,
    Quota,          \* CHAT_USER_STORAGE_QUOTA_BYTES, in attachments
    Standings,      \* bound: what the conversation may let its users do
    MaxCalls        \* bound: requests that arrive

ASSUME NullsAssumption == NoKey \notin Keys /\ NoMsg \notin Msgs /\ NoFile \notin Files
ASSUME PoolsAssumption == IsFiniteSet(Msgs) /\ {Quota, MaxCalls} \subseteq Nat
ASSUME UsersAssumption == Users # {}

VARIABLES
    role,           \* what the conversation lets each user do
    message,        \* tables messages and message_attachments
    stored,         \* objects in the store
    issued,         \* object names handed out so far
    videos,         \* those of them that a client got to upload a video
    published,      \* how often each message was announced as new
    req,            \* what each slot is doing
    calls,          \* requests that have arrived
    shown,          \* history: keys under which each video was presented
    again,          \* history: videos presented more than once
    clean           \* history: no handler was cut short, no delete failed

vars == <<role, message, stored, issued, videos, published, req, calls,
          shown, again, clean>>
history == <<shown, again, clean>>

Kind == {"TEXT", "MEDIA", "VIDEO"}

\* A READER is active in a DIRECT conversation that a block closed.
Role == {"ADMIN", "MEMBER", "READER", "OUT"}

ASSUME StandingsAssumption == Standings # {} /\ Standings \subseteq [Users -> Role]

Message == [state: {"none", "live", "deleted"}, sender: Users, kind: Kind,
            key: Keys \cup {NoKey}, file: Files \cup {NoFile},
            poster: Files \cup {NoFile}, edited: BOOLEAN]

Request == [pc: {"idle", "lookup", "quota", "upload", "asset", "poster",
                 "insert", "conflict", "drop", "publish", "edit", "remove",
                 "media"},
            user: Users, kind: Kind, key: Keys \cup {NoKey},
            file: Files \cup {NoFile}, poster: Files \cup {NoFile},
            msg: Msgs \cup {NoMsg}]

Idle == [pc |-> "idle", user |-> CHOOSE u \in Users : TRUE, kind |-> "TEXT",
         key |-> NoKey, file |-> NoFile, poster |-> NoFile, msg |-> NoMsg]

NoMessage == [state |-> "none", sender |-> CHOOSE u \in Users : TRUE,
              kind |-> "TEXT", key |-> NoKey, file |-> NoFile,
              poster |-> NoFile, edited |-> FALSE]

Live(m) == message[m].state = "live"
Row(m) == message[m].state # "none"

\* sumUserActiveMediaBytes.
ActiveMedia(u) ==
    {m \in Msgs : Live(m) /\ message[m].sender = u /\ message[m].kind # "TEXT"}
Used(u) == Cardinality(ActiveMedia(u))

\* findMessageByIdempotencyKey.
Existing(u, k) ==
    {m \in Msgs : Row(m) /\ message[m].sender = u /\ message[m].key = k
                  /\ k # NoKey}

Goto(r, pc) == req' = [req EXCEPT ![r].pc = pc]
Done(r) == req' = [req EXCEPT ![r] = Idle]

-----------------------------------------------------------------------------
Init ==
    /\ role \in Standings
    /\ message = [m \in Msgs |-> NoMessage]
    /\ stored = {} /\ issued = {} /\ videos = {}
    /\ published = [m \in Msgs |-> 0]
    /\ req = [r \in Requests |-> Idle]
    /\ shown = [f \in Files |-> {}] /\ again = {} /\ clean = TRUE
    /\ calls = 0

\* The group operations, and blocks in a DIRECT conversation.
ChangeRole(to) ==
    /\ role' = to
    /\ UNCHANGED <<message, stored, issued, videos, published, req, calls, history>>

-----------------------------------------------------------------------------
(* Sending.                                                                *)

MaySend(u) == role[u] \in {"ADMIN", "MEMBER"}

\* A signed PUT, and the upload the client makes with it.
createVideoUploadSignature(u, f) ==
    /\ MaySend(u) /\ f \notin issued
    /\ issued' = issued \cup {f}
    /\ videos' = videos \cup {f}
    /\ stored' = stored \cup {f}
    /\ UNCHANGED <<role, message, published, req, calls, history>>

\* A video may be presented by anyone who knows its name, any number of times;
\* whether it is still there is asked later (getAsset).
authorizeSend(r, u, kind, k, f) ==
    /\ req[r].pc = "idle" /\ MaySend(u)
    /\ IF kind = "VIDEO" THEN f \in videos ELSE f = NoFile
    /\ calls < MaxCalls /\ calls' = calls + 1
    /\ req' = [req EXCEPT ![r] = [Idle EXCEPT !.pc = "lookup", !.user = u,
                 !.kind = kind, !.key = k, !.file = f]]
    /\ UNCHANGED <<role, message, stored, issued, videos, published, history>>

findIdempotentMessage(r) ==
    /\ req[r].pc = "lookup"
    /\ \/ /\ Existing(req[r].user, req[r].key) # {}
          /\ Done(r)
       \/ /\ Existing(req[r].user, req[r].key) = {}
          /\ Goto(r, CASE req[r].kind = "TEXT" -> "insert"
                       [] req[r].kind = "MEDIA" -> "quota"
                       [] OTHER -> "asset")
    /\ UNCHANGED <<role, message, stored, issued, videos, published, calls, history>>

assertQuotaAvailable(r) ==
    /\ req[r].pc = "quota"
    /\ IF Used(req[r].user) >= Quota THEN Done(r) ELSE Goto(r, "upload")
    /\ UNCHANGED <<role, message, stored, issued, videos, published, calls, history>>

\* uploadMessageImage, uploadMessageAudio.
uploadMedia(r) ==
    /\ req[r].pc = "upload"
    /\ \E f \in Files \ issued :
        /\ issued' = issued \cup {f}
        /\ stored' = stored \cup {f}
        /\ req' = [req EXCEPT ![r].pc = "insert", ![r].file = f]
    /\ UNCHANGED <<role, message, videos, published, calls, history>>

getAsset(r) ==
    /\ req[r].pc = "asset"
    /\ LET f == req[r].file IN
       IF f \in stored
       THEN /\ Goto(r, "poster")
            /\ again' = IF shown[f] = {} THEN again ELSE again \cup {f}
            /\ shown' = [shown EXCEPT ![f] = @ \cup {req[r].key}]
       ELSE Done(r) /\ UNCHANGED <<shown, again>>
    /\ UNCHANGED <<role, message, stored, issued, videos, published, calls, clean>>

uploadPoster(r) ==
    /\ req[r].pc = "poster"
    /\ \/ /\ Goto(r, "insert")
          /\ UNCHANGED <<stored, issued>>
       \/ \E f \in Files \ issued :
            /\ issued' = issued \cup {f}
            /\ stored' = stored \cup {f}
            /\ req' = [req EXCEPT ![r].pc = "insert", ![r].poster = f]
    /\ UNCHANGED <<role, message, videos, published, calls, history>>

\* Variant: trusts the quota asked before the upload.
FitsUnlocked(r) == TRUE

Fits(r) == req[r].kind = "TEXT" \/ Used(req[r].user) + 1 <= Quota

\* Variant: no unique index behind the key.
UniqueNot(r) == TRUE

Unique(r) == Existing(req[r].user, req[r].key) = {}

\* createTextMessage and createAttachmentMessage: one transaction, in which
\* the lock of the sender covers both the sum and the insert.
insertMessage(r) ==
    /\ req[r].pc = "insert" /\ Fits(r) /\ Unique(r)
    /\ \E m \in Msgs :
        /\ ~Row(m)
        /\ message' = [message EXCEPT ![m] =
             [state |-> "live", sender |-> req[r].user, kind |-> req[r].kind,
              key |-> req[r].key, file |-> req[r].file,
              poster |-> req[r].poster, edited |-> FALSE]]
        /\ req' = [req EXCEPT ![r].pc = "publish", ![r].msg = m]
    /\ UNCHANGED <<role, stored, issued, videos, published, calls, history>>

\* QuotaExceededError comes before the unique index is tried.
QuotaExceeded(r) ==
    /\ req[r].pc = "insert" /\ ~Fits(r)
    /\ Goto(r, "drop")
    /\ UNCHANGED <<role, message, stored, issued, videos, published, calls, history>>

UniqueViolation(r) ==
    /\ req[r].pc = "insert" /\ Fits(r) /\ ~Unique(r)
    /\ Goto(r, "conflict")
    /\ UNCHANGED <<role, message, stored, issued, videos, published, calls, history>>

\* Any other error of the insert, which leaves no row.
InsertError(r) ==
    /\ req[r].pc = "insert"
    /\ IF req[r].kind = "TEXT" THEN Done(r) ELSE Goto(r, "drop")
    /\ UNCHANGED <<role, message, stored, issued, videos, published, calls, history>>

\* deleteChatMedia of what the request was about to attach.
dropMedia(r) ==
    /\ req[r].pc = "drop"
    /\ stored' = stored \ {req[r].file, req[r].poster}
    /\ Done(r)
    /\ UNCHANGED <<role, message, issued, videos, published, calls, history>>

\* Variant: the loser leaves its upload behind.
resolveConflictLazily(r) ==
    /\ req[r].pc = "conflict"
    /\ Done(r)
    /\ UNCHANGED <<role, message, stored, issued, videos, published, calls, history>>

\* The winner answers the request. The loser deletes its own upload, but not
\* the video, which the winner points to.
resolveIdempotencyConflict(r) ==
    /\ req[r].pc = "conflict"
    /\ stored' = stored \ (CASE req[r].kind = "TEXT" -> {}
                             [] req[r].kind = "MEDIA" -> {req[r].file}
                             [] OTHER -> {req[r].poster})
    /\ Done(r)
    /\ UNCHANGED <<role, message, issued, videos, published, calls, history>>

publishMessage(r) ==
    /\ req[r].pc = "publish"
    /\ published' = [published EXCEPT ![req[r].msg] = @ + 1]
    /\ Done(r)
    /\ UNCHANGED <<role, message, stored, issued, videos, calls, history>>

-----------------------------------------------------------------------------
(* Editing and deleting.                                                   *)

Active(u) == role[u] # "OUT"

editMessage(r, u, m) ==
    /\ req[r].pc = "idle" /\ Active(u)
    /\ Live(m) /\ message[m].sender = u /\ message[m].kind = "TEXT"
    /\ calls < MaxCalls /\ calls' = calls + 1
    /\ req' = [req EXCEPT ![r] = [Idle EXCEPT !.pc = "edit", !.user = u, !.msg = m]]
    /\ UNCHANGED <<role, message, stored, issued, videos, published, history>>

\* Variant: no deletedAt in the update's where.
editMessageContentAnyway(r) ==
    /\ req[r].pc = "edit"
    /\ message' = [message EXCEPT ![req[r].msg].edited = TRUE]
    /\ Done(r)
    /\ UNCHANGED <<role, stored, issued, videos, published, calls, history>>

\* A message deleted since the check is no longer found.
editMessageContent(r) ==
    /\ req[r].pc = "edit"
    /\ message' = IF Live(req[r].msg)
                  THEN [message EXCEPT ![req[r].msg].edited = TRUE] ELSE message
    /\ Done(r)
    /\ UNCHANGED <<role, stored, issued, videos, published, calls, history>>

\* The author, or an administrator of the group.
deleteMessage(r, u, m) ==
    /\ req[r].pc = "idle" /\ Active(u) /\ Live(m)
    /\ message[m].sender = u \/ role[u] = "ADMIN"
    /\ calls < MaxCalls /\ calls' = calls + 1
    /\ req' = [req EXCEPT ![r] = [Idle EXCEPT !.pc = "remove", !.user = u, !.msg = m]]
    /\ UNCHANGED <<role, message, stored, issued, videos, published, history>>

\* Variant: the files go first, the row later.
softDeleteFilesFirst(r) ==
    /\ req[r].pc = "remove"
    /\ stored' = stored \ {message[req[r].msg].file, message[req[r].msg].poster}
    /\ Goto(r, "media")
    /\ UNCHANGED <<role, message, issued, videos, published, calls, history>>

softDeleteMessage(r) ==
    /\ req[r].pc = "remove"
    /\ message' = [message EXCEPT ![req[r].msg].state = "deleted"]
    /\ Goto(r, "media")
    /\ UNCHANGED <<role, stored, issued, videos, published, calls, history>>

\* findMessageAttachments, then deleteChatMedia of the file and its poster.
deleteAttachments(r) ==
    /\ req[r].pc = "media"
    /\ stored' = stored \ {message[req[r].msg].file, message[req[r].msg].poster}
    /\ Done(r)
    /\ UNCHANGED <<role, message, issued, videos, published, calls, history>>

\* A crash or an error, or a delete of the store that fails and is only logged.
Fail(r) ==
    /\ req[r].pc # "idle"
    /\ Done(r)
    /\ clean' = FALSE
    /\ UNCHANGED <<role, message, stored, issued, videos, published, calls, shown, again>>

-----------------------------------------------------------------------------
Arrive(r) ==
    \E u \in Users :
        \/ \E kind \in Kind, k \in Keys \cup {NoKey}, f \in Files \cup {NoFile} :
             authorizeSend(r, u, kind, k, f)
        \/ \E m \in Msgs : editMessage(r, u, m) \/ deleteMessage(r, u, m)

Insert(r) ==
    insertMessage(r) \/ QuotaExceeded(r) \/ UniqueViolation(r) \/ InsertError(r)

Step(r) ==
    \/ findIdempotentMessage(r) \/ assertQuotaAvailable(r) \/ uploadMedia(r)
    \/ getAsset(r) \/ uploadPoster(r) \/ Insert(r) \/ dropMedia(r)
    \/ resolveIdempotencyConflict(r) \/ publishMessage(r)
    \/ editMessageContent(r) \/ softDeleteMessage(r) \/ deleteAttachments(r)

Environment ==
    \/ \E to \in Standings : ChangeRole(to)
    \/ \E u \in Users, f \in Files : createVideoUploadSignature(u, f)

Next ==
    \/ Environment
    \/ \E r \in Requests : Arrive(r) \/ Step(r) \/ Fail(r)

Spec == Init /\ [][Next]_vars

-----------------------------------------------------------------------------
(* Properties.                                                             *)

\* Every variable keeps its type, and a handler that still has to announce,
\* edit or remove a message has one to work on.
TypeOK ==
    /\ role \in [Users -> Role]
    /\ message \in [Msgs -> Message]
    /\ stored \subseteq issued /\ videos \subseteq issued
    /\ issued \subseteq Files
    /\ published \in [Msgs -> Nat]
    /\ req \in [Requests -> Request]
    /\ shown \in [Files -> SUBSET (Keys \cup {NoKey})]
    /\ again \subseteq Files /\ clean \in BOOLEAN
    /\ calls \in 0..MaxCalls
    /\ \A r \in Requests :
        req[r].pc \in {"publish", "edit", "remove", "media"} => req[r].msg \in Msgs

\* A retried send, alone or next to the first one, neither makes a second
\* message nor announces the first again: findIdempotentMessage, the unique
\* index, and resolveIdempotencyConflict, which does not publish.
OncePerKey ==
    /\ \A m, n \in Msgs :
        Row(m) /\ Row(n) /\ message[m].key = message[n].key
               /\ message[m].sender = message[n].sender /\ message[m].key # NoKey
            => m = n
    /\ \A m \in Msgs : published[m] <= 1

\* However many uploads of a sender end together, what is kept of them stays
\* within the quota: the advisory lock in createAttachmentMessage.
QuotaKept == \A u \in Users : Used(u) <= Quota

\* A deleted message never changes again, nor does it come back: an edit
\* that read it before the deletion finds nothing to update.
TombstonesRest ==
    [][\A m \in Msgs :
        message[m].state = "deleted" => message'[m] = message[m]]_vars

\* What a message that is still shown points to is in the store, but for a
\* video that was presented more than once.
LiveMediaStored ==
    \A m \in Msgs :
        Live(m) => /\ message[m].poster \in stored \cup {NoFile}
                   /\ message[m].file \in stored \cup again \cup {NoFile}

\* When nothing is in flight, and no handler was cut short and no delete of
\* the store failed, nothing is kept for nobody: what the server uploaded
\* belongs to a message still shown, and a deleted message keeps no file.
NoOrphans ==
    clean /\ (\A r \in Requests : req[r].pc = "idle") =>
        /\ \A f \in stored \ videos :
            \E m \in Msgs : Live(m) /\ f \in {message[m].file, message[m].poster}
        /\ \A m \in Msgs :
            message[m].state = "deleted" =>
                {message[m].file, message[m].poster} \cap stored = {}

\* A client that retries presents the same video under the same key; the
\* retry does not delete the video of the message that won ("deleta-la
\* quebraria a mensagem vencedora").
RetryKeepsVideo ==
    \A m \in Msgs :
        Live(m) /\ message[m].kind = "VIDEO" /\ message[m].key # NoKey
                /\ shown[message[m].file] = {message[m].key}
            => message[m].file \in stored

=============================================================================
