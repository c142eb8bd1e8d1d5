------------------------------ MODULE Reports ------------------------------
(***************************************************************************)
(* Reports of content and of people, and the evidence kept of a reported   *)
(* message.  The report of a message and its evidence (a sealed snapshot,  *)
(* with the names of the files that must not be deleted) are one           *)
(* transaction.  The handlers are checks and writes with awaits between    *)
(* them, so each request is a slot that other requests interleave with and *)
(* that a crash may cut short.  A message stays when it is removed; a post *)
(* stands for the content whose row goes (comments and events too, and     *)
(* photos of a profile), which sets the reports of it to no target.  The   *)
(* name of a content is the name of its file too.                          *)
(***************************************************************************)
EXTENDS Naturals, FiniteSets

CONSTANTS Reporters, Messages, Posts, People,
          Ids,          \* the reports there can be
          Slots,        \* requests under way at once
          MaxRequests,  \* bound on requests
          MaxCrashes,   \* bound on crashes
          None

VARIABLES
  report,        \* by whom, on what, status, evidence
  shown,         \* content that is there: messages not deleted, rows of posts
  files,         \* files in the storage
  punished,      \* <<person, status>>: what moderation ever did
  op,            \* what each request does next
  sweep,         \* the report whose evidence the retention is emptying
  trail,         \* statuses each report ever had
  takenBy,       \* what took a file: the author, a removal, a deletion, the retention
  requests, crashes

moderation == <<report, shown, files, punished, trail, takenBy>>
vars == <<moderation, op, sweep, requests, crashes>>

Contents == Messages \cup Posts
Targets == Contents \cup People

ReportsAssumption ==
  /\ Messages \cap Posts = {} /\ People \cap Contents = {}
  /\ None \notin Targets \cup Reporters \cup {"removal"}

Open == {"PENDING", "REVIEWED"}
WithAction == {"RESOLVED_REMOVED", "RESOLVED_SUSPENDED", "RESOLVED_BANNED"}
NoReport == [by |-> None, on |-> None, status |-> "none", proof |-> "none"]
Free == [at |-> "idle", id |-> None, by |-> None, on |-> None, as |-> None]
Deleted == [NoReport EXCEPT !.status = "deleted"]
Exists(r) == report[r].status \notin {"none", "deleted"}

TypeOK ==
  /\ \A r \in Ids : /\ report[r].by \in Reporters \cup {None}
                    /\ report[r].on \in Targets \cup {None}
                    /\ report[r].status \in {"none", "deleted", "RESOLVED_INVALID"} \cup Open \cup WithAction
                    /\ report[r].proof \in {"none", "kept", "purged"}
  /\ shown \subseteq Contents /\ files \subseteq Contents
  /\ punished \subseteq People \X WithAction
  /\ \A s \in Slots : op[s].at \in {"idle", "create", "remove", "row", "media", "delete",
                                    "unlink", "close", "mine"}
  /\ sweep.at \in {"idle", "row"} /\ sweep.id \in Ids \cup {None}

Init ==
  /\ report = [r \in Ids |-> NoReport] /\ shown = Contents /\ files = Contents
  /\ punished = {} /\ trail = [r \in Ids |-> {}] /\ takenBy = [c \in Contents |-> None]
  /\ op = [s \in Slots |-> Free] /\ sweep = [at |-> "idle", id |-> None]
  /\ requests = 0 /\ crashes = 0

-----------------------------------------------------------------------------
(* What the handlers are made of. *)

Begin(s, o) ==
  /\ op[s].at = "idle" /\ requests < MaxRequests /\ requests' = requests + 1
  /\ op' = [op EXCEPT ![s] = o] /\ UNCHANGED <<sweep, crashes>>
Goes(s, at) == op' = [op EXCEPT ![s].at = at] /\ UNCHANGED <<sweep, requests, crashes>>
Ends(s) == op' = [op EXCEPT ![s] = Free] /\ UNCHANGED <<sweep, requests, crashes>>

\* One row per reporter, target and status: reports_reporter_*_status_unique.
UniqueWith(r, by, on, status) ==
  \A q \in Ids \ {r} : report[q].by = by /\ report[q].on = on /\ on # None
                       => report[q].status # status

Resolvable(r, status) == Exists(r) /\ UniqueWith(r, report[r].by, report[r].on, status)

updateReportResolution(r, status) ==
  /\ Resolvable(r, status)
  /\ report' = [report EXCEPT ![r].status = status]
  /\ trail' = [trail EXCEPT ![r] = @ \cup {status}]

Takes(c, who) ==
  /\ files' = files \ {c}
  /\ takenBy' = IF c \in files THEN [takenBy EXCEPT ![c] = who] ELSE takenBy

-----------------------------------------------------------------------------
(* Reporting. *)

\* The target is there.  A message that was removed can still be reported.
Reportable(on) == on \in Posts => on \in shown

AlreadyOpen(by, on) ==
  \E r \in Ids : report[r].by = by /\ report[r].on = on /\ report[r].status \in Open

\* reportEvent .. reportUser: the guards, and then the insert.
reportTarget(s, by, on) ==
  /\ Reportable(on) /\ ~AlreadyOpen(by, on)
  /\ Begin(s, [Free EXCEPT !.at = "create", !.by = by, !.on = on])
  /\ UNCHANGED moderation

\* The snapshot of a message retains its files, deleted or not.
Snapshot(on) == IF on \in Messages THEN "kept" ELSE "none"

NewReport(by, on) == [by |-> by, on |-> on, status |-> "PENDING", proof |-> Snapshot(on)]

createReport(s) ==
  /\ op[s].at = "create"
  /\ IF UniqueWith(None, op[s].by, op[s].on, "PENDING") /\ Reportable(op[s].on)
     THEN \E r \in Ids :
            /\ report[r] = NoReport
            /\ report' = [report EXCEPT ![r] = NewReport(op[s].by, op[s].on)]
            /\ trail' = [trail EXCEPT ![r] = {"PENDING"}]
     ELSE UNCHANGED <<report, trail>>
  /\ Ends(s) /\ UNCHANGED <<shown, files, punished, takenBy>>

-----------------------------------------------------------------------------
(* Moderating. *)

\* An administrator writes a status, whatever the report had.
resolveReport(r, status) ==
  /\ requests < MaxRequests /\ requests' = requests + 1
  /\ updateReportResolution(r, status)
  /\ UNCHANGED <<shown, files, punished, takenBy, op, sweep, crashes>>

\* The content is removed and the report left as it is.
RemovedOnly(r) == Exists(r) /\ UNCHANGED <<report, trail>>

\* The status is written before anything is deleted.
ResolvedFirst(r) == updateReportResolution(r, "RESOLVED_REMOVED")

removeReportTarget(s, r) ==
  /\ Exists(r) /\ report[r].on \in Contents
  /\ ResolvedFirst(r)
  /\ Begin(s, [Free EXCEPT !.at = "remove", !.id = r, !.on = report[r].on])
  /\ UNCHANGED <<shown, files, punished, takenBy>>

\* removeReportedPost, Event and UserPhoto: the files go first, then the row,
\* whose reports lose their target.
removeFiles(s) ==
  /\ op[s].at = "remove" /\ op[s].on \in Posts
  /\ Takes(op[s].on, "removal") /\ Goes(s, "row")
  /\ UNCHANGED <<report, shown, punished, trail>>

deleteRow(s) ==
  /\ op[s].at = "row" /\ Ends(s)
  /\ shown' = shown \ {op[s].on}
  /\ report' = [r \in Ids |-> IF report[r].on = op[s].on
                              THEN [report[r] EXCEPT !.on = None] ELSE report[r]]
  /\ UNCHANGED <<files, punished, trail, takenBy>>

removeReportedMessage(s) ==
  /\ op[s].at = "remove" /\ op[s].on \in Messages
  /\ shown' = shown \ {op[s].on} /\ Goes(s, "media")
  /\ UNCHANGED <<report, files, punished, trail, takenBy>>

\* The files of the evidence are not spared.
ForgetsRetained(s) == FALSE

\* findRetainedMediaKeys: what the evidence of this report retains.
Retained(s) == report[op[s].id].proof = "kept"

removeMedia(s) ==
  /\ op[s].at = "media" /\ Ends(s)
  /\ IF Retained(s) THEN UNCHANGED <<files, takenBy>>
     ELSE Takes(op[s].on, IF Exists(op[s].id) THEN "removal" ELSE "deletion")
  /\ UNCHANGED <<report, shown, punished, trail>>

\* A person is punished first; the report is closed after.
moderateReportedUser(s, r, status) ==
  /\ Exists(r) /\ report[r].on \in People
  /\ punished' = punished \cup {<<report[r].on, status>>}
  /\ Begin(s, [Free EXCEPT !.at = "close", !.id = r, !.as = status])
  /\ UNCHANGED <<report, shown, files, trail, takenBy>>

closeReport(s) ==
  /\ op[s].at = "close" /\ Ends(s)
  /\ \/ updateReportResolution(op[s].id, op[s].as)
     \/ ~Resolvable(op[s].id, op[s].as) /\ UNCHANGED <<report, trail>>
  /\ UNCHANGED <<shown, files, punished, takenBy>>

\* A report that was acted on and has evidence is refused.
removeReport(s, r) ==
  /\ Exists(r) /\ (report[r].proof # "none" => report[r].status \notin WithAction)
  /\ Begin(s, [Free EXCEPT !.at = "delete", !.id = r, !.as = report[r].status])
  /\ UNCHANGED moderation

\* The keys are read before the cascade takes the evidence; the files go after.
deleteReportById(s) ==
  /\ op[s].at = "delete" /\ Exists(op[s].id)
  /\ op' = [op EXCEPT ![s] = IF Retained(s) THEN [Free EXCEPT !.at = "unlink", !.on = report[op[s].id].on]
                             ELSE Free]
  /\ report' = [report EXCEPT ![op[s].id] = Deleted]
  /\ trail' = [trail EXCEPT ![op[s].id] = {}]
  /\ UNCHANGED <<shown, files, punished, takenBy, sweep, requests, crashes>>

\* Somebody deleted the report in the meantime: P2025.
deleteFails(s) ==
  /\ op[s].at = "delete" /\ ~Exists(op[s].id) /\ Ends(s) /\ UNCHANGED moderation

unlinkRetained(s) ==
  /\ op[s].at = "unlink" /\ Ends(s) /\ Takes(op[s].on, "deletion")
  /\ UNCHANGED <<report, shown, punished, trail>>

-----------------------------------------------------------------------------
(* The author, the retention, crashes. *)

\* deleteMessage of the chat marks the message, then deletes its files.
deleteMessage(s, m) ==
  /\ m \in shown \cap Messages /\ shown' = shown \ {m}
  /\ Begin(s, [Free EXCEPT !.at = "mine", !.on = m])
  /\ UNCHANGED <<report, files, punished, trail, takenBy>>

deleteOwnMedia(s) ==
  /\ op[s].at = "mine" /\ Ends(s) /\ Takes(op[s].on, "author")
  /\ UNCHANGED <<report, shown, punished, trail>>

\* Only evidence whose files are still there.
DueWithMedia(r) == report[r].proof = "kept" /\ report[r].on \in files

\* purgedAt is not set; any evidence comes of age.
Due(r) == report[r].proof = "kept"

\* The pass deletes the files an evidence retains, then empties its row.
purgeMedia ==
  /\ sweep.at = "idle"
  /\ \E r \in Ids : /\ Due(r) /\ Takes(report[r].on, "retention")
                    /\ sweep' = [at |-> "row", id |-> r]
  /\ UNCHANGED <<report, shown, punished, trail, op, requests, crashes>>

purgeRow ==
  /\ sweep.at = "row" /\ sweep' = [at |-> "idle", id |-> None]
  /\ report' = IF Due(sweep.id) THEN [report EXCEPT ![sweep.id].proof = "purged"] ELSE report
  /\ UNCHANGED <<shown, files, punished, trail, takenBy, op, requests, crashes>>

crash ==
  /\ crashes < MaxCrashes /\ crashes' = crashes + 1
  /\ op' = [s \in Slots |-> Free] /\ sweep' = [at |-> "idle", id |-> None]
  /\ UNCHANGED <<moderation, requests>>

Next ==
  \/ \E s \in Slots, by \in Reporters, on \in Targets : reportTarget(s, by, on)
  \/ \E r \in Ids, st \in {"REVIEWED", "RESOLVED_INVALID", "RESOLVED_REMOVED"} : resolveReport(r, st)
  \/ \E s \in Slots, r \in Ids : removeReportTarget(s, r) \/ removeReport(s, r)
  \/ \E s \in Slots, r \in Ids, st \in {"RESOLVED_SUSPENDED", "RESOLVED_BANNED"} :
       moderateReportedUser(s, r, st)
  \/ \E s \in Slots : \/ createReport(s) \/ removeFiles(s) \/ deleteRow(s)
                      \/ removeReportedMessage(s) \/ removeMedia(s) \/ closeReport(s)
                      \/ deleteReportById(s) \/ deleteFails(s) \/ unlinkRetained(s) \/ deleteOwnMedia(s)
  \/ \E s \in Slots, m \in Messages : deleteMessage(s, m)
  \/ purgeMedia \/ purgeRow \/ crash

Retention == purgeMedia \/ purgeRow

Spec == Init /\ [][Next]_vars /\ WF_vars(Retention)

-----------------------------------------------------------------------------
(* Properties. *)

\* Removing a reported message never destroys the proof of it, even a proof
\* that belongs to another report: a file some evidence retains is gone only
\* because its author, the retention or the deletion of a report took it.
RemovalSparesEvidence ==
  \A r \in Ids : report[r].proof = "kept" => takenBy[report[r].on] # "removal"

\* The audit trail is true, whatever crashes: no content loses its files to
\* moderation, and no one is shown as punished by a report, without the
\* decision or the punishment having been stored before.
TrailIsTrue ==
  /\ \A r \in Ids, p \in WithAction \ {"RESOLVED_REMOVED"} :
       report[r].status = p => <<report[r].on, p>> \in punished
  /\ \A s \in Slots : op[s].at \in {"row", "media"} /\ Exists(op[s].id)
                      => "RESOLVED_REMOVED" \in trail[op[s].id]

\* Evidence is emptied when its time comes, although passes die half-way.
EvidenceExpires == \A r \in Ids : report[r].proof = "kept" ~> report[r].proof # "kept"

\* "nobody points to these objects any more" (reports.service.ts:447): a
\* message that is still shown has its files.
ShownMediaKept == shown \cap Messages \subseteq files
=============================================================================
