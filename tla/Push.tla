-------------------------------- MODULE Push --------------------------------
(***************************************************************************)
(* The pushes of one user's device: its token, which moves with the app to *)
(* whoever logs in there, the queued pushes, the tickets the push service  *)
(* answers with and the reconciler that reads their receipts.              *)
(***************************************************************************)
EXTENDS Naturals, FiniteSets

CONSTANTS Users,        \* accounts that use the device
          Tickets,      \* ticket rows, bounded
          Attempts,     \* attempts of a notification.push job
          RECEIPTS_BATCH_LIMIT,
          MaxLost,      \* bound on receipts that never become available
          MaxFaults,    \* bound on deaths of the reconciler's pass
          MaxMoves,     \* bound on logins, logouts and (un)installs
          None

PushAssumption == Attempts \in Nat /\ None \notin Users

VARIABLES
  installed,            \* whether the app is on the device
  owner, active,        \* the DeviceToken row (None: no row), and invalidatedAt IS NULL
  job,                  \* the queued push: attempts left, whom it is for
  held,                 \* whose token the worker read before sending (None: not sending)
  ticket, receipt,      \* status and receipt of every ticket
  pass,                 \* what the reconciler is about to write
  refused,              \* some push to this row was answered DeviceNotRegistered
  lost, faults, moves

vars == <<installed, owner, active, job, held, ticket, receipt, pass, refused,
          lost, faults, moves>>
device == <<installed, owner, active, refused>>

NoPass == [at |-> "idle", ok |-> {}, error |-> {}]
NoJob == [left |-> 0, to |-> None]

Init ==
  /\ installed = FALSE /\ owner = None /\ active = FALSE /\ refused = FALSE
  /\ job = NoJob /\ held = None
  /\ ticket = [i \in Tickets |-> "free"] /\ receipt = [i \in Tickets |-> "none"]
  /\ pass = NoPass /\ lost = 0 /\ faults = 0 /\ moves = 0

TypeOK ==
  /\ installed \in BOOLEAN /\ active \in BOOLEAN /\ refused \in BOOLEAN
  /\ owner \in Users \cup {None} /\ held \in Users \cup {None}
  /\ job.left \in 0..Attempts /\ job.to \in Users \cup {None}
  /\ ticket \in [Tickets -> {"free", "PENDING", "OK", "ERROR"}]
  /\ receipt \in [Tickets -> {"none", "ok", "gone", "rate", "lost"}]
  /\ pass.at \in {"idle", "statuses", "invalidate"}
  /\ pass.ok \cup pass.error \subseteq Tickets

-----------------------------------------------------------------------------
(* The device. *)

Move == moves < MaxMoves /\ moves' = moves + 1

install ==
  /\ Move /\ installed' = ~installed
  /\ UNCHANGED <<owner, active, job, held, ticket, receipt, pass, refused, lost, faults>>

\* The upsert by token: the row follows the device to the account that logs in.
registerDevice(u) ==
  /\ Move /\ installed
  /\ owner' = u /\ active' = TRUE
  /\ refused' = (refused /\ owner # None)
  /\ UNCHANGED <<installed, job, held, ticket, receipt, pass, lost, faults>>

\* Only the owner's own row is deleted; tickets go with it.
removeDevice(u) ==
  /\ Move /\ owner = u
  /\ owner' = None /\ active' = FALSE /\ refused' = FALSE
  /\ ticket' = [i \in Tickets |-> "free"] /\ receipt' = [i \in Tickets |-> "none"]
  /\ UNCHANGED <<installed, job, held, pass, lost, faults>>

\* The answer that only asks to slow down.
RemovesTokenOnRate == {"rate"}
\* What only DeviceNotRegistered authorises.
RemovesToken == {"gone"}

-----------------------------------------------------------------------------
(* The worker. *)

enqueuePush(u) ==
  /\ job = NoJob /\ \E i \in Tickets : ticket[i] = "free"
  /\ job' = [left |-> Attempts, to |-> u]
  /\ UNCHANGED <<device, held, ticket, receipt, pass, lost, faults, moves>>

\* The active tokens of the recipient are read; with none the job is over.
findActiveDeviceTokens ==
  /\ job # NoJob /\ held = None
  /\ IF owner = job.to /\ active THEN held' = owner /\ UNCHANGED job
                                 ELSE job' = NoJob /\ UNCHANGED held
  /\ UNCHANGED <<device, ticket, receipt, pass, lost, faults, moves>>

\* An id no row and no running pass holds.
Fresh(i) == ticket[i] = "free" /\ i \notin pass.ok \cup pass.error

\* The service takes the message: a ticket waits for its receipt.
send(i) ==
  /\ held # None /\ owner # None /\ Fresh(i)
  /\ ticket' = [ticket EXCEPT ![i] = "PENDING"]
  /\ job' = NoJob /\ held' = None
  /\ UNCHANGED <<device, receipt, pass, lost, faults, moves>>

\* The service refuses it at once: a device it no longer knows, or another error.
sendRefused(i, error) ==
  /\ held # None /\ owner # None /\ Fresh(i)
  /\ error \in {"gone", "rate"} /\ (error = "gone" => ~installed)
  /\ ticket' = [ticket EXCEPT ![i] = "ERROR"]
  /\ receipt' = [receipt EXCEPT ![i] = error]
  /\ active' = (active /\ error \notin RemovesToken)
  /\ refused' = (refused \/ error = "gone")
  /\ job' = NoJob /\ held' = None
  /\ UNCHANGED <<installed, owner, pass, lost, faults, moves>>

\* The row is gone: the tickets cannot be written, and the job fails with them,
\* as it does on any error, until its attempts are used up.
sendFails ==
  /\ held # None
  /\ held' = None
  /\ job' = IF job.left > 1 THEN [job EXCEPT !.left = @ - 1] ELSE NoJob
  /\ UNCHANGED <<device, ticket, receipt, pass, lost, faults, moves>>

\* The service learns what became of a message; some receipts never come.
receiptArrives(i, r) ==
  /\ ticket[i] = "PENDING" /\ receipt[i] = "none"
  /\ r \in {"ok", "rate", "lost", "gone"}
  /\ (r = "gone" => ~installed) /\ (r = "lost" => lost < MaxLost)
  /\ lost' = IF r = "lost" THEN lost + 1 ELSE lost
  /\ receipt' = [receipt EXCEPT ![i] = r]
  /\ refused' = (refused \/ r = "gone")
  /\ UNCHANGED <<installed, owner, active, job, held, ticket, pass, faults, moves>>

-----------------------------------------------------------------------------
(* The reconciler. *)

Pending == {i \in Tickets : ticket[i] = "PENDING"}

Available == {i \in Tickets : receipt[i] \in {"ok", "rate", "gone"}}

\* At most a batch of the pending ones, in no order the code asks for.
Batches == {S \in SUBSET Pending : Cardinality(S) =
              IF Cardinality(Pending) < RECEIPTS_BATCH_LIMIT
              THEN Cardinality(Pending) ELSE RECEIPTS_BATCH_LIMIT}

findPendingReceipts ==
  /\ pass.at = "idle" /\ Pending # {}
  /\ \E S \in Batches :
       pass' = [at |-> "statuses",
                ok |-> {i \in S \cap Available : receipt[i] = "ok"},
                error |-> {i \in S \cap Available : receipt[i] # "ok"}]
  /\ UNCHANGED <<device, job, held, ticket, receipt, lost, faults, moves>>

\* Rows that a logout deleted meanwhile are not updated.
Updated(S) == {i \in S : ticket[i] # "free"}

\* Only the receipts without an error are written.
updateOkOnly ==
  /\ pass.at = "statuses"
  /\ ticket' = [i \in Tickets |-> IF i \in Updated(pass.ok) THEN "OK" ELSE ticket[i]]
  /\ pass' = [pass EXCEPT !.at = "invalidate"]
  /\ UNCHANGED <<device, job, held, receipt, lost, faults, moves>>

\* The receipts of the batch, by their status.
updatePushTicketsStatus ==
  /\ pass.at = "statuses"
  /\ ticket' = [i \in Tickets |-> IF i \in Updated(pass.ok) THEN "OK"
                                  ELSE IF i \in Updated(pass.error) THEN "ERROR"
                                  ELSE ticket[i]]
  /\ pass' = [pass EXCEPT !.at = "invalidate"]
  /\ UNCHANGED <<device, job, held, receipt, lost, faults, moves>>

invalidateDeviceTokens ==
  /\ pass.at = "invalidate"
  /\ active' = (active /\ \A i \in pass.error : receipt[i] \notin RemovesToken)
  /\ pass' = NoPass
  /\ UNCHANGED <<installed, owner, refused, job, held, ticket, receipt, lost, faults, moves>>

passFails ==
  /\ pass # NoPass /\ faults < MaxFaults
  /\ faults' = faults + 1 /\ pass' = NoPass
  /\ UNCHANGED <<device, job, held, ticket, receipt, lost, moves>>

Reconcile == findPendingReceipts \/ updatePushTicketsStatus \/ invalidateDeviceTokens

Next ==
  \/ install
  \/ \E u \in Users : registerDevice(u) \/ removeDevice(u) \/ enqueuePush(u)
  \/ findActiveDeviceTokens \/ sendFails
  \/ \E i \in Tickets : \/ send(i)
                        \/ \E e \in {"gone", "rate"} : sendRefused(i, e)
                        \/ \E r \in {"ok", "rate", "gone", "lost"} : receiptArrives(i, r)
  \/ Reconcile \/ passFails

\* The interval runs the reconciler's passes and finishes them.
Fairness == WF_vars(Reconcile)

Spec == Init /\ [][Next]_vars /\ Fairness

-----------------------------------------------------------------------------
(* Properties. *)

\* A device stops getting pushes only after the service said that it no longer
\* knows the device: no other error silences a token.
OnlyDeadSilenced == owner # None /\ ~active => refused

\* A receipt that has come is read: its ticket leaves PENDING, unless the pass
\* is interrupted for good.  Nothing deletes tickets, so this needs a batch
\* larger than the tickets whose receipt never comes.
TicketsSettle ==
  \A i \in Tickets :
    (ticket[i] = "PENDING" /\ receipt[i] \in {"ok", "rate", "gone"}) ~> (ticket[i] # "PENDING")

\* A device the service no longer knows is not pushed to for ever: its token is
\* retired or removed, but for a pass that died half way.
DeadTokenRetired ==
  \A i \in Tickets :
    (ticket[i] = "PENDING" /\ receipt[i] = "gone") ~> (~active \/ faults > 0)
=============================================================================
