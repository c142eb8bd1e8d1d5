------------------------------ MODULE Receipts ------------------------------
(***************************************************************************)
(* How a chat message reaches one member of its conversation: the events   *)
(* each instance takes from the shared channel, the sockets it holds, the  *)
(* watermarks delivered and read, and the delayed push that looks at them. *)
(***************************************************************************)
EXTENDS Naturals, Sequences, FiniteSets

CONSTANTS Instances,    \* processes of the API
          Messages,     \* 1..N, by createdAt
          MaxFaults     \* bound on lost events and connections that die silently

VARIABLES
  socket,               \* the member's connection to every instance
  sent, deleted,        \* messages committed; those deleted since
  channel,              \* events each instance has still to handle
  marking,              \* marks each instance has under way
  delivered, read,      \* lastDeliveredAt and lastReadAt (0: null)
  waiting, pushed,      \* push jobs that wait for their delay; pushes made
  received,             \* what the member's app was given
  blind,                \* messages a watermark covered before they were received
  member,
  faults

vars == <<socket, sent, deleted, channel, marking, delivered, read, waiting, pushed,
          received, blind, member, faults>>
marks == <<delivered, read, received, blind>>
posts == <<sent, deleted, channel, marking, waiting, pushed>>

ReceiptsAssumption == IsFiniteSet(Messages) /\ Messages = 1..Cardinality(Messages)

Now == Cardinality(sent)
Later(a, b) == IF a > b THEN a ELSE b

TypeOK ==
  /\ socket \in [Instances -> {"none", "open", "dead"}]
  /\ sent \subseteq Messages /\ deleted \subseteq sent /\ received \subseteq sent
  /\ waiting \subseteq sent /\ pushed \subseteq sent /\ blind \subseteq sent
  /\ \A i \in Instances : channel[i] \in Seq(Messages) /\ marking[i] \subseteq sent
  /\ delivered \in 0..Cardinality(Messages) /\ read \in 0..delivered
  /\ member \in BOOLEAN

Init ==
  /\ socket = [i \in Instances |-> "none"]
  /\ sent = {} /\ deleted = {} /\ received = {} /\ blind = {}
  /\ channel = [i \in Instances |-> <<>>] /\ marking = [i \in Instances |-> {}]
  /\ delivered = 0 /\ read = 0 /\ waiting = {} /\ pushed = {}
  /\ member = TRUE /\ faults = 0

-----------------------------------------------------------------------------
(* Connections: a dead one stays registered until the heartbeat ends it. *)

IsOnline(i) == socket[i] # "none"

connect(i) ==
  /\ socket[i] = "none" /\ socket' = [socket EXCEPT ![i] = "open"]
  /\ UNCHANGED <<posts, marks, member, faults>>

close(i) ==
  /\ IsOnline(i) /\ socket' = [socket EXCEPT ![i] = "none"]
  /\ UNCHANGED <<posts, marks, member, faults>>

dies(i) ==
  /\ socket[i] = "open" /\ faults < MaxFaults /\ faults' = faults + 1
  /\ socket' = [socket EXCEPT ![i] = "dead"]
  /\ UNCHANGED <<posts, marks, member>>

-----------------------------------------------------------------------------
(* Messages. *)

\* The message is committed, published to the instances that are subscribed
\* and its push is queued with a delay.
publishMessage(m) ==
  /\ member /\ m = Now + 1 /\ m \in Messages
  /\ sent' = sent \cup {m} /\ waiting' = waiting \cup {m}
  /\ \E S \in SUBSET Instances :
       /\ faults' = IF S = {} THEN faults ELSE faults + 1
       /\ faults' <= MaxFaults
       /\ channel' = [i \in Instances |-> IF i \in S THEN channel[i] ELSE Append(channel[i], m)]
  /\ UNCHANGED <<socket, deleted, marking, pushed, marks, member>>

deleteMessage(m) ==
  /\ m \in sent \ deleted /\ deleted' = deleted \cup {m}
  /\ UNCHANGED <<socket, sent, channel, marking, waiting, pushed, marks, member, faults>>

\* Every member, with a socket here or without.
AnyRecipient(i) == TRUE
\* Who this instance will mark: whoever it holds a socket of.
LocalRecipient(i) == IsOnline(i)

\* The frame goes to the open sockets, then the mark is started.
dispatchEvent(i) ==
  LET m == Head(channel[i])
      got == socket[i] = "open"
  IN /\ channel[i] # <<>>
     /\ channel' = [channel EXCEPT ![i] = Tail(@)]
     /\ received' = IF got THEN received \cup {m} ELSE received
     /\ marking' = IF LocalRecipient(i) THEN [marking EXCEPT ![i] = @ \cup {m}] ELSE marking
     /\ blind' = IF IsOnline(i) /\ ~got THEN blind \cup {m} ELSE blind
     /\ UNCHANGED <<socket, sent, deleted, waiting, pushed, delivered, read, member,
                    faults>>

\* The date of the message, whatever the watermark is.
AdvancedTo(m) == m

\* The larger of now and the message's date, for a watermark before it.
Advanced(m) == IF delivered < m THEN Later(Now, m) ELSE delivered

\* The one UPDATE that advances a watermark which does not cover the message.
markDeliveredBatchIfBehind(i, m) ==
  /\ m \in marking[i]
  /\ marking' = [marking EXCEPT ![i] = @ \ {m}]
  /\ delivered' = IF member THEN Advanced(m) ELSE delivered
  /\ blind' = blind \cup {n \in sent \ received : n > delivered /\ n <= delivered' /\ n # m}
  /\ UNCHANGED <<socket, sent, deleted, channel, waiting, pushed, read, received, member,
                 faults>>

\* The app pages the conversation.
listMessages ==
  /\ member /\ received' = sent
  /\ UNCHANGED <<socket, posts, delivered, read, blind, member, faults>>

\* The app says it has read: everything up to now, what it never saw included.
Covers == {n \in sent \ received : n > delivered}

markAsRead ==
  /\ member /\ read' = Now /\ delivered' = Now
  /\ blind' = blind \cup Covers
  /\ UNCHANGED <<socket, posts, received, member, faults>>

markDelivered ==
  /\ member /\ delivered' = Now
  /\ blind' = blind \cup Covers
  /\ UNCHANGED <<socket, posts, read, received, member, faults>>

leave ==
  /\ member /\ member' = FALSE
  /\ UNCHANGED <<socket, posts, marks, faults>>

Behind(m) == delivered < m

BehindTheNext(m) == delivered + 1 < m

\* The job of a message, after its delay: nobody is told of a deleted message,
\* or of one the watermark covers.
runChatMessagePush(m) ==
  /\ m \in waiting /\ waiting' = waiting \ {m}
  /\ pushed' = IF m \notin deleted /\ member /\ Behind(m) THEN pushed \cup {m} ELSE pushed
  /\ UNCHANGED <<socket, sent, deleted, channel, marking, marks, member, faults>>

Next ==
  \/ \E i \in Instances : connect(i) \/ close(i) \/ dies(i)
  \/ \E m \in Messages : publishMessage(m) \/ deleteMessage(m) \/ runChatMessagePush(m)
  \/ \E i \in Instances : dispatchEvent(i) \/ \E m \in marking[i] : markDeliveredBatchIfBehind(i, m)
  \/ listMessages \/ markAsRead \/ markDelivered \/ leave

Spec == Init /\ [][Next]_vars

-----------------------------------------------------------------------------
(* Properties. *)

\* A message whose push has run and found a member who never got it was pushed,
\* unless it was deleted, the member left, or a watermark went over it unseen.
UnseenIsPushed ==
  member => sent \ (waiting \cup deleted \cup blind) \subseteq received \cup pushed

\* Two marks, a read and a slow instance never take a watermark back: what the
\* sender was shown as delivered or read stays so.
Advances == delivered' >= delivered /\ read' >= read

WatermarksAdvance == [][Advances]_vars
=============================================================================
