------------------------------ MODULE Gateway ------------------------------
(***************************************************************************)
(* The sockets of one user on every instance of the chat gateway: the      *)
(* handshake, the registry and its cap, the heartbeat, the recheck that    *)
(* ends the sessions of a banned user, the throttle of inbound frames, and *)
(* the presence told to the partners.                                      *)
(***************************************************************************)
EXTENDS Naturals, FiniteSets

CONSTANTS Instances,    \* processes of the API
          Sockets,      \* connections the user may open
          Client,       \* the one of them whose frames are followed
          MAX_SOCKETS_PER_USER,
          MAX_INBOUND_FRAMES_PER_WINDOW,
          MaxFaults     \* bound on connections that die silently

GatewayAssumption ==
  /\ Client \in Sockets /\ IsFiniteSet(Sockets)
  /\ MAX_SOCKETS_PER_USER \in Nat /\ MAX_INBOUND_FRAMES_PER_WINDOW \in Nat

VARIABLES
  at, state,            \* instance and state of every socket
  count, burst,         \* frames of Client let in this window; and the last with it
  banned,               \* in the denylist
  announcing,           \* announcements under way
  shown,                \* presence the partners were told last
  overlapped,           \* announcements crossed, or another instance held a socket
  faults

vars == <<at, state, count, burst, banned, announcing, shown, overlapped, faults>>

TypeOK ==
  /\ at \in [Sockets -> Instances]
  /\ state \in [Sockets -> {"closed", "authenticated", "open", "dead"}]
  /\ count \in 0..MAX_INBOUND_FRAMES_PER_WINDOW /\ burst \in Nat
  /\ banned \in BOOLEAN /\ shown \in BOOLEAN
  /\ announcing \subseteq [online : BOOLEAN, by : Sockets]

Init ==
  /\ at \in [Sockets -> Instances] /\ state = [k \in Sockets |-> "closed"]
  /\ count = 0 /\ burst = 0
  /\ banned = FALSE /\ announcing = {} /\ shown = FALSE /\ overlapped = FALSE
  /\ faults = 0

\* A dead connection stays registered until the heartbeat misses its pong.
Registered(i) == {k \in Sockets : at[k] = i /\ state[k] \in {"open", "dead"}}
Anywhere == UNION {Registered(i) : i \in Instances}

\* authenticateWsToken asks the denylist before the socket is registered.
authenticate(k) ==
  /\ state[k] = "closed" /\ ~banned
  /\ state' = [state EXCEPT ![k] = "authenticated"]
  /\ UNCHANGED <<at, count, burst, banned, announcing, shown, overlapped, faults>>

Announce(online, k) ==
  /\ announcing' = announcing \cup {[online |-> online, by |-> k]}
  /\ overlapped' = (overlapped \/ announcing # {} \/ Anywhere \ {k} # {})

\* The same with the comparison off by one.
AcceptsOneMore(i) == Cardinality(Registered(i)) <= MAX_SOCKETS_PER_USER
\* Below the cap of this instance, dead connections counted.
Accepts(i) == Cardinality(Registered(i)) < MAX_SOCKETS_PER_USER

\* The first socket of this instance announces the user online.
connect(k) ==
  /\ state[k] = "authenticated"
  /\ IF Accepts(at[k])
     THEN /\ state' = [state EXCEPT ![k] = "open"]
          /\ IF Registered(at[k]) # {} THEN UNCHANGED <<announcing, overlapped>>
                                      ELSE Announce(TRUE, k)
     ELSE state' = [state EXCEPT ![k] = "closed"] /\ UNCHANGED <<announcing, overlapped>>
  /\ IF k = Client THEN count' = 0 /\ burst' = 0 ELSE UNCHANGED <<count, burst>>
  /\ UNCHANGED <<at, shown, banned, faults>>

\* Another socket of the user is left here.
NotLastOf(k) == Registered(at[k]) # {k}
\* Closing the last socket of this instance announces the user offline.
LastOf(k) == Registered(at[k]) = {k}

Leaves(k) ==
  /\ state' = [state EXCEPT ![k] = "closed"]
  /\ IF LastOf(k) THEN Announce(FALSE, k) ELSE UNCHANGED <<announcing, overlapped>>
  /\ UNCHANGED <<at, count, burst, shown, banned, faults>>

close(k) == state[k] = "open" /\ Leaves(k)

\* The heartbeat ends a connection that answered no ping.
heartbeat(k) == state[k] = "dead" /\ Leaves(k)

\* A recheck that asks for nothing.
PunishedNot == FALSE
\* The denylist, asked again.
Punished == banned

\* The recheck of a session: suspended since the handshake.
tokenCheck(k) == state[k] \in {"open", "dead"} /\ Punished /\ Leaves(k)

dies(k) ==
  /\ state[k] = "open" /\ faults < MaxFaults /\ faults' = faults + 1
  /\ state' = [state EXCEPT ![k] = "dead"]
  /\ UNCHANGED <<at, count, burst, announcing, shown, overlapped, banned>>

\* The announcement reads the partners, and writes the last-seen, first.
announcePresence(a) ==
  /\ a \in announcing
  /\ announcing' = announcing \ {a} /\ shown' = a.online
  /\ UNCHANGED <<at, state, count, burst, overlapped, banned, faults>>

\* A window without a cap.
AllowedUncounted == TRUE
\* A frame of the client, let in below the cap of the fixed window.
Allowed == count < MAX_INBOUND_FRAMES_PER_WINDOW

handleInbound ==
  /\ state[Client] = "open" /\ Allowed
  /\ count' = IF count < MAX_INBOUND_FRAMES_PER_WINDOW THEN count + 1 ELSE count
  /\ burst' = burst + 1
  /\ UNCHANGED <<at, state, announcing, shown, overlapped, banned, faults>>

newWindow ==
  /\ state[Client] = "open" /\ burst > 0
  /\ count' = 0 /\ burst' = count
  /\ UNCHANGED <<at, state, announcing, shown, overlapped, banned, faults>>

ban ==
  /\ ~banned /\ banned' = TRUE
  /\ UNCHANGED <<at, state, count, burst, announcing, shown, overlapped, faults>>

Next ==
  \/ \E k \in Sockets : \/ authenticate(k) \/ connect(k) \/ close(k) \/ heartbeat(k)
                        \/ tokenCheck(k) \/ dies(k)
  \/ handleInbound \/ newWindow
  \/ \E a \in announcing : announcePresence(a)
  \/ ban

\* The timers of every registered socket run, and handshakes come to an end.
Fairness == \A k \in Sockets : WF_vars(tokenCheck(k)) /\ WF_vars(connect(k))

Spec == Init /\ [][Next]_vars /\ Fairness

-----------------------------------------------------------------------------
(* Properties. *)

\* Partners see a user online while a socket is open, and offline after, once
\* the announcements are out, but for those that overlapped.
PresenceSettles ==
  announcing = {} /\ ~overlapped => (shown <=> Anywhere # {})

\* However handshakes and closings interleave, no instance holds more sockets of
\* the user than the cap, dead ones included.
SocketsCapped == \A i \in Instances : Cardinality(Registered(i)) <= MAX_SOCKETS_PER_USER

\* A client gets through at most twice the cap of frames around the end of a
\* window, however it times them.
FloodBounded == burst <= 2 * MAX_INBOUND_FRAMES_PER_WINDOW

\* A ban ends the sessions it finds open, also one whose handshake it crossed:
\* the recheck closes them.
BannedDisconnected == banned ~> (\A k \in Sockets : state[k] = "closed")
=============================================================================
