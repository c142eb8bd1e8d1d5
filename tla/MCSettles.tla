----------------------------- MODULE MCSettles -----------------------------
(***************************************************************************)
(* The instances that check what must happen in the end: the outbox of the *)
(* pushes, the horizon of a series, featured windows, the sockets of the   *)
(* gateway (at most one of a user on an instance, then two) and the        *)
(* retention of evidence.  A behaviour is one of the parts; the others     *)
(* wait in an initial state.  Every part has variables of its own, so that *)
(* a temporal property of one says nothing of another.  What always holds  *)
(* of the same modules is checked by MCPlans and MCTalk.                   *)
(***************************************************************************)
EXTENDS Push

VARIABLES part,
          s1, s2, s3, s4, s5, s6, s7, s8, s9, s10,
          f1, f2, f3, f4, f5, f6, f7, f8, f9,
          g1, g2, g3, g4, g5, g6, g7, g8, g9,
          r1, r2, r3, r4, r5, r6, r7, r8, r9, r10

seriesVars == <<s1, s2, s3, s4, s5, s6, s7, s8, s9, s10>>
featuredVars == <<f1, f2, f3, f4, f5, f6, f7, f8, f9>>
gatewayVars == <<g1, g2, g3, g4, g5, g6, g7, g8, g9>>
evidenceVars == <<r1, r2, r3, r4, r5, r6, r7, r8, r9, r10>>

Windows == {"w1", "w2"}
Slots == {"h1", "h2"}
Sockets == {"k1", "k2"}

Se == INSTANCE Series WITH
  HORIZON <- 2, MAX_OCCURRENCES <- 3, LastDate <- 4, MaxTime <- 2, MaxTouches <- 1,
  now <- s1, premium <- s2, series <- s3, rows <- s4, pass <- s5, first <- s6,
  made <- s7, touched <- s8, touches <- s9, raced <- s10

Fe == INSTANCE Featured WITH
  MonthlyLimit <- 1, MaxDuration <- 2, EventDate <- 3, MonthLength <- 2,
  MaxCrashes <- 1, now <- f1, features <- f2, usage <- f3, isFeatured <- f4,
  slot <- f5, tick <- f6, job <- f7, reached <- f8, crashes <- f9

Ga == INSTANCE Gateway WITH
  Instances <- {"i1", "i2"}, Client <- "k1", MAX_SOCKETS_PER_USER <- 1,
  MAX_INBOUND_FRAMES_PER_WINDOW <- 1, MaxFaults <- 1, at <- g1, state <- g2,
  count <- g3, burst <- g4, banned <- g5, announcing <- g6, shown <- g7,
  overlapped <- g8, faults <- g9

Gw == INSTANCE Gateway WITH
  Instances <- {"i1", "i2"}, Client <- "k1", MAX_SOCKETS_PER_USER <- 2,
  MAX_INBOUND_FRAMES_PER_WINDOW <- 1, MaxFaults <- 1, at <- g1, state <- g2,
  count <- g3, burst <- g4, banned <- g5, announcing <- g6, shown <- g7,
  overlapped <- g8, faults <- g9

Rp == INSTANCE Reports WITH
  Reporters <- {"reporter"}, Messages <- {"message"}, Posts <- {}, People <- {},
  Ids <- {"r1", "r2"}, Slots <- {"handler"}, MaxRequests <- 4, MaxCrashes <- 1,
  report <- r1, shown <- r2, files <- r3, punished <- r4, op <- r5, sweep <- r6,
  trail <- r7, takenBy <- r8, requests <- r9, crashes <- r10

ASSUME SettlesAssumption ==
  /\ PushAssumption /\ Se!SeriesAssumption /\ Fe!FeaturedAssumption
  /\ Ga!GatewayAssumption /\ Gw!GatewayAssumption /\ Rp!ReportsAssumption

-----------------------------------------------------------------------------
Parts == {"push", "series", "featured", "gateway", "wide", "evidence"}

MCInit ==
  /\ part \in Parts
  /\ Init /\ Se!Init /\ Fe!Init /\ Rp!Init
  /\ Ga!Init /\ (IF part \in {"gateway", "wide"} THEN g1["k1"] = "i1"    \* by symmetry
                 ELSE g1 = [k \in Sockets |-> "i1"])

Push == part = "push" /\ Next
          /\ UNCHANGED <<seriesVars, featuredVars, gatewayVars, evidenceVars>>
Series == part = "series" /\ Se!Next
            /\ UNCHANGED <<vars, featuredVars, gatewayVars, evidenceVars>>
Featured == part = "featured" /\ Fe!Next
              /\ UNCHANGED <<vars, seriesVars, gatewayVars, evidenceVars>>
Gateway == /\ \/ part = "gateway" /\ Ga!Next
              \/ part = "wide" /\ Gw!Next
           /\ UNCHANGED <<vars, seriesVars, featuredVars, evidenceVars>>
Evidence == part = "evidence" /\ Rp!Next
              /\ UNCHANGED <<vars, seriesVars, featuredVars, gatewayVars>>

MCNext == (Push \/ Series \/ Featured \/ Gateway \/ Evidence) /\ UNCHANGED part

\* The fairness of each module, where it is the part that runs.
MCFairness ==
  /\ WF_vars(part = "push" /\ Reconcile)
  /\ WF_seriesVars(part = "series" /\ Se!Reconcile)
  /\ \A s \in Slots : WF_featuredVars(part = "featured" /\ Fe!Serve(s))
  /\ WF_featuredVars(part = "featured" /\ Fe!Reconcile)
  /\ WF_featuredVars(part = "featured" /\ Fe!runReach)
  /\ WF_featuredVars(part = "featured" /\ Fe!Advance)
  /\ \A k \in Sockets : /\ WF_gatewayVars(part \in {"gateway", "wide"} /\ Ga!tokenCheck(k))
                       /\ WF_gatewayVars((part = "gateway" /\ Ga!connect(k))
                                         \/ (part = "wide" /\ Gw!connect(k)))
  /\ WF_evidenceVars(part = "evidence" /\ Rp!Retention)

MCSpec ==
  /\ MCInit
  /\ [][MCNext]_<<part, vars, seriesVars, featuredVars, gatewayVars, evidenceVars>>
  /\ MCFairness

-----------------------------------------------------------------------------
(* Properties. *)

\* A series is filled up to its horizon, a featured window shows on the event, and
\* one that nothing crossed reaches its audience.
EventsSettle == Se!HorizonFilled /\ Fe!MirrorCatchesUp /\ Fe!LoneWindowReached

\* A push ticket ends, a dead token is retired, a banned user is disconnected and
\* evidence is emptied once its time is over.
PeopleSettle ==
  TicketsSettle /\ DeadTokenRetired /\ Ga!BannedDisconnected /\ Rp!EvidenceExpires
=============================================================================
