------------------------------ MODULE MCPlans ------------------------------
(***************************************************************************)
(* The instances that check what people plan and are told: events, their   *)
(* lists, series and promotions, spots, suggestions, the fan-outs of       *)
(* notifications and the pushes.  A behaviour is one of the parts; the     *)
(* variables of the others stay None.  Variables with one name in several  *)
(* modules (now, slot...) belong to the part that runs.                    *)
(***************************************************************************)
EXTENDS Fanout, TLC

CONSTANTS
  Slots, None,
  Requests, Until,                            \* bounds on requests and clock of a part
  Author, Guests, Caches, MaxLinks,           \* events
  Ids, Mine, SeriesOf, HasImages, DEFAULT_DURATION, SOON_THRESHOLD, RECENT_PAST,
  Horizon, MaxEdits, Limit, ViewportLimit,    \* lists
  Creator, Friends, Strangers, Blocked, Spots, MAX_ACTIVE_SPOTS, SPOT_WINDOW,
  LEAD, SOON, MaxCrashes,                     \* spots
  Askers, Places, Far, Adult, Social, Ghost, FREE_DAILY_QUOTA, PREMIUM_DAILY_QUOTA,
  MAX_SUGGESTIONS, MAX_PROFILE_QUERIES, MaxDay,   \* suggestions
  HORIZON, MAX_OCCURRENCES, LastDate, MaxTouches, \* series
  Windows, MonthlyLimit, MaxDuration, EventDate, MonthLength,    \* promotions
  Owners, Tickets, RECEIPTS_BATCH_LIMIT, MaxLost, MaxMoves       \* pushes

VARIABLES
  part, slot, cache, requests,
  event, blocked, links, invites, rsvp, arrived, overlapped,
  rows, social, cursor, listed, done, still,
  spots, members, pass, reminded, excused, late, crashes,
  day, premium, used, calls,
  series, first, made, touched, touches, raced,
  features, isFeatured, tick, job, reached,
  installed, owner, active, held, ticket, receipt, refused, lost, moves

\* What one part alone uses.
ofFanout == <<group, near, prefers, live, at, sent, found, run, steady>>
ofEvents == <<event, blocked, links, invites, rsvp, arrived, overlapped>>
ofLists == <<social, cursor, listed, done, still>>
ofSpots == <<spots, members, reminded, excused, late>>
ofSuggestions == <<day, used, calls>>
ofSeries == <<series, first, made, touched, touches, raced>>
ofFeatured == <<features, isFeatured, tick, reached>>
ofPush == <<installed, owner, active, held, ticket, receipt, refused, lost, moves>>
shared == <<now, changes, usage, faults, slot, cache, requests, rows, pass, crashes,
            premium, job>>

all == <<part, shared, ofFanout, ofEvents, ofLists, ofSpots, ofSuggestions,
         ofSeries, ofFeatured, ofPush>>

Bounds == [events |-> 3, spots |-> 3]
Clocks == [events |-> 2, spots |-> 3, series |-> 2]

Kinds == [created |-> "created", promo |-> "promotion", s1 |-> "spot",
          s2 |-> "spot", s3 |-> "spot", join |-> "joined"]
Targets == [created |-> "party", promo |-> "party", s1 |-> "s1",
            s2 |-> "s2", s3 |-> "s3", join |-> "s3"]
Changes == [j \in Jobs |-> IF j \in {"s1", "s2"} THEN 0 ELSE 1]

InSeries == [i \in Ids |-> IF i = 3 THEN None ELSE "weekly"]

Ev == INSTANCE Events WITH MaxTime <- Until["events"], MaxRequests <- Requests["events"]
Li == INSTANCE EventLists WITH MaxChanges <- MaxEdits
Sp == INSTANCE Spots WITH
  Guests <- Friends \cup Strangers \cup Blocked,
  MaxTime <- Until["spots"], MaxRequests <- Requests["spots"]
Su == INSTANCE Suggestions WITH Users <- Askers
Se == INSTANCE Series WITH MaxTime <- Until["series"]
Fe == INSTANCE Featured
Pu == INSTANCE Push WITH Users <- Owners

ASSUME PlansAssumption ==
  /\ Ev!EventsAssumption /\ Li!ListsAssumption
  /\ Sp!SpotsAssumption /\ Su!SuggestionsAssumption
  /\ Se!SeriesAssumption /\ Fe!FeaturedAssumption /\ Pu!PushAssumption

-----------------------------------------------------------------------------
(* The parts. *)

\* (Without the fan-outs there is no row and no delivery, the outbox stays as it
\* begins.)
Blank ==
  /\ part # "fanout" =>
       /\ at = [j \in Jobs |-> [u \in Users |-> 0]]
       /\ sent = [j \in Jobs |-> [u \in Users |-> 0]]
       /\ group = None /\ near = None /\ prefers = None /\ live = None
       /\ found = None /\ run = None /\ steady = None
  /\ part # "events" =>
       /\ event = None /\ blocked = None /\ links = None /\ invites = None
       /\ rsvp = None /\ arrived = None /\ overlapped = None
  /\ part # "lists" =>
       /\ social = None /\ cursor = None /\ listed = None /\ done = None /\ still = None
  /\ part # "spots" =>
       /\ spots = None /\ members = None /\ reminded = None /\ excused = None /\ late = None
  /\ part # "suggestions" => day = None /\ used = None /\ calls = None
  /\ part # "series" =>
       /\ series = None /\ first = None /\ made = None /\ touched = None
       /\ touches = None /\ raced = None
  /\ part # "featured" =>
       /\ features = None /\ isFeatured = None /\ tick = None /\ reached = None
  /\ part # "push" =>
       /\ installed = None /\ owner = None /\ active = None /\ held = None /\ ticket = None
       /\ receipt = None /\ refused = None /\ lost = None /\ moves = None
  /\ part \in {"suggestions", "push"} => now = None
  /\ part \notin {"fanout", "lists"} => changes = None
  /\ part \notin {"fanout", "featured"} => usage = None
  /\ part \notin {"fanout", "push"} => faults = None
  /\ part \notin {"events", "suggestions"} => cache = None
  /\ part \in {"fanout", "lists", "series", "push"} => slot = None
  /\ part \notin {"events", "spots"} => requests = None
  /\ part \notin {"lists", "series"} => rows = None
  /\ part \notin {"spots", "series", "push"} => pass = None
  /\ part \notin {"spots", "featured"} => crashes = None
  /\ part \notin {"suggestions", "series"} => premium = None
  /\ part \notin {"featured", "push"} => job = None

Idle ==
  /\ part # "fanout" => UNCHANGED ofFanout
  /\ part # "events" => UNCHANGED ofEvents
  /\ part # "lists" => UNCHANGED ofLists
  /\ part # "spots" => UNCHANGED ofSpots
  /\ part # "suggestions" => UNCHANGED ofSuggestions
  /\ part # "series" => UNCHANGED ofSeries
  /\ part # "featured" => UNCHANGED ofFeatured
  /\ part # "push" => UNCHANGED ofPush
  /\ part \in {"suggestions", "push"} => UNCHANGED now
  /\ part \notin {"fanout", "lists"} => UNCHANGED changes
  /\ part \notin {"fanout", "featured"} => UNCHANGED usage
  /\ part \notin {"fanout", "push"} => UNCHANGED faults
  /\ part \notin {"events", "suggestions"} => UNCHANGED cache
  /\ part \in {"fanout", "lists", "series", "push"} => UNCHANGED slot
  /\ part \notin {"events", "spots"} => UNCHANGED requests
  /\ part \notin {"lists", "series"} => UNCHANGED rows
  /\ part \notin {"spots", "series", "push"} => UNCHANGED pass
  /\ part \notin {"spots", "featured"} => UNCHANGED crashes
  /\ part \notin {"suggestions", "series"} => UNCHANGED premium
  /\ part \notin {"featured", "push"} => UNCHANGED job

\* Bound: nothing moves while the owner hides the presences.
ListsBound == social \/ UNCHANGED <<rows, now>>

\* Bound: requests and processes that stop together.
SpotsBound == requests' + crashes' <= Requests["spots"]

MCInit ==
  /\ \/ part = "fanout" /\ Init
     \/ part = "events" /\ Ev!Init
     \/ part = "lists" /\ Li!Init
     \/ part = "spots" /\ Sp!Init
     \/ part = "suggestions" /\ Su!Init
     \/ part = "series" /\ Se!Init
     \/ part = "featured" /\ Fe!Init
     \/ part = "push" /\ Pu!Init
  /\ Blank

MCNext ==
  /\ \/ part = "fanout" /\ Next
     \/ part = "events" /\ Ev!Next
     \/ part = "lists" /\ Li!Next /\ ListsBound
     \/ part = "spots" /\ Sp!Next /\ SpotsBound
     \/ part = "suggestions" /\ Su!Next
     \/ part = "series" /\ Se!Next
     \/ part = "featured" /\ Fe!Next
     \/ part = "push" /\ Pu!Next
  /\ Idle
  /\ UNCHANGED part

MCSpec == MCInit /\ [][MCNext]_all

Symmetry == Permutations(Slots) \cup Permutations(Guests) \cup Permutations(Spots)

-----------------------------------------------------------------------------
(* Properties. *)

\* An event has one link that works, the link counts the guests it invited, and
\* what is hidden leaves the shared lists; a series makes what its rule asked for
\* and is quiet once canceled; the quota of promotions counts what was bought.
EventsHold ==
  /\ part = "events" => /\ Ev!TypeOK /\ Ev!OneActiveLink /\ Ev!UsesCountInvites
                        /\ Ev!HiddenIsUnlisted
  /\ part = "series" => Se!TypeOK /\ Se!CanceledStaysQuiet /\ Se!FollowsRule
  /\ part = "featured" => Fe!TypeOK /\ Fe!QuotaCountsPurchases

\* Lists agree with what each event shows of itself, pages miss nothing, and the
\* map shows points the way its query promised; suggestions spend the quota they
\* were given and fit it.  (What the reader has paged does not change the events:
\* statuses and pins are compared before the first page.)
ListsHold ==
  /\ part = "lists" => /\ Li!TypeOK /\ Li!PagesComplete
                       /\ listed = <<>> => Li!StatusAgrees /\ Li!PinsArePoints
  /\ part = "suggestions" => Su!TypeOK /\ Su!CallsArePaid /\ Su!SuggestionsFit

\* The cap on spots holds under races, a spot in the list opens, and its creator is
\* told of every window.
SpotsHold ==
  part = "spots" => /\ Sp!TypeOK /\ Sp!CapKept /\ Sp!ListedOpens
                    /\ Sp!EveryWindowReminded

\* A spot with two people or more in it graduates, it is never cleaned up.
GroupsGraduate == [][part = "spots" => Sp!Graduates]_all

\* A fan-out misses nobody and respects the cap on discoveries, and the pushes
\* silence no device but one that the push service no longer knows.
FanoutsHold ==
  /\ part = "fanout" => TypeOK /\ ReachCovered /\ DiscoveryCapped
  /\ part = "push" => Pu!TypeOK /\ Pu!OnlyDeadSilenced
=============================================================================
