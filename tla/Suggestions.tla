---------------------------- MODULE Suggestions ----------------------------
(***************************************************************************)
(* The generation of suggestions of places for a spot: the daily quota,    *)
(* the shared cache, the search in Places, the filters and the ranking by  *)
(* an AI that may fail, repeat itself or invent.                           *)
(*                                                                         *)
(* A place is its id and what the filters tell of it; the queries and the  *)
(* texts are left out but for the terms no card may show.                  *)
(***************************************************************************)
EXTENDS Naturals, Sequences, Functions, Sorting

CONSTANTS Users,
          Places,            \* the places there are
          Far, Adult,        \* beyond the reach of the search; adult venues
          Social,            \* those with a social type
          Ghost,             \* an id that the AI invents
          Slots,             \* bound: generations at the same time
          FREE_DAILY_QUOTA, PREMIUM_DAILY_QUOTA,
          MAX_SUGGESTIONS,   \* the length of an answer
          MAX_PROFILE_QUERIES,
          MaxDay,            \* bound: the days
          None               \* no value

SuggestionsAssumption ==
  /\ Far \cup Adult \cup Social \subseteq Places
  /\ Ghost \notin Places
  /\ {FREE_DAILY_QUOTA, PREMIUM_DAILY_QUOTA, MAX_PROFILE_QUERIES, MaxDay} \subseteq Nat
  /\ FREE_DAILY_QUOTA <= PREMIUM_DAILY_QUOTA /\ MAX_SUGGESTIONS \in Nat \ {0}
  /\ IsFiniteSet(Slots) /\ None # "banned"

\* The keys of the cache in one cell: a free text, or a profile.
Modes == {"intent", "profile"}
Days == 0..MaxDay

VARIABLES
  day,      \* the server's date
  premium,  \* the premium users
  used,     \* [Users -> [Days -> generations]]: SpotGenerationUsage
  cache,    \* [Modes -> the enriched list, or None]
  slot,     \* [Slots -> what the request holds, or None]
  calls     \* history: [Users -> searches paid to Places and the AI]

vars == <<day, premium, used, cache, slot, calls>>

TypeOK ==
  /\ day \in Days /\ premium \subseteq Users
  /\ used \in [Users -> [Days -> Nat]] /\ calls \in [Users -> Nat]
  /\ DOMAIN cache = Modes /\ DOMAIN slot = Slots

Init ==
  /\ day = 0
  /\ premium \in SUBSET Users
  /\ used = [u \in Users |-> [d \in Days |-> 0]]
  /\ cache = [m \in Modes |-> None]
  /\ slot = [s \in Slots |-> None]
  /\ calls = [u \in Users |-> 0]

-----------------------------------------------------------------------------
(* The pipeline of a cache miss.                                           *)

\* Repeats are kept.
RepeatsKept(s) == s

\* What stands at the places P of s, in its order.
Earlier(j, k) == j < k
At(s, P) == [n \in 1..Cardinality(P) |-> s[Sorted(P, Earlier)[n]]]
Only(s, S) == At(s, {k \in DOMAIN s : s[k] \in S})

\* byId: the first of each id, in their order.
FirstOfEach(s) == At(s, {k \in DOMAIN s : \A j \in 1..(k - 1) : s[j] # s[k]})

\* The lists of at most n of S.
Lists(S, n) == UNION {[1..m -> S] : m \in 0..n}

\* searchText: a query finds a place or none.  composeProfileQueries: one phrase or
\* more, the labels when the AI has none; composeIntentQuery: one.  Their findings,
\* in order.
Found(mode) ==
  Lists(Places, IF mode = "profile" THEN MAX_PROFILE_QUERIES ELSE 1)

\* Only the AI, and only for a free text, tells of a place it named.
Anchors(mode) == IF mode = "intent" THEN BOOLEAN ELSE {FALSE}

\* The cap on the distance, and the adult venues out.
Safe(found, anchored) ==
  Only(FirstOfEach(found), (IF anchored THEN Places ELSE Places \ Far) \ Adult)

\* The social venues, or all of them when there is none.
ForAI(found, anchored) ==
  LET safe == Safe(found, anchored)
      social == Only(safe, Social)
  IN  IF social = <<>> THEN safe ELSE social

\* Without the AI, or without a usable answer: the cards with no facts.
Fallback(candidates) == [k \in DOMAIN candidates |-> [id |-> candidates[k],
                                                      about |-> None]]

\* sanitizeAbout: a text with a banned term becomes none.
SanitizeAbout(text) == IF text = "clean" THEN text ELSE None

\* What the AI may answer: some places in some order, with a text each.
Rankings == Lists(Places \cup {Ghost}, 2)

\* The candidates among the places the AI ranks, each once.
Ranked(candidates) ==
  {FirstOfEach(Only(ranking, Range(candidates))) : ranking \in Rankings}

\* AiSuggestionEnhancer.enhance: those, or every candidate when there is none.
Enhance(candidates, kept, text) ==
  IF kept = <<>> THEN Fallback(candidates)
  ELSE [k \in DOMAIN kept |-> [id |-> kept[k], about |-> SanitizeAbout(text)]]

Cut(s) == SubSeq(s, 1, IF Len(s) < MAX_SUGGESTIONS THEN Len(s) ELSE MAX_SUGGESTIONS)

\* What Places and the filters leave, for a free text or for a profile.
Candidates(mode) ==
  {[safe |-> Range(Safe(found, anchored)), anchored |-> anchored,
    forAI |-> ForAI(found, anchored)] : found \in Found(mode), anchored \in Anchors(mode)}

\* What a search may come to.
Outcomes(mode) ==
  UNION {{[safe |-> c.safe, anchored |-> c.anchored, list |-> Cut(Enhance(c.forAI, kept, text))] :
            kept \in Ranked(c.forAI), text \in {"clean", "banned"}} : c \in Candidates(mode)}

-----------------------------------------------------------------------------
Holds(s, op) == slot[s] # None /\ slot[s].op = op
Step(s, h) == slot' = [slot EXCEPT ![s] = h]

\* generateSuggestions: the preferences and the premium flag are read first.
generateSuggestions(s) ==
  /\ slot[s] = None
  /\ \E u \in Users, mode \in Modes :
       Step(s, [op |-> "consume", u |-> u, mode |-> mode,
                limit |-> IF u \in premium THEN PREMIUM_DAILY_QUOTA
                          ELSE FREE_DAILY_QUOTA])
  /\ UNCHANGED <<day, premium, used, cache, calls>>

\* No quota of the day.
AllowedAnyway(count, limit) == TRUE

\* The upsert gives back a row: the count was under the limit.
Allowed(count, limit) == count < limit

\* consumeGenerationQuota: one statement.
consumeGenerationQuota(s) ==
  /\ Holds(s, "consume")
  /\ LET h == slot[s]
         count == used[h.u][day] IN
       /\ used' = IF count < h.limit THEN [used EXCEPT ![h.u][day] = @ + 1] ELSE used
       /\ Step(s, IF Allowed(count, h.limit) THEN [h EXCEPT !.op = "get"] ELSE None)
  /\ UNCHANGED <<day, premium, cache, calls>>

\* The cache: a hit is the answer.
cacheGet(s) ==
  /\ Holds(s, "get")
  /\ Step(s, IF cache[slot[s].mode] # None THEN None
             ELSE [slot[s] EXCEPT !.op = "search"])
  /\ UNCHANGED <<day, premium, used, cache, calls>>

\* Places answers and the AI ranks, or does not.
searchPlaces(s) ==
  /\ Holds(s, "search")
  /\ calls' = [calls EXCEPT ![slot[s].u] = @ + 1]
  /\ \E r \in Outcomes(slot[s].mode) :
       Step(s, [op |-> "set", mode |-> slot[s].mode, r |-> r])
  /\ UNCHANGED <<day, premium, used, cache>>

\* Places is out of reach or answers badly: 502 or 503, and the unit is spent.
searchFails(s) ==
  /\ Holds(s, "search")
  /\ calls' = [calls EXCEPT ![slot[s].u] = @ + 1]
  /\ Step(s, None)
  /\ UNCHANGED <<day, premium, used, cache>>

\* An empty list is answered and not cached.
cacheSet(s) ==
  /\ Holds(s, "set")
  /\ cache' = IF slot[s].r.list = <<>> THEN cache
              ELSE [cache EXCEPT ![slot[s].mode] = slot[s].r.list]
  /\ Step(s, None)
  /\ UNCHANGED <<day, premium, used, calls>>

-----------------------------------------------------------------------------
expire(m) ==
  /\ cache[m] # None
  /\ cache' = [cache EXCEPT ![m] = None]
  /\ UNCHANGED <<day, premium, used, slot, calls>>

setPremium(u) ==
  /\ premium' = IF u \in premium THEN premium \ {u} ELSE premium \cup {u}
  /\ UNCHANGED <<day, used, cache, slot, calls>>

midnight ==
  /\ day < MaxDay
  /\ day' = day + 1
  /\ UNCHANGED <<premium, used, cache, slot, calls>>

Next ==
  \/ \E s \in Slots :
       \/ generateSuggestions(s) \/ consumeGenerationQuota(s) \/ cacheGet(s)
       \/ searchPlaces(s) \/ searchFails(s) \/ cacheSet(s)
  \/ \E m \in Modes : expire(m)
  \/ \E u \in Users : setPremium(u)
  \/ midnight

Spec == Init /\ [][Next]_vars

-----------------------------------------------------------------------------
\* The units of quota that u has spent, of each day the first, the second...
Units(u) == {x \in Days \X (1..PREMIUM_DAILY_QUOTA) : x[2] <= used[u][x[1]]}

(* Whatever overlaps, fails, is retried or changes plan, a search in       *)
(* Places and the AI is paid with a unit of the quota, and no day has more *)
(* of them than the larger quota.                                          *)
CallsArePaid ==
  \A u \in Users :
    /\ calls[u] <= Cardinality(Units(u))
    /\ \A d \in Days : used[u][d] <= PREMIUM_DAILY_QUOTA

(* Whatever the AI answers: an adult venue is never suggested, nor a place *)
(* twice, nor one that was not found, nor a card with a banned term; a far *)
(* place only when the text named one; and a search that found a safe      *)
(* place never comes back empty.  The cache holds nothing else.            *)
Fit(list) ==
  /\ \A k \in DOMAIN list : list[k].id \notin Adult /\ list[k].about # "banned"
  /\ \A j, k \in DOMAIN list : list[j].id = list[k].id => j = k
SuggestionsFit ==
  /\ \A s \in Slots : Holds(s, "set") =>
       LET h == slot[s].r IN
       /\ Fit(h.list)
       /\ \A k \in DOMAIN h.list : /\ h.list[k].id \in h.safe
                                   /\ h.list[k].id \in Far => h.anchored
       /\ h.list = <<>> <=> h.safe = {}
  /\ \A m \in Modes : cache[m] # None => cache[m] # <<>> /\ Fit(cache[m])
=============================================================================
