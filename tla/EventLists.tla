----------------------------- MODULE EventLists -----------------------------
(***************************************************************************)
(* The lists of events: the status of an event and the SQL predicates that *)
(* must agree with it, the pages of a profile, the heatmap and the         *)
(* viewport of the map.                                                    *)
(*                                                                         *)
(* A reader scrolls the profile of Owner page by page, while time passes   *)
(* and the authors change their events.  Times are small numbers; the      *)
(* thresholds of lib/event-lifecycle are constants.                        *)
(***************************************************************************)
EXTENDS Naturals, Integers, Sequences, Functions, Sorting

CONSTANTS Ids,          \* the events, numbers: the ids order them
          Mine,         \* those the owner of the profile created; the owner
                        \* confirmed presence in the others
          SeriesOf,     \* [Ids -> the series or None]
          HasImages,    \* the events with pictures of their own
          None,         \* no value
          DEFAULT_DURATION, SOON_THRESHOLD, RECENT_PAST,
          Horizon,      \* bound: the clock
          MaxChanges,   \* bound: edits while the reader scrolls
          Limit,        \* the length of a page
          ViewportLimit \* the most pins of a viewport

ListsAssumption ==
  /\ Ids \subseteq Nat /\ IsFiniteSet(Ids) /\ None \notin Ids
  /\ Mine \subseteq Ids /\ HasImages \subseteq Ids
  /\ {DEFAULT_DURATION, Limit} \subseteq Nat \ {0}
  /\ {SOON_THRESHOLD, RECENT_PAST, Horizon, MaxChanges, ViewportLimit} \subseteq Nat

Statuses == {"CANCELED", "PAST", "ONGOING", "SOON", "UPCOMING"}
Dates == 1..(Horizon - 1)
Event == [date : Dates, end : {None} \cup 2..Horizon, canceled : BOOLEAN,
          featured : BOOLEAN, isPublic : BOOLEAN]

VARIABLES rows,    \* [Ids -> Event]
          now,     \* the clock
          social,  \* the owner shows the presences on the profile
          cursor,  \* the last event the reader has, None at the start
          listed,  \* the events shown so far, in order
          done,    \* the last page was short
          changes, \* edits so far
          still    \* history: nothing has moved since the first page

vars == <<rows, now, social, cursor, listed, done, changes, still>>

-----------------------------------------------------------------------------
(* lib/event-lifecycle: the reference.                                     *)

ResolveEndDate(e) == IF e.end = None THEN e.date + DEFAULT_DURATION ELSE e.end

ComputeEventStatus(e) ==
  IF e.canceled THEN "CANCELED"
  ELSE IF now >= ResolveEndDate(e) THEN "PAST"
  ELSE IF now >= e.date THEN "ONGOING"
  ELSE IF e.date - now <= SOON_THRESHOLD THEN "SOON" ELSE "UPCOMING"

-----------------------------------------------------------------------------
(* lib/event-filters: the predicates of the queries.  A comparison with an *)
(* absent end is NULL, so false.                                           *)

\* The present instant left out.
EndedStrictly(e) == \/ e.end # None /\ e.end < now
                    \/ e.end = None /\ e.date < now - DEFAULT_DURATION

\* An event without an end lasts its default duration.
Ended(e) == \/ e.end # None /\ e.end <= now
            \/ e.end = None /\ e.date <= now - DEFAULT_DURATION
Unended(e) == \/ e.end # None /\ e.end > now
              \/ e.end = None /\ e.date > now - DEFAULT_DURATION

StatusCondition(status, e) ==
  \/ status = "CANCELED" /\ e.canceled
  \/ /\ ~e.canceled
     /\ \/ status = "PAST"     /\ Ended(e)
        \/ status = "ONGOING"  /\ e.date <= now /\ Unended(e)
        \/ status = "SOON"     /\ e.date > now /\ e.date <= now + SOON_THRESHOLD
        \/ status = "UPCOMING" /\ e.date > now + SOON_THRESHOLD

\* buildLifecycleWhere: the statuses asked for, or what is not canceled.
LifecycleWhere(includePast, statuses, e) ==
  IF statuses # {} THEN \E status \in statuses : StatusCondition(status, e)
  ELSE ~e.canceled /\ (includePast \/ Unended(e))

RecentEndWhere(e) ==
  \/ e.end # None /\ e.end >= now - RECENT_PAST
  \/ e.end = None /\ e.date >= now - RECENT_PAST - DEFAULT_DURATION

\* buildMapLifecycleWhere: the recent past is a ceiling whatever is asked.
MapLifecycleWhere(statuses, e) ==
  /\ RecentEndWhere(e)
  /\ IF statuses # {} THEN \E status \in statuses : StatusCondition(status, e)
     ELSE ~e.canceled

-----------------------------------------------------------------------------
(* Orders and pages.                                                       *)

\* ACTIVE_ORDER, the order of every list of open events.
ActiveBefore(i, j) ==
  LET a == rows[i]
      b == rows[j] IN
  \/ a.featured /\ ~b.featured
  \/ /\ a.featured = b.featured
     /\ a.date < b.date \/ (a.date = b.date /\ i < j)

\* CLOSED_ORDER, the history: the latest first.
ClosedBefore(i, j) ==
  \/ rows[i].date > rows[j].date
  \/ rows[i].date = rows[j].date /\ i > j

ActiveOrder(S) == Sorted(S, ActiveBefore)
ClosedOrder(S) == Sorted(S, ClosedBefore)

Take(s, n) == SubSeq(s, 1, IF n < Len(s) THEN n ELSE Len(s))

\* A Prisma page with `cursor` and `skip: 1`: the matching rows from the place
\* of the cursor row on, less the first of them, whether or not the cursor
\* row still matches.
From(S, Before(_, _), c) == {i \in S : i = c \/ Before(c, i)}
ActivePage(S, take, c) ==
  IF c = None THEN Take(ActiveOrder(S), take)
  ELSE LET s == ActiveOrder(From(S, ActiveBefore, c)) IN
       IF s = <<>> THEN <<>> ELSE Take(Tail(s), take)
ClosedPage(S, take, c) ==
  IF c = None THEN Take(ClosedOrder(S), take)
  ELSE LET s == ClosedOrder(From(S, ClosedBefore, c)) IN
       IF s = <<>> THEN <<>> ELSE Take(Tail(s), take)

-----------------------------------------------------------------------------
(* The profile: findProfileEvents, seen by somebody else.                  *)

\* profileScopeWhere: created, or presence confirmed and shown.
ProfileScope == {i \in Ids : i \in Mine \/ social}

\* profileEventsWhere: public ones, for a reader who is not the owner.
ProfileWhere == {i \in ProfileScope : rows[i].isPublic}

ActiveWhere == {i \in ProfileWhere : LifecycleWhere(FALSE, {}, rows[i])}
ClosedWhere ==
  {i \in ProfileWhere :
     StatusCondition("PAST", rows[i]) \/ StatusCondition("CANCELED", rows[i])}

\* The phase the cursor stopped in is asked of the active predicate.
ResumingClosed(c) == c # None /\ ~LifecycleWhere(FALSE, {}, rows[c])

\* The same with the cursor of the active phase kept for the history.
FindProfileEventsOneCursor(c) ==
  LET active == IF ResumingClosed(c) THEN <<>>
                ELSE ActivePage(ActiveWhere, Limit, c)
      remaining == Limit - Len(active)
  IN  active \o (IF remaining > 0 THEN ClosedPage(ClosedWhere, remaining, c)
                 ELSE <<>>)
FindProfileEvents(c) ==
  LET active == IF ResumingClosed(c) THEN <<>>
                ELSE ActivePage(ActiveWhere, Limit, c)
      remaining == Limit - Len(active)
  IN  active \o (IF remaining > 0
                 THEN ClosedPage(ClosedWhere, remaining,
                                 IF ResumingClosed(c) THEN c ELSE None)
                 ELSE <<>>)

-----------------------------------------------------------------------------
(* The map.                                                                *)

\* seriesAnchorFilter: one event per series, the earliest that passes the
\* other filters, and every event outside a series.
SeriesAnchors(S) ==
  {i \in S : \/ SeriesOf[i] = None
             \/ \A j \in S : SeriesOf[j] = SeriesOf[i] =>
                               rows[i].date <= rows[j].date}

MapWhere(statuses) ==
  {i \in Ids : rows[i].isPublic /\ MapLifecycleWhere(statuses, rows[i])}

\* findEventsForMap: the points of the heatmap, heaviest first.
STATUS_HEATMAP_BOOST ==
  [s \in Statuses |-> IF s = "ONGOING" THEN 20 ELSE IF s = "SOON" THEN 5 ELSE 0]
FEATURED_HEATMAP_BOOST == 25
Engagement(i) == IF i \in Mine THEN 0 ELSE 2
Weight(i) ==
  Engagement(i) + STATUS_HEATMAP_BOOST[ComputeEventStatus(rows[i])]
    + (IF rows[i].featured THEN FEATURED_HEATMAP_BOOST ELSE 0)
Heavier(i, j) == Weight(i) > Weight(j) \/ (Weight(i) = Weight(j) /\ i < j)
FindEventsForMap(statuses) == Sorted(SeriesAnchors(MapWhere(statuses)), Heavier)

\* The same with the series collapsed after the page is cut.
FindEventsInViewportLate(statuses) ==
  LET found == Take(ActiveOrder(MapWhere(statuses)), ViewportLimit + 1)
  IN  [events |-> SelectSeq(Take(found, ViewportLimit),
                            LAMBDA i : i \in SeriesAnchors(Ids)),
       truncated |-> Len(found) > ViewportLimit]
\* findEventsInViewport: one more than the limit says whether some are left out.
FindEventsInViewport(statuses) ==
  LET found == Take(ActiveOrder(SeriesAnchors(MapWhere(statuses))), ViewportLimit + 1)
  IN  [events |-> Take(found, ViewportLimit), truncated |-> Len(found) > ViewportLimit]

\* normalizeSharedList: an event of a series without pictures shows those of
\* the earliest of the series that has some.
SeriesImages(i) ==
  IF i \in HasImages THEN {i}
  ELSE LET S == {j \in HasImages : SeriesOf[i] # None /\ SeriesOf[j] = SeriesOf[i]}
       IN {j \in S : \A k \in S : rows[j].date <= rows[k].date}

-----------------------------------------------------------------------------
(* The reader, the clock and the authors.                                  *)

\* UpdateEventBody: an end comes after the start; (seriesId, date) is unique.
Valid(e) == e.end # None => e.end > e.date
UniqueInSeries(r) ==
  \A i, j \in Ids : /\ i # j /\ SeriesOf[i] # None /\ SeriesOf[i] = SeriesOf[j]
                    => r[i].date # r[j].date

TypeOK ==
  /\ rows \in [Ids -> Event] /\ now \in Nat /\ changes \in 0..MaxChanges
  /\ {social, done, still} \subseteq BOOLEAN
  /\ cursor \in Ids \cup {None} /\ listed \in Seq(Ids)

Init ==
  /\ rows \in [Ids -> {e \in Event : /\ Valid(e) /\ e.isPublic
                                     /\ ~e.canceled /\ ~e.featured}]
  /\ UniqueInSeries(rows)
  /\ now = 2
  /\ social \in BOOLEAN
  /\ cursor = None
  /\ listed = <<>>
  /\ done = FALSE
  /\ changes = 0
  /\ still = TRUE

\* listUserEvents: a full page has a cursor, its last event.
listUserEvents ==
  /\ ~done
  /\ LET page == FindProfileEvents(cursor) IN
       /\ listed' = listed \o page
       /\ done' = (Len(page) < Limit)
       /\ cursor' = IF Len(page) < Limit THEN None ELSE page[Len(page)]
  /\ UNCHANGED <<rows, now, social, changes, still>>

\* An author cancels or hides an event, or a promotion begins or ends.
Change ==
  /\ ~done
  /\ changes < MaxChanges
  /\ changes' = changes + 1
  /\ \E i \in Ids :
       rows' \in {[rows EXCEPT ![i].canceled = TRUE],
                  [rows EXCEPT ![i].isPublic = ~@],
                  [rows EXCEPT ![i].featured = ~@]}
  /\ still' = (listed = <<>>)
  /\ UNCHANGED <<now, social, cursor, listed, done>>

Tick ==
  /\ now < Horizon
  /\ ~done
  /\ now' = now + 1
  /\ still' = (listed = <<>>)
  /\ UNCHANGED <<rows, social, cursor, listed, done, changes>>

Next == listUserEvents \/ Change \/ Tick

Spec == Init /\ [][Next]_vars

-----------------------------------------------------------------------------
(* The predicates of the queries and the status computed for the card are  *)
(* the same function of the event and the time, at every boundary.         *)
StatusAgrees ==
  \A i \in Ids, status \in Statuses :
    StatusCondition(status, rows[i]) <=> ComputeEventStatus(rows[i]) = status

(* The pages of a profile are the open events in their order and then the  *)
(* history in its own, each once and none left out, when nothing moves     *)
(* while the reader scrolls.                                               *)
Open == {i \in ProfileWhere : ComputeEventStatus(rows[i]) \notin
                                {"PAST", "CANCELED"}}
PagesComplete ==
  done /\ still =>
    listed = ActiveOrder(Open) \o ClosedOrder(ProfileWhere \ Open)

(* The pins are points of the heatmap, in one piece: all of them unless    *)
(* the answer says that it was cut; a series has one point, and shows      *)
(* pictures when any of its events has some.                               *)
PinsArePoints ==
  \A statuses \in {{}, {"PAST"}, {"SOON", "ONGOING"}} :
    LET points == Range(FindEventsForMap(statuses))
        view == FindEventsInViewport(statuses)
        pins == Range(view.events)
    IN  /\ pins \subseteq points
        /\ view.truncated <=> pins # points
        /\ \A i \in pins : SeriesOf[i] # None =>
             (SeriesImages(i) = {} <=>
                \A j \in HasImages : SeriesOf[j] # SeriesOf[i])
=============================================================================
