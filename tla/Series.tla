------------------------------- MODULE Series -------------------------------
(***************************************************************************)
(* A recurring event: the series row, its occurrences, and the reconciler  *)
(* that adds occurrences as the horizon moves.                             *)
(*                                                                         *)
(* A date is a number of steps; a series recurs every `interval` of them.  *)
(* The reconciler reads the series, then the bounds of their occurrences,  *)
(* then inserts; the author cancels the series or touches one occurrence   *)
(* between any two of these.                                               *)
(***************************************************************************)
EXTENDS Integers, FiniteSets

CONSTANTS HORIZON,          \* RECURRENCE_HORIZON_DAYS
          MAX_OCCURRENCES,  \* RECURRENCE_MAX_OCCURRENCES
          LastDate,         \* bound: the dates
          MaxTime,          \* bound: the clock
          MaxTouches,       \* bound: edits of single occurrences
          None              \* no value

Dates == 1..LastDate
Rules == [interval : {1, 2}, until : {None, LastDate - 1}, count : {None, 2}]
Series == [rule : Rules, canceled : BOOLEAN]

SeriesAssumption ==
  /\ HORIZON \in Nat /\ MAX_OCCURRENCES \in Nat \ {0}
  /\ {LastDate, MaxTime, MaxTouches} \subseteq Nat /\ MaxTime + HORIZON <= LastDate
  /\ None \notin {"live", "canceled"} \cup Series

VARIABLES
  now,      \* the clock
  premium,  \* the author is premium
  series,   \* [rule, canceled], or None
  rows,     \* [Dates -> "live", "canceled", or None]: unique (seriesId, date)
  pass,     \* the reconciler: None, or what it has read
  first,    \* history: the first date asked for
  made,     \* history: the dates created by the series itself
  touched,  \* history: the author moved, deleted or restored an occurrence
  touches,  \* edits so far
  raced     \* history: a pass of the reconciler was open when the author canceled

vars == <<now, premium, series, rows, pass, first, made, touched, touches,
          raced>>

TypeOK ==
  /\ now \in 0..MaxTime /\ {premium, touched, raced} \subseteq BOOLEAN
  /\ series \in Series \cup {None}
  /\ rows \in [Dates -> {"live", "canceled", None}] /\ made \subseteq Dates
  /\ first \in Dates \cup {None} /\ touches \in 0..MaxTouches
  /\ pass # None => pass.step \in {"read", "bounded"}

Init ==
  /\ now = 0
  /\ premium = TRUE
  /\ series = None
  /\ rows = [d \in Dates |-> None]
  /\ pass = None
  /\ first = None
  /\ made = {}
  /\ touched = FALSE
  /\ touches = 0
  /\ raced = FALSE

-----------------------------------------------------------------------------
Stored == {d \in Dates : rows[d] # None}
MinDate(S) == CHOOSE d \in S : \A e \in S : d <= e
MaxDate(S) == CHOOSE d \in S : \A e \in S : e <= d

Least(m, n) == IF m < n THEN m ELSE n

\* buildOccurrenceDates: from `start`, inside the horizon and `until`, no more
\* than `count` nor than the cap, and after `after`.
OccurrenceDates(start, rule, at, after) ==
  LET end == IF rule.until = None THEN at + HORIZON
             ELSE Least(rule.until, at + HORIZON)
      max == IF rule.count = None THEN MAX_OCCURRENCES
             ELSE Least(rule.count, MAX_OCCURRENCES)
  IN  {d \in Dates : \E i \in 0..(max - 1) : /\ d = start + rule.interval * i
                                             /\ d <= end /\ d > after}

\* skipDuplicates.
Insert(S) == [d \in Dates |-> IF d \in S /\ rows[d] = None THEN "live"
                              ELSE rows[d]]

-----------------------------------------------------------------------------
(* The author.                                                             *)

\* createRecurringEvent: premium, and at least the first date is inside the
\* horizon; the series and its occurrences in one transaction.
createRecurringEvent ==
  /\ series = None
  /\ premium
  /\ \E rule \in Rules, start \in Dates :
       LET dates == OccurrenceDates(start, rule, now, 0) IN
       /\ start > now
       /\ dates # {}
       /\ series' = [rule |-> rule, canceled |-> FALSE]
       /\ rows' = Insert(dates)
       /\ first' = start
       /\ made' = dates
  /\ UNCHANGED <<now, premium, pass, touched, touches, raced>>

\* The same for the next occurrence only.
CanceledNext(d) ==
  IF rows[d] = "live" /\ d > now /\ \A e \in Stored : e <= now \/ d <= e
  THEN "canceled" ELSE rows[d]
\* cancelSeries: the series and its live future occurrences, one transaction.
Canceled(d) == IF rows[d] = "live" /\ d > now THEN "canceled" ELSE rows[d]

cancelSeries ==
  /\ series # None
  /\ ~series.canceled
  /\ series' = [series EXCEPT !.canceled = TRUE]
  /\ rows' = [d \in Dates |-> Canceled(d)]
  /\ raced' = (pass # None)
  /\ UNCHANGED <<now, premium, pass, first, made, touched, touches>>

\* editEvent and removeEvent on one occurrence: canceled, restored, moved to a
\* free date, deleted.
touchOccurrence ==
  /\ touches < MaxTouches
  /\ touches' = touches + 1
  /\ \E d \in Stored :
       \/ /\ rows[d] = "live"
          /\ rows' = [rows EXCEPT ![d] = "canceled"]
          /\ UNCHANGED touched
       \/ /\ rows[d] = "canceled"
          /\ rows' = [rows EXCEPT ![d] = "live"]
          /\ touched' = TRUE
       \/ /\ \E e \in Dates :
               /\ rows[e] = None
               /\ rows' = [rows EXCEPT ![d] = None, ![e] = rows[d]]
          /\ touched' = TRUE
       \/ /\ rows' = [rows EXCEPT ![d] = None]
          /\ touched' = TRUE
  /\ UNCHANGED <<now, premium, series, pass, first, made, raced>>

-----------------------------------------------------------------------------
(* reconcileRecurringSeries.                                               *)

\* findReplenishableSeries: not canceled, `until` ahead, a premium author.
Replenishable ==
  /\ series # None /\ ~series.canceled /\ premium
  /\ series.rule.until \in {None} \cup (now + 1)..LastDate

\* The pass: "read" has the series, "bounded" the bounds of its occurrences.
findReplenishableSeries ==
  /\ pass = None
  /\ Replenishable
  /\ pass' = [step |-> "read", at |-> now]
  /\ UNCHANGED <<now, premium, series, rows, first, made, touched, touches,
                 raced>>

\* getSeriesOccurrenceBoundsBatch; no occurrence left, or the cap: skipped.
getOccurrenceBounds ==
  /\ pass # None /\ pass.step = "read"
  /\ pass' = IF Stored = {} \/ Cardinality(Stored) >= MAX_OCCURRENCES THEN None
             ELSE [step |-> "bounded", at |-> pass.at,
                   start |-> MinDate(Stored), latest |-> MaxDate(Stored)]
  /\ UNCHANGED <<now, premium, series, rows, first, made, touched, touches,
                 raced>>

\* The rule counted from the latest occurrence.
NewDatesFromLatest(p) ==
  OccurrenceDates(p.latest, series.rule, p.at, p.latest)
\* The same with a horizon one step short.
NewDatesShort(p) == OccurrenceDates(p.start, series.rule, p.at - 1, p.latest)
\* The dates of a pass: on from the anchor, after the latest.
NewDates(p) == OccurrenceDates(p.start, series.rule, p.at, p.latest)

\* appendOccurrences, from the template of the series.
appendOccurrences ==
  /\ pass # None /\ pass.step = "bounded"
  /\ rows' = Insert(NewDates(pass))
  /\ made' = made \cup {d \in NewDates(pass) : rows[d] = None}
  /\ pass' = None
  /\ UNCHANGED <<now, premium, series, first, touched, touches, raced>>

-----------------------------------------------------------------------------
setPremium ==
  /\ premium' = ~premium
  /\ UNCHANGED <<now, series, rows, pass, first, made, touched, touches, raced>>

tick ==
  /\ now < MaxTime
  /\ now' = now + 1
  /\ UNCHANGED <<premium, series, rows, pass, first, made, touched, touches,
                 raced>>

Reconcile ==
  findReplenishableSeries \/ getOccurrenceBounds \/ appendOccurrences

Next ==
  \/ createRecurringEvent \/ cancelSeries \/ touchOccurrence
  \/ findReplenishableSeries \/ getOccurrenceBounds \/ appendOccurrences
  \/ setPremium \/ tick

(* The reconciler runs on a timer and each of its statements returns.      *)
Spec == Init /\ [][Next]_vars /\ WF_vars(Reconcile)

-----------------------------------------------------------------------------
(* A canceled series announces nothing: no occurrence ahead is live, unless *)
(* a pass of the reconciler was open when the author canceled, or the      *)
(* author restored or moved one by hand.                                   *)
CanceledStaysQuiet ==
  series # None /\ series.canceled /\ ~raced /\ ~touched =>
    \A d \in Dates : d > now => rows[d] # "live"

(* Passes and passes of the reconciler never make more occurrences than    *)
(* the rule asked for, nor a date that is not of the rule, as long as the  *)
(* author only cancels.                                                    *)
FollowsRule ==
  series # None /\ ~touched =>
    \A d \in made :
      \E i \in 0..(MAX_OCCURRENCES - 1) :
        /\ d = first + series.rule.interval * i
        /\ series.rule.count # None => i < series.rule.count
        /\ series.rule.until # None => d <= series.rule.until

(* An occurrence that the rule asks for and the horizon has reached is     *)
(* created, while the series lives and its author is premium.              *)
Due(d) ==
  /\ Replenishable /\ ~touched
  /\ \E i \in 0..(MAX_OCCURRENCES - 1) :
       /\ d = first + series.rule.interval * i
       /\ series.rule.count # None => i < series.rule.count
  /\ series.rule.until # None => d <= series.rule.until
  /\ d <= now + HORIZON
  /\ rows[d] = None
HorizonFilled == (\E d \in Dates : Due(d)) ~> (\A d \in Dates : ~Due(d))
=============================================================================
