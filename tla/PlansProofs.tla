---------------------------- MODULE PlansProofs ----------------------------
(***************************************************************************)
(* Fan-outs, events, lists, spots, suggestions, series, promotions and     *)
(* pushes, proved for every value of the constants: the invariants of      *)
(* MCPlans, the graduation of groups and that a fan-out implements the     *)
(* outbox.  Each part has its own invariant, which its steps keep; the     *)
(* theorems put the parts together at the end.                             *)
(***************************************************************************)
EXTENDS MCPlans, FiniteSetTheorems, SequenceTheorems, TLAPS

-----------------------------------------------------------------------------
\* The part of a set up to an element, and from it on.
UpTo(S, u) == {v \in S : v <= u}
From(S, u) == {v \in S : u <= v}

\* A finite, nonempty set of naturals has a least and a greatest element.
LEMMA Ends ==
  ASSUME NEW S \in SUBSET Nat, IsFiniteSet(S), S # {}
  PROVE  /\ \E m \in S : \A u \in S : m <= u
         /\ \E m \in S : \A u \in S : u <= m
<1>0. \A v \in S : v \in Nat
  OBVIOUS
<1>1. IsWellFoundedOn(StrictSubsetOrdering(S), FiniteSubsetsOf(S))
  BY FS_StrictSubsetOrderingWellFounded
<1>2. FiniteSubsetsOf(S) = SUBSET S
  BY FS_FiniteSubsetsOfFinite
<1>3. \E m \in S : \A u \in S : m <= u
  <2> DEFINE T == {UpTo(S, u) : u \in S}
  <2>0. T \subseteq FiniteSubsetsOf(S) /\ T # {}
    <3>1. \A u \in S : UpTo(S, u) \in SUBSET S /\ UpTo(S, u) \in T
      BY DEF UpTo
    <3> QED BY <1>2, <3>1
  <2> HIDE DEF T
  <2>1. PICK B \in T : \A C \in T : ~ (<<C, B>> \in StrictSubsetOrdering(S))
    BY <1>1, <2>0, WFMin
  <2>2. PICK m \in S : B = UpTo(S, m)
    BY DEF T
  <2>3. ASSUME NEW u \in S, ~(m <= u) PROVE FALSE
    <3>1. u < m /\ u \in Nat /\ m \in Nat
      BY <1>0, <2>3
    <3>2. UpTo(S, u) \subseteq UpTo(S, m)
      <4> SUFFICES ASSUME NEW v \in UpTo(S, u) PROVE v \in UpTo(S, m)
        OBVIOUS
      <4>1. v \in S /\ v \in Nat /\ v <= m
        BY <1>0, <3>1 DEF UpTo
      <4> QED BY <4>1 DEF UpTo
    <3>3. m \notin UpTo(S, u) /\ m \in UpTo(S, m)
      BY <3>1 DEF UpTo
    <3>4. <<UpTo(S, u), UpTo(S, m)>> \in StrictSubsetOrdering(S)
      BY <3>2, <3>3 DEF StrictSubsetOrdering, UpTo
    <3> QED BY <2>1, <2>2, <3>4 DEF T
  <2> QED BY <2>3
<1>4. \E m \in S : \A u \in S : u <= m
  <2> DEFINE T == {From(S, u) : u \in S}
  <2>0. T \subseteq FiniteSubsetsOf(S) /\ T # {}
    <3>1. \A u \in S : From(S, u) \in SUBSET S /\ From(S, u) \in T
      BY DEF From
    <3> QED BY <1>2, <3>1
  <2> HIDE DEF T
  <2>1. PICK B \in T : \A C \in T : ~ (<<C, B>> \in StrictSubsetOrdering(S))
    BY <1>1, <2>0, WFMin
  <2>2. PICK m \in S : B = From(S, m)
    BY DEF T
  <2>3. ASSUME NEW u \in S, ~(u <= m) PROVE FALSE
    <3>1. m < u /\ u \in Nat /\ m \in Nat
      BY <1>0, <2>3
    <3>2. From(S, u) \subseteq From(S, m)
      <4> SUFFICES ASSUME NEW v \in From(S, u) PROVE v \in From(S, m)
        OBVIOUS
      <4>1. v \in S /\ v \in Nat /\ m <= v
        BY <1>0, <3>1 DEF From
      <4> QED BY <4>1 DEF From
    <3>3. m \notin From(S, u) /\ m \in From(S, m)
      BY <3>1 DEF From
    <3>4. <<From(S, u), From(S, m)>> \in StrictSubsetOrdering(S)
      BY <3>2, <3>3 DEF StrictSubsetOrdering, From
    <3> QED BY <2>1, <2>2, <3>4 DEF T
  <2> QED BY <2>3
<1> QED BY <1>3, <1>4

\* The last user of a set is in it.
LEMMA LastUser ==
  ASSUME NEW S \in SUBSET Users, S # {}
  PROVE  Max(S) \in S /\ \A u \in S : u <= Max(S)
<1>1. S \in SUBSET Nat /\ IsFiniteSet(S)
  BY FanoutAssumption, FS_Subset
<1>2. \E m \in S : \A u \in S : m >= u
  BY <1>1, Ends
<1> QED BY <1>1, <1>2 DEF Max

-----------------------------------------------------------------------------
(* The keyset. *)

\* Who of the audience comes after the cursor.
Rest(j) == {u \in Audience(j, run[j].discovery) : u > run[j].cursor}

\* A page is a beginning of the rest: whoever comes before its last is in it.
LEMMA PageBegins ==
  ASSUME NEW j \in Jobs, Rest(j) \subseteq Users
  PROVE  /\ Page(j) \subseteq Rest(j)
         /\ \A u \in Rest(j), v \in Page(j) : u <= v => u \in Page(j)
         /\ Page(j) = {} => Rest(j) = {}
         /\ Kind[j] = "joined" \/ Cardinality(Page(j)) < Batch => Page(j) = Rest(j)
<1>0. /\ Rest(j) \in SUBSET Nat /\ IsFiniteSet(Rest(j)) /\ Batch \in Nat \ {0}
      /\ \A u \in Rest(j) : IsFiniteSet(UpTo(Rest(j), u)) /\ Cardinality(UpTo(Rest(j), u)) \in Nat
  BY FanoutAssumption, FS_Subset, FS_CardinalityType DEF UpTo
<1>1. Page(j) = {u \in Rest(j) : Kind[j] = "joined" \/ Cardinality(UpTo(Rest(j), u)) <= Batch}
  BY DEF Page, Rest, UpTo
<1>2. ASSUME NEW u \in Rest(j), NEW v \in Page(j), u <= v PROVE u \in Page(j)
  <2>1. CASE Kind[j] = "joined"
    BY <1>1, <2>1
  <2>2. CASE Kind[j] # "joined"
    <3>1. v \in Rest(j) /\ Cardinality(UpTo(Rest(j), v)) <= Batch
      BY <1>1, <2>2
    <3>2. UpTo(Rest(j), u) \subseteq UpTo(Rest(j), v)
      BY <1>0, <1>2, <3>1 DEF UpTo
    <3>3. Cardinality(UpTo(Rest(j), u)) <= Cardinality(UpTo(Rest(j), v))
      BY <1>0, <3>1, <3>2, FS_Subset
    <3> QED BY <1>0, <1>1, <3>1, <3>3
  <2> QED BY <2>1, <2>2
<1>3. ASSUME Rest(j) # {} PROVE Page(j) # {}
  <2>1. PICK m \in Rest(j) : \A u \in Rest(j) : m <= u
    BY <1>0, <1>3, Ends
  <2>2. UpTo(Rest(j), m) = {m}
    BY <1>0, <2>1 DEF UpTo
  <2>3. Cardinality(UpTo(Rest(j), m)) = 1
    BY <2>2, FS_Singleton
  <2> QED BY <1>0, <1>1, <2>3
<1>4. ASSUME Kind[j] # "joined", Cardinality(Page(j)) < Batch, Page(j) # Rest(j) PROVE FALSE
  <2> DEFINE Out == Rest(j) \ Page(j)
  <2>1. Out # {} /\ Out \in SUBSET Nat /\ IsFiniteSet(Out)
    BY <1>0, <1>1, <1>4, FS_Subset
  <2>2. PICK m \in Out : \A u \in Out : m <= u
    BY <2>1, Ends
  <2>3. UpTo(Rest(j), m) \subseteq Page(j) \cup {m}
    BY <1>0, <2>2 DEF UpTo
  <2>4. IsFiniteSet(Page(j)) /\ Cardinality(Page(j)) \in Nat
    BY <1>0, <1>1, FS_Subset, FS_CardinalityType
  <2>5. IsFiniteSet(Page(j) \cup {m}) /\ Cardinality(Page(j) \cup {m}) <= Cardinality(Page(j)) + 1
    <3>1. /\ IsFiniteSet(Page(j) \cup {m})
          /\ Cardinality(Page(j) \cup {m}) = IF m \in Page(j) THEN Cardinality(Page(j))
                                                            ELSE Cardinality(Page(j)) + 1
      BY <2>4, FS_AddElement
    <3> QED BY <2>4, <3>1
  <2>6. Cardinality(UpTo(Rest(j), m)) <= Cardinality(Page(j) \cup {m})
    BY <2>3, <2>5, FS_Subset
  <2>7. Cardinality(UpTo(Rest(j), m)) <= Batch
    BY <1>0, <1>4, <2>2, <2>4, <2>5, <2>6, FS_CardinalityType
  <2> QED BY <1>1, <2>2, <2>7
<1>5. Kind[j] = "joined" => Page(j) = Rest(j)
  BY <1>1
<1> QED BY <1>1, <1>2, <1>3, <1>4, <1>5

-----------------------------------------------------------------------------
(* Types. *)

Run == [pc : {"waiting", "scan", "filter", "create", "deliver", "done", "failed"},
        discovery : BOOLEAN, cursor : Nat, page : SUBSET Users, to : SUBSET Users,
        since : Nat, left : Nat]

\* A job holds its recipients from the filter to the delivery.
RunOK(r) ==
  /\ r \in Run /\ r.to \subseteq r.page
  /\ r.pc \notin {"create", "deliver"} => r.to = {}
  /\ r.pc = "waiting" => r.cursor = 0 /\ ~r.discovery

FanShape ==
  /\ group \in Groups /\ now \in 1..MaxTime
  /\ near \in [Jobs -> SUBSET Users] /\ prefers \in [Jobs -> SUBSET Users]
  /\ live \subseteq {Target[j] : j \in Jobs}
  /\ at \in [Jobs -> [Users -> 0..MaxTime]] /\ sent \in [Jobs -> [Users -> Nat]]
  /\ usage \in [Users -> 0..DISCOVERY_DAILY_CAP]
  /\ found \in [Jobs -> SUBSET Users] /\ steady \in [Jobs -> SUBSET Users]
  /\ run \in [Jobs -> Run] /\ \A j \in Jobs : RunOK(run[j])

\* A run that waits or has ended is of its type.
LEMMA WaitingType == /\ RunOK(Waiting)
                     /\ \A pc \in {"done", "failed"} :
                          RunOK(Finished(0, pc)) /\ Finished(0, pc).pc = pc
BY FanoutAssumption DEF Waiting, Run, RunOK, Finished

\* A run that ended is of its type.
LEMMA FinishedType ==
  ASSUME NEW j, NEW pc \in {"done", "failed"}
  PROVE  RunOK(Finished(j, pc)) /\ Finished(j, pc).pc = pc
BY FanoutAssumption DEF Waiting, Run, RunOK, Finished

\* What one step does to the record of its job.
LEMMA SetType ==
  ASSUME FanShape, NEW j \in Jobs, NEW r, RunOK(r), Set(j, r)
  PROVE  /\ run' \in [Jobs -> Run] /\ run'[j] = r
         /\ \A k \in Jobs \ {j} : run'[k] = run[k]
         /\ \A k \in Jobs : RunOK(run'[k])
<1>1. r \in Run /\ run' = [run EXCEPT ![j] = r]
  BY DEF Set, RunOK
<1>2. /\ run' \in [Jobs -> Run] /\ run'[j] = r /\ \A k \in Jobs \ {j} : run'[k] = run[k]
  BY <1>1 DEF FanShape
<1>3. ASSUME NEW k \in Jobs PROVE RunOK(run'[k])
  BY <1>2 DEF FanShape
<1> QED BY <1>2, <1>3

\* The fields of a run.
LEMMA RunFields ==
  ASSUME FanShape, NEW j \in Jobs
  PROVE  /\ run[j] \in Run /\ run[j].pc \in {"waiting", "scan", "filter", "create", "deliver", "done", "failed"}
         /\ run[j].discovery \in BOOLEAN /\ run[j].cursor \in Nat
         /\ run[j].page \subseteq Users /\ run[j].to \subseteq run[j].page
         /\ run[j].since \in Nat /\ run[j].left \in Nat
         /\ run[j] = [pc |-> run[j].pc, discovery |-> run[j].discovery, cursor |-> run[j].cursor,
                      page |-> run[j].page, to |-> run[j].to, since |-> run[j].since,
                      left |-> run[j].left]
         /\ RunOK(run[j])
BY DEF FanShape, Run, RunOK

\* An audience is of users.
LEMMA AudienceType ==
  ASSUME FanShape, NEW j \in Jobs, NEW d \in BOOLEAN
  PROVE  Audience(j, d) \subseteq Users
BY DEF FanShape, Audience

\* What the steps make of a job's record, as long as it is one.
LEMMA Filled ==
  ASSUME NEW r, RunOK(r), NEW p \in SUBSET Users, NEW t \in SUBSET Users, NEW c \in Nat
  PROVE  /\ r.pc = "scan" => RunOK([r EXCEPT !.pc = "filter", !.page = p, !.cursor = c])
         /\ t \subseteq r.page => RunOK([r EXCEPT !.pc = "create", !.to = t])
         /\ RunOK([r EXCEPT !.pc = "deliver"])
         /\ r.pc = "waiting" => RunOK([r EXCEPT !.pc = "scan", !.since = c])
         /\ RunOK([r EXCEPT !.pc = "scan", !.page = {}, !.to = {}])
         /\ RunOK([r EXCEPT !.pc = "scan", !.discovery = TRUE, !.cursor = 0,
                            !.page = {}, !.to = {}])
<1>1. r = [pc |-> r.pc, discovery |-> r.discovery, cursor |-> r.cursor, page |-> r.page,
           to |-> r.to, since |-> r.since, left |-> r.left]
  BY DEF RunOK, Run
<1>2. /\ r.discovery \in BOOLEAN /\ r.cursor \in Nat /\ r.page \in SUBSET Users
      /\ r.to \in SUBSET Users /\ r.since \in Nat /\ r.left \in Nat
  BY DEF RunOK, Run
<1>3. r.pc = "scan" => RunOK([r EXCEPT !.pc = "filter", !.page = p, !.cursor = c])
  BY <1>1, <1>2 DEF RunOK, Run
<1>4. t \subseteq r.page => RunOK([r EXCEPT !.pc = "create", !.to = t])
  BY <1>1, <1>2 DEF RunOK, Run
<1>5. RunOK([r EXCEPT !.pc = "deliver"])
  BY <1>1, <1>2 DEF RunOK, Run
<1>6. r.pc = "waiting" => RunOK([r EXCEPT !.pc = "scan", !.since = c])
  BY <1>1, <1>2 DEF RunOK, Run
<1>7. RunOK([r EXCEPT !.pc = "scan", !.page = {}, !.to = {}])
  BY <1>1, <1>2 DEF RunOK, Run
<1>8. RunOK([r EXCEPT !.pc = "scan", !.discovery = TRUE, !.cursor = 0, !.page = {}, !.to = {}])
  BY <1>1, <1>2 DEF RunOK, Run
<1> QED BY <1>3, <1>4, <1>5, <1>6, <1>7, <1>8

\* A run that is tried again waits.
LEMMA Retried ==
  ASSUME NEW n \in Nat
  PROVE  RunOK([Waiting EXCEPT !.left = n]) /\ [Waiting EXCEPT !.left = n].pc = "waiting"
BY DEF RunOK, Run, Waiting

\* What follows the last page: the end, or the discoveries.
LEMMA AfterPassType ==
  ASSUME FanShape, NEW j \in Jobs
  PROVE  /\ RunOK(AfterPass(j)) /\ AfterPass(j).to = {}
         /\ \/ AfterPass(j).pc = "done" /\ (j \notin Premium \/ run[j].discovery)
            \/ AfterPass(j).pc = "scan" /\ AfterPass(j).discovery
<1>1. CASE j \in Premium /\ ~run[j].discovery
  <2>1. AfterPass(j) = [run[j] EXCEPT !.pc = "scan", !.discovery = TRUE, !.cursor = 0,
                                      !.page = {}, !.to = {}]
    BY <1>1 DEF AfterPass
  <2>2. AfterPass(j).to = {} /\ AfterPass(j).pc = "scan" /\ AfterPass(j).discovery
    BY <2>1, RunFields
  <2>3. {} \in SUBSET Users /\ 0 \in Nat /\ RunOK(run[j])
    BY RunFields
  <2>4. RunOK(AfterPass(j))
    BY <2>1, <2>3, Filled, Zenon
  <2> QED BY <2>2, <2>4
<1>2. CASE ~(j \in Premium /\ ~run[j].discovery)
  <2>1. AfterPass(j) = Finished(j, "done")
    BY <1>2 DEF AfterPass
  <2>2. j \notin Premium \/ run[j].discovery
    BY <1>2
  <2> QED BY <2>1, <2>2, FinishedType DEF RunOK
<1> QED BY <1>1, <1>2

\* What follows a page: the next, or what follows the last.
LEMMA NextPageType ==
  ASSUME FanShape, NEW j \in Jobs
  PROVE  /\ RunOK(NextPage(j)) /\ NextPage(j).to = {}
         /\ LastPage(j) => NextPage(j) = AfterPass(j)
         /\ ~LastPage(j) => /\ NextPage(j).pc = "scan" /\ NextPage(j).discovery = run[j].discovery
                            /\ NextPage(j).cursor = run[j].cursor
<1>1. CASE LastPage(j)
  BY <1>1, AfterPassType DEF NextPage
<1>2. CASE ~LastPage(j)
  <2>1. NextPage(j) = [run[j] EXCEPT !.pc = "scan", !.page = {}, !.to = {}]
    BY <1>2 DEF NextPage
  <2>2. /\ NextPage(j).to = {} /\ NextPage(j).pc = "scan"
        /\ NextPage(j).discovery = run[j].discovery /\ NextPage(j).cursor = run[j].cursor
    BY <2>1, RunFields
  <2>3. {} \in SUBSET Users /\ 0 \in Nat /\ RunOK(run[j])
    BY RunFields
  <2>4. RunOK(NextPage(j))
    BY <2>1, <2>3, Filled, Zenon
  <2> QED BY <1>2, <2>2, <2>4
<1> QED BY <1>1, <1>2

\* Those who are chosen are of the page.
LEMMA RecipientsType ==
  ASSUME FanShape, NEW j \in Jobs
  PROVE  Recipients(j) \subseteq run[j].page /\ Budgeted(Recipients(j)) \subseteq Recipients(j)
BY DEF Recipients, Budgeted

\* Deliveries are counted by users.
LEMMA DeliveredType ==
  ASSUME FanShape, NEW j \in Jobs, NEW S, Delivered(j, S)
  PROVE  sent' \in [Jobs -> [Users -> Nat]]
BY DEF FanShape, Delivered

\* The shape holds at the start.
LEMMA FanShapeInit == Init => FanShape
<1> SUFFICES ASSUME Init PROVE FanShape
  OBVIOUS
<1>1. Max(Users) \in Users
  BY FanoutAssumption, LastUser
<1>2. Waiting \in Run
  BY WaitingType DEF RunOK
<1>3. run \in [Jobs -> Run] /\ \A j \in Jobs : RunOK(run[j])
  BY WaitingType, <1>2 DEF Init
<1>4. live \subseteq {Target[j] : j \in Jobs}
  BY DEF Init
<1> QED BY <1>1, <1>3, <1>4, FanoutAssumption DEF Init, FanShape

\* The next page, and its last user.
LEMMA PageType ==
  ASSUME FanShape, NEW j \in Jobs
  PROVE  /\ Rest(j) \subseteq Users /\ Page(j) \subseteq Rest(j)
         /\ Page(j) # {} => /\ Max(Page(j)) \in Page(j) /\ Max(Page(j)) \in Nat
                            /\ \A u \in Page(j) : u <= Max(Page(j))
<1>1. Audience(j, run[j].discovery) \subseteq Users
  BY RunFields, AudienceType
<1>2. Rest(j) \subseteq Users
  BY <1>1 DEF Rest
<1>3. Page(j) \subseteq Rest(j)
  BY <1>2, PageBegins
<1>4. Page(j) \in SUBSET Users
  BY <1>2, <1>3
<1> QED BY <1>2, <1>3, <1>4, LastUser, FanoutAssumption

\* The next record of the job that steps.
ScanRun(j) == IF Page(j) = {} THEN AfterPass(j)
              ELSE [run[j] EXCEPT !.pc = "filter", !.page = Page(j), !.cursor = Max(Page(j))]

LoadRun(j) == IF Target[j] \in live
              THEN [run[j] EXCEPT !.pc = "scan", !.since = IF now > Gap THEN now - Gap ELSE 0]
              ELSE Finished(j, "done")

Chosen(j) == IF run[j].discovery THEN Budgeted(Recipients(j)) ELSE Recipients(j)

FilterRun(j) == IF Chosen(j) = {} THEN NextPage(j)
                ELSE [run[j] EXCEPT !.pc = "create", !.to = Chosen(j)]

\* Every step of a run leaves it of its type.
LEMMA RunSteps ==
  ASSUME FanShape, NEW j \in Jobs
  PROVE  /\ run[j].pc = "waiting" => RunOK(LoadRun(j))
         /\ run[j].pc = "scan" => RunOK(ScanRun(j))
         /\ RunOK(FilterRun(j)) /\ Chosen(j) \subseteq run[j].page
         /\ RunOK([run[j] EXCEPT !.pc = "deliver"])
         /\ RunOK(AfterError(j)) /\ AfterError(j).pc \in {"waiting", "failed"}
<1> USE RunFields
<1>1. run[j].pc = "waiting" => RunOK(LoadRun(j))
  <2> DEFINE since == IF now > Gap THEN now - Gap ELSE 0
  <2>1. since \in Nat
    BY FanoutAssumption DEF FanShape
  <2>2. RunOK(Finished(j, "done"))
    BY FinishedType
  <2>3. run[j].pc = "waiting" => RunOK([run[j] EXCEPT !.pc = "scan", !.since = since])
    BY <2>1, Filled, Zenon
  <2> QED BY <2>2, <2>3 DEF LoadRun
<1>2. run[j].pc = "scan" => RunOK(ScanRun(j))
  <2>1. Page(j) \in SUBSET Users
    BY PageType
  <2>2. CASE Page(j) = {}
    BY <2>2, AfterPassType DEF ScanRun
  <2>3. CASE Page(j) # {}
    <3>1. Max(Page(j)) \in Nat
      BY <2>3, PageType
    <3> QED BY <2>1, <2>3, <3>1, Filled, Zenon DEF ScanRun
  <2> QED BY <2>2, <2>3
<1>3. Chosen(j) \subseteq run[j].page
  BY RecipientsType DEF Chosen
<1>4. RunOK(FilterRun(j))
  <2>1. Chosen(j) \in SUBSET Users
    BY <1>3
  <2>2. RunOK([run[j] EXCEPT !.pc = "create", !.to = Chosen(j)])
    BY <1>3, <2>1, Filled, Zenon
  <2> QED BY <2>2, NextPageType DEF FilterRun
<1>5. RunOK([run[j] EXCEPT !.pc = "deliver"])
  BY Filled, Zenon
<1>6. RunOK(AfterError(j)) /\ AfterError(j).pc \in {"waiting", "failed"}
  <2>0. run[j].left \in Nat
    BY RunFields
  <2>1. run[j].left > 1 => run[j].left - 1 \in Nat
    BY <2>0
  <2>2. run[j].left > 1 => /\ RunOK([Waiting EXCEPT !.left = run[j].left - 1])
                           /\ [Waiting EXCEPT !.left = run[j].left - 1].pc = "waiting"
    BY <2>1, Retried
  <2> QED BY <2>2, FinishedType DEF AfterError
<1> QED BY <1>1, <1>2, <1>3, <1>4, <1>5, <1>6

\* Every step keeps the shape.
LEMMA FanShapeStep == ASSUME FanShape, Next PROVE FanShape'
<1>2. ASSUME NEW j \in Jobs, NEW r, RunOK(r), Set(j, r),
             sent' \in [Jobs -> [Users -> Nat]], at' \in [Jobs -> [Users -> 0..MaxTime]],
             usage' \in [Users -> 0..DISCOVERY_DAILY_CAP], found' \in [Jobs -> SUBSET Users],
             steady' \in [Jobs -> SUBSET Users], UNCHANGED env
      PROVE  FanShape'
  BY <1>2, SetType DEF FanShape, env
<1>1. ASSUME NEW j \in Jobs, load(j) PROVE FanShape'
  <2>1. UNCHANGED <<env, at, sent, usage, found>> /\ Set(j, LoadRun(j)) /\ run[j].pc = "waiting"
    BY <1>1 DEF load, LoadRun
  <2>2. steady' \in [Jobs -> SUBSET Users]
    <3>1. Audience(j, FALSE) \in SUBSET Users
      BY AudienceType
    <3>2. steady' = [steady EXCEPT ![j] = Audience(j, FALSE)] \/ steady' = [steady EXCEPT ![j] = {}]
      BY <1>1 DEF load
    <3> QED BY <3>1, <3>2 DEF FanShape
  <2> QED BY <1>2, <2>1, <2>2, RunSteps DEF FanShape
<1>3. ASSUME NEW j \in Jobs, scan(j) PROVE FanShape'
  <2>1. Set(j, ScanRun(j)) /\ UNCHANGED <<env, at, sent, usage, found, steady>>
        /\ run[j].pc = "scan"
    BY <1>3 DEF scan, ScanRun
  <2> QED BY <1>2, <2>1, RunSteps DEF FanShape
<1>4. ASSUME NEW j \in Jobs, filter(j) PROVE FanShape'
  <2>1. Set(j, FilterRun(j)) /\ UNCHANGED <<env, at, sent, steady>>
    BY <1>4 DEF filter, FilterRun, Chosen
  <2>2. usage' \in [Users -> 0..DISCOVERY_DAILY_CAP]
    BY <1>4, FanoutAssumption DEF FanShape, filter
  <2>3. Chosen(j) \in SUBSET Users
    BY RunSteps, RunFields
  <2>4. found' = IF run[j].discovery THEN [found EXCEPT ![j] = @ \cup Chosen(j)] ELSE found
    BY <1>4 DEF filter, Chosen
  <2>5. found' \in [Jobs -> SUBSET Users]
    BY <2>3, <2>4 DEF FanShape
  <2> QED BY <1>2, <2>1, <2>2, <2>5, RunSteps DEF FanShape
<1>5. ASSUME NEW j \in Jobs, create(j) PROVE FanShape'
  <2>1. Set(j, [run[j] EXCEPT !.pc = "deliver"]) /\ UNCHANGED <<env, sent, usage, found, steady>>
    BY <1>5 DEF create
  <2>2. at' \in [Jobs -> [Users -> 0..MaxTime]]
    BY <1>5, FanoutAssumption DEF FanShape, create
  <2> QED BY <1>2, <2>1, <2>2, RunSteps DEF FanShape
<1>6. ASSUME NEW j \in Jobs, deliver(j) PROVE FanShape'
  <2>1. Set(j, NextPage(j)) /\ UNCHANGED <<env, at, usage, found, steady>>
    BY <1>6 DEF deliver
  <2>2. sent' \in [Jobs -> [Users -> Nat]]
    BY <1>6, DeliveredType DEF deliver
  <2> QED BY <1>2, <2>1, <2>2, NextPageType DEF FanShape
<1>7. ASSUME NEW j \in Jobs, fail(j) PROVE FanShape'
  <2>1. Set(j, AfterError(j)) /\ UNCHANGED <<env, at, usage, found, steady>>
    BY <1>7 DEF fail
  <2>2. sent' \in [Jobs -> [Users -> Nat]]
    BY <1>7, DeliveredType DEF fail
  <2> QED BY <1>2, <2>1, <2>2, RunSteps DEF FanShape
<1>8. ASSUME crash PROVE FanShape'
  <2>1. ASSUME NEW j \in Jobs PROVE RunOK(run'[j])
    <3>1. run'[j] = IF Active(j) THEN [Waiting EXCEPT !.left = run[j].left] ELSE run[j]
      BY <1>8 DEF crash
    <3> QED BY <3>1, RunFields, Retried
  <2>2. run' \in [Jobs -> Run]
    <3>1. run' = [j \in Jobs |-> run'[j]]
      BY <1>8 DEF crash
    <3> QED BY <2>1, <3>1 DEF RunOK
  <2> QED BY <1>8, <2>1, <2>2 DEF FanShape, crash, env
<1>9. ASSUME NEW j \in Jobs, NEW u \in Users, move(j, u) PROVE FanShape'
  <2>1. near' \in [Jobs -> SUBSET Users] /\ steady' \in [Jobs -> SUBSET Users]
    BY <1>9 DEF FanShape, move, SymDiff
  <2> QED BY <1>9, <2>1 DEF FanShape, move
<1>10. ASSUME NEW j \in Jobs, NEW u \in Users, changeTaste(j, u) PROVE FanShape'
  <2>1. prefers' \in [Jobs -> SUBSET Users] /\ steady' \in [Jobs -> SUBSET Users]
    BY <1>10 DEF FanShape, changeTaste, SymDiff
  <2> QED BY <1>10, <2>1 DEF FanShape, changeTaste
<1>11. ASSUME NEW j \in Jobs, cancel(j) PROVE FanShape'
  BY <1>11 DEF FanShape, cancel
<1>12. ASSUME Tick PROVE FanShape'
  <2>1. now' \in 1..MaxTime
    BY <1>12, FanoutAssumption DEF FanShape, Tick
  <2>2. usage' \in [Users -> 0..DISCOVERY_DAILY_CAP] /\ found' \in [Jobs -> SUBSET Users]
    BY <1>12, FanoutAssumption DEF Tick
  <2> QED BY <1>12, <2>1, <2>2 DEF FanShape, Tick
<1> QED BY <1>1, <1>3, <1>4, <1>5, <1>6, <1>7, <1>8, <1>9, <1>10, <1>11, <1>12 DEF Next, Step

-----------------------------------------------------------------------------
(* The reach. *)

\* A user is told of the target of a job: by its own row, or for an event by any.
Told(j, u) == \E k \in Jobs : /\ Target[k] = Target[j] /\ at[k][u] > 0
                              /\ k = j \/ Kind[j] \in {"created", "promotion"}

FirstPass(j) == Active(j) /\ ~run[j].discovery
PassOver(j) == run[j].pc = "done" \/ (Active(j) /\ run[j].discovery)

\* Who the pass is about to tell.
Pending(j, u) == \/ run[j].pc = "filter" /\ u \in run[j].page
                 \/ run[j].pc = "create" /\ u \in run[j].to

\* The first pass goes up the keyset: whoever stayed in the audience is told or
\* about to be up to the cursor, and beyond it the page is not the last.
Reach(j) ==
  /\ run[j].pc # "waiting" => j \in group
  /\ FirstPass(j) =>
       /\ steady[j] \subseteq Audience(j, FALSE)
       /\ \A u \in steady[j] : u <= run[j].cursor => Told(j, u) \/ Pending(j, u)
       /\ run[j].pc # "scan" => \A u \in steady[j] : u > run[j].cursor => ~LastPage(j)
  /\ PassOver(j) => \A u \in steady[j] : Told(j, u)

Grows == \A k \in Jobs, u \in Users : at[k][u] > 0 => at'[k][u] > 0

\* Who was told stays told.
LEMMA ToldStays ==
  ASSUME Grows, NEW j \in Jobs, NEW u \in Users, Told(j, u)
  PROVE  Told(j, u)'
BY DEF Grows, Told

\* A job that does not step keeps what it reached.
LEMMA ReachStays ==
  ASSUME FanShape, NEW j \in Jobs, Reach(j), Grows, run'[j] = run[j], group' = group,
         steady'[j] \subseteq steady[j], FirstPass(j) => steady'[j] \subseteq Audience(j, FALSE)'
  PROVE  Reach(j)'
<1>1. steady'[j] \subseteq Users /\ \A u \in steady'[j] : Told(j, u) => Told(j, u)'
  BY ToldStays DEF FanShape
<1>2. /\ FirstPass(j)' = FirstPass(j) /\ PassOver(j)' = PassOver(j)
      /\ \A u : Pending(j, u)' = Pending(j, u) /\ LastPage(j)' = LastPage(j)
  BY DEF FirstPass, PassOver, Active, Pending, LastPage
<1> QED BY <1>1, <1>2 DEF Reach

\* What comes after the last page.
LEMMA PassEnds ==
  ASSUME FanShape, NEW j \in Jobs, Grows, j \in group, group' = group,
         run'[j] = AfterPass(j), steady' = steady, \A u \in steady[j] : Told(j, u)
  PROVE  Reach(j)'
<1>0. run'[j].pc = "done" \/ (run'[j].pc = "scan" /\ run'[j].discovery)
  BY AfterPassType
<1>1. PassOver(j)' /\ ~FirstPass(j)'
  BY <1>0 DEF PassOver, FirstPass, Active
<1>2. \A u \in steady[j] : Told(j, u)'
  BY ToldStays DEF FanShape
<1> QED BY <1>1, <1>2 DEF Reach

\* The end of a page: the next one, or the end of the pass.
LEMMA PageEnds ==
  ASSUME FanShape, NEW j \in Jobs, Grows, Reach(j), group' = group, Active(j), run[j].pc # "scan",
         run'[j] = NextPage(j), steady' = steady, near' = near, prefers' = prefers,
         \A u \in Users : Pending(j, u) => Told(j, u)
  PROVE  Reach(j)'
<1>0. j \in group /\ steady[j] \subseteq Users /\ run[j].cursor \in Nat /\ Users \subseteq Nat
  BY FanoutAssumption, RunFields DEF Reach, Active, FanShape
<1>1. CASE run[j].discovery
  <2>1. \A u \in steady[j] : Told(j, u)
    BY <1>1 DEF Reach, PassOver
  <2>2. CASE LastPage(j)
    BY <1>0, <2>1, <2>2, PassEnds, NextPageType
  <2>3. CASE ~LastPage(j)
    <3>1. run'[j].pc = "scan" /\ run'[j].discovery
      BY <1>1, <2>3, NextPageType
    <3>2. PassOver(j)' /\ ~FirstPass(j)'
      BY <3>1 DEF PassOver, FirstPass, Active
    <3>3. \A u \in steady[j] : Told(j, u)'
      BY <1>0, <2>1, ToldStays
    <3> QED BY <1>0, <3>2, <3>3 DEF Reach
  <2> QED BY <2>2, <2>3
<1>2. CASE ~run[j].discovery
  <2>0. FirstPass(j)
    BY <1>2 DEF FirstPass
  <2>1. \A u \in steady[j] : u <= run[j].cursor => Told(j, u)
    BY <1>0, <2>0 DEF Reach
  <2>2. CASE LastPage(j)
    <3>1. \A u \in steady[j] : u <= run[j].cursor
      <4>1. \A u \in steady[j] : ~(u > run[j].cursor)
        BY <2>0, <2>2 DEF Reach
      <4> SUFFICES ASSUME NEW u \in steady[j] PROVE u <= run[j].cursor
        OBVIOUS
      <4>2. u \in Nat /\ run[j].cursor \in Nat /\ ~(u > run[j].cursor)
        BY <1>0, <4>1
      <4> QED BY <4>2
    <3> QED BY <1>0, <2>1, <2>2, <3>1, PassEnds, NextPageType
  <2>3. CASE ~LastPage(j)
    <3>1. run'[j].pc = "scan" /\ ~run'[j].discovery /\ run'[j].cursor = run[j].cursor
      BY <1>2, <2>3, NextPageType
    <3>2. ~PassOver(j)'
      BY <3>1 DEF PassOver
    <3>3. \A u \in steady[j] : u <= run[j].cursor => Told(j, u)'
      BY <1>0, <2>1, ToldStays
    <3>4. steady[j] \subseteq Audience(j, FALSE)'
      BY <2>0 DEF Reach, Audience
    <3> QED BY <1>0, <3>1, <3>2, <3>3, <3>4 DEF Reach
  <2> QED BY <2>2, <2>3
<1> QED BY <1>1, <1>2

\* The load of the first page covers whom it skips.
LEMMA ReachLoad ==
  ASSUME FanShape, NEW j \in Jobs, load(j)
  PROVE  Reach(j)'
<1>0. run'[j] = LoadRun(j) /\ j \in group /\ group' = group /\ run[j].pc = "waiting"
  BY DEF load, LoadRun, Set, FanShape, env
<1>1. CASE Target[j] \in live
  <2>1. /\ run'[j].pc = "scan" /\ ~run'[j].discovery /\ run'[j].cursor = 0
    BY <1>0, <1>1, RunFields DEF LoadRun, RunOK
  <2>2. steady'[j] = Audience(j, FALSE) /\ Audience(j, FALSE)' = Audience(j, FALSE)
    BY <1>1 DEF load, FanShape, env, Audience
  <2>3. \A u \in steady'[j] : u \in Nat \ {0}
    BY <2>2, AudienceType, FanoutAssumption
  <2>4. ~PassOver(j)'
    BY <2>1 DEF PassOver
  <2>5. ASSUME NEW u \in steady'[j] PROVE ~(u <= run'[j].cursor)
    <3>1. u \in Nat \ {0} /\ run'[j].cursor = 0
      BY <2>1, <2>3
    <3> QED BY <3>1
  <2> QED BY <1>0, <2>1, <2>2, <2>4, <2>5 DEF Reach
<1>2. CASE Target[j] \notin live
  <2>1. run'[j].pc = "done" /\ steady'[j] = {}
    BY <1>0, <1>2, FinishedType DEF load, LoadRun, FanShape
  <2>2. ~FirstPass(j)'
    BY <2>1 DEF FirstPass, Active
  <2> QED BY <1>0, <2>1, <2>2 DEF Reach
<1> QED BY <1>1, <1>2

\* The scan of a page covers whom it skips.
LEMMA ReachScan ==
  ASSUME FanShape, NEW j \in Jobs, Reach(j), scan(j)
  PROVE  Reach(j)'
<1>0. /\ run'[j] = ScanRun(j) /\ group' = group /\ run[j].pc = "scan" /\ steady' = steady
      /\ at' = at /\ near' = near /\ prefers' = prefers /\ Grows
  BY DEF scan, ScanRun, Set, FanShape, env, Grows
<1>1. /\ j \in group /\ steady[j] \subseteq Users /\ run[j].cursor \in Nat /\ Users \subseteq Nat
      /\ run[j].discovery \in BOOLEAN /\ Active(j)
  BY <1>0, FanoutAssumption, RunFields DEF Reach, FanShape, Active
<1>2. ~run[j].discovery => FirstPass(j)
  BY <1>1 DEF FirstPass
<1>3. /\ ~run[j].discovery => \A u \in steady[j] : u > run[j].cursor => u \in Rest(j)
      /\ Rest(j) \subseteq Users
  <2>1. ~run[j].discovery => steady[j] \subseteq Audience(j, run[j].discovery)
    <3>1. ~run[j].discovery => run[j].discovery = FALSE
      BY <1>1
    <3> QED BY <1>2, <3>1 DEF Reach
  <2> QED BY <2>1, PageType DEF Rest
<1>4. ~run[j].discovery => \A u \in steady[j] : u <= run[j].cursor => Told(j, u)
  BY <1>0, <1>2 DEF Reach, Pending
<1>5. run[j].discovery => \A u \in steady[j] : Told(j, u)
  BY <1>1 DEF Reach, PassOver
<1>6. CASE Page(j) = {}
  <2>1. Rest(j) = {}
    BY <1>3, <1>6, PageBegins
  <2>2. \A u \in steady[j] : Told(j, u)
    <3> SUFFICES ASSUME NEW u \in steady[j] PROVE Told(j, u)
      OBVIOUS
    <3>1. u \in Nat /\ run[j].cursor \in Nat
      BY <1>1
    <3>2. u <= run[j].cursor \/ u > run[j].cursor
      BY <3>1
    <3> QED BY <1>3, <1>4, <1>5, <2>1, <3>2
  <2> QED BY <1>0, <1>1, <1>6, <2>2, PassEnds DEF ScanRun
<1>7. CASE Page(j) # {}
  <2>1. /\ run'[j].pc = "filter" /\ run'[j].page = Page(j) /\ run'[j].cursor = Max(Page(j))
        /\ run'[j].discovery = run[j].discovery
    BY <1>0, <1>7, RunFields DEF ScanRun
  <2>2. /\ Max(Page(j)) \in Page(j) /\ Max(Page(j)) \in Nat /\ \A u \in Page(j) : u <= Max(Page(j))
    BY <1>7, PageType
  <2>3. \A u \in steady[j] : Told(j, u) => Told(j, u)'
    BY <1>0, <1>1, ToldStays
  <2>4. CASE run[j].discovery
    <3>1. PassOver(j)' /\ ~FirstPass(j)'
      BY <2>1, <2>4 DEF PassOver, FirstPass, Active
    <3> QED BY <1>0, <1>1, <1>5, <2>3, <2>4, <3>1 DEF Reach
  <2>5. CASE ~run[j].discovery
    <3>1. ~PassOver(j)'
      BY <2>1, <2>5 DEF PassOver
    <3>2. steady[j] \subseteq Audience(j, FALSE)'
      BY <1>0, <1>2, <2>5 DEF Reach, Audience
    <3>3. ASSUME NEW u \in steady[j], u <= Max(Page(j)), ~(u <= run[j].cursor) PROVE u \in Page(j)
      <4>1. u > run[j].cursor
        <5>1. u \in Nat /\ run[j].cursor \in Nat
          BY <1>1
        <5> QED BY <3>3, <5>1
      <4>2. u \in Rest(j)
        BY <1>3, <2>5, <4>1
      <4> QED BY <1>3, <2>2, <3>3, <4>2, PageBegins
    <3>4. \A u \in steady'[j] : u <= run'[j].cursor => Told(j, u)' \/ Pending(j, u)'
      BY <1>0, <1>4, <2>1, <2>3, <2>5, <3>3 DEF Pending
    <3>5. ASSUME NEW u \in steady[j], u > Max(Page(j)), LastPage(j)' PROVE FALSE
      <4>1. Kind[j] = "joined" \/ Cardinality(Page(j)) < Batch
        BY <2>1, <3>5 DEF LastPage
      <4>2. Page(j) = Rest(j)
        BY <1>3, <4>1, PageBegins
      <4>3. Max(Page(j)) > run[j].cursor
        BY <2>2, <4>2 DEF Rest
      <4>4. u > run[j].cursor /\ u \in Nat
        <5>1. u \in Nat /\ run[j].cursor \in Nat
          BY <1>1
        <5> QED BY <2>2, <3>5, <4>3, <5>1
      <4>5. u \in Page(j)
        BY <1>3, <2>5, <4>2, <4>4
      <4>6. u <= Max(Page(j))
        BY <2>2, <4>5
      <4> QED BY <2>2, <3>5, <4>4, <4>6
    <3> QED BY <1>0, <1>1, <2>1, <3>1, <3>2, <3>4, <3>5 DEF Reach
  <2> QED BY <1>1, <2>4, <2>5
<1> QED BY <1>6, <1>7

\* The filter covers whom it drops.
LEMMA ReachFilter ==
  ASSUME FanShape, NEW j \in Jobs, Reach(j), filter(j)
  PROVE  Reach(j)'
<1>0. /\ run'[j] = FilterRun(j) /\ group' = group /\ run[j].pc = "filter" /\ steady' = steady
      /\ at' = at /\ near' = near /\ prefers' = prefers /\ Grows
  BY DEF filter, FilterRun, Chosen, Set, FanShape, env, Grows
<1>1. /\ j \in group /\ steady[j] \subseteq Users /\ Active(j) /\ run[j].page \subseteq Users
  BY <1>0, RunFields DEF Reach, FanShape, Active
<1>2. ASSUME NEW u \in run[j].page, u \notin Recipients(j) PROVE Told(j, u)
  <2>0. u \in Users
    BY <1>1
  <2>1. u \in Existing(j) \/ (Kind[j] = "promotion" /\ u \in JustNotified(j))
    BY <1>2 DEF Recipients
  <2>2. CASE u \in Existing(j)
    BY <2>2 DEF Existing, HasRow, Alike, Told
  <2>3. CASE Kind[j] = "promotion" /\ u \in JustNotified(j)
    BY <2>3 DEF JustNotified, Told
  <2> QED BY <2>1, <2>2, <2>3
<1>3. CASE run[j].discovery
  <2>1. \A u \in steady[j] : Told(j, u)
    BY <1>1, <1>3 DEF Reach, PassOver
  <2>2. CASE Chosen(j) = {}
    <3>1. run'[j] = NextPage(j)
      BY <1>0, <2>2 DEF FilterRun
    <3>2. CASE LastPage(j)
      BY <1>0, <1>1, <2>1, <3>1, <3>2, PassEnds, NextPageType
    <3>3. CASE ~LastPage(j)
      <4>1. run'[j].pc = "scan" /\ run'[j].discovery
        BY <1>3, <3>1, <3>3, NextPageType
      <4>2. PassOver(j)' /\ ~FirstPass(j)'
        BY <4>1 DEF PassOver, FirstPass, Active
      <4>3. \A u \in steady[j] : Told(j, u)'
        BY <1>0, <1>1, <2>1, ToldStays
      <4> QED BY <1>0, <1>1, <4>2, <4>3 DEF Reach
    <3> QED BY <3>2, <3>3
  <2>3. CASE Chosen(j) # {}
    <3>1. run'[j].pc = "create" /\ run'[j].discovery
      BY <1>0, <1>3, <2>3, RunFields DEF FilterRun
    <3>2. PassOver(j)' /\ ~FirstPass(j)'
      BY <3>1 DEF PassOver, FirstPass, Active
    <3>3. \A u \in steady[j] : Told(j, u)'
      BY <1>0, <1>1, <2>1, ToldStays
    <3> QED BY <1>0, <1>1, <3>2, <3>3 DEF Reach
  <2> QED BY <2>2, <2>3
<1>4. CASE ~run[j].discovery
  <2>0. Chosen(j) = Recipients(j) /\ FirstPass(j)
    BY <1>1, <1>4 DEF Chosen, FirstPass
  <2>1. CASE Chosen(j) = {}
    <3>1. \A u \in Users : Pending(j, u) => Told(j, u)
      BY <1>0, <1>2, <2>0, <2>1 DEF Pending
    <3>2. run'[j] = NextPage(j)
      BY <1>0, <2>1 DEF FilterRun
    <3> QED BY <1>0, <1>1, <3>1, <3>2, PageEnds
  <2>2. CASE Chosen(j) # {}
    <3>1. /\ run'[j].pc = "create" /\ ~run'[j].discovery /\ run'[j].to = Chosen(j)
          /\ run'[j].page = run[j].page /\ run'[j].cursor = run[j].cursor
      BY <1>0, <1>4, <2>2, RunFields DEF FilterRun
    <3>2. ~PassOver(j)'
      BY <3>1 DEF PassOver
    <3>3. ASSUME NEW u \in steady[j], u <= run[j].cursor PROVE Told(j, u)' \/ Pending(j, u)'
      <4>1. Told(j, u) \/ u \in run[j].page
        BY <1>0, <2>0, <3>3 DEF Reach, Pending
      <4>2. Told(j, u) \/ u \in Chosen(j)
        BY <1>2, <2>0, <4>1
      <4> QED BY <1>0, <1>1, <3>1, <4>2, ToldStays DEF Pending
    <3>4. steady[j] \subseteq Audience(j, FALSE)'
      BY <1>0, <2>0 DEF Reach, Audience
    <3>5. \A u \in steady[j] : u > run[j].cursor => ~LastPage(j)'
      BY <1>0, <2>0, <3>1 DEF Reach, LastPage
    <3> QED BY <1>0, <1>1, <3>1, <3>2, <3>3, <3>4, <3>5 DEF Reach
  <2> QED BY <2>1, <2>2
<1> QED BY <1>3, <1>4

\* The rows are added, and everyone chosen has one.
LEMMA CreateGrows ==
  ASSUME FanShape, NEW j \in Jobs, create(j)
  PROVE  Grows /\ \A u \in run[j].to : at'[j][u] > 0
<1>1. at' = [at EXCEPT ![j] = [u \in Users |-> IF u \in run[j].to \ HasRow(j) THEN now ELSE at[j][u]]]
  BY DEF create
<1>2. now > 0 /\ run[j].to \subseteq Users
  BY RunFields DEF FanShape
<1> QED BY <1>1, <1>2 DEF FanShape, Grows, HasRow

\* The inserts cover whom they skip.
LEMMA ReachCreate ==
  ASSUME FanShape, NEW j \in Jobs, Reach(j), create(j)
  PROVE  Reach(j)'
<1>0. /\ run'[j] = [run[j] EXCEPT !.pc = "deliver"] /\ group' = group /\ run[j].pc = "create"
      /\ steady' = steady /\ near' = near /\ prefers' = prefers /\ Grows
      /\ \A u \in run[j].to : at'[j][u] > 0
  BY CreateGrows DEF create, Set, FanShape, env
<1>1. /\ j \in group /\ steady[j] \subseteq Users /\ Active(j)
      /\ run'[j].pc = "deliver" /\ run'[j].discovery = run[j].discovery
      /\ run'[j].page = run[j].page /\ run'[j].cursor = run[j].cursor
  BY <1>0, RunFields DEF Reach, FanShape, Active
<1>2. \A u \in run[j].to : Told(j, u)'
  BY <1>0 DEF Told
<1>3. \A u \in steady[j] : Told(j, u) => Told(j, u)'
  BY <1>0, <1>1, ToldStays
<1>4. FirstPass(j)' = FirstPass(j) /\ PassOver(j)' = PassOver(j) /\ LastPage(j)' = LastPage(j)
  BY <1>0, <1>1 DEF FirstPass, PassOver, LastPage, Active
<1>5. FirstPass(j) => \A u \in steady[j] : u <= run[j].cursor => Told(j, u)'
  BY <1>0, <1>2, <1>3 DEF Reach, Pending
<1>6. FirstPass(j) => steady[j] \subseteq Audience(j, FALSE)'
  BY <1>0 DEF Reach, Audience
<1> QED BY <1>0, <1>1, <1>3, <1>4, <1>5, <1>6 DEF Reach

\* The deliveries move on to the next page.
LEMMA ReachDeliver ==
  ASSUME FanShape, NEW j \in Jobs, Reach(j), deliver(j)
  PROVE  Reach(j)'
<1>0. /\ run'[j] = NextPage(j) /\ group' = group /\ run[j].pc = "deliver" /\ steady' = steady
      /\ at' = at /\ near' = near /\ prefers' = prefers /\ Grows
  BY DEF deliver, Set, FanShape, env, Grows
<1>1. Active(j) /\ \A u \in Users : ~Pending(j, u)
  BY <1>0 DEF Active, Pending
<1> QED BY <1>0, <1>1, PageEnds

\* A job that waits or failed has reached nobody yet.
LEMMA ReachNothing ==
  ASSUME NEW j \in Jobs, run'[j].pc \in {"waiting", "failed"}, j \in group'
  PROVE  Reach(j)'
BY DEF Reach, FirstPass, PassOver, Active

\* The reach holds at the start.
LEMMA ReachInit == Init => \A j \in Jobs : Reach(j)
BY WaitingType DEF Init, Reach, FirstPass, PassOver, Active, Waiting

\* Every step keeps the reach.
LEMMA ReachStep ==
  ASSUME FanShape, Next, \A j \in Jobs : Reach(j)
  PROVE  \A j \in Jobs : Reach(j)'
<1>1. ASSUME NEW j \in Jobs, NEW k \in Jobs, k # j, Step(j) \/ fail(j) PROVE Reach(k)'
  <2>1. /\ run'[k] = run[k] /\ group' = group /\ near' = near /\ prefers' = prefers
        /\ steady'[k] = steady[k]
    BY <1>1 DEF Step, load, scan, filter, create, deliver, fail, Set, FanShape, env
  <2>2. Grows
    <3>1. CASE create(j)
      BY <3>1, CreateGrows
    <3>2. CASE ~create(j)
      BY <1>1, <3>2 DEF Step, load, scan, filter, deliver, fail, Grows
    <3> QED BY <3>1, <3>2
  <2>3. FirstPass(k) => steady'[k] \subseteq Audience(k, FALSE)'
    BY <2>1 DEF Reach, Audience
  <2> QED BY <2>1, <2>2, <2>3, ReachStays
<1>2. ASSUME NEW j \in Jobs, Step(j) PROVE Reach(j)'
  BY <1>2, ReachLoad, ReachScan, ReachFilter, ReachCreate, ReachDeliver DEF Step
<1>3. ASSUME NEW j \in Jobs, fail(j) PROVE Reach(j)'
  <2>1. run'[j] = AfterError(j) /\ group' = group /\ run[j].pc # "waiting"
    BY <1>3 DEF fail, Set, FanShape, env, Active
  <2> QED BY <2>1, RunSteps, ReachNothing DEF Reach
<1>4. ASSUME NEW j \in Jobs, cancel(j), NEW k \in Jobs PROVE Reach(k)'
  <2>1. /\ run' = run /\ group' = group /\ near' = near /\ prefers' = prefers /\ steady' = steady
        /\ at' = at
    BY <1>4 DEF cancel
  <2>2. FirstPass(k) => steady'[k] \subseteq Audience(k, FALSE)'
    BY <2>1 DEF Reach, Audience
  <2> QED BY <2>1, <2>2, ReachStays DEF Grows
<1>5. ASSUME NEW j \in Jobs, NEW u \in Users, move(j, u), NEW k \in Jobs PROVE Reach(k)'
  <2>1. /\ run' = run /\ group' = group /\ prefers' = prefers /\ at' = at
        /\ near' = [near EXCEPT ![j] = SymDiff(@, {u})] /\ steady' = [steady EXCEPT ![j] = @ \ {u}]
    BY <1>5 DEF move
  <2>2. steady'[k] \subseteq steady[k]
    BY <2>1 DEF FanShape
  <2>3. FirstPass(k) => steady'[k] \subseteq Audience(k, FALSE)'
    <3>1. near'[k] = near[k] \/ (k = j /\ near'[k] = SymDiff(near[k], {u}) /\ u \notin steady'[k])
      BY <2>1 DEF FanShape
    <3> QED BY <2>1, <2>2, <3>1 DEF Reach, Audience, SymDiff
  <2> QED BY <2>1, <2>2, <2>3, ReachStays DEF Grows
<1>6. ASSUME NEW j \in Jobs, NEW u \in Users, changeTaste(j, u), NEW k \in Jobs PROVE Reach(k)'
  <2>1. /\ run' = run /\ group' = group /\ near' = near /\ at' = at
        /\ prefers' = [prefers EXCEPT ![j] = SymDiff(@, {u})]
           /\ steady' = [steady EXCEPT ![j] = @ \ {u}]
    BY <1>6 DEF changeTaste
  <2>2. steady'[k] \subseteq steady[k]
    BY <2>1 DEF FanShape
  <2>3. FirstPass(k) => steady'[k] \subseteq Audience(k, FALSE)'
    <3>1. \/ prefers'[k] = prefers[k]
          \/ k = j /\ prefers'[k] = SymDiff(prefers[k], {u}) /\ u \notin steady'[k]
      BY <2>1 DEF FanShape
    <3> QED BY <2>1, <2>2, <3>1 DEF Reach, Audience, SymDiff
  <2> QED BY <2>1, <2>2, <2>3, ReachStays DEF Grows
<1>7. ASSUME crash, NEW j \in Jobs PROVE Reach(j)'
  <2>0. group' = group /\ near' = near /\ prefers' = prefers /\ at' = at /\ steady' = steady
    BY <1>7 DEF crash, env
  <2>1. run'[j] = IF Active(j) THEN [Waiting EXCEPT !.left = run[j].left] ELSE run[j]
    BY <1>7 DEF crash
  <2>2. CASE Active(j)
    <3>1. run[j].left \in Nat
      BY RunFields
    <3>2. run'[j].pc = "waiting"
      BY <2>1, <2>2, <3>1, Retried
    <3>3. j \in group
      BY <2>2 DEF Reach, Active
    <3> QED BY <2>0, <3>2, <3>3, ReachNothing
  <2>3. CASE ~Active(j)
    <3>1. run'[j] = run[j] /\ ~FirstPass(j)
      BY <2>1, <2>3 DEF FirstPass
    <3> QED BY <2>0, <3>1, ReachStays DEF Grows
  <2> QED BY <2>2, <2>3
<1>8. ASSUME Tick, NEW j \in Jobs PROVE Reach(j)'
  <2>1. /\ run' = run /\ group' = group /\ near' = near /\ prefers' = prefers /\ steady' = steady
        /\ at' = at
    BY <1>8 DEF Tick
  <2>2. FirstPass(j) => steady'[j] \subseteq Audience(j, FALSE)'
    BY <2>1 DEF Reach, Audience
  <2> QED BY <2>1, <2>2, ReachStays DEF Grows
<1> QED BY <1>1, <1>2, <1>3, <1>4, <1>5, <1>6, <1>7, <1>8 DEF Next

-----------------------------------------------------------------------------
(* The deliveries. *)

\* What a job inserts has no row yet, what it delivers was not sent yet; only
\* an announcement sends the rows of another job, a promotion's.
Delivery(j) ==
  /\ \A u \in Users : /\ at[j][u] > 0 => j \in group
                      /\ sent[j][u] > 0 => at[j][u] > 0
                      /\ ~Again(j) => sent[j][u] <= 1
  /\ run[j].pc = "create" => \A u \in run[j].to : at[j][u] = 0
  /\ run[j].pc = "deliver" /\ ~Again(j) => \A u \in run[j].to : sent[j][u] = 0

\* Two jobs of one group, alike, are one notification.
LEMMA AlikeOthers ==
  ASSUME NEW j \in Jobs, NEW k \in Jobs, j \in Alike(k), j # k, group \in Groups,
         j \in group, k \in group
  PROVE  Again(j)
<1>1. Kind[k] = "created" /\ Target[j] = Target[k] /\ Kind[j] \in {"created", "promotion"}
  BY DEF Alike
<1>2. Kind[j] = "promotion"
  BY <1>1, FanoutAssumption
<1> QED BY <1>1, <1>2 DEF Again

\* A job is alike itself.
LEMMA SelfAlike == ASSUME NEW j \in Jobs PROVE j \in Alike(j)
BY DEF Alike

\* A job that does not step, with its rows and deliveries or with its rows sent
\* by another.
LEMMA DeliveryStays ==
  ASSUME NEW j \in Jobs, Delivery(j), run'[j] = run[j], at'[j] = at[j], sent'[j] = sent[j],
         group' = group
  PROVE  Delivery(j)'
BY DEF Delivery, Again

\* A delivery of one job leaves what is true of the others.
LEMMA DeliveryOther ==
  ASSUME FanShape, NEW j \in Jobs, NEW k \in Jobs, j # k, Delivery(j), k \in group, run'[j] = run[j],
         at' = at, group' = group, NEW S \in SUBSET Users, Delivered(k, S)
  PROVE  Delivery(j)'
<1>1. CASE sent'[j] = sent[j]
  BY <1>1, DeliveryStays
<1>2. CASE sent'[j] # sent[j]
  <2>0. sent[j] \in [Users -> Nat]
    BY DEF FanShape
  <2>1. /\ j \in Alike(k)
        /\ sent'[j] = [u \in Users |-> IF u \in S \cap HasRow(j) THEN sent[j][u] + 1 ELSE sent[j][u]]
    BY <1>2, <2>0 DEF Delivered, FanShape
  <2>2. PICK u \in Users : u \in S \cap HasRow(j)
    <3>1. CASE S \cap HasRow(j) = {}
      <4>1. sent'[j] = [u \in Users |-> sent[j][u]]
        BY <2>1, <3>1
      <4> QED BY <1>2, <2>0, <4>1
    <3> QED BY <3>1
  <2>3. j \in group
    BY <2>2 DEF HasRow, Delivery
  <2>4. Again(j)
    BY <2>1, <2>3, AlikeOthers DEF FanShape
  <2>5. \A v \in Users : sent'[j][v] > 0 => at[j][v] > 0
    BY <2>0, <2>1 DEF HasRow, Delivery
  <2>6. Again(j)'
    BY <2>4 DEF Again, Alike
  <2> QED BY <2>4, <2>5, <2>6 DEF Delivery
<1> QED BY <1>1, <1>2

\* The job delivers its own rows.
LEMMA DeliveryOwn ==
  ASSUME FanShape, NEW j \in Jobs, Delivery(j), NEW S \in SUBSET Users, Delivered(j, S),
         at' = at, group' = group, run'[j].pc \notin {"create", "deliver"},
         ~Again(j) => \A u \in S : sent[j][u] = 0
  PROVE  Delivery(j)'
<1>0. sent[j] \in [Users -> Nat] /\ (Again(j)' <=> Again(j))
  BY DEF FanShape, Again, Alike
<1>1. sent'[j] = [u \in Users |-> IF u \in S \cap HasRow(j) THEN sent[j][u] + 1 ELSE sent[j][u]]
  BY SelfAlike DEF Delivered, FanShape
<1>2. ASSUME NEW u \in Users
      PROVE  (sent'[j][u] > 0 => at[j][u] > 0) /\ (~Again(j) => sent'[j][u] <= 1)
  <2>1. CASE u \in S \cap HasRow(j)
    <3>1. sent'[j][u] = sent[j][u] + 1 /\ at[j][u] > 0
      BY <1>1, <2>1 DEF HasRow
    <3>2. ~Again(j) => sent[j][u] = 0
      BY <2>1
    <3> QED BY <3>1, <3>2
  <2>2. CASE u \notin S \cap HasRow(j)
    BY <1>1, <2>2 DEF Delivery
  <2> QED BY <2>1, <2>2
<1> QED BY <1>0, <1>2 DEF Delivery

\* What is true of the deliveries holds at the start.
LEMMA DeliveryInit == Init => \A j \in Jobs : Delivery(j)
BY DEF Init, Delivery, Waiting

\* What a job's record becomes when it neither inserts nor delivers.
LEMMA DeliveryTurn ==
  ASSUME NEW j \in Jobs, Delivery(j), at' = at, sent' = sent, group' = group,
         run'[j].pc \notin {"create", "deliver"}
  PROVE  Delivery(j)'
BY DEF Delivery, Again

\* Every step keeps what is true of the deliveries.
LEMMA DeliveryStep ==
  ASSUME FanShape, Next, \A j \in Jobs : Reach(j), \A j \in Jobs : Delivery(j)
  PROVE  \A j \in Jobs : Delivery(j)'
<1>1. ASSUME NEW j \in Jobs, NEW k \in Jobs, load(k) \/ scan(k) \/ filter(k) PROVE Delivery(j)'
  <2>0. at' = at /\ sent' = sent /\ group' = group
    BY <1>1 DEF load, scan, filter, env
  <2>1. CASE j # k
    <3>1. run'[j] = run[j]
      BY <1>1, <2>1 DEF load, scan, filter, Set, FanShape
    <3> QED BY <2>0, <3>1, DeliveryStays
  <2>2. CASE j = k /\ load(k)
    <3>1. run'[j] = LoadRun(j) /\ run[j].pc = "waiting"
      BY <2>2 DEF load, LoadRun, Set, FanShape
    <3>2. run'[j].pc \notin {"create", "deliver"}
      BY <3>1, RunFields, FinishedType DEF LoadRun
    <3> QED BY <2>0, <3>2, DeliveryTurn
  <2>3. CASE j = k /\ scan(k)
    <3>1. run'[j] = ScanRun(j)
      BY <2>3 DEF scan, ScanRun, Set, FanShape
    <3>2. AfterPass(j).pc \notin {"create", "deliver"}
      BY AfterPassType
    <3>3. run'[j].pc \notin {"create", "deliver"}
      BY <3>1, <3>2, RunFields DEF ScanRun
    <3> QED BY <2>0, <3>3, DeliveryTurn
  <2>4. CASE j = k /\ filter(k)
    <3>1. run'[j] = FilterRun(j)
      BY <2>4 DEF filter, FilterRun, Chosen, Set, FanShape
    <3>2. CASE Chosen(j) = {}
      <4>1. run'[j] = NextPage(j)
        BY <3>1, <3>2 DEF FilterRun
      <4>2. run'[j].pc \notin {"create", "deliver"}
        BY <4>1, NextPageType, AfterPassType
      <4> QED BY <2>0, <4>2, DeliveryTurn
    <3>3. CASE Chosen(j) # {}
      <4>1. run'[j].pc = "create" /\ run'[j].to = Chosen(j)
        BY <3>1, <3>3, RunFields DEF FilterRun
      <4>2. Chosen(j) \subseteq Recipients(j) /\ Chosen(j) \subseteq Users
        BY RunSteps, RunFields DEF Chosen, Budgeted
      <4>3. \A u \in Chosen(j) : u \notin HasRow(j)
        BY <4>2, SelfAlike DEF Recipients, Existing
      <4>4. ASSUME NEW u \in Chosen(j) PROVE at[j][u] = 0
        <5>1. u \in Users /\ ~(at[j][u] > 0) /\ at[j][u] \in Nat
          BY <4>2, <4>3 DEF HasRow, FanShape
        <5> QED BY <5>1
      <4> QED BY <2>0, <4>1, <4>4 DEF Delivery, Again
    <3> QED BY <3>2, <3>3
  <2> QED BY <1>1, <2>1, <2>2, <2>3, <2>4
<1>2. ASSUME NEW j \in Jobs, NEW k \in Jobs, create(k) PROVE Delivery(j)'
  <2>0. /\ sent' = sent /\ group' = group /\ run[k].pc = "create"
        /\ at' = [at EXCEPT ![k] = [u \in Users |-> IF u \in run[k].to \ HasRow(k) THEN now
                                                    ELSE at[k][u]]]
        /\ run' = [run EXCEPT ![k] = [run[k] EXCEPT !.pc = "deliver"]]
    BY <1>2 DEF create, Set, env
  <2>1. CASE j # k
    <3>1. run'[j] = run[j] /\ at'[j] = at[j]
      BY <2>0, <2>1 DEF FanShape
    <3> QED BY <2>0, <3>1, DeliveryStays
  <2>2. CASE j = k
    <3>1. run'[j].pc = "deliver" /\ run'[j].to = run[j].to /\ run[j].to \subseteq Users
      BY <2>0, <2>2, RunFields DEF FanShape
    <3>2. j \in group
      BY <2>0, <2>2 DEF Reach
    <3>3. ASSUME NEW u \in Users PROVE sent[j][u] > 0 => at'[j][u] > 0
      BY <1>2, <2>2, CreateGrows DEF Delivery, Grows
    <3>4. ASSUME NEW u \in run[j].to PROVE sent[j][u] = 0
      <4>1. at[j][u] = 0 /\ u \in Users
        BY <2>0, <2>2, <3>1 DEF Delivery
      <4>2. ~(sent[j][u] > 0) /\ sent[j][u] \in Nat
        BY <4>1 DEF Delivery, FanShape
      <4> QED BY <4>2
    <3>5. Again(j)' <=> Again(j)
      BY DEF Again, Alike
    <3> QED BY <2>0, <3>1, <3>2, <3>3, <3>4, <3>5 DEF Delivery
  <2> QED BY <2>1, <2>2
<1>3. ASSUME NEW j \in Jobs, NEW k \in Jobs, deliver(k) PROVE Delivery(j)'
  <2>0. /\ at' = at /\ group' = group /\ run[k].pc = "deliver" /\ Delivered(k, run[k].to)
        /\ Set(k, NextPage(k))
    BY <1>3 DEF deliver, env
  <2>1. k \in group /\ run[k].to \in SUBSET Users
    BY <2>0, RunFields DEF Reach
  <2>2. CASE j # k
    <3>1. run'[j] = run[j]
      BY <2>0, <2>2 DEF Set, FanShape
    <3> QED BY <2>0, <2>1, <2>2, <3>1, DeliveryOther
  <2>3. CASE j = k
    <3>1. run'[j] = NextPage(j)
      BY <2>0, <2>3 DEF Set, FanShape
    <3>2. run'[j].pc \notin {"create", "deliver"}
      BY <3>1, NextPageType, AfterPassType
    <3>3. ~Again(j) => \A u \in run[j].to : sent[j][u] = 0
      BY <2>0, <2>3 DEF Delivery
    <3> QED BY <2>0, <2>1, <2>3, <3>2, <3>3, DeliveryOwn
  <2> QED BY <2>2, <2>3
<1>4. ASSUME NEW j \in Jobs, NEW k \in Jobs, fail(k) PROVE Delivery(j)'
  <2>0. at' = at /\ group' = group /\ Set(k, AfterError(k)) /\ run[k].pc # "waiting"
    BY <1>4 DEF fail, env, Active
  <2>1. PICK S \in SUBSET (IF run[k].pc = "deliver" THEN run[k].to ELSE {}) : Delivered(k, S)
    BY <1>4 DEF fail
  <2>2. k \in group /\ S \in SUBSET Users /\ (S # {} => run[k].pc = "deliver" /\ S \subseteq run[k].to)
    BY <2>0, <2>1, RunFields DEF Reach
  <2>3. CASE j # k
    <3>1. run'[j] = run[j]
      BY <2>0, <2>3 DEF Set, FanShape
    <3> QED BY <2>0, <2>1, <2>2, <2>3, <3>1, DeliveryOther
  <2>4. CASE j = k
    <3>1. run'[j] = AfterError(j)
      BY <2>0, <2>4 DEF Set, FanShape
    <3>2. run'[j].pc \notin {"create", "deliver"}
      BY <3>1, RunSteps
    <3>3. ~Again(j) => \A u \in S : sent[j][u] = 0
      BY <2>2, <2>4 DEF Delivery
    <3> QED BY <2>0, <2>1, <2>2, <2>4, <3>2, <3>3, DeliveryOwn
  <2> QED BY <2>3, <2>4
<1>5. ASSUME crash, NEW j \in Jobs PROVE Delivery(j)'
  <2>0. at' = at /\ sent' = sent /\ group' = group
    BY <1>5 DEF crash, env
  <2>1. run'[j] = IF Active(j) THEN [Waiting EXCEPT !.left = run[j].left] ELSE run[j]
    BY <1>5 DEF crash
  <2>2. CASE Active(j)
    <3>1. run[j].left \in Nat
      BY RunFields
    <3>2. run'[j].pc = "waiting"
      BY <2>1, <2>2, <3>1, Retried
    <3> QED BY <2>0, <3>2, DeliveryTurn
  <2>3. CASE ~Active(j)
    BY <2>0, <2>1, <2>3, DeliveryStays
  <2> QED BY <2>2, <2>3
<1>6. ASSUME UNCHANGED <<at, sent, group, run>>, NEW j \in Jobs PROVE Delivery(j)'
  BY <1>6, DeliveryStays
<1>7. ASSUME NEW k \in Jobs, cancel(k), NEW j \in Jobs PROVE Delivery(j)'
  BY <1>6, <1>7 DEF cancel
<1>8. ASSUME NEW k \in Jobs, NEW u \in Users, move(k, u) \/ changeTaste(k, u), NEW j \in Jobs
      PROVE  Delivery(j)'
  BY <1>6, <1>8 DEF move, changeTaste
<1>9. ASSUME Tick, NEW j \in Jobs PROVE Delivery(j)'
  BY <1>6, <1>9 DEF Tick
<1> QED BY <1>1, <1>2, <1>3, <1>4, <1>5, <1>7, <1>8, <1>9 DEF Next, Step

-----------------------------------------------------------------------------
(* The cap on discoveries. *)

FoundBy(u) == {j \in Jobs : u \in found[j]}

\* Every discovery of a user was paid from the counter of the day.
Capped == \A u \in Users : Cardinality(FoundBy(u)) <= usage[u]

\* The jobs in which a user was found are finitely many.
LEMMA FoundIsFinite ==
  ASSUME NEW u
  PROVE  IsFiniteSet(FoundBy(u)) /\ Cardinality(FoundBy(u)) \in Nat
BY FanoutAssumption, FS_Subset, FS_CardinalityType DEF FoundBy

\* Nobody was found at the start.
LEMMA CappedNone ==
  ASSUME usage = [u \in Users |-> 0], found = [j \in Jobs |-> {}]
  PROVE  Capped
<1>1. \A u \in Users : FoundBy(u) = {}
  BY DEF FoundBy
<1> QED BY <1>1, FS_EmptySet DEF Capped

\* Every step keeps the cap.
LEMMA CappedStep ==
  ASSUME FanShape, Next, Capped
  PROVE  Capped'
<1>0. ASSUME UNCHANGED <<usage, found>> PROVE Capped'
  BY <1>0 DEF Capped, FoundBy
<1>1. ASSUME NEW j \in Jobs, filter(j) PROVE Capped'
  <2>1. CASE ~run[j].discovery
    <3>1. UNCHANGED <<usage, found>>
      BY <1>1, <2>1 DEF filter
    <3> QED BY <1>0, <3>1
  <2>2. CASE run[j].discovery
    <3>0. Chosen(j) = Budgeted(Recipients(j)) /\ Chosen(j) \subseteq Users
      BY <2>2, RunSteps, RunFields DEF Chosen
    <3>1. /\ usage' = [u \in Users |-> IF u \in Chosen(j) /\ usage[u] < DISCOVERY_DAILY_CAP
                                       THEN usage[u] + 1 ELSE usage[u]]
          /\ found' = [found EXCEPT ![j] = @ \cup Chosen(j)]
      BY <1>1, <2>2 DEF filter, Chosen
    <3>2. ASSUME NEW u \in Users PROVE Cardinality(FoundBy(u)') <= usage'[u]
      <4>0. usage[u] \in Nat /\ Cardinality(FoundBy(u)) <= usage[u]
            /\ Cardinality(FoundBy(u)) \in Nat
        BY FanoutAssumption, FoundIsFinite DEF FanShape, Capped
      <4>1. CASE u \in Chosen(j)
        <5>1. usage'[u] = usage[u] + 1
          BY <3>0, <3>1, <4>1 DEF Budgeted
        <5>2. FoundBy(u)' = FoundBy(u) \cup {j}
          BY <3>1, <4>1 DEF FoundBy, FanShape
        <5>3. Cardinality(FoundBy(u) \cup {j}) <= Cardinality(FoundBy(u)) + 1
          <6>1. Cardinality(FoundBy(u) \cup {j}) = IF j \in FoundBy(u) THEN Cardinality(FoundBy(u))
                                                   ELSE Cardinality(FoundBy(u)) + 1
            BY FoundIsFinite, FS_AddElement
          <6> QED BY <4>0, <6>1
        <5>4. Cardinality(FoundBy(u) \cup {j}) \in Nat
          BY FoundIsFinite, FS_AddElement, FS_CardinalityType
        <5> QED BY <4>0, <5>1, <5>2, <5>3, <5>4
      <4>2. CASE u \notin Chosen(j)
        <5>1. usage'[u] = usage[u]
          BY <3>1, <4>2
        <5>2. FoundBy(u)' = FoundBy(u)
          BY <3>1, <4>2 DEF FoundBy, FanShape
        <5> QED BY <4>0, <5>1, <5>2
      <4> QED BY <4>1, <4>2
    <3> QED BY <3>2 DEF Capped
  <2> QED BY <2>1, <2>2
<1>2. ASSUME Tick PROVE Capped'
  <2>1. usage' = [u \in Users |-> 0] /\ found' = [j \in Jobs |-> {}]
    BY <1>2 DEF Tick
  <2>2. \A u \in Users : FoundBy(u)' = {}
    BY <2>1 DEF FoundBy
  <2>3. ASSUME NEW u \in Users PROVE Cardinality(FoundBy(u)') <= usage'[u]
    <3>1. Cardinality({}) = 0 /\ usage'[u] = 0 /\ FoundBy(u)' = {}
      BY <2>1, <2>2, FS_EmptySet
    <3> QED BY <3>1
  <2> QED BY <2>3 DEF Capped
<1> QED BY <1>0, <1>1, <1>2, Zenon
        DEF Next, Step, load, scan, create, deliver, fail, cancel, move, changeTaste, crash

-----------------------------------------------------------------------------
(* The invariant, and what follows from it. *)

FanInv ==
  /\ FanShape /\ Capped
  /\ \A j \in Jobs : Reach(j)
  /\ \A j \in Jobs : Delivery(j)

\* The invariant of the fan-out holds at the start.
LEMMA FanInvInit == Init => FanInv
<1>1. Init => Capped
  BY CappedNone DEF Init
<1> QED BY <1>1, FanShapeInit, ReachInit, DeliveryInit DEF FanInv

\* Every step of the fan-out keeps its invariant.
LEMMA FanInvNext == FanInv /\ [Next]_vars => FanInv'
<1> SUFFICES ASSUME FanInv, [Next]_vars PROVE FanInv'
  OBVIOUS
<1>1. CASE Next
  BY <1>1, FanShapeStep, ReachStep, DeliveryStep, CappedStep DEF FanInv
<1>2. CASE UNCHANGED vars
  <2>1. FanShape' /\ Capped'
    BY <1>2 DEF FanInv, FanShape, Capped, FoundBy, vars, env
  <2>2. \A j \in Jobs : Reach(j)'
    BY <1>2 DEF FanInv, Reach, FirstPass, PassOver, Active, Audience, Told, Pending, LastPage,
                vars, env
  <2>3. \A j \in Jobs : Delivery(j)'
    BY <1>2, DeliveryStays DEF FanInv, vars, env
  <2> QED BY <2>1, <2>2, <2>3 DEF FanInv
<1> QED BY <1>1, <1>2

\* The invariant has the type.
LEMMA FanTyped == FanInv => TypeOK
<1> SUFFICES ASSUME FanInv PROVE TypeOK
  OBVIOUS
<1>1. \A j \in Jobs : run[j].page \subseteq Users /\ run[j].to \subseteq run[j].page
  BY RunFields DEF FanInv
<1> QED BY <1>1 DEF FanInv, FanShape, TypeOK

\* The invariant has nobody skipped.
LEMMA FanReaches == FanInv => ReachCovered
<1> SUFFICES ASSUME FanInv, NEW j \in group, run[j].pc = "done", NEW u \in steady[j]
             PROVE  \E k \in Jobs : Target[k] = Target[j] /\ at[k][u] > 0
                                    /\ (k = j \/ Kind[j] \in {"created", "promotion"})
  BY DEF ReachCovered
<1>1. j \in Jobs
  BY FanoutAssumption DEF FanInv, FanShape
<1>2. Told(j, u)
  BY <1>1 DEF FanInv, Reach, PassOver
<1> QED BY <1>2 DEF Told

\* The invariant has the cap.
LEMMA FanCaps == FanInv => DiscoveryCapped
<1> SUFFICES ASSUME FanInv, NEW u \in Users
             PROVE  Cardinality({j \in Jobs : u \in found[j]}) <= DISCOVERY_DAILY_CAP
  BY DEF DiscoveryCapped
<1>1. /\ Cardinality(FoundBy(u)) <= usage[u] /\ Cardinality(FoundBy(u)) \in Nat
      /\ usage[u] \in 0..DISCOVERY_DAILY_CAP /\ DISCOVERY_DAILY_CAP \in Nat
  BY FanoutAssumption, FoundIsFinite DEF FanInv, FanShape, Capped
<1>2. Cardinality(FoundBy(u)) <= DISCOVERY_DAILY_CAP
  BY <1>1
<1> QED BY <1>2 DEF FoundBy

-----------------------------------------------------------------------------
(* The outbox. *)

BoxStored == {p \in Counted : at[p[1]][p[2]] > 0}
BoxSent == [p \in Counted |-> sent[p[1]][p[2]]]

\* With nothing kept or sent the outbox is empty.
LEMMA BoxBlank ==
  ASSUME at = [j \in Jobs |-> [u \in Users |-> 0]], sent = [j \in Jobs |-> [u \in Users |-> 0]]
  PROVE  Box!Init
<1>1. \A p \in Counted : p[1] \in Jobs /\ p[2] \in Users
  BY DEF Counted
<1>2. BoxStored = {} /\ BoxSent = [p \in Counted |-> 0]
  BY <1>1 DEF BoxStored, BoxSent
<1> QED BY <1>2 DEF Box!Init, BoxStored, BoxSent

\* A fan-out begins with the empty outbox.
LEMMA BoxInit == Init => Box!Init
BY BoxBlank DEF Init

\* What neither keeps nor sends a notification.
LEMMA BoxKept == ASSUME UNCHANGED <<at, sent>> PROVE UNCHANGED <<BoxStored, BoxSent>>
BY DEF BoxStored, BoxSent, Counted, Again, Alike

\* The inserts store, in the outbox.
LEMMA BoxStore ==
  ASSUME FanShape, NEW j \in Jobs, create(j)
  PROVE  Box!Store
<1>1. \A p \in Counted : p[1] \in Jobs /\ p[2] \in Users
  BY DEF Counted
<1>2. Grows /\ sent' = sent
  BY CreateGrows DEF create
<1>3. BoxStored \subseteq BoxStored' /\ BoxStored' \subseteq Counted /\ BoxSent' = BoxSent
  BY <1>1, <1>2 DEF BoxStored, BoxSent, Grows, Counted, Again, Alike
<1> QED BY <1>3 DEF Box!Store, BoxStored, BoxSent

\* A delivery sends, in the outbox.
LEMMA BoxSend ==
  ASSUME FanInv, FanInv', NEW j \in Jobs, NEW S, Delivered(j, S), at' = at
  PROVE  Box!Send
<1>1. \A p \in Counted : p[1] \in Jobs /\ p[2] \in Users /\ ~Again(p[1])
  BY DEF Counted
<1>2. ASSUME NEW p \in Counted
      PROVE  /\ sent'[p[1]][p[2]] \in 0..1
             /\ \/ sent'[p[1]][p[2]] = sent[p[1]][p[2]]
                \/ at[p[1]][p[2]] > 0 /\ sent[p[1]][p[2]] = 0
  <2>0. PICK k \in Jobs, u \in Users : k = p[1] /\ u = p[2]
    BY <1>1, <1>2
  <2>1. sent[k][u] \in Nat /\ sent'[k][u] \in Nat /\ ~Again(k)'
    <3>1. sent[k][u] \in Nat /\ sent'[k][u] \in Nat
      BY DEF FanInv, FanShape
    <3>2. ~Again(k)
      BY <1>1, <2>0
    <3> QED BY <3>1, <3>2 DEF Again, Alike
  <2>2. sent'[k][u] <= 1
    BY <2>1 DEF FanInv, Delivery
  <2>3. \/ sent'[k][u] = sent[k][u]
        \/ sent'[k][u] = sent[k][u] + 1 /\ u \in HasRow(k)
    BY DEF Delivered, FanInv, FanShape
  <2>4. \/ sent'[k][u] = sent[k][u]
        \/ sent[k][u] = 0 /\ at[k][u] > 0
    BY <2>1, <2>2, <2>3 DEF HasRow
  <2> QED BY <2>0, <2>1, <2>2, <2>4
<1>3. BoxStored' = BoxStored
  BY DEF BoxStored, Counted, Again, Alike
<1>4. BoxSent' = [p \in Counted |-> sent'[p[1]][p[2]]]
  BY DEF BoxSent, Counted, Again, Alike
<1>5. BoxSent' \in [Counted -> 0..1]
  BY <1>2, <1>4
<1>6. \A p \in Counted : BoxSent'[p] = BoxSent[p] \/ (p \in BoxStored /\ BoxSent[p] = 0)
  BY <1>2, <1>4 DEF BoxSent, BoxStored
<1> QED BY <1>3, <1>5, <1>6 DEF Box!Send, BoxStored, BoxSent

\* Every step of a fan-out is one of the outbox, or stutters.
LEMMA BoxStep == FanInv /\ FanInv' /\ [Next]_vars => [Box!Next]_<<BoxStored, BoxSent>>
<1> SUFFICES ASSUME FanInv, FanInv', [Next]_vars PROVE [Box!Next]_<<BoxStored, BoxSent>>
  OBVIOUS
<1>1. ASSUME UNCHANGED <<at, sent>> PROVE UNCHANGED <<BoxStored, BoxSent>>
  BY <1>1, BoxKept
<1>2. ASSUME NEW j \in Jobs, create(j) PROVE Box!Next
  BY <1>2, BoxStore DEF Box!Next, FanInv
<1>3. ASSUME NEW j \in Jobs, deliver(j) PROVE Box!Next
  BY <1>3, BoxSend DEF Box!Next, deliver
<1>4. ASSUME NEW j \in Jobs, fail(j) PROVE Box!Next
  BY <1>4, BoxSend DEF Box!Next, fail
<1> QED BY <1>1, <1>2, <1>3, <1>4, Zenon
        DEF Next, Step, load, scan, filter, cancel, move, changeTaste, crash, Tick, vars

-----------------------------------------------------------------------------
\* What is assumed of the constants of the events.
LEMMA EvA == Ev!EventsAssumption
BY PlansAssumption

-----------------------------------------------------------------------------
(* Types. *)

\* The instance's copies of what finite sets are.
LEMMA EvSets == \A S : (Ev!IsFiniteSet(S) <=> IsFiniteSet(S)) /\ Ev!Cardinality(S) = Cardinality(S)
BY DEF Ev!IsFiniteSet, IsFiniteSet, Ev!Cardinality, Cardinality

\* The constants of the events, one fact at a time.
LEMMA EvPar ==
  /\ MaxLinks \in Nat /\ Until["events"] \in Nat /\ Until["events"] >= 1
     /\ Requests["events"] \in Nat /\ Requests["events"] >= 1
  /\ IsFiniteSet(Guests) /\ None \notin Ev!Link /\ None \notin BOOLEAN /\ None \notin 0..MaxLinks
  /\ [op |-> "invalidate"] # None
<1>1. [op |-> "invalidate"] \in [op : {"invalidate"}]
  OBVIOUS
<1>2. None \notin [op : {"invalidate"}]
  BY EvA DEF Ev!EventsAssumption
<1>3. [op |-> "invalidate"] # None
  BY <1>1, <1>2
<1>4. /\ MaxLinks \in Nat /\ Until["events"] \in Nat /\ Until["events"] >= 1
      /\ Requests["events"] \in Nat /\ Requests["events"] >= 1
  BY EvA DEF Ev!EventsAssumption
<1> QED BY <1>3, <1>4, EvA, EvSets DEF Ev!EventsAssumption

\* What a handler keeps for its next statement.
EvHolding(h, time) ==
  h # None =>
    /\ h.op = "edit" => h.e \in Ev!Event /\ h.d \in Ev!Edits
    /\ h.op = "remove" => h.e \in Ev!Event
    /\ h.op = "list" => h.c \in Caches /\ h.shown \in BOOLEAN
    /\ h.op = "invite" => h.ids \subseteq Guests
    /\ h.op \in {"link", "create"} =>
         h \in [op : {"link", "create"}, expires : Ev!Times, at : Ev!Times] /\ h.at <= time
    /\ h.op = "revoke" => h.l \in Ev!Links
    /\ h.op = "accept" => h.l \in Ev!Links /\ h.g \in Guests
    /\ h.op = "rsvp" => h.g \in Guests /\ h.t \in Ev!Rsvps \cup {None}
    /\ h.op = "checkIn" => h.g \in Guests

EvRows ==
  /\ event \in Ev!Event /\ arrived \subseteq Ev!Everyone
  /\ links \in [Ev!Links -> Ev!Link \cup {None}]
  /\ invites \in [Guests -> 0..MaxLinks \cup {None}]
  /\ rsvp \in [Guests -> Ev!Rsvps \cup {None}]

EvShape ==
  /\ EvRows /\ now \in Ev!Times /\ requests \in 0..Requests["events"] /\ overlapped \in BOOLEAN
  /\ blocked \subseteq Guests
  /\ cache \in [Caches -> BOOLEAN \cup {None}]
  /\ DOMAIN slot = Slots /\ \A s \in Slots : EvHolding(slot[s], now)
  /\ requests = 0 => \A s \in Slots : slot[s] = None

\* One creation of a link at a time, which found none that will work.
EvLinks ==
  /\ \A s, t \in Slots : Ev!Holds(s, "create") /\ Ev!Holds(t, "create") => s = t
  /\ \A s \in Slots, l \in Ev!Links :
       Ev!Holds(s, "create") /\ Ev!Live(l) => links[l].expires <= slot[s].at
  /\ \A k, l \in Ev!Links : Ev!Active(k) /\ Ev!Active(l) => k = l

\* A link counts its invites, and a link that is not there made none.
EvFrom(l) == {g \in Guests : invites[g] = l}
EvUses ==
  \A l \in Ev!Links : IF links[l] = None THEN EvFrom(l) = {}
                                      ELSE links[l].uses = Cardinality(EvFrom(l))

\* A list that still shows a hidden event has an invalidation coming, or was read
\* during the write.
EvHidden ==
  \A c \in Caches : cache[c] = TRUE /\ ~Ev!Discoverable =>
    overlapped \/ \E s \in Slots : Ev!Holds(s, "invalidate")

EvInv == EvShape /\ EvLinks /\ EvUses /\ EvHidden

\* The invariant of the events holds at the start.
LEMMA EvInvInit == Ev!Init => EvInv
<1> SUFFICES ASSUME Ev!Init PROVE EvInv
  OBVIOUS
<1> USE EvPar
<1>1. event \in Ev!Event
  <2>1. 1 \in Ev!Times /\ Until["events"] \in Ev!Times
    BY DEF Ev!Times
  <2> QED BY <2>1 DEF Ev!Init, Ev!Event
<1>2. EvShape
  <2>1. EvRows
    BY <1>1 DEF Ev!Init, EvRows
  <2>2. now \in Ev!Times /\ requests \in 0..Requests["events"]
    BY DEF Ev!Init, Ev!Times
  <2> QED BY <2>1, <2>2 DEF Ev!Init, EvShape, EvHolding
<1>3. EvLinks /\ EvHidden
  BY DEF Ev!Init, EvLinks, EvHidden, Ev!Holds, Ev!Live, Ev!Active
<1>4. EvUses
  BY DEF Ev!Init, EvUses, EvFrom, Ev!Links
<1> QED BY <1>2, <1>3, <1>4 DEF EvInv

-----------------------------------------------------------------------------
(* What stays right. *)

\* A handler arrives.
LEMMA EvBegins ==
  ASSUME EvInv, NEW s \in Slots, NEW h, Ev!Begin(s, h), EvHolding(h, now),
         h.op \notin {"create", "invalidate"}
  PROVE  EvInv'
<1> USE EvPar
<1>1. /\ slot[s] = None /\ requests < Requests["events"] /\ requests' = requests + 1
      /\ slot' = [slot EXCEPT ![s] = h] /\ DOMAIN slot = Slots
      /\ UNCHANGED <<now, overlapped, event, links, invites, rsvp, arrived, cache, blocked>>
  BY DEF Ev!Begin, Ev!Same, Ev!Rows, EvInv, EvShape
<1>2. DOMAIN slot' = Slots /\ slot'[s] = h /\ \A t \in Slots \ {s} : slot'[t] = slot[t]
  BY <1>1
<1>3. EvShape'
  <2>0. EvRows'
    BY <1>1 DEF EvInv, EvShape, EvRows
  <2>1. \A t \in Slots : EvHolding(slot'[t], now')
    BY <1>1, <1>2 DEF EvInv, EvShape, EvHolding
  <2>2. requests' \in 0..Requests["events"] /\ requests' # 0
    BY <1>1 DEF EvInv, EvShape
  <2> QED BY <1>1, <1>2, <2>0, <2>1, <2>2 DEF EvInv, EvShape
<1>4. \A t \in Slots : /\ Ev!Holds(t, "create")' <=> (t # s /\ Ev!Holds(t, "create"))
                       /\ Ev!Holds(t, "invalidate")' <=> Ev!Holds(t, "invalidate")
                       /\ t # s => slot'[t] = slot[t]
  BY <1>1, <1>2 DEF Ev!Holds
<1>5. EvLinks'
  BY <1>1, <1>4 DEF EvInv, EvLinks, Ev!Live, Ev!Active
<1>6. EvUses' /\ EvHidden'
  BY <1>1, <1>4 DEF EvInv, EvUses, EvFrom, EvHidden, Ev!Discoverable
<1> QED BY <1>3, <1>5, <1>6 DEF EvInv

\* A handler goes on: the slots, for a step that keeps or drops what it holds.
LEMMA EvSlots ==
  ASSUME EvShape, NEW s \in Slots, NEW h, slot' = [slot EXCEPT ![s] = h], slot[s] # None,
         EvHolding(h, now), UNCHANGED <<requests, blocked, now>>, EvRows', overlapped' \in BOOLEAN,
         cache' \in [Caches -> BOOLEAN \cup {None}]
  PROVE  /\ EvShape' /\ slot'[s] = h /\ \A t \in Slots \ {s} : slot'[t] = slot[t]
<1>1. DOMAIN slot' = Slots /\ slot'[s] = h /\ \A t \in Slots \ {s} : slot'[t] = slot[t]
  BY DEF EvShape
<1>2. \A t \in Slots : EvHolding(slot'[t], now')
  BY <1>1 DEF EvShape, EvHolding
<1>3. requests # 0
  BY DEF EvShape
<1> QED BY <1>1, <1>2, <1>3 DEF EvShape

\* A request at rest and one that invalidates hold nothing else.
LEMMA EvNone == EvHolding(None, now) /\ EvHolding([op |-> "invalidate"], now)
BY DEF EvHolding

\* Links as they were, and nobody begins to create one.
LEMMA EvLinksStay ==
  ASSUME EvLinks, links' = links, now' = now,
         \A t \in Slots : Ev!Holds(t, "create")' => Ev!Holds(t, "create") /\ slot'[t] = slot[t]
  PROVE  EvLinks'
BY DEF EvLinks, Ev!Live, Ev!Active

\* The uses stay the invitations when neither changes.
LEMMA EvUsesStay == ASSUME EvUses, links' = links, invites' = invites PROVE EvUses'
BY DEF EvUses, EvFrom

\* What is hidden stays unlisted when the caches stay.
LEMMA EvHiddenStays ==
  ASSUME EvHidden, cache' = cache, event' = event, overlapped' = overlapped,
         \A t \in Slots : Ev!Holds(t, "invalidate") => Ev!Holds(t, "invalidate")'
  PROVE  EvHidden'
BY DEF EvHidden, Ev!Discoverable

\* What the other handlers hold.
LEMMA EvOthers ==
  ASSUME NEW s \in Slots, NEW op, Ev!Holds(s, op), op \notin {"create", "invalidate"},
         slot'[s] = None, \A t \in Slots \ {s} : slot'[t] = slot[t]
  PROVE  /\ \A t \in Slots : Ev!Holds(t, "create")' => Ev!Holds(t, "create") /\ slot'[t] = slot[t]
         /\ \A t \in Slots : Ev!Holds(t, "invalidate") => Ev!Holds(t, "invalidate")'
BY DEF Ev!Holds

-----------------------------------------------------------------------------
(* The requests. *)

\* An edited event, and when it clears the lists.
LEMMA EvEventType ==
  ASSUME NEW e \in Ev!Event, NEW d \in Ev!Edits
  PROVE  Ev!Edited(e, d) \in Ev!Event
         /\ (Ev!Clears(e, d) <=> e.isPublic \/ ("isPublic" \in DOMAIN d /\ d.isPublic))
<1>1. CASE d \in [isPublic : BOOLEAN]
  BY <1>1 DEF Ev!Edited, Ev!Event, Ev!Clears
<1>2. CASE d \in [canceled : BOOLEAN]
  BY <1>2 DEF Ev!Edited, Ev!Event, Ev!Clears
<1>3. CASE d \in [end : Ev!Times]
  BY <1>3 DEF Ev!Edited, Ev!Event, Ev!Clears
<1> QED BY <1>1, <1>2, <1>3 DEF Ev!Edits

\* Every request begins without a write.
LEMMA EvRequests ==
  ASSUME EvInv, NEW s \in Slots,
         \/ Ev!editEvent(s) \/ Ev!removeEvent(s) \/ Ev!findEvents(s) \/ Ev!inviteToEvent(s)
         \/ Ev!createInviteLink(s) \/ Ev!revokeInviteLink(s) \/ Ev!acceptInviteLink(s)
         \/ Ev!confirmAttendance(s) \/ Ev!cancelAttendance(s) \/ Ev!checkInToEvent(s)
  PROVE  EvInv'
<1>0. event \in Ev!Event /\ event.end \in Ev!Times /\ now \in Ev!Times /\ now <= now
  BY EvPar DEF EvInv, EvShape, EvRows, Ev!Event, Ev!Times
<1>1. CASE Ev!editEvent(s)
  <2>1. PICK d \in Ev!Edits : Ev!Begin(s, [op |-> "edit", e |-> event, d |-> d])
    BY <1>1 DEF Ev!editEvent
  <2>2. EvHolding([op |-> "edit", e |-> event, d |-> d], now)
    BY <1>0 DEF EvHolding
  <2> QED BY <2>1, <2>2, EvBegins
<1>2. CASE Ev!removeEvent(s)
  <2>1. EvHolding([op |-> "remove", e |-> event], now)
    BY <1>0 DEF EvHolding
  <2> QED BY <1>2, <2>1, EvBegins DEF Ev!removeEvent
<1>3. CASE Ev!findEvents(s)
  <2>1. PICK c \in Caches : Ev!Begin(s, [op |-> "list", c |-> c, shown |-> Ev!Discoverable])
    BY <1>3 DEF Ev!findEvents
  <2>2. EvHolding([op |-> "list", c |-> c, shown |-> Ev!Discoverable], now)
    BY DEF EvHolding, Ev!Discoverable
  <2> QED BY <2>1, <2>2, EvBegins
<1>4. CASE Ev!inviteToEvent(s)
  <2>1. PICK u \in Ev!Everyone, ids \in SUBSET Guests :
          Ev!Begin(s, [op |-> "invite", ids |-> {g \in ids \ {u} : invites[g] = None}])
    BY <1>4 DEF Ev!inviteToEvent
  <2>2. EvHolding([op |-> "invite", ids |-> {g \in ids \ {u} : invites[g] = None}], now)
    BY DEF EvHolding
  <2> QED BY <2>1, <2>2, EvBegins
<1>5. CASE Ev!createInviteLink(s)
  <2>1. [op |-> "link", expires |-> event.end, at |-> now]
          \in [op : {"link", "create"}, expires : Ev!Times, at : Ev!Times]
    BY <1>0
  <2>2. EvHolding([op |-> "link", expires |-> event.end, at |-> now], now)
    BY <1>0, <2>1 DEF EvHolding
  <2> QED BY <1>5, <2>2, EvBegins DEF Ev!createInviteLink
<1>6. CASE Ev!revokeInviteLink(s)
  <2>1. PICK l \in Ev!Links : Ev!Begin(s, [op |-> "revoke", l |-> l])
    BY <1>6 DEF Ev!revokeInviteLink
  <2>2. EvHolding([op |-> "revoke", l |-> l], now)
    BY DEF EvHolding
  <2> QED BY <2>1, <2>2, EvBegins
<1>7. CASE Ev!acceptInviteLink(s)
  <2>1. PICK l \in Ev!Links, g \in Guests : Ev!Begin(s, [op |-> "accept", l |-> l, g |-> g])
    BY <1>7 DEF Ev!acceptInviteLink
  <2>2. EvHolding([op |-> "accept", l |-> l, g |-> g], now)
    BY DEF EvHolding
  <2> QED BY <2>1, <2>2, EvBegins
<1>8. CASE Ev!confirmAttendance(s)
  <2>1. PICK g \in Guests, t \in Ev!Rsvps : Ev!Begin(s, [op |-> "rsvp", g |-> g, t |-> t])
    BY <1>8 DEF Ev!confirmAttendance
  <2>2. EvHolding([op |-> "rsvp", g |-> g, t |-> t], now)
    BY DEF EvHolding
  <2> QED BY <2>1, <2>2, EvBegins
<1>9. CASE Ev!cancelAttendance(s)
  <2>1. PICK g \in Guests : Ev!Begin(s, [op |-> "rsvp", g |-> g, t |-> None])
    BY <1>9 DEF Ev!cancelAttendance
  <2>2. EvHolding([op |-> "rsvp", g |-> g, t |-> None], now)
    BY DEF EvHolding
  <2> QED BY <2>1, <2>2, EvBegins
<1>10. CASE Ev!checkInToEvent(s)
  <2>1. PICK g \in Guests : Ev!Begin(s, [op |-> "checkIn", g |-> g])
    BY <1>10 DEF Ev!checkInToEvent
  <2>2. EvHolding([op |-> "checkIn", g |-> g], now)
    BY DEF EvHolding
  <2> QED BY <2>1, <2>2, EvBegins
<1> QED BY <1>1, <1>2, <1>3, <1>4, <1>5, <1>6, <1>7, <1>8, <1>9, <1>10

-----------------------------------------------------------------------------
(* The author's writes and the lists. *)

\* The event is inserted.
LEMMA EvAdd == ASSUME EvInv, NEW s \in Slots, Ev!addEvent(s) PROVE EvInv'
<1>0. /\ ~event.stored /\ requests = 0 /\ requests' = 1
      /\ event' = [event EXCEPT !.stored = TRUE]
      /\ slot' = [slot EXCEPT ![s] = IF event.isPublic THEN [op |-> "invalidate"] ELSE None]
      /\ UNCHANGED <<now, overlapped, links, invites, rsvp, arrived, cache, blocked>>
      /\ \A t \in Slots : slot[t] = None
  BY DEF Ev!addEvent, Ev!Same, EvInv, EvShape
<1>1. /\ DOMAIN slot' = Slots /\ slot'[s] \in {None, [op |-> "invalidate"]}
      /\ \A t \in Slots \ {s} : slot'[t] = None
  BY <1>0 DEF EvInv, EvShape
<1>3. EvRows'
  BY <1>0 DEF EvInv, EvShape, EvRows, Ev!Event
<1>4. \A t \in Slots : EvHolding(slot'[t], now')
  BY <1>0, <1>1, EvNone
<1>5. requests' \in 0..Requests["events"]
  BY <1>0, EvPar
<1>6. EvShape'
  BY <1>0, <1>1, <1>3, <1>4, <1>5 DEF EvInv, EvShape
<1>7. \A t \in Slots : ~Ev!Holds(t, "create")' /\ ~Ev!Holds(t, "invalidate")
  BY <1>0, <1>1 DEF Ev!Holds
<1>8. EvLinks'
  BY <1>0, <1>7, EvLinksStay DEF EvInv
<1>9. EvUses'
  BY <1>0, EvUsesStay DEF EvInv
<1>10. EvHidden'
  BY <1>0, <1>7 DEF EvInv, EvHidden, Ev!Discoverable
<1> QED BY <1>6, <1>8, <1>9, <1>10 DEF EvInv

\* The event is updated.
LEMMA EvUpdate == ASSUME EvInv, NEW s \in Slots, Ev!updateEvent(s) PROVE EvInv'
<1> DEFINE h == slot[s]
           next == IF event.stored /\ Ev!Clears(h.e, h.d) THEN [op |-> "invalidate"] ELSE None
<1>0. /\ Ev!Holds(s, "edit") /\ event' = IF event.stored THEN Ev!Edited(event, h.d) ELSE event
      /\ slot' = [slot EXCEPT ![s] = next]
      /\ overlapped' = (overlapped \/ h.e.isPublic # event.isPublic)
      /\ UNCHANGED <<requests, blocked, now, links, invites, rsvp, arrived, cache>>
  BY DEF Ev!updateEvent, Ev!Step
<1>1. h.e \in Ev!Event /\ h.d \in Ev!Edits /\ slot[s] # None
  BY <1>0 DEF EvInv, EvShape, EvHolding, Ev!Holds
<1>2. event \in Ev!Event /\ Ev!Edited(event, h.d) \in Ev!Event
  BY <1>1, EvEventType DEF EvInv, EvShape, EvRows
<1>3. EvRows'
  BY <1>0, <1>2 DEF EvInv, EvShape, EvRows
<1>4. EvHolding(next, now)
  BY EvNone
<1>5. overlapped' \in BOOLEAN /\ cache' \in [Caches -> BOOLEAN \cup {None}]
  BY <1>0 DEF EvInv, EvShape
<1> HIDE DEF next
<1>6. EvShape' /\ slot'[s] = next /\ \A t \in Slots \ {s} : slot'[t] = slot[t]
  BY <1>0, <1>1, <1>3, <1>4, <1>5, EvSlots DEF EvInv
<1>7. EvLinks'
  <2>1. \A t \in Slots : Ev!Holds(t, "create")' => Ev!Holds(t, "create") /\ slot'[t] = slot[t]
    BY <1>6 DEF Ev!Holds, next
  <2> QED BY <1>0, <2>1, EvLinksStay DEF EvInv
<1>8. EvUses'
  BY <1>0, EvUsesStay DEF EvInv
<1>9. EvHidden'
  <2> SUFFICES ASSUME NEW c \in Caches, cache[c] = TRUE, ~Ev!Discoverable', ~overlapped'
               PROVE  \E t \in Slots : Ev!Holds(t, "invalidate")'
    BY <1>0 DEF EvHidden
  <2>1. ~overlapped /\ h.e.isPublic = event.isPublic
    BY <1>0
  <2>2. CASE Ev!Discoverable
    <3>1. event.stored /\ h.e.isPublic
      BY <2>1, <2>2 DEF Ev!Discoverable
    <3>2. Ev!Clears(h.e, h.d)
      BY <3>1 DEF Ev!Clears
    <3>3. slot'[s] = [op |-> "invalidate"]
      BY <1>6, <3>1, <3>2 DEF next
    <3> QED BY <3>3, EvPar DEF Ev!Holds
  <2>3. CASE ~Ev!Discoverable
    <3>1. PICK t \in Slots : Ev!Holds(t, "invalidate")
      BY <2>1, <2>3 DEF EvInv, EvHidden
    <3>2. t # s
      BY <1>0, <3>1 DEF Ev!Holds
    <3> QED BY <1>6, <3>1, <3>2 DEF Ev!Holds
  <2> QED BY <2>2, <2>3
<1> QED BY <1>6, <1>7, <1>8, <1>9 DEF EvInv

\* The event is deleted.
LEMMA EvDelete == ASSUME EvInv, NEW s \in Slots, Ev!deleteEvent(s) PROVE EvInv'
<1> DEFINE next == IF event.stored /\ slot[s].e.isPublic THEN [op |-> "invalidate"] ELSE None
<1>0. /\ Ev!Holds(s, "remove") /\ event' = [event EXCEPT !.stored = FALSE]
      /\ links' = [l \in Ev!Links |-> None] /\ invites' = [g \in Guests |-> None]
      /\ rsvp' = [g \in Guests |-> None] /\ arrived' = {}
      /\ slot' = [slot EXCEPT ![s] = next]
      /\ overlapped' = (overlapped \/ slot[s].e.isPublic # event.isPublic)
      /\ UNCHANGED <<requests, blocked, now, cache>>
  BY DEF Ev!deleteEvent, Ev!Step
<1>1. slot[s] # None
  BY <1>0 DEF Ev!Holds
<1>3. EvRows'
  BY <1>0 DEF EvInv, EvShape, EvRows, Ev!Event
<1>4. EvHolding(next, now)
  BY EvNone
<1>5. overlapped' \in BOOLEAN /\ cache' \in [Caches -> BOOLEAN \cup {None}]
  BY <1>0 DEF EvInv, EvShape
<1> HIDE DEF next
<1>6. EvShape' /\ slot'[s] = next /\ \A t \in Slots \ {s} : slot'[t] = slot[t]
  BY <1>0, <1>1, <1>3, <1>4, <1>5, EvSlots DEF EvInv
<1>7. EvLinks'
  <2>1. \A t \in Slots : Ev!Holds(t, "create")' => Ev!Holds(t, "create") /\ slot'[t] = slot[t]
    BY <1>6 DEF Ev!Holds, next
  <2>2. \A l \in Ev!Links : ~Ev!Live(l)' /\ ~Ev!Active(l)'
    BY <1>0 DEF Ev!Live, Ev!Active
  <2> QED BY <2>1, <2>2 DEF EvInv, EvLinks
<1>8. EvUses'
  BY <1>0, EvPar DEF EvUses, EvFrom, Ev!Links
<1>9. EvHidden'
  <2> SUFFICES ASSUME NEW c \in Caches, cache[c] = TRUE, ~overlapped'
               PROVE  \E t \in Slots : Ev!Holds(t, "invalidate")'
    BY <1>0 DEF EvHidden
  <2>1. ~overlapped /\ slot[s].e.isPublic = event.isPublic
    BY <1>0
  <2>2. CASE Ev!Discoverable
    <3>1. event.stored /\ slot[s].e.isPublic
      BY <2>1, <2>2 DEF Ev!Discoverable
    <3>2. slot'[s] = [op |-> "invalidate"]
      BY <1>6, <3>1 DEF next
    <3> QED BY <3>2, EvPar DEF Ev!Holds
  <2>3. CASE ~Ev!Discoverable
    <3>1. PICK t \in Slots : Ev!Holds(t, "invalidate")
      BY <2>1, <2>3 DEF EvInv, EvHidden
    <3>2. t # s
      BY <1>0, <3>1 DEF Ev!Holds
    <3> QED BY <1>6, <3>1, <3>2 DEF Ev!Holds
  <2> QED BY <2>2, <2>3
<1> QED BY <1>6, <1>7, <1>8, <1>9 DEF EvInv

\* The caches forget.
LEMMA EvInvalidate == ASSUME EvInv, NEW s \in Slots, Ev!invalidateEventCaches(s) PROVE EvInv'
<1>0. /\ Ev!Holds(s, "invalidate") /\ cache' = [c \in Caches |-> None]
      /\ slot' = [slot EXCEPT ![s] = None] /\ slot[s] # None
      /\ UNCHANGED <<now, overlapped, requests, blocked, event, links, invites, rsvp, arrived>>
  BY DEF Ev!invalidateEventCaches, Ev!Step, Ev!Same, Ev!Rows, Ev!Holds
<1>1. EvRows' /\ overlapped' \in BOOLEAN /\ cache' \in [Caches -> BOOLEAN \cup {None}]
  BY <1>0 DEF EvInv, EvShape, EvRows
<1>2. EvShape' /\ slot'[s] = None /\ \A t \in Slots \ {s} : slot'[t] = slot[t]
  BY <1>0, <1>1, EvNone, EvSlots DEF EvInv
<1>3. \A t \in Slots : Ev!Holds(t, "create")' => Ev!Holds(t, "create") /\ slot'[t] = slot[t]
  BY <1>2 DEF Ev!Holds
<1>4. EvLinks' /\ EvUses'
  BY <1>0, <1>3, EvLinksStay, EvUsesStay DEF EvInv
<1>5. EvHidden'
  BY <1>0, EvPar DEF EvHidden
<1> QED BY <1>2, <1>4, <1>5 DEF EvInv

\* A list is cached as it was read.
LEMMA EvCacheSet == ASSUME EvInv, NEW s \in Slots, Ev!cacheSet(s) PROVE EvInv'
<1>0. /\ Ev!Holds(s, "list") /\ cache' = [cache EXCEPT ![slot[s].c] = slot[s].shown]
      /\ slot' = [slot EXCEPT ![s] = None] /\ slot[s] # None
      /\ overlapped' = (overlapped \/ slot[s].shown # Ev!Discoverable)
      /\ UNCHANGED <<now, requests, blocked, event, links, invites, rsvp, arrived>>
  BY DEF Ev!cacheSet, Ev!Step, Ev!Rows, Ev!Holds
<1>a. slot[s].c \in Caches /\ slot[s].shown \in BOOLEAN
  BY <1>0 DEF EvInv, EvShape, EvHolding, Ev!Holds
<1>1. EvRows' /\ overlapped' \in BOOLEAN /\ cache' \in [Caches -> BOOLEAN \cup {None}]
  BY <1>0, <1>a DEF EvInv, EvShape, EvRows
<1>2. EvShape' /\ slot'[s] = None /\ \A t \in Slots \ {s} : slot'[t] = slot[t]
  BY <1>0, <1>1, EvNone, EvSlots DEF EvInv
<1>3. /\ \A t \in Slots : Ev!Holds(t, "create")' => Ev!Holds(t, "create") /\ slot'[t] = slot[t]
      /\ \A t \in Slots : Ev!Holds(t, "invalidate") => Ev!Holds(t, "invalidate")'
  BY <1>0, <1>2, EvOthers
<1>4. EvLinks' /\ EvUses'
  BY <1>0, <1>3, EvLinksStay, EvUsesStay DEF EvInv
<1>5. EvHidden'
  <2> SUFFICES ASSUME NEW c \in Caches, cache'[c] = TRUE, ~Ev!Discoverable, ~overlapped'
               PROVE  \E t \in Slots : Ev!Holds(t, "invalidate")'
    BY <1>0 DEF EvHidden, Ev!Discoverable
  <2>1. ~overlapped /\ slot[s].shown = Ev!Discoverable
    BY <1>0
  <2>2. cache[c] = TRUE
    BY <1>0, <1>a, <2>1 DEF EvInv, EvShape
  <2> QED BY <1>3, <2>1, <2>2 DEF EvInv, EvHidden
<1> QED BY <1>2, <1>4, <1>5 DEF EvInv

-----------------------------------------------------------------------------
(* Invitations and links. *)

\* A handler of another kind ends; the event and the lists stay.
LEMMA EvEnds ==
  ASSUME EvInv, NEW s \in Slots, NEW op, Ev!Holds(s, op), op \notin {"create", "invalidate"},
         slot' = [slot EXCEPT ![s] = None],
         UNCHANGED <<now, overlapped, requests, blocked, event, cache>>, EvRows'
  PROVE  /\ EvShape' /\ EvHidden'
         /\ \A t \in Slots : Ev!Holds(t, "create")' => Ev!Holds(t, "create") /\ slot'[t] = slot[t]
<1>1. EvShape' /\ slot'[s] = None /\ \A t \in Slots \ {s} : slot'[t] = slot[t]
  BY EvNone, EvSlots DEF EvInv, EvShape, Ev!Holds
<1>2. /\ \A t \in Slots : Ev!Holds(t, "create")' => Ev!Holds(t, "create") /\ slot'[t] = slot[t]
      /\ \A t \in Slots : Ev!Holds(t, "invalidate") => Ev!Holds(t, "invalidate")'
  BY <1>1, EvOthers
<1> QED BY <1>1, <1>2, EvHiddenStays DEF EvInv

\* The invitations are inserted.
LEMMA EvCreateInvites == ASSUME EvInv, NEW s \in Slots, Ev!createInvites(s) PROVE EvInv'
<1>0. /\ Ev!Holds(s, "invite")
      /\ invites' = [g \in Guests |-> IF g \in slot[s].ids /\ invites[g] = None
                                      THEN 0 ELSE invites[g]]
      /\ slot' = [slot EXCEPT ![s] = None]
      /\ UNCHANGED <<now, overlapped, requests, blocked, event, links, rsvp, arrived, cache>>
  BY DEF Ev!createInvites, Ev!Step, Ev!Same
<1>1. EvRows'
  BY <1>0, EvPar DEF EvInv, EvShape, EvRows
<1>2. /\ EvShape' /\ EvHidden'
      /\ \A t \in Slots : Ev!Holds(t, "create")' => Ev!Holds(t, "create") /\ slot'[t] = slot[t]
  BY <1>0, <1>1, EvEnds
<1>3. EvLinks'
  BY <1>0, <1>2, EvLinksStay DEF EvInv
<1>4. EvUses'
  <2>1. \A l \in Ev!Links : EvFrom(l)' = EvFrom(l)
    BY <1>0, EvPar DEF EvFrom, Ev!Links
  <2> QED BY <1>0, <2>1 DEF EvInv, EvUses
<1> QED BY <1>2, <1>3, <1>4 DEF EvInv

\* The link that works is looked for.
LEMMA EvFindLink == ASSUME EvInv, NEW s \in Slots, Ev!findActiveLink(s) PROVE EvInv'
<1> DEFINE working == \E l \in Ev!Links : Ev!Live(l) /\ links[l].expires > slot[s].at
           next == IF working THEN None ELSE [slot[s] EXCEPT !.op = "create"]
<1>0. /\ Ev!Holds(s, "link") /\ \A t \in Slots : ~Ev!Holds(t, "create")
      /\ slot' = [slot EXCEPT ![s] = next] /\ slot[s] # None
      /\ UNCHANGED <<now, overlapped, requests, blocked, event, links, invites, rsvp, arrived, cache>>
  BY DEF Ev!findActiveLink, Ev!Unlocked, Ev!Step, Ev!Same, Ev!Rows, Ev!Holds
<1>1. slot[s] \in [op : {"link", "create"}, expires : Ev!Times, at : Ev!Times] /\ slot[s].at <= now
  BY <1>0 DEF EvInv, EvShape, EvHolding, Ev!Holds
<1> DEFINE grown == [slot[s] EXCEPT !.op = "create"]
<1>2. /\ grown \in [op : {"link", "create"}, expires : Ev!Times, at : Ev!Times]
      /\ grown.op = "create" /\ grown.at = slot[s].at
  BY <1>1
<1>3. EvHolding(next, now)
  BY <1>1, <1>2, EvNone DEF EvHolding
<1>4. EvRows' /\ overlapped' \in BOOLEAN /\ cache' \in [Caches -> BOOLEAN \cup {None}]
  BY <1>0 DEF EvInv, EvShape, EvRows
<1> HIDE DEF grown, working
<1>5. next = None \/ (~working /\ next = grown)
  BY DEF grown
<1> HIDE DEF next
<1>6. EvShape' /\ slot'[s] = next /\ \A t \in Slots \ {s} : slot'[t] = slot[t]
  BY <1>0, <1>3, <1>4, EvSlots DEF EvInv
<1>7. \A t \in Slots : Ev!Holds(t, "create")' => t = s /\ ~working /\ slot'[s].at = slot[s].at
  BY <1>0, <1>2, <1>5, <1>6 DEF Ev!Holds
<1>8. ~working => \A l \in Ev!Links : Ev!Live(l) => links[l].expires <= slot[s].at
  <2> SUFFICES ASSUME ~working, NEW l \in Ev!Links, Ev!Live(l) PROVE links[l].expires <= slot[s].at
    OBVIOUS
  <2>1. links[l] \in Ev!Link
    BY DEF Ev!Live, EvInv, EvShape, EvRows
  <2>2. links[l].expires \in Nat /\ slot[s].at \in Nat
    BY <1>1, <2>1 DEF Ev!Link, Ev!Times
  <2>3. ~(links[l].expires > slot[s].at)
    BY DEF working
  <2> QED BY <2>2, <2>3
<1>9. EvLinks'
  BY <1>0, <1>7, <1>8 DEF EvInv, EvLinks, Ev!Live, Ev!Active
<1>10. EvUses'
  BY <1>0, EvUsesStay DEF EvInv
<1>11. EvHidden'
  <2>1. \A t \in Slots : Ev!Holds(t, "invalidate") => Ev!Holds(t, "invalidate")'
    BY <1>0, <1>6 DEF Ev!Holds
  <2> QED BY <1>0, <2>1, EvHiddenStays DEF EvInv
<1> QED BY <1>6, <1>9, <1>10, <1>11 DEF EvInv

\* A link is inserted under the lock.
LEMMA EvCreateLink == ASSUME EvInv, NEW s \in Slots, Ev!createLink(s) PROVE EvInv'
<1>0. /\ Ev!Holds(s, "create") /\ slot' = [slot EXCEPT ![s] = None] /\ slot[s] # None
      /\ UNCHANGED <<now, overlapped, requests, blocked, event, invites, rsvp, arrived, cache>>
  BY DEF Ev!createLink, Ev!Step, Ev!Same, Ev!Holds
<1>1. PICK l \in Ev!Links : /\ links[l] = None
                            /\ links' = [links EXCEPT ![l] = [revoked |-> FALSE, uses |-> 0,
                                                              expires |-> slot[s].expires]]
  BY DEF Ev!createLink
<1>2. slot[s].expires \in Ev!Times /\ slot[s].at \in Ev!Times /\ slot[s].at <= now /\ now \in Nat
  BY <1>0 DEF EvInv, EvShape, EvHolding, Ev!Holds, Ev!Times
<1>3. /\ links'[l] \in Ev!Link /\ links'[l].uses = 0 /\ links'[l] # None
      /\ \A k \in Ev!Links \ {l} : links'[k] = links[k]
  <2>1. [revoked |-> FALSE, uses |-> 0, expires |-> slot[s].expires] \in Ev!Link
    BY <1>2 DEF Ev!Link
  <2> QED BY <1>1, <2>1, EvPar DEF EvInv, EvShape, EvRows
<1>4. EvRows' /\ overlapped' \in BOOLEAN /\ cache' \in [Caches -> BOOLEAN \cup {None}]
  BY <1>0, <1>1, <1>3 DEF EvInv, EvShape, EvRows
<1>5. EvShape' /\ slot'[s] = None /\ \A t \in Slots \ {s} : slot'[t] = slot[t]
  BY <1>0, <1>4, EvNone, EvSlots DEF EvInv
<1>6. \A t \in Slots : ~Ev!Holds(t, "create")'
  BY <1>0, <1>5 DEF EvInv, EvLinks, Ev!Holds
<1>7. \A k \in Ev!Links : k # l => ~Ev!Active(k)'
  <2> SUFFICES ASSUME NEW k \in Ev!Links, k # l, Ev!Live(k), links[k].expires > now PROVE FALSE
    BY <1>0, <1>3 DEF Ev!Active, Ev!Live
  <2>1. links[k] \in Ev!Link /\ links[k].expires <= slot[s].at
    BY <1>0 DEF Ev!Live, EvInv, EvShape, EvRows, EvLinks
  <2>2. links[k].expires \in Nat /\ slot[s].at \in Nat
    BY <1>2, <2>1 DEF Ev!Link, Ev!Times
  <2> QED BY <1>2, <2>1, <2>2
<1>8. EvLinks'
  BY <1>6, <1>7 DEF EvLinks
<1>9. EvUses'
  <2>1. \A k \in Ev!Links : EvFrom(k)' = EvFrom(k)
    BY <1>0 DEF EvFrom
  <2>2. EvFrom(l) = {} /\ Cardinality({}) = 0
    BY <1>1, FS_EmptySet DEF EvInv, EvUses
  <2> QED BY <1>3, <2>1, <2>2 DEF EvInv, EvUses
<1>10. EvHidden'
  <2>1. \A t \in Slots : Ev!Holds(t, "invalidate") => Ev!Holds(t, "invalidate")'
    BY <1>0, <1>5 DEF Ev!Holds
  <2> QED BY <1>0, <2>1, EvHiddenStays DEF EvInv
<1> QED BY <1>5, <1>8, <1>9, <1>10 DEF EvInv

\* A link is revoked.
LEMMA EvRevoke == ASSUME EvInv, NEW s \in Slots, Ev!revokeLink(s) PROVE EvInv'
<1>0. /\ Ev!Holds(s, "revoke") /\ slot' = [slot EXCEPT ![s] = None]
      /\ links' = [links EXCEPT ![slot[s].l] = IF @ = None THEN None ELSE [@ EXCEPT !.revoked = TRUE]]
      /\ UNCHANGED <<now, overlapped, requests, blocked, event, invites, rsvp, arrived, cache>>
  BY DEF Ev!revokeLink, Ev!Step, Ev!Same
<1>1. PICK l \in Ev!Links : l = slot[s].l
  BY <1>0 DEF EvInv, EvShape, EvHolding, Ev!Holds
<1>2. /\ \A k \in Ev!Links \ {l} : links'[k] = links[k]
      /\ links[l] = None => links'[l] = None
      /\ links[l] # None => /\ links'[l] = [links[l] EXCEPT !.revoked = TRUE]
                            /\ links[l] \in Ev!Link
  BY <1>0, <1>1 DEF EvInv, EvShape, EvRows
<1>3. links[l] # None => /\ links'[l] \in Ev!Link /\ links'[l] # None /\ links'[l].revoked
                         /\ links'[l].uses = links[l].uses
  BY <1>2, EvPar DEF Ev!Link
<1>4. EvRows'
  <2>1. \A k \in Ev!Links : links'[k] \in Ev!Link \cup {None}
    BY <1>2, <1>3 DEF EvInv, EvShape, EvRows
  <2>2. links' \in [Ev!Links -> Ev!Link \cup {None}]
    <3>1. links' = [k \in Ev!Links |-> links'[k]]
      BY <1>0 DEF EvInv, EvShape, EvRows
    <3> QED BY <2>1, <3>1
  <2> QED BY <1>0, <2>2 DEF EvInv, EvShape, EvRows
<1>5. /\ EvShape' /\ EvHidden'
      /\ \A t \in Slots : Ev!Holds(t, "create")' => Ev!Holds(t, "create") /\ slot'[t] = slot[t]
  BY <1>0, <1>4, EvEnds
<1>6. \A k \in Ev!Links : Ev!Live(k)' => Ev!Live(k) /\ links'[k] = links[k]
  BY <1>2, <1>3 DEF Ev!Live
<1>7. EvLinks'
  BY <1>0, <1>5, <1>6 DEF EvInv, EvLinks, Ev!Active
<1>8. EvUses'
  <2>1. \A k \in Ev!Links : EvFrom(k)' = EvFrom(k)
    BY <1>0 DEF EvFrom
  <2> QED BY <1>2, <1>3, <2>1 DEF EvInv, EvUses
<1> QED BY <1>5, <1>7, <1>8 DEF EvInv

\* A link is used: its count and the invitation are one transaction.
LEMMA EvAccept == ASSUME EvInv, NEW s \in Slots, Ev!acceptLink(s) PROVE EvInv'
<1>0. /\ Ev!Holds(s, "accept") /\ slot' = [slot EXCEPT ![s] = None] /\ links[slot[s].l] # None
      /\ UNCHANGED <<now, overlapped, requests, blocked, event, rsvp, arrived, cache>>
  BY DEF Ev!acceptLink, Ev!Step, Ev!Same
<1>1. PICK l \in Ev!Links, g \in Guests : l = slot[s].l /\ g = slot[s].g
  BY <1>0 DEF EvInv, EvShape, EvHolding, Ev!Holds
<1> DEFINE created == IF invites[g] = None THEN 1 ELSE 0
<1>2. /\ invites' = IF created = 1 THEN [invites EXCEPT ![g] = l] ELSE invites
      /\ links' = [links EXCEPT ![l].uses = Ev!Uses(@, created)]
  BY <1>1 DEF Ev!acceptLink
<1>3. links[l] \in Ev!Link /\ links[l].uses \in Nat /\ l \in 0..MaxLinks /\ l # None
  BY <1>0, <1>1, EvPar DEF EvInv, EvShape, EvRows, Ev!Link, Ev!Links
<1>4. /\ links' = [links EXCEPT ![l] = [links[l] EXCEPT !.uses = links[l].uses + created]]
  BY <1>2 DEF Ev!Uses
<1>5. /\ links'[l] \in Ev!Link /\ links'[l].uses = links[l].uses + created /\ links'[l] # None
      /\ links'[l].revoked = links[l].revoked /\ links'[l].expires = links[l].expires
      /\ \A k \in Ev!Links \ {l} : links'[k] = links[k]
  <2>1. links[l].uses + created \in Nat
    BY <1>3
  <2>2. [links[l] EXCEPT !.uses = links[l].uses + created] \in Ev!Link
    BY <1>3, <2>1 DEF Ev!Link
  <2>3. links'[l] = [links[l] EXCEPT !.uses = links[l].uses + created]
    BY <1>4 DEF EvInv, EvShape, EvRows
  <2>4. \A k \in Ev!Links \ {l} : links'[k] = links[k]
    BY <1>4 DEF EvInv, EvShape, EvRows
  <2>5. /\ links'[l].uses = links[l].uses + created
        /\ links'[l].revoked = links[l].revoked /\ links'[l].expires = links[l].expires
    BY <1>3, <2>3 DEF Ev!Link
  <2> QED BY <2>2, <2>3, <2>4, <2>5, EvPar
<1>6. invites' \in [Guests -> 0..MaxLinks \cup {None}]
  BY <1>2, <1>3 DEF EvInv, EvShape, EvRows
<1>7. links' \in [Ev!Links -> Ev!Link \cup {None}]
  <2>1. \A k \in Ev!Links : links'[k] \in Ev!Link \cup {None}
    BY <1>5 DEF EvInv, EvShape, EvRows
  <2>2. links' = [k \in Ev!Links |-> links'[k]]
    BY <1>4 DEF EvInv, EvShape, EvRows
  <2> QED BY <2>1, <2>2
<1>8. EvRows'
  BY <1>0, <1>6, <1>7 DEF EvInv, EvShape, EvRows
<1>9. /\ EvShape' /\ EvHidden'
      /\ \A t \in Slots : Ev!Holds(t, "create")' => Ev!Holds(t, "create") /\ slot'[t] = slot[t]
  BY <1>0, <1>8, EvEnds
<1>10. \A k \in Ev!Links : /\ Ev!Live(k)' <=> Ev!Live(k)
                           /\ Ev!Live(k) => links'[k].expires = links[k].expires
  BY <1>0, <1>1, <1>5 DEF Ev!Live
<1>11. EvLinks'
  BY <1>0, <1>9, <1>10 DEF EvInv, EvLinks, Ev!Active
<1>12. EvUses'
  <2>0. links[l].uses = Cardinality(EvFrom(l)) /\ IsFiniteSet(EvFrom(l))
    BY <1>0, <1>1, EvPar, FS_Subset DEF EvInv, EvUses, EvFrom
  <2>1. CASE invites[g] = None
    <3>1. invites' = [invites EXCEPT ![g] = l] /\ created = 1
      BY <1>2, <2>1
    <3>2. EvFrom(l)' = EvFrom(l) \cup {g} /\ g \notin EvFrom(l)
      BY <1>3, <2>1, <3>1 DEF EvFrom, EvInv, EvShape, EvRows
    <3>3. Cardinality(EvFrom(l) \cup {g}) = Cardinality(EvFrom(l)) + 1
      BY <2>0, <3>2, FS_AddElement
    <3>4. \A k \in Ev!Links \ {l} : EvFrom(k)' = EvFrom(k)
      <4> SUFFICES ASSUME NEW k \in Ev!Links, k # l PROVE EvFrom(k)' = EvFrom(k)
        OBVIOUS
      <4>1. k # None
        BY EvPar DEF Ev!Links
      <4> QED BY <2>1, <3>1, <4>1 DEF EvFrom, EvInv, EvShape, EvRows
    <3>5. links'[l].uses = Cardinality(EvFrom(l)')
      BY <1>5, <2>0, <3>1, <3>2, <3>3
    <3> QED BY <1>5, <3>4, <3>5 DEF EvInv, EvUses
  <2>2. CASE invites[g] # None
    <3>1. invites' = invites /\ created = 0
      BY <1>2, <2>2
    <3>2. \A k \in Ev!Links : EvFrom(k)' = EvFrom(k)
      BY <3>1 DEF EvFrom
    <3>3. links'[l].uses = links[l].uses
      BY <1>3, <1>5, <3>1
    <3> QED BY <1>0, <1>1, <1>5, <3>2, <3>3 DEF EvInv, EvUses
  <2> QED BY <2>1, <2>2
<1> QED BY <1>9, <1>11, <1>12 DEF EvInv

-----------------------------------------------------------------------------
(* Attendance and the rest of the world. *)

\* An answer or a check-in is written.
LEMMA EvAttend ==
  ASSUME EvInv, NEW s \in Slots, Ev!writeAttendance(s) \/ Ev!createCheckIn(s)
  PROVE  EvInv'
<1>0. /\ slot' = [slot EXCEPT ![s] = None]
      /\ UNCHANGED <<now, overlapped, requests, blocked, event, links, invites, cache>>
  BY DEF Ev!writeAttendance, Ev!createCheckIn, Ev!Step, Ev!Same
<1>1. PICK op \in {"rsvp", "checkIn"} : Ev!Holds(s, op)
  BY DEF Ev!writeAttendance, Ev!createCheckIn
<1>2. EvRows'
  <2>1. CASE Ev!writeAttendance(s)
    <3>1. slot[s].g \in Guests /\ slot[s].t \in Ev!Rsvps \cup {None}
      BY <2>1 DEF Ev!writeAttendance, EvInv, EvShape, EvHolding, Ev!Holds
    <3> QED BY <1>0, <2>1, <3>1 DEF Ev!writeAttendance, EvInv, EvShape, EvRows
  <2>2. CASE Ev!createCheckIn(s)
    <3>1. slot[s].g \in Guests
      BY <2>2 DEF Ev!createCheckIn, EvInv, EvShape, EvHolding, Ev!Holds
    <3>2. rsvp' \in [Guests -> Ev!Rsvps \cup {None}] /\ arrived' \subseteq Ev!Everyone
      BY <2>2, <3>1 DEF Ev!createCheckIn, EvInv, EvShape, EvRows, Ev!Rsvps, Ev!Everyone
    <3> QED BY <1>0, <3>2 DEF EvInv, EvShape, EvRows
  <2> QED BY <2>1, <2>2
<1>3. /\ EvShape' /\ EvHidden'
      /\ \A t \in Slots : Ev!Holds(t, "create")' => Ev!Holds(t, "create") /\ slot'[t] = slot[t]
  BY <1>0, <1>1, <1>2, EvEnds
<1>4. EvLinks' /\ EvUses'
  BY <1>0, <1>3, EvLinksStay, EvUsesStay DEF EvInv
<1> QED BY <1>3, <1>4 DEF EvInv

\* A request fails at its next call.
LEMMA EvFail == ASSUME EvInv, NEW s \in Slots, Ev!fail(s) PROVE EvInv'
<1>0. /\ slot' = [slot EXCEPT ![s] = None] /\ slot[s] # None
      /\ overlapped' = (overlapped \/ Ev!Holds(s, "invalidate"))
      /\ UNCHANGED <<now, requests, blocked, event, links, invites, rsvp, arrived, cache>>
  BY DEF Ev!fail, Ev!Step, Ev!Rows
<1>1. EvRows' /\ overlapped' \in BOOLEAN /\ cache' \in [Caches -> BOOLEAN \cup {None}]
  BY <1>0 DEF EvInv, EvShape, EvRows, Ev!Holds
<1>2. EvShape' /\ slot'[s] = None /\ \A t \in Slots \ {s} : slot'[t] = slot[t]
  BY <1>0, <1>1, EvNone, EvSlots DEF EvInv
<1>3. \A t \in Slots : Ev!Holds(t, "create")' => Ev!Holds(t, "create") /\ slot'[t] = slot[t]
  BY <1>2 DEF Ev!Holds
<1>4. EvLinks' /\ EvUses'
  BY <1>0, <1>3, EvLinksStay, EvUsesStay DEF EvInv
<1>5. EvHidden'
  <2>1. ~overlapped' => \A t \in Slots : Ev!Holds(t, "invalidate") => Ev!Holds(t, "invalidate")'
    BY <1>0, <1>2 DEF Ev!Holds
  <2> QED BY <1>0, <2>1 DEF EvInv, EvHidden, Ev!Discoverable
<1> QED BY <1>2, <1>4, <1>5 DEF EvInv

\* A key expires, a guest is blocked, time passes.
LEMMA EvWorld ==
  ASSUME EvInv, (\E c \in Caches : Ev!expireKey(c)) \/ (\E g \in Guests : Ev!block(g)) \/ Ev!tick
  PROVE  EvInv'
<1>0. UNCHANGED <<event, links, invites, rsvp, arrived, slot, requests, overlapped>>
  BY DEF Ev!expireKey, Ev!block, Ev!tick, Ev!Rows, Ev!Same
<1>1. /\ now' \in Ev!Times /\ now' >= now /\ blocked' \subseteq Guests
      /\ cache' \in [Caches -> BOOLEAN \cup {None}]
      /\ \A c \in Caches : cache'[c] = TRUE => cache[c] = TRUE
  <2>0. /\ now \in Ev!Times /\ now >= now /\ blocked \subseteq Guests
        /\ cache \in [Caches -> BOOLEAN \cup {None}]
    BY EvPar DEF EvInv, EvShape, Ev!Times
  <2>1. CASE \E c \in Caches : Ev!expireKey(c)
    <3>1. PICK c \in Caches : Ev!expireKey(c)
      BY <2>1
    <3>2. cache' = [cache EXCEPT ![c] = None] /\ now' = now /\ blocked' = blocked
      BY <3>1 DEF Ev!expireKey, Ev!Same
    <3>3. cache' \in [Caches -> BOOLEAN \cup {None}]
      BY <2>0, <3>2
    <3>4. None # TRUE
      BY EvPar
    <3>5. \A d \in Caches : cache'[d] = TRUE => cache[d] = TRUE
      BY <2>0, <3>2, <3>4
    <3> QED BY <2>0, <3>2, <3>3, <3>5
  <2>2. CASE \E g \in Guests : Ev!block(g)
    BY <2>2, EvPar DEF Ev!block, Ev!Same, EvInv, EvShape, Ev!Times
  <2>3. CASE Ev!tick
    BY <2>3, EvPar DEF Ev!tick, EvInv, EvShape, Ev!Times
  <2> QED BY <2>1, <2>2, <2>3
<1>2. \A s \in Slots : EvHolding(slot[s], now')
  <2> SUFFICES ASSUME NEW s \in Slots, slot[s] # None, slot[s].op \in {"link", "create"}
               PROVE  /\ slot[s] \in [op : {"link", "create"}, expires : Ev!Times, at : Ev!Times]
                      /\ slot[s].at <= now'
    BY DEF EvInv, EvShape, EvHolding
  <2>1. /\ slot[s] \in [op : {"link", "create"}, expires : Ev!Times, at : Ev!Times]
        /\ slot[s].at <= now
    BY DEF EvInv, EvShape, EvHolding
  <2>2. slot[s].at \in Nat /\ now \in Nat /\ now' \in Nat
    BY <1>1, <2>1 DEF Ev!Times, EvInv, EvShape
  <2> QED BY <1>1, <2>1, <2>2
<1>3. EvShape'
  BY <1>0, <1>1, <1>2 DEF EvInv, EvShape, EvRows
<1>4. \A k \in Ev!Links : Ev!Active(k)' => Ev!Active(k)
  <2> SUFFICES ASSUME NEW k \in Ev!Links, links[k] # None, links[k].expires > now'
               PROVE  links[k].expires > now
    BY <1>0 DEF Ev!Active, Ev!Live
  <2>1. links[k] \in Ev!Link
    BY DEF EvInv, EvShape, EvRows
  <2>2. links[k].expires \in Nat /\ now \in Nat /\ now' \in Nat
    BY <1>1, <2>1 DEF Ev!Times, Ev!Link, EvInv, EvShape
  <2> QED BY <1>1, <2>2
<1>5. EvLinks'
  BY <1>0, <1>4 DEF EvInv, EvLinks, Ev!Live, Ev!Holds
<1>6. EvUses' /\ EvHidden'
  BY <1>0, <1>1, EvUsesStay DEF EvInv, EvHidden, Ev!Discoverable, Ev!Holds
<1> QED BY <1>3, <1>5, <1>6 DEF EvInv

\* Every step of the events keeps their invariant.
LEMMA EvInvNext == EvInv /\ [Ev!Next]_(Ev!vars) => EvInv'
<1> SUFFICES ASSUME EvInv, [Ev!Next]_(Ev!vars) PROVE EvInv'
  OBVIOUS
<1>1. CASE Ev!Next
  BY <1>1, EvRequests, EvAdd, EvUpdate, EvDelete, EvInvalidate, EvCacheSet, EvCreateInvites,
     EvFindLink, EvCreateLink, EvRevoke, EvAccept, EvAttend, EvFail, EvWorld DEF Ev!Next
<1>2. CASE UNCHANGED Ev!vars
  <2>1. UNCHANGED <<event, blocked, links, invites, rsvp, arrived, cache, slot, now, requests,
                    overlapped>>
    BY <1>2 DEF Ev!vars
  <2>2. EvShape' /\ EvRows'
    BY <2>1 DEF EvInv, EvShape, EvRows
  <2>3. EvLinks' /\ EvUses'
    BY <2>1, EvLinksStay, EvUsesStay DEF EvInv, Ev!Holds
  <2>4. EvHidden'
    BY <2>1 DEF EvInv, EvHidden, Ev!Discoverable, Ev!Holds
  <2> QED BY <2>2, <2>3, <2>4 DEF EvInv
<1> QED BY <1>1, <1>2

\* The properties of the events follow from their invariant.
LEMMA EvFollows == EvInv => Ev!TypeOK /\ Ev!OneActiveLink /\ Ev!UsesCountInvites /\ Ev!HiddenIsUnlisted
<1> SUFFICES ASSUME EvInv PROVE Ev!TypeOK /\ Ev!OneActiveLink /\ Ev!UsesCountInvites /\ Ev!HiddenIsUnlisted
  OBVIOUS
<1>1. Ev!TypeOK
  BY DEF EvInv, EvShape, EvRows, Ev!TypeOK
<1>2. Ev!OneActiveLink /\ Ev!HiddenIsUnlisted
  BY DEF EvInv, EvLinks, EvHidden, Ev!OneActiveLink, Ev!HiddenIsUnlisted
<1>3. Ev!UsesCountInvites
  BY EvSets DEF EvInv, EvUses, EvFrom, Ev!UsesCountInvites
<1> QED BY <1>1, <1>2, <1>3


-----------------------------------------------------------------------------
\* What is assumed of the constants of the spots.
LEMMA SpA == Sp!SpotsAssumption
BY PlansAssumption

-----------------------------------------------------------------------------
(* Types. *)

SpRow == [starts : Nat, ends : Nat, private : BOOLEAN, canceled : BOOLEAN, notified : BOOLEAN]

SpRowOK(row) == row = None \/ (row \in SpRow /\ row.starts < row.ends)

SpHolding(h) ==
  h # None =>
    /\ h.op \in {"create", "insert"} =>
         /\ h \in [op : {"create", "insert"}, row : SpRow]
         /\ h.row.starts < h.row.ends /\ ~h.row.notified
    /\ h.op = "join" => h.i \in Spots /\ h.u \in Sp!Everyone
    /\ h.op \in {"cancel", "renew"} => h.i \in Spots

\* What the reconciler holds in each of its steps; time waits for it.
SpPassOK(p) ==
  /\ p.step \in {"idle", "remind", "marked", "clean", "counted"}
  /\ p.step # "idle" => p.at = now
  /\ p.step = "remind" => p \in [step : {"remind"}, at : Nat, todo : SUBSET (Spots \X Nat)]
  /\ p.step = "marked" => p \in [step : {"marked"}, at : Nat, r : Spots \X Nat,
                                 todo : SUBSET (Spots \X Nat)] /\ p.r \in p.todo
  /\ p.step = "clean" => p \in [step : {"clean"}, at : Nat, todo : SUBSET Spots]
  /\ p.step = "counted" => p \in [step : {"counted"}, at : Nat, i : Spots, alone : BOOLEAN,
                                  todo : SUBSET Spots]

SpShape ==
  /\ now \in 0..Until["spots"] /\ requests \in 0..Requests["spots"] /\ crashes \in 0..MaxCrashes
  /\ DOMAIN spots = Spots /\ \A i \in Spots : SpRowOK(spots[i])
  /\ DOMAIN members = Spots
     /\ \A i \in Spots : members[i] = None \/ members[i] \subseteq Sp!Everyone
  /\ DOMAIN slot = Slots /\ \A s \in Slots : SpHolding(slot[s])
  /\ reminded \subseteq Spots \X Nat /\ excused \subseteq Spots /\ late \subseteq Spots
  /\ SpPassOK(pass)

\* The instance's copies of what finite sets are.
LEMMA SpSets == \A S : (Sp!IsFiniteSet(S) <=> IsFiniteSet(S)) /\ Sp!Cardinality(S) = Cardinality(S)
BY DEF Sp!IsFiniteSet, IsFiniteSet, Sp!Cardinality, Cardinality

\* The constants of the spots, one fact at a time.
LEMMA SpPar ==
  /\ SPOT_WINDOW \in Nat /\ SPOT_WINDOW > 0 /\ LEAD \in Nat /\ LEAD > 0 /\ SOON \in Nat
  /\ MAX_ACTIVE_SPOTS \in Nat /\ Until["spots"] \in Nat /\ Requests["spots"] \in Nat
     /\ MaxCrashes \in Nat
  /\ IsFiniteSet(Spots) /\ \A S \in SUBSET Sp!Everyone : S # None /\ IsFiniteSet(S)
  /\ Creator \in Sp!Everyone /\ None \notin Sp!Everyone
<1>1. IsFiniteSet(Sp!Everyone)
  BY SpA, SpSets, FS_AddElement DEF Sp!SpotsAssumption, Sp!Everyone
<1>2. \A S \in SUBSET Sp!Everyone : IsFiniteSet(S)
  BY <1>1, FS_Subset
<1> QED BY SpA, SpSets, <1>2 DEF Sp!SpotsAssumption, Sp!Everyone

\* What the statements make of a row.
LEMMA SpRowChanges ==
  ASSUME NEW row \in SpRow, row.starts < row.ends
  PROVE  /\ Sp!Renewed(row) \in SpRow /\ Sp!Renewed(row).starts < Sp!Renewed(row).ends
         /\ Sp!Renewed(row).ends = row.ends + SPOT_WINDOW /\ ~Sp!Renewed(row).notified
         /\ Sp!Renewed(row).canceled = row.canceled
         /\ [row EXCEPT !.canceled = TRUE] \in SpRow
         /\ [row EXCEPT !.canceled = TRUE].starts < [row EXCEPT !.canceled = TRUE].ends
         /\ [row EXCEPT !.canceled = TRUE].canceled
         /\ [row EXCEPT !.canceled = TRUE].ends = row.ends
         /\ [row EXCEPT !.canceled = TRUE].notified = row.notified
         /\ [row EXCEPT !.notified = TRUE] \in SpRow
         /\ [row EXCEPT !.notified = TRUE].starts < [row EXCEPT !.notified = TRUE].ends
         /\ [row EXCEPT !.notified = TRUE].notified
         /\ [row EXCEPT !.notified = TRUE].ends = row.ends
         /\ [row EXCEPT !.notified = TRUE].canceled = row.canceled
<1> USE SpPar
<1>1. row.starts \in Nat /\ row.ends \in Nat /\ row.ends + SPOT_WINDOW \in Nat
  BY DEF SpRow
<1>2. /\ Sp!Renewed(row) \in SpRow /\ Sp!Renewed(row).starts = row.starts
      /\ Sp!Renewed(row).ends = row.ends + SPOT_WINDOW /\ ~Sp!Renewed(row).notified
      /\ Sp!Renewed(row).canceled = row.canceled
  BY <1>1 DEF SpRow, Sp!Renewed
<1>3. Sp!Renewed(row).starts < Sp!Renewed(row).ends
  BY <1>1, <1>2
<1>4. [row EXCEPT !.canceled = TRUE] \in SpRow /\ [row EXCEPT !.notified = TRUE] \in SpRow
  BY DEF SpRow
<1>5. /\ [row EXCEPT !.canceled = TRUE].starts = row.starts
      /\ [row EXCEPT !.canceled = TRUE].ends = row.ends
      /\ [row EXCEPT !.canceled = TRUE].canceled
      /\ [row EXCEPT !.canceled = TRUE].notified = row.notified
  BY DEF SpRow
<1>6. /\ [row EXCEPT !.notified = TRUE].starts = row.starts
      /\ [row EXCEPT !.notified = TRUE].ends = row.ends
      /\ [row EXCEPT !.notified = TRUE].canceled = row.canceled
      /\ [row EXCEPT !.notified = TRUE].notified
  BY DEF SpRow
<1> QED BY <1>2, <1>3, <1>4, <1>5, <1>6

\* The fields of a spot that is stored.
LEMMA SpStored ==
  ASSUME SpShape, NEW i \in Spots, Sp!Stored(i)
  PROVE  /\ spots[i] \in SpRow /\ spots[i].starts < spots[i].ends
         /\ spots[i].starts \in Nat /\ spots[i].ends \in Nat
         /\ spots[i].canceled \in BOOLEAN /\ spots[i].notified \in BOOLEAN
BY DEF SpShape, SpRowOK, Sp!Stored, SpRow

-----------------------------------------------------------------------------
(* The invariant. *)

SpActive == {i \in Spots : Sp!Active(i)}

\* Only a deleted spot lost its conversation.
SpKept == \A i \in Spots : members[i] = None => spots[i] = None

\* One publication at a time has counted and not inserted, and found room.
SpRoom ==
  /\ \A s, t \in Slots : Sp!Holds(s, "insert") /\ Sp!Holds(t, "insert") => s = t
  /\ late = {} => /\ Cardinality(SpActive) <= MAX_ACTIVE_SPOTS
                  /\ \A s \in Slots : Sp!Holds(s, "insert") => Cardinality(SpActive) < MAX_ACTIVE_SPOTS

\* The clock does not pass the end of a spot that is not marked and reminded of.
SpWindow(i) ==
  Sp!Stored(i) /\ i \notin excused =>
    /\ ~spots[i].canceled => spots[i].ends >= now
    /\ ~spots[i].canceled /\ spots[i].ends <= now => <<i, spots[i].ends>> \in reminded
    /\ spots[i].notified => \/ <<i, spots[i].ends>> \in reminded
                            \/ pass.step = "marked" /\ pass.r = <<i, spots[i].ends>>

\* What the reconciler read is true, or the renewal under it is excused.
SpTodo ==
  pass.step \in {"remind", "marked"} =>
    \A r \in pass.todo : /\ members[r[1]] # None
                         /\ r[1] \notin excused /\ Sp!Stored(r[1]) => r[2] = spots[r[1]].ends

\* A spot whose deletion has counted stays over, and alone unless joined late.
SpCounted ==
  pass.step = "counted" =>
    /\ members[pass.i] # None /\ ~Sp!Active(pass.i)
    /\ pass.alone /\ pass.i \notin late => Cardinality(members[pass.i]) <= 1

SpInv ==
  /\ SpShape /\ SpKept /\ SpRoom /\ SpTodo /\ SpCounted
  /\ \A i \in Spots : SpWindow(i)

-----------------------------------------------------------------------------
(* It begins. *)

\* The invariant of the spots holds at the start.
LEMMA SpInvInit == Sp!Init => SpInv
<1> SUFFICES ASSUME Sp!Init PROVE SpInv
  OBVIOUS
<1>1. SpPassOK(pass) /\ pass.step = "idle"
  BY DEF Sp!Init, Sp!Idle, SpPassOK
<1>2. SpShape
  BY <1>1, SpPar DEF Sp!Init, SpShape, SpRowOK, SpHolding
<1>3. SpActive = {}
  BY DEF Sp!Init, SpActive, Sp!Active, Sp!ActiveAt, Sp!Stored
<1>4. SpRoom
  BY <1>3, SpPar, FS_EmptySet DEF Sp!Init, SpRoom, Sp!Holds
<1> QED BY <1>1, <1>2, <1>4 DEF Sp!Init, SpInv, SpKept, SpTodo, SpCounted, SpWindow, Sp!Stored

-----------------------------------------------------------------------------
(* What stays right. *)

\* The active spots are finitely many.
LEMMA SpFinite == IsFiniteSet(SpActive) /\ Cardinality(SpActive) \in Nat
BY SpPar, FS_Subset, FS_CardinalityType DEF SpActive

\* The cap holds when no spot is added.
LEMMA SpRoomStays ==
  ASSUME SpRoom, late' = {} => late = {} /\ SpActive' \subseteq SpActive,
         \A s \in Slots : Sp!Holds(s, "insert")' => Sp!Holds(s, "insert")
  PROVE  SpRoom'
<1>1. IsFiniteSet(SpActive) /\ Cardinality(SpActive) \in Nat
  BY SpFinite
<1>2. late' = {} => Cardinality(SpActive') <= Cardinality(SpActive)
      /\ Cardinality(SpActive') \in Nat
  <2>1. late' = {} => IsFiniteSet(SpActive') /\ Cardinality(SpActive') <= Cardinality(SpActive)
    BY <1>1, FS_Subset
  <2> QED BY <2>1, FS_CardinalityType
<1> QED BY <1>1, <1>2, SpPar DEF SpRoom

\* The spots, their conversations, the reconciler and the clock as they were.
LEMMA SpStays ==
  ASSUME SpInv, UNCHANGED <<now, crashes, spots, members, pass, reminded, excused, late>>,
         requests' \in 0..Requests["spots"], DOMAIN slot' = Slots, \A s \in Slots : SpHolding(slot'[s]),
         SpRoom'
  PROVE  SpInv'
<1>1. SpShape'
  BY DEF SpInv, SpShape, SpPassOK
<1>2. SpKept' /\ SpTodo' /\ SpCounted' /\ \A i \in Spots : SpWindow(i)'
  BY DEF SpInv, SpKept, SpTodo, SpCounted, SpWindow, Sp!Stored, Sp!Active, Sp!ActiveAt
<1> QED BY <1>1, <1>2 DEF SpInv

\* A request that reads nothing begins.
LEMMA SpBegins ==
  ASSUME SpInv, NEW s \in Slots, NEW h, Sp!Begin(s, h), SpHolding(h), h.op # "insert",
         UNCHANGED <<now, crashes, spots, members, pass, reminded, excused, late>>
  PROVE  SpInv'
<1>1. /\ requests' = requests + 1 /\ requests < Requests["spots"] /\ slot' = [slot EXCEPT ![s] = h]
      /\ DOMAIN slot = Slots
  BY DEF Sp!Begin, Sp!Step, SpInv, SpShape
<1>2. requests' \in 0..Requests["spots"]
  BY <1>1, SpPar DEF SpInv, SpShape
<1>3. DOMAIN slot' = Slots /\ \A t \in Slots : SpHolding(slot'[t])
  BY <1>1 DEF SpInv, SpShape
<1>4. SpActive' = SpActive
  BY DEF SpActive, Sp!Active, Sp!ActiveAt, Sp!Stored
<1>5. \A t \in Slots : Sp!Holds(t, "insert")' => Sp!Holds(t, "insert")
  BY <1>1 DEF Sp!Holds
<1>6. SpRoom'
  BY <1>4, <1>5, SpRoomStays DEF SpInv
<1> QED BY <1>2, <1>3, <1>6, SpStays

-----------------------------------------------------------------------------
(* The handlers. *)

\* A spot begins: the lock and the count come later.
LEMMA SpCreate == ASSUME SpInv, NEW s \in Slots, Sp!createSpot(s) PROVE SpInv'
<1>1. PICK ends \in (now + 1)..(now + SPOT_WINDOW), private \in BOOLEAN :
        Sp!Begin(s, [op |-> "create", row |->
          [starts |-> ends - 1, ends |-> ends, private |-> private,
           canceled |-> FALSE, notified |-> FALSE]])
  BY DEF Sp!createSpot
<1>2. ends \in Nat /\ ends - 1 \in Nat /\ ends - 1 < ends
  BY SpPar DEF SpInv, SpShape
<1> DEFINE row == [starts |-> ends - 1, ends |-> ends, private |-> private,
                   canceled |-> FALSE, notified |-> FALSE]
           h == [op |-> "create", row |-> row]
<1>3. row \in SpRow /\ row.starts < row.ends /\ ~row.notified
  BY <1>2 DEF SpRow
<1>4. SpHolding(h) /\ h.op # "insert"
  BY <1>3 DEF SpHolding
<1>5. UNCHANGED <<now, crashes, spots, members, pass, reminded, excused, late>>
  BY DEF Sp!createSpot, Sp!World
<1> HIDE DEF h
<1> QED BY <1>1, <1>4, <1>5, SpBegins DEF h

\* The active spots are counted.
LEMMA SpCount == ASSUME SpInv, NEW s \in Slots, Sp!countActive(s) PROVE SpInv'
<1>1. /\ Sp!Holds(s, "create") /\ \A t \in Slots : ~Sp!Holds(t, "insert")
      /\ slot' = [slot EXCEPT ![s] =
           IF Cardinality(SpActive) >= MAX_ACTIVE_SPOTS THEN None ELSE [slot[s] EXCEPT !.op = "insert"]]
      /\ UNCHANGED <<now, crashes, spots, members, pass, reminded, excused, late, requests>>
  BY SpSets DEF Sp!countActive, Sp!Unlocked, Sp!Step, SpActive, Sp!World
<1>2. /\ slot[s] \in [op : {"create", "insert"}, row : SpRow]
      /\ slot[s].row.starts < slot[s].row.ends /\ ~slot[s].row.notified
  BY <1>1 DEF SpInv, SpShape, SpHolding, Sp!Holds
<1>3. /\ [slot[s] EXCEPT !.op = "insert"] \in [op : {"create", "insert"}, row : SpRow]
      /\ [slot[s] EXCEPT !.op = "insert"].row = slot[s].row
      /\ [slot[s] EXCEPT !.op = "insert"].op = "insert"
  BY <1>2
<1>4. SpHolding(slot'[s])
  BY <1>1, <1>2, <1>3 DEF SpHolding, SpInv, SpShape
<1>5. DOMAIN slot' = Slots /\ \A t \in Slots : SpHolding(slot'[t])
  BY <1>1, <1>4 DEF SpInv, SpShape
<1>6. SpActive' = SpActive /\ Cardinality(SpActive) \in Nat
  BY <1>1, SpFinite DEF SpActive, Sp!Active, Sp!ActiveAt, Sp!Stored
<1>7. ASSUME NEW t \in Slots, Sp!Holds(t, "insert")'
      PROVE  t = s /\ Cardinality(SpActive) < MAX_ACTIVE_SPOTS
  <2>1. t = s
    BY <1>1, <1>7 DEF Sp!Holds, SpInv, SpShape
  <2>2. ~(Cardinality(SpActive) >= MAX_ACTIVE_SPOTS)
    BY <1>1, <1>7, <2>1 DEF Sp!Holds, SpInv, SpShape
  <2> QED BY <1>6, <2>1, <2>2, SpPar
<1>8. SpRoom'
  BY <1>1, <1>6, <1>7 DEF SpRoom, SpInv
<1>9. requests' \in 0..Requests["spots"]
  BY <1>1 DEF SpInv, SpShape
<1> QED BY <1>1, <1>5, <1>8, <1>9, SpStays

\* The spot is inserted, with its conversation.
LEMMA SpInsert == ASSUME SpInv, NEW s \in Slots, Sp!insertSpot(s) PROVE SpInv'
<1>0. /\ Sp!Holds(s, "insert") /\ slot' = [slot EXCEPT ![s] = None]
      /\ UNCHANGED <<now, crashes, pass, reminded, late, requests>>
  BY DEF Sp!insertSpot, Sp!Step, Sp!World
<1>1. PICK i \in Spots :
        /\ ~Sp!Stored(i) /\ members[i] = None
        /\ spots' = [spots EXCEPT ![i] = slot[s].row]
        /\ members' = [members EXCEPT ![i] = {Creator}]
        /\ excused' = IF slot[s].row.ends > now THEN excused ELSE excused \cup {i}
  BY DEF Sp!insertSpot
<1>2. slot[s].row \in SpRow /\ slot[s].row.starts < slot[s].row.ends /\ ~slot[s].row.notified
  BY <1>0 DEF SpInv, SpShape, SpHolding, Sp!Holds
<1>3. {Creator} \subseteq Sp!Everyone /\ {Creator} # None
  BY SpPar
<1>4. SpShape'
  <2>1. DOMAIN spots' = Spots /\ \A k \in Spots : SpRowOK(spots'[k])
    BY <1>1, <1>2 DEF SpInv, SpShape, SpRowOK
  <2>2. DOMAIN members' = Spots
        /\ \A k \in Spots : members'[k] = None \/ members'[k] \subseteq Sp!Everyone
    BY <1>1, <1>3 DEF SpInv, SpShape
  <2>3. DOMAIN slot' = Slots /\ \A t \in Slots : SpHolding(slot'[t])
    BY <1>0 DEF SpInv, SpShape, SpHolding
  <2>4. excused' \subseteq Spots
    BY <1>1 DEF SpInv, SpShape
  <2> QED BY <1>0, <2>1, <2>2, <2>3, <2>4 DEF SpInv, SpShape, SpPassOK
<1>5. SpKept'
  BY <1>1, <1>3 DEF SpInv, SpShape, SpKept
<1>6. SpRoom'
  <2>1. \A t \in Slots : ~Sp!Holds(t, "insert")'
    BY <1>0 DEF SpInv, SpShape, SpRoom, Sp!Holds
  <2>2. SpActive' \subseteq SpActive \cup {i}
    BY <1>0, <1>1 DEF SpInv, SpShape, SpActive, Sp!Active, Sp!ActiveAt, Sp!Stored
  <2>3. ASSUME late' = {} PROVE Cardinality(SpActive') <= MAX_ACTIVE_SPOTS
    <3>1. Cardinality(SpActive) < MAX_ACTIVE_SPOTS /\ Cardinality(SpActive) \in Nat
      BY <1>0, <2>3, SpFinite DEF SpInv, SpRoom
    <3>2. /\ IsFiniteSet(SpActive \cup {i})
          /\ Cardinality(SpActive \cup {i}) = IF i \in SpActive THEN Cardinality(SpActive)
                                              ELSE Cardinality(SpActive) + 1
      BY SpFinite, FS_AddElement
    <3>3. /\ Cardinality(SpActive') <= Cardinality(SpActive \cup {i})
          /\ Cardinality(SpActive') \in Nat
      BY <2>2, <3>2, FS_Subset, FS_CardinalityType
    <3> QED BY <3>1, <3>2, <3>3, SpPar
  <2> QED BY <2>1, <2>3 DEF SpRoom
<1>7. SpTodo'
  <2> SUFFICES ASSUME pass.step \in {"remind", "marked"}, NEW r \in pass.todo
               PROVE  /\ members'[r[1]] # None
                      /\ r[1] \notin excused' /\ Sp!Stored(r[1])' => r[2] = spots'[r[1]].ends
    BY <1>0 DEF SpTodo
  <2>1. members[r[1]] # None /\ r[1] # i /\ r[1] \in Spots
    BY <1>1 DEF SpInv, SpTodo, SpShape, SpPassOK
  <2>2. members'[r[1]] = members[r[1]] /\ spots'[r[1]] = spots[r[1]] /\ excused \subseteq excused'
    BY <1>1, <2>1 DEF SpInv, SpShape
  <2> QED BY <2>1, <2>2 DEF SpInv, SpTodo, Sp!Stored
<1>8. SpCounted'
  <2> SUFFICES ASSUME pass.step = "counted"
               PROVE  /\ members'[pass.i] # None /\ ~Sp!Active(pass.i)'
                      /\ pass.alone /\ pass.i \notin late => Cardinality(members'[pass.i]) <= 1
    BY <1>0 DEF SpCounted
  <2>1. members[pass.i] # None /\ pass.i # i /\ pass.i \in Spots
    BY <1>1 DEF SpInv, SpCounted, SpShape, SpPassOK
  <2>2. members'[pass.i] = members[pass.i] /\ spots'[pass.i] = spots[pass.i]
    BY <1>1, <2>1 DEF SpInv, SpShape
  <2> QED BY <1>0, <2>1, <2>2 DEF SpInv, SpCounted, Sp!Active, Sp!ActiveAt, Sp!Stored
<1>9. ASSUME NEW k \in Spots PROVE SpWindow(k)'
  <2>1. CASE k = i
    <3>1. spots'[k] = slot[s].row
      BY <1>1, <2>1 DEF SpInv, SpShape
    <3>2. k \notin excused' => slot[s].row.ends > now
      BY <1>1, <2>1
    <3>3. slot[s].row.ends \in Nat /\ now \in Nat
      BY <1>2, SpPar DEF SpRow, SpInv, SpShape
    <3> QED BY <1>0, <1>2, <3>1, <3>2, <3>3 DEF SpWindow
  <2>2. CASE k # i
    <3>1. spots'[k] = spots[k] /\ excused \subseteq excused'
      BY <1>1, <2>2 DEF SpInv, SpShape
    <3> QED BY <1>0, <3>1 DEF SpInv, SpWindow, Sp!Stored
  <2> QED BY <2>1, <2>2
<1> QED BY <1>4, <1>5, <1>6, <1>7, <1>8, <1>9 DEF SpInv

\* A guest begins to join.
LEMMA SpJoin == ASSUME SpInv, NEW s \in Slots, Sp!joinSpot(s) PROVE SpInv'
<1>1. PICK i \in Spots, g \in (Friends \cup Strangers \cup Blocked) : Sp!Begin(s, [op |-> "join", i |-> i, u |-> g])
  BY DEF Sp!joinSpot
<1>2. SpHolding([op |-> "join", i |-> i, u |-> g])
  BY DEF SpHolding, Sp!Everyone
<1> QED BY <1>1, <1>2, SpBegins DEF Sp!joinSpot, Sp!World

\* A cancellation begins.
LEMMA SpCancelBegins == ASSUME SpInv, NEW s \in Slots, Sp!cancelSpot(s) PROVE SpInv'
<1>1. PICK i \in Spots : Sp!Begin(s, [op |-> "cancel", i |-> i])
  BY DEF Sp!cancelSpot
<1>2. SpHolding([op |-> "cancel", i |-> i])
  BY DEF SpHolding
<1> QED BY <1>1, <1>2, SpBegins DEF Sp!cancelSpot, Sp!World

\* A renewal begins.
LEMMA SpRenewBegins == ASSUME SpInv, NEW s \in Slots, Sp!renewSpot(s) PROVE SpInv'
<1>1. PICK i \in Spots : Sp!Begin(s, [op |-> "renew", i |-> i])
  BY DEF Sp!renewSpot
<1>2. SpHolding([op |-> "renew", i |-> i])
  BY DEF SpHolding
<1> QED BY <1>1, <1>2, SpBegins DEF Sp!renewSpot, Sp!World

\* The people of one conversation change, the spots do not; who joins late says so.
LEMMA SpTalks ==
  ASSUME SpInv, UNCHANGED <<now, crashes, spots, pass, reminded, excused>>,
         NEW i \in Spots, DOMAIN members' = Spots,
         \A k \in Spots : \/ members'[k] = members[k]
                          \/ /\ k = i /\ members[i] # None /\ members'[i] \subseteq Sp!Everyone
                             /\ Sp!Active(i) \/ members'[i] \subseteq members[i] \/ i \in late',
         requests' \in 0..Requests["spots"], late \subseteq late', late' \subseteq Spots,
         DOMAIN slot' = Slots, \A t \in Slots : SpHolding(slot'[t]),
         \A t \in Slots : Sp!Holds(t, "insert")' => Sp!Holds(t, "insert")
  PROVE  SpInv'
<1>1. \A k \in Spots : members[k] # None => members'[k] # None /\ members'[k] \subseteq Sp!Everyone
  BY SpPar DEF SpInv, SpShape
<1>2. SpShape'
  BY <1>1 DEF SpInv, SpShape, SpPassOK
<1>3. SpKept'
  BY <1>1 DEF SpInv, SpKept
<1>4. SpActive' = SpActive
  BY DEF SpActive, Sp!Active, Sp!ActiveAt, Sp!Stored
<1>5. SpRoom'
  BY <1>4, SpRoomStays DEF SpInv
<1>6. SpTodo'
  <2> SUFFICES ASSUME pass.step \in {"remind", "marked"}, NEW r \in pass.todo
               PROVE  /\ members'[r[1]] # None
                      /\ r[1] \notin excused /\ Sp!Stored(r[1]) => r[2] = spots[r[1]].ends
    BY DEF SpTodo, Sp!Stored
  <2>1. r[1] \in Spots
    BY DEF SpInv, SpShape, SpPassOK
  <2> QED BY <1>1, <2>1 DEF SpInv, SpTodo
<1>7. SpCounted'
  <2> SUFFICES ASSUME pass.step = "counted"
               PROVE  /\ members'[pass.i] # None /\ ~Sp!Active(pass.i)
                      /\ pass.alone /\ pass.i \notin late' => Cardinality(members'[pass.i]) <= 1
    BY DEF SpCounted, Sp!Active, Sp!ActiveAt, Sp!Stored
  <2>1. pass.i \in Spots
    BY DEF SpInv, SpShape, SpPassOK
  <2>2. members[pass.i] # None /\ ~Sp!Active(pass.i)
    BY DEF SpInv, SpCounted
  <2>3. ASSUME pass.alone, pass.i \notin late' PROVE Cardinality(members'[pass.i]) <= 1
    <3>1. Cardinality(members[pass.i]) <= 1
      BY <2>3 DEF SpInv, SpCounted
    <3>2. members'[pass.i] = members[pass.i] \/ members'[pass.i] \subseteq members[pass.i]
      BY <2>1, <2>2, <2>3
    <3>3. members[pass.i] \subseteq Sp!Everyone /\ IsFiniteSet(members[pass.i])
      BY <2>1, <2>2, SpPar DEF SpInv, SpShape
    <3>4. /\ Cardinality(members'[pass.i]) <= Cardinality(members[pass.i])
          /\ Cardinality(members'[pass.i]) \in Nat /\ Cardinality(members[pass.i]) \in Nat
      BY <3>2, <3>3, FS_Subset, FS_CardinalityType
    <3> QED BY <3>1, <3>4
  <2> QED BY <1>1, <2>1, <2>2, <2>3
<1>8. \A k \in Spots : SpWindow(k)'
  BY DEF SpInv, SpWindow, Sp!Stored
<1> QED BY <1>2, <1>3, <1>5, <1>6, <1>7, <1>8 DEF SpInv

\* The guest participates.
LEMMA SpReactivate == ASSUME SpInv, NEW s \in Slots, Sp!reactivateParticipant(s) PROVE SpInv'
<1>0. /\ Sp!Holds(s, "join") /\ slot' = [slot EXCEPT ![s] = None]
      /\ UNCHANGED <<now, crashes, spots, pass, reminded, excused, requests>>
  BY DEF Sp!reactivateParticipant, Sp!Step, Sp!World
<1>1. slot[s].i \in Spots /\ slot[s].u \in Sp!Everyone
  BY <1>0 DEF SpInv, SpShape, SpHolding, Sp!Holds
<1>2. /\ members' = IF members[slot[s].i] = None THEN members
                    ELSE [members EXCEPT ![slot[s].i] = @ \cup {slot[s].u}]
      /\ late' = IF Sp!Active(slot[s].i) THEN late ELSE late \cup {slot[s].i}
  BY DEF Sp!reactivateParticipant
<1>3. PICK i \in Spots : i = slot[s].i
  BY <1>1
<1>4. DOMAIN members' = Spots
  BY <1>2 DEF SpInv, SpShape
<1>5. ASSUME NEW k \in Spots
      PROVE  \/ members'[k] = members[k]
             \/ /\ k = i /\ members[i] # None /\ members'[i] \subseteq Sp!Everyone
                /\ Sp!Active(i) \/ members'[i] \subseteq members[i] \/ i \in late'
  <2>1. CASE k = i /\ members[i] # None
    <3>1. members'[i] = members[i] \cup {slot[s].u} /\ members[i] \subseteq Sp!Everyone
      BY <1>2, <1>3, <2>1 DEF SpInv, SpShape
    <3> QED BY <1>1, <1>2, <1>3, <2>1, <3>1
  <2>2. CASE ~(k = i /\ members[i] # None)
    BY <1>2, <1>3, <2>2 DEF SpInv, SpShape
  <2> QED BY <2>1, <2>2
<1>6. DOMAIN slot' = Slots /\ \A t \in Slots : SpHolding(slot'[t])
  BY <1>0 DEF SpInv, SpShape, SpHolding
<1>7. \A t \in Slots : Sp!Holds(t, "insert")' => Sp!Holds(t, "insert")
  BY <1>0 DEF Sp!Holds, SpInv, SpShape
<1>8. late \subseteq late' /\ late' \subseteq Spots /\ requests' \in 0..Requests["spots"]
  BY <1>0, <1>1, <1>2 DEF SpInv, SpShape
<1> QED BY <1>0, <1>4, <1>5, <1>6, <1>7, <1>8, SpTalks

\* A participant leaves.
LEMMA SpLeave == ASSUME SpInv, NEW u \in Sp!Everyone, NEW i \in Spots, Sp!leave(u, i) PROVE SpInv'
<1>0. /\ members[i] # None /\ requests < Requests["spots"] /\ requests' = requests + 1
      /\ members' = [members EXCEPT ![i] = @ \ {u}]
      /\ UNCHANGED <<now, crashes, spots, slot, pass, reminded, excused, late>>
  BY DEF Sp!leave, Sp!World
<1>1. ASSUME NEW k \in Spots
      PROVE  \/ members'[k] = members[k]
             \/ /\ k = i /\ members[i] # None /\ members'[i] \subseteq Sp!Everyone
                /\ Sp!Active(i) \/ members'[i] \subseteq members[i] \/ i \in late'
  BY <1>0 DEF SpInv, SpShape
<1>2. DOMAIN members' = Spots
  BY <1>0 DEF SpInv, SpShape
<1>3. requests' \in 0..Requests["spots"]
  BY <1>0, SpPar DEF SpInv, SpShape
<1>4. DOMAIN slot' = Slots /\ \A t \in Slots : SpHolding(slot'[t])
  BY <1>0 DEF SpInv, SpShape
<1>5. \A t \in Slots : Sp!Holds(t, "insert")' => Sp!Holds(t, "insert")
  BY <1>0 DEF Sp!Holds
<1>6. late \subseteq late' /\ late' \subseteq Spots
  BY <1>0 DEF SpInv, SpShape
<1> QED BY <1>0, <1>1, <1>2, <1>3, <1>4, <1>5, <1>6, SpTalks

\* The spot is canceled.
LEMMA SpCancel == ASSUME SpInv, NEW s \in Slots, Sp!cancelSpotById(s) PROVE SpInv'
<1>0. /\ Sp!Holds(s, "cancel") /\ ~Sp!Locked(slot[s].i) /\ slot' = [slot EXCEPT ![s] = None]
      /\ spots' = IF Sp!Stored(slot[s].i) THEN [spots EXCEPT ![slot[s].i].canceled = TRUE] ELSE spots
      /\ UNCHANGED <<now, crashes, members, pass, reminded, excused, late, requests>>
  BY DEF Sp!cancelSpotById, Sp!Step, Sp!World
<1>1. PICK i \in Spots : i = slot[s].i
  BY <1>0 DEF SpInv, SpShape, SpHolding, Sp!Holds
<1>2. DOMAIN slot' = Slots /\ \A t \in Slots : SpHolding(slot'[t])
  BY <1>0 DEF SpInv, SpShape, SpHolding
<1>3. \A t \in Slots : Sp!Holds(t, "insert")' => Sp!Holds(t, "insert")
  BY <1>0 DEF Sp!Holds, SpInv, SpShape
<1>4. CASE ~Sp!Stored(i)
  <2>1. spots' = spots
    BY <1>0, <1>1, <1>4
  <2>2. SpActive' = SpActive
    BY <1>0, <2>1 DEF SpActive, Sp!Active, Sp!ActiveAt, Sp!Stored
  <2>3. SpRoom'
    BY <1>0, <1>3, <2>2, SpRoomStays DEF SpInv
  <2> QED BY <1>0, <1>2, <2>1, <2>3, SpStays DEF SpInv, SpShape
<1>5. CASE Sp!Stored(i)
  <2>1. /\ spots' = [spots EXCEPT ![i] = [spots[i] EXCEPT !.canceled = TRUE]]
        /\ spots[i] \in SpRow /\ spots[i].starts < spots[i].ends
    BY <1>0, <1>1, <1>5, SpStored DEF SpInv
  <2>2. /\ spots'[i] \in SpRow /\ spots'[i].starts < spots'[i].ends /\ spots'[i].canceled
        /\ spots'[i].ends = spots[i].ends /\ spots'[i].notified = spots[i].notified
        /\ \A k \in Spots \ {i} : spots'[k] = spots[k]
        /\ DOMAIN spots' = Spots
    BY <2>1, SpRowChanges DEF SpInv, SpShape
  <2>3. SpShape'
    BY <1>0, <1>2, <2>2 DEF SpInv, SpShape, SpRowOK, SpPassOK
  <2>4. SpKept'
    <3>1. members[i] # None
      BY <1>5 DEF SpInv, SpKept, Sp!Stored
    <3> QED BY <1>0, <2>2, <3>1 DEF SpInv, SpKept
  <2>5. SpActive' \subseteq SpActive
    BY <1>0, <2>2 DEF SpActive, Sp!Active, Sp!ActiveAt, Sp!Stored
  <2>6. SpRoom'
    BY <1>0, <1>3, <2>5, SpRoomStays DEF SpInv
  <2>7. SpTodo'
    <3> SUFFICES ASSUME pass.step \in {"remind", "marked"}, NEW r \in pass.todo
                 PROVE  /\ members[r[1]] # None
                        /\ r[1] \notin excused /\ Sp!Stored(r[1])' => r[2] = spots'[r[1]].ends
      BY <1>0 DEF SpTodo
    <3>1. r[1] \in Spots
      BY DEF SpInv, SpShape, SpPassOK
    <3>2. spots'[r[1]].ends = spots[r[1]].ends /\ (Sp!Stored(r[1])' => Sp!Stored(r[1]))
      BY <1>5, <2>2, <3>1 DEF Sp!Stored
    <3> QED BY <3>2 DEF SpInv, SpTodo
  <2>8. SpCounted'
    <3> SUFFICES ASSUME pass.step = "counted"
                 PROVE  /\ members[pass.i] # None /\ ~Sp!Active(pass.i)'
                        /\ pass.alone /\ pass.i \notin late => Cardinality(members[pass.i]) <= 1
      BY <1>0 DEF SpCounted
    <3>1. pass.i \in Spots /\ pass.i # i
      BY <1>0, <1>1 DEF SpInv, SpShape, SpPassOK, Sp!Locked
    <3>2. spots'[pass.i] = spots[pass.i]
      BY <2>2, <3>1
    <3> QED BY <1>0, <3>2 DEF SpInv, SpCounted, Sp!Active, Sp!ActiveAt, Sp!Stored
  <2>9. ASSUME NEW k \in Spots PROVE SpWindow(k)'
    BY <1>0, <1>5, <2>2 DEF SpInv, SpWindow, Sp!Stored
  <2> QED BY <2>3, <2>4, <2>6, <2>7, <2>8, <2>9 DEF SpInv
<1> QED BY <1>4, <1>5

\* The spot is renewed: a new window, to be announced.
LEMMA SpRenew == ASSUME SpInv, NEW s \in Slots, Sp!renewSpotById(s) PROVE SpInv'
<1>0. /\ Sp!Holds(s, "renew") /\ ~Sp!Locked(slot[s].i) /\ slot' = [slot EXCEPT ![s] = None]
      /\ UNCHANGED <<now, crashes, members, pass, reminded, requests>>
  BY DEF Sp!renewSpotById, Sp!Step, Sp!World
<1>1. PICK i \in Spots : i = slot[s].i
  BY <1>0 DEF SpInv, SpShape, SpHolding, Sp!Holds
<1>2. /\ spots' = IF Sp!Stored(i) THEN [spots EXCEPT ![i] = Sp!Renewed(@)] ELSE spots
      /\ late' = IF Sp!Active(i) THEN late ELSE late \cup {i}
      /\ excused' = IF pass.step \in {"remind", "marked"} /\ \E r \in pass.todo : r[1] = i
                    THEN excused \cup {i} ELSE excused
  BY <1>1 DEF Sp!renewSpotById
<1>3. DOMAIN slot' = Slots /\ \A t \in Slots : SpHolding(slot'[t])
  BY <1>0 DEF SpInv, SpShape, SpHolding
<1>4. \A t \in Slots : Sp!Holds(t, "insert")' => Sp!Holds(t, "insert")
  BY <1>0 DEF Sp!Holds, SpInv, SpShape
<1>5. /\ late \subseteq late' /\ late' \subseteq Spots /\ excused \subseteq excused'
         /\ excused' \subseteq Spots
  BY <1>1, <1>2 DEF SpInv, SpShape
<1>6. /\ DOMAIN spots' = Spots /\ \A k \in Spots \ {i} : spots'[k] = spots[k]
      /\ ~Sp!Stored(i) => spots'[i] = spots[i]
  BY <1>2 DEF SpInv, SpShape
<1>7. ASSUME Sp!Stored(i)
      PROVE  /\ spots'[i] \in SpRow /\ spots'[i].starts < spots'[i].ends
             /\ spots'[i].ends = spots[i].ends + SPOT_WINDOW /\ ~spots'[i].notified
             /\ spots'[i].canceled = spots[i].canceled
             /\ spots[i].ends \in Nat
  <2>1. spots'[i] = Sp!Renewed(spots[i]) /\ spots[i] \in SpRow /\ spots[i].starts < spots[i].ends
    BY <1>2, <1>7, SpStored DEF SpInv, SpShape
  <2>2. spots[i].ends \in Nat
    BY <2>1 DEF SpRow
  <2>3. /\ Sp!Renewed(spots[i]) \in SpRow /\ Sp!Renewed(spots[i]).starts < Sp!Renewed(spots[i]).ends
        /\ Sp!Renewed(spots[i]).ends = spots[i].ends + SPOT_WINDOW /\ ~Sp!Renewed(spots[i]).notified
        /\ Sp!Renewed(spots[i]).canceled = spots[i].canceled
    BY <2>1, SpRowChanges
  <2> QED BY <2>1, <2>2, <2>3
<1>8. SpShape'
  <2>1. \A k \in Spots : SpRowOK(spots'[k])
    BY <1>6, <1>7 DEF SpInv, SpShape, SpRowOK
  <2> QED BY <1>0, <1>3, <1>5, <1>6, <2>1 DEF SpInv, SpShape, SpPassOK
<1>9. SpKept'
  BY <1>0, <1>6 DEF SpInv, SpKept, Sp!Stored
<1>10. SpRoom'
  <2>1. ASSUME late' = {} PROVE late = {} /\ SpActive' \subseteq SpActive
    <3>1. Sp!Active(i)
      BY <1>2, <2>1
    <3> QED BY <1>0, <1>5, <1>6, <2>1, <3>1 DEF SpActive, Sp!Active, Sp!ActiveAt, Sp!Stored
  <2> QED BY <1>4, <2>1, SpRoomStays DEF SpInv
<1>11. SpTodo'
  <2> SUFFICES ASSUME pass.step \in {"remind", "marked"}, NEW r \in pass.todo
               PROVE  /\ members[r[1]] # None
                      /\ r[1] \notin excused' /\ Sp!Stored(r[1])' => r[2] = spots'[r[1]].ends
    BY <1>0 DEF SpTodo
  <2>1. r[1] \in Spots /\ members[r[1]] # None
    BY DEF SpInv, SpShape, SpPassOK, SpTodo
  <2>2. r[1] \notin excused' => r[1] # i
    BY <1>2
  <2> QED BY <1>5, <1>6, <2>1, <2>2 DEF SpInv, SpTodo, Sp!Stored
<1>12. SpCounted'
  <2> SUFFICES ASSUME pass.step = "counted"
               PROVE  /\ members[pass.i] # None /\ ~Sp!Active(pass.i)'
                      /\ pass.alone /\ pass.i \notin late' => Cardinality(members[pass.i]) <= 1
    BY <1>0 DEF SpCounted
  <2>1. pass.i \in Spots /\ pass.i # i
    BY <1>0, <1>1 DEF SpInv, SpShape, SpPassOK, Sp!Locked
  <2>2. spots'[pass.i] = spots[pass.i]
    BY <1>6, <2>1
  <2> QED BY <1>0, <1>5, <2>2 DEF SpInv, SpCounted, Sp!Active, Sp!ActiveAt, Sp!Stored
<1>13. ASSUME NEW k \in Spots PROVE SpWindow(k)'
  <2>1. CASE k # i \/ ~Sp!Stored(i)
    <3>1. spots'[k] = spots[k]
      BY <1>6, <2>1
    <3> QED BY <1>0, <1>5, <3>1 DEF SpInv, SpWindow, Sp!Stored
  <2>2. CASE k = i /\ Sp!Stored(i)
    <3>1. i \notin excused' /\ ~spots'[i].canceled => spots[i].ends >= now
      BY <1>5, <1>7, <2>2 DEF SpInv, SpWindow
    <3>2. now \in Nat /\ spots[i].ends \in Nat /\ spots'[i].ends = spots[i].ends + SPOT_WINDOW
      BY <1>7, <2>2, SpPar DEF SpInv, SpShape
    <3>3. i \notin excused' /\ ~spots'[i].canceled => spots'[i].ends > now
      BY <3>1, <3>2, SpPar
    <3>4. ~spots'[i].notified /\ spots'[i].ends \in Nat
      BY <1>7, <2>2, <3>2, SpPar
    <3> QED BY <1>0, <2>2, <3>2, <3>3, <3>4 DEF SpWindow
  <2> QED BY <2>1, <2>2
<1> QED BY <1>8, <1>9, <1>10, <1>11, <1>12, <1>13 DEF SpInv

-----------------------------------------------------------------------------
(* The reconciler, the process and the clock. *)

\* The reconciler moves on; nothing is written but what it was told to remind of.
LEMMA SpPasses ==
  ASSUME SpInv, UNCHANGED <<now, crashes, spots, members, slot, excused, late, requests>>,
         reminded \subseteq reminded', reminded' \subseteq Spots \X Nat,
         SpPassOK(pass'), pass.step = "marked" => pass.r \in reminded',
         pass'.step # "marked", SpTodo', SpCounted'
  PROVE  SpInv'
<1>1. SpShape'
  BY DEF SpInv, SpShape, SpPassOK
<1>2. SpActive' = SpActive
  BY DEF SpActive, Sp!Active, Sp!ActiveAt, Sp!Stored
<1>3. SpRoom'
  BY <1>2, SpRoomStays DEF SpInv, Sp!Holds
<1>4. ASSUME NEW i \in Spots PROVE SpWindow(i)'
  BY DEF SpInv, SpWindow, Sp!Stored
<1> QED BY <1>1, <1>3, <1>4 DEF SpInv, SpKept

\* The pass reads the windows to announce.
LEMMA SpFindReminders == ASSUME SpInv, Sp!findReminders PROVE SpInv'
<1> DEFINE todo == {<<i, spots[i].ends>> : i \in Sp!NeedsReminder}
<1>0. /\ pass.step = "idle" /\ pass' = [step |-> "remind", at |-> now, todo |-> todo]
      /\ UNCHANGED <<now, crashes, spots, members, slot, reminded, excused, late, requests>>
  BY DEF Sp!findReminders, Sp!World
<1>1. \A r \in todo : /\ r[1] \in Spots /\ r[2] = spots[r[1]].ends /\ r[2] \in Nat
                      /\ r \in Spots \X Nat /\ members[r[1]] # None
  <2> SUFFICES ASSUME NEW i \in Sp!NeedsReminder
               PROVE  i \in Spots /\ spots[i].ends \in Nat /\ members[i] # None
    OBVIOUS
  <2>1. i \in Spots /\ Sp!Stored(i)
    BY DEF Sp!NeedsReminder, Sp!Active, Sp!ActiveAt
  <2> QED BY <2>1, SpStored DEF SpInv, SpKept, Sp!Stored
<1>2. now \in Nat /\ todo \in SUBSET (Spots \X Nat)
  BY <1>1, SpPar DEF SpInv, SpShape
<1> HIDE DEF todo
<1>3. pass'.step = "remind" /\ pass'.todo = todo /\ SpPassOK(pass')
  BY <1>0, <1>2 DEF SpPassOK
<1>4. SpPassOK(pass)'
  BY <1>0, <1>2 DEF SpPassOK
<1>5. SpTodo' /\ SpCounted'
  BY <1>0, <1>1, <1>3 DEF SpTodo, SpCounted
<1>6. reminded' \subseteq Spots \X Nat
  BY <1>0 DEF SpInv, SpShape
<1> QED BY <1>0, <1>3, <1>4, <1>5, <1>6, SpPasses

\* The flag of a window is set, if it is still clear.
LEMMA SpMark == ASSUME SpInv, Sp!markNotified PROVE SpInv'
<1>0. /\ pass.step = "remind"
      /\ UNCHANGED <<now, crashes, members, slot, reminded, excused, late, requests>>
  BY DEF Sp!markNotified, Sp!World
<1>1. PICK r \in pass.todo :
        LET i == r[1]
            won == Sp!Stored(i) /\ ~spots[i].notified IN
        /\ spots' = IF won THEN [spots EXCEPT ![i].notified = TRUE] ELSE spots
        /\ pass' = IF won THEN [step |-> "marked", at |-> pass.at, r |-> r, todo |-> pass.todo]
                   ELSE [pass EXCEPT !.todo = @ \ {r}]
  BY DEF Sp!markNotified
<1>2. /\ pass \in [step : {"remind"}, at : Nat, todo : SUBSET (Spots \X Nat)] /\ pass.at = now
      /\ r \in Spots \X Nat /\ r[1] \in Spots /\ r = <<r[1], r[2]>>
  BY <1>0 DEF SpInv, SpShape, SpPassOK
<1>3. PICK i \in Spots : i = r[1]
  BY <1>2
<1>4. CASE ~(Sp!Stored(i) /\ ~spots[i].notified)
  <2>1. spots' = spots /\ pass' = [pass EXCEPT !.todo = @ \ {r}]
    BY <1>1, <1>3, <1>4
  <2>2. /\ pass' \in [step : {"remind"}, at : Nat, todo : SUBSET (Spots \X Nat)]
        /\ pass'.at = now /\ pass'.step = "remind" /\ pass'.todo = pass.todo \ {r}
    BY <1>2, <2>1
  <2>3. SpPassOK(pass')
    BY <2>2 DEF SpPassOK
  <2>4. SpTodo' /\ SpCounted'
    BY <1>0, <2>1, <2>2 DEF SpInv, SpTodo, SpCounted, Sp!Stored
  <2>5. reminded' \subseteq Spots \X Nat
    BY <1>0 DEF SpInv, SpShape
  <2> QED BY <1>0, <2>1, <2>2, <2>3, <2>4, <2>5, SpPasses
<1>5. CASE Sp!Stored(i) /\ ~spots[i].notified
  <2>1. /\ spots' = [spots EXCEPT ![i] = [spots[i] EXCEPT !.notified = TRUE]]
        /\ pass' = [step |-> "marked", at |-> pass.at, r |-> r, todo |-> pass.todo]
        /\ spots[i] \in SpRow /\ spots[i].starts < spots[i].ends
    BY <1>1, <1>3, <1>5, SpStored DEF SpInv
  <2>2. /\ spots'[i] \in SpRow /\ spots'[i].starts < spots'[i].ends /\ spots'[i].notified
        /\ spots'[i].ends = spots[i].ends /\ spots'[i].canceled = spots[i].canceled
        /\ \A k \in Spots \ {i} : spots'[k] = spots[k]
        /\ DOMAIN spots' = Spots
    BY <2>1, SpRowChanges DEF SpInv, SpShape
  <2>3. /\ pass'.step = "marked" /\ pass'.at = now /\ pass'.r = r /\ pass'.todo = pass.todo
        /\ pass' \in [step : {"marked"}, at : Nat, r : Spots \X Nat, todo : SUBSET (Spots \X Nat)]
    BY <1>2, <2>1
  <2>4. SpPassOK(pass)'
    BY <1>0, <2>3 DEF SpPassOK
  <2>5. SpShape'
    <3>1. \A k \in Spots : SpRowOK(spots'[k])
      BY <2>2 DEF SpInv, SpShape, SpRowOK
    <3> QED BY <1>0, <2>2, <2>4, <3>1 DEF SpInv, SpShape
  <2>6. SpKept'
    <3>1. members[i] # None
      BY <1>5 DEF SpInv, SpKept, Sp!Stored
    <3> QED BY <1>0, <2>2, <3>1 DEF SpInv, SpKept
  <2>7. SpRoom'
    <3>1. SpActive' \subseteq SpActive
      BY <1>0, <1>5, <2>2 DEF SpActive, Sp!Active, Sp!ActiveAt, Sp!Stored
    <3>2. \A s \in Slots : Sp!Holds(s, "insert")' => Sp!Holds(s, "insert")
      BY <1>0 DEF Sp!Holds
    <3> QED BY <1>0, <3>1, <3>2, SpRoomStays DEF SpInv
  <2>8. SpTodo'
    <3> SUFFICES ASSUME NEW q \in pass.todo
                 PROVE  /\ members[q[1]] # None
                        /\ q[1] \notin excused /\ Sp!Stored(q[1])' => q[2] = spots'[q[1]].ends
      BY <1>0, <2>3 DEF SpTodo
    <3>1. q[1] \in Spots
      BY <1>2
    <3>2. spots'[q[1]].ends = spots[q[1]].ends /\ (Sp!Stored(q[1])' => Sp!Stored(q[1]))
      BY <1>5, <2>2, <3>1 DEF Sp!Stored
    <3> QED BY <1>0, <3>2 DEF SpInv, SpTodo
  <2>9. SpCounted'
    BY <2>3 DEF SpCounted
  <2>10. ASSUME NEW k \in Spots PROVE SpWindow(k)'
    <3>1. CASE k # i
      <4>1. spots'[k] = spots[k]
        BY <2>2, <3>1
      <4> QED BY <1>0, <4>1 DEF SpInv, SpWindow, Sp!Stored
    <3>2. CASE k = i
      <4>1. i \notin excused => r = <<i, spots[i].ends>>
        BY <1>0, <1>2, <1>3, <1>5 DEF SpInv, SpTodo
      <4>2. i \notin excused /\ ~spots[i].canceled => spots[i].ends >= now
        BY <1>5 DEF SpInv, SpWindow
      <4>3. i \notin excused /\ ~spots[i].canceled /\ spots[i].ends <= now
              => <<i, spots[i].ends>> \in reminded
        BY <1>5 DEF SpInv, SpWindow
      <4> QED BY <1>0, <2>2, <2>3, <3>2, <4>1, <4>2, <4>3 DEF SpWindow
    <3> QED BY <3>1, <3>2
  <2> QED BY <2>5, <2>6, <2>7, <2>8, <2>9, <2>10 DEF SpInv
<1> QED BY <1>4, <1>5

\* The reminder is enqueued.
LEMMA SpCreateReminder == ASSUME SpInv, Sp!createReminder PROVE SpInv'
<1>0. /\ pass.step = "marked" /\ reminded' = reminded \cup {pass.r}
      /\ pass' = [step |-> "remind", at |-> pass.at, todo |-> pass.todo \ {pass.r}]
      /\ UNCHANGED <<now, crashes, spots, members, slot, excused, late, requests>>
  BY DEF Sp!createReminder, Sp!World
<1>1. /\ pass \in [step : {"marked"}, at : Nat, r : Spots \X Nat, todo : SUBSET (Spots \X Nat)]
      /\ pass.at = now
  BY <1>0 DEF SpInv, SpShape, SpPassOK
<1>2. /\ pass'.step = "remind" /\ pass'.todo = pass.todo \ {pass.r} /\ pass'.at = now
      /\ pass' \in [step : {"remind"}, at : Nat, todo : SUBSET (Spots \X Nat)]
  BY <1>0, <1>1
<1>3. SpPassOK(pass')
  BY <1>2 DEF SpPassOK
<1>4. SpTodo' /\ SpCounted'
  BY <1>0, <1>2 DEF SpInv, SpTodo, SpCounted, Sp!Stored
<1>5. reminded' \subseteq Spots \X Nat
  BY <1>0, <1>1 DEF SpInv, SpShape
<1> QED BY <1>0, <1>2, <1>3, <1>4, <1>5, SpPasses

\* The pass reads the spots that ended.
LEMMA SpFindCleanable == ASSUME SpInv, Sp!findCleanable PROVE SpInv'
<1> DEFINE todo == {i \in Spots : Sp!Cleanable(i, pass.at)}
<1>0. /\ pass.step = "remind" /\ pass' = [step |-> "clean", at |-> pass.at, todo |-> todo]
      /\ UNCHANGED <<now, crashes, spots, members, slot, reminded, excused, late, requests>>
  BY DEF Sp!findCleanable, Sp!World
<1>1. pass.at = now /\ pass.at \in Nat /\ todo \in SUBSET Spots
  BY <1>0 DEF SpInv, SpShape, SpPassOK
<1> HIDE DEF todo
<1>2. SpPassOK(pass') /\ pass'.step = "clean"
  BY <1>0, <1>1 DEF SpPassOK
<1>3. SpTodo' /\ SpCounted'
  BY <1>2 DEF SpTodo, SpCounted
<1>4. reminded' \subseteq Spots \X Nat
  BY <1>0 DEF SpInv, SpShape
<1> QED BY <1>0, <1>2, <1>3, <1>4, SpPasses

\* The participants of one are counted.
LEMMA SpCountMembers == ASSUME SpInv, Sp!countMembers PROVE SpInv'
<1>0. /\ pass.step = "clean"
      /\ UNCHANGED <<now, crashes, spots, members, slot, reminded, excused, late, requests>>
  BY DEF Sp!countMembers, Sp!World
<1>1. PICK i \in pass.todo :
        pass' = IF Sp!Cleanable(i, pass.at)
                THEN [step |-> "counted", at |-> pass.at, i |-> i,
                      alone |-> Sp!Alone(i), todo |-> pass.todo]
                ELSE [pass EXCEPT !.todo = @ \ {i}]
  BY DEF Sp!countMembers
<1>2. /\ pass \in [step : {"clean"}, at : Nat, todo : SUBSET Spots] /\ pass.at = now
      /\ i \in Spots
  BY <1>0 DEF SpInv, SpShape, SpPassOK
<1>3. reminded' \subseteq Spots \X Nat
  BY <1>0 DEF SpInv, SpShape
<1>4. CASE Sp!Cleanable(i, pass.at)
  <2>1. /\ pass' = [step |-> "counted", at |-> pass.at, i |-> i, alone |-> Sp!Alone(i),
                    todo |-> pass.todo]
        /\ Sp!Alone(i) \in BOOLEAN
    BY <1>1, <1>4 DEF Sp!Alone
  <2>2. /\ pass'.step = "counted" /\ pass'.i = i /\ pass'.alone = Sp!Alone(i) /\ pass'.at = now
        /\ pass' \in [step : {"counted"}, at : Nat, i : Spots, alone : BOOLEAN, todo : SUBSET Spots]
    BY <1>2, <2>1
  <2>3. SpPassOK(pass')
    BY <2>2 DEF SpPassOK
  <2>4. SpTodo'
    BY <2>2 DEF SpTodo
  <2>5. members[i] # None /\ ~Sp!Active(i)
    <3>1. Sp!Stored(i) /\ (spots[i].canceled \/ spots[i].ends <= now)
      BY <1>2, <1>4 DEF Sp!Cleanable
    <3>2. spots[i].ends \in Nat /\ now \in Nat
      BY <1>2, <3>1, SpStored, SpPar DEF SpInv, SpShape
    <3> QED BY <1>2, <3>1, <3>2 DEF SpInv, SpKept, Sp!Active, Sp!ActiveAt, Sp!Stored
  <2>6. SpCounted'
    BY <1>0, <2>2, <2>5, SpSets DEF SpCounted, Sp!Alone, Sp!Active, Sp!ActiveAt, Sp!Stored
  <2> QED BY <1>0, <1>3, <2>2, <2>3, <2>4, <2>6, SpPasses
<1>5. CASE ~Sp!Cleanable(i, pass.at)
  <2>1. /\ pass' \in [step : {"clean"}, at : Nat, todo : SUBSET Spots]
        /\ pass'.at = now /\ pass'.step = "clean"
    BY <1>1, <1>2, <1>5
  <2>2. SpPassOK(pass') /\ SpTodo' /\ SpCounted'
    BY <2>1 DEF SpPassOK, SpTodo, SpCounted
  <2> QED BY <1>0, <1>3, <2>1, <2>2, SpPasses
<1> QED BY <1>4, <1>5

\* The spot goes, with its conversation or without.
LEMMA SpDelete == ASSUME SpInv, Sp!deleteSpot PROVE SpInv'
<1>0. /\ pass.step = "counted" /\ spots' = [spots EXCEPT ![pass.i] = None]
      /\ members' = IF pass.alone THEN [members EXCEPT ![pass.i] = None] ELSE members
      /\ pass' = [step |-> "clean", at |-> pass.at, todo |-> pass.todo \ {pass.i}]
      /\ UNCHANGED <<now, crashes, slot, reminded, excused, late, requests>>
  BY DEF Sp!deleteSpot, Sp!World
<1>1. /\ pass \in [step : {"counted"}, at : Nat, i : Spots, alone : BOOLEAN, todo : SUBSET Spots]
      /\ pass.at = now
  BY <1>0 DEF SpInv, SpShape, SpPassOK
<1>2. PICK i \in Spots : i = pass.i
  BY <1>1
<1>3. /\ spots'[i] = None /\ DOMAIN spots' = Spots /\ \A k \in Spots \ {i} : spots'[k] = spots[k]
      /\ DOMAIN members' = Spots /\ \A k \in Spots \ {i} : members'[k] = members[k]
      /\ members'[i] = None \/ members'[i] = members[i]
  BY <1>0, <1>2 DEF SpInv, SpShape
<1>4. /\ pass'.step = "clean" /\ pass'.at = now
      /\ pass' \in [step : {"clean"}, at : Nat, todo : SUBSET Spots]
  BY <1>0, <1>1
<1>5. SpPassOK(pass)'
  BY <1>0, <1>4 DEF SpPassOK
<1>6. SpShape'
  BY <1>0, <1>3, <1>5 DEF SpInv, SpShape, SpRowOK
<1>7. SpKept' /\ SpTodo' /\ SpCounted'
  BY <1>3, <1>4 DEF SpInv, SpKept, SpTodo, SpCounted
<1>8. SpRoom'
  <2>1. SpActive' \subseteq SpActive
    BY <1>0, <1>3 DEF SpActive, Sp!Active, Sp!ActiveAt, Sp!Stored
  <2> QED BY <1>0, <2>1, SpRoomStays DEF SpInv, Sp!Holds
<1>9. ASSUME NEW k \in Spots PROVE SpWindow(k)'
  BY <1>0, <1>3 DEF SpInv, SpWindow, Sp!Stored
<1> QED BY <1>6, <1>7, <1>8, <1>9 DEF SpInv

\* The pass ends.
LEMMA SpEndPass == ASSUME SpInv, Sp!endPass PROVE SpInv'
<1>0. /\ pass.step = "clean" /\ pass' = Sp!Idle
      /\ UNCHANGED <<now, crashes, spots, members, slot, reminded, excused, late, requests>>
  BY DEF Sp!endPass, Sp!World
<1>1. SpPassOK(pass') /\ pass'.step = "idle"
  BY <1>0 DEF SpPassOK, Sp!Idle
<1>2. SpTodo' /\ SpCounted'
  BY <1>1 DEF SpTodo, SpCounted
<1>3. reminded' \subseteq Spots \X Nat
  BY <1>0 DEF SpInv, SpShape
<1> QED BY <1>0, <1>1, <1>2, <1>3, SpPasses

\* The process stops.
LEMMA SpCrash == ASSUME SpInv, Sp!crash PROVE SpInv'
<1>0. /\ crashes < MaxCrashes /\ crashes' = crashes + 1 /\ slot' = [s \in Slots |-> None]
      /\ pass' = Sp!Idle
      /\ excused' = IF pass.step = "marked" THEN excused \cup {pass.r[1]} ELSE excused
      /\ UNCHANGED <<now, spots, members, reminded, late, requests>>
  BY DEF Sp!crash
<1>1. pass.step = "marked" => pass.r \in Spots \X Nat /\ pass.r[1] \in Spots
  BY DEF SpInv, SpShape, SpPassOK
<1>2. excused \subseteq excused' /\ excused' \subseteq Spots /\ crashes' \in 0..MaxCrashes
  BY <1>0, <1>1, SpPar DEF SpInv, SpShape
<1>3. SpPassOK(pass)' /\ pass'.step = "idle"
  BY <1>0 DEF SpPassOK, Sp!Idle
<1>4. SpShape'
  BY <1>0, <1>2, <1>3 DEF SpInv, SpShape, SpHolding
<1>5. SpActive' = SpActive
  BY <1>0 DEF SpActive, Sp!Active, Sp!ActiveAt, Sp!Stored
<1>6. SpRoom'
  <2>1. \A s \in Slots : ~Sp!Holds(s, "insert")'
    BY <1>0 DEF Sp!Holds
  <2> QED BY <1>0, <1>5, <2>1, SpRoomStays DEF SpInv
<1>7. SpKept' /\ SpTodo' /\ SpCounted'
  BY <1>0, <1>3 DEF SpInv, SpKept, SpTodo, SpCounted
<1>8. ASSUME NEW i \in Spots PROVE SpWindow(i)'
  <2>1. i \notin excused' => i \notin excused /\ ~(pass.step = "marked" /\ pass.r = <<i, spots[i].ends>>)
    BY <1>0, <1>2
  <2> QED BY <1>0, <2>1 DEF SpInv, SpWindow, Sp!Stored
<1> QED BY <1>4, <1>6, <1>7, <1>8 DEF SpInv

\* Time passes.
LEMMA SpTick == ASSUME SpInv, Sp!tick PROVE SpInv'
<1>0. /\ now < Until["spots"] /\ pass.step = "idle" /\ now' = now + 1
      /\ Sp!NeedsReminder = {} /\ \A i \in Spots : ~Sp!Cleanable(i, now)
      /\ UNCHANGED <<spots, members, slot, pass, reminded, excused, late, requests, crashes>>
  BY DEF Sp!tick
<1>1. now \in Nat /\ now' \in 0..Until["spots"]
  BY <1>0, SpPar DEF SpInv, SpShape
<1>2. SpShape'
  BY <1>0, <1>1 DEF SpInv, SpShape, SpPassOK
<1>3. \A i \in Spots : Sp!Stored(i) => spots[i].ends \in Nat
  BY SpStored DEF SpInv
<1>4. SpActive' \subseteq SpActive
  BY <1>0, <1>1, <1>3 DEF SpActive, Sp!Active, Sp!ActiveAt, Sp!Stored
<1>5. SpRoom'
  BY <1>0, <1>4, SpRoomStays DEF SpInv, Sp!Holds
<1>6. SpKept' /\ SpTodo' /\ SpCounted'
  BY <1>0 DEF SpInv, SpKept, SpTodo, SpCounted
<1>7. ASSUME NEW i \in Spots PROVE SpWindow(i)'
  <2> SUFFICES ASSUME Sp!Stored(i), i \notin excused PROVE SpWindow(i)'
    BY <1>0 DEF SpWindow, Sp!Stored
  <2>1. spots[i].ends \in Nat /\ spots[i].ends > now
    BY <1>0, <1>1, <1>3 DEF Sp!Cleanable
  <2>2. ~spots[i].canceled /\ spots[i].ends <= now + 1 => spots[i].notified
    <3> SUFFICES ASSUME ~spots[i].canceled, spots[i].ends <= now + 1, ~spots[i].notified
                 PROVE  FALSE
      OBVIOUS
    <3>1. spots[i].ends <= now + LEAD
      BY <1>1, <2>1, SpPar
    <3>2. i \in Sp!NeedsReminder
      BY <2>1, <3>1 DEF Sp!NeedsReminder, Sp!Active, Sp!ActiveAt
    <3> QED BY <1>0, <3>2
  <2>3. spots[i].notified => <<i, spots[i].ends>> \in reminded
    BY <1>0 DEF SpInv, SpWindow
  <2>4. spots[i].ends >= now + 1
    BY <1>1, <2>1
  <2> QED BY <1>0, <2>2, <2>3, <2>4 DEF SpWindow
<1> QED BY <1>2, <1>5, <1>6, <1>7 DEF SpInv

\* Every step of the spots keeps their invariant.
LEMMA SpInvNext == SpInv /\ [Sp!Next]_(Sp!vars) => SpInv'
<1> SUFFICES ASSUME SpInv, [Sp!Next]_(Sp!vars) PROVE SpInv'
  OBVIOUS
<1>1. CASE Sp!Next
  BY <1>1, SpCreate, SpCount, SpInsert, SpJoin, SpReactivate, SpCancelBegins, SpCancel,
     SpRenewBegins, SpRenew, SpLeave, SpFindReminders, SpMark, SpCreateReminder, SpFindCleanable,
     SpCountMembers, SpDelete, SpEndPass, SpCrash, SpTick DEF Sp!Next
<1>2. CASE UNCHANGED Sp!vars
  <2>1. SpShape' /\ SpKept' /\ SpTodo' /\ SpCounted' /\ \A i \in Spots : SpWindow(i)'
    BY <1>2 DEF SpInv, SpShape, SpPassOK, SpKept, SpTodo, SpCounted, SpWindow, Sp!Stored, Sp!Active,
                Sp!ActiveAt, Sp!vars
  <2>2. SpActive' = SpActive
    BY <1>2 DEF SpActive, Sp!Active, Sp!ActiveAt, Sp!Stored, Sp!vars
  <2>3. SpRoom'
    BY <1>2, <2>2, SpRoomStays DEF SpInv, Sp!Holds, Sp!vars
  <2> QED BY <2>1, <2>3 DEF SpInv
<1> QED BY <1>1, <1>2

-----------------------------------------------------------------------------
(* What follows. *)

\* The invariant has the type.
LEMMA SpTyped == SpInv => Sp!TypeOK
<1> SUFFICES ASSUME SpInv PROVE Sp!TypeOK
  OBVIOUS
<1>1. \A i \in Spots : /\ spots[i] # None => spots[i].starts < spots[i].ends
                       /\ members[i] # None => members[i] \subseteq (Friends \cup Strangers \cup Blocked) \cup {Creator}
  BY DEF SpInv, SpShape, SpRowOK, Sp!Everyone
<1> QED BY <1>1 DEF SpInv, SpShape, SpPassOK, Sp!TypeOK

\* The invariant has the cap.
LEMMA SpCapped == SpInv => Sp!CapKept
BY SpSets DEF SpInv, SpRoom, Sp!CapKept, SpActive

\* The invariant has every window announced.
LEMMA SpReminds == SpInv => Sp!EveryWindowReminded
<1> SUFFICES ASSUME SpInv, NEW i \in Spots, Sp!Stored(i), ~spots[i].canceled, now >= spots[i].ends,
                    i \notin excused
             PROVE  <<i, spots[i].ends>> \in reminded
  BY DEF Sp!EveryWindowReminded
<1>1. spots[i].ends <= now
  BY SpStored, SpPar DEF SpInv, SpShape
<1> QED BY <1>1 DEF SpInv, SpWindow

\* The statuses an active spot is listed under.
LEMMA SpOneStatus ==
  ASSUME SpInv, NEW i \in Spots, Sp!Stored(i)
  PROVE  \E st \in Sp!Statuses : \A s \in Sp!Statuses : Sp!StatusPredicate(i, {s}) <=> s = st
<1>1. spots[i].starts \in Nat /\ now \in Nat /\ SOON \in Nat
  BY SpStored, SpPar DEF SpInv, SpShape
<1>2. \A s \in Sp!Statuses : {s} # {}
  OBVIOUS
<1>3. CASE spots[i].starts <= now
  <2>1. \A s \in Sp!Statuses : Sp!StatusPredicate(i, {s}) <=> s = "ONGOING"
    BY <1>1, <1>2, <1>3 DEF Sp!Statuses, Sp!StatusPredicate
  <2> QED BY <2>1 DEF Sp!Statuses
<1>4. CASE spots[i].starts > now /\ spots[i].starts <= now + SOON
  <2>1. \A s \in Sp!Statuses : Sp!StatusPredicate(i, {s}) <=> s = "SOON"
    BY <1>1, <1>2, <1>4 DEF Sp!Statuses, Sp!StatusPredicate
  <2> QED BY <2>1 DEF Sp!Statuses
<1>5. CASE spots[i].starts > now + SOON
  <2>1. \A s \in Sp!Statuses : Sp!StatusPredicate(i, {s}) <=> s = "UPCOMING"
    BY <1>1, <1>2, <1>5 DEF Sp!Statuses, Sp!StatusPredicate
  <2> QED BY <2>1 DEF Sp!Statuses
<1>6. \/ spots[i].starts <= now
      \/ spots[i].starts > now /\ spots[i].starts <= now + SOON
      \/ spots[i].starts > now + SOON
  BY <1>1
<1> QED BY <1>3, <1>4, <1>5, <1>6

\* The invariant has what is listed opened.
LEMMA SpOpens == SpInv => Sp!ListedOpens
<1> SUFFICES ASSUME SpInv, NEW v \in Sp!Everyone \cup {None}, NEW i \in Spots
             PROVE  /\ i \in Sp!ListVisible(v, FALSE, {}) <=> (Sp!Visible(i, v) /\ Sp!Active(i))
                    /\ i \in Sp!ListVisible(v, TRUE, {}) => v \in Friends \cup {Creator}
                    /\ i \in Sp!ListVisible(v, FALSE, {}) =>
                         Cardinality({st \in Sp!Statuses : i \in Sp!ListVisible(v, FALSE, {st})}) = 1
  BY SpSets DEF Sp!ListedOpens
<1>1. None \notin Friends \cup Blocked \cup {Creator}
  BY SpA DEF Sp!SpotsAssumption, Sp!Everyone
<1>2. \A st : i \in Sp!ListVisible(v, FALSE, st) <=> (Sp!Visible(i, v) /\ Sp!Active(i) /\ Sp!StatusPredicate(i, st))
  <2>1. CASE v = None
    BY <1>1, <2>1 DEF Sp!ListVisible, Sp!Visible, Sp!CanView, Sp!Active, Sp!ActiveAt
  <2>2. CASE v # None
    BY <2>2 DEF Sp!ListVisible, Sp!Visible, Sp!CanView, Sp!Active, Sp!ActiveAt
  <2> QED BY <2>1, <2>2
<1>3. i \in Sp!ListVisible(v, TRUE, {}) => v \in Friends \cup {Creator}
  BY DEF Sp!ListVisible
<1>4. Sp!StatusPredicate(i, {})
  BY DEF Sp!StatusPredicate
<1>5. ASSUME i \in Sp!ListVisible(v, FALSE, {})
      PROVE  Cardinality({st \in Sp!Statuses : i \in Sp!ListVisible(v, FALSE, {st})}) = 1
  <2>1. Sp!Visible(i, v) /\ Sp!Active(i) /\ Sp!Stored(i)
    BY <1>2, <1>5 DEF Sp!Active, Sp!ActiveAt
  <2>2. PICK one \in Sp!Statuses : \A s \in Sp!Statuses : Sp!StatusPredicate(i, {s}) <=> s = one
    BY <2>1, SpOneStatus
  <2>3. {st \in Sp!Statuses : i \in Sp!ListVisible(v, FALSE, {st})} = {one}
    BY <1>2, <2>1, <2>2
  <2> QED BY <2>3, FS_Singleton
<1> QED BY <1>2, <1>3, <1>4, <1>5

\* No step takes a conversation of two people or more.
LEMMA SpGraduates == SpInv /\ [Sp!Next]_(Sp!vars) => Sp!Graduates \/ UNCHANGED Sp!vars
<1> SUFFICES ASSUME SpInv, Sp!Next, NEW i \in Spots,
                    members[i] # None, members'[i] = None, i \notin late
             PROVE  Cardinality(members[i]) <= 1
  BY SpSets DEF Sp!Graduates
<1>0. \A k \in Spots : members[k] # None => members[k] \subseteq Sp!Everyone
  BY DEF SpInv, SpShape
<1>1. ASSUME NEW s \in Slots, Sp!insertSpot(s) PROVE FALSE
  <2>1. PICK k \in Spots : members[k] = None /\ members' = [members EXCEPT ![k] = {Creator}]
    BY <1>1 DEF Sp!insertSpot
  <2> QED BY <2>1 DEF SpInv, SpShape
<1>2. ASSUME NEW s \in Slots, Sp!reactivateParticipant(s) PROVE FALSE
  <2>0. slot[s].i \in Spots /\ slot[s].u \in Sp!Everyone
    BY <1>2 DEF Sp!reactivateParticipant, SpInv, SpShape, SpHolding, Sp!Holds
  <2>1. members' = members \/ members' = [members EXCEPT ![slot[s].i] = @ \cup {slot[s].u}]
    BY <1>2 DEF Sp!reactivateParticipant
  <2>2. members'[i] = members[i] \/ members'[i] = members[i] \cup {slot[s].u}
    BY <2>1 DEF SpInv, SpShape
  <2>3. members'[i] \subseteq Sp!Everyone
    BY <1>0, <2>0, <2>2
  <2> QED BY <2>3, SpPar
<1>3. ASSUME NEW u \in Sp!Everyone, NEW k \in Spots, Sp!leave(u, k) PROVE FALSE
  <2>1. members' = [members EXCEPT ![k] = @ \ {u}]
    BY <1>3 DEF Sp!leave
  <2>2. members'[i] = members[i] \/ members'[i] = members[i] \ {u}
    BY <2>1 DEF SpInv, SpShape
  <2>3. members'[i] \subseteq Sp!Everyone
    BY <1>0, <2>2
  <2> QED BY <2>3, SpPar
<1>4. ASSUME Sp!deleteSpot PROVE Cardinality(members[i]) <= 1
  <2>1. /\ pass.step = "counted"
        /\ members' = IF pass.alone THEN [members EXCEPT ![pass.i] = None] ELSE members
    BY <1>4 DEF Sp!deleteSpot
  <2>2. pass.alone /\ pass.i = i
    BY <2>1 DEF SpInv, SpShape
  <2> QED BY <2>1, <2>2 DEF SpInv, SpCounted
<1> QED BY <1>1, <1>2, <1>3, <1>4
        DEF Sp!Next, Sp!createSpot, Sp!countActive, Sp!joinSpot, Sp!cancelSpot, Sp!cancelSpotById,
            Sp!renewSpot,
            Sp!renewSpotById, Sp!findReminders, Sp!markNotified, Sp!createReminder,
            Sp!findCleanable,
            Sp!countMembers, Sp!endPass, Sp!crash, Sp!tick

-----------------------------------------------------------------------------
(* The series. *)

\* What is assumed of the constants of a series.
LEMMA SeA ==
  /\ HORIZON \in Nat /\ MAX_OCCURRENCES \in Nat \ {0} /\ LastDate \in Nat
  /\ Until["series"] \in Nat /\ MaxTouches \in Nat /\ None \notin {"live", "canceled"} /\ None \notin Se!Series
BY PlansAssumption DEF Se!SeriesAssumption

\* A date that the rule counts from the first one.
SeOfRule(d) ==
  \E i \in 0..(MAX_OCCURRENCES - 1) :
    /\ d = first + series.rule.interval * i
    /\ series.rule.count # None => i < series.rule.count
    /\ series.rule.until # None => d <= series.rule.until

\* A pass has read the series before the bounds of its dates.
SePass == pass # None => pass.step \in {"read", "bounded"} /\ pass.at \in Nat

SeShape ==
  /\ now \in 0..Until["series"] /\ {premium, touched, raced} \subseteq BOOLEAN
  /\ series # None => series \in Se!Series /\ first \in Se!Dates
  /\ series = None => rows = [d \in Se!Dates |-> None] /\ pass = None /\ made = {} /\ first = None
  /\ rows \in [Se!Dates -> {"live", "canceled", None}] /\ made \subseteq Se!Dates
  /\ touches \in 0..MaxTouches /\ SePass

\* A canceled series has no pass, and nothing live ahead.
SeQuiet ==
  series # None /\ series.canceled /\ ~raced =>
    /\ pass = None
    /\ ~touched => \A d \in Se!Dates : d > now => rows[d] # "live"

\* Until the author moves one by hand, the dates stored are those made, each of the
\* rule, and the first of them is there: passes anchor on it.
SeAnchor ==
  series # None /\ ~touched =>
    /\ \A d \in made : SeOfRule(d)
    /\ Se!Stored = made /\ first \in made
    /\ pass # None /\ pass.step = "bounded" => pass.start = first

SeInv == SeShape /\ SeQuiet /\ SeAnchor

\* The invariant begins.
LEMMA SeInvInit == Se!Init => SeInv
<1> SUFFICES ASSUME Se!Init PROVE SeInv
  OBVIOUS
<1>1. /\ now = 0 /\ premium \in BOOLEAN /\ touched \in BOOLEAN /\ raced \in BOOLEAN
      /\ series = None /\ pass = None /\ made = {} /\ first = None /\ touches = 0
      /\ rows = [d \in Se!Dates |-> None]
  BY DEF Se!Init
<1>2. now \in 0..Until["series"] /\ touches \in 0..MaxTouches
  BY <1>1, SeA
<1>3. SeShape
  BY <1>1, <1>2 DEF SeShape, SePass
<1> QED BY <1>1, <1>3 DEF SeInv, SeQuiet, SeAnchor

\* Fields of the rule.
LEMMA SeRule ==
  ASSUME SeShape, series # None
  PROVE  /\ series.rule.interval \in {1, 2} /\ series.rule.until \in {None, LastDate - 1}
         /\ series.rule.count \in {None, 2} /\ series.rule \in Se!Rules /\ first \in Nat
BY DEF SeShape, Se!Series, Se!Rules, Se!Dates

\* What buildOccurrenceDates gives is of the rule, and begins where it starts.
LEMMA SeDates ==
  ASSUME NEW start \in Se!Dates, NEW rule \in Se!Rules, NEW t \in Nat, NEW after
  PROVE  LET D == Se!OccurrenceDates(start, rule, t, after) IN
         /\ D \subseteq Se!Dates
         /\ \A d \in D : \E i \in 0..(MAX_OCCURRENCES - 1) :
              /\ d = start + rule.interval * i
              /\ rule.count # None => i < rule.count
              /\ rule.until # None => d <= rule.until
         /\ D # {} /\ after = 0 => start \in D
<1> DEFINE end == IF rule.until = None THEN t + HORIZON ELSE Se!Least(rule.until, t + HORIZON)
           max == IF rule.count = None THEN MAX_OCCURRENCES
                  ELSE Se!Least(rule.count, MAX_OCCURRENCES)
           D == Se!OccurrenceDates(start, rule, t, after)
<1>1. /\ rule.interval \in {1, 2} /\ rule.until \in {None, LastDate - 1}
      /\ rule.count \in {None, 2} /\ start \in Nat \ {0}
  BY SeA DEF Se!Rules, Se!Dates
<1>2. D = {d \in Se!Dates : \E i \in 0..(max - 1) : /\ d = start + rule.interval * i
                                                    /\ d <= end /\ d > after}
  BY DEF Se!OccurrenceDates
<1>3. /\ max \in Nat \ {0} /\ max <= MAX_OCCURRENCES
      /\ rule.count # None => max <= rule.count
  BY <1>1, SeA DEF Se!Least
<1>4. end \in Int /\ (rule.until # None => end <= rule.until)
  BY <1>1, SeA DEF Se!Least
<1>5. ASSUME rule.until # None PROVE rule.until \in Int
  BY <1>1, <1>5, SeA
<1>6. ASSUME rule.count # None PROVE rule.count \in Int
  BY <1>1, <1>6
<1> HIDE DEF end, max, D
<1>7. D \subseteq Se!Dates
  BY <1>2
<1>8. ASSUME NEW d \in D
      PROVE  \E i \in 0..(MAX_OCCURRENCES - 1) :
               /\ d = start + rule.interval * i
               /\ rule.count # None => i < rule.count
               /\ rule.until # None => d <= rule.until
  <2>1. PICK i \in 0..(max - 1) : d = start + rule.interval * i /\ d <= end
    BY <1>2
  <2>2. i \in 0..(MAX_OCCURRENCES - 1) /\ (rule.count # None => i < rule.count)
    BY <1>3, <1>6, SeA
  <2>3. rule.until # None => d <= rule.until
    <3>1. d \in Int
      BY <1>7 DEF Se!Dates
    <3> QED BY <1>4, <1>5, <2>1, <3>1
  <2> QED BY <2>1, <2>2, <2>3
<1>9. ASSUME D # {}, after = 0 PROVE start \in D
  <2>1. PICK d \in D : TRUE
    BY <1>9
  <2>2. PICK i \in 0..(max - 1) : d = start + rule.interval * i /\ d <= end
    BY <1>2, <2>1
  <2>3. start <= d
    BY <1>1, <1>3, <2>2
  <2>4. start <= end /\ start > after /\ d \in Int
    BY <1>1, <1>4, <1>7, <1>9, <2>2, <2>3 DEF Se!Dates
  <2>5. 0 \in 0..(max - 1) /\ start = start + rule.interval * 0
    BY <1>1, <1>3
  <2> QED BY <1>2, <2>4, <2>5
<1> QED BY <1>7, <1>8, <1>9 DEF D

\* The first date is the least of those stored.
LEMMA SeFirst ==
  ASSUME SeInv, series # None, ~touched
  PROVE  Se!MinDate(Se!Stored) = first
<1>1. first \in Se!Stored /\ \A d \in Se!Stored : SeOfRule(d) /\ d \in Nat
  BY DEF SeInv, SeAnchor, Se!Stored, Se!Dates
<1>2. \A d \in Se!Stored : first <= d
  <2> SUFFICES ASSUME NEW d \in Se!Stored PROVE first <= d
    OBVIOUS
  <2>1. PICK i \in 0..(MAX_OCCURRENCES - 1) : d = first + series.rule.interval * i
    BY <1>1 DEF SeOfRule
  <2>2. series.rule.interval \in {1, 2} /\ first \in Nat /\ i \in Nat
    BY SeRule, SeA DEF SeInv
  <2> QED BY <2>1, <2>2
<1> DEFINE m == Se!MinDate(Se!Stored)
<1>3. m \in Se!Stored /\ \A e \in Se!Stored : m <= e
  BY <1>1, <1>2 DEF Se!MinDate
<1> HIDE DEF m
<1>4. first <= m /\ m <= first /\ m \in Nat /\ first \in Nat
  BY <1>1, <1>2, <1>3
<1> QED BY <1>4 DEF m

\* The author makes a series.
LEMMA SeCreate == ASSUME SeInv, Se!createRecurringEvent PROVE SeInv'
<1>1. PICK rule \in Se!Rules, start \in Se!Dates :
        LET dates == Se!OccurrenceDates(start, rule, now, 0) IN
        /\ dates # {}
        /\ series' = [rule |-> rule, canceled |-> FALSE]
        /\ rows' = Se!Insert(dates) /\ first' = start /\ made' = dates
  BY DEF Se!createRecurringEvent
<1> DEFINE dates == Se!OccurrenceDates(start, rule, now, 0)
<1>2. series = None /\ UNCHANGED <<now, premium, pass, touched, touches, raced>>
  BY DEF Se!createRecurringEvent
<1>3. /\ dates \subseteq Se!Dates /\ start \in dates
      /\ \A d \in dates : \E i \in 0..(MAX_OCCURRENCES - 1) :
           /\ d = start + rule.interval * i
           /\ rule.count # None => i < rule.count
           /\ rule.until # None => d <= rule.until
  <2>1. now \in Nat
    BY SeA DEF SeInv, SeShape
  <2> QED BY <1>1, <2>1, SeDates
<1> HIDE DEF dates
<1>4. /\ series' = [rule |-> rule, canceled |-> FALSE] /\ rows' = Se!Insert(dates)
      /\ first' = start /\ made' = dates
  BY <1>1 DEF dates
<1>5. series' \in Se!Series /\ series' # None /\ series'.rule = rule /\ ~series'.canceled
  <2>1. series' \in Se!Series
    BY <1>4 DEF Se!Series
  <2> QED BY <1>4, <2>1, SeA
<1>6. /\ rows = [d \in Se!Dates |-> None] /\ pass = None
  BY <1>2 DEF SeInv, SeShape
<1>7. \A d \in Se!Dates : rows'[d] = IF d \in dates THEN "live" ELSE None
  BY <1>4, <1>6 DEF Se!Insert
<1>8. rows' \in [Se!Dates -> {"live", "canceled", None}]
  BY <1>4, <1>6 DEF Se!Insert
<1>9. SeShape'
  BY <1>2, <1>3, <1>4, <1>5, <1>6, <1>8 DEF SeInv, SeShape, SePass
<1>10. SeQuiet'
  BY <1>5 DEF SeQuiet
<1>11. \A d \in made' : SeOfRule(d)'
  BY <1>3, <1>4, <1>5 DEF SeOfRule
<1>12. Se!Stored' = made' /\ first' \in made'
  BY <1>3, <1>4, <1>7, SeA DEF Se!Stored
<1> QED BY <1>2, <1>6, <1>9, <1>10, <1>11, <1>12 DEF SeInv, SeAnchor

\* The author cancels the series.
LEMMA SeCancel == ASSUME SeInv, Se!cancelSeries PROVE SeInv'
<1>1. /\ series # None /\ series' = [series EXCEPT !.canceled = TRUE]
      /\ rows' = [d \in Se!Dates |-> Se!Canceled(d)] /\ raced' = (pass # None)
      /\ UNCHANGED <<now, premium, pass, first, made, touched, touches>>
  BY DEF Se!cancelSeries
<1>2. series \in Se!Series
  BY <1>1 DEF SeInv, SeShape
<1>3. series' \in Se!Series /\ series' # None /\ series'.rule = series.rule
  BY <1>1, <1>2, SeA DEF Se!Series
<1>4. /\ rows' \in [Se!Dates -> {"live", "canceled", None}]
      /\ \A d \in Se!Dates : /\ rows'[d] # None <=> rows[d] # None
                             /\ d > now => rows'[d] # "live"
  BY <1>1, SeA DEF Se!Canceled, SeInv, SeShape
<1>5. Se!Stored' = Se!Stored
  BY <1>4 DEF Se!Stored
<1>6. SeShape'
  BY <1>1, <1>3, <1>4 DEF SeInv, SeShape, SePass
<1>7. SeQuiet'
  BY <1>1, <1>4 DEF SeQuiet
<1>8. \A d \in made : SeOfRule(d)' <=> SeOfRule(d)
  BY <1>1, <1>3 DEF SeOfRule
<1>9. SeAnchor'
  BY <1>1, <1>3, <1>5, <1>8 DEF SeInv, SeAnchor
<1> QED BY <1>6, <1>7, <1>9 DEF SeInv

\* The author touches one occurrence.
LEMMA SeTouch == ASSUME SeInv, Se!touchOccurrence PROVE SeInv'
<1>1. /\ touches < MaxTouches /\ touches' = touches + 1
      /\ UNCHANGED <<now, premium, series, pass, first, made, raced>>
  BY DEF Se!touchOccurrence
<1>2. PICK d \in Se!Stored :
       \/ /\ rows[d] = "live"
          /\ rows' = [rows EXCEPT ![d] = "canceled"]
          /\ UNCHANGED touched
       \/ /\ rows[d] = "canceled"
          /\ rows' = [rows EXCEPT ![d] = "live"]
          /\ touched' = TRUE
       \/ /\ \E e \in Se!Dates :
               /\ rows[e] = None
               /\ rows' = [rows EXCEPT ![d] = None, ![e] = rows[d]]
          /\ touched' = TRUE
       \/ /\ rows' = [rows EXCEPT ![d] = None]
          /\ touched' = TRUE
  BY DEF Se!touchOccurrence
<1>3. d \in Se!Dates /\ rows[d] # None
  BY DEF Se!Stored
<1>4. series # None
  BY <1>3 DEF SeInv, SeShape
<1>5. rows' \in [Se!Dates -> {"live", "canceled", None}] /\ touched' \in BOOLEAN
  <2>1. rows \in [Se!Dates -> {"live", "canceled", None}] /\ touched \in BOOLEAN
    BY DEF SeInv, SeShape
  <2>2. touched' \in BOOLEAN
    BY <1>2, <2>1
  <2>3. rows' \in [Se!Dates -> {"live", "canceled", None}]
    BY <1>2, <1>3, <2>1
  <2> QED BY <2>2, <2>3
<1>6. touches' \in 0..MaxTouches
  BY <1>1, SeA DEF SeInv, SeShape
<1>7. SeShape'
  BY <1>1, <1>4, <1>5, <1>6 DEF SeInv, SeShape, SePass
<1>8. CASE touched'
  BY <1>1, <1>7, <1>8 DEF SeInv, SeQuiet, SeAnchor
<1>9. CASE ~touched'
  <2>1. ~touched /\ rows' = [rows EXCEPT ![d] = "canceled"]
    BY <1>2, <1>9
  <2>2. \A e \in Se!Dates : /\ rows'[e] # None <=> rows[e] # None
                            /\ rows'[e] = "live" => rows[e] = "live"
    BY <1>3, <2>1, SeA DEF SeInv, SeShape
  <2>3. Se!Stored' = Se!Stored
    BY <2>2 DEF Se!Stored
  <2>4. SeQuiet'
    BY <1>1, <2>1, <2>2 DEF SeInv, SeQuiet
  <2>5. SeAnchor'
    BY <1>1, <2>1, <2>3 DEF SeInv, SeAnchor, SeOfRule
  <2> QED BY <1>7, <2>4, <2>5 DEF SeInv
<1> QED BY <1>8, <1>9

\* A pass that reads changes what it knows alone.
LEMMA SeReads ==
  ASSUME SeInv, series # None, UNCHANGED <<now, premium, series, rows, first, made, touched, touches, raced>>,
         SePass', (pass = None => ~series.canceled),
         ~touched /\ pass' # None /\ pass'.step = "bounded" => pass'.start = first
  PROVE  SeInv'
<1>1. SeShape'
  BY DEF SeInv, SeShape
<1>2. SeQuiet'
  BY DEF SeInv, SeQuiet
<1>3. SeAnchor'
  BY DEF SeInv, SeAnchor, SeOfRule, Se!Stored
<1> QED BY <1>1, <1>2, <1>3 DEF SeInv

\* The reconciler reads the series, and then the bounds of its dates.
LEMMA SeBegins == ASSUME SeInv, Se!findReplenishableSeries \/ Se!getOccurrenceBounds PROVE SeInv'
<1>1. CASE Se!findReplenishableSeries
  <2>1. /\ pass = None /\ series # None /\ ~series.canceled /\ pass' = [step |-> "read", at |-> now]
        /\ UNCHANGED <<now, premium, series, rows, first, made, touched, touches, raced>>
    BY <1>1 DEF Se!findReplenishableSeries, Se!Replenishable
  <2>2. SePass' /\ pass'.step = "read"
    BY <2>1, SeA DEF SePass, SeInv, SeShape
  <2> QED BY <2>1, <2>2, SeReads
<1>2. CASE Se!getOccurrenceBounds
  <2>1. /\ pass # None /\ series # None
        /\ UNCHANGED <<now, premium, series, rows, first, made, touched, touches, raced>>
    BY <1>2 DEF Se!getOccurrenceBounds, SeInv, SeShape
  <2>2. pass' = None \/ pass' = [step |-> "bounded", at |-> pass.at,
                                 start |-> Se!MinDate(Se!Stored), latest |-> Se!MaxDate(Se!Stored)]
    BY <1>2 DEF Se!getOccurrenceBounds
  <2>3. pass.at \in Nat
    BY <2>1 DEF SeInv, SeShape, SePass
  <2>4. SePass'
    BY <2>2, <2>3 DEF SePass
  <2>5. pass' # None => pass'.start = Se!MinDate(Se!Stored)
    BY <2>2
  <2> QED BY <2>1, <2>4, <2>5, SeFirst, SeReads
<1> QED BY <1>1, <1>2

\* The reconciler appends what the horizon has reached.
LEMMA SeAppend == ASSUME SeInv, Se!appendOccurrences PROVE SeInv'
<1> DEFINE new == Se!NewDates(pass)
<1>1. /\ pass # None /\ pass.step = "bounded" /\ rows' = Se!Insert(new)
      /\ made' = made \cup {d \in new : rows[d] = None} /\ pass' = None
      /\ UNCHANGED <<now, premium, series, first, touched, touches, raced>>
  BY DEF Se!appendOccurrences
<1>2. series # None /\ pass.at \in Nat /\ new \subseteq Se!Dates
  BY <1>1 DEF SeInv, SeShape, SePass, Se!NewDates, Se!OccurrenceDates
<1>3. ASSUME ~touched
      PROVE  \A d \in new : SeOfRule(d)
  <2>1. pass.start = first /\ first \in Se!Dates /\ series.rule \in Se!Rules
    BY <1>1, <1>2, <1>3, SeRule DEF SeInv, SeAnchor, SeShape
  <2> QED BY <1>2, <2>1, SeDates DEF Se!NewDates, SeOfRule
<1> HIDE DEF new
<1>4. /\ rows' \in [Se!Dates -> {"live", "canceled", None}]
      /\ \A d \in Se!Dates : rows'[d] # None <=> (rows[d] # None \/ d \in new)
  BY <1>1, SeA DEF Se!Insert, SeInv, SeShape
<1>5. SeShape'
  BY <1>1, <1>2, <1>4 DEF SeInv, SeShape, SePass
<1>6. SeQuiet'
  BY <1>1 DEF SeInv, SeQuiet
<1>7. ASSUME ~touched PROVE SeAnchor'
  <2>1. Se!Stored = made /\ first \in made /\ \A d \in made : SeOfRule(d)
    BY <1>2, <1>7 DEF SeInv, SeAnchor
  <2>2. made' = made \cup new
    BY <1>1, <1>2, <2>1 DEF Se!Stored
  <2>3. Se!Stored' = made'
    BY <1>2, <1>4, <2>1, <2>2 DEF Se!Stored
  <2>4. \A d \in made' : SeOfRule(d)'
    BY <1>1, <1>3, <1>7, <2>1, <2>2 DEF SeOfRule
  <2> QED BY <1>1, <2>1, <2>2, <2>3, <2>4 DEF SeAnchor
<1> QED BY <1>1, <1>5, <1>6, <1>7 DEF SeInv, SeAnchor

\* Time and subscriptions.
LEMMA SeTick == ASSUME SeInv, Se!tick \/ Se!setPremium \/ UNCHANGED Se!vars PROVE SeInv'
<1>0. now \in 0..Until["series"] /\ premium \in BOOLEAN
  BY DEF SeInv, SeShape
<1>1. /\ now' \in 0..Until["series"] /\ now \in Nat /\ now' \in Nat /\ now' >= now
      /\ premium' \in BOOLEAN
      /\ UNCHANGED <<series, rows, pass, first, made, touched, touches, raced>>
  <2>1. CASE Se!tick
    BY <1>0, <2>1, SeA DEF Se!tick
  <2>2. CASE Se!setPremium
    <3>1. premium' \in BOOLEAN
      BY <2>2 DEF Se!setPremium
    <3> QED BY <1>0, <2>2, <3>1, SeA DEF Se!setPremium
  <2>3. CASE UNCHANGED Se!vars
    BY <1>0, <2>3, SeA DEF Se!vars
  <2> QED BY <2>1, <2>2, <2>3
<1>2. SeShape'
  BY <1>1 DEF SeInv, SeShape, SePass
<1>3. \A d \in Se!Dates : d > now' => d > now
  BY <1>1 DEF Se!Dates
<1>4. SeQuiet'
  BY <1>1, <1>3 DEF SeInv, SeQuiet
<1>5. SeAnchor'
  BY <1>1 DEF SeInv, SeAnchor, SeOfRule, Se!Stored
<1> QED BY <1>2, <1>4, <1>5 DEF SeInv

\* Every step of a series keeps its invariant.
LEMMA SeInvNext == SeInv /\ [Se!Next]_(Se!vars) => SeInv'
BY SeCreate, SeCancel, SeTouch, SeBegins, SeAppend, SeTick DEF Se!Next

\* The properties of a series follow from its invariant.
LEMMA SeFollows == SeInv => Se!TypeOK /\ Se!CanceledStaysQuiet /\ Se!FollowsRule
<1> SUFFICES ASSUME SeInv PROVE Se!TypeOK /\ Se!CanceledStaysQuiet /\ Se!FollowsRule
  OBVIOUS
<1>1. Se!TypeOK
  BY SeA DEF SeInv, SeShape, SePass, Se!TypeOK
<1>2. Se!CanceledStaysQuiet
  BY DEF SeInv, SeQuiet, Se!CanceledStaysQuiet
<1>3. Se!FollowsRule
  BY DEF SeInv, SeAnchor, SeOfRule, Se!FollowsRule
<1> QED BY <1>1, <1>2, <1>3

-----------------------------------------------------------------------------
(* Promotions. *)

\* What is assumed of the constants of the promotions.
LEMMA FeA ==
  /\ MonthlyLimit \in Nat /\ EventDate \in Nat /\ MonthLength \in Nat \ {0}
  /\ MaxCrashes \in Nat /\ IsFiniteSet(Windows) /\ None \notin Fe!Feature
BY PlansAssumption DEF Fe!FeaturedAssumption, Fe!IsFiniteSet, IsFiniteSet

\* The instance counts as everybody does.
LEMMA FeCount == \A S : Fe!Cardinality(S) = Cardinality(S)
BY DEF Fe!Cardinality, Cardinality

\* The windows bought in a month, canceled or not.
FeBought(m) == {w \in Windows : features[w] # None /\ features[w].month = m}

\* A request asks for a window nobody else asks for, free until it is bought.
FeAsked(s) ==
  slot[s] # None =>
    /\ slot[s].w \in Windows /\ slot[s].f.startsAt \in Fe!Times /\ slot[s].f.endsAt \in Nat
    /\ slot[s].op = "create" => features[slot[s].w] = None
    /\ \A r \in Slots : slot[r] # None /\ slot[r].w = slot[s].w => r = s

FeInv ==
  /\ Fe!TypeOK
  /\ \A s \in Slots : FeAsked(s)
  /\ \A m \in Fe!Times : usage[m] <= MonthlyLimit /\ usage[m] = Cardinality(FeBought(m))

\* A date has a month.
LEMMA FeMonth == \A t \in Fe!Times : Fe!Period(t) \in Fe!Times
<1> SUFFICES ASSUME NEW t \in Fe!Times PROVE Fe!Period(t) \in Fe!Times
  OBVIOUS
<1>1. t \in Nat /\ t <= EventDate
  BY FeA DEF Fe!Times
<1>2. t \div MonthLength \in 0..t
  BY <1>1, FeA
<1> QED BY <1>1, <1>2, FeA DEF Fe!Times, Fe!Period

\* The invariant begins.
LEMMA FeInvInit == Fe!Init => FeInv
<1> SUFFICES ASSUME Fe!Init PROVE FeInv
  OBVIOUS
<1>1. /\ now = 0 /\ features = [w \in Windows |-> None] /\ usage = [m \in Fe!Times |-> 0]
      /\ isFeatured \in BOOLEAN /\ job \in BOOLEAN /\ slot = [s \in Slots |-> None]
      /\ tick = "due" /\ reached = {} /\ crashes = 0
  BY DEF Fe!Init
<1>2. now \in Fe!Times /\ crashes \in 0..MaxCrashes
  BY <1>1, FeA DEF Fe!Times
<1>3. Fe!TypeOK
  BY <1>1, <1>2 DEF Fe!TypeOK
<1>4. \A s \in Slots : FeAsked(s)
  BY <1>1 DEF FeAsked
<1>5. ASSUME NEW m \in Fe!Times PROVE usage[m] <= MonthlyLimit /\ usage[m] = Cardinality(FeBought(m))
  <2>1. FeBought(m) = {} /\ usage[m] = 0
    BY <1>1, <1>5 DEF FeBought
  <2> QED BY <2>1, FS_EmptySet, FeA
<1> QED BY <1>3, <1>4, <1>5 DEF FeInv

\* Steps that buy nothing keep what is asked and bought, if they ask for nothing.
LEMMA FeRests ==
  ASSUME FeInv, Fe!TypeOK', UNCHANGED usage,
         \A s \in Slots : slot'[s] = slot[s] \/ slot'[s] = None,
         \A w \in Windows : /\ features'[w] # None <=> features[w] # None
                            /\ features[w] # None => features'[w].month = features[w].month
  PROVE  FeInv'
<1>1. \A s \in Slots : FeAsked(s)'
  BY DEF FeInv, FeAsked
<1>2. \A m \in Fe!Times : FeBought(m)' = FeBought(m)
  BY DEF FeBought
<1> QED BY <1>1, <1>2 DEF FeInv

\* A request asks for a window.
LEMMA FeAdds == ASSUME FeInv, NEW s \in Slots, Fe!addFeaturedEvent(s) PROVE FeInv'
<1>1. PICK w \in Windows, from \in Fe!Times, to \in Fe!Times :
        /\ features[w] = None
        /\ \A r \in Slots : slot[r] # None => slot[r].w # w
        /\ Fe!Step(s, [op |-> "create", w |-> w, f |-> [startsAt |-> from, endsAt |-> to]])
  BY DEF Fe!addFeaturedEvent
<1> DEFINE f == [startsAt |-> from, endsAt |-> to]
           h == [op |-> "create", w |-> w, f |-> f]
<1>2. /\ slot' = [slot EXCEPT ![s] = h]
      /\ UNCHANGED <<now, features, usage, isFeatured, tick, job, reached, crashes>>
  BY <1>1 DEF Fe!addFeaturedEvent, Fe!Step
<1>3. h.w = w /\ h.op = "create" /\ h.f.startsAt \in Fe!Times /\ h.f.endsAt \in Nat
  BY FeA DEF Fe!Times
<1> HIDE DEF h, f
<1>4. \A r \in Slots : slot'[r] = IF r = s THEN h ELSE slot[r]
  BY <1>2 DEF FeInv, Fe!TypeOK
<1>5. Fe!TypeOK'
  BY <1>2 DEF FeInv, Fe!TypeOK
<1>6. ASSUME NEW r \in Slots PROVE FeAsked(r)'
  <2>1. CASE r = s
    BY <1>1, <1>2, <1>3, <1>4, <2>1 DEF FeAsked
  <2>2. CASE r # s
    BY <1>1, <1>2, <1>3, <1>4, <2>2 DEF FeInv, FeAsked
  <2> QED BY <2>1, <2>2
<1>7. \A m \in Fe!Times : FeBought(m)' = FeBought(m)
  BY <1>2 DEF FeBought
<1> QED BY <1>2, <1>5, <1>6, <1>7 DEF FeInv

\* A purchase takes one from the quota of its month, or is refused whole.
LEMMA FeBuys == ASSUME FeInv, NEW s \in Slots, Fe!createFeaturedEvent(s) PROVE FeInv'
<1> DEFINE h == slot[s]
           month == Fe!Period(now)
           committed == Fe!QuotaLeft /\ ~Fe!Overlaps(h.f)
           v == [startsAt |-> h.f.startsAt, endsAt |-> h.f.endsAt, canceled |-> FALSE,
                 month |-> month]
<1>1. /\ slot[s] # None /\ slot[s].op = "create"
      /\ features' = IF ~committed THEN features ELSE [features EXCEPT ![h.w] = v]
      /\ usage' = [usage EXCEPT ![month] = @ + Fe!Spent(committed)]
      /\ isFeatured' = (isFeatured \/ (committed /\ Fe!OpenAt(h.f, now)))
      /\ slot' = [slot EXCEPT ![s] = IF committed THEN [h EXCEPT !.op = "created"] ELSE None]
      /\ UNCHANGED <<now, tick, job, reached, crashes>>
  BY DEF Fe!createFeaturedEvent, Fe!Holds, Fe!Step
<1>2. month \in Fe!Times
  BY FeMonth DEF FeInv, Fe!TypeOK
<1>3. /\ h.w \in Windows /\ h.f.startsAt \in Fe!Times /\ h.f.endsAt \in Nat /\ features[h.w] = None
      /\ \A r \in Slots : slot[r] # None /\ slot[r].w = h.w => r = s
  BY <1>1 DEF FeInv, FeAsked
<1>4. v \in Fe!Feature /\ v # None /\ v.month = month
  <2>1. v \in Fe!Feature
    BY <1>2, <1>3 DEF Fe!Feature
  <2> QED BY <2>1, FeA
<1>5. committed => usage[month] + 1 <= MonthlyLimit
  BY DEF Fe!QuotaLeft
<1>6. committed \in BOOLEAN
  OBVIOUS
<1> HIDE DEF month, committed, v
<1>7. CASE ~committed
  <2>1. /\ features' = features /\ slot' = [slot EXCEPT ![s] = None]
        /\ usage' = [usage EXCEPT ![month] = @ + 0]
    BY <1>1, <1>7 DEF Fe!Spent
  <2>2. usage \in [Fe!Times -> Nat]
    BY DEF FeInv, Fe!TypeOK
  <2>3. usage' = usage
    BY <1>2, <2>1, <2>2
  <2>4. isFeatured' \in BOOLEAN
    BY <1>1
  <2>5. Fe!TypeOK'
    BY <1>1, <2>1, <2>3, <2>4 DEF FeInv, Fe!TypeOK
  <2>6. \A r \in Slots : slot'[r] = slot[r] \/ slot'[r] = None
    BY <2>1 DEF FeInv, Fe!TypeOK
  <2> QED BY <2>1, <2>3, <2>5, <2>6, FeRests
<1>8. CASE committed
  <2> DEFINE g == [slot[s] EXCEPT !.op = "created"]
  <2>1. /\ features' = [features EXCEPT ![h.w] = v] /\ slot' = [slot EXCEPT ![s] = g]
        /\ usage' = [usage EXCEPT ![month] = @ + 1]
    BY <1>1, <1>8 DEF Fe!Spent
  <2>2. g.w = h.w /\ g.f = h.f /\ (g.op = "created" \/ g.op = h.op)
    OBVIOUS
  <2>2a. g.op # "create"
    OBVIOUS
  <2> HIDE DEF g
  <2>3. /\ features \in [Windows -> Fe!Feature \cup {None}] /\ usage \in [Fe!Times -> Nat]
        /\ DOMAIN slot = Slots
    BY DEF FeInv, Fe!TypeOK
  <2>4. /\ features' \in [Windows -> Fe!Feature \cup {None}] /\ usage' \in [Fe!Times -> Nat]
        /\ isFeatured' \in BOOLEAN /\ DOMAIN slot' = Slots
    BY <1>1, <1>2, <1>3, <1>4, <2>1, <2>3
  <2>5. Fe!TypeOK'
    BY <1>1, <2>4 DEF FeInv, Fe!TypeOK
  <2>6. /\ \A r \in Slots : slot'[r] = IF r = s THEN g ELSE slot[r]
        /\ \A w \in Windows : features'[w] = IF w = h.w THEN v ELSE features[w]
        /\ \A m \in Fe!Times : usage'[m] = IF m = month THEN usage[m] + 1 ELSE usage[m]
    BY <1>2, <1>3, <2>1, <2>3
  <2>7. ASSUME NEW r \in Slots PROVE FeAsked(r)'
    <3>1. CASE r = s
      BY <1>1, <1>3, <2>2, <2>2a, <2>6, <3>1 DEF FeAsked
    <3>2. CASE r # s
      <4>1. slot[r] # None => slot[r].w # h.w
        BY <1>3, <3>2
      <4> QED BY <1>1, <2>2, <2>6, <3>2, <4>1 DEF FeInv, FeAsked
    <3> QED BY <3>1, <3>2
  <2>8. ASSUME NEW m \in Fe!Times
        PROVE  usage'[m] <= MonthlyLimit /\ usage'[m] = Cardinality(FeBought(m)')
    <3>1. usage[m] <= MonthlyLimit /\ usage[m] = Cardinality(FeBought(m)) /\ usage[m] \in Nat
      BY <2>3 DEF FeInv
    <3>2. CASE m = month
      <4>1. FeBought(m)' = FeBought(m) \cup {h.w} /\ h.w \notin FeBought(m)
        BY <1>3, <1>4, <2>6, <3>2 DEF FeBought
      <4>2. IsFiniteSet(FeBought(m))
        BY FeA, FS_Subset DEF FeBought
      <4>3. Cardinality(FeBought(m)') = Cardinality(FeBought(m)) + 1
        BY <4>1, <4>2, FS_AddElement
      <4> QED BY <1>5, <1>8, <2>6, <3>1, <3>2, <4>3
    <3>3. CASE m # month
      <4>1. FeBought(m)' = FeBought(m)
        BY <1>3, <1>4, <2>6, <3>3 DEF FeBought
      <4> QED BY <2>6, <3>1, <3>3, <4>1
    <3> QED BY <3>2, <3>3
  <2> QED BY <2>5, <2>7, <2>8 DEF FeInv
<1> QED BY <1>7, <1>8

\* The author cancels a window: it was bought all the same.
LEMMA FeCancels == ASSUME FeInv, NEW w \in Windows, Fe!cancelFeaturedEvent(w) PROVE FeInv'
<1>1. /\ features[w] # None /\ features' = [features EXCEPT ![w].canceled = TRUE]
      /\ isFeatured' = Fe!MirrorWithout(w)
      /\ UNCHANGED <<now, usage, slot, tick, job, reached, crashes>>
  BY DEF Fe!cancelFeaturedEvent, Fe!Bought
<1>2. features \in [Windows -> Fe!Feature \cup {None}]
  BY DEF FeInv, Fe!TypeOK
<1> DEFINE v == [features[w] EXCEPT !.canceled = TRUE]
<1>3. v \in Fe!Feature /\ v.month = features[w].month
  BY <1>1, <1>2 DEF Fe!Feature
<1>4. v # None /\ features' = [features EXCEPT ![w] = v]
  BY <1>1, <1>3, FeA
<1> HIDE DEF v
<1>5. isFeatured' \in BOOLEAN
  BY <1>1 DEF Fe!MirrorWithout
<1>6. features' \in [Windows -> Fe!Feature \cup {None}]
  BY <1>2, <1>3, <1>4
<1>7. Fe!TypeOK'
  BY <1>1, <1>5, <1>6 DEF FeInv, Fe!TypeOK
<1>8. \A u \in Windows : /\ features'[u] # None <=> features[u] # None
                         /\ features[u] # None => features'[u].month = features[u].month
  BY <1>1, <1>2, <1>3, <1>4
<1> QED BY <1>1, <1>7, <1>8, FeRests

\* What is queued, sent and mirrored.
LEMMA FeMirrors ==
  ASSUME FeInv,
         \/ \E s \in Slots : Fe!enqueueCreated(s)
         \/ Fe!deactivate \/ Fe!activate \/ Fe!enqueueActivated
         \/ Fe!runReach \/ Fe!crash \/ Fe!Advance \/ UNCHANGED Fe!vars
  PROVE  FeInv'
<1>0. /\ now \in Fe!Times /\ crashes \in 0..MaxCrashes /\ isFeatured \in BOOLEAN
      /\ job \in BOOLEAN /\ reached \subseteq Windows /\ DOMAIN slot = Slots
      /\ tick \in {"due", "deactivated", "enqueuing", "ran"}
  BY DEF FeInv, Fe!TypeOK
<1>1. UNCHANGED <<features, usage>>
  BY DEF Fe!enqueueCreated, Fe!deactivate, Fe!activate, Fe!enqueueActivated, Fe!runReach,
         Fe!crash, Fe!Advance, Fe!vars
<1>2. DOMAIN slot' = Slots /\ \A s \in Slots : slot'[s] = slot[s] \/ slot'[s] = None
  BY <1>0 DEF Fe!enqueueCreated, Fe!Step, Fe!deactivate, Fe!activate, Fe!enqueueActivated,
              Fe!runReach, Fe!crash, Fe!Advance, Fe!vars
<1>3. isFeatured' \in BOOLEAN /\ job' \in BOOLEAN
  <2>1. isFeatured' \in BOOLEAN
    BY <1>0 DEF Fe!enqueueCreated, Fe!deactivate, Fe!activate, Fe!enqueueActivated,
                Fe!runReach, Fe!crash, Fe!Advance, Fe!vars
  <2>2. job' \in BOOLEAN
    BY <1>0 DEF Fe!enqueueCreated, Fe!deactivate, Fe!activate, Fe!enqueueActivated,
                Fe!runReach, Fe!crash, Fe!Advance, Fe!vars
  <2> QED BY <2>1, <2>2
<1>4. reached' \subseteq Windows
  BY <1>0 DEF Fe!enqueueCreated, Fe!deactivate, Fe!activate, Fe!enqueueActivated, Fe!runReach,
              Fe!ActiveFeatures, Fe!Bought, Fe!crash, Fe!Advance, Fe!vars
<1>5. tick' \in {"due", "deactivated", "enqueuing", "ran"}
  BY <1>0 DEF Fe!enqueueCreated, Fe!deactivate, Fe!activate, Fe!enqueueActivated, Fe!runReach,
              Fe!crash, Fe!Advance, Fe!vars
<1>6. now' \in Fe!Times
  <2>1. UNCHANGED now \/ (now < EventDate /\ now' = now + 1)
    BY DEF Fe!enqueueCreated, Fe!deactivate, Fe!activate, Fe!enqueueActivated, Fe!runReach,
           Fe!crash, Fe!Advance, Fe!vars
  <2> QED BY <1>0, <2>1, FeA DEF Fe!Times
<1>7. crashes' \in 0..MaxCrashes
  <2>1. UNCHANGED crashes \/ (crashes < MaxCrashes /\ crashes' = crashes + 1)
    BY DEF Fe!enqueueCreated, Fe!deactivate, Fe!activate, Fe!enqueueActivated, Fe!runReach,
           Fe!crash, Fe!Advance, Fe!vars
  <2> QED BY <1>0, <2>1, FeA
<1>8. Fe!TypeOK'
  BY <1>1, <1>2, <1>3, <1>4, <1>5, <1>6, <1>7 DEF FeInv, Fe!TypeOK
<1> QED BY <1>1, <1>2, <1>8, FeRests

\* Every step of the promotions keeps their invariant.
LEMMA FeInvNext == FeInv /\ [Fe!Next]_(Fe!vars) => FeInv'
BY FeAdds, FeBuys, FeCancels, FeMirrors DEF Fe!Next

\* The invariant has the quota.
LEMMA FeFollows == FeInv => Fe!TypeOK /\ Fe!QuotaCountsPurchases
BY FeCount DEF FeInv, FeBought, Fe!QuotaCountsPurchases

-----------------------------------------------------------------------------
(* The pushes. *)

\* What is assumed of the constants of the pushes.
LEMMA PuA == Attempts \in Nat /\ None \notin Owners
BY PlansAssumption DEF Pu!PushAssumption

\* A receipt that names a device the service no longer knows was counted, and its
\* row is still there; without the row, nothing waits for a receipt.
PuTold ==
  /\ \A i \in Tickets : receipt[i] = "gone" => refused /\ owner # None
  /\ owner # None /\ ~active => refused
  /\ owner = None => \A i \in Tickets : ticket[i] = "free"

PuInv == Pu!TypeOK /\ PuTold

\* The invariant begins.
LEMMA PuInvInit == Pu!Init => PuInv
<1> SUFFICES ASSUME Pu!Init PROVE PuInv
  OBVIOUS
<1>1. job.left \in 0..Attempts /\ job.to = None /\ pass.at = "idle" /\ pass.ok \cup pass.error = {}
  BY PuA DEF Pu!Init, Pu!NoJob, Pu!NoPass
<1>2. /\ ticket = [i \in Tickets |-> "free"] /\ receipt = [i \in Tickets |-> "none"]
      /\ ~installed /\ ~active /\ ~refused
      /\ installed \in BOOLEAN /\ active \in BOOLEAN /\ refused \in BOOLEAN
      /\ owner = None /\ held = None
  BY DEF Pu!Init
<1>3. Pu!TypeOK
  BY <1>1, <1>2 DEF Pu!TypeOK
<1> QED BY <1>2, <1>3 DEF PuInv, PuTold

\* The device, its owner and its row.
LEMMA PuDevice ==
  ASSUME PuInv, NEW u \in Owners, Pu!install \/ Pu!registerDevice(u) \/ Pu!removeDevice(u)
  PROVE  PuInv'
<1>1. CASE Pu!install
  BY <1>1 DEF Pu!install, Pu!Move, PuInv, PuTold, Pu!TypeOK
<1>2. CASE Pu!registerDevice(u)
  BY <1>2, PuA DEF Pu!registerDevice, Pu!Move, PuInv, PuTold, Pu!TypeOK
<1>3. CASE Pu!removeDevice(u)
  BY <1>3 DEF Pu!removeDevice, Pu!Move, PuInv, PuTold, Pu!TypeOK
<1> QED BY <1>1, <1>2, <1>3

\* The worker and the service.
LEMMA PuWorker ==
  ASSUME PuInv,
         \/ \E u \in Owners : Pu!enqueuePush(u)
         \/ Pu!findActiveDeviceTokens \/ Pu!sendFails
         \/ \E i \in Tickets : \/ Pu!send(i)
                               \/ \E e \in {"gone", "rate"} : Pu!sendRefused(i, e)
                               \/ \E r \in {"ok", "rate", "gone", "lost"} : Pu!receiptArrives(i, r)
  PROVE  PuInv'
<1>1. ASSUME NEW u \in Owners, Pu!enqueuePush(u) PROVE PuInv'
  BY <1>1, PuA DEF Pu!enqueuePush, Pu!device, PuInv, PuTold, Pu!TypeOK
<1>2. CASE Pu!findActiveDeviceTokens
  BY <1>2, PuA DEF Pu!findActiveDeviceTokens, Pu!device, Pu!NoJob, PuInv, PuTold, Pu!TypeOK
<1>3. CASE Pu!sendFails
  BY <1>3, PuA DEF Pu!sendFails, Pu!device, Pu!NoJob, PuInv, PuTold, Pu!TypeOK
<1>4. ASSUME NEW i \in Tickets, Pu!send(i) PROVE PuInv'
  BY <1>4, PuA DEF Pu!send, Pu!device, Pu!NoJob, PuInv, PuTold, Pu!TypeOK
<1>5. ASSUME NEW i \in Tickets, NEW e \in {"gone", "rate"}, Pu!sendRefused(i, e) PROVE PuInv'
  BY <1>5, PuA DEF Pu!sendRefused, Pu!NoJob, Pu!RemovesToken, PuInv, PuTold, Pu!TypeOK
<1>6. ASSUME NEW i \in Tickets, NEW r \in {"ok", "rate", "gone", "lost"}, Pu!receiptArrives(i, r)
      PROVE  PuInv'
  BY <1>6 DEF Pu!receiptArrives, PuInv, PuTold, Pu!TypeOK
<1> QED BY <1>1, <1>2, <1>3, <1>4, <1>5, <1>6

\* The reconciler.
LEMMA PuPass == ASSUME PuInv, Pu!Reconcile \/ Pu!passFails PROVE PuInv'
<1>1. CASE Pu!findPendingReceipts
  <2>1. PICK S \in Pu!Batches :
          pass' = [at |-> "statuses",
                   ok |-> {i \in S \cap Pu!Available : receipt[i] = "ok"},
                   error |-> {i \in S \cap Pu!Available : receipt[i] # "ok"}]
    BY <1>1 DEF Pu!findPendingReceipts
  <2>2. S \subseteq Tickets
    BY DEF Pu!Batches, Pu!Pending
  <2>3. pass'.at = "statuses" /\ pass'.ok \cup pass'.error \subseteq Tickets
    BY <2>1, <2>2
  <2> QED BY <1>1, <2>3 DEF Pu!findPendingReceipts, Pu!device, PuInv, PuTold, Pu!TypeOK
<1>2. CASE Pu!updatePushTicketsStatus
  <2>1. pass'.at = "invalidate" /\ pass'.ok \cup pass'.error \subseteq Tickets
    BY <1>2 DEF Pu!updatePushTicketsStatus, PuInv, Pu!TypeOK
  <2>2. /\ ticket' \in [Tickets -> {"free", "PENDING", "OK", "ERROR"}]
        /\ \A i \in Tickets : ticket[i] = "free" => ticket'[i] = "free"
    BY <1>2 DEF Pu!updatePushTicketsStatus, Pu!Updated, PuInv, Pu!TypeOK
  <2> QED BY <1>2, <2>1, <2>2
          DEF Pu!updatePushTicketsStatus, Pu!device, PuInv, PuTold, Pu!TypeOK
<1>3. CASE Pu!invalidateDeviceTokens
  <2>1. pass.error \subseteq Tickets
    BY DEF PuInv, Pu!TypeOK
  <2>2. active' \in BOOLEAN /\ (owner # None /\ ~active' => refused)
    BY <1>3, <2>1 DEF Pu!invalidateDeviceTokens, Pu!RemovesToken, PuInv, PuTold
  <2> QED BY <1>3, <2>2 DEF Pu!invalidateDeviceTokens, Pu!NoPass, PuInv, PuTold, Pu!TypeOK
<1>4. CASE Pu!passFails
  BY <1>4 DEF Pu!passFails, Pu!device, Pu!NoPass, PuInv, PuTold, Pu!TypeOK
<1> QED BY <1>1, <1>2, <1>3, <1>4 DEF Pu!Reconcile

\* Every step of the pushes keeps their invariant.
LEMMA PuInvNext == PuInv /\ [Pu!Next]_(Pu!vars) => PuInv'
<1> SUFFICES ASSUME PuInv, [Pu!Next]_(Pu!vars) PROVE PuInv'
  OBVIOUS
<1>1. CASE Pu!install
  <2>1. CASE Owners # {}
    BY <1>1, <2>1, PuDevice
  <2>2. CASE Owners = {}
    BY <1>1 DEF Pu!install, Pu!Move, PuInv, PuTold, Pu!TypeOK
  <2> QED BY <2>1, <2>2
<1>2. CASE UNCHANGED Pu!vars
  BY <1>2 DEF Pu!vars, PuInv, PuTold, Pu!TypeOK
<1> QED BY <1>1, <1>2, PuDevice, PuWorker, PuPass DEF Pu!Next

\* The invariant has the silence of the dead alone.
LEMMA PuFollows == PuInv => Pu!TypeOK /\ Pu!OnlyDeadSilenced
BY DEF PuInv, PuTold, Pu!OnlyDeadSilenced

-----------------------------------------------------------------------------
(* Orders.                                                                 *)

\* The members of S before i, and how many they are.
Ahead(S, R, i) == {j \in S : <<j, i>> \in R}
Place(S, R, i) == Cardinality(Ahead(S, R, i))

\* R is a strict order of S.
Strict(S, R) ==
  /\ \A i \in S : <<i, i>> \notin R
  /\ \A i, j \in S : i = j \/ <<i, j>> \in R \/ <<j, i>> \in R
  /\ \A i, j, k \in S : <<i, j>> \in R /\ <<j, k>> \in R => <<i, k>> \in R

\* q has the members of S at their places.
Lined(S, R, q) ==
  /\ q \in [1..Cardinality(S) -> S]
  /\ \A i \in S : Place(S, R, i) \in 0..(Cardinality(S) - 1) /\ q[Place(S, R, i) + 1] = i
  /\ \A n \in 1..Cardinality(S) : Place(S, R, q[n]) = n - 1

\* Places are numbers below the size, and who is before has a smaller one.
LEMMA PlacesGrow ==
  ASSUME NEW S, IsFiniteSet(S), NEW R, Strict(S, R)
  PROVE  /\ Cardinality(S) \in Nat
         /\ \A i \in S : Place(S, R, i) \in 0..(Cardinality(S) - 1)
         /\ \A i, j \in S : <<i, j>> \in R => Place(S, R, i) < Place(S, R, j)
<1>1. \A i \in S : Ahead(S, R, i) \in SUBSET S /\ i \notin Ahead(S, R, i)
  BY DEF Strict, Ahead
<1>2. \A i \in S : IsFiniteSet(Ahead(S, R, i)) /\ Place(S, R, i) \in Nat
  BY <1>1, FS_Subset, FS_CardinalityType DEF Place
<1>3. Cardinality(S) \in Nat
  BY FS_CardinalityType
<1>4. ASSUME NEW i \in S PROVE Place(S, R, i) \in 0..(Cardinality(S) - 1)
  <2>1. Cardinality(Ahead(S, R, i)) <= Cardinality(S)
        /\ (Cardinality(S) = Cardinality(Ahead(S, R, i)) => S = Ahead(S, R, i))
    BY <1>1, FS_Subset
  <2>2. Place(S, R, i) <= Cardinality(S) /\ Place(S, R, i) # Cardinality(S)
    BY <1>1, <2>1 DEF Place
  <2> QED BY <1>2, <1>3, <2>2
<1>5. ASSUME NEW i \in S, NEW j \in S, <<i, j>> \in R PROVE Place(S, R, i) < Place(S, R, j)
  <2>1. Ahead(S, R, i) \in SUBSET Ahead(S, R, j) /\ i \in Ahead(S, R, j)
    BY <1>5 DEF Strict, Ahead
  <2>2. Cardinality(Ahead(S, R, i)) <= Cardinality(Ahead(S, R, j))
        /\ (Cardinality(Ahead(S, R, j)) = Cardinality(Ahead(S, R, i))
              => Ahead(S, R, j) = Ahead(S, R, i))
    BY <1>2, <2>1, FS_Subset
  <2>3. Place(S, R, i) <= Place(S, R, j) /\ Place(S, R, i) # Place(S, R, j)
    BY <1>1, <2>1, <2>2 DEF Place
  <2> QED BY <1>2, <2>3
<1> QED BY <1>3, <1>4, <1>5

\* No two have one place, and no place is empty: a finite set is lined up by CHOOSE.
LEMMA Lines ==
  ASSUME NEW S, IsFiniteSet(S), NEW R, Strict(S, R), NEW q,
         q = [n \in 1..Cardinality(S) |-> CHOOSE i \in S : Place(S, R, i) = n - 1]
  PROVE  Lined(S, R, q)
<1>1. /\ Cardinality(S) \in Nat
      /\ \A i \in S : Place(S, R, i) \in 0..(Cardinality(S) - 1)
      /\ \A i, j \in S : <<i, j>> \in R => Place(S, R, i) < Place(S, R, j)
  BY PlacesGrow
<1>2. ASSUME NEW i \in S, NEW j \in S, Place(S, R, i) = Place(S, R, j) PROVE i = j
  <2>1. i = j \/ <<i, j>> \in R \/ <<j, i>> \in R
    BY DEF Strict
  <2> QED BY <1>1, <1>2, <2>1
<1>3. ASSUME NEW n \in 1..Cardinality(S) PROVE \E i \in S : Place(S, R, i) = n - 1
  <2> SUFFICES ASSUME \A i \in S : Place(S, R, i) # n - 1 PROVE FALSE
    OBVIOUS
  <2> DEFINE T == (0..(Cardinality(S) - 1)) \ {n - 1}
             f == [i \in S |-> Place(S, R, i)]
  <2>1. f \in [S -> T]
    BY <1>1
  <2>2. IsFiniteSet(0..(Cardinality(S) - 1)) /\ Cardinality(0..(Cardinality(S) - 1)) = Cardinality(S)
    <3>1. 0 \in Int /\ Cardinality(S) - 1 \in Int
      BY <1>1
    <3>2. IsFiniteSet(0..(Cardinality(S) - 1))
          /\ Cardinality(0..(Cardinality(S) - 1)) = IF 0 > Cardinality(S) - 1 THEN 0 ELSE (Cardinality(S) - 1) - 0 + 1
      BY <3>1, FS_Interval
    <3> QED BY <1>1, <3>2
  <2>3. IsFiniteSet(T) /\ Cardinality(T) = Cardinality(S) - 1
    <3>1. n - 1 \in 0..(Cardinality(S) - 1)
      BY <1>1
    <3> QED BY <2>2, <3>1, FS_RemoveElement, Zenon
  <2>4. Cardinality(T) < Cardinality(S)
    BY <1>1, <2>3
  <2>5. \E x, y \in S : x # y /\ f[x] = f[y]
    <3> HIDE DEF T, f
    <3> QED BY <2>1, <2>3, <2>4, FS_PigeonHole
  <2> QED BY <1>2, <2>5
<1>4. \A n \in 1..Cardinality(S) : q[n] \in S /\ Place(S, R, q[n]) = n - 1
  BY <1>3
<1>5. \A i \in S : Place(S, R, i) + 1 \in 1..Cardinality(S)
  BY <1>1
<1>6. \A i \in S : q[Place(S, R, i) + 1] = i
  BY <1>1, <1>2, <1>4, <1>5
<1> QED BY <1>1, <1>4, <1>6 DEF Lined

\* What a line has, once each, in order.
LEMMA LineHas ==
  ASSUME NEW S, IsFiniteSet(S), NEW R, Strict(S, R), NEW q, Lined(S, R, q)
  PROVE  /\ Cardinality(S) \in Nat
         /\ \A n \in 1..Cardinality(S) : q[n] \in S
         /\ \A i \in S : \E n \in 1..Cardinality(S) : q[n] = i
         /\ \A m, n \in 1..Cardinality(S) : <<q[m], q[n]>> \in R <=> m < n
         /\ \A m, n \in 1..Cardinality(S) : q[m] = q[n] => m = n
<1>1. Cardinality(S) \in Nat /\ \A i, j \in S : <<i, j>> \in R => Place(S, R, i) < Place(S, R, j)
  BY PlacesGrow
<1>2. \A n \in 1..Cardinality(S) : q[n] \in S /\ Place(S, R, q[n]) = n - 1
  BY DEF Lined
<1>3. \A i \in S : Place(S, R, i) + 1 \in 1..Cardinality(S) /\ q[Place(S, R, i) + 1] = i
  BY <1>1 DEF Lined
<1>4. ASSUME NEW m \in 1..Cardinality(S), NEW n \in 1..Cardinality(S)
      PROVE  (<<q[m], q[n]>> \in R <=> m < n) /\ (q[m] = q[n] => m = n)
  <2>1. q[m] = q[n] \/ <<q[m], q[n]>> \in R \/ <<q[n], q[m]>> \in R
    BY <1>2 DEF Strict
  <2>2. <<q[m], q[n]>> \in R => m - 1 < n - 1
    BY <1>1, <1>2
  <2>3. <<q[n], q[m]>> \in R => n - 1 < m - 1
    BY <1>1, <1>2
  <2>4. q[m] = q[n] => m - 1 = n - 1
    BY <1>2
  <2> QED BY <2>1, <2>2, <2>3, <2>4
<1> QED BY <1>1, <1>2, <1>3, <1>4

\* The line of those from the m-th on is the rest of the line.
LEMMA LineRest ==
  ASSUME NEW S, IsFiniteSet(S), NEW R, Strict(S, R), NEW q, Lined(S, R, q),
         NEW m \in 1..Cardinality(S), NEW T \in SUBSET S,
         \A i \in S : i \in T <=> i = q[m] \/ <<q[m], i>> \in R,
         NEW t, Lined(T, R, t)
  PROVE  /\ Cardinality(T) = Cardinality(S) - m + 1
         /\ \A n \in 1..Cardinality(T) : t[n] = q[n + m - 1]
<1>0. /\ Cardinality(S) \in Nat
      /\ q[m] \in S /\ Place(S, R, q[m]) = m - 1
  BY PlacesGrow DEF Lined
<1>1. T \in SUBSET S /\ IsFiniteSet(T) /\ Strict(T, R) /\ Cardinality(T) \in Nat
  <2>1. T \in SUBSET S
    OBVIOUS
  <2>2. Strict(T, R)
    BY <2>1 DEF Strict
  <2> QED BY <2>1, <2>2, FS_Subset, FS_CardinalityType
<1>2. Ahead(S, R, q[m]) = S \ T
  BY <1>0 DEF Ahead, Strict
<1>3. IsFiniteSet(S \ T) /\ Cardinality(S \ T) = m - 1
  BY <1>0, <1>1, <1>2, FS_Difference DEF Place
<1>4. Cardinality(T) = Cardinality(S) - (m - 1)
  <2>1. S \cap T = T
    BY <1>1
  <2>2. Cardinality(S \ T) = Cardinality(S) - Cardinality(S \cap T)
    BY FS_Difference
  <2>3. Cardinality(S \cap T) = Cardinality(T)
    BY <2>1
  <2>4. m - 1 = Cardinality(S) - Cardinality(T)
    BY <1>3, <2>2, <2>3
  <2> QED BY <1>0, <1>1, <2>4
<1>5. ASSUME NEW i \in T PROVE Place(S, R, i) = Place(T, R, i) + (m - 1)
  <2>1. Ahead(S, R, i) = (S \ T) \cup Ahead(T, R, i)
    <3>1. \A j \in S \ T : <<j, q[m]>> \in R
      BY <1>2 DEF Ahead
    <3>2. \A j \in S \ T : <<j, i>> \in R
      BY <1>0, <1>1, <3>1 DEF Strict
    <3> QED BY <1>1, <3>2 DEF Ahead
  <2>2. (S \ T) \cap Ahead(T, R, i) = {}
    BY DEF Ahead
  <2>3. Ahead(T, R, i) \in SUBSET T
    BY DEF Ahead
  <2>4. IsFiniteSet(Ahead(T, R, i)) /\ Cardinality(Ahead(T, R, i)) \in Nat
    BY <1>1, <2>3, FS_Subset, FS_CardinalityType
  <2>5. Cardinality((S \ T) \cup Ahead(T, R, i))
          = Cardinality(S \ T) + Cardinality(Ahead(T, R, i)) - Cardinality((S \ T) \cap Ahead(T, R, i))
    BY <1>3, <2>4, FS_Union
  <2>6. Cardinality((S \ T) \cap Ahead(T, R, i)) = 0
    BY <2>2, FS_EmptySet
  <2> QED BY <1>0, <1>3, <2>1, <2>4, <2>5, <2>6 DEF Place
<1>6. ASSUME NEW n \in 1..Cardinality(T) PROVE t[n] = q[n + m - 1]
  <2>1. t[n] \in T /\ Place(T, R, t[n]) = n - 1
    BY DEF Lined
  <2>2. t[n] \in S /\ Place(S, R, t[n]) = n - 1 + (m - 1)
    BY <1>1, <1>5, <2>1
  <2>3. q[Place(S, R, t[n]) + 1] = t[n]
    BY <2>2 DEF Lined
  <2>4. n - 1 + (m - 1) + 1 = n + m - 1
    BY <1>0, <1>1
  <2> QED BY <2>2, <2>3, <2>4
<1> QED BY <1>0, <1>4, <1>6

-----------------------------------------------------------------------------
(* Lists.                                                                  *)

\* What is assumed of the constants of the lists.
LEMMA LiA ==
  /\ Ids \subseteq Nat /\ IsFiniteSet(Ids) /\ None \notin Ids
  /\ Mine \subseteq Ids /\ HasImages \subseteq Ids
  /\ DEFAULT_DURATION \in Nat \ {0} /\ Limit \in Nat \ {0}
  /\ SOON_THRESHOLD \in Nat /\ RECENT_PAST \in Nat /\ Horizon \in Nat
  /\ MaxEdits \in Nat /\ ViewportLimit \in Nat
BY PlansAssumption DEF Li!ListsAssumption, Li!IsFiniteSet, IsFiniteSet

\* The instance counts as everybody does.
LEMMA LiCount == \A S : Li!Cardinality(S) = Cardinality(S)
BY DEF Li!Cardinality, Cardinality

LiShape ==
  /\ rows \in [Ids -> Li!Event] /\ \A i \in Ids : Li!Valid(rows[i])
  /\ now \in Nat /\ changes \in 0..MaxEdits
  /\ social \in BOOLEAN /\ done \in BOOLEAN /\ still \in BOOLEAN
  /\ cursor \in Ids \cup {None} /\ listed \in Seq(Ids)

\* The times of an event.
LEMMA LiTimes ==
  ASSUME LiShape, NEW i \in Ids
  PROVE  /\ rows[i].date \in Nat /\ now \in Nat
         /\ rows[i].canceled \in BOOLEAN /\ rows[i].featured \in BOOLEAN
         /\ rows[i].end # None => rows[i].end \in Nat /\ rows[i].end > rows[i].date
<1>1. rows[i] \in Li!Event /\ Li!Valid(rows[i])
  BY DEF LiShape
<1>2. rows[i].date \in 1..(Horizon - 1) /\ rows[i].end \in {None} \cup 2..Horizon
      /\ rows[i].canceled \in BOOLEAN /\ rows[i].featured \in BOOLEAN
  BY <1>1 DEF Li!Event, Li!Dates
<1>3. rows[i].end # None => rows[i].end \in 2..Horizon
  BY <1>2
<1>4. rows[i].end # None => rows[i].end > rows[i].date
  BY <1>1 DEF Li!Valid
<1> QED BY <1>2, <1>3, <1>4, LiA DEF LiShape

\* The status of an event, by its times.
LEMMA LiStatus ==
  ASSUME LiShape, NEW i \in Ids
  PROVE  /\ Li!ComputeEventStatus(rows[i]) \in Li!Statuses
         /\ \A status \in Li!Statuses :
              Li!StatusCondition(status, rows[i]) <=> Li!ComputeEventStatus(rows[i]) = status
         /\ Li!Unended(rows[i]) <=> ~Li!Ended(rows[i])
<1> DEFINE e == rows[i]
           ends == Li!ResolveEndDate(e)
           status == Li!ComputeEventStatus(e)
<1>1. /\ e.date \in Nat /\ now \in Nat /\ e.canceled \in BOOLEAN /\ e.featured \in BOOLEAN
      /\ e.end # None => e.end \in Nat /\ e.end > e.date
      /\ DEFAULT_DURATION \in Nat \ {0} /\ SOON_THRESHOLD \in Nat
  BY LiTimes, LiA
<1>2. ends \in Nat /\ ends > e.date
  BY <1>1 DEF Li!ResolveEndDate
<1>3. (Li!Ended(e) <=> now >= ends) /\ (Li!Unended(e) <=> ~(now >= ends))
  BY <1>1 DEF Li!Ended, Li!Unended, Li!ResolveEndDate
<1> HIDE DEF ends
<1>4. status = IF e.canceled THEN "CANCELED"
               ELSE IF now >= ends THEN "PAST"
               ELSE IF now >= e.date THEN "ONGOING"
               ELSE IF e.date - now <= SOON_THRESHOLD THEN "SOON" ELSE "UPCOMING"
  BY DEF Li!ComputeEventStatus, ends
<1> HIDE DEF status
<1>5. status \in Li!Statuses
  BY <1>4 DEF Li!Statuses
<1>6. Li!StatusCondition("CANCELED", e) <=> status = "CANCELED"
  BY <1>4 DEF Li!StatusCondition
<1>7. Li!StatusCondition("PAST", e) <=> status = "PAST"
  BY <1>3, <1>4 DEF Li!StatusCondition
<1>8. Li!StatusCondition("ONGOING", e) <=> status = "ONGOING"
  BY <1>1, <1>3, <1>4 DEF Li!StatusCondition
<1>9. e.date > now => ~(now >= ends) /\ ~(now >= e.date)
  BY <1>1, <1>2
<1>10. (e.date <= now + SOON_THRESHOLD <=> e.date - now <= SOON_THRESHOLD)
       /\ (e.date > now + SOON_THRESHOLD <=> ~(e.date - now <= SOON_THRESHOLD))
       /\ (e.date > now <=> ~(now >= e.date))
       /\ (e.date > now + SOON_THRESHOLD => e.date > now)
  BY <1>1
<1>11. Li!StatusCondition("SOON", e) <=> status = "SOON"
  BY <1>4, <1>9, <1>10 DEF Li!StatusCondition
<1>12. Li!StatusCondition("UPCOMING", e) <=> status = "UPCOMING"
  BY <1>4, <1>9, <1>10 DEF Li!StatusCondition
<1>13. \A s \in Li!Statuses : Li!StatusCondition(s, e) <=> status = s
  BY <1>6, <1>7, <1>8, <1>11, <1>12 DEF Li!Statuses
<1> QED BY <1>3, <1>5, <1>13 DEF status

\* The open events and the history are what the queries find.
LEMMA LiOpen ==
  ASSUME LiShape
  PROVE  /\ Li!ProfileWhere \subseteq Ids /\ Li!Open \subseteq Li!ProfileWhere
         /\ Li!ActiveWhere = Li!Open
         /\ Li!ClosedWhere = Li!ProfileWhere \ Li!Open
         /\ \A i \in Li!ProfileWhere : Li!LifecycleWhere(FALSE, {}, rows[i]) <=> i \in Li!Open
<1>1. Li!ProfileWhere \subseteq Ids
  BY DEF Li!ProfileWhere, Li!ProfileScope
<1>2. ASSUME NEW i \in Li!ProfileWhere
      PROVE  /\ (Li!LifecycleWhere(FALSE, {}, rows[i]) <=> i \in Li!Open)
             /\ (Li!StatusCondition("PAST", rows[i]) \/ Li!StatusCondition("CANCELED", rows[i])
                   <=> i \notin Li!Open)
  <2>1. i \in Ids
    BY <1>1
  <2>2. /\ (Li!StatusCondition("PAST", rows[i]) <=> Li!ComputeEventStatus(rows[i]) = "PAST")
        /\ (Li!StatusCondition("CANCELED", rows[i]) <=> Li!ComputeEventStatus(rows[i]) = "CANCELED")
        /\ (Li!Unended(rows[i]) <=> ~Li!Ended(rows[i]))
    BY <2>1, LiStatus DEF Li!Statuses
  <2>3. i \in Li!Open <=> Li!ComputeEventStatus(rows[i]) \notin {"PAST", "CANCELED"}
    BY DEF Li!Open
  <2>4. Li!LifecycleWhere(FALSE, {}, rows[i]) <=> ~rows[i].canceled /\ Li!Unended(rows[i])
    BY DEF Li!LifecycleWhere
  <2>5. Li!StatusCondition("CANCELED", rows[i]) <=> rows[i].canceled
    BY <2>1, LiTimes DEF Li!StatusCondition
  <2>6. Li!StatusCondition("PAST", rows[i]) <=> ~rows[i].canceled /\ Li!Ended(rows[i])
    BY <2>1, LiTimes DEF Li!StatusCondition
  <2> QED BY <2>2, <2>3, <2>4, <2>5, <2>6
<1>3. Li!Open \subseteq Li!ProfileWhere
  BY DEF Li!Open
<1> QED BY <1>1, <1>2, <1>3 DEF Li!ActiveWhere, Li!ClosedWhere

-----------------------------------------------------------------------------
(* The orders of the lists are strict.                                     *)

LiActive == {p \in Ids \X Ids : Li!ActiveBefore(p[1], p[2])}
LiClosed == {p \in Ids \X Ids : Li!ClosedBefore(p[1], p[2])}
LiHeavy == {p \in Ids \X Ids : Li!Heavier(p[1], p[2])}

\* Events have one place each, in every order of theirs.
LEMMA LiStrict ==
  ASSUME LiShape, NEW S \in SUBSET Ids
  PROVE  Strict(S, LiActive) /\ Strict(S, LiClosed) /\ Strict(S, LiHeavy)
<1>0. S \subseteq Ids /\ Ids \subseteq Nat
  BY LiA
<1>1. \A i \in S : rows[i].date \in Nat /\ rows[i].featured \in BOOLEAN
  BY LiTimes
<1>2. \A i, j \in S : /\ <<i, j>> \in LiActive <=> Li!ActiveBefore(i, j)
                      /\ <<i, j>> \in LiClosed <=> Li!ClosedBefore(i, j)
                      /\ <<i, j>> \in LiHeavy <=> Li!Heavier(i, j)
  BY <1>0 DEF LiActive, LiClosed, LiHeavy
<1>3. Strict(S, LiActive)
  <2>1. \A i \in S : ~Li!ActiveBefore(i, i)
    BY <1>0, <1>1 DEF Li!ActiveBefore
  <2>2. \A i, j \in S : i = j \/ Li!ActiveBefore(i, j) \/ Li!ActiveBefore(j, i)
    BY <1>0, <1>1 DEF Li!ActiveBefore
  <2>3. \A i, j, k \in S : Li!ActiveBefore(i, j) /\ Li!ActiveBefore(j, k) => Li!ActiveBefore(i, k)
    BY <1>0, <1>1 DEF Li!ActiveBefore
  <2> QED BY <1>2, <2>1, <2>2, <2>3 DEF Strict
<1>4. Strict(S, LiClosed)
  <2>1. \A i \in S : ~Li!ClosedBefore(i, i)
    BY <1>0, <1>1 DEF Li!ClosedBefore
  <2>2. \A i, j \in S : i = j \/ Li!ClosedBefore(i, j) \/ Li!ClosedBefore(j, i)
    BY <1>0, <1>1 DEF Li!ClosedBefore
  <2>3. \A i, j, k \in S : Li!ClosedBefore(i, j) /\ Li!ClosedBefore(j, k) => Li!ClosedBefore(i, k)
    BY <1>0, <1>1 DEF Li!ClosedBefore
  <2> QED BY <1>2, <2>1, <2>2, <2>3 DEF Strict
<1>5. Strict(S, LiHeavy)
  <2>1. ASSUME NEW i \in S PROVE Li!Weight(i) \in Int
    <3>1. Li!ComputeEventStatus(rows[i]) \in Li!Statuses
      BY LiStatus, <1>0
    <3>2. Li!STATUS_HEATMAP_BOOST[Li!ComputeEventStatus(rows[i])] \in Int
      BY <3>1 DEF Li!STATUS_HEATMAP_BOOST
    <3>3. Li!Engagement(i) \in Int /\ Li!FEATURED_HEATMAP_BOOST \in Int
      BY DEF Li!Engagement, Li!FEATURED_HEATMAP_BOOST
    <3> QED BY <3>2, <3>3 DEF Li!Weight
  <2>2. \A i \in S : ~Li!Heavier(i, i)
    BY <1>0, <2>1 DEF Li!Heavier
  <2>3. \A i, j \in S : i = j \/ Li!Heavier(i, j) \/ Li!Heavier(j, i)
    BY <1>0, <2>1 DEF Li!Heavier
  <2>4. \A i, j, k \in S : Li!Heavier(i, j) /\ Li!Heavier(j, k) => Li!Heavier(i, k)
    BY <1>0, <2>1 DEF Li!Heavier
  <2> QED BY <1>2, <2>2, <2>3, <2>4 DEF Strict
<1> QED BY <1>3, <1>4, <1>5

\* The lists of the queries are lines.
LEMMA LiLines ==
  ASSUME LiShape, NEW S \in SUBSET Ids
  PROVE  /\ IsFiniteSet(S) /\ Strict(S, LiActive) /\ Strict(S, LiClosed) /\ Strict(S, LiHeavy)
         /\ Lined(S, LiActive, Li!ActiveOrder(S))
         /\ Lined(S, LiClosed, Li!ClosedOrder(S))
         /\ Lined(S, LiHeavy, Li!Sorted(S, Li!Heavier))
<1>0. IsFiniteSet(S) /\ Li!Cardinality(S) = Cardinality(S)
  BY LiA, LiCount, FS_Subset
<1>1. Strict(S, LiActive) /\ Strict(S, LiClosed) /\ Strict(S, LiHeavy)
  BY LiStrict
<1>2. \A i \in S : Place(S, LiActive, i) = Li!Cardinality({j \in S : Li!ActiveBefore(j, i)})
  <2>1. \A i \in S : Ahead(S, LiActive, i) = {j \in S : Li!ActiveBefore(j, i)}
    BY DEF Ahead, LiActive
  <2> QED BY <2>1, LiCount DEF Place
<1>3. \A i \in S : Place(S, LiClosed, i) = Li!Cardinality({j \in S : Li!ClosedBefore(j, i)})
  <2>1. \A i \in S : Ahead(S, LiClosed, i) = {j \in S : Li!ClosedBefore(j, i)}
    BY DEF Ahead, LiClosed
  <2> QED BY <2>1, LiCount DEF Place
<1>4. \A i \in S : Place(S, LiHeavy, i) = Li!Cardinality({j \in S : Li!Heavier(j, i)})
  <2>1. \A i \in S : Ahead(S, LiHeavy, i) = {j \in S : Li!Heavier(j, i)}
    BY DEF Ahead, LiHeavy
  <2> QED BY <2>1, LiCount DEF Place
<1>5. Li!ActiveOrder(S) = [n \in 1..Cardinality(S) |-> CHOOSE i \in S : Place(S, LiActive, i) = n - 1]
  BY <1>0, <1>2 DEF Li!ActiveOrder, Li!Sorted
<1>6. Li!ClosedOrder(S) = [n \in 1..Cardinality(S) |-> CHOOSE i \in S : Place(S, LiClosed, i) = n - 1]
  BY <1>0, <1>3 DEF Li!ClosedOrder, Li!Sorted
<1>7. Li!Sorted(S, Li!Heavier)
        = [n \in 1..Cardinality(S) |-> CHOOSE i \in S : Place(S, LiHeavy, i) = n - 1]
  BY <1>0, <1>4 DEF Li!Sorted
<1>8. Lined(S, LiActive, Li!ActiveOrder(S))
  BY <1>0, <1>1, <1>5, Lines
<1>9. Lined(S, LiClosed, Li!ClosedOrder(S))
  BY <1>0, <1>1, <1>6, Lines
<1>10. Lined(S, LiHeavy, Li!Sorted(S, Li!Heavier))
  BY <1>0, <1>1, <1>7, Lines
<1> QED BY <1>0, <1>1, <1>8, <1>9, <1>10

-----------------------------------------------------------------------------
(* The pages of a profile.                                                 *)

\* The first n of a sequence, or all of it.
LEMMA LiTake ==
  ASSUME NEW X, NEW s \in Seq(X), NEW n \in Nat
  PROVE  /\ Li!Take(s, n) \in Seq(X)
         /\ Len(Li!Take(s, n)) = IF n < Len(s) THEN n ELSE Len(s)
         /\ \A k \in 1..Len(Li!Take(s, n)) : Li!Take(s, n)[k] = s[k]
<1>1. Len(s) \in Nat
  BY LenProperties
<1>2. PICK m \in Nat : m = (IF n < Len(s) THEN n ELSE Len(s)) /\ m <= Len(s)
  BY <1>1
<1>3. Li!Take(s, n) = SubSeq(s, 1, m)
  BY <1>2 DEF Li!Take
<1>4. SubSeq(s, 1, m) \in Seq(X) /\ Len(SubSeq(s, 1, m)) = m
      /\ \A k \in 1..m : SubSeq(s, 1, m)[k] = s[k]
  BY <1>1, <1>2, SubSeqProperties
<1> QED BY <1>2, <1>3, <1>4

\* What a line that begins with the cursor leaves, without it, up to the length.
LEMMA LiSkip ==
  ASSUME NEW X, NEW s \in Seq(X), NEW n \in Nat, s # <<>>
  PROVE  /\ Li!Take(Tail(s), n) \in Seq(X)
         /\ Len(Li!Take(Tail(s), n)) = IF n < Len(s) - 1 THEN n ELSE Len(s) - 1
         /\ \A k \in 1..Len(Li!Take(Tail(s), n)) : Li!Take(Tail(s), n)[k] = s[k + 1]
<1> DEFINE p == Li!Take(Tail(s), n)
<1>1. Tail(s) \in Seq(X) /\ Len(Tail(s)) = Len(s) - 1 /\ Len(s) \in Nat
      /\ \A k \in 1..Len(Tail(s)) : Tail(s)[k] = s[k + 1]
  BY HeadTailProperties, LenProperties
<1>2. /\ p \in Seq(X)
      /\ Len(p) = IF n < Len(Tail(s)) THEN n ELSE Len(Tail(s))
      /\ \A k \in 1..Len(p) : p[k] = Tail(s)[k]
  BY <1>1, LiTake, Zenon
<1> HIDE DEF p
<1>3. Len(p) = IF n < Len(s) - 1 THEN n ELSE Len(s) - 1
  BY <1>1, <1>2, Zenon
<1>4. \A k \in 1..Len(p) : k \in 1..Len(Tail(s))
  <2>1. Len(p) \in Nat /\ Len(Tail(s)) \in Nat
    BY <1>1, <1>2, LenProperties, Zenon
  <2>2. Len(p) <= Len(Tail(s))
    BY <1>2, <2>1
  <2> QED BY <2>1, <2>2
<1>5. \A k \in 1..Len(p) : p[k] = s[k + 1]
  BY <1>1, <1>2, <1>4, Zenon
<1> QED BY <1>2, <1>3, <1>5 DEF p

\* A line is a sequence.
LEMMA LineSeq ==
  ASSUME NEW S, IsFiniteSet(S), NEW R, NEW q, Lined(S, R, q)
  PROVE  q \in Seq(S) /\ Len(q) = Cardinality(S)
<1>1. Cardinality(S) \in Nat /\ q \in [1..Cardinality(S) -> S]
  BY FS_CardinalityType DEF Lined
<1> QED BY <1>1, IsASeq, LenProperties

\* One page of one order: what comes after the cursor, up to the length.
LEMMA LiPages ==
  ASSUME LiShape, NEW S \in SUBSET Ids, NEW take \in Nat, NEW m \in 1..Cardinality(S)
  PROVE  /\ LET q == Li!ActiveOrder(S)
                page == Li!ActivePage(S, take, q[m]) IN
            /\ page \in Seq(Ids)
            /\ Len(page) = IF take < Cardinality(S) - m THEN take ELSE Cardinality(S) - m
            /\ \A k \in 1..Len(page) : page[k] = q[k + m]
         /\ LET q == Li!ClosedOrder(S)
                page == Li!ClosedPage(S, take, q[m]) IN
            /\ page \in Seq(Ids)
            /\ Len(page) = IF take < Cardinality(S) - m THEN take ELSE Cardinality(S) - m
            /\ \A k \in 1..Len(page) : page[k] = q[k + m]
<1>0. /\ IsFiniteSet(S) /\ Strict(S, LiActive) /\ Strict(S, LiClosed)
      /\ Lined(S, LiActive, Li!ActiveOrder(S)) /\ Lined(S, LiClosed, Li!ClosedOrder(S))
      /\ Cardinality(S) \in Nat /\ None \notin S
  BY LiLines, FS_CardinalityType, LiA
<1>1. ASSUME NEW R, NEW q, Strict(S, R), Lined(S, R, q), NEW T,
             T \in SUBSET S, \A i \in S : i \in T <=> i = q[m] \/ <<q[m], i>> \in R,
             NEW t, Lined(T, R, t),
             NEW page, page = Li!Take(Tail(t), take)
      PROVE  /\ t # <<>> /\ page \in Seq(Ids)
             /\ Len(page) = IF take < Cardinality(S) - m THEN take ELSE Cardinality(S) - m
             /\ \A k \in 1..Len(page) : page[k] = q[k + m]
  <2>1. T \in SUBSET S /\ IsFiniteSet(T)
    BY <1>0, <1>1, FS_Subset
  <2>2. Cardinality(T) = Cardinality(S) - m + 1 /\ \A n \in 1..Cardinality(T) : t[n] = q[n + m - 1]
    BY <1>0, <1>1, LineRest
  <2>3. t \in Seq(T) /\ Len(t) = Cardinality(T)
    BY <1>1, <2>1, LineSeq
  <2>4. t \in Seq(Ids) /\ t # <<>>
    <3>1. T \subseteq Ids
      BY <2>1
    <3>2. t \in Seq(Ids)
      BY <2>3, <3>1, SeqMonotonic
    <3>3. Len(t) # 0
      BY <1>0, <2>2, <2>3
    <3> QED BY <3>2, <3>3, EmptySeq
  <2>5. /\ page \in Seq(Ids)
        /\ Len(page) = IF take < Len(t) - 1 THEN take ELSE Len(t) - 1
        /\ \A k \in 1..Len(page) : page[k] = t[k + 1]
    BY <1>1, <2>4, LiSkip
  <2>6. Len(t) - 1 = Cardinality(S) - m
    BY <1>0, <2>2, <2>3
  <2>7. Len(page) = IF take < Cardinality(S) - m THEN take ELSE Cardinality(S) - m
    BY <2>5, <2>6
  <2>8. ASSUME NEW k \in 1..Len(page) PROVE page[k] = q[k + m]
    <3>1. k + 1 \in 1..Cardinality(T) /\ k + 1 + m - 1 = k + m
      BY <1>0, <2>2, <2>7
    <3>2. t[k + 1] = q[k + 1 + m - 1]
      BY <2>2, <3>1
    <3> QED BY <2>5, <3>1, <3>2
  <2> QED BY <2>4, <2>5, <2>7, <2>8
<1>2. ASSUME NEW q, q = Li!ActiveOrder(S), NEW page, page = Li!ActivePage(S, take, q[m])
      PROVE  /\ page \in Seq(Ids)
             /\ Len(page) = IF take < Cardinality(S) - m THEN take ELSE Cardinality(S) - m
             /\ \A k \in 1..Len(page) : page[k] = q[k + m]
  <2> DEFINE T == {i \in S : i = q[m] \/ <<q[m], i>> \in LiActive}
  <2>1. q[m] \in S /\ q[m] # None
    BY <1>0, <1>2 DEF Lined
  <2>2. T = Li!From(S, Li!ActiveBefore, q[m])
    BY <2>1 DEF Li!From, LiActive
  <2>3. T \in SUBSET Ids
    OBVIOUS
  <2>4. Lined(T, LiActive, Li!ActiveOrder(T))
    BY <2>3, LiLines
  <2>5. page = IF Li!ActiveOrder(T) = <<>> THEN <<>> ELSE Li!Take(Tail(Li!ActiveOrder(T)), take)
    BY <1>2, <2>1, <2>2 DEF Li!ActivePage
  <2> HIDE DEF T
  <2>6. T \in SUBSET S /\ \A i \in S : i \in T <=> i = q[m] \/ <<q[m], i>> \in LiActive
    BY DEF T
  <2>7. Li!ActiveOrder(T) # <<>>
    BY <1>0, <1>1, <1>2, <2>4, <2>6
  <2>8. page = Li!Take(Tail(Li!ActiveOrder(T)), take)
    BY <2>5, <2>7
  <2>9. Strict(S, LiActive) /\ Lined(S, LiActive, q)
    BY <1>0, <1>2
  <2> QED BY <1>1, <2>4, <2>6, <2>8, <2>9
<1>3. ASSUME NEW q, q = Li!ClosedOrder(S), NEW page, page = Li!ClosedPage(S, take, q[m])
      PROVE  /\ page \in Seq(Ids)
             /\ Len(page) = IF take < Cardinality(S) - m THEN take ELSE Cardinality(S) - m
             /\ \A k \in 1..Len(page) : page[k] = q[k + m]
  <2> DEFINE T == {i \in S : i = q[m] \/ <<q[m], i>> \in LiClosed}
  <2>1. q[m] \in S /\ q[m] # None
    BY <1>0, <1>3 DEF Lined
  <2>2. T = Li!From(S, Li!ClosedBefore, q[m])
    BY <2>1 DEF Li!From, LiClosed
  <2>3. T \in SUBSET Ids
    OBVIOUS
  <2>4. Lined(T, LiClosed, Li!ClosedOrder(T))
    BY <2>3, LiLines
  <2>5. page = IF Li!ClosedOrder(T) = <<>> THEN <<>> ELSE Li!Take(Tail(Li!ClosedOrder(T)), take)
    BY <1>3, <2>1, <2>2 DEF Li!ClosedPage
  <2> HIDE DEF T
  <2>6. T \in SUBSET S /\ \A i \in S : i \in T <=> i = q[m] \/ <<q[m], i>> \in LiClosed
    BY DEF T
  <2>7. Li!ClosedOrder(T) # <<>>
    BY <1>0, <1>1, <1>3, <2>4, <2>6
  <2>8. page = Li!Take(Tail(Li!ClosedOrder(T)), take)
    BY <2>5, <2>7
  <2>9. Strict(S, LiClosed) /\ Lined(S, LiClosed, q)
    BY <1>0, <1>3
  <2> QED BY <1>1, <2>4, <2>6, <2>8, <2>9
<1> QED BY <1>2, <1>3

\* The whole profile: the open events, then the history.
LiWhole == Li!ActiveOrder(Li!Open) \o Li!ClosedOrder(Li!ProfileWhere \ Li!Open)

\* The whole profile, event by event.
LEMMA LiWholeIs ==
  ASSUME LiShape,
         NEW A, A = Li!Open, NEW C, C = Li!ProfileWhere \ Li!Open,
         NEW q, q = Li!ActiveOrder(A), NEW r, r = Li!ClosedOrder(C)
  PROVE  /\ A \in SUBSET Ids /\ C \in SUBSET Ids
         /\ Cardinality(A) \in Nat /\ Cardinality(C) \in Nat
         /\ q \in Seq(Ids) /\ Len(q) = Cardinality(A) /\ \A n \in 1..Cardinality(A) : q[n] \in A
         /\ r \in Seq(Ids) /\ Len(r) = Cardinality(C) /\ \A n \in 1..Cardinality(C) : r[n] \in C
         /\ LiWhole \in Seq(Ids) /\ Len(LiWhole) = Cardinality(A) + Cardinality(C)
         /\ \A n \in 1..Cardinality(A) : LiWhole[n] = q[n]
         /\ \A n \in 1..Cardinality(C) : LiWhole[Cardinality(A) + n] = r[n]
<1>1. A \in SUBSET Ids /\ C \in SUBSET Ids
  BY LiOpen
<1>2. /\ IsFiniteSet(A) /\ Lined(A, LiActive, q)
      /\ IsFiniteSet(C) /\ Lined(C, LiClosed, r)
  BY <1>1, LiLines
<1>3. Cardinality(A) \in Nat /\ Cardinality(C) \in Nat
  BY <1>2, FS_CardinalityType
<1>4. q \in Seq(A) /\ Len(q) = Cardinality(A)
  BY <1>2, LineSeq
<1>5. r \in Seq(C) /\ Len(r) = Cardinality(C)
  BY <1>2, LineSeq
<1>6. (\A n \in 1..Cardinality(A) : q[n] \in A) /\ (\A n \in 1..Cardinality(C) : r[n] \in C)
  BY <1>2 DEF Lined
<1>7. q \in Seq(Ids) /\ r \in Seq(Ids)
  BY <1>1, <1>4, <1>5, SeqMonotonic
<1>8. LiWhole = q \o r
  BY DEF LiWhole
<1>9. /\ q \o r \in Seq(Ids) /\ Len(q \o r) = Len(q) + Len(r)
      /\ \A n \in 1..(Len(q) + Len(r)) : (q \o r)[n] = IF n <= Len(q) THEN q[n] ELSE r[n - Len(q)]
  BY <1>7, ConcatProperties
<1>10. ASSUME NEW n \in 1..Cardinality(A) PROVE LiWhole[n] = q[n]
  <2>1. n \in 1..(Len(q) + Len(r)) /\ n <= Len(q)
    BY <1>3, <1>4, <1>5
  <2> QED BY <1>8, <1>9, <2>1
<1>11. ASSUME NEW n \in 1..Cardinality(C) PROVE LiWhole[Cardinality(A) + n] = r[n]
  <2>1. /\ Cardinality(A) + n \in 1..(Len(q) + Len(r)) /\ ~(Cardinality(A) + n <= Len(q))
        /\ Cardinality(A) + n - Len(q) = n
    BY <1>3, <1>4, <1>5
  <2>2. PICK k : k = Cardinality(A) + n
    OBVIOUS
  <2>3. k \in 1..(Len(q) + Len(r)) /\ ~(k <= Len(q)) /\ k - Len(q) = n
    BY <1>3, <1>4, <1>5, <2>1, <2>2
  <2>4. (q \o r)[k] = r[k - Len(q)]
    BY <1>9, <2>3
  <2> QED BY <1>8, <2>2, <2>3, <2>4
<1> QED BY <1>1, <1>3, <1>4, <1>5, <1>6, <1>7, <1>8, <1>9, <1>10, <1>11

\* What is open and what is over, after place m: the stretches that make a page of W.
LiPieces(W, a, b, m, limit, d, open, over) ==
  /\ W \in Seq(Ids) /\ a \in Nat /\ b \in Nat /\ Len(W) = a + b
  /\ m \in 0..(a + b) /\ limit \in Nat /\ d = IF m > a THEN m - a ELSE 0
  /\ open \in Seq(Ids)
  /\ Len(open) = IF m >= a THEN 0 ELSE IF limit < a - m THEN limit ELSE a - m
  /\ \A k \in 1..Len(open) : open[k] = W[k + m]
  /\ over \in Seq(Ids)
  /\ Len(over) = IF limit - Len(open) < b - d THEN limit - Len(open) ELSE b - d
  /\ \A k \in 1..Len(over) : over[k] = W[k + a + d]

\* They are one stretch of W.
LEMMA LiJoined ==
  ASSUME NEW W, NEW a, NEW b, NEW m, NEW limit, NEW d, NEW open, NEW over,
         LiPieces(W, a, b, m, limit, d, open, over)
  PROVE  /\ open \o over \in Seq(Ids)
         /\ Len(open \o over) = IF limit < Len(W) - m THEN limit ELSE Len(W) - m
         /\ \A k \in 1..Len(open \o over) : (open \o over)[k] = W[m + k]
<1> DEFINE page == open \o over
<1>0. /\ a \in Nat /\ b \in Nat /\ m \in 0..(a + b) /\ limit \in Nat
      /\ d = IF m > a THEN m - a ELSE 0
      /\ Len(W) = a + b /\ open \in Seq(Ids) /\ over \in Seq(Ids)
  BY DEF LiPieces
<1>1. /\ page \in Seq(Ids) /\ Len(page) = Len(open) + Len(over)
      /\ \A n \in 1..(Len(open) + Len(over)) :
            page[n] = IF n <= Len(open) THEN open[n] ELSE over[n - Len(open)]
  BY <1>0, ConcatProperties
<1> HIDE DEF page
<1>2. PICK x \in Nat : x = Len(open)
  BY <1>0, LenProperties
<1>3. PICK y \in Nat : y = Len(over)
  BY <1>0, LenProperties
<1>4. Len(page) = x + y
  BY <1>1, <1>2, <1>3
<1>5. x = IF m >= a THEN 0 ELSE IF limit < a - m THEN limit ELSE a - m
  BY <1>2 DEF LiPieces
<1>6. y = IF limit - x < b - d THEN limit - x ELSE b - d
  BY <1>2, <1>3 DEF LiPieces
<1>7. x + y = IF limit < a + b - m THEN limit ELSE a + b - m
  BY <1>0, <1>5, <1>6
<1>8. ASSUME NEW k \in 1..(x + y) PROVE page[k] = W[m + k]
  <2>1. CASE k <= x
    <3>1. k \in 1..Len(open) /\ k \in 1..(Len(open) + Len(over)) /\ k + m = m + k
      BY <1>0, <1>2, <1>3, <2>1
    <3>2. page[k] = open[k] /\ open[k] = W[k + m]
      BY <1>1, <1>2, <2>1, <3>1 DEF LiPieces
    <3> QED BY <3>1, <3>2
  <2>2. CASE ~(k <= x)
    <3>1. k - x \in 1..y /\ y > 0
      <4>1. k \in Nat /\ k > x /\ k <= x + y
        BY <2>2
      <4> QED BY <4>1
    <3>2. k - x + a + d = m + k
      BY <1>0, <1>5, <1>6, <2>2, <3>1
    <3>3. over[k - x] = W[k - x + a + d]
      BY <1>3, <3>1 DEF LiPieces
    <3>4. k \in 1..(Len(open) + Len(over)) /\ ~(k <= Len(open))
      BY <1>2, <1>3, <2>2
    <3>5. page[k] = over[k - x]
      BY <1>1, <1>2, <3>4
    <3> QED BY <3>2, <3>3, <3>5
  <2> QED BY <2>1, <2>2
<1>9. \A k \in 1..Len(page) : page[k] = W[m + k]
  BY <1>4, <1>8
<1>10. Len(W) - m = a + b - m
  BY <1>0
<1>11. Len(page) = IF limit < Len(W) - m THEN limit ELSE Len(W) - m
  BY <1>4, <1>7, <1>10
<1> QED BY <1>1, <1>9, <1>11 DEF page

\* A page is the stretch of the whole profile that follows the cursor, up to the
\* length of a page: the place where the phases meet included.
LEMMA LiPage ==
  ASSUME LiShape, NEW m \in 0..Len(LiWhole),
         NEW c, c = IF m = 0 THEN None ELSE LiWhole[m],
         NEW page, page = Li!FindProfileEvents(c)
  PROVE  /\ page \in Seq(Ids)
         /\ Len(page) = IF Limit < Len(LiWhole) - m THEN Limit ELSE Len(LiWhole) - m
         /\ \A k \in 1..Len(page) : page[k] = LiWhole[m + k]
<1> DEFINE A == Li!Open
           C == Li!ProfileWhere \ Li!Open
           q == Li!ActiveOrder(A)
           r == Li!ClosedOrder(C)
           a == Cardinality(A)
           b == Cardinality(C)
           W == LiWhole
<1>1. /\ A \in SUBSET Ids /\ C \in SUBSET Ids /\ a \in Nat /\ b \in Nat
      /\ q \in Seq(Ids) /\ Len(q) = a /\ \A n \in 1..a : q[n] \in A
      /\ r \in Seq(Ids) /\ Len(r) = b /\ \A n \in 1..b : r[n] \in C
      /\ W \in Seq(Ids) /\ Len(W) = a + b
      /\ \A n \in 1..a : W[n] = q[n]
      /\ \A n \in 1..b : W[a + n] = r[n]
  BY LiWholeIs
<1>2. Limit \in Nat \ {0} /\ None \notin Ids
  BY LiA
<1>3. Li!ActiveWhere = A /\ Li!ClosedWhere = C
      /\ \A i \in Li!ProfileWhere : Li!LifecycleWhere(FALSE, {}, rows[i]) <=> i \in A
  BY LiOpen
<1>4. A \subseteq Li!ProfileWhere /\ C \subseteq Li!ProfileWhere /\ \A i \in C : i \notin A
  BY LiOpen
<1> DEFINE resuming == Li!ResumingClosed(c)
           open == IF resuming THEN <<>> ELSE Li!ActivePage(A, Limit, c)
           rest == Limit - Len(open)
           over == IF rest > 0 THEN Li!ClosedPage(C, rest, IF resuming THEN c ELSE None) ELSE <<>>
<1>5. page = open \o over
  BY <1>3 DEF Li!FindProfileEvents
<1>6. resuming <=> c # None /\ ~Li!LifecycleWhere(FALSE, {}, rows[c])
  BY DEF Li!ResumingClosed
<1> HIDE DEF A, C, q, r, a, b, W, resuming
<1>q. q = Li!ActiveOrder(A) /\ r = Li!ClosedOrder(C) /\ a = Cardinality(A) /\ b = Cardinality(C)
  BY DEF q, r, a, b
<1>w. m \in 0..(a + b) /\ c = IF m = 0 THEN None ELSE W[m]
  BY <1>1 DEF W
<1>7. resuming <=> m > a
  <2>1. CASE m = 0
    BY <1>1, <1>6, <1>w, <2>1
  <2>2. CASE m \in 1..a
    <3>1. c = q[m] /\ q[m] \in A
      BY <1>1, <1>w, <2>2
    <3>2. c \in Ids /\ c # None /\ c \in Li!ProfileWhere
      BY <1>1, <1>2, <1>4, <3>1
    <3>3. ~resuming
      BY <1>3, <1>6, <3>1, <3>2
    <3>4. ~(m > a)
      BY <1>1, <2>2
    <3> QED BY <3>3, <3>4
  <2>3. CASE m > a
    <3>1. PICK n \in 1..b : m = a + n
      <4>1. m - a \in 1..b /\ m = a + (m - a)
        BY <1>1, <1>w, <2>3
      <4> QED BY <4>1
    <3>2. c = r[n] /\ r[n] \in C
      BY <1>1, <1>w, <3>1
    <3>3. c \in Ids /\ c # None /\ c \in Li!ProfileWhere /\ c \notin A
      BY <1>1, <1>2, <1>4, <3>2
    <3> QED BY <1>3, <1>6, <2>3, <3>3
  <2> QED BY <1>1, <1>w, <2>1, <2>2, <2>3
<1>8. /\ open \in Seq(Ids)
      /\ Len(open) = IF m >= a THEN 0 ELSE IF Limit < a - m THEN Limit ELSE a - m
      /\ \A k \in 1..Len(open) : open[k] = q[k + m]
  <2>1. CASE m = 0
    <3>1. open = Li!Take(q, Limit)
      BY <1>1, <1>7, <1>w, <1>q, <2>1 DEF Li!ActivePage
    <3>2. /\ Li!Take(q, Limit) \in Seq(Ids)
          /\ Len(Li!Take(q, Limit)) = IF Limit < Len(q) THEN Limit ELSE Len(q)
          /\ \A k \in 1..Len(Li!Take(q, Limit)) : Li!Take(q, Limit)[k] = q[k]
      BY <1>1, <1>2, LiTake
    <3>3. Len(open) = IF m >= a THEN 0 ELSE IF Limit < a - m THEN Limit ELSE a - m
      BY <1>1, <1>2, <2>1, <3>1, <3>2
    <3>4. ASSUME NEW k \in 1..Len(open) PROVE open[k] = q[k + m]
      <4>1. k + m = k
        BY <2>1
      <4> QED BY <3>1, <3>2, <4>1
    <3> HIDE DEF open
    <3> QED BY <3>1, <3>2, <3>3, <3>4
  <2>2. CASE m \in 1..a
    <3>1. open = Li!ActivePage(A, Limit, q[m])
      BY <1>1, <1>7, <1>w, <2>2
    <3>2. /\ open \in Seq(Ids)
          /\ Len(open) = IF Limit < a - m THEN Limit ELSE a - m
          /\ \A k \in 1..Len(open) : open[k] = q[k + m]
      <4>1. m \in 1..Cardinality(A) /\ A \in SUBSET Ids /\ Limit \in Nat
        BY <1>1, <1>2, <1>q, <2>2
      <4> HIDE DEF open
      <4> QED BY <3>1, <4>1, <1>q, LiPages
    <3> HIDE DEF open
    <3>3. Len(open) = IF m >= a THEN 0 ELSE IF Limit < a - m THEN Limit ELSE a - m
      BY <1>1, <1>2, <2>2, <3>2
    <3> QED BY <3>2, <3>3
  <2>3. CASE m > a
    <3>1. open = <<>>
      BY <1>7, <2>3
    <3>2. open \in Seq(Ids) /\ Len(open) = 0
      BY <3>1, EmptySeq
    <3> HIDE DEF open
    <3> QED BY <1>1, <1>w, <2>3, <3>2
  <2> QED BY <1>1, <1>w, <2>1, <2>2, <2>3
<1> HIDE DEF open
<1>9. rest \in Nat
  <2>1. Len(open) \in Nat
    BY <1>8, LenProperties
  <2>2. Len(open) <= Limit
    BY <1>1, <1>2, <1>w, <1>8
  <2> QED BY <1>2, <2>1, <2>2
<1> HIDE DEF rest
<1> DEFINE d == IF m > a THEN m - a ELSE 0
<1>10. /\ over \in Seq(Ids)
       /\ Len(over) = IF rest < b - d THEN rest ELSE b - d
       /\ \A k \in 1..Len(over) : over[k] = r[k + d]
  <2>0. d \in 0..b
    BY <1>1, <1>w
  <2>1. CASE ~(rest > 0)
    <3>1. over = <<>>
      BY <2>1
    <3>2. over \in Seq(Ids) /\ Len(over) = 0
      BY <3>1, EmptySeq
    <3> HIDE DEF over, d
    <3> QED BY <1>1, <1>9, <2>0, <2>1, <3>2
  <2>2. CASE rest > 0 /\ m > a
    <3>0. d \in 1..b /\ m = a + d
      BY <1>1, <1>w, <2>2
    <3>1. c = r[d]
      <4>1. m # 0 /\ W[a + d] = r[d]
        BY <1>1, <2>2, <3>0
      <4> QED BY <1>w, <3>0, <4>1
    <3>2. over = Li!ClosedPage(C, rest, r[d])
      BY <1>7, <2>2, <3>1
    <3> HIDE DEF over, d
    <3>3. d \in 1..Cardinality(C) /\ C \in SUBSET Ids /\ rest \in Nat
      BY <1>1, <1>9, <1>q, <3>0
    <3>4. /\ over \in Seq(Ids)
          /\ Len(over) = IF rest < b - d THEN rest ELSE b - d
          /\ \A k \in 1..Len(over) : over[k] = r[k + d]
      BY <1>q, <3>2, <3>3, LiPages
    <3> QED BY <3>4
  <2>3. CASE rest > 0 /\ ~(m > a)
    <3>1. over = Li!Take(r, rest)
      BY <1>7, <1>q, <2>3 DEF Li!ClosedPage
    <3>2. d = 0
      BY <2>3
    <3> HIDE DEF over, d
    <3>3. /\ Li!Take(r, rest) \in Seq(Ids)
          /\ Len(Li!Take(r, rest)) = IF rest < Len(r) THEN rest ELSE Len(r)
          /\ \A k \in 1..Len(Li!Take(r, rest)) : Li!Take(r, rest)[k] = r[k]
      BY <1>1, <1>9, LiTake
    <3>4. Len(over) = IF rest < b - d THEN rest ELSE b - d
      BY <1>1, <1>9, <3>1, <3>2, <3>3
    <3>5. ASSUME NEW k \in 1..Len(over) PROVE over[k] = r[k + d]
      <4>1. k + d = k
        BY <3>2
      <4> QED BY <3>1, <3>3, <4>1
    <3> QED BY <3>1, <3>3, <3>4, <3>5
  <2> QED BY <2>1, <2>2, <2>3
<1>11. \A k \in 1..Len(open) : open[k] = W[k + m]
  <2> SUFFICES ASSUME NEW k \in 1..Len(open) PROVE open[k] = W[k + m]
    OBVIOUS
  <2>0. Len(open) \in Nat
    BY <1>8, LenProperties
  <2>1. k + m \in 1..a
    BY <1>1, <1>2, <1>w, <1>8, <2>0
  <2> QED BY <1>1, <1>8, <2>1
<1> HIDE DEF over
<1>12. \A k \in 1..Len(over) : over[k] = W[k + a + d]
  <2> SUFFICES ASSUME NEW k \in 1..Len(over) PROVE over[k] = W[k + a + d]
    OBVIOUS
  <2>0. Len(over) \in Nat /\ d \in 0..b
    BY <1>1, <1>w, <1>10, LenProperties
  <2> HIDE DEF d
  <2>1. k + d \in 1..b /\ k + a + d = a + (k + d)
    BY <1>1, <1>9, <1>10, <2>0
  <2>2. W[a + (k + d)] = r[k + d]
    BY <1>1, <2>1
  <2> QED BY <1>10, <2>1, <2>2
<1>13. Len(over) = IF Limit - Len(open) < b - d THEN Limit - Len(open) ELSE b - d
  BY <1>10 DEF rest
<1>14. /\ page \in Seq(Ids)
       /\ Len(page) = IF Limit < Len(W) - m THEN Limit ELSE Len(W) - m
       /\ \A k \in 1..Len(page) : page[k] = W[m + k]
  <2>1. Limit \in Nat /\ W \in Seq(Ids) /\ a \in Nat /\ b \in Nat /\ Len(W) = a + b
    BY <1>1, <1>2
  <2>2. d = IF m > a THEN m - a ELSE 0
    OBVIOUS
  <2>3. open \in Seq(Ids) /\ Len(open) = IF m >= a THEN 0 ELSE IF Limit < a - m THEN Limit ELSE a - m
    BY <1>8
  <2>4. over \in Seq(Ids)
    BY <1>10
  <2>5. m \in 0..(a + b)
    BY <1>w
  <2> HIDE DEF d
  <2>6. LiPieces(W, a, b, m, Limit, d, open, over)
    BY <2>1, <2>2, <2>3, <2>4, <2>5, <1>11, <1>12, <1>13 DEF LiPieces
  <2>7. /\ open \o over \in Seq(Ids)
        /\ Len(open \o over) = IF Limit < Len(W) - m THEN Limit ELSE Len(W) - m
        /\ \A k \in 1..Len(open \o over) : (open \o over)[k] = W[m + k]
    BY <2>6, LiJoined
  <2> QED BY <1>5, <2>7
<1> QED BY <1>14 DEF W

\* A page has events, wherever the cursor has gone.
LEMMA LiPageType ==
  ASSUME LiShape, NEW c \in Ids \cup {None}
  PROVE  Li!FindProfileEvents(c) \in Seq(Ids)
<1>1. Li!ActiveWhere \in SUBSET Ids /\ Li!ClosedWhere \in SUBSET Ids /\ Limit \in Nat
  BY LiOpen, LiA
<1>2. ASSUME NEW S \in SUBSET Ids, NEW take \in Nat, NEW d \in Ids \cup {None}
      PROVE  Li!ActivePage(S, take, d) \in Seq(Ids) /\ Li!ClosedPage(S, take, d) \in Seq(Ids)
  <2>1. ASSUME NEW T \in SUBSET Ids
        PROVE  /\ Li!ActiveOrder(T) \in Seq(Ids) /\ Li!ClosedOrder(T) \in Seq(Ids)
    <3>1. IsFiniteSet(T) /\ Lined(T, LiActive, Li!ActiveOrder(T)) /\ Lined(T, LiClosed, Li!ClosedOrder(T))
      BY LiLines
    <3>2. Li!ActiveOrder(T) \in Seq(T) /\ Li!ClosedOrder(T) \in Seq(T)
      BY <3>1, LineSeq
    <3> QED BY <2>1, <3>2, SeqMonotonic
  <2>2. ASSUME NEW s \in Seq(Ids)
        PROVE  Li!Take(s, take) \in Seq(Ids) /\ (s # <<>> => Li!Take(Tail(s), take) \in Seq(Ids))
    BY LiTake, LiSkip
  <2>3. <<>> \in Seq(Ids)
    BY EmptySeq
  <2>4. Li!From(S, Li!ActiveBefore, d) \in SUBSET Ids /\ Li!From(S, Li!ClosedBefore, d) \in SUBSET Ids
    BY DEF Li!From
  <2>5. Li!ActivePage(S, take, d) \in Seq(Ids)
    <3>1. CASE d = None
      BY <2>1, <2>2, <3>1 DEF Li!ActivePage
    <3>2. CASE d # None
      <4> DEFINE s == Li!ActiveOrder(Li!From(S, Li!ActiveBefore, d))
      <4>1. s \in Seq(Ids)
        BY <2>1, <2>4
      <4>2. Li!ActivePage(S, take, d) = IF s = <<>> THEN <<>> ELSE Li!Take(Tail(s), take)
        BY <3>2 DEF Li!ActivePage
      <4> HIDE DEF s
      <4> QED BY <2>2, <2>3, <4>1, <4>2
    <3> QED BY <3>1, <3>2
  <2>6. Li!ClosedPage(S, take, d) \in Seq(Ids)
    <3>1. CASE d = None
      BY <2>1, <2>2, <3>1 DEF Li!ClosedPage
    <3>2. CASE d # None
      <4> DEFINE s == Li!ClosedOrder(Li!From(S, Li!ClosedBefore, d))
      <4>1. s \in Seq(Ids)
        BY <2>1, <2>4
      <4>2. Li!ClosedPage(S, take, d) = IF s = <<>> THEN <<>> ELSE Li!Take(Tail(s), take)
        BY <3>2 DEF Li!ClosedPage
      <4> HIDE DEF s
      <4> QED BY <2>2, <2>3, <4>1, <4>2
    <3> QED BY <3>1, <3>2
  <2> QED BY <2>5, <2>6
<1> DEFINE resuming == Li!ResumingClosed(c)
           open == IF resuming THEN <<>> ELSE Li!ActivePage(Li!ActiveWhere, Limit, c)
           rest == Limit - Len(open)
           over == IF rest > 0 THEN Li!ClosedPage(Li!ClosedWhere, rest, IF resuming THEN c ELSE None)
                   ELSE <<>>
<1>3. Li!FindProfileEvents(c) = open \o over
  BY DEF Li!FindProfileEvents
<1>4. open \in Seq(Ids)
  <2>1. <<>> \in Seq(Ids)
    BY EmptySeq
  <2> QED BY <1>1, <1>2, <2>1
<1> HIDE DEF open, resuming
<1>5. Len(open) \in Nat
  BY <1>4, LenProperties
<1>6. over \in Seq(Ids)
  <2>1. CASE rest > 0
    <3>1. rest \in Nat /\ (IF resuming THEN c ELSE None) \in Ids \cup {None}
      BY <1>1, <1>5, <2>1
    <3> HIDE DEF rest
    <3> QED BY <1>1, <1>2, <2>1, <3>1
  <2>2. CASE ~(rest > 0)
    BY <2>2, EmptySeq
  <2> QED BY <2>1, <2>2
<1> HIDE DEF over
<1> QED BY <1>3, <1>4, <1>6, ConcatProperties

\* The reader has the whole profile up to the cursor, if nothing moved since the
\* first page, and a page that is short ends it.
LiInv ==
  /\ LiShape
  /\ ~done /\ listed = <<>> => cursor = None
  /\ still /\ listed # <<>> =>
       /\ Len(listed) <= Len(LiWhole)
       /\ \A n \in 1..Len(listed) : listed[n] = LiWhole[n]
  /\ still /\ done => Len(listed) = Len(LiWhole)
  /\ still /\ ~done => cursor = IF Len(listed) = 0 THEN None ELSE LiWhole[Len(listed)]

\* The reader begins.
LEMMA LiInvInit == Li!Init => LiInv
<1> SUFFICES ASSUME Li!Init PROVE LiInv
  OBVIOUS
<1>1. rows \in [Ids -> Li!Event] /\ \A i \in Ids : Li!Valid(rows[i])
  BY DEF Li!Init
<1>2. /\ now \in Nat /\ changes \in 0..MaxEdits
      /\ social \in BOOLEAN /\ done = FALSE /\ still = TRUE /\ cursor = None /\ listed = <<>>
  BY LiA DEF Li!Init
<1>3. listed \in Seq(Ids) /\ Len(listed) = 0
  BY <1>2, EmptySeq
<1>4. LiShape
  BY <1>1, <1>2, <1>3 DEF LiShape
<1> QED BY <1>2, <1>3, <1>4 DEF LiInv

\* What nobody touched is in the place it had.
LEMMA LiWholeStays ==
  ASSUME rows' = rows, now' = now, social' = social
  PROVE  LiWhole' = LiWhole
<1>1. \A i \in Ids : Li!ComputeEventStatus(rows[i])' = Li!ComputeEventStatus(rows[i])
  BY DEF Li!ComputeEventStatus, Li!ResolveEndDate
<1>2. Li!ProfileWhere' = Li!ProfileWhere
  BY DEF Li!ProfileWhere, Li!ProfileScope
<1>3. Li!Open' = Li!Open
  BY <1>2 DEF Li!Open, Li!ComputeEventStatus, Li!ResolveEndDate
<1>4. \A S : Li!ActiveOrder(S)' = Li!ActiveOrder(S)
  BY DEF Li!ActiveOrder, Li!Sorted, Li!ActiveBefore
<1>5. \A S : Li!ClosedOrder(S)' = Li!ClosedOrder(S)
  BY DEF Li!ClosedOrder, Li!Sorted, Li!ClosedBefore
<1> QED BY <1>2, <1>3, <1>4, <1>5 DEF LiWhole

\* A page keeps it.
LEMMA LiReads == ASSUME LiInv, Li!listUserEvents PROVE LiInv'
<1> DEFINE page == Li!FindProfileEvents(cursor)
           short == Len(page) < Limit
<1>1. /\ ~done /\ listed' = listed \o page /\ done' = short
      /\ cursor' = IF short THEN None ELSE page[Len(page)]
      /\ UNCHANGED <<rows, now, social, changes, still>>
  BY DEF Li!listUserEvents
<1>2. LiShape /\ Limit \in Nat \ {0} /\ None \notin Ids
  BY LiA DEF LiInv
<1>3. LiWhole' = LiWhole
  BY <1>1, LiWholeStays
<1>4. LiWhole \in Seq(Ids) /\ Len(LiWhole) \in Nat
  BY <1>2, LiWholeIs, LenProperties
<1>5. listed \in Seq(Ids) /\ Len(listed) \in Nat /\ cursor \in Ids \cup {None}
  BY <1>2, LenProperties DEF LiShape
<1>6. page \in Seq(Ids) /\ Len(page) \in Nat
  BY <1>2, <1>5, LiPageType, LenProperties
<1> HIDE DEF page
<1>8. ~short => page[Len(page)] \in Ids
  <2>1. ~short => Len(page) \in 1..Len(page)
    BY <1>2, <1>6
  <2> QED BY <1>6, <2>1, ElementOfSeq
<1>9. /\ listed' \in Seq(Ids) /\ Len(listed') = Len(listed) + Len(page)
      /\ \A n \in 1..(Len(listed) + Len(page)) :
            listed'[n] = IF n <= Len(listed) THEN listed[n] ELSE page[n - Len(listed)]
  BY <1>1, <1>5, <1>6, ConcatProperties
<1>10. cursor' \in Ids \cup {None}
  BY <1>1, <1>8
<1>11. LiShape'
  BY <1>1, <1>2, <1>9, <1>10 DEF LiShape, Li!Valid
<1>12. ~done' => Len(listed') # 0
  <2>1. ~done' => ~short
    BY <1>1
  <2>2. ~short => Len(page) > 0
    BY <1>2, <1>6
  <2>3. Len(page) > 0 => Len(listed') # 0
    BY <1>5, <1>6, <1>9
  <2> QED BY <2>1, <2>2, <2>3
<1>13. ~done' => listed' # <<>>
  BY <1>9, <1>12, EmptySeq
<1>14. ASSUME still
       PROVE  /\ Len(listed') <= Len(LiWhole)
              /\ \A n \in 1..Len(listed') : listed'[n] = LiWhole[n]
              /\ done' => Len(listed') = Len(LiWhole)
              /\ ~done' => cursor' = LiWhole[Len(listed')]
  <2> DEFINE m == Len(listed)
  <2>1. m \in 0..Len(LiWhole) /\ \A n \in 1..m : listed[n] = LiWhole[n]
    <3>1. CASE listed = <<>>
      BY <1>4, <1>5, <3>1
    <3>2. CASE listed # <<>>
      BY <1>4, <1>5, <1>14, <3>2 DEF LiInv
    <3> QED BY <3>1, <3>2
  <2>2. cursor = IF m = 0 THEN None ELSE LiWhole[m]
    BY <1>1, <1>14 DEF LiInv
  <2>3. /\ Len(page) = IF Limit < Len(LiWhole) - m THEN Limit ELSE Len(LiWhole) - m
        /\ \A k \in 1..Len(page) : page[k] = LiWhole[m + k]
    <3> HIDE DEF m
    <3>1. page = Li!FindProfileEvents(cursor)
      BY DEF page
    <3> QED BY <1>2, <2>1, <2>2, <3>1, LiPage
  <2> HIDE DEF m
  <2>4. Len(listed') = m + Len(page) /\ m \in Nat
    BY <1>5, <1>9 DEF m
  <2>5. Len(listed') <= Len(LiWhole)
    BY <1>2, <1>4, <1>6, <2>1, <2>3, <2>4
  <2>6. ASSUME NEW n \in 1..Len(listed') PROVE listed'[n] = LiWhole[n]
    <3>1. listed'[n] = IF n <= m THEN listed[n] ELSE page[n - m]
      BY <1>9, <2>4 DEF m
    <3>2. CASE n <= m
      <4>1. n \in 1..m
        BY <2>4, <3>2
      <4> QED BY <2>1, <3>1, <3>2, <4>1
    <3>3. CASE ~(n <= m)
      <4>1. n - m \in 1..Len(page) /\ m + (n - m) = n
        BY <1>6, <2>4, <3>3
      <4>2. page[n - m] = LiWhole[m + (n - m)]
        BY <2>3, <4>1
      <4> QED BY <3>1, <3>3, <4>1, <4>2
    <3> QED BY <3>2, <3>3
  <2>7. short => Len(listed') = Len(LiWhole)
    BY <1>2, <1>4, <1>6, <2>1, <2>3, <2>4
  <2>8. ~short => page[Len(page)] = LiWhole[Len(listed')]
    <3>1. ~short => Len(page) \in 1..Len(page)
      BY <1>2, <1>6
    <3> QED BY <2>3, <2>4, <3>1
  <2> QED BY <1>1, <2>5, <2>6, <2>7, <2>8
<1> QED BY <1>1, <1>3, <1>11, <1>12, <1>13, <1>14 DEF LiInv

\* Time and the authors keep it: what moves before the first page is no news, and
\* nothing moves after the last.
LEMMA LiMoves == ASSUME LiInv, Li!Change \/ Li!Tick PROVE LiInv'
<1>1. /\ ~done /\ still' = (listed = <<>>) /\ UNCHANGED <<social, cursor, listed, done>>
      /\ LiShape
  BY DEF Li!Change, Li!Tick, LiInv
<1>2. rows' \in [Ids -> Li!Event] /\ (\A i \in Ids : Li!Valid(rows'[i]))
      /\ now' \in Nat /\ changes' \in 0..MaxEdits
  <2>1. CASE Li!Tick
    BY <1>1, <2>1 DEF Li!Tick, LiShape
  <2>2. CASE Li!Change
    <3>1. PICK i \in Ids : rows' \in {[rows EXCEPT ![i].canceled = TRUE],
                                      [rows EXCEPT ![i].isPublic = ~@],
                                      [rows EXCEPT ![i].featured = ~@]}
      BY <2>2 DEF Li!Change
    <3>2. rows[i] \in Li!Event /\ Li!Valid(rows[i]) /\ rows \in [Ids -> Li!Event]
      BY <1>1 DEF LiShape
    <3>3. PICK e : e \in {[rows[i] EXCEPT !.canceled = TRUE],
                          [rows[i] EXCEPT !.isPublic = ~@],
                          [rows[i] EXCEPT !.featured = ~@]}
                   /\ rows' = [rows EXCEPT ![i] = e]
      BY <3>1
    <3>4. e \in Li!Event /\ e.end = rows[i].end /\ e.date = rows[i].date
      BY <3>2, <3>3 DEF Li!Event
    <3>5. Li!Valid(e)
      BY <3>2, <3>4 DEF Li!Valid
    <3>6. rows' \in [Ids -> Li!Event] /\ \A j \in Ids : Li!Valid(rows'[j])
      BY <1>1, <3>2, <3>3, <3>4, <3>5 DEF LiShape
    <3>7. now' \in Nat /\ changes' \in 0..MaxEdits
      BY <1>1, <2>2, LiA DEF Li!Change, LiShape
    <3> QED BY <3>6, <3>7
  <2> QED BY <2>1, <2>2
<1>3. LiShape'
  BY <1>1, <1>2 DEF LiShape, Li!Valid
<1>4. ~done' /\ (still' => listed' = <<>> /\ cursor' = None)
  BY <1>1 DEF LiInv
<1>5. listed' = <<>> => Len(listed') = 0
  OBVIOUS
<1> QED BY <1>1, <1>3, <1>4, <1>5 DEF LiInv

\* Every step keeps it.
LEMMA LiInvNext == LiInv /\ [Li!Next]_(Li!vars) => LiInv'
<1>1. ASSUME LiInv, UNCHANGED Li!vars PROVE LiInv'
  <2>1. UNCHANGED <<rows, now, social, cursor, listed, done, changes, still>>
    BY <1>1 DEF Li!vars
  <2>2. LiWhole' = LiWhole
    BY <2>1, LiWholeStays
  <2>3. LiShape'
    BY <1>1, <2>1 DEF LiInv, LiShape, Li!Valid
  <2> QED BY <1>1, <2>1, <2>2, <2>3 DEF LiInv
<1> QED BY <1>1, LiReads, LiMoves DEF Li!Next

-----------------------------------------------------------------------------
(* The map.                                                                *)

\* A sequence that has the members of S, each once, has them for its set.
LEMMA LiLineSet ==
  ASSUME LiShape, NEW S \in SUBSET Ids
  PROVE  /\ Li!Range(Li!Sorted(S, Li!Heavier)) = S
         /\ \A n \in Nat :
              LET page == Li!Take(Li!ActiveOrder(S), n) IN
              /\ Li!Range(page) \subseteq S
              /\ n >= Cardinality(S) => Li!Range(page) = S
              /\ n < Cardinality(S) => Len(page) = n /\ Li!Range(page) # S
<1>1. /\ IsFiniteSet(S) /\ Strict(S, LiActive) /\ Strict(S, LiHeavy)
      /\ Lined(S, LiActive, Li!ActiveOrder(S))
      /\ Lined(S, LiHeavy, Li!Sorted(S, Li!Heavier))
      /\ Cardinality(S) \in Nat
  BY LiLines, FS_CardinalityType
<1>2. Li!Range(Li!Sorted(S, Li!Heavier)) = S
  <2> DEFINE q == Li!Sorted(S, Li!Heavier)
  <2>1. q \in Seq(S) /\ Len(q) = Cardinality(S)
    BY <1>1, LineSeq
  <2>2. (\A n \in 1..Cardinality(S) : q[n] \in S) /\ (\A i \in S : \E n \in 1..Cardinality(S) : q[n] = i)
    BY <1>1, LineHas
  <2>3. DOMAIN q = 1..Cardinality(S)
    BY <1>1 DEF Lined
  <2> HIDE DEF q
  <2>4. Li!Range(q) = S
    BY <2>2, <2>3 DEF Li!Range
  <2> QED BY <2>4 DEF q
<1>3. ASSUME NEW n \in Nat, NEW page, page = Li!Take(Li!ActiveOrder(S), n)
      PROVE  /\ Li!Range(page) \subseteq S
             /\ n >= Cardinality(S) => Li!Range(page) = S
             /\ n < Cardinality(S) => Len(page) = n /\ Li!Range(page) # S
  <2> DEFINE q == Li!ActiveOrder(S)
  <2>1. q \in Seq(S) /\ Len(q) = Cardinality(S)
    BY <1>1, LineSeq
  <2>2. /\ \A k \in 1..Cardinality(S) : q[k] \in S
        /\ \A i \in S : \E k \in 1..Cardinality(S) : q[k] = i
        /\ \A j, k \in 1..Cardinality(S) : q[j] = q[k] => j = k
    BY <1>1, LineHas
  <2>3. page = Li!Take(q, n)
    BY <1>3
  <2> HIDE DEF q
  <2>4. /\ page \in Seq(S)
        /\ Len(page) = IF n < Cardinality(S) THEN n ELSE Cardinality(S)
        /\ \A k \in 1..Len(page) : page[k] = q[k]
    BY <2>1, <2>3, LiTake
  <2>5. DOMAIN page = 1..Len(page)
    BY <2>4, LenProperties
  <2>6. Li!Range(page) = {page[k] : k \in 1..Len(page)}
    BY <2>5 DEF Li!Range
  <2>7. Li!Range(page) \subseteq S
    BY <2>4, <2>6, ElementOfSeq
  <2>8. n >= Cardinality(S) => Li!Range(page) = S
    <3>1. n >= Cardinality(S) => Len(page) = Cardinality(S)
      BY <1>1, <2>4
    <3> QED BY <2>2, <2>4, <2>6, <2>7, <3>1
  <2>9. ASSUME n < Cardinality(S) PROVE Len(page) = n /\ Li!Range(page) # S
    <3>1. Len(page) = n
      BY <2>4, <2>9
    <3>2. n + 1 \in 1..Cardinality(S)
      BY <1>1, <2>9
    <3>3. ASSUME NEW k \in 1..n PROVE page[k] # q[n + 1]
      <4>1. k \in 1..Cardinality(S) /\ k # n + 1
        BY <1>1, <2>9
      <4> QED BY <2>2, <2>4, <3>1, <3>2, <4>1
    <3>4. q[n + 1] \in S /\ q[n + 1] \notin Li!Range(page)
      BY <2>2, <2>6, <3>1, <3>2, <3>3
    <3> QED BY <3>1, <3>4
  <2> QED BY <2>7, <2>8, <2>9
<1> QED BY <1>2, <1>3

\* A series whose events have pictures has an earliest one that does.
LEMMA LiPictures ==
  ASSUME LiShape, NEW i \in Ids, SeriesOf[i] # None
  PROVE  Li!SeriesImages(i) = {} <=> \A j \in HasImages : SeriesOf[j] # SeriesOf[i]
<1>1. HasImages \in SUBSET Ids /\ IsFiniteSet(Ids)
  BY LiA
<1>2. CASE i \in HasImages
  BY <1>2 DEF Li!SeriesImages
<1>3. CASE i \notin HasImages
  <2> DEFINE S == {j \in HasImages : SeriesOf[i] # None /\ SeriesOf[j] = SeriesOf[i]}
             D == {rows[j].date : j \in S}
  <2>1. Li!SeriesImages(i) = {j \in S : \A k \in S : rows[j].date <= rows[k].date}
    BY <1>3 DEF Li!SeriesImages
  <2>2. S \in SUBSET Ids /\ (S = {} <=> \A j \in HasImages : SeriesOf[j] # SeriesOf[i])
    BY <1>1
  <2> HIDE DEF S
  <2>3. D \in SUBSET Nat
    BY <2>2, LiTimes
  <2>4. IsFiniteSet(D)
    <3>1. IsFiniteSet(S)
      BY <1>1, <2>2, FS_Subset
    <3>2. [j \in S |-> rows[j].date] \in Surjection(S, D)
      BY DEF Surjection
    <3> HIDE DEF D
    <3> QED BY <3>1, <3>2, FS_Surjection
  <2>5. S # {} => \E d \in D : \A e \in D : d <= e
    <3>1. S # {} => D # {}
      OBVIOUS
    <3> HIDE DEF D
    <3> QED BY <2>3, <2>4, <3>1, Ends
  <2>6. S # {} => \E j \in S : \A k \in S : rows[j].date <= rows[k].date
    BY <2>5
  <2> QED BY <2>1, <2>2, <2>6
<1> QED BY <1>2, <1>3

\* The pins of a viewport are points of the heatmap: all, unless it says otherwise.
LEMMA LiPins ==
  ASSUME LiShape, NEW statuses,
         NEW view, view = Li!FindEventsInViewport(statuses),
         NEW points, points = Li!Range(Li!FindEventsForMap(statuses))
  PROVE  /\ points \subseteq Ids /\ Li!Range(view.events) \subseteq points
         /\ view.truncated <=> Li!Range(view.events) # points
<1> DEFINE S == Li!SeriesAnchors(Li!MapWhere(statuses))
           q == Li!ActiveOrder(S)
           n == ViewportLimit
           found0 == Li!Take(q, n + 1)
<1>1. S \in SUBSET Ids
  BY DEF Li!SeriesAnchors, Li!MapWhere
<1>2. n \in Nat /\ n + 1 \in Nat /\ Cardinality(S) \in Nat /\ IsFiniteSet(S)
  BY <1>1, LiA, FS_Subset, FS_CardinalityType
<1>3. points = S
  BY <1>1, LiLineSet DEF Li!FindEventsForMap
<1>4. view.events = Li!Take(found0, n) /\ (view.truncated <=> Len(found0) > n)
  BY DEF Li!FindEventsInViewport
<1>5. q \in Seq(Ids) /\ Len(q) = Cardinality(S)
  <2>1. Lined(S, LiActive, q)
    BY <1>1, LiLines
  <2>2. q \in Seq(S) /\ Len(q) = Cardinality(S)
    BY <1>2, <2>1, LineSeq
  <2> QED BY <1>1, <2>2, SeqMonotonic
<1>q. Li!Range(Li!Take(q, n)) \subseteq S
      /\ (n >= Cardinality(S) => Li!Range(Li!Take(q, n)) = S)
      /\ (n < Cardinality(S) => Li!Range(Li!Take(q, n)) # S)
  BY <1>1, <1>2, LiLineSet
<1> HIDE DEF S, q, n, found0
<1>6. /\ found0 \in Seq(Ids)
      /\ Len(found0) = IF n + 1 < Cardinality(S) THEN n + 1 ELSE Cardinality(S)
      /\ \A k \in 1..Len(found0) : found0[k] = q[k]
  BY <1>2, <1>5, LiTake DEF found0
<1>7. Len(found0) > n <=> n < Cardinality(S)
  BY <1>2, <1>6
<1>8. Li!Take(found0, n) = Li!Take(q, n)
  <2>1. /\ Li!Take(found0, n) \in Seq(Ids)
        /\ Len(Li!Take(found0, n)) = IF n < Len(found0) THEN n ELSE Len(found0)
        /\ \A k \in 1..Len(Li!Take(found0, n)) : Li!Take(found0, n)[k] = found0[k]
    BY <1>2, <1>6, LiTake
  <2>2. /\ Li!Take(q, n) \in Seq(Ids)
        /\ Len(Li!Take(q, n)) = IF n < Len(q) THEN n ELSE Len(q)
        /\ \A k \in 1..Len(Li!Take(q, n)) : Li!Take(q, n)[k] = q[k]
    BY <1>2, <1>5, LiTake
  <2>3. Len(Li!Take(found0, n)) = Len(Li!Take(q, n)) /\ Len(Li!Take(q, n)) \in Nat
        /\ Len(Li!Take(q, n)) <= Len(found0) /\ Len(found0) \in Nat
    BY <1>2, <1>5, <1>6, <2>1, <2>2
  <2>4. ASSUME NEW k \in 1..Len(Li!Take(q, n)) PROVE Li!Take(found0, n)[k] = Li!Take(q, n)[k]
    <3>1. k \in 1..Len(found0) /\ k \in 1..Len(Li!Take(found0, n))
      BY <2>3
    <3> QED BY <1>6, <2>1, <2>2, <3>1
  <2> QED BY <2>1, <2>2, <2>3, <2>4, SeqEqual
<1> QED BY <1>1, <1>2, <1>3, <1>4, <1>q, <1>7, <1>8

\* What the invariant says of the lists.
LEMMA LiFollows ==
  LiInv => Li!TypeOK /\ Li!PagesComplete /\ Li!StatusAgrees /\ Li!PinsArePoints
<1> SUFFICES ASSUME LiInv PROVE Li!TypeOK /\ Li!PagesComplete /\ Li!StatusAgrees /\ Li!PinsArePoints
  OBVIOUS
<1>1. LiShape
  BY DEF LiInv
<1>2. Li!TypeOK
  BY <1>1 DEF LiShape, Li!TypeOK
<1>3. Li!PagesComplete
  <2> SUFFICES ASSUME done, still PROVE listed = LiWhole
    BY DEF Li!PagesComplete, LiWhole
  <2>1. listed \in Seq(Ids) /\ LiWhole \in Seq(Ids) /\ Len(listed) = Len(LiWhole)
    BY <1>1, LiWholeIs DEF LiShape, LiInv
  <2>2. \A n \in 1..Len(listed) : listed[n] = LiWhole[n]
    <3>1. CASE listed = <<>>
      BY <3>1
    <3>2. CASE listed # <<>>
      BY <3>2 DEF LiInv
    <3> QED BY <3>1, <3>2
  <2> QED BY <2>1, <2>2, SeqEqual
<1>4. Li!StatusAgrees
  BY <1>1, LiStatus DEF Li!StatusAgrees
<1>5. Li!PinsArePoints
  <2> SUFFICES ASSUME NEW statuses \in {{}, {"PAST"}, {"SOON", "ONGOING"}},
                      NEW view, view = Li!FindEventsInViewport(statuses),
                      NEW points, points = Li!Range(Li!FindEventsForMap(statuses))
               PROVE  /\ Li!Range(view.events) \subseteq points
                      /\ view.truncated <=> Li!Range(view.events) # points
                      /\ \A i \in Li!Range(view.events) : SeriesOf[i] # None =>
                           (Li!SeriesImages(i) = {} <=> \A j \in HasImages : SeriesOf[j] # SeriesOf[i])
    BY DEF Li!PinsArePoints
  <2>1. /\ points \subseteq Ids /\ Li!Range(view.events) \subseteq points
        /\ view.truncated <=> Li!Range(view.events) # points
    BY <1>1, LiPins
  <2>2. \A i \in Ids : SeriesOf[i] # None =>
          (Li!SeriesImages(i) = {} <=> \A j \in HasImages : SeriesOf[j] # SeriesOf[i])
    BY <1>1, LiPictures
  <2> QED BY <2>1, <2>2
<1> QED BY <1>2, <1>3, <1>4, <1>5

-----------------------------------------------------------------------------
(* Suggestions: what a search comes to.                                    *)

\* What is assumed of the constants of the suggestions.
LEMMA SuA ==
  /\ Far \cup Adult \cup Social \subseteq Places
  /\ FREE_DAILY_QUOTA \in Nat /\ PREMIUM_DAILY_QUOTA \in Nat
  /\ FREE_DAILY_QUOTA <= PREMIUM_DAILY_QUOTA
  /\ MAX_PROFILE_QUERIES \in Nat /\ MaxDay \in Nat /\ MAX_SUGGESTIONS \in Nat \ {0}
  /\ IsFiniteSet(Slots) /\ None # "banned"
BY PlansAssumption DEF Su!SuggestionsAssumption, Su!IsFiniteSet, IsFiniteSet

\* The instance counts as everybody does.
LEMMA SuCount == \A S : Su!Cardinality(S) = Cardinality(S)
BY DEF Su!Cardinality, Cardinality

\* No two places of s have one value.
Distinct(s) == \A j, k \in DOMAIN s : s[j] = s[k] => j = k
\* What s has, t has.
Within(s, t) == \A k \in DOMAIN s : \E j \in DOMAIN t : s[k] = t[j]

Less == {p \in Nat \X Nat : p[1] < p[2]}

\* Places are lined up in their order.
LEMMA SuSorted ==
  ASSUME NEW P, IsFiniteSet(P), Strict(P, Less),
         \A i, j \in P : <<i, j>> \in Less <=> Su!Earlier(i, j)
  PROVE  Lined(P, Less, Su!Sorted(P, Su!Earlier))
<1>1. \A i \in P : Place(P, Less, i) = Su!Cardinality({j \in P : Su!Earlier(j, i)})
  <2>1. \A i \in P : Ahead(P, Less, i) = {j \in P : Su!Earlier(j, i)}
    BY DEF Ahead
  <2> QED BY <2>1, SuCount DEF Place
<1>2. Su!Cardinality(P) = Cardinality(P)
  BY SuCount
<1>3. Su!Sorted(P, Su!Earlier) = [n \in 1..Cardinality(P) |-> CHOOSE i \in P : Place(P, Less, i) = n - 1]
  BY <1>1, <1>2 DEF Su!Sorted
<1> QED BY <1>3, Lines

\* What stands at some of the places of s: nothing else, and all of it.
LEMMA SuAt ==
  ASSUME NEW X, NEW s \in Seq(X), NEW P \in SUBSET (1..Len(s)),
         NEW t, t = Su!At(s, P)
  PROVE  /\ t \in Seq(X) /\ Within(t, s)
         /\ \A j \in P : \E k \in DOMAIN t : t[k] = s[j]
         /\ \A k \in DOMAIN t : \E j \in P : t[k] = s[j]
         /\ (\A i, j \in P : s[i] = s[j] => i = j) => Distinct(t)
<1>0. Len(s) \in Nat /\ DOMAIN s = 1..Len(s)
  BY LenProperties
<1>1. IsFiniteSet(1..Len(s))
  BY <1>0, FS_Interval
<1>2. IsFiniteSet(P) /\ Cardinality(P) \in Nat /\ P \subseteq Nat
  <2>1. IsFiniteSet(P)
    BY <1>1, FS_Subset
  <2>2. P \subseteq Nat
    BY <1>0
  <2> QED BY <2>1, <2>2, FS_CardinalityType
<1> DEFINE q == Su!Sorted(P, Su!Earlier)
<1>3. Strict(P, Less) /\ Lined(P, Less, q)
  <2>1. Strict(P, Less)
    BY <1>2 DEF Strict, Less
  <2>2. \A i, j \in P : <<i, j>> \in Less <=> Su!Earlier(i, j)
    BY <1>2 DEF Less, Su!Earlier
  <2> QED BY <1>2, <2>1, <2>2, SuSorted
<1>4. /\ \A n \in 1..Cardinality(P) : q[n] \in P
      /\ \A i \in P : \E n \in 1..Cardinality(P) : q[n] = i
      /\ \A m, n \in 1..Cardinality(P) : q[m] = q[n] => m = n
  <2> HIDE DEF q
  <2> QED BY <1>2, <1>3, LineHas
<1>5. t = [n \in 1..Cardinality(P) |-> s[q[n]]]
  BY SuCount DEF Su!At
<1> HIDE DEF q
<1>6. \A n \in 1..Cardinality(P) : q[n] \in 1..Len(s) /\ s[q[n]] \in X
  BY <1>0, <1>4, ElementOfSeq
<1>7. t \in [1..Cardinality(P) -> X]
  BY <1>5, <1>6
<1>8. t \in Seq(X)
  BY <1>2, <1>7, IsASeq
<1>9. /\ DOMAIN t = 1..Cardinality(P)
       /\ \A n \in 1..Cardinality(P) : t[n] = s[q[n]]
  BY <1>5
<1>10. Within(t, s)
  BY <1>0, <1>6, <1>9 DEF Within
<1>11. \A j \in P : \E k \in DOMAIN t : t[k] = s[j]
  BY <1>4, <1>9
<1>12. \A k \in DOMAIN t : \E j \in P : t[k] = s[j]
  BY <1>4, <1>9
<1>13. ASSUME \A i, j \in P : s[i] = s[j] => i = j PROVE Distinct(t)
  <2> SUFFICES ASSUME NEW m \in 1..Cardinality(P), NEW n \in 1..Cardinality(P), t[m] = t[n]
               PROVE  m = n
    BY <1>9 DEF Distinct
  <2>1. q[m] \in P /\ q[n] \in P /\ s[q[m]] = s[q[n]]
    BY <1>4, <1>9
  <2>2. q[m] = q[n]
    BY <1>13, <2>1
  <2> QED BY <1>4, <2>2
<1> QED BY <1>8, <1>10, <1>11, <1>12, <1>13

\* Those of s that are in S, in their order.
LEMMA SuOnly ==
  ASSUME NEW X, NEW s \in Seq(X), NEW S, NEW t, t = Su!Only(s, S)
  PROVE  /\ t \in Seq(X) /\ Within(t, s)
         /\ \A k \in DOMAIN t : t[k] \in S
         /\ Distinct(s) => Distinct(t)
<1> DEFINE P == {k \in DOMAIN s : s[k] \in S}
<1>1. P \in SUBSET (1..Len(s)) /\ t = Su!At(s, P) /\ \A j \in P : s[j] \in S
  BY LenProperties DEF Su!Only
<1>2. Distinct(s) => \A i, j \in P : s[i] = s[j] => i = j
  BY DEF Distinct
<1> HIDE DEF P
<1>3. /\ t \in Seq(X) /\ Within(t, s)
      /\ \A k \in DOMAIN t : \E j \in P : t[k] = s[j]
      /\ (\A i, j \in P : s[i] = s[j] => i = j) => Distinct(t)
  <2>1. P \in SUBSET (1..Len(s))
    BY <1>1
  <2>2. t = Su!At(s, P)
    BY <1>1
  <2>3. t \in Seq(X) /\ Within(t, s)
    BY <2>1, <2>2, SuAt
  <2>4. \A k \in DOMAIN t : \E j \in P : t[k] = s[j]
    BY <2>1, <2>2, SuAt
  <2>5. (\A i, j \in P : s[i] = s[j] => i = j) => Distinct(t)
    BY <2>1, <2>2, SuAt
  <2> QED BY <2>3, <2>4, <2>5
<1> QED BY <1>1, <1>2, <1>3

\* The first of each.
LEMMA SuFirst ==
  ASSUME NEW X, NEW s \in Seq(X), NEW t, t = Su!FirstOfEach(s)
  PROVE  t \in Seq(X) /\ Within(t, s) /\ Distinct(t)
<1> DEFINE P == {k \in DOMAIN s : \A j \in 1..(k - 1) : s[j] # s[k]}
<1>1. P \in SUBSET (1..Len(s)) /\ t = Su!At(s, P) /\ Len(s) \in Nat
  BY LenProperties DEF Su!FirstOfEach
<1>2. ASSUME NEW i \in P, NEW j \in P, s[i] = s[j] PROVE i = j
  <2>1. i \in Nat /\ j \in Nat /\ i >= 1 /\ j >= 1
    BY <1>1
  <2>2. ~(i < j)
    <3>1. i < j => i \in 1..(j - 1)
      BY <2>1
    <3> QED BY <1>2, <3>1
  <2>3. ~(j < i)
    <3>1. j < i => j \in 1..(i - 1)
      BY <2>1
    <3> QED BY <1>2, <3>1
  <2> QED BY <2>1, <2>2, <2>3
<1> HIDE DEF P
<1> QED BY <1>1, <1>2, SuAt

\* What passes the filters, once each.
LEMMA SuSafe ==
  ASSUME NEW found0 \in Seq(Places), NEW anchored \in BOOLEAN,
         NEW s, s = Su!Safe(found0, anchored)
  PROVE  /\ s \in Seq(Places) /\ Distinct(s)
         /\ \A k \in DOMAIN s : s[k] \notin Adult /\ (s[k] \in Far => anchored)
<1> DEFINE f == Su!FirstOfEach(found0)
           S == (IF anchored THEN Places ELSE Places \ Far) \ Adult
<1>1. f \in Seq(Places) /\ Distinct(f)
  BY SuFirst
<1>2. s = Su!Only(f, S)
  BY DEF Su!Safe
<1>3. \A x \in S : x \notin Adult /\ (x \in Far => anchored)
  OBVIOUS
<1> HIDE DEF f, S
<1>4. s \in Seq(Places) /\ (\A k \in DOMAIN s : s[k] \in S) /\ Distinct(s)
  BY <1>1, <1>2, SuOnly
<1> QED BY <1>3, <1>4

\* The AI is given some of those, and none only when there is none.
LEMMA SuForAI ==
  ASSUME NEW found0 \in Seq(Places), NEW anchored \in BOOLEAN,
         NEW s, s = Su!Safe(found0, anchored), NEW c, c = Su!ForAI(found0, anchored)
  PROVE  /\ c \in Seq(Places) /\ Distinct(c) /\ Within(c, s)
         /\ c = <<>> <=> s = <<>>
<1>1. s \in Seq(Places) /\ Distinct(s)
  BY SuSafe
<1> DEFINE o == Su!Only(s, Social)
<1>2. c = IF o = <<>> THEN s ELSE o
  BY DEF Su!ForAI
<1>3. o \in Seq(Places) /\ Within(o, s) /\ Distinct(o)
  BY <1>1, SuOnly
<1>4. Within(s, s)
  BY DEF Within
<1> HIDE DEF o
<1>5. s = <<>> => o = <<>>
  <2> SUFFICES ASSUME s = <<>>, o # <<>> PROVE FALSE
    OBVIOUS
  <2>1. DOMAIN s = {} /\ DOMAIN o = 1..Len(o) /\ Len(o) \in Nat
    BY <1>3, LenProperties
  <2>2. Len(o) # 0
    BY <1>3, EmptySeq
  <2>3. 1 \in DOMAIN o
    BY <2>1, <2>2
  <2> QED BY <1>3, <2>1, <2>3 DEF Within
<1> QED BY <1>1, <1>2, <1>3, <1>4, <1>5

\* What a ranking leaves of the candidates.
LEMMA SuRanked ==
  ASSUME NEW c \in Seq(Places), NEW kept \in Su!Ranked(c)
  PROVE  kept \in Seq(Places \cup {Ghost}) /\ Distinct(kept) /\ Within(kept, c)
<1> DEFINE X == Places \cup {Ghost}
<1>1. PICK ranking \in Su!Rankings : kept = Su!FirstOfEach(Su!Only(ranking, Su!Range(c)))
  BY DEF Su!Ranked
<1>2. ranking \in Seq(X)
  <2>1. PICK m \in 0..2 : ranking \in [1..m -> X]
    BY DEF Su!Rankings, Su!Lists
  <2> HIDE DEF X
  <2>2. m \in Nat
    BY <2>1
  <2> QED BY <2>1, <2>2, IsASeq
<1> DEFINE o == Su!Only(ranking, Su!Range(c))
<1> HIDE DEF X
<1>3. o \in Seq(X) /\ \A k \in DOMAIN o : o[k] \in Su!Range(c)
  BY <1>2, SuOnly
<1>4. kept = Su!FirstOfEach(o)
  BY <1>1
<1> HIDE DEF o
<1>5. kept \in Seq(X) /\ Within(kept, o) /\ Distinct(kept)
  BY <1>3, <1>4, SuFirst
<1>6. Within(kept, c)
  BY <1>3, <1>5 DEF Within, Su!Range
<1> QED BY <1>5, <1>6 DEF X

\* What may be answered of a search.
SuGood(r) ==
  /\ Su!Fit(r.list)
  /\ \A k \in DOMAIN r.list : r.list[k].id \in r.safe /\ (r.list[k].id \in Far => r.anchored)
  /\ r.list = <<>> <=> r.safe = {}

SuCard == [id : Places \cup {Ghost}, about : {"clean", None}]

\* The cards of places that are told apart.
LEMMA SuCards ==
  ASSUME NEW c \in Seq(Places), Distinct(c), NEW kept \in Su!Ranked(c), NEW text,
         NEW e, e = Su!Enhance(c, kept, text)
  PROVE  /\ e \in Seq(SuCard)
         /\ \A k \in DOMAIN e : \E j \in DOMAIN c : e[k].id = c[j]
         /\ \A j, k \in DOMAIN e : e[j].id = e[k].id => j = k
         /\ e = <<>> <=> c = <<>>
<1>1. kept \in Seq(Places \cup {Ghost}) /\ Distinct(kept) /\ Within(kept, c)
  BY SuRanked
<1>2. /\ DOMAIN c = 1..Len(c) /\ Len(c) \in Nat /\ \A k \in DOMAIN c : c[k] \in Places
      /\ DOMAIN kept = 1..Len(kept) /\ Len(kept) \in Nat
      /\ \A k \in DOMAIN kept : kept[k] \in Places \cup {Ghost}
  BY <1>1, LenProperties, ElementOfSeq
<1>3. Su!SanitizeAbout(text) \in {"clean", None}
  BY DEF Su!SanitizeAbout
<1>4. CASE kept = <<>>
  <2>1. e = [k \in DOMAIN c |-> [id |-> c[k], about |-> None]]
    BY <1>4 DEF Su!Enhance, Su!Fallback
  <2>2. e \in [1..Len(c) -> SuCard]
    BY <1>2, <2>1 DEF SuCard
  <2>3. e \in Seq(SuCard) /\ Len(e) = Len(c)
    BY <1>2, <2>2, IsASeq, LenProperties
  <2>4. e = <<>> <=> c = <<>>
    BY <2>3, EmptySeq
  <2>5. DOMAIN e = DOMAIN c /\ \A k \in DOMAIN c : e[k].id = c[k]
    BY <2>1
  <2> QED BY <2>3, <2>4, <2>5 DEF Distinct
<1>5. CASE kept # <<>>
  <2>1. e = [k \in DOMAIN kept |-> [id |-> kept[k], about |-> Su!SanitizeAbout(text)]]
    BY <1>5 DEF Su!Enhance
  <2>2. e \in [1..Len(kept) -> SuCard]
    BY <1>2, <1>3, <2>1 DEF SuCard
  <2>3. e \in Seq(SuCard) /\ Len(e) = Len(kept)
    BY <1>2, <2>2, IsASeq, LenProperties
  <2>4. Len(kept) # 0
    BY <1>1, <1>5, EmptySeq
  <2>5. e # <<>> /\ c # <<>>
    <3>1. 1 \in DOMAIN kept
      BY <1>2, <2>4
    <3>2. DOMAIN c # {}
      BY <1>1, <3>1 DEF Within
    <3> QED BY <2>3, <2>4, <3>2
  <2>6. DOMAIN e = DOMAIN kept /\ \A k \in DOMAIN kept : e[k].id = kept[k]
    BY <2>1
  <2> QED BY <1>1, <2>3, <2>5, <2>6 DEF Distinct, Within
<1> QED BY <1>4, <1>5

\* A search comes to cards that fit.
LEMMA SuOutcomes == \A mode \in Su!Modes : \A r \in Su!Outcomes(mode) : SuGood(r)
<1> SUFFICES ASSUME NEW mode \in Su!Modes, NEW r \in Su!Outcomes(mode) PROVE SuGood(r)
  OBVIOUS
<1>0. PICK found0 \in Su!Found(mode), anchored \in Su!Anchors(mode) :
        \E kept \in Su!Ranked(Su!ForAI(found0, anchored)), text \in {"clean", "banned"} :
          r = [safe |-> Su!Range(Su!Safe(found0, anchored)), anchored |-> anchored,
               list |-> Su!Cut(Su!Enhance(Su!ForAI(found0, anchored), kept, text))]
  <2>1. PICK d \in Su!Candidates(mode) :
          \E kept \in Su!Ranked(d.forAI), text \in {"clean", "banned"} :
            r = [safe |-> d.safe, anchored |-> d.anchored, list |-> Su!Cut(Su!Enhance(d.forAI, kept, text))]
    BY DEF Su!Outcomes
  <2>2. PICK found0 \in Su!Found(mode), anchored \in Su!Anchors(mode) :
          d = [safe |-> Su!Range(Su!Safe(found0, anchored)), anchored |-> anchored,
               forAI |-> Su!ForAI(found0, anchored)]
    BY DEF Su!Candidates
  <2>3. /\ d.safe = Su!Range(Su!Safe(found0, anchored)) /\ d.anchored = anchored
        /\ d.forAI = Su!ForAI(found0, anchored)
    BY <2>2
  <2> QED BY <2>1, <2>3
<1>1. PICK kept \in Su!Ranked(Su!ForAI(found0, anchored)), text \in {"clean", "banned"} :
        r = [safe |-> Su!Range(Su!Safe(found0, anchored)), anchored |-> anchored,
             list |-> Su!Cut(Su!Enhance(Su!ForAI(found0, anchored), kept, text))]
  BY <1>0
<1>2. found0 \in Seq(Places)
  <2>1. PICK m \in Nat : found0 \in [1..m -> Places]
    <3>1. PICK n \in Nat : found0 \in UNION {[1..m -> Places] : m \in 0..n}
      <4>1. (IF mode = "profile" THEN MAX_PROFILE_QUERIES ELSE 1) \in Nat
        BY SuA
      <4> QED BY <4>1 DEF Su!Found, Su!Lists
    <3> QED BY <3>1
  <2> QED BY <2>1, IsASeq
<1>3. anchored \in BOOLEAN
  BY DEF Su!Anchors
<1> DEFINE s == Su!Safe(found0, anchored)
           c == Su!ForAI(found0, anchored)
           e == Su!Enhance(c, kept, text)
<1>4. /\ s \in Seq(Places)
      /\ \A k \in DOMAIN s : s[k] \notin Adult /\ (s[k] \in Far => anchored)
  BY <1>2, <1>3, SuSafe
<1>5. c \in Seq(Places) /\ Distinct(c) /\ Within(c, s) /\ (c = <<>> <=> s = <<>>)
  BY <1>2, <1>3, SuForAI
<1>6. kept \in Su!Ranked(c) /\ r = [safe |-> Su!Range(s), anchored |-> anchored, list |-> Su!Cut(e)]
  BY <1>1
<1> HIDE DEF s, c
<1>7. /\ e \in Seq(SuCard)
      /\ \A k \in DOMAIN e : \E j \in DOMAIN c : e[k].id = c[j]
      /\ \A j, k \in DOMAIN e : e[j].id = e[k].id => j = k
      /\ e = <<>> <=> c = <<>>
  BY <1>5, <1>6, SuCards
<1> HIDE DEF e
<1> DEFINE t == Su!Cut(e)
<1>8. PICK m \in Nat : /\ m = (IF Len(e) < MAX_SUGGESTIONS THEN Len(e) ELSE MAX_SUGGESTIONS)
                       /\ m <= Len(e) /\ Len(e) \in Nat
  BY <1>7, SuA, LenProperties
<1>9. t = SubSeq(e, 1, m)
  BY <1>8 DEF Su!Cut
<1>10. /\ t \in Seq(SuCard) /\ Len(t) = m /\ DOMAIN t = 1..m /\ DOMAIN e = 1..Len(e)
       /\ \A k \in 1..m : t[k] = e[k]
  <2>1. SubSeq(e, 1, m) \in Seq(SuCard) /\ Len(SubSeq(e, 1, m)) = m
        /\ \A k \in 1..m : SubSeq(e, 1, m)[k] = e[k]
    BY <1>7, <1>8, SubSeqProperties
  <2> HIDE DEF t
  <2> QED BY <1>7, <1>9, <2>1, LenProperties
<1> HIDE DEF t
<1>11. \A k \in 1..m : k \in DOMAIN t /\ k \in DOMAIN e /\ t[k] = e[k] /\ t[k] \in SuCard
  BY <1>8, <1>10, ElementOfSeq
<1>12. \A k \in DOMAIN t : \E j \in DOMAIN s : t[k].id = s[j]
  BY <1>5, <1>7, <1>10, <1>11 DEF Within
<1>13. \A k \in DOMAIN t : t[k].about # "banned"
  <2>1. \A x \in SuCard : x.about # "banned"
    BY SuA DEF SuCard
  <2> QED BY <1>10, <1>11, <2>1
<1>14. \A j, k \in DOMAIN t : t[j].id = t[k].id => j = k
  BY <1>7, <1>10, <1>11
<1>15. t = <<>> <=> s = <<>>
  <2>1. t = <<>> <=> m = 0
    BY <1>10, EmptySeq
  <2>2. e = <<>> <=> Len(e) = 0
    BY <1>7, EmptySeq
  <2>3. m = 0 <=> Len(e) = 0
    BY <1>8, SuA
  <2> QED BY <1>5, <1>7, <2>1, <2>2, <2>3
<1>16. s = <<>> <=> Su!Range(s) = {}
  <2>1. DOMAIN s = 1..Len(s) /\ Len(s) \in Nat /\ (s = <<>> <=> Len(s) = 0)
    BY <1>4, LenProperties, EmptySeq
  <2>2. Len(s) = 0 <=> DOMAIN s = {}
    <3>1. Len(s) # 0 => 1 \in DOMAIN s
      BY <2>1
    <3> QED BY <2>1, <3>1
  <2> QED BY <2>1, <2>2 DEF Su!Range
<1>17. r.list = t /\ r.safe = Su!Range(s) /\ r.anchored = anchored
  BY <1>6 DEF t
<1>18. Su!Fit(t)
  BY <1>4, <1>12, <1>13, <1>14 DEF Su!Fit
<1>19. \A k \in DOMAIN t : t[k].id \in Su!Range(s) /\ (t[k].id \in Far => anchored)
  BY <1>4, <1>12 DEF Su!Range
<1> QED BY <1>15, <1>16, <1>17, <1>18, <1>19 DEF SuGood

-----------------------------------------------------------------------------
(* Suggestions: what is paid.                                              *)

\* What a request holds: the limit it read, then an answer that fits.
SuAsk == [op : {"consume", "get", "search"}, u : Askers, mode : Su!Modes,
          limit : {FREE_DAILY_QUOTA, PREMIUM_DAILY_QUOTA}]
SuHolding(h) ==
  h = None \/ h \in SuAsk \/ (h.op = "set" /\ h.mode \in Su!Modes /\ SuGood(h.r))

\* The requests that have a unit and have not spent it on a search.
SuPending(u) == {s \in Slots : slot[s] # None /\ slot[s].op \in {"get", "search"} /\ slot[s].u = u}

SuShape ==
  /\ day \in Su!Days /\ premium \subseteq Askers
  /\ used \in [Askers -> [Su!Days -> 0..PREMIUM_DAILY_QUOTA]] /\ calls \in [Askers -> Nat]
  /\ DOMAIN cache = Su!Modes /\ DOMAIN slot = Slots
  /\ \A s \in Slots : SuHolding(slot[s])
  /\ \A m \in Su!Modes : cache[m] # None => cache[m] # <<>> /\ Su!Fit(cache[m])

\* Every search is paid, and so is every one to come.
SuPaid == \A u \in Askers : calls[u] + Cardinality(SuPending(u)) <= Cardinality(Su!Units(u))

SuInv == SuShape /\ SuPaid

\* The units are finitely many, and so are the requests.
LEMMA SuFinite ==
  ASSUME SuShape, NEW u \in Askers
  PROVE  /\ IsFiniteSet(Su!Units(u)) /\ Cardinality(Su!Units(u)) \in Nat
         /\ IsFiniteSet(SuPending(u)) /\ Cardinality(SuPending(u)) \in Nat
<1>1. IsFiniteSet(Su!Days) /\ IsFiniteSet(1..PREMIUM_DAILY_QUOTA)
  BY SuA, FS_Interval DEF Su!Days
<1>2. IsFiniteSet(Su!Days \X (1..PREMIUM_DAILY_QUOTA))
  BY <1>1, FS_Product
<1>3. Su!Units(u) \in SUBSET (Su!Days \X (1..PREMIUM_DAILY_QUOTA))
  BY DEF Su!Units
<1>4. SuPending(u) \in SUBSET Slots
  BY DEF SuPending
<1>5. IsFiniteSet(Su!Units(u))
  BY <1>2, <1>3, FS_Subset
<1>6. IsFiniteSet(SuPending(u))
  BY <1>4, SuA, FS_Subset
<1> QED BY <1>5, <1>6, FS_CardinalityType

\* Nothing is spent at the beginning.
LEMMA SuInvInit == Su!Init => SuInv
<1> SUFFICES ASSUME Su!Init PROVE SuInv
  OBVIOUS
<1>1. /\ day = 0 /\ premium \subseteq Askers
      /\ used = [u \in Askers |-> [d \in Su!Days |-> 0]] /\ calls = [u \in Askers |-> 0]
      /\ cache = [m \in Su!Modes |-> None] /\ slot = [s \in Slots |-> None]
  BY DEF Su!Init
<1>2. 0 \in 0..PREMIUM_DAILY_QUOTA /\ 0 \in Su!Days
  BY SuA DEF Su!Days
<1>3. SuShape
  BY <1>1, <1>2 DEF SuShape, SuHolding
<1>4. ASSUME NEW u \in Askers PROVE calls[u] + Cardinality(SuPending(u)) <= Cardinality(Su!Units(u))
  <2>1. SuPending(u) = {}
    BY <1>1 DEF SuPending
  <2>2. Cardinality(SuPending(u)) = 0
    BY <2>1, FS_EmptySet
  <2> QED BY <1>1, <1>3, <2>2, SuFinite
<1> QED BY <1>3, <1>4 DEF SuInv, SuPaid

\* What a step leaves of the units and of the requests.
LEMMA SuStays ==
  ASSUME SuInv, NEW u \in Askers, calls'[u] = calls[u], SuPending(u)' \subseteq SuPending(u),
         Su!Units(u)' = Su!Units(u)
  PROVE  calls'[u] + Cardinality(SuPending(u)') <= Cardinality(Su!Units(u)')
<1>1. IsFiniteSet(SuPending(u)) /\ Cardinality(SuPending(u)) \in Nat /\ Cardinality(Su!Units(u)) \in Nat
  BY SuFinite DEF SuInv
<1>2. Cardinality(SuPending(u)') <= Cardinality(SuPending(u)) /\ Cardinality(SuPending(u)') \in Nat
  BY <1>1, FS_Subset, FS_CardinalityType
<1>3. calls[u] \in Nat /\ calls[u] + Cardinality(SuPending(u)) <= Cardinality(Su!Units(u))
  BY DEF SuInv, SuShape, SuPaid
<1> QED BY <1>1, <1>2, <1>3

\* A request without a unit begins, and ends, for nothing.
LEMMA SuBegins ==
  ASSUME SuInv, NEW s \in Slots, NEW h, slot' = [slot EXCEPT ![s] = h], SuHolding(h),
         h = None \/ h.op \notin {"get", "search"}
                  \/ (slot[s] # None /\ slot[s].op \in {"get", "search"} /\ h.u = slot[s].u),
         UNCHANGED <<day, premium, used, calls>>,
         cache' = cache \/ \E m \in Su!Modes : \E l : l # <<>> /\ Su!Fit(l) /\ cache' = [cache EXCEPT ![m] = l]
  PROVE  SuInv'
<1>1. SuShape /\ SuPaid /\ DOMAIN slot = Slots /\ DOMAIN cache = Su!Modes
  BY DEF SuInv, SuShape
<1>2. DOMAIN slot' = Slots /\ slot'[s] = h /\ \A t \in Slots : t # s => slot'[t] = slot[t]
  BY <1>1
<1>3. DOMAIN cache' = Su!Modes
      /\ \A m \in Su!Modes : cache'[m] # None => cache'[m] # <<>> /\ Su!Fit(cache'[m])
  <2>1. \A m \in Su!Modes : cache[m] # None => cache[m] # <<>> /\ Su!Fit(cache[m])
    BY <1>1 DEF SuShape
  <2>2. CASE cache' = cache
    BY <1>1, <2>1, <2>2
  <2>3. CASE \E m \in Su!Modes : \E l : l # <<>> /\ Su!Fit(l) /\ cache' = [cache EXCEPT ![m] = l]
    <3>0. PICK m \in Su!Modes : \E l : l # <<>> /\ Su!Fit(l) /\ cache' = [cache EXCEPT ![m] = l]
      BY <2>3
    <3>1. PICK l : l # <<>> /\ Su!Fit(l) /\ cache' = [cache EXCEPT ![m] = l]
      BY <3>0
    <3>2. DOMAIN cache' = Su!Modes /\ cache'[m] = l /\ \A n \in Su!Modes : n # m => cache'[n] = cache[n]
      BY <1>1, <3>1
    <3> QED BY <2>1, <3>1, <3>2
  <2> QED BY <2>2, <2>3
<1>4. \A t \in Slots : SuHolding(slot'[t])
  BY <1>1, <1>2 DEF SuShape
<1>5. \A t \in Slots : SuHolding(slot[t])'
  BY <1>4, Zenon DEF SuHolding, SuGood, SuAsk, Su!Fit
<1>6. \A m \in Su!Modes : Su!Fit(cache[m])' = Su!Fit(cache'[m])
  BY DEF Su!Fit
<1>7. SuShape'
  BY <1>1, <1>2, <1>3, <1>5, <1>6 DEF SuShape
<1>8. ASSUME NEW u \in Askers
      PROVE  calls'[u] + Cardinality(SuPending(u)') <= Cardinality(Su!Units(u)')
  <2>1. SuPending(u)' \subseteq SuPending(u)
    BY <1>2 DEF SuPending
  <2>2. Su!Units(u)' = Su!Units(u)
    BY DEF Su!Units
  <2> QED BY <2>1, <2>2, SuStays
<1>9. SuPaid'
  BY <1>8 DEF SuPaid
<1> QED BY <1>7, <1>9 DEF SuInv

\* A unit is spent before the request may search.
LEMMA SuConsumes == ASSUME SuInv, NEW s \in Slots, Su!consumeGenerationQuota(s) PROVE SuInv'
<1> DEFINE h == slot[s]
           v == h.u
           count == used[v][day]
<1>1. h # None /\ h.op = "consume"
  BY DEF Su!consumeGenerationQuota, Su!Holds
<1>2. SuShape /\ SuPaid /\ DOMAIN slot = Slots /\ SuHolding(h)
  BY DEF SuInv, SuShape
<1>3. h \in SuAsk
  BY <1>1, <1>2 DEF SuHolding
<1>4. v \in Askers /\ h.limit \in {FREE_DAILY_QUOTA, PREMIUM_DAILY_QUOTA} /\ h.limit <= PREMIUM_DAILY_QUOTA
      /\ h.limit \in Nat /\ PREMIUM_DAILY_QUOTA \in Nat
  <2>1. v \in Askers /\ h.limit \in {FREE_DAILY_QUOTA, PREMIUM_DAILY_QUOTA}
    BY <1>3 DEF SuAsk
  <2> QED BY <2>1, SuA
<1>5. day \in Su!Days /\ count \in 0..PREMIUM_DAILY_QUOTA
      /\ used \in [Askers -> [Su!Days -> 0..PREMIUM_DAILY_QUOTA]]
  BY <1>2, <1>4 DEF SuShape
<1>6. /\ used' = IF count < h.limit THEN [used EXCEPT ![v][day] = @ + 1] ELSE used
      /\ slot' = [slot EXCEPT ![s] = IF count < h.limit THEN [h EXCEPT !.op = "get"] ELSE None]
      /\ UNCHANGED <<day, premium, cache, calls>>
  BY DEF Su!consumeGenerationQuota, Su!Step, Su!Allowed
<1> HIDE DEF h, v, count
<1>7. CASE ~(count < h.limit)
  <2>1. slot' = [slot EXCEPT ![s] = None] /\ UNCHANGED <<day, premium, used, calls>> /\ cache' = cache
    BY <1>6, <1>7
  <2>2. SuHolding(None)
    BY DEF SuHolding
  <2> QED BY <2>1, <2>2, SuBegins
<1>8. CASE count < h.limit
  <2> DEFINE g == [h EXCEPT !.op = "get"]
  <2>1. used' = [used EXCEPT ![v][day] = count + 1] /\ slot' = [slot EXCEPT ![s] = g]
    BY <1>6, <1>8 DEF count
  <2>2. g \in SuAsk /\ g.u = v /\ g.op = "get"
    BY <1>3 DEF SuAsk, v
  <2> HIDE DEF g
  <2>3. count + 1 \in 1..PREMIUM_DAILY_QUOTA /\ count + 1 \in 0..PREMIUM_DAILY_QUOTA
    BY <1>4, <1>5, <1>8
  <2>4. /\ used' \in [Askers -> [Su!Days -> 0..PREMIUM_DAILY_QUOTA]]
        /\ used'[v][day] = count + 1
        /\ \A u \in Askers, d \in Su!Days : u # v \/ d # day => used'[u][d] = used[u][d]
    BY <1>4, <1>5, <2>1, <2>3
  <2>5. DOMAIN slot' = Slots /\ slot'[s] = g /\ \A t \in Slots : t # s => slot'[t] = slot[t]
    BY <1>2, <2>1
  <2>6. \A t \in Slots : SuHolding(slot'[t])
    BY <1>2, <2>2, <2>5 DEF SuShape, SuHolding
  <2>7. \A t \in Slots : SuHolding(slot[t])'
    BY <2>6 DEF SuHolding, SuGood, SuAsk, Su!Fit
  <2>8. SuShape'
    BY <1>2, <1>6, <2>4, <2>5, <2>7, Zenon DEF SuShape, Su!Fit
  <2>9. ASSUME NEW u \in Askers
        PROVE  calls'[u] + Cardinality(SuPending(u)') <= Cardinality(Su!Units(u)')
    <3>0. calls' = calls /\ calls[u] \in Nat
          /\ calls[u] + Cardinality(SuPending(u)) <= Cardinality(Su!Units(u))
      BY <1>2, <1>6 DEF SuShape, SuPaid
    <3>1. CASE u # v
      <4>1. SuPending(u)' \subseteq SuPending(u)
        BY <2>2, <2>5, <3>1 DEF SuPending
      <4>2. Su!Units(u)' = Su!Units(u)
        BY <2>4, <3>1 DEF Su!Units
      <4> QED BY <3>0, <4>1, <4>2, SuStays
    <3>2. CASE u = v
      <4>1. SuPending(u)' \subseteq SuPending(u) \cup {s}
        BY <2>5 DEF SuPending
      <4>2. s \notin SuPending(u)
        BY <1>1 DEF SuPending, h
      <4>3. /\ IsFiniteSet(SuPending(u)) /\ Cardinality(SuPending(u)) \in Nat
            /\ IsFiniteSet(Su!Units(u)) /\ Cardinality(Su!Units(u)) \in Nat
        BY <1>2, SuFinite
      <4>4. IsFiniteSet(SuPending(u) \cup {s})
            /\ Cardinality(SuPending(u) \cup {s}) = Cardinality(SuPending(u)) + 1
        BY <4>2, <4>3, FS_AddElement
      <4>5. Cardinality(SuPending(u)') <= Cardinality(SuPending(u)) + 1 /\ Cardinality(SuPending(u)') \in Nat
        <5>1. IsFiniteSet(SuPending(u)') /\ Cardinality(SuPending(u)') <= Cardinality(SuPending(u) \cup {s})
          BY <4>1, <4>4, FS_Subset
        <5> QED BY <4>4, <5>1, FS_CardinalityType
      <4>6. Su!Units(u)' = Su!Units(u) \cup {<<day, count + 1>>}
        <5>1. \A d \in Su!Days, n \in 1..PREMIUM_DAILY_QUOTA :
                n <= used'[u][d] <=> n <= used[u][d] \/ (d = day /\ n = count + 1)
          <6> SUFFICES ASSUME NEW d \in Su!Days, NEW n \in 1..PREMIUM_DAILY_QUOTA
                       PROVE  n <= used'[u][d] <=> n <= used[u][d] \/ (d = day /\ n = count + 1)
            OBVIOUS
          <6>1. CASE d = day
            <7>1. used'[u][d] = count + 1 /\ used[u][d] = count
              BY <2>4, <3>2, <6>1 DEF count
            <7> QED BY <1>4, <1>5, <6>1, <7>1
          <6>2. CASE d # day
            BY <2>4, <3>2, <6>2
          <6> QED BY <6>1, <6>2
        <5>2. <<day, count + 1>> \in Su!Days \X (1..PREMIUM_DAILY_QUOTA)
          BY <1>5, <2>3
        <5>3. Su!Units(u)' = {x \in Su!Days \X (1..PREMIUM_DAILY_QUOTA) : x[2] <= used'[u][x[1]]}
          BY DEF Su!Units
        <5>4. Su!Units(u) = {x \in Su!Days \X (1..PREMIUM_DAILY_QUOTA) : x[2] <= used[u][x[1]]}
          BY DEF Su!Units
        <5>5. \A x \in Su!Days \X (1..PREMIUM_DAILY_QUOTA) :
                x \in Su!Units(u)' <=> x \in Su!Units(u) \cup {<<day, count + 1>>}
          <6> SUFFICES ASSUME NEW d \in Su!Days, NEW n \in 1..PREMIUM_DAILY_QUOTA
                       PROVE  <<d, n>> \in Su!Units(u)' <=> <<d, n>> \in Su!Units(u) \cup {<<day, count + 1>>}
            OBVIOUS
          <6> QED BY <5>1, <5>3, <5>4
        <5> QED BY <5>2, <5>3, <5>4, <5>5
      <4>7. <<day, count + 1>> \notin Su!Units(u)
        <5>1. ~(count + 1 <= count)
          BY <1>5
        <5> QED BY <3>2, <5>1 DEF Su!Units, count
      <4>8. Cardinality(Su!Units(u)') = Cardinality(Su!Units(u)) + 1
        BY <4>3, <4>6, <4>7, FS_AddElement
      <4> QED BY <3>0, <4>3, <4>5, <4>8
    <3> QED BY <3>1, <3>2
  <2>10. SuPaid'
    BY <2>9 DEF SuPaid
  <2> QED BY <2>8, <2>10 DEF SuInv
<1> QED BY <1>7, <1>8

\* A search spends the unit of its request.
LEMMA SuSearches ==
  ASSUME SuInv, NEW s \in Slots, Su!Holds(s, "search"),
         NEW h, slot' = [slot EXCEPT ![s] = h], SuHolding(h), h = None \/ h.op = "set",
         calls' = [calls EXCEPT ![slot[s].u] = @ + 1], UNCHANGED <<day, premium, used, cache>>
  PROVE  SuInv'
<1>1. SuShape /\ SuPaid /\ DOMAIN slot = Slots /\ calls \in [Askers -> Nat]
  BY DEF SuInv, SuShape
<1>2. slot[s] # None /\ slot[s].op = "search"
  BY DEF Su!Holds
<1>3. slot[s].u \in Askers
  <2>1. slot[s] \in SuAsk
    BY <1>1, <1>2 DEF SuShape, SuHolding
  <2> QED BY <2>1 DEF SuAsk
<1>4. DOMAIN slot' = Slots /\ slot'[s] = h /\ \A t \in Slots : t # s => slot'[t] = slot[t]
  BY <1>1
<1>5. \A t \in Slots : SuHolding(slot'[t])
  BY <1>1, <1>4 DEF SuShape
<1>6. \A t \in Slots : SuHolding(slot[t])'
  BY <1>5, Zenon DEF SuHolding, SuGood, SuAsk, Su!Fit
<1>7. calls' \in [Askers -> Nat] /\ calls'[slot[s].u] = calls[slot[s].u] + 1
      /\ \A u \in Askers : u # slot[s].u => calls'[u] = calls[u]
  BY <1>1, <1>3
<1>8. SuShape'
  BY <1>1, <1>4, <1>6, <1>7 DEF SuShape, Su!Fit
<1>9. ASSUME NEW u \in Askers
      PROVE  calls'[u] + Cardinality(SuPending(u)') <= Cardinality(Su!Units(u)')
  <2>1. Su!Units(u)' = Su!Units(u)
    BY DEF Su!Units
  <2>2. SuPending(u)' \subseteq SuPending(u) \ {s}
    BY <1>4 DEF SuPending
  <2>3. CASE u # slot[s].u
    BY <1>7, <2>1, <2>2, <2>3, SuStays
  <2>4. CASE u = slot[s].u
    <3>1. s \in SuPending(u)
      BY <1>2, <2>4 DEF SuPending
    <3>2. IsFiniteSet(SuPending(u)) /\ Cardinality(SuPending(u)) \in Nat /\ Cardinality(Su!Units(u)) \in Nat
      BY <1>1, SuFinite
    <3>3. IsFiniteSet(SuPending(u) \ {s})
          /\ Cardinality(SuPending(u) \ {s}) = Cardinality(SuPending(u)) - 1
      BY <3>1, <3>2, FS_RemoveElement
    <3>4. IsFiniteSet(SuPending(u)') /\ Cardinality(SuPending(u)') <= Cardinality(SuPending(u) \ {s})
      BY <2>2, <3>3, FS_Subset
    <3>5. Cardinality(SuPending(u)') \in Nat
      BY <3>4, FS_CardinalityType
    <3>6. calls[u] \in Nat /\ calls[u] + Cardinality(SuPending(u)) <= Cardinality(Su!Units(u))
      BY <1>1 DEF SuPaid
    <3>7. calls'[u] = calls[u] + 1
      BY <1>7, <2>4
    <3> QED BY <2>1, <3>2, <3>3, <3>4, <3>5, <3>6, <3>7
  <2> QED BY <2>3, <2>4
<1>10. SuPaid'
  BY <1>9 DEF SuPaid
<1> QED BY <1>8, <1>10 DEF SuInv

\* The cache loses entries, plans change, a day begins.
LEMMA SuMoves ==
  ASSUME SuInv, \/ \E m \in Su!Modes : Su!expire(m)
                \/ \E u \in Askers : Su!setPremium(u)
                \/ Su!midnight \/ UNCHANGED Su!vars
  PROVE  SuInv'
<1>1. SuShape /\ SuPaid /\ UNCHANGED <<used, slot, calls>>
  BY DEF SuInv, Su!expire, Su!setPremium, Su!midnight, Su!vars
<1>2. day' \in Su!Days
  BY <1>1, SuA DEF SuShape, Su!expire, Su!setPremium, Su!midnight, Su!vars, Su!Days
<1>3. premium' \subseteq Askers
  BY <1>1 DEF SuShape, Su!expire, Su!setPremium, Su!midnight, Su!vars
<1>4. DOMAIN cache' = Su!Modes /\ \A m \in Su!Modes : cache'[m] \in {None, cache[m]}
  BY <1>1 DEF SuShape, Su!expire, Su!setPremium, Su!midnight, Su!vars
<1>5. \A t \in Slots : SuHolding(slot[t])'
  BY <1>1 DEF SuShape, SuHolding, SuGood, SuAsk, Su!Fit
<1>6. SuShape'
  BY <1>1, <1>2, <1>3, <1>4, <1>5 DEF SuShape, Su!Fit
<1>7. \A u \in Askers : SuPending(u)' = SuPending(u) /\ Su!Units(u)' = Su!Units(u)
  BY <1>1 DEF SuPending, Su!Units
<1>8. SuPaid'
  BY <1>1, <1>7 DEF SuPaid
<1> QED BY <1>6, <1>8 DEF SuInv

\* Every step keeps it.
LEMMA SuInvNext == SuInv /\ [Su!Next]_(Su!vars) => SuInv'
<1>0. ASSUME SuInv, NEW s \in Slots, Su!generateSuggestions(s) PROVE SuInv'
  <2>1. PICK u \in Askers, mode \in Su!Modes :
          slot' = [slot EXCEPT ![s] = [op |-> "consume", u |-> u, mode |-> mode,
                                       limit |-> IF u \in premium THEN PREMIUM_DAILY_QUOTA
                                                 ELSE FREE_DAILY_QUOTA]]
    BY <1>0 DEF Su!generateSuggestions, Su!Step
  <2> DEFINE h == [op |-> "consume", u |-> u, mode |-> mode,
                   limit |-> IF u \in premium THEN PREMIUM_DAILY_QUOTA ELSE FREE_DAILY_QUOTA]
  <2>2. h \in SuAsk /\ h.op = "consume"
    BY DEF SuAsk
  <2>3. slot' = [slot EXCEPT ![s] = h] /\ UNCHANGED <<day, premium, used, calls>> /\ cache' = cache
    BY <1>0, <2>1 DEF Su!generateSuggestions
  <2> HIDE DEF h
  <2>4. SuHolding(h) /\ h.op \notin {"get", "search"}
    BY <2>2 DEF SuHolding
  <2> QED BY <1>0, <2>3, <2>4, SuBegins
<1>1. ASSUME SuInv, NEW s \in Slots, Su!cacheGet(s) PROVE SuInv'
  <2> DEFINE h == IF cache[slot[s].mode] # None THEN None ELSE [slot[s] EXCEPT !.op = "search"]
  <2>1. slot[s] # None /\ slot[s].op = "get" /\ slot' = [slot EXCEPT ![s] = h]
        /\ UNCHANGED <<day, premium, used, calls>> /\ cache' = cache
    BY <1>1 DEF Su!cacheGet, Su!Holds, Su!Step
  <2>2. slot[s] \in SuAsk
    BY <1>1, <2>1 DEF SuInv, SuShape, SuHolding
  <2>3. h = None \/ (h \in SuAsk /\ h.u = slot[s].u)
    BY <2>2 DEF SuAsk
  <2> HIDE DEF h
  <2>4. SuHolding(h)
    BY <2>3 DEF SuHolding
  <2> QED BY <1>1, <2>1, <2>3, <2>4, SuBegins
<1>2. ASSUME SuInv, NEW s \in Slots, Su!searchPlaces(s) PROVE SuInv'
  <2>1. slot[s] \in SuAsk /\ Su!Holds(s, "search")
    BY <1>2 DEF Su!searchPlaces, Su!Holds, SuInv, SuShape, SuHolding
  <2>2. slot[s].mode \in Su!Modes
    BY <2>1 DEF SuAsk
  <2>3. PICK r \in Su!Outcomes(slot[s].mode) :
          slot' = [slot EXCEPT ![s] = [op |-> "set", mode |-> slot[s].mode, r |-> r]]
    BY <1>2 DEF Su!searchPlaces, Su!Step
  <2>4. SuGood(r)
    BY <2>2, SuOutcomes
  <2> DEFINE h == [op |-> "set", mode |-> slot[s].mode, r |-> r]
  <2>5. h.op = "set" /\ h.mode \in Su!Modes /\ h.r = r
    BY <2>2
  <2>6. slot' = [slot EXCEPT ![s] = h]
        /\ calls' = [calls EXCEPT ![slot[s].u] = @ + 1] /\ UNCHANGED <<day, premium, used, cache>>
    BY <1>2, <2>3 DEF Su!searchPlaces
  <2> HIDE DEF h
  <2>7. SuHolding(h)
    BY <2>4, <2>5 DEF SuHolding
  <2> QED BY <1>2, <2>1, <2>5, <2>6, <2>7, SuSearches
<1>3. ASSUME SuInv, NEW s \in Slots, Su!searchFails(s) PROVE SuInv'
  <2>1. Su!Holds(s, "search") /\ slot' = [slot EXCEPT ![s] = None]
        /\ calls' = [calls EXCEPT ![slot[s].u] = @ + 1] /\ UNCHANGED <<day, premium, used, cache>>
    BY <1>3 DEF Su!searchFails, Su!Step
  <2>2. SuHolding(None)
    BY DEF SuHolding
  <2> QED BY <1>3, <2>1, <2>2, SuSearches
<1>4. ASSUME SuInv, NEW s \in Slots, Su!cacheSet(s) PROVE SuInv'
  <2>1. /\ slot[s] # None /\ slot[s].op = "set" /\ slot' = [slot EXCEPT ![s] = None]
        /\ UNCHANGED <<day, premium, used, calls>>
        /\ cache' = IF slot[s].r.list = <<>> THEN cache
                    ELSE [cache EXCEPT ![slot[s].mode] = slot[s].r.list]
    BY <1>4 DEF Su!cacheSet, Su!Holds, Su!Step
  <2>2. slot[s].mode \in Su!Modes /\ SuGood(slot[s].r)
    <3>1. slot[s] \notin SuAsk
      BY <2>1 DEF SuAsk
    <3> QED BY <1>4, <2>1, <3>1 DEF SuInv, SuShape, SuHolding
  <2>3. cache' = cache \/ \E m \in Su!Modes : \E l : l # <<>> /\ Su!Fit(l) /\ cache' = [cache EXCEPT ![m] = l]
    BY <2>1, <2>2 DEF SuGood
  <2>4. SuHolding(None)
    BY DEF SuHolding
  <2> QED BY <1>4, <2>1, <2>3, <2>4, SuBegins
<1>5. ASSUME SuInv, Su!Next PROVE SuInv'
  BY <1>0, <1>1, <1>2, <1>3, <1>4, <1>5, SuConsumes, SuMoves DEF Su!Next
<1>6. ASSUME SuInv, UNCHANGED Su!vars PROVE SuInv'
  BY <1>6, SuMoves
<1> QED BY <1>5, <1>6

\* What the invariant says of the suggestions.
LEMMA SuFollows == SuInv => Su!TypeOK /\ Su!CallsArePaid /\ Su!SuggestionsFit
<1> SUFFICES ASSUME SuInv PROVE Su!TypeOK /\ Su!CallsArePaid /\ Su!SuggestionsFit
  OBVIOUS
<1>1. SuShape /\ SuPaid
  BY DEF SuInv
<1>2. Su!TypeOK
  <2>1. used \in [Askers -> [Su!Days -> Nat]]
    BY <1>1 DEF SuShape
  <2> QED BY <1>1, <2>1 DEF SuShape, Su!TypeOK
<1>3. Su!CallsArePaid
  <2> SUFFICES ASSUME NEW u \in Askers
               PROVE  /\ calls[u] <= Cardinality(Su!Units(u))
                      /\ \A d \in Su!Days : used[u][d] <= PREMIUM_DAILY_QUOTA
    BY SuCount DEF Su!CallsArePaid
  <2>1. calls[u] \in Nat /\ Cardinality(SuPending(u)) \in Nat /\ Cardinality(Su!Units(u)) \in Nat
        /\ calls[u] + Cardinality(SuPending(u)) <= Cardinality(Su!Units(u))
    BY <1>1, SuFinite DEF SuShape, SuPaid
  <2>2. \A d \in Su!Days : used[u][d] \in 0..PREMIUM_DAILY_QUOTA
    BY <1>1 DEF SuShape
  <2>3. \A d \in Su!Days : used[u][d] <= PREMIUM_DAILY_QUOTA
    BY <2>2, SuA
  <2> QED BY <2>1, <2>3
<1>4. Su!SuggestionsFit
  <2>1. ASSUME NEW s \in Slots, Su!Holds(s, "set") PROVE SuGood(slot[s].r)
    <3>1. slot[s] # None /\ slot[s].op = "set"
      BY <2>1 DEF Su!Holds
    <3>2. slot[s] \notin SuAsk
      BY <3>1 DEF SuAsk
    <3> QED BY <1>1, <3>1, <3>2 DEF SuShape, SuHolding
  <2> QED BY <1>1, <2>1 DEF Su!SuggestionsFit, SuGood, SuShape
<1> QED BY <1>2, <1>3, <1>4

-----------------------------------------------------------------------------
(* The instances. *)

\* The parts that are proved, each with its invariant.
PlansInv ==
  /\ part = "fanout" => FanInv
  /\ part = "events" => EvInv
  /\ part = "lists" => LiInv
  /\ part = "spots" => SpInv
  /\ part = "suggestions" => SuInv
  /\ part = "series" => SeInv
  /\ part = "featured" => FeInv
  /\ part = "push" => PuInv

\* A step of the instances is one of the part that runs.
LEMMA PlansParts ==
  ASSUME [MCNext]_all
  PROVE  /\ part' = part
         /\ part = "fanout" => [Next]_vars
         /\ part = "events" => [Ev!Next]_(Ev!vars)
         /\ part = "lists" => [Li!Next]_(Li!vars)
         /\ part = "spots" => [Sp!Next]_(Sp!vars)
         /\ part = "suggestions" => [Su!Next]_(Su!vars)
         /\ part = "series" => [Se!Next]_(Se!vars)
         /\ part = "featured" => [Fe!Next]_(Fe!vars)
         /\ part = "push" => [Pu!Next]_(Pu!vars)
         /\ part # "fanout" => UNCHANGED <<at, sent>>
<1>1. CASE MCNext
  BY <1>1 DEF MCNext, Idle, ofFanout
<1>2. CASE UNCHANGED all
  <2>1. /\ part' = part
        /\ UNCHANGED <<now, changes, usage, faults, slot, cache, requests, rows, pass,
                        crashes, premium, job>>
        /\ UNCHANGED ofFanout /\ UNCHANGED ofEvents /\ UNCHANGED ofSpots
        /\ UNCHANGED ofLists /\ UNCHANGED ofSuggestions
        /\ UNCHANGED ofSeries /\ UNCHANGED ofFeatured /\ UNCHANGED ofPush
    BY <1>2 DEF all, shared
  <2>2. UNCHANGED vars /\ UNCHANGED <<at, sent>>
    BY <2>1 DEF ofFanout, vars, env
  <2>3. UNCHANGED Ev!vars
    BY <2>1 DEF ofEvents, Ev!vars
  <2>4. UNCHANGED Sp!vars
    BY <2>1 DEF ofSpots, Sp!vars
  <2>5. UNCHANGED Se!vars
    BY <2>1 DEF ofSeries, Se!vars
  <2>6. UNCHANGED Fe!vars
    BY <2>1 DEF ofFeatured, Fe!vars
  <2>7. UNCHANGED Pu!vars
    BY <2>1 DEF ofPush, Pu!vars
  <2>8. UNCHANGED Li!vars
    BY <2>1 DEF ofLists, Li!vars
  <2>9. UNCHANGED Su!vars
    BY <2>1 DEF ofSuggestions, Su!vars
  <2> QED BY <2>1, <2>2, <2>3, <2>4, <2>5, <2>6, <2>7, <2>8, <2>9
<1> QED BY <1>1, <1>2

\* Every part begins with its invariant.
LEMMA PlansInit == MCInit => PlansInv
BY FanInvInit, EvInvInit, LiInvInit, SpInvInit, SuInvInit, SeInvInit, FeInvInit, PuInvInit
   DEF MCInit, PlansInv

\* Every step keeps the invariant of the part that runs.
LEMMA PlansNext == PlansInv /\ [MCNext]_all => PlansInv'
BY PlansParts, FanInvNext, EvInvNext, LiInvNext, SpInvNext, SuInvNext, SeInvNext, FeInvNext,
   PuInvNext DEF PlansInv

\* The fan-out of every notification, for every set of users and jobs and every
\* bound: rows and deliveries are what they should be, nobody who was in the
\* audience from the load on is skipped, and the cap on discoveries holds.  Whatever
\* receipts are late, lost or refused, a device that is silenced is a dead one.
THEOREM FanoutsAreSafe == MCSpec => []FanoutsHold
<1>1. PlansInv => FanoutsHold
  BY FanTyped, FanReaches, FanCaps, PuFollows DEF PlansInv, FanoutsHold
<1> QED BY <1>1, PlansInit, PlansNext, PTL DEF MCSpec

\* A fan-out implements the outbox: a notification is kept before it is sent, and
\* none is sent twice, whatever fails, dies and is run again.
THEOREM FanoutsImplementOutbox == MCSpec => DeliversOnce
<1>1. MCInit => Box!Init
  <2>1. CASE part = "fanout"
    BY <2>1, BoxInit DEF MCInit
  <2>2. CASE part # "fanout"
    BY <2>2, BoxBlank DEF MCInit, Blank
  <2> QED BY <2>1, <2>2
<1>2. PlansInv /\ PlansInv' /\ [MCNext]_all => [Box!Next]_<<BoxStored, BoxSent>>
  <2> SUFFICES ASSUME PlansInv, PlansInv', [MCNext]_all
               PROVE  [Box!Next]_<<BoxStored, BoxSent>>
    OBVIOUS
  <2>1. CASE part = "fanout"
    BY <2>1, PlansParts, BoxStep DEF PlansInv
  <2>2. CASE part # "fanout"
    BY <2>2, PlansParts, BoxKept
  <2> QED BY <2>1, <2>2
<1> QED BY <1>1, <1>2, PlansInit, PlansNext, PTL
        DEF MCSpec, DeliversOnce, Box!Spec, BoxStored, BoxSent

\* Events, for every number of guests, links, requests at once and caches: one link
\* that works, its uses are its invitations, what is hidden leaves the lists.  For
\* every rule, horizon and cap, and whatever passes of the reconciler overlap the
\* author, a series makes what its rule asks and is quiet once canceled; for any
\* number of purchases at once, a month's quota counts those that went through.
THEOREM EventsAreSafe == MCSpec => []EventsHold
<1>1. PlansInv => EventsHold
  BY EvFollows, SeFollows, FeFollows DEF PlansInv, EventsHold
<1> QED BY <1>1, PlansInit, PlansNext, PTL DEF MCSpec

\* The lists, for every set of events, page and viewport length and threshold, wherever
\* time and the authors move: what a query finds is what the card says, the pages of a
\* profile that stood still are the whole profile, each event once, and the pins are
\* points, in one piece unless the answer says otherwise.  Suggestions, for every number
\* of requests at once, quota and answer of Places or the AI: each search is paid with a
\* unit of its own, and what is answered or cached fits.
THEOREM ListsAreSafe == MCSpec => []ListsHold
<1>1. PlansInv => ListsHold
  BY LiFollows, SuFollows DEF PlansInv, ListsHold
<1> QED BY <1>1, PlansInit, PlansNext, PTL DEF MCSpec

\* Spots, for every number of people, spots, requests at once and stops of the
\* process: the cap holds, what is listed opens, and no window ends unannounced.
THEOREM SpotsAreSafe == MCSpec => []SpotsHold
<1>1. PlansInv => SpotsHold
  BY SpTyped, SpCapped, SpOpens, SpReminds DEF PlansInv, SpotsHold
<1> QED BY <1>1, PlansInit, PlansNext, PTL DEF MCSpec

\* The clean-up of the spots takes no conversation of two people or more.
THEOREM GroupsAreKept == MCSpec => GroupsGraduate
<1>1. PlansInv /\ [MCNext]_all => [part = "spots" => Sp!Graduates]_all
  <2> SUFFICES ASSUME PlansInv, [MCNext]_all, part = "spots"
               PROVE  Sp!Graduates \/ UNCHANGED all
    OBVIOUS
  <2>1. Sp!Graduates \/ UNCHANGED Sp!vars
    BY PlansParts, SpGraduates DEF PlansInv
  <2>2. ASSUME UNCHANGED Sp!vars PROVE Sp!Graduates
    BY <2>2 DEF Sp!vars, Sp!Graduates
  <2> QED BY <2>1, <2>2
<1> QED BY <1>1, PlansInit, PlansNext, PTL DEF MCSpec, GroupsGraduate
=============================================================================
