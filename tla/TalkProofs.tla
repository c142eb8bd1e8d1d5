----------------------------- MODULE TalkProofs -----------------------------
(***************************************************************************)
(* What people say and who they are, proved for every value of the         *)
(* constants: the invariants and action properties of MCTalk.  Each part   *)
(* has its own invariant, which its steps keep; MCTalk runs one part at a  *)
(* time, and the theorems put the parts together at the end.               *)
(***************************************************************************)
EXTENDS MCTalk, Sequences, FiniteSetTheorems, TLAPS

-----------------------------------------------------------------------------
\* What is assumed of the constants of the galleries.
LEMMA GaA == Ga!GalleriesAssumption
BY TalkAssumption

\* What it calls finite is, and it counts as everybody does.
LEMMA GaSets ==
  \A S : (Ga!IsFiniteSet(S) <=> IsFiniteSet(S)) /\ Ga!Cardinality(S) = Cardinality(S)
BY DEF Ga!IsFiniteSet, Ga!Cardinality, IsFiniteSet, Cardinality

\* An injection of the instance is one of everybody's.
LEMMA GaInjective == \A f : Ga!IsInjective(f) <=> IsInjective(f)
BY DEF Ga!IsInjective, IsInjective

-----------------------------------------------------------------------------
(* Galleries. *)

GaRow == [of : Ga!Galleries \cup {None}, order : Nat]

\* A list of positions rearranges some images.
GaMove(pos) ==
  \E D \in SUBSET Images : pos \in [D -> 0..(Cardinality(D) - 1)] /\ IsInjective(pos)

GaLists == {<<>>} \cup UNION {[D -> 0..(Cardinality(D) - 1)] : D \in SUBSET Images}

GaStep ==
  [at : {"idle", "upload", "max", "insert", "rollback", "publish", "unlink", "blobs", "row", "reorder"},
   of : Ga!Galleries \cup {None}, images : SUBSET Images, order : Nat, pos : GaLists]

\* What a request knows of its images: those it adds are its own.
GaPart(s) ==
  LET o == op[s] IN
  /\ o.images \subseteq taken
  /\ o.at \in {"idle", "reorder"} => o.images = {}
  /\ o.at \in {"upload", "max", "insert"} => o.of \in Posts /\ \E i \in Images : o.images = {i}
  /\ o.at \in {"upload", "max", "insert", "rollback", "publish"} =>
       \A i \in o.images : row[i] = Ga!NoRow /\ \A t \in Slots \ {s} : i \notin op[t].images
  /\ o.at = "upload" => o.images \cap blobs = {}
  /\ o.at \in {"max", "insert"} => o.images \subseteq blobs
  /\ o.at = "unlink" => \A i \in o.images : row[i] = Ga!NoRow
  /\ o.at \in {"blobs", "row"} =>
       o.of \in Ga!Galleries /\ \A i \in o.images : row[i] = Ga!NoRow \/ row[i].of = o.of
  /\ o.at = "row" => o.images \cap blobs = {}
  /\ o.at = "publish" => o.of \in Albums \ there /\ \A t \in Slots \ {s} : op[t].of # o.of
  /\ o.at = "reorder" => o.of \in Posts /\ GaMove(o.pos)

GaShape ==
  /\ there \subseteq Ga!Galleries /\ blobs \subseteq taken /\ taken \subseteq Images
  /\ row \in [Images -> GaRow] /\ op \in [Slots -> GaStep]
  /\ missed \subseteq Images /\ raced \in BOOLEAN
  /\ \A i \in Images : /\ row[i].of \in there \cup {None}
                       /\ row[i].of = None => row[i] = Ga!NoRow
                       /\ row[i] # Ga!NoRow => i \in taken

\* An upload that read the last position will be the only one after it.
GaOrders ==
  ~raced =>
    /\ \A i, j \in Images : row[i] = row[j] /\ row[i] # Ga!NoRow => i = j
    /\ \A s \in Slots : op[s].at = "insert" =>
         /\ Cardinality(Ga!ImagesOf(op[s].of)) <= op[s].order
         /\ \A i \in Images : row[i].of = op[s].of => row[i].order < op[s].order
         /\ \A t \in Slots : op[t].at = "insert" /\ op[t].of = op[s].of => t = s

GaInv ==
  /\ GaShape /\ Ga!BlobsMatchRows /\ Ga!LimitPlusRaces /\ GaOrders
  /\ \A s \in Slots : GaPart(s)

-----------------------------------------------------------------------------
(* What the steps are made of. *)

\* The constants of the galleries, one fact at a time.
LEMMA GaPar ==
  /\ Posts \cap Albums = {} /\ None \notin Ga!Galleries /\ Posts \subseteq Ga!Galleries
  /\ Albums \subseteq Ga!Galleries
  /\ MAX_GALLERY_IMAGES \in Nat /\ MAX_GALLERY_IMAGES >= 1
  /\ IsFiniteSet(Slots) /\ Cardinality(Slots) \in Nat
BY GaA, FS_CardinalityType, GaSets DEF Ga!GalleriesAssumption, Ga!Galleries

\* The row of no image, and a request at rest.
LEMMA GaNull ==
  /\ Ga!NoRow \in GaRow /\ Ga!NoRow.of = None /\ Ga!NoRow.order = 0
  /\ Ga!Free \in GaStep /\ Ga!Free.at = "idle" /\ Ga!Free.images = {} /\ Ga!Free.of = None
BY DEF Ga!NoRow, GaRow, Ga!Free, GaStep, GaLists

\* The images of a gallery, and the uploads to it, can be counted.
LEMMA GaFinite ==
  ASSUME NEW g
  PROVE  /\ IsFiniteSet(Ga!ImagesOf(g)) /\ Cardinality(Ga!ImagesOf(g)) \in Nat
         /\ Ga!ImagesOf(g) \subseteq Images
         /\ IsFiniteSet(Ga!Adding(g)) /\ Cardinality(Ga!Adding(g)) \in Nat
         /\ Cardinality(Ga!Adding(g)) <= Cardinality(Slots)
<1>1. Ga!ImagesOf(g) \in SUBSET Images /\ Ga!Adding(g) \in SUBSET Slots
  BY DEF Ga!ImagesOf, Ga!Adding
<1>2. IsFiniteSet(Images) /\ IsFiniteSet(Slots)
  BY GaA, GaSets DEF Ga!GalleriesAssumption
<1>3. IsFiniteSet(Ga!ImagesOf(g)) /\ IsFiniteSet(Ga!Adding(g))
      /\ Cardinality(Ga!Adding(g)) <= Cardinality(Slots)
  BY <1>1, <1>2, FS_Subset
<1> QED BY <1>1, <1>3, FS_CardinalityType

\* What the step of a request leaves to the others.
LEMMA GaOthers ==
  ASSUME GaInv, NEW s \in Slots, \A t \in Slots \ {s} : op'[t] = op[t],
         taken \subseteq taken',
         \A i \in Images : i \in blobs' /\ i \notin blobs =>
           i \in op[s].images /\ op[s].at \in {"upload", "publish"},
         \A i \in Images : i \in blobs /\ i \notin blobs' => i \in op[s].images,
         \A i \in Images : row[i] = Ga!NoRow =>
           row'[i] = Ga!NoRow \/ (i \in op[s].images /\ op[s].at \in {"insert", "publish"}),
         \A i \in Images : row'[i] = Ga!NoRow \/ row[i] = Ga!NoRow \/ row'[i].of = row[i].of,
         \A i \in op'[s].images : i \in op[s].images \/ i \notin taken \/ row[i] # Ga!NoRow,
         \A t \in Slots \ {s} : op[t].at = "publish" => op'[s].of # op[t].of
         /\ op[t].of \notin there'
  PROVE  \A t \in Slots \ {s} : GaPart(t)'
<1> SUFFICES ASSUME NEW t \in Slots, t # s PROVE GaPart(t)'
  OBVIOUS
<1> DEFINE o == op[t]
<1>1. GaPart(t) /\ GaPart(s) /\ op'[t] = o /\ o \in GaStep /\ op[s] \in GaStep
  BY DEF GaInv, GaShape
<1>2. o.images \subseteq Images /\ op[s].images \subseteq Images
  BY <1>1 DEF GaStep
<1>3. o.at \in {"upload", "max", "insert", "rollback", "publish"} =>
        \A i \in o.images : /\ row[i] = Ga!NoRow /\ i \notin op[s].images
                            /\ \A u \in Slots \ {t} : i \notin op[u].images
  BY <1>1 DEF GaPart
<1>4. op[s].at \in {"upload", "insert", "publish"} => \A i \in o.images : i \notin op[s].images
  BY <1>1 DEF GaPart
<1>5. \A i \in o.images : i \in taken /\ (row[i] = Ga!NoRow => row'[i] = Ga!NoRow)
  BY <1>1, <1>2, <1>4 DEF GaPart
<1>6. o.at \in {"upload", "max", "insert", "rollback", "publish"} =>
        \A i \in o.images : row'[i] = Ga!NoRow /\ \A u \in Slots \ {t} : i \notin op'[u].images
  <2> SUFFICES ASSUME o.at \in {"upload", "max", "insert", "rollback", "publish"}, NEW i \in o.images
               PROVE  row'[i] = Ga!NoRow /\ \A u \in Slots \ {t} : i \notin op'[u].images
    OBVIOUS
  <2>1. row'[i] = Ga!NoRow /\ i \notin op'[s].images
    BY <1>3, <1>5
  <2> QED BY <1>3, <2>1
<1>7. \A i \in o.images : i \in blobs' => i \in blobs
  BY <1>2, <1>4
<1>8. o.at \in {"max", "insert"} => o.images \subseteq blobs'
  BY <1>1, <1>2, <1>3 DEF GaPart
<1>9. o.at \in {"blobs", "row"} => \A i \in o.images : row'[i] = Ga!NoRow \/ row'[i].of = o.of
  BY <1>1, <1>2, <1>5 DEF GaPart
<1>10. o.at = "publish" => o.of \in Albums \ there' /\ \A u \in Slots \ {t} : op'[u].of # o.of
  BY <1>1 DEF GaPart
<1>11. /\ o.images \subseteq taken' /\ o.at \in {"idle", "reorder"} => o.images = {}
       /\ o.at \in {"upload", "max", "insert"} => o.of \in Posts /\ \E i \in Images : o.images = {i}
       /\ o.at = "upload" => o.images \cap blobs' = {}
       /\ o.at = "unlink" => \A i \in o.images : row'[i] = Ga!NoRow
       /\ o.at \in {"blobs", "row"} => o.of \in Ga!Galleries
       /\ o.at = "row" => o.images \cap blobs' = {}
       /\ o.at = "reorder" => o.of \in Posts /\ GaMove(o.pos)
  BY <1>1, <1>5, <1>7 DEF GaPart
<1> QED BY <1>1, <1>6, <1>8, <1>9, <1>10, <1>11 DEF GaPart

\* Images that nobody holds any more.
LEMMA GaBlobsStay ==
  ASSUME GaInv, NEW s \in Slots, \A t \in Slots \ {s} : op'[t] = op[t], missed \subseteq missed',
         \A i \in Images : i \notin op[s].images => (i \in blobs' <=> i \in blobs),
         \A i \in Images : i \notin op[s].images =>
           i \in missed' \/ i \in op'[s].images \/ (row'[i] = Ga!NoRow <=> row[i] = Ga!NoRow),
         \A i \in op[s].images : i \in missed' \/ i \in op'[s].images \/ (i \in blobs' <=> row'[i] # Ga!NoRow)
  PROVE  Ga!BlobsMatchRows'
<1> SUFFICES ASSUME NEW i \in Images, i \notin missed', \A t \in Slots : i \notin op'[t].images
             PROVE  i \in blobs' <=> row'[i] # Ga!NoRow
  BY DEF Ga!BlobsMatchRows, Ga!InProgress
<1>1. CASE i \in op[s].images
  BY <1>1
<1>2. CASE i \notin op[s].images
  <2>1. \A t \in Slots : i \notin op[t].images
    BY <1>2
  <2>2. i \in blobs <=> row[i] # Ga!NoRow
    BY <2>1 DEF GaInv, Ga!BlobsMatchRows, Ga!InProgress
  <2> QED BY <1>2, <2>2
<1> QED BY <1>1, <1>2

\* A gallery that nothing is added to.
LEMMA GaLimitStays ==
  ASSUME GaInv,
         \A g \in Posts : Ga!ImagesOf(g)' \subseteq Ga!ImagesOf(g)
         /\ Ga!Adding(g)' \subseteq Ga!Adding(g)
  PROVE  Ga!LimitPlusRaces'
<1> SUFFICES ASSUME NEW g \in Posts
             PROVE  Cardinality(Ga!ImagesOf(g)') + Cardinality(Ga!Adding(g)') <= MAX_GALLERY_IMAGES + Cardinality(Slots) - 1
  BY GaSets DEF Ga!LimitPlusRaces
<1>1. /\ IsFiniteSet(Ga!ImagesOf(g)) /\ Cardinality(Ga!ImagesOf(g)) \in Nat
      /\ IsFiniteSet(Ga!Adding(g)) /\ Cardinality(Ga!Adding(g)) \in Nat
  BY GaFinite
<1>2. /\ Cardinality(Ga!ImagesOf(g)') <= Cardinality(Ga!ImagesOf(g)) /\ IsFiniteSet(Ga!ImagesOf(g)')
      /\ Cardinality(Ga!Adding(g)') <= Cardinality(Ga!Adding(g)) /\ IsFiniteSet(Ga!Adding(g)')
  BY <1>1, FS_Subset
<1>3. Cardinality(Ga!ImagesOf(g)') \in Nat /\ Cardinality(Ga!Adding(g)') \in Nat
  BY <1>2, FS_CardinalityType
<1>4. Cardinality(Ga!ImagesOf(g)) + Cardinality(Ga!Adding(g)) <= MAX_GALLERY_IMAGES + Cardinality(Slots) - 1
  BY GaSets DEF GaInv, Ga!LimitPlusRaces
<1> QED BY <1>1, <1>2, <1>3, <1>4, GaPar

\* Images go, and nobody reads the last position.
LEMMA GaOrdersStay ==
  ASSUME GaInv, raced => raced',
         \A i \in Images : row'[i] = row[i] \/ row'[i] = Ga!NoRow,
         \A t \in Slots : op'[t].at = "insert" => op'[t] = op[t]
  PROVE  GaOrders'
<1> SUFFICES ASSUME ~raced'
             PROVE  /\ \A i, j \in Images : row'[i] = row'[j] /\ row'[i] # Ga!NoRow => i = j
                    /\ \A s \in Slots : op'[s].at = "insert" =>
                         /\ Cardinality(Ga!ImagesOf(op[s].of)') <= op'[s].order
                         /\ \A i \in Images : row'[i].of = op'[s].of => row'[i].order < op'[s].order
                         /\ \A t \in Slots : op'[t].at = "insert" /\ op'[t].of = op'[s].of => t = s
  BY DEF GaOrders, Ga!ImagesOf
<1>1. ~raced /\ GaOrders
  BY DEF GaInv
<1>2. \A i, j \in Images : row'[i] = row'[j] /\ row'[i] # Ga!NoRow => i = j
  BY <1>1 DEF GaOrders
<1>3. ASSUME NEW s \in Slots, op'[s].at = "insert"
      PROVE  /\ Cardinality(Ga!ImagesOf(op[s].of)') <= op'[s].order
             /\ \A i \in Images : row'[i].of = op'[s].of => row'[i].order < op'[s].order
             /\ \A t \in Slots : op'[t].at = "insert" /\ op'[t].of = op'[s].of => t = s
  <2>1. /\ op'[s] = op[s] /\ op[s].at = "insert" /\ op[s] \in GaStep /\ op[s].order \in Nat
        /\ op[s].of # None
    BY <1>3, GaPar DEF GaInv, GaShape, GaStep, GaPart
  <2>2. /\ Cardinality(Ga!ImagesOf(op[s].of)) <= op[s].order
        /\ \A i \in Images : row[i].of = op[s].of => row[i].order < op[s].order
        /\ \A t \in Slots : op[t].at = "insert" /\ op[t].of = op[s].of => t = s
    BY <1>1, <2>1 DEF GaOrders
  <2>3. \A i \in Images : row'[i].of = op[s].of => row'[i] = row[i]
    BY <2>1, GaNull
  <2>4. Ga!ImagesOf(op[s].of)' \subseteq Ga!ImagesOf(op[s].of)
    BY <2>1, <2>3 DEF Ga!ImagesOf
  <2>5. Cardinality(Ga!ImagesOf(op[s].of)') <= Cardinality(Ga!ImagesOf(op[s].of))
    BY <2>4, GaFinite, FS_Subset
  <2>6. /\ Cardinality(Ga!ImagesOf(op[s].of)) \in Nat /\ Cardinality(Ga!ImagesOf(op[s].of)') \in Nat
    <3>1. IsFiniteSet(Ga!ImagesOf(op[s].of)) /\ IsFiniteSet(Ga!ImagesOf(op[s].of)')
      BY <2>4, GaFinite, FS_Subset
    <3> QED BY <3>1, FS_CardinalityType
  <2>7. Cardinality(Ga!ImagesOf(op[s].of)') <= op[s].order
    BY <2>1, <2>2, <2>5, <2>6
  <2> QED BY <1>3, <2>1, <2>2, <2>3, <2>7
<1> QED BY <1>2, <1>3

-----------------------------------------------------------------------------
(* What begins, goes on and ends. *)

\* The fields of a request, and which images they are about.
LEMMA GaAll ==
  ASSUME GaInv, NEW s \in Slots
  PROVE  /\ op[s] \in GaStep /\ GaPart(s) /\ op[s].images \subseteq Images
         /\ op[s].images \subseteq taken /\ blobs \subseteq taken /\ taken \subseteq Images
         /\ \A i \in Images : i \notin taken => row[i] = Ga!NoRow /\ i \notin blobs
         /\ \A t \in Slots : /\ op[t].images \subseteq taken
                             /\ op[t].at = "publish" =>
                                  /\ op[t].of \in Albums /\ op[t].of \notin there
                                  /\ s # t => op[s].of # op[t].of
<1>1. op[s] \in GaStep /\ GaPart(s) /\ op[s].images \subseteq Images
  BY DEF GaInv, GaShape, GaStep
<1>2. op[s].images \subseteq taken /\ blobs \subseteq taken /\ taken \subseteq Images
  BY <1>1 DEF GaInv, GaShape, GaPart
<1>3. \A i \in Images : i \notin taken => row[i] = Ga!NoRow /\ i \notin blobs
  BY DEF GaInv, GaShape
<1>4. ASSUME NEW t \in Slots
      PROVE  /\ op[t].images \subseteq taken
             /\ op[t].at = "publish" => /\ op[t].of \in Albums /\ op[t].of \notin there
                                        /\ s # t => op[s].of # op[t].of
  <2>1. GaPart(t)
    BY DEF GaInv
  <2> QED BY <2>1 DEF GaPart
<1> QED BY <1>1, <1>2, <1>3, <1>4

\* A request begins with the images it has taken.
LEMMA GaBegins ==
  ASSUME GaInv, NEW s \in Slots, NEW o \in GaStep, Ga!Begin(s, o)
  PROVE  /\ op'[s] = o /\ op[s].at = "idle" /\ op[s].images = {} /\ raced' = raced
         /\ \A t \in Slots \ {s} : op'[t] = op[t]
         /\ op' \in [Slots -> GaStep]
<1>1. op[s].at = "idle" /\ GaPart(s)
  BY GaAll DEF Ga!Begin
<1>2. op[s].images = {}
  BY <1>1 DEF GaPart
<1> QED BY <1>1, <1>2 DEF Ga!Begin, GaInv, GaShape

\* A request ends and holds no image.
LEMMA GaEnds ==
  ASSUME GaInv, NEW s \in Slots, Ga!Ends(s)
  PROVE  /\ op'[s] = Ga!Free /\ op'[s].at = "idle" /\ op'[s].images = {} /\ op'[s].of = None
         /\ \A t \in Slots \ {s} : op'[t] = op[t]
         /\ op' \in [Slots -> GaStep] /\ taken' = taken /\ raced' = raced /\ GaPart(s)'
<1>1. op'[s] = Ga!Free /\ op' \in [Slots -> GaStep] /\ taken' = taken /\ raced' = raced
  BY GaNull DEF Ga!Ends, GaInv, GaShape
<1>2. op'[s].at = "idle" /\ op'[s].images = {} /\ op'[s].of = None
  BY <1>1, GaNull
<1>3. GaPart(s)'
  BY <1>2 DEF GaPart
<1> QED BY <1>1, <1>2, <1>3 DEF Ga!Ends, GaInv, GaShape

\* A request goes on with its images.
LEMMA GaGoes ==
  ASSUME GaInv, NEW s \in Slots,
         NEW at \in {"max", "rollback", "row"}, Ga!Goes(s, at)
  PROVE  /\ op'[s] \in GaStep /\ op'[s].at = at /\ op'[s].images = op[s].images
         /\ op'[s].of = op[s].of
         /\ \A t \in Slots \ {s} : op'[t] = op[t]
         /\ op' \in [Slots -> GaStep] /\ taken' = taken
<1>1. op[s] \in GaStep
  BY GaAll
<1>2. op'[s] = [op[s] EXCEPT !.at = at]
  BY DEF Ga!Goes, GaInv, GaShape
<1>3. op'[s] \in GaStep /\ op'[s].at = at /\ op'[s].images = op[s].images /\ op'[s].of = op[s].of
  BY <1>1, <1>2 DEF GaStep
<1>4. op' \in [Slots -> GaStep] /\ taken' = taken /\ \A t \in Slots \ {s} : op'[t] = op[t]
  BY <1>1, <1>3 DEF Ga!Goes, GaInv, GaShape
<1> QED BY <1>3, <1>4

\* The galleries and the rows do not change.
LEMMA GaShapeStays ==
  ASSUME GaInv, op' \in [Slots -> GaStep], there' = there, row' = row, blobs' \subseteq taken',
         taken \subseteq taken', taken' \subseteq Images, missed' \subseteq Images,
         raced' \in BOOLEAN
  PROVE  GaShape'
BY DEF GaInv, GaShape

\* Nothing is added, to any gallery of posts.
LEMMA GaAddingStays ==
  ASSUME GaInv, NEW s \in Slots, \A t \in Slots \ {s} : op'[t] = op[t],
         \/ op'[s].at \notin {"upload", "max", "insert"}
         \/ op[s].at \in {"upload", "max", "insert"} /\ op'[s].of = op[s].of
  PROVE  \A g \in Posts : Ga!Adding(g)' \subseteq Ga!Adding(g)
<1> SUFFICES ASSUME NEW g \in Posts, NEW t \in Slots, op'[t].of = g,
                    op'[t].at \in {"upload", "max", "insert"}
             PROVE  op[t].of = g /\ op[t].at \in {"upload", "max", "insert"}
  BY DEF Ga!Adding
<1> QED OBVIOUS

\* No post gains an image when rows only go.
LEMMA GaImagesStay ==
  ASSUME GaInv, \A i \in Images : row'[i] = row[i] \/ row'[i] = Ga!NoRow
  PROVE  \A g \in Posts : Ga!ImagesOf(g)' \subseteq Ga!ImagesOf(g)
BY GaNull, GaPar DEF Ga!ImagesOf, Ga!Galleries

\* A request ends: what it has in the storage goes, and nothing points to it.
LEMMA GaStops ==
  ASSUME GaInv, NEW s \in Slots, Ga!Ends(s), there' = there, row' = row, missed' = missed,
         blobs' = blobs \ op[s].images, \A i \in op[s].images : row[i] = Ga!NoRow
  PROVE  GaInv'
<1>1. /\ op'[s].at = "idle" /\ op'[s].images = {} /\ op'[s].of = None
      /\ taken' = taken /\ op' \in [Slots -> GaStep] /\ raced' = raced /\ GaPart(s)'
  BY GaEnds
<1>2. \A t \in Slots \ {s} : op'[t] = op[t]
  BY GaEnds
<1>3. GaShape'
  BY <1>1, GaAll, GaShapeStays DEF GaInv, GaShape
<1>4. \A t \in Slots \ {s} : GaPart(t)'
  <2>1. \A t \in Slots \ {s} : op[t].at = "publish" => op'[s].of # op[t].of
        /\ op[t].of \notin there'
    BY <1>1, GaAll, GaPar
  <2> QED BY <1>1, <1>2, <2>1, GaOthers
<1>5. Ga!BlobsMatchRows'
  BY <1>2, GaBlobsStay
<1>6. GaOrders'
  BY <1>1, <1>2, GaOrdersStay
<1>7. Ga!LimitPlusRaces'
  <2>1. \A g \in Posts : Ga!Adding(g)' \subseteq Ga!Adding(g)
    BY <1>1, <1>2, GaAddingStays
  <2>2. \A g \in Posts : Ga!ImagesOf(g)' \subseteq Ga!ImagesOf(g)
    BY GaImagesStay
  <2> QED BY <2>1, <2>2, GaLimitStays
<1> QED BY <1>1, <1>3, <1>4, <1>5, <1>6, <1>7 DEF GaInv

-----------------------------------------------------------------------------
(* Adding an image. *)

\* addImage begins: the count is read before the upload.
LEMMA GaAddImage ==
  ASSUME GaInv, NEW s \in Slots, NEW g \in Posts, NEW i \in Images, Ga!addImage(s, g, i)
  PROVE  GaInv'
<1> DEFINE o == [Ga!Free EXCEPT !.at = "upload", !.of = g, !.images = {i}]
<1>1. o \in GaStep /\ o.at = "upload" /\ o.of = g /\ o.images = {i}
  BY GaPar DEF Ga!Free, GaStep, GaLists
<1>2. /\ Ga!Begin(s, o) /\ i \notin taken /\ taken' = taken \cup {i} /\ Ga!HasRoom(g)
      /\ there' = there /\ row' = row /\ blobs' = blobs /\ missed' = missed /\ g \in there
  BY DEF Ga!addImage, Ga!stored
<1> HIDE DEF o
<1>3. /\ op'[s] = o /\ op[s].at = "idle" /\ op[s].images = {} /\ raced' = raced
      /\ \A t \in Slots \ {s} : op'[t] = op[t]
  BY <1>1, <1>2, GaBegins
<1>4. op' \in [Slots -> GaStep]
  BY <1>1, <1>2, GaBegins
<1>5. row[i] = Ga!NoRow /\ i \notin blobs /\ blobs \subseteq taken /\ taken \subseteq Images
  BY <1>2, GaAll
<1>6. GaShape'
  BY <1>2, <1>3, <1>4, <1>5, GaShapeStays DEF GaInv, GaShape
<1>7. GaPart(s)'
  <2>1. \A t \in Slots : i \notin op[t].images
    BY <1>2, GaAll
  <2> QED BY <1>1, <1>2, <1>3, <1>5, <2>1 DEF GaPart
<1>8. \A t \in Slots \ {s} : GaPart(t)'
  <2>1. \A t \in Slots \ {s} : op[t].at = "publish" => op'[s].of # op[t].of
        /\ op[t].of \notin there'
    BY <1>1, <1>2, <1>3, GaAll, GaPar
  <2> QED BY <1>1, <1>2, <1>3, <2>1, GaOthers
<1>9. Ga!BlobsMatchRows'
  BY <1>2, <1>3, GaBlobsStay
<1>10. GaOrders'
  BY <1>1, <1>2, <1>3, GaOrdersStay
<1>11. Ga!LimitPlusRaces'
  <2> SUFFICES ASSUME NEW h \in Posts
               PROVE  Cardinality(Ga!ImagesOf(h)') + Cardinality(Ga!Adding(h)') <= MAX_GALLERY_IMAGES + Cardinality(Slots) - 1
    BY GaSets DEF Ga!LimitPlusRaces
  <2>1. Ga!ImagesOf(h)' = Ga!ImagesOf(h)
    BY <1>2 DEF Ga!ImagesOf
  <2>2. CASE h = g
    <3>1. Ga!Adding(h)' \subseteq Slots
      BY DEF Ga!Adding
    <3>2. Cardinality(Ga!Adding(h)') <= Cardinality(Slots) /\ Cardinality(Ga!Adding(h)') \in Nat
      BY <3>1, GaPar, FS_Subset, FS_CardinalityType
    <3>3. Cardinality(Ga!ImagesOf(g)) < MAX_GALLERY_IMAGES
      BY <1>2, GaSets DEF Ga!HasRoom
    <3>4. Cardinality(Ga!ImagesOf(g)) \in Nat
      BY GaFinite
    <3> QED BY <2>1, <2>2, <3>2, <3>3, <3>4, GaPar
  <2>3. CASE h # g
    <3>1. Ga!Adding(h)' = Ga!Adding(h)
      <4>1. \A t \in Slots : (op'[t].of = h /\ op'[t].at \in {"upload", "max", "insert"})
                               <=> (op[t].of = h /\ op[t].at \in {"upload", "max", "insert"})
        BY <1>1, <1>3, <2>3
      <4> QED BY <4>1 DEF Ga!Adding
    <3> QED BY <2>1, <3>1, GaSets DEF GaInv, Ga!LimitPlusRaces
  <2> QED BY <2>2, <2>3
<1> QED BY <1>6, <1>7, <1>8, <1>9, <1>10, <1>11 DEF GaInv

\* The file of an image is stored.
LEMMA GaUpload ==
  ASSUME GaInv, NEW s \in Slots, Ga!upload(s)
  PROVE  GaInv'
<1>1. /\ op[s].at = "upload" /\ there' = there /\ row' = row /\ missed' = missed
  BY DEF Ga!upload
<1>2. /\ GaPart(s) /\ op[s].images \subseteq Images /\ op[s].images \subseteq taken
      /\ blobs \subseteq taken /\ taken \subseteq Images /\ op[s] \in GaStep
  BY GaAll
<1>3. \A t \in Slots \ {s} : op[t].at = "publish" => op[t].of \notin there' /\ op[s].of # op[t].of
                                                     /\ op[t].of \in Albums
  BY <1>1, GaAll
<1>4. CASE blobs' = blobs \cup op[s].images /\ Ga!Goes(s, "max") /\ UNCHANGED raced
  <2>1. /\ op'[s].at = "max" /\ op'[s].images = op[s].images /\ op'[s].of = op[s].of
        /\ taken' = taken /\ op' \in [Slots -> GaStep]
    BY <1>4, GaGoes
  <2>2. \A t \in Slots \ {s} : op'[t] = op[t]
    BY <1>4, GaGoes
  <2>3. GaShape'
    BY <1>1, <1>2, <1>4, <2>1, GaShapeStays DEF GaInv, GaShape
  <2>4. GaPart(s)'
    BY <1>1, <1>2, <1>4, <2>1, <2>2 DEF GaPart
  <2>5. \A t \in Slots \ {s} : GaPart(t)'
    BY <1>1, <1>2, <1>3, <1>4, <2>1, <2>2, GaOthers
  <2>6. Ga!BlobsMatchRows'
    BY <1>1, <1>4, <2>1, <2>2, GaBlobsStay
  <2>7. GaOrders'
    BY <1>1, <1>4, <2>1, <2>2, GaOrdersStay
  <2>8. Ga!LimitPlusRaces'
    <3>1. \A g \in Posts : Ga!Adding(g)' \subseteq Ga!Adding(g)
      BY <1>1, <2>1, <2>2, GaAddingStays
    <3>2. \A g \in Posts : Ga!ImagesOf(g)' \subseteq Ga!ImagesOf(g)
      BY <1>1, GaImagesStay
    <3> QED BY <3>1, <3>2, GaLimitStays
  <2> QED BY <2>3, <2>4, <2>5, <2>6, <2>7, <2>8 DEF GaInv
<1>5. CASE Ga!Ends(s) /\ UNCHANGED blobs
  <2>1. op[s].images \cap blobs = {} /\ \A i \in op[s].images : row[i] = Ga!NoRow
    BY <1>1, <1>2 DEF GaPart
  <2>2. blobs' = blobs \ op[s].images
    BY <1>5, <2>1
  <2> QED BY <1>1, <1>5, <2>1, <2>2, GaStops
<1> QED BY <1>4, <1>5 DEF Ga!upload

\* Files are deleted, after an error or after their row.
LEMMA GaRollback ==
  ASSUME GaInv, NEW s \in Slots, Ga!rollback(s) \/ Ga!deleteUploaded(s)
  PROVE  GaInv'
<1>1. /\ op[s].at \in {"rollback", "unlink"} /\ Ga!Ends(s) /\ there' = there /\ row' = row
      /\ missed' = missed /\ blobs' = blobs \ op[s].images
  BY DEF Ga!rollback, Ga!deleteUploaded, Ga!Uploaded
<1>2. GaPart(s)
  BY GaAll
<1>3. \A i \in op[s].images : row[i] = Ga!NoRow
  BY <1>1, <1>2 DEF GaPart
<1> QED BY <1>1, <1>3, GaStops

\* The files of an album are stored.
LEMMA GaUploadAll ==
  ASSUME GaInv, NEW s \in Slots, Ga!uploadAll(s)
  PROVE  GaInv'
<1>1. op[s].at = "publish" /\ there' = there /\ row' = row /\ missed' = missed
  BY DEF Ga!uploadAll
<1>2. /\ GaPart(s) /\ op[s].images \subseteq Images /\ op[s].images \subseteq taken
      /\ blobs \subseteq taken /\ taken \subseteq Images /\ op[s] \in GaStep
  BY GaAll
<1>3. \A i \in op[s].images : row[i] = Ga!NoRow
  BY <1>1, <1>2 DEF GaPart
<1>4. CASE \E i \in op[s].images \ blobs :
             blobs' = blobs \cup {i} /\ UNCHANGED <<taken, op, raced, requests, crashes>>
  <2>1. PICK i \in op[s].images \ blobs : blobs' = blobs \cup {i}
    BY <1>4
  <2>2. taken' = taken /\ op' = op /\ raced' = raced
    BY <1>4
  <2>3. op' \in [Slots -> GaStep]
    BY <2>2 DEF GaInv, GaShape
  <2>4. GaShape'
    BY <1>1, <1>2, <2>1, <2>2, <2>3, GaShapeStays DEF GaInv, GaShape
  <2>5. GaPart(s)'
    BY <1>1, <1>2, <2>2 DEF GaPart
  <2>6. \A t \in Slots \ {s} : GaPart(t)'
    <3>1. \A t \in Slots \ {s} : op[t].at = "publish" => op'[s].of # op[t].of
          /\ op[t].of \notin there'
      BY <1>1, <2>2, GaAll
    <3> QED BY <1>1, <2>1, <2>2, <3>1, GaOthers
  <2>7. Ga!BlobsMatchRows'
    BY <1>1, <2>1, <2>2, GaBlobsStay
  <2>8. GaOrders'
    BY <1>1, <2>2, GaOrdersStay
  <2>9. Ga!LimitPlusRaces'
    <3>1. \A g \in Posts : Ga!Adding(g)' \subseteq Ga!Adding(g)
      BY <2>2 DEF Ga!Adding
    <3>2. \A g \in Posts : Ga!ImagesOf(g)' \subseteq Ga!ImagesOf(g)
      BY <1>1, GaImagesStay
    <3> QED BY <3>1, <3>2, GaLimitStays
  <2> QED BY <2>4, <2>5, <2>6, <2>7, <2>8, <2>9 DEF GaInv
<1>5. CASE blobs' = blobs \ Ga!Uploaded(s) /\ Ga!Ends(s)
  BY <1>1, <1>3, <1>5, GaStops DEF Ga!Uploaded
<1> QED BY <1>4, <1>5 DEF Ga!uploadAll

\* An album begins with all its images.
LEMMA GaPublishAlbum ==
  ASSUME GaInv, NEW s \in Slots, NEW g \in Albums, NEW S \in SUBSET Images, Ga!publishAlbum(s, g, S)
  PROVE  GaInv'
<1> DEFINE o == [Ga!Free EXCEPT !.at = "publish", !.of = g, !.images = S]
<1>1. o \in GaStep /\ o.at = "publish" /\ o.of = g /\ o.images = S
  BY GaPar DEF Ga!Free, GaStep, GaLists
<1>2. /\ Ga!Begin(s, o) /\ S \cap taken = {} /\ taken' = taken \cup S /\ g \notin there
      /\ there' = there /\ row' = row /\ blobs' = blobs /\ missed' = missed
      /\ \A t \in Slots : op[t].of # g
  BY DEF Ga!publishAlbum, Ga!stored
<1> HIDE DEF o
<1>3. /\ op'[s] = o /\ op[s].at = "idle" /\ op[s].images = {} /\ raced' = raced
      /\ \A t \in Slots \ {s} : op'[t] = op[t]
  BY <1>1, <1>2, GaBegins
<1>4. op' \in [Slots -> GaStep]
  BY <1>1, <1>2, GaBegins
<1>5. /\ blobs \subseteq taken /\ taken \subseteq Images
      /\ \A i \in S : i \notin taken /\ row[i] = Ga!NoRow /\ i \notin blobs
  BY <1>2, GaAll
<1>6. GaShape'
  BY <1>2, <1>3, <1>4, <1>5, GaShapeStays DEF GaInv, GaShape
<1>7. GaPart(s)'
  <2>1. \A t \in Slots : \A i \in S : i \notin op[t].images
    BY <1>2, GaAll
  <2> QED BY <1>1, <1>2, <1>3, <1>5, <2>1 DEF GaPart
<1>8. \A t \in Slots \ {s} : GaPart(t)'
  <2>1. \A t \in Slots \ {s} : op[t].at = "publish" => op'[s].of # op[t].of
        /\ op[t].of \notin there'
    BY <1>1, <1>2, <1>3, GaAll
  <2> QED BY <1>1, <1>2, <1>3, <1>5, <2>1, GaOthers
<1>9. Ga!BlobsMatchRows'
  BY <1>2, <1>3, GaBlobsStay
<1>10. GaOrders'
  BY <1>1, <1>2, <1>3, GaOrdersStay
<1>11. Ga!LimitPlusRaces'
  <2>1. \A h \in Posts : Ga!Adding(h)' \subseteq Ga!Adding(h)
    BY <1>1, <1>3, GaAddingStays
  <2>2. \A h \in Posts : Ga!ImagesOf(h)' \subseteq Ga!ImagesOf(h)
    BY <1>2, GaImagesStay
  <2> QED BY <2>1, <2>2, GaLimitStays
<1> QED BY <1>6, <1>7, <1>8, <1>9, <1>10, <1>11 DEF GaInv

-----------------------------------------------------------------------------
(* Removing. *)

\* The row of an image goes before its file.
LEMMA GaRemoveImage ==
  ASSUME GaInv, NEW s \in Slots, NEW i \in Images, Ga!removeImage(s, i)
  PROVE  GaInv'
<1> DEFINE o == [Ga!Free EXCEPT !.at = "unlink", !.images = {i}]
<1>1. o \in GaStep /\ o.at = "unlink" /\ o.of = None /\ o.images = {i}
  BY GaPar DEF Ga!Free, GaStep, GaLists
<1>2. /\ Ga!Begin(s, o) /\ row[i].of \in Posts /\ row' = [row EXCEPT ![i] = Ga!NoRow]
      /\ there' = there /\ taken' = taken /\ blobs' = blobs /\ missed' = missed
  BY DEF Ga!removeImage
<1> HIDE DEF o
<1>3. /\ op'[s] = o /\ op[s].at = "idle" /\ op[s].images = {} /\ raced' = raced
      /\ \A t \in Slots \ {s} : op'[t] = op[t]
  BY <1>1, <1>2, GaBegins
<1>4. op' \in [Slots -> GaStep]
  BY <1>1, <1>2, GaBegins
<1>5. row[i] # Ga!NoRow /\ i \in taken
  BY <1>2, GaNull, GaPar, GaAll
<1>6. /\ row' \in [Images -> GaRow] /\ row'[i] = Ga!NoRow
      /\ \A j \in Images \ {i} : row'[j] = row[j]
  BY <1>2, GaNull DEF GaInv, GaShape
<1>7. GaShape'
  <2>1. \A j \in Images : /\ row'[j].of \in there' \cup {None}
                          /\ row'[j].of = None => row'[j] = Ga!NoRow
                          /\ row'[j] # Ga!NoRow => j \in taken'
    BY <1>2, <1>6, GaNull DEF GaInv, GaShape
  <2> QED BY <1>2, <1>3, <1>4, <1>6, <2>1 DEF GaInv, GaShape
<1>8. GaPart(s)'
  BY <1>1, <1>2, <1>3, <1>5, <1>6 DEF GaPart
<1>9. \A t \in Slots \ {s} : GaPart(t)'
  <2>1. \A t \in Slots \ {s} : op[t].at = "publish" => op'[s].of # op[t].of
        /\ op[t].of \notin there'
    BY <1>1, <1>2, <1>3, GaAll, GaPar DEF Ga!Galleries
  <2> QED BY <1>1, <1>2, <1>3, <1>5, <1>6, <2>1, GaOthers
<1>10. Ga!BlobsMatchRows'
  BY <1>1, <1>2, <1>3, <1>6, GaBlobsStay
<1>11. GaOrders'
  BY <1>1, <1>2, <1>3, <1>6, GaOrdersStay
<1>12. Ga!LimitPlusRaces'
  <2>1. \A h \in Posts : Ga!Adding(h)' \subseteq Ga!Adding(h)
    BY <1>1, <1>3, GaAddingStays
  <2>2. \A h \in Posts : Ga!ImagesOf(h)' \subseteq Ga!ImagesOf(h)
    BY <1>6, GaImagesStay
  <2> QED BY <2>1, <2>2, GaLimitStays
<1> QED BY <1>7, <1>8, <1>9, <1>10, <1>11, <1>12 DEF GaInv

\* The removal of a whole gallery begins.
LEMMA GaRemoveGallery ==
  ASSUME GaInv, NEW s \in Slots, NEW g \in Ga!Galleries, Ga!removeGallery(s, g)
  PROVE  GaInv'
<1> DEFINE o == [Ga!Free EXCEPT !.at = "blobs", !.of = g, !.images = Ga!ImagesOf(g)]
<1>1. o \in GaStep /\ o.at = "blobs" /\ o.of = g /\ o.images = Ga!ImagesOf(g)
  BY GaFinite DEF Ga!Free, GaStep, GaLists
<1>2. /\ Ga!Begin(s, o) /\ g \in there /\ row' = row
      /\ there' = there /\ taken' = taken /\ blobs' = blobs /\ missed' = missed
  BY DEF Ga!removeGallery, Ga!stored
<1> HIDE DEF o
<1>3. /\ op'[s] = o /\ op[s].at = "idle" /\ op[s].images = {} /\ raced' = raced
      /\ \A t \in Slots \ {s} : op'[t] = op[t]
  BY <1>1, <1>2, GaBegins
<1>4. op' \in [Slots -> GaStep]
  BY <1>1, <1>2, GaBegins
<1>5. \A i \in Ga!ImagesOf(g) : i \in Images /\ row[i].of = g /\ row[i] # Ga!NoRow /\ i \in taken
  BY GaNull, GaPar, GaAll DEF Ga!ImagesOf
<1>6. GaShape'
  BY <1>2, <1>3, <1>4, GaAll, GaShapeStays DEF GaInv, GaShape
<1>7. GaPart(s)'
  BY <1>1, <1>2, <1>3, <1>5 DEF GaPart
<1>8. \A t \in Slots \ {s} : GaPart(t)'
  <2>1. \A t \in Slots \ {s} : op[t].at = "publish" => op'[s].of # op[t].of
        /\ op[t].of \notin there'
    BY <1>1, <1>2, <1>3, GaAll
  <2> QED BY <1>1, <1>2, <1>3, <1>5, <2>1, GaOthers
<1>9. Ga!BlobsMatchRows'
  BY <1>2, <1>3, GaBlobsStay
<1>10. GaOrders'
  BY <1>1, <1>2, <1>3, GaOrdersStay
<1>11. Ga!LimitPlusRaces'
  <2>1. \A h \in Posts : Ga!Adding(h)' \subseteq Ga!Adding(h)
    BY <1>1, <1>3, GaAddingStays
  <2>2. \A h \in Posts : Ga!ImagesOf(h)' \subseteq Ga!ImagesOf(h)
    BY <1>2, GaImagesStay
  <2> QED BY <2>1, <2>2, GaLimitStays
<1> QED BY <1>6, <1>7, <1>8, <1>9, <1>10, <1>11 DEF GaInv

\* The files of a gallery go before it.
LEMMA GaDeleteBlobs ==
  ASSUME GaInv, NEW s \in Slots, Ga!deleteBlobs(s)
  PROVE  GaInv'
<1>1. /\ op[s].at = "blobs" /\ blobs' = blobs \ op[s].images /\ Ga!Goes(s, "row")
      /\ there' = there /\ row' = row /\ missed' = missed /\ raced' = raced
  BY DEF Ga!deleteBlobs
<1>2. /\ GaPart(s) /\ op[s].images \subseteq Images /\ op[s].images \subseteq taken
      /\ blobs \subseteq taken /\ taken \subseteq Images /\ op[s] \in GaStep
  BY GaAll
<1>3. /\ op'[s].at = "row" /\ op'[s].images = op[s].images /\ op'[s].of = op[s].of
      /\ taken' = taken /\ op' \in [Slots -> GaStep]
  BY <1>1, GaGoes
<1>4. \A t \in Slots \ {s} : op'[t] = op[t]
  BY <1>1, GaGoes
<1>5. GaShape'
  BY <1>1, <1>2, <1>3, GaShapeStays DEF GaInv, GaShape
<1>6. GaPart(s)'
  BY <1>1, <1>2, <1>3 DEF GaPart
<1>7. \A t \in Slots \ {s} : GaPart(t)'
  <2>1. \A t \in Slots \ {s} : op[t].at = "publish" => op'[s].of # op[t].of
        /\ op[t].of \notin there'
    BY <1>1, <1>3, GaAll
  <2> QED BY <1>1, <1>2, <1>3, <1>4, <2>1, GaOthers
<1>8. Ga!BlobsMatchRows'
  BY <1>1, <1>3, <1>4, GaBlobsStay
<1>9. GaOrders'
  BY <1>1, <1>3, <1>4, GaOrdersStay
<1>10. Ga!LimitPlusRaces'
  <2>1. \A h \in Posts : Ga!Adding(h)' \subseteq Ga!Adding(h)
    BY <1>1, <1>3, <1>4, GaAddingStays
  <2>2. \A h \in Posts : Ga!ImagesOf(h)' \subseteq Ga!ImagesOf(h)
    BY <1>1, GaImagesStay
  <2> QED BY <2>1, <2>2, GaLimitStays
<1> QED BY <1>5, <1>6, <1>7, <1>8, <1>9, <1>10 DEF GaInv

\* The gallery goes, with the rows it has by then.
LEMMA GaDeleteRow ==
  ASSUME GaInv, NEW s \in Slots, Ga!deleteRow(s)
  PROVE  GaInv'
<1> DEFINE g == op[s].of
<1>1. /\ op[s].at = "row" /\ there' = there \ {g} /\ Ga!Ends(s) /\ blobs' = blobs
      /\ row' = [i \in Images |-> IF row[i].of = g THEN Ga!NoRow ELSE row[i]]
      /\ missed' = missed \cup (Ga!ImagesOf(g) \ op[s].images)
  BY DEF Ga!deleteRow
<1>2. /\ GaPart(s) /\ op[s].images \subseteq Images /\ op[s].images \subseteq taken
      /\ blobs \subseteq taken /\ taken \subseteq Images /\ op[s] \in GaStep
  BY GaAll
<1>3. /\ op'[s].at = "idle" /\ op'[s].images = {} /\ op'[s].of = None
      /\ taken' = taken /\ op' \in [Slots -> GaStep] /\ raced' = raced /\ GaPart(s)'
  BY <1>1, GaEnds
<1>4. \A t \in Slots \ {s} : op'[t] = op[t]
  BY <1>1, GaEnds
<1>5. g \in Ga!Galleries /\ g # None
  BY <1>1, <1>2, GaPar DEF GaPart
<1>6. \A i \in Images : row'[i] = IF row[i].of = g THEN Ga!NoRow ELSE row[i]
  BY <1>1
<1>7. GaShape'
  <2>1. \A j \in Images : /\ row'[j].of \in there' \cup {None}
                          /\ row'[j].of = None => row'[j] = Ga!NoRow
                          /\ row'[j] # Ga!NoRow => j \in taken'
    BY <1>1, <1>3, <1>6, GaNull DEF GaInv, GaShape
  <2>2. row' \in [Images -> GaRow]
    BY <1>1, GaNull DEF GaInv, GaShape
  <2>3. missed' \subseteq Images
    BY <1>1, GaFinite DEF GaInv, GaShape
  <2> QED BY <1>1, <1>3, <2>1, <2>2, <2>3 DEF GaInv, GaShape
<1>8. \A t \in Slots \ {s} : GaPart(t)'
  <2>1. \A t \in Slots \ {s} : op[t].at = "publish" => op'[s].of # op[t].of
        /\ op[t].of \notin there'
    BY <1>1, <1>3, GaAll, GaPar
  <2>2. \A i \in Images : row[i] = Ga!NoRow => row'[i] = Ga!NoRow
    BY <1>6
  <2>3. \A i \in Images : row'[i] = Ga!NoRow \/ row'[i].of = row[i].of
    BY <1>6
  <2> QED BY <1>1, <1>3, <1>4, <2>1, <2>2, <2>3, GaOthers
<1>9. Ga!BlobsMatchRows'
  <2>1. \A i \in Images : i \notin op[s].images => i \in missed' \/ (row'[i] = Ga!NoRow <=> row[i] = Ga!NoRow)
    BY <1>1, <1>6 DEF Ga!ImagesOf
  <2>2. \A i \in op[s].images : i \notin blobs' /\ row'[i] = Ga!NoRow
    BY <1>1, <1>2, <1>6 DEF GaPart
  <2> QED BY <1>1, <1>4, <2>1, <2>2, GaBlobsStay
<1>10. GaOrders'
  BY <1>1, <1>3, <1>4, <1>6, GaOrdersStay
<1>11. Ga!LimitPlusRaces'
  <2>1. \A h \in Posts : Ga!Adding(h)' \subseteq Ga!Adding(h)
    BY <1>3, <1>4, GaAddingStays
  <2>2. \A h \in Posts : Ga!ImagesOf(h)' \subseteq Ga!ImagesOf(h)
    BY <1>6, GaImagesStay
  <2> QED BY <2>1, <2>2, GaLimitStays
<1> QED BY <1>3, <1>7, <1>8, <1>9, <1>10, <1>11 DEF GaInv

\* The images on which something was under way are missed.
LEMMA GaCrash ==
  ASSUME GaInv, Ga!crash
  PROVE  GaInv'
<1>1. /\ missed' = missed \cup UNION {op[s].images : s \in Slots} /\ op' = [s \in Slots |-> Ga!Free]
      /\ there' = there /\ row' = row /\ blobs' = blobs /\ taken' = taken /\ raced' = raced
  BY DEF Ga!crash, Ga!stored
<1>2. \A s \in Slots : op'[s] = Ga!Free /\ op[s].images \subseteq Images
      /\ op[s].images \subseteq missed'
  BY <1>1, GaAll
<1>3. GaShape'
  <2>1. missed' \subseteq Images
    <3>1. missed \subseteq Images
      BY DEF GaInv, GaShape
    <3> QED BY <1>1, <1>2, <3>1
  <2> QED BY <1>1, <2>1, GaAll, GaNull, GaShapeStays DEF GaInv, GaShape
<1>4. \A s \in Slots : GaPart(s)'
  BY <1>1, GaNull DEF GaPart
<1>5. Ga!BlobsMatchRows'
  <2> SUFFICES ASSUME NEW i \in Images, i \notin missed' PROVE i \in blobs' <=> row'[i] # Ga!NoRow
    BY DEF Ga!BlobsMatchRows
  <2>1. i \notin missed /\ \A s \in Slots : i \notin op[s].images
    BY <1>1, <1>2
  <2> QED BY <1>1, <2>1 DEF GaInv, Ga!BlobsMatchRows, Ga!InProgress
<1>6. GaOrders'
  BY <1>1, GaNull, GaOrdersStay
<1>7. Ga!LimitPlusRaces'
  <2>1. \A h \in Posts : Ga!Adding(h)' \subseteq Ga!Adding(h)
    BY <1>1, GaNull DEF Ga!Adding
  <2>2. \A h \in Posts : Ga!ImagesOf(h)' \subseteq Ga!ImagesOf(h)
    BY <1>1, GaImagesStay
  <2> QED BY <2>1, <2>2, GaLimitStays
<1> QED BY <1>3, <1>4, <1>5, <1>6, <1>7 DEF GaInv

-----------------------------------------------------------------------------
(* Positions. *)

GaFrom(S, u) == {v \in S : u <= v}

\* Finitely many numbers have a greatest.
LEMMA GaGreatest ==
  ASSUME NEW S \in SUBSET Nat, IsFiniteSet(S), S # {}
  PROVE  Ga!Max(S) \in S /\ \A u \in S : u <= Ga!Max(S)
<1>0. \A v \in S : v \in Nat
  OBVIOUS
<1>1. IsWellFoundedOn(StrictSubsetOrdering(S), FiniteSubsetsOf(S))
  BY FS_StrictSubsetOrderingWellFounded
<1>2. FiniteSubsetsOf(S) = SUBSET S
  BY FS_FiniteSubsetsOfFinite
<1> DEFINE T == {GaFrom(S, u) : u \in S}
<1>3. T \subseteq FiniteSubsetsOf(S) /\ T # {}
  <2>1. \A u \in S : GaFrom(S, u) \in SUBSET S /\ GaFrom(S, u) \in T
    BY DEF GaFrom
  <2> QED BY <1>2, <2>1
<1> HIDE DEF T
<1>4. PICK B \in T : \A C \in T : ~ (<<C, B>> \in StrictSubsetOrdering(S))
  BY <1>1, <1>3, WFMin
<1>5. PICK m \in S : B = GaFrom(S, m)
  BY DEF T
<1>6. ASSUME NEW u \in S, ~(u <= m) PROVE FALSE
  <2>1. m < u /\ u \in Nat /\ m \in Nat
    BY <1>0, <1>6
  <2>2. GaFrom(S, u) \subseteq GaFrom(S, m)
    <3> SUFFICES ASSUME NEW v \in GaFrom(S, u) PROVE v \in GaFrom(S, m)
      OBVIOUS
    <3>1. v \in S /\ v \in Nat /\ m <= v
      BY <1>0, <2>1 DEF GaFrom
    <3> QED BY <3>1 DEF GaFrom
  <2>3. m \notin GaFrom(S, u) /\ m \in GaFrom(S, m)
    BY <2>1 DEF GaFrom
  <2>4. <<GaFrom(S, u), GaFrom(S, m)>> \in StrictSubsetOrdering(S)
    BY <2>2, <2>3 DEF StrictSubsetOrdering, GaFrom
  <2> QED BY <1>4, <1>5, <2>4 DEF T
<1>7. m \in S /\ \A u \in S : m >= u
  BY <1>0, <1>6
<1> QED BY <1>0, <1>7 DEF Ga!Max

\* The next position is after those of all images, and after their number.
LEMMA GaNextOrder ==
  ASSUME GaInv, NEW g \in Ga!Galleries
  PROVE  /\ Ga!NextOrder(g) \in Nat
         /\ \A i \in Images : row[i].of = g => row[i].order < Ga!NextOrder(g)
         /\ ~raced => Cardinality(Ga!ImagesOf(g)) <= Ga!NextOrder(g)
<1> DEFINE I == Ga!ImagesOf(g)
           f == [i \in I |-> row[i].order]
           S == {row[i].order : i \in I}
<1>1. IsFiniteSet(I) /\ I \subseteq Images /\ \A i \in Images : i \in I <=> row[i].of = g
  BY GaFinite DEF Ga!ImagesOf
<1>2. \A i \in I : row[i] \in GaRow /\ row[i].order \in Nat /\ row[i].of = g /\ row[i] # Ga!NoRow
  BY <1>1, GaNull, GaPar DEF GaInv, GaShape, GaRow
<1>3. CASE I = {}
  <2>1. Ga!NextOrder(g) = 0 /\ Cardinality(Ga!ImagesOf(g)) = 0
    BY <1>3, FS_EmptySet DEF Ga!NextOrder
  <2> QED BY <1>1, <1>3, <2>1
<1>4. CASE I # {}
  <2>1. S \in SUBSET Nat /\ S # {}
    BY <1>2, <1>4
  <2>2. f \in Surjection(I, S)
    BY DEF Surjection
  <2>3. IsFiniteSet(S)
    BY <1>1, <2>2, FS_Surjection
  <2>4. Ga!Max(S) \in S /\ \A u \in S : u <= Ga!Max(S)
    BY <2>1, <2>3, GaGreatest
  <2>5. Ga!NextOrder(g) = Ga!Max(S) + 1 /\ Ga!Max(S) \in Nat
    BY <1>4, <2>1, <2>4 DEF Ga!NextOrder
  <2>6. \A i \in I : row[i].order \in S
    OBVIOUS
  <2> HIDE DEF S
  <2>7. \A i \in Images : row[i].of = g => row[i].order < Ga!NextOrder(g)
    <3> SUFFICES ASSUME NEW i \in I PROVE row[i].order < Ga!NextOrder(g)
      BY <1>1
    <3>1. row[i].order <= Ga!Max(S) /\ row[i].order \in Nat
      BY <1>2, <2>4, <2>6
    <3> QED BY <2>5, <3>1
  <2>8. ASSUME ~raced PROVE Cardinality(I) <= Ga!Max(S) + 1
    <3>1. \A i, j \in I : row[i].order = row[j].order => i = j
      <4> SUFFICES ASSUME NEW i \in I, NEW j \in I, row[i].order = row[j].order PROVE i = j
        OBVIOUS
      <4>1. row[i] = row[j] /\ row[i] # Ga!NoRow /\ i \in Images /\ j \in Images
        BY <1>1, <1>2 DEF GaRow
      <4> QED BY <2>8, <4>1 DEF GaInv, GaOrders
    <3>2. \A i \in I : row[i].order \in 0..Ga!Max(S)
      <4> SUFFICES ASSUME NEW i \in I PROVE row[i].order \in 0..Ga!Max(S)
        OBVIOUS
      <4>1. row[i].order <= Ga!Max(S) /\ row[i].order \in Nat
        BY <1>2, <2>4, <2>6
      <4> QED BY <2>5, <4>1
    <3>3. f \in Injection(I, 0..Ga!Max(S))
      BY <3>1, <3>2 DEF Injection, IsInjective
    <3>4. IsFiniteSet(0..Ga!Max(S)) /\ Cardinality(0..Ga!Max(S)) = Ga!Max(S) + 1
      BY <2>5, FS_Interval
    <3> QED BY <3>3, <3>4, FS_Injection
  <2> QED BY <2>5, <2>7, <2>8
<1> QED BY <1>3, <1>4

\* What the positions are, in the next state.
LEMMA GaOrdersNext ==
  ASSUME ~raced' =>
           /\ \A i, j \in Images : row'[i] = row'[j] /\ row'[i] # Ga!NoRow => i = j
           /\ \A t \in Slots : op'[t].at = "insert" =>
                /\ Cardinality({i \in Images : row'[i].of = op'[t].of}) <= op'[t].order
                /\ \A i \in Images : row'[i].of = op'[t].of => row'[i].order < op'[t].order
                /\ \A u \in Slots : op'[u].at = "insert" /\ op'[u].of = op'[t].of => u = t
  PROVE  GaOrders'
BY DEF GaOrders, Ga!ImagesOf

\* The last position is read.
LEMMA GaAggregate ==
  ASSUME GaInv, NEW s \in Slots, Ga!aggregate(s)
  PROVE  GaInv'
<1> DEFINE g == op[s].of
<1>1. /\ op[s].at = "max" /\ there' = there /\ row' = row /\ blobs' = blobs /\ taken' = taken
      /\ missed' = missed /\ raced' = (raced \/ \E t \in Ga!Adding(g) : op[t].at = "insert")
      /\ op' = [op EXCEPT ![s].at = "insert", ![s].order = Ga!NextOrder(g)]
  BY DEF Ga!aggregate, Ga!stored
<1>2. /\ GaPart(s) /\ op[s].images \subseteq Images /\ op[s].images \subseteq taken
      /\ blobs \subseteq taken /\ taken \subseteq Images /\ op[s] \in GaStep
  BY GaAll
<1>3. g \in Posts /\ g \in Ga!Galleries
  BY <1>1, <1>2, GaPar DEF GaPart
<1>4. /\ Ga!NextOrder(g) \in Nat
         /\ \A i \in Images : row[i].of = g => row[i].order < Ga!NextOrder(g)
      /\ ~raced => Cardinality(Ga!ImagesOf(g)) <= Ga!NextOrder(g)
  BY <1>3, GaNextOrder
<1> DEFINE o == [[op[s] EXCEPT !.at = "insert"] EXCEPT !.order = Ga!NextOrder(g)]
<1>5. op'[s] = o /\ \A t \in Slots \ {s} : op'[t] = op[t]
  BY <1>1 DEF GaInv, GaShape
<1>6. o \in GaStep /\ o.at = "insert" /\ o.images = op[s].images /\ o.of = g
      /\ o.order = Ga!NextOrder(g)
  BY <1>2, <1>4 DEF GaStep
<1>7. op' \in [Slots -> GaStep]
  BY <1>1, <1>5, <1>6 DEF GaInv, GaShape
<1> HIDE DEF o
<1>8. GaShape'
  <2>1. raced' \in BOOLEAN /\ missed' \subseteq Images
    BY <1>1 DEF GaInv, GaShape
  <2> QED BY <1>1, <1>2, <1>7, <2>1, GaShapeStays
<1>9. GaPart(s)'
  BY <1>1, <1>2, <1>5, <1>6 DEF GaPart
<1>10. \A t \in Slots \ {s} : GaPart(t)'
  <2>1. \A t \in Slots \ {s} : op[t].at = "publish" => op'[s].of # op[t].of
        /\ op[t].of \notin there'
    BY <1>1, <1>5, <1>6, GaAll
  <2> QED BY <1>1, <1>5, <1>6, <2>1, GaOthers
<1>11. Ga!BlobsMatchRows'
  BY <1>1, <1>5, <1>6, GaBlobsStay
<1>12. Ga!LimitPlusRaces'
  <2>1. \A h \in Posts : Ga!Adding(h)' \subseteq Ga!Adding(h)
    BY <1>1, <1>5, <1>6, GaAddingStays
  <2>2. \A h \in Posts : Ga!ImagesOf(h)' \subseteq Ga!ImagesOf(h)
    BY <1>1, GaImagesStay
  <2> QED BY <2>1, <2>2, GaLimitStays
<1>13. GaOrders'
  <2> SUFFICES ASSUME ~raced'
               PROVE  /\ \A i, j \in Images : row'[i] = row'[j] /\ row'[i] # Ga!NoRow => i = j
                      /\ \A t \in Slots : op'[t].at = "insert" =>
                           /\ Cardinality({i \in Images : row'[i].of = op'[t].of}) <= op'[t].order
                           /\ \A i \in Images : row'[i].of = op'[t].of => row'[i].order < op'[t].order
                           /\ \A u \in Slots : op'[u].at = "insert"
                              /\ op'[u].of = op'[t].of => u = t
    BY GaOrdersNext
  <2>1. ~raced /\ GaOrders /\ \A t \in Slots : op[t].at = "insert" => op[t].of # g
    BY <1>1 DEF GaInv, Ga!Adding
  <2>2. \A i, j \in Images : row'[i] = row'[j] /\ row'[i] # Ga!NoRow => i = j
    BY <1>1, <2>1 DEF GaOrders
  <2>3. ASSUME NEW t \in Slots, op'[t].at = "insert"
        PROVE  /\ Cardinality({i \in Images : row'[i].of = op'[t].of}) <= op'[t].order
               /\ \A i \in Images : row'[i].of = op'[t].of => row'[i].order < op'[t].order
               /\ \A u \in Slots : op'[u].at = "insert" /\ op'[u].of = op'[t].of => u = t
    <3>0. {i \in Images : row'[i].of = op'[t].of} = Ga!ImagesOf(op'[t].of)
      BY <1>1 DEF Ga!ImagesOf
    <3>1. CASE t = s
      <4>1. op'[t].of = g /\ op'[t].order = Ga!NextOrder(g)
        BY <1>5, <1>6, <3>1
      <4>2. \A u \in Slots : op'[u].at = "insert" /\ op'[u].of = g => u = t
        BY <1>5, <2>1, <3>1
      <4>3. Cardinality({i \in Images : row'[i].of = op'[t].of}) <= op'[t].order
        BY <1>4, <2>1, <3>0, <4>1
      <4>4. \A i \in Images : row'[i].of = op'[t].of => row'[i].order < op'[t].order
        BY <1>1, <1>4, <4>1
      <4> QED BY <4>1, <4>2, <4>3, <4>4
    <3>2. CASE t # s
      <4>1. op'[t] = op[t] /\ op[t].at = "insert" /\ op[t].of # g
        BY <1>5, <2>1, <2>3, <3>2
      <4>2. /\ Cardinality(Ga!ImagesOf(op[t].of)) <= op[t].order
            /\ \A i \in Images : row[i].of = op[t].of => row[i].order < op[t].order
            /\ \A u \in Slots : op[u].at = "insert" /\ op[u].of = op[t].of => u = t
        BY <2>1, <4>1 DEF GaOrders
      <4> QED BY <1>1, <1>5, <1>6, <3>0, <4>1, <4>2
    <3> QED BY <3>1, <3>2
  <2> QED BY <2>2, <2>3
<1> QED BY <1>8, <1>9, <1>10, <1>11, <1>12, <1>13 DEF GaInv

\* An insert that failed keeps what was uploaded for the rollback.
LEMMA GaRollsBack ==
  ASSUME GaInv, NEW s \in Slots, op[s].at \in {"insert", "publish"}, GaPart(s),
         there' = there, row' = row, blobs' = blobs, missed' = missed, raced' = raced, taken' = taken,
         op'[s].at = "rollback", op'[s].images = op[s].images, op'[s].of = op[s].of,
         op' \in [Slots -> GaStep], \A t \in Slots \ {s} : op'[t] = op[t]
  PROVE  GaInv'
<1>1. GaShape'
  BY GaAll, GaShapeStays DEF GaInv, GaShape
<1>2. GaPart(s)'
  BY DEF GaPart
<1>3. \A t \in Slots \ {s} : GaPart(t)'
  <2>1. \A t \in Slots \ {s} : op[t].at = "publish" => op'[s].of # op[t].of
        /\ op[t].of \notin there'
    BY GaAll
  <2> QED BY <2>1, GaOthers
<1>4. Ga!BlobsMatchRows'
  BY GaBlobsStay
<1>5. GaOrders'
  BY GaOrdersStay
<1>6. Ga!LimitPlusRaces'
  <2>1. \A g \in Posts : Ga!Adding(g)' \subseteq Ga!Adding(g)
    BY GaAddingStays
  <2>2. \A g \in Posts : Ga!ImagesOf(g)' \subseteq Ga!ImagesOf(g)
    BY GaImagesStay
  <2> QED BY <2>1, <2>2, GaLimitStays
<1> QED BY <1>1, <1>2, <1>3, <1>4, <1>5, <1>6 DEF GaInv

\* The row is inserted at the position that was read.
LEMMA GaCreateImage ==
  ASSUME GaInv, NEW s \in Slots, Ga!createImage(s)
  PROVE  GaInv'
<1> DEFINE g == op[s].of
           n == op[s].order
<1>1. op[s].at = "insert" /\ there' = there /\ blobs' = blobs /\ missed' = missed
  BY DEF Ga!createImage
<1>2. /\ GaPart(s) /\ op[s].images \subseteq Images /\ op[s].images \subseteq taken
      /\ blobs \subseteq taken /\ taken \subseteq Images /\ op[s] \in GaStep /\ n \in Nat
  BY GaAll DEF GaStep
<1>3. g \in Posts /\ g \in Ga!Galleries /\ g # None /\ \E i \in Images : op[s].images = {i}
  BY <1>1, <1>2, GaPar DEF GaPart
<1>4. PICK i \in Images : op[s].images = {i}
  BY <1>3
<1>5. row[i] = Ga!NoRow /\ i \in blobs /\ i \in taken
  BY <1>1, <1>2, <1>4 DEF GaPart
<1>6. CASE g \in there
  <2> DEFINE r == [of |-> g, order |-> n]
  <2>1. row' = [j \in Images |-> IF j \in op[s].images THEN r ELSE row[j]] /\ Ga!Ends(s)
    BY <1>6 DEF Ga!createImage
  <2>2. r \in GaRow /\ r.of = g /\ r.order = n /\ r # Ga!NoRow
    BY <1>2, <1>3, GaNull DEF GaRow
  <2> HIDE DEF r
  <2>3. row'[i] = r /\ \A j \in Images \ {i} : row'[j] = row[j]
    BY <1>4, <2>1
  <2>4. /\ op'[s].at = "idle" /\ op'[s].images = {} /\ op'[s].of = None
        /\ taken' = taken /\ op' \in [Slots -> GaStep] /\ raced' = raced /\ GaPart(s)'
    BY <2>1, GaEnds
  <2>5. \A t \in Slots \ {s} : op'[t] = op[t]
    BY <2>1, GaEnds
  <2>6. GaShape'
    <3>1. row' \in [Images -> GaRow]
      BY <2>1, <2>2 DEF GaInv, GaShape
    <3>2. \A j \in Images : /\ row'[j].of \in there' \cup {None}
                            /\ row'[j].of = None => row'[j] = Ga!NoRow
                            /\ row'[j] # Ga!NoRow => j \in taken'
      BY <1>1, <1>3, <1>5, <1>6, <2>2, <2>3, <2>4 DEF GaInv, GaShape
    <3> QED BY <1>1, <2>4, <3>1, <3>2 DEF GaInv, GaShape
  <2>7. \A t \in Slots \ {s} : GaPart(t)'
    <3>1. \A t \in Slots \ {s} : op[t].at = "publish" => op'[s].of # op[t].of
          /\ op[t].of \notin there'
      BY <1>1, <2>4, GaAll, GaPar
    <3> QED BY <1>1, <1>4, <1>5, <2>3, <2>4, <2>5, <3>1, GaOthers
  <2>8. Ga!BlobsMatchRows'
    BY <1>1, <1>4, <1>5, <2>2, <2>3, <2>5, GaBlobsStay
  <2>9. Ga!LimitPlusRaces'
    <3> SUFFICES ASSUME NEW h \in Posts
                 PROVE  Cardinality(Ga!ImagesOf(h)') + Cardinality(Ga!Adding(h)') <= MAX_GALLERY_IMAGES + Cardinality(Slots) - 1
      BY GaSets DEF Ga!LimitPlusRaces
    <3>1. Cardinality(Ga!ImagesOf(h)) + Cardinality(Ga!Adding(h)) <= MAX_GALLERY_IMAGES + Cardinality(Slots) - 1
      BY GaSets DEF GaInv, Ga!LimitPlusRaces
    <3>2. /\ IsFiniteSet(Ga!ImagesOf(h)) /\ Cardinality(Ga!ImagesOf(h)) \in Nat
          /\ IsFiniteSet(Ga!Adding(h)) /\ Cardinality(Ga!Adding(h)) \in Nat
      BY GaFinite
    <3>3. CASE h = g
      <4>1. Ga!ImagesOf(h)' = Ga!ImagesOf(h) \cup {i} /\ i \notin Ga!ImagesOf(h)
        BY <1>3, <1>5, <2>2, <2>3, <3>3, GaNull DEF Ga!ImagesOf
      <4>2. Ga!Adding(h)' = Ga!Adding(h) \ {s} /\ s \in Ga!Adding(h)
        BY <1>1, <2>4, <2>5, <3>3 DEF Ga!Adding
      <4>3. Cardinality(Ga!ImagesOf(h)') = Cardinality(Ga!ImagesOf(h)) + 1
        BY <3>2, <4>1, FS_AddElement
      <4>4. Cardinality(Ga!Adding(h)') = Cardinality(Ga!Adding(h)) - 1
        BY <3>2, <4>2, FS_RemoveElement
      <4> QED BY <3>1, <3>2, <4>3, <4>4, GaPar
    <3>4. CASE h # g
      <4>1. Ga!ImagesOf(h)' = Ga!ImagesOf(h)
        <5>1. h # None
          BY GaPar
        <5> QED BY <1>5, <2>2, <2>3, <3>4, <5>1, GaNull DEF Ga!ImagesOf
      <4>2. Ga!Adding(h)' = Ga!Adding(h)
        BY <2>4, <2>5, <3>4 DEF Ga!Adding
      <4> QED BY <3>1, <4>1, <4>2
    <3> QED BY <3>3, <3>4
  <2>10. GaOrders'
    <3> SUFFICES ASSUME ~raced'
                 PROVE  /\ \A k, j \in Images : row'[k] = row'[j] /\ row'[k] # Ga!NoRow => k = j
                        /\ \A t \in Slots : op'[t].at = "insert" =>
                             /\ Cardinality({k \in Images : row'[k].of = op'[t].of}) <= op'[t].order
                             /\ \A k \in Images : row'[k].of = op'[t].of => row'[k].order < op'[t].order
                             /\ \A u \in Slots : op'[u].at = "insert"
                                /\ op'[u].of = op'[t].of => u = t
      BY GaOrdersNext
    <3>1. ~raced /\ GaOrders
      BY <2>4 DEF GaInv
    <3>2. \A j \in Images : row[j].of = g => row[j].order < n /\ row[j].order \in Nat
      BY <1>1, <3>1 DEF GaOrders, GaInv, GaShape, GaRow
    <3>3. \A j \in Images \ {i} : row'[j] # r
      BY <1>2, <2>2, <2>3, <3>2
    <3>4. \A k, j \in Images : row'[k] = row'[j] /\ row'[k] # Ga!NoRow => k = j
      BY <2>3, <3>1, <3>3 DEF GaOrders
    <3>5. ASSUME NEW t \in Slots, op'[t].at = "insert"
          PROVE  /\ Cardinality({k \in Images : row'[k].of = op'[t].of}) <= op'[t].order
                 /\ \A k \in Images : row'[k].of = op'[t].of => row'[k].order < op'[t].order
                 /\ \A u \in Slots : op'[u].at = "insert" /\ op'[u].of = op'[t].of => u = t
      <4>1. t # s /\ op'[t] = op[t] /\ op[t].at = "insert"
        BY <2>4, <2>5, <3>5
      <4>2. /\ Cardinality(Ga!ImagesOf(op[t].of)) <= op[t].order
            /\ \A k \in Images : row[k].of = op[t].of => row[k].order < op[t].order
            /\ \A u \in Slots : op[u].at = "insert" /\ op[u].of = op[t].of => u = t
        BY <3>1, <4>1 DEF GaOrders
      <4>3. op[t].of # g
        BY <1>1, <4>1, <4>2
      <4>4. op[t].of # None
        <5>1. GaPart(t)
          BY DEF GaInv
        <5> QED BY <4>1, <5>1, GaPar DEF GaPart
      <4>5. \A k \in Images : row'[k].of = op[t].of <=> row[k].of = op[t].of
        BY <1>5, <2>2, <2>3, <4>3, <4>4, GaNull
      <4>6. {k \in Images : row'[k].of = op'[t].of} = Ga!ImagesOf(op[t].of)
        BY <4>1, <4>5 DEF Ga!ImagesOf
      <4>7. \A k \in Images : row'[k].of = op'[t].of => row'[k].order < op'[t].order
        BY <2>2, <2>3, <4>1, <4>2, <4>3, <4>5
      <4>8. \A u \in Slots : op'[u].at = "insert" /\ op'[u].of = op'[t].of => u = t
        BY <2>4, <2>5, <4>1, <4>2
      <4> QED BY <4>1, <4>2, <4>6, <4>7, <4>8
    <3> QED BY <3>4, <3>5
  <2> QED BY <2>4, <2>6, <2>7, <2>8, <2>9, <2>10 DEF GaInv
<1>7. CASE g \notin there
  <2>1. Ga!Goes(s, "rollback") /\ row' = row /\ raced' = raced
    BY <1>7 DEF Ga!createImage
  <2>2. /\ op'[s].at = "rollback" /\ op'[s].images = op[s].images /\ op'[s].of = op[s].of
        /\ taken' = taken /\ op' \in [Slots -> GaStep]
    BY <2>1, GaGoes
  <2>3. \A t \in Slots \ {s} : op'[t] = op[t]
    BY <2>1, GaGoes
  <2> QED BY <1>1, <1>2, <2>1, <2>2, <2>3, GaRollsBack
<1> QED BY <1>6, <1>7

\* The images of an entry of the wall: the gallery is new.
LEMMA GaCreateAlbum ==
  ASSUME GaInv, NEW s \in Slots, Ga!createAlbum(s)
  PROVE  GaInv'
<1> DEFINE g == op[s].of
           S == op[s].images
<1>1. op[s].at = "publish" /\ S \subseteq blobs /\ blobs' = blobs /\ missed' = missed
  BY DEF Ga!createAlbum
<1>2. /\ GaPart(s) /\ S \subseteq Images /\ S \subseteq taken
      /\ blobs \subseteq taken /\ taken \subseteq Images /\ op[s] \in GaStep
  BY GaAll
<1>3. g \in Albums /\ g \notin there /\ g \in Ga!Galleries /\ g # None /\ g \notin Posts
  BY <1>1, <1>2, GaPar DEF GaPart
<1>4. \A i \in S : row[i] = Ga!NoRow /\ i \in blobs /\ i \in taken
  BY <1>1, <1>2 DEF GaPart
<1>5. \A i \in Images : row[i].of # g
  BY <1>3 DEF GaInv, GaShape
<1>6. CASE /\ there' = there \cup {g} /\ Ga!Ends(s)
           /\ \E pos \in [S -> 0..(Cardinality(S) - 1)] :
                /\ IsInjective(pos)
                /\ row' = [i \in Images |-> IF i \in S THEN [of |-> g, order |-> pos[i]] ELSE row[i]]
  <2>1. PICK pos \in [S -> 0..(Cardinality(S) - 1)] :
               /\ IsInjective(pos)
               /\ row' = [i \in Images |-> IF i \in S THEN [of |-> g, order |-> pos[i]] ELSE row[i]]
    BY <1>6
  <2>2. IsFiniteSet(S) /\ Cardinality(S) \in Nat
    <3>1. IsFiniteSet(Images)
      BY GaA, GaSets DEF Ga!GalleriesAssumption
    <3>2. IsFiniteSet(S)
      BY <1>2, <3>1, FS_Subset
    <3> QED BY <3>2, FS_CardinalityType
  <2>3. \A i \in S : pos[i] \in Nat
    BY <2>1, <2>2
  <2>4. \A i \in S : row'[i] \in GaRow /\ row'[i].of = g /\ row'[i].order = pos[i]
        /\ row'[i] # Ga!NoRow
    BY <1>2, <1>3, <2>1, <2>3, GaNull DEF GaRow
  <2>5. \A i \in Images \ S : row'[i] = row[i]
    BY <2>1
  <2>6. /\ op'[s].at = "idle" /\ op'[s].images = {} /\ op'[s].of = None
        /\ taken' = taken /\ op' \in [Slots -> GaStep] /\ raced' = raced /\ GaPart(s)'
    BY <1>6, GaEnds
  <2>7. \A t \in Slots \ {s} : op'[t] = op[t]
    BY <1>6, GaEnds
  <2>8. GaShape'
    <3>1. row' \in [Images -> GaRow]
      <4>1. \A i \in Images : row'[i] \in GaRow
        BY <2>4, <2>5 DEF GaInv, GaShape
      <4> HIDE DEF S
      <4> QED BY <2>1, <4>1
    <3>2. \A j \in Images : /\ row'[j].of \in there' \cup {None}
                            /\ row'[j].of = None => row'[j] = Ga!NoRow
                            /\ row'[j] # Ga!NoRow => j \in taken'
      <4> SUFFICES ASSUME NEW j \in Images
                   PROVE  /\ row'[j].of \in there' \cup {None}
                          /\ row'[j].of = None => row'[j] = Ga!NoRow
                          /\ row'[j] # Ga!NoRow => j \in taken'
        OBVIOUS
      <4>1. CASE j \in S
        BY <1>2, <1>3, <1>6, <2>4, <2>6, <4>1
      <4>2. CASE j \notin S
        BY <1>6, <2>5, <2>6, <4>2 DEF GaInv, GaShape
      <4> QED BY <4>1, <4>2
    <3>3. there' \subseteq Ga!Galleries
      BY <1>3, <1>6 DEF GaInv, GaShape
    <3> QED BY <1>1, <1>2, <2>6, <3>1, <3>2, <3>3 DEF GaInv, GaShape
  <2>9. \A t \in Slots \ {s} : GaPart(t)'
    <3>1. \A t \in Slots \ {s} : op[t].at = "publish" => op'[s].of # op[t].of
          /\ op[t].of \notin there'
      BY <1>6, <2>6, GaAll, GaPar
    <3>2. \A i \in Images : row[i] = Ga!NoRow => row'[i] = Ga!NoRow \/ i \in S
      BY <2>5
    <3>3. \A i \in Images : row'[i] = Ga!NoRow \/ row[i] = Ga!NoRow \/ row'[i].of = row[i].of
      BY <1>4, <2>5
    <3> QED BY <1>1, <2>6, <2>7, <3>1, <3>2, <3>3, GaOthers
  <2>10. Ga!BlobsMatchRows'
    BY <1>1, <1>4, <2>4, <2>5, <2>7, GaBlobsStay
  <2>11. \A h \in Posts : Ga!ImagesOf(h)' = Ga!ImagesOf(h)
    <3> SUFFICES ASSUME NEW h \in Posts, NEW i \in Images PROVE row'[i].of = h <=> row[i].of = h
      BY DEF Ga!ImagesOf
    <3>1. h # g /\ h # None
      BY <1>3, GaPar
    <3> QED BY <1>4, <2>4, <2>5, <3>1, GaNull
  <2>12. Ga!LimitPlusRaces'
    <3>1. \A h \in Posts : Ga!Adding(h)' \subseteq Ga!Adding(h)
      BY <2>6, <2>7, GaAddingStays
    <3> QED BY <2>11, <3>1, GaLimitStays
  <2>13. GaOrders'
    <3> SUFFICES ASSUME ~raced'
                 PROVE  /\ \A k, j \in Images : row'[k] = row'[j] /\ row'[k] # Ga!NoRow => k = j
                        /\ \A t \in Slots : op'[t].at = "insert" =>
                             /\ Cardinality({k \in Images : row'[k].of = op'[t].of}) <= op'[t].order
                             /\ \A k \in Images : row'[k].of = op'[t].of => row'[k].order < op'[t].order
                             /\ \A u \in Slots : op'[u].at = "insert"
                                /\ op'[u].of = op'[t].of => u = t
      BY GaOrdersNext
    <3>1. ~raced /\ GaOrders
      BY <2>6 DEF GaInv
    <3>2. ASSUME NEW k \in Images, NEW j \in Images, row'[k] = row'[j], row'[k] # Ga!NoRow PROVE k = j
      <4>1. CASE k \in S /\ j \in S
        <5>1. pos[k] = pos[j]
          BY <2>4, <3>2, <4>1
        <5> QED BY <2>1, <4>1, <5>1 DEF IsInjective
      <4>2. CASE k \in S /\ j \notin S
        BY <1>5, <2>4, <2>5, <3>2, <4>2
      <4>3. CASE k \notin S /\ j \in S
        BY <1>5, <2>4, <2>5, <3>2, <4>3
      <4>4. CASE k \notin S /\ j \notin S
        BY <2>5, <3>1, <3>2, <4>4 DEF GaOrders
      <4> QED BY <4>1, <4>2, <4>3, <4>4
    <3>3. ASSUME NEW t \in Slots, op'[t].at = "insert"
          PROVE  /\ Cardinality({k \in Images : row'[k].of = op'[t].of}) <= op'[t].order
                 /\ \A k \in Images : row'[k].of = op'[t].of => row'[k].order < op'[t].order
                 /\ \A u \in Slots : op'[u].at = "insert" /\ op'[u].of = op'[t].of => u = t
      <4>1. t # s /\ op'[t] = op[t] /\ op[t].at = "insert"
        BY <2>6, <2>7, <3>3
      <4>2. /\ Cardinality(Ga!ImagesOf(op[t].of)) <= op[t].order
            /\ \A k \in Images : row[k].of = op[t].of => row[k].order < op[t].order
            /\ \A u \in Slots : op[u].at = "insert" /\ op[u].of = op[t].of => u = t
        BY <3>1, <4>1 DEF GaOrders
      <4>3. op[t].of \in Posts
        <5>1. GaPart(t)
          BY DEF GaInv
        <5> QED BY <4>1, <5>1 DEF GaPart
      <4>4. \A k \in Images : row'[k].of = op[t].of => row'[k] = row[k] /\ row[k].of = op[t].of
        BY <1>3, <2>4, <2>5, <4>3
      <4>5. {k \in Images : row'[k].of = op'[t].of} = Ga!ImagesOf(op[t].of)
        <5>1. Ga!ImagesOf(op[t].of) = {k \in Images : row[k].of = op[t].of}
          BY DEF Ga!ImagesOf
        <5>2. \A k \in Images : row[k].of = op[t].of => row'[k] = row[k]
          BY <1>4, <2>5, <4>3, GaNull, GaPar
        <5> QED BY <4>1, <4>4, <5>1, <5>2
      <4>6. \A k \in Images : row'[k].of = op'[t].of => row'[k].order < op'[t].order
        BY <4>1, <4>2, <4>4
      <4>7. \A u \in Slots : op'[u].at = "insert" /\ op'[u].of = op'[t].of => u = t
        BY <2>6, <2>7, <4>1, <4>2
      <4> QED BY <4>1, <4>2, <4>5, <4>6, <4>7
    <3> QED BY <3>1, <3>2, <3>3
  <2> QED BY <2>6, <2>8, <2>9, <2>10, <2>12, <2>13 DEF GaInv
<1>7. CASE Ga!Goes(s, "rollback") /\ UNCHANGED <<there, row, raced>>
  <2>1. there' = there /\ row' = row /\ raced' = raced
    BY <1>7
  <2>2. /\ op'[s].at = "rollback" /\ op'[s].images = op[s].images /\ op'[s].of = op[s].of
        /\ taken' = taken /\ op' \in [Slots -> GaStep]
    BY <1>7, GaGoes
  <2>3. \A t \in Slots \ {s} : op'[t] = op[t]
    BY <1>7, GaGoes
  <2> QED BY <1>1, <1>2, <2>1, <2>2, <2>3, GaRollsBack
<1> QED BY <1>6, <1>7, GaSets, GaInjective DEF Ga!createAlbum

-----------------------------------------------------------------------------
(* Reordering. *)

\* A reordering begins from the images it read.
LEMMA GaReorder ==
  ASSUME GaInv, NEW s \in Slots, NEW g \in Ga!Galleries, Ga!reorderImages(s, g)
  PROVE  GaInv'
<1>1. /\ g \in there /\ g \in Posts /\ there' = there /\ row' = row /\ blobs' = blobs
      /\ taken' = taken /\ missed' = missed
  BY DEF Ga!reorderImages, Ga!stored
<1>2. PICK pos \in [Ga!ImagesOf(g) -> 0..(Cardinality(Ga!ImagesOf(g)) - 1)] :
             IsInjective(pos)
             /\ Ga!Begin(s, [Ga!Free EXCEPT !.at = "reorder", !.of = g, !.pos = pos])
  BY GaSets, GaInjective DEF Ga!reorderImages
<1> DEFINE o == [Ga!Free EXCEPT !.at = "reorder", !.of = g, !.pos = pos]
<1>3. GaMove(pos) /\ pos \in GaLists
  BY <1>2, GaFinite DEF GaMove, GaLists
<1>4. o \in GaStep /\ o.at = "reorder" /\ o.of = g /\ o.images = {} /\ o.pos = pos
  BY <1>3, GaPar DEF Ga!Free, GaStep
<1>5. Ga!Begin(s, o)
  BY <1>2
<1> HIDE DEF o
<1>6. /\ op'[s] = o /\ op[s].at = "idle" /\ op[s].images = {} /\ raced' = raced
      /\ \A t \in Slots \ {s} : op'[t] = op[t]
  BY <1>4, <1>5, GaBegins
<1>7. op' \in [Slots -> GaStep]
  BY <1>4, <1>5, GaBegins
<1>8. GaShape'
  BY <1>1, <1>6, <1>7, GaAll, GaShapeStays DEF GaInv, GaShape
<1>9. GaPart(s)'
  BY <1>1, <1>3, <1>4, <1>6 DEF GaPart
<1>10. \A t \in Slots \ {s} : GaPart(t)'
  <2>1. \A t \in Slots \ {s} : op[t].at = "publish" => op'[s].of # op[t].of
        /\ op[t].of \notin there'
    BY <1>1, <1>4, <1>6, GaAll
  <2> QED BY <1>1, <1>4, <1>6, <2>1, GaOthers
<1>11. Ga!BlobsMatchRows'
  BY <1>1, <1>6, GaBlobsStay
<1>12. GaOrders'
  BY <1>1, <1>4, <1>6, GaOrdersStay
<1>13. Ga!LimitPlusRaces'
  <2>1. \A h \in Posts : Ga!Adding(h)' \subseteq Ga!Adding(h)
    BY <1>4, <1>6, GaAddingStays
  <2>2. \A h \in Posts : Ga!ImagesOf(h)' \subseteq Ga!ImagesOf(h)
    BY <1>1, GaImagesStay
  <2> QED BY <2>1, <2>2, GaLimitStays
<1> QED BY <1>8, <1>9, <1>10, <1>11, <1>12, <1>13 DEF GaInv

\* The positions are written as they were sent.
LEMMA GaSetPositions ==
  ASSUME GaInv, NEW s \in Slots, Ga!setPositions(s)
  PROVE  GaInv'
<1> DEFINE g == op[s].of
           pos == op[s].pos
           I == Ga!ImagesOf(g)
<1>1. /\ op[s].at = "reorder" /\ op' = [op EXCEPT ![s] = Ga!Free] /\ there' = there
         /\ blobs' = blobs
      /\ taken' = taken /\ missed' = missed /\ raced' = (raced \/ I # DOMAIN pos)
      /\ row' = [i \in Images |-> IF i \in I \cap DOMAIN pos
                                  THEN [row[i] EXCEPT !.order = pos[i]] ELSE row[i]]
  BY DEF Ga!setPositions
<1>2. /\ GaPart(s) /\ op[s].images \subseteq Images /\ op[s].images \subseteq taken
      /\ blobs \subseteq taken /\ taken \subseteq Images /\ op[s] \in GaStep
  BY GaAll
<1>3. g \in Posts /\ g \in Ga!Galleries /\ g # None /\ op[s].images = {} /\ GaMove(pos)
  BY <1>1, <1>2, GaPar DEF GaPart
<1>4. PICK D \in SUBSET Images : pos \in [D -> 0..(Cardinality(D) - 1)] /\ IsInjective(pos)
  BY <1>3 DEF GaMove
<1>5. IsFiniteSet(D) /\ Cardinality(D) \in Nat /\ DOMAIN pos = D /\ \A i \in D : pos[i] \in Nat
  <2>1. IsFiniteSet(Images)
    BY GaA, GaSets DEF Ga!GalleriesAssumption
  <2>2. IsFiniteSet(D) /\ Cardinality(D) \in Nat
    BY <2>1, FS_Subset, FS_CardinalityType
  <2> QED BY <1>4, <2>2
<1> HIDE DEF pos
<1>6. I \subseteq Images /\ \A i \in Images : i \in I <=> row[i].of = g
  BY DEF Ga!ImagesOf
<1>7. ASSUME NEW i \in Images
      PROVE  /\ row'[i] \in GaRow /\ row'[i].of = row[i].of /\ (row'[i] = Ga!NoRow <=> row[i] = Ga!NoRow)
             /\ i \in I /\ i \in D => row'[i].order = pos[i]
             /\ i \notin I \/ i \notin D => row'[i] = row[i]
  <2>1. row[i] \in GaRow
    BY DEF GaInv, GaShape
  <2>2. CASE i \in I /\ i \in D
    <3>1. row'[i] = [row[i] EXCEPT !.order = pos[i]]
      BY <1>1, <1>5, <2>2
    <3>2. row'[i] \in GaRow /\ row'[i].of = row[i].of /\ row'[i].order = pos[i]
      BY <1>5, <2>1, <2>2, <3>1 DEF GaRow
    <3> QED BY <1>3, <1>6, <2>2, <3>2, GaNull
  <2>3. CASE i \notin I \/ i \notin D
    BY <1>1, <1>5, <2>1, <2>3
  <2> QED BY <2>2, <2>3
<1>8. row' \in [Images -> GaRow]
  <2>1. \A i \in Images : row'[i] \in GaRow
    BY <1>7
  <2> HIDE DEF I
  <2> QED BY <1>1, <2>1
<1>9. /\ op'[s] = Ga!Free /\ op'[s].at = "idle" /\ op'[s].images = {} /\ op'[s].of = None
      /\ op' \in [Slots -> GaStep] /\ \A t \in Slots \ {s} : op'[t] = op[t]
  BY <1>1, GaNull DEF GaInv, GaShape
<1>10. GaShape'
  <2>1. \A j \in Images : /\ row'[j].of \in there' \cup {None}
                          /\ row'[j].of = None => row'[j] = Ga!NoRow
                          /\ row'[j] # Ga!NoRow => j \in taken'
    BY <1>1, <1>7 DEF GaInv, GaShape
  <2>2. raced' \in BOOLEAN
    BY <1>1 DEF GaInv, GaShape
  <2> QED BY <1>1, <1>8, <1>9, <2>1, <2>2 DEF GaInv, GaShape
<1>11. GaPart(s)'
  BY <1>9 DEF GaPart
<1>12. \A t \in Slots \ {s} : op'[t] = op[t]
  BY <1>9
<1>13. \A t \in Slots \ {s} : GaPart(t)'
  <2>1. \A t \in Slots \ {s} : op[t].at = "publish" => op'[s].of # op[t].of
        /\ op[t].of \notin there'
    BY <1>1, <1>9, GaAll, GaPar
  <2>2. \A i \in Images : row[i] = Ga!NoRow => row'[i] = Ga!NoRow
    BY <1>7
  <2>3. \A i \in Images : row'[i].of = row[i].of
    BY <1>7
  <2> QED BY <1>1, <1>9, <1>12, <2>1, <2>2, <2>3, GaOthers
<1>14. Ga!BlobsMatchRows'
  <2>1. \A i \in Images : row'[i] = Ga!NoRow <=> row[i] = Ga!NoRow
    BY <1>7
  <2> QED BY <1>1, <1>3, <1>12, <2>1, GaBlobsStay
<1>15. Ga!LimitPlusRaces'
  <2>1. \A h \in Posts : Ga!Adding(h)' \subseteq Ga!Adding(h)
    BY <1>9, <1>12, GaAddingStays
  <2>2. \A h \in Posts : Ga!ImagesOf(h)' \subseteq Ga!ImagesOf(h)
    BY <1>7 DEF Ga!ImagesOf
  <2> QED BY <2>1, <2>2, GaLimitStays
<1>16. GaOrders'
  <2> SUFFICES ASSUME ~raced'
               PROVE  /\ \A k, j \in Images : row'[k] = row'[j] /\ row'[k] # Ga!NoRow => k = j
                      /\ \A t \in Slots : op'[t].at = "insert" =>
                           /\ Cardinality({k \in Images : row'[k].of = op'[t].of}) <= op'[t].order
                           /\ \A k \in Images : row'[k].of = op'[t].of => row'[k].order < op'[t].order
                           /\ \A u \in Slots : op'[u].at = "insert"
                              /\ op'[u].of = op'[t].of => u = t
    BY GaOrdersNext
  <2>1. ~raced /\ GaOrders /\ I = D
    BY <1>1, <1>5 DEF GaInv
  <2>2. ASSUME NEW k \in Images, NEW j \in Images, row'[k] = row'[j], row'[k] # Ga!NoRow PROVE k = j
    <3>1. row[k].of = row[j].of /\ row[k] # Ga!NoRow
      BY <1>7, <2>2
    <3>2. CASE k \in I
      <4>1. j \in I /\ pos[k] = pos[j]
        BY <1>6, <1>7, <2>1, <2>2, <3>1, <3>2
      <4> QED BY <1>4, <1>5, <2>1, <3>2, <4>1 DEF IsInjective
    <3>3. CASE k \notin I
      <4>1. j \notin I
        BY <1>6, <3>1, <3>3
      <4> QED BY <1>7, <2>1, <2>2, <3>1, <3>3, <4>1 DEF GaOrders
    <3> QED BY <3>2, <3>3
  <2>3. ASSUME NEW t \in Slots, op'[t].at = "insert"
        PROVE  /\ Cardinality({k \in Images : row'[k].of = op'[t].of}) <= op'[t].order
               /\ \A k \in Images : row'[k].of = op'[t].of => row'[k].order < op'[t].order
               /\ \A u \in Slots : op'[u].at = "insert" /\ op'[u].of = op'[t].of => u = t
    <3>1. t # s /\ op'[t] = op[t] /\ op[t].at = "insert" /\ op[t].order \in Nat
      BY <1>9, <1>12, <2>3 DEF GaInv, GaShape, GaStep
    <3>2. /\ Cardinality(Ga!ImagesOf(op[t].of)) <= op[t].order
          /\ \A k \in Images : row[k].of = op[t].of => row[k].order < op[t].order
          /\ \A u \in Slots : op[u].at = "insert" /\ op[u].of = op[t].of => u = t
      BY <2>1, <3>1 DEF GaOrders
    <3>3. {k \in Images : row'[k].of = op'[t].of} = Ga!ImagesOf(op[t].of)
      BY <1>7, <3>1 DEF Ga!ImagesOf
    <3>4. ASSUME NEW k \in Images, row'[k].of = op'[t].of PROVE row'[k].order < op'[t].order
      <4>1. row[k].of = op[t].of
        BY <1>7, <3>1, <3>4
      <4>2. CASE k \in I
        <5>1. op[t].of = g
          BY <1>6, <4>1, <4>2
        <5>2. Cardinality(D) <= op[t].order
          BY <2>1, <3>2, <5>1
        <5>3. pos[k] \in 0..(Cardinality(D) - 1) /\ row'[k].order = pos[k]
          BY <1>4, <1>7, <2>1, <4>2
        <5> QED BY <1>5, <3>1, <5>2, <5>3
      <4>3. CASE k \notin I
        BY <1>7, <3>1, <3>2, <4>1, <4>3
      <4> QED BY <4>2, <4>3
    <3>5. \A u \in Slots : op'[u].at = "insert" /\ op'[u].of = op'[t].of => u = t
      BY <1>9, <1>12, <3>1, <3>2
    <3> QED BY <3>1, <3>2, <3>3, <3>4, <3>5
  <2> QED BY <2>1, <2>2, <2>3
<1> QED BY <1>10, <1>11, <1>13, <1>14, <1>15, <1>16 DEF GaInv

-----------------------------------------------------------------------------
(* The galleries. *)

\* The invariant of the galleries holds at the start.
LEMMA GaInvInit ==
  ASSUME Ga!Init
  PROVE  GaInv
<1>1. /\ there = Posts /\ row = [i \in Images |-> Ga!NoRow] /\ blobs = {} /\ taken = {}
      /\ op = [s \in Slots |-> Ga!Free] /\ missed = {} /\ raced = FALSE
  BY DEF Ga!Init
<1>2. GaShape
  BY <1>1, GaNull, GaPar DEF GaShape
<1>3. \A s \in Slots : GaPart(s)
  BY <1>1, GaNull DEF GaPart
<1>4. Ga!BlobsMatchRows
  BY <1>1 DEF Ga!BlobsMatchRows
<1>5. GaOrders
  BY <1>1, GaNull DEF GaOrders
<1>6. Ga!LimitPlusRaces
  <2> SUFFICES ASSUME NEW g \in Posts
               PROVE  Cardinality(Ga!ImagesOf(g)) + Cardinality(Ga!Adding(g)) <= MAX_GALLERY_IMAGES + Cardinality(Slots) - 1
    BY GaSets DEF Ga!LimitPlusRaces
  <2>1. Ga!ImagesOf(g) = {} /\ Ga!Adding(g) = {}
    BY <1>1, GaNull, GaPar DEF Ga!ImagesOf, Ga!Adding
  <2> QED BY <2>1, FS_EmptySet, GaPar
<1> QED BY <1>2, <1>3, <1>4, <1>5, <1>6 DEF GaInv

\* Every step of the galleries keeps their invariant.
LEMMA GaInvNext ==
  ASSUME GaInv, [Ga!Next]_(Ga!vars)
  PROVE  GaInv'
<1>1. CASE UNCHANGED Ga!vars
  <2>1. there' = there /\ row' = row /\ blobs' = blobs /\ taken' = taken /\ op' = op
        /\ missed' = missed /\ raced' = raced
    BY <1>1 DEF Ga!vars, Ga!stored
  <2>2. GaShape'
    BY <2>1 DEF GaInv, GaShape
  <2>3. Ga!BlobsMatchRows'
    BY <2>1 DEF GaInv, Ga!BlobsMatchRows, Ga!InProgress
  <2>4. Ga!LimitPlusRaces'
    BY <2>1 DEF GaInv, Ga!LimitPlusRaces, Ga!ImagesOf, Ga!Adding
  <2>5. GaOrders'
    BY <2>1 DEF GaInv, GaOrders, Ga!ImagesOf
  <2>6. \A s \in Slots : GaPart(s)'
    BY <2>1 DEF GaInv, GaPart
  <2> QED BY <2>2, <2>3, <2>4, <2>5, <2>6 DEF GaInv
<1>2. CASE \E s \in Slots, g \in Posts, i \in Images : Ga!addImage(s, g, i)
  BY <1>2, GaAddImage
<1>3. CASE \E s \in Slots, g \in Albums, S \in SUBSET Images : Ga!publishAlbum(s, g, S)
  BY <1>3, GaPublishAlbum
<1>4. CASE \E s \in Slots, i \in Images : Ga!removeImage(s, i)
  BY <1>4, GaRemoveImage
<1>5. CASE \E s \in Slots, g \in Ga!Galleries : Ga!removeGallery(s, g) \/ Ga!reorderImages(s, g)
  BY <1>5, GaRemoveGallery, GaReorder
<1>6. CASE \E s \in Slots : \/ Ga!upload(s) \/ Ga!aggregate(s) \/ Ga!createImage(s) \/ Ga!rollback(s)
                            \/ Ga!uploadAll(s) \/ Ga!createAlbum(s) \/ Ga!deleteUploaded(s)
                            \/ Ga!deleteBlobs(s) \/ Ga!deleteRow(s) \/ Ga!setPositions(s)
  BY <1>6, GaUpload, GaAggregate, GaCreateImage, GaRollback, GaUploadAll, GaCreateAlbum,
     GaDeleteBlobs, GaDeleteRow, GaSetPositions
<1>7. CASE Ga!crash
  BY <1>7, GaCrash
<1> QED BY <1>1, <1>2, <1>3, <1>4, <1>5, <1>6, <1>7 DEF Ga!Next

\* The properties of the galleries follow from their invariant.
LEMMA GaFollows ==
  GaInv => Ga!TypeOK /\ Ga!BlobsMatchRows /\ Ga!LimitPlusRaces /\ Ga!PositionsDistinct
<1> SUFFICES ASSUME GaInv PROVE Ga!TypeOK /\ Ga!PositionsDistinct
  BY DEF GaInv
<1>1. Ga!PositionsDistinct
  BY DEF GaInv, GaOrders, Ga!PositionsDistinct
<1>2. \A i \in Images : row[i].of \in there \cup {None} /\ row[i].order \in Nat
  BY DEF GaInv, GaShape, GaRow
<1>3. \A s \in Slots : /\ op[s].images \subseteq Images
                       /\ op[s].at \in {"idle", "upload", "max", "insert", "rollback", "publish",
                                        "unlink", "blobs", "row", "reorder"}
  BY DEF GaInv, GaShape, GaStep
<1> QED BY <1>1, <1>2, <1>3 DEF GaInv, GaShape, Ga!TypeOK

-----------------------------------------------------------------------------
\* What is assumed of the constants of the consents.
LEMMA CsA == Cs!ConsentAssumption
BY TalkAssumption

-----------------------------------------------------------------------------
(* Consents. *)

CsUser == [Cs!Fields -> BOOLEAN]
CsLinks == [status : {"ACTIVE", "REVOKED"}, account : Accounts, token : Cs!Tokens]
CsSyncs == [at : {"refresh", "persist", "mark", "tops"}, token : Cs!Tokens]

CsShape ==
  /\ consent \in CsUser /\ logged \in CsUser
  /\ revoked \in BOOLEAN /\ located \in BOOLEAN /\ overlapped \in BOOLEAN
  /\ lost \in BOOLEAN /\ since \in BOOLEAN
  /\ link \in {Cs!NoLink} \cup CsLinks /\ sync \in {Cs!Idle} \cup CsSyncs
  /\ snapshot \in Accounts \cup {None} /\ valid \subseteq Cs!Tokens /\ issued \in 0..MaxTokens
  /\ slips \subseteq {"location", "taste"} /\ removed \subseteq Accounts
  /\ requests \in 0..Requests["consent"] /\ faults \in 0..MaxFaults
  /\ DOMAIN op = Slots

\* What a request carries.
CsForm(s) ==
  /\ op[s].at = "patch" => op[s].old \in CsUser /\ op[s].body \in Cs!Bodies
  /\ op[s].at = "revoke" => op[s].old \in CsUser
  /\ op[s].at = "derived" => op[s].old \in CsUser /\ op[s].granted \in BOOLEAN
  /\ op[s].at = "derive" => op[s].granted \in BOOLEAN
  /\ op[s].at = "tops" => op[s].account \in Accounts
  /\ op[s].at = "upsert" => op[s].token \in Cs!Tokens

CsTrail == ~overlapped => logged = consent

\* A location that nothing covers is about to be cleared.
CsPlace ==
  located /\ "location" \notin slips =>
    (~revoked /\ consent["location"]) \/ \E s \in Slots : op[s].at = "clear"

\* A withdrawal has cleared before it writes.
CsPlaced(s) ==
  op[s].at = "patch" /\ "location" \in DOMAIN op[s].body /\ ~op[s].body["location"]
    => ~located \/ "location" \in slips

CsTaste ==
  "taste" \notin slips =>
    /\ snapshot # None => link # Cs!NoLink
    /\ revoked /\ link # Cs!NoLink /\ ~since => \E s \in Slots : op[s].at \in {"clear", "forget"}

\* A token that waits to be stored is live, and nobody else's.
CsPending(s) ==
  op[s].at = "upsert" =>
    /\ op[s].token.serial <= issued
    /\ op[s].token \in valid \/ op[s].token.account \in removed
    /\ link # Cs!NoLink => link.token # op[s].token
    /\ sync # Cs!Idle => sync.token # op[s].token
    /\ \A t \in Slots \ {s} : op[t].at = "upsert" => op[t].token # op[s].token

CsKept ==
  /\ link # Cs!NoLink => link.token.serial <= issued
  /\ sync # Cs!Idle => sync.token.serial <= issued
  /\ sync.at = "persist" => sync.token \in valid \/ sync.token.account \in removed
  /\ link.status = "ACTIVE" /\ ~lost /\ sync.at # "persist"
       => link.token \in valid \/ link.token.account \in removed

CsTokens == CsKept /\ \A s \in Slots : CsPending(s)
CsCover == CsPlace /\ (\A s \in Slots : CsPlaced(s)) /\ CsTaste

CsInv == CsShape /\ CsTrail /\ CsCover /\ CsTokens /\ \A s \in Slots : CsForm(s)

CsSame(s) == \A u \in Slots \ {s} : op'[u] = op[u]

\* No link, a request at rest, and the bounds.
LEMMA CsNull ==
  /\ Cs!NoLink.status = "none" /\ Cs!Idle.at = "idle" /\ Cs!NoLink \notin CsLinks
     /\ Cs!Idle \notin CsSyncs
  /\ Requests["consent"] \in Nat /\ MaxTokens \in Nat /\ MaxFaults \in Nat
  /\ \A k \in CsLinks : k.status # "none" /\ k # Cs!NoLink /\ k.token \in Cs!Tokens
     /\ k.account \in Accounts
  /\ \A y \in CsSyncs : y.at # "idle" /\ y # Cs!Idle /\ y.token \in Cs!Tokens
  /\ \A t \in Cs!Tokens : t.account \in Accounts /\ t.serial \in 1..MaxTokens
<1>1. Cs!NoLink.status = "none" /\ Cs!Idle.at = "idle"
  BY DEF Cs!NoLink, Cs!Idle
<1>2. \A k \in CsLinks : k.status # "none" /\ k.token \in Cs!Tokens /\ k.account \in Accounts
  BY DEF CsLinks
<1>3. \A y \in CsSyncs : y.at # "idle" /\ y.token \in Cs!Tokens
  BY DEF CsSyncs
<1>4. \A t \in Cs!Tokens : t.account \in Accounts /\ t.serial \in 1..MaxTokens
  BY DEF Cs!Tokens
<1> QED BY <1>1, <1>2, <1>3, <1>4, CsA DEF Cs!ConsentAssumption

\* What a body of a PATCH says.
LEMMA CsBody ==
  ASSUME NEW b \in Cs!Bodies
  PROVE  DOMAIN b \subseteq Cs!Patched /\ \A f \in DOMAIN b : b[f] \in BOOLEAN
<1>1. PICK S \in SUBSET Cs!Patched : b \in [S -> BOOLEAN]
  BY DEF Cs!Bodies
<1> QED BY <1>1

-----------------------------------------------------------------------------
(* What the steps have in common. *)

\* A request goes on and the others stay.
LEMMA CsGoes ==
  ASSUME CsInv, NEW s \in Slots, NEW to, Cs!Goes(s, to)
  PROVE  op'[s] = to /\ CsSame(s) /\ DOMAIN op' = Slots /\ requests' \in 0..Requests["consent"]
BY DEF Cs!Goes, CsSame, CsInv, CsShape

\* A request begins and the others stay.
LEMMA CsStarts ==
  ASSUME CsInv, NEW s \in Slots, NEW to, Cs!Starts(s, to)
  PROVE  /\ op[s] = Cs!Idle /\ op'[s] = to /\ CsSame(s) /\ DOMAIN op' = Slots
         /\ requests' \in 0..Requests["consent"]
<1>1. requests \in 0..Requests["consent"] /\ DOMAIN op = Slots
  BY DEF CsInv, CsShape
<1> QED BY <1>1, CsNull DEF Cs!Starts, CsSame

\* Requests that stay have the form they had.
LEMMA CsForms ==
  ASSUME CsInv, NEW s \in Slots, CsSame(s), CsForm(s)'
  PROVE  \A u \in Slots : CsForm(u)'
<1> SUFFICES ASSUME NEW u \in Slots \ {s} PROVE CsForm(u)'
  OBVIOUS
<1>1. CsForm(u) /\ op'[u] = op[u]
  BY DEF CsInv, CsSame
<1> QED BY <1>1 DEF CsForm

\* A step that leaves the consents alone, and stores no location.
LEMMA CsPlaceStays ==
  ASSUME CsInv, NEW s \in Slots, CsSame(s), UNCHANGED <<revoked, consent>>,
         located' => located, slips \subseteq slips',
         op'[s].at # "patch",
         op[s].at = "clear" => ~located' \/ "location" \in slips'
  PROVE  CsPlace' /\ \A u \in Slots : CsPlaced(u)'
<1>1. CsPlace'
  <2> SUFFICES ASSUME located', "location" \notin slips', ~(~revoked /\ consent["location"])
               PROVE  \E u \in Slots : op'[u].at = "clear"
    BY DEF CsPlace
  <2>1. PICK u \in Slots : op[u].at = "clear"
    BY DEF CsInv, CsCover, CsPlace
  <2>2. u # s
    BY <2>1
  <2> QED BY <2>1, <2>2 DEF CsSame
<1>2. ASSUME NEW u \in Slots PROVE CsPlaced(u)'
  <2>1. CASE u = s
    BY <2>1 DEF CsPlaced
  <2>2. CASE u # s
    <3>1. CsPlaced(u) /\ op'[u] = op[u]
      BY <2>2 DEF CsInv, CsCover, CsSame
    <3> QED BY <3>1 DEF CsPlaced
  <2> QED BY <2>1, <2>2
<1> QED BY <1>1, <1>2

\* The promise to forget the taste stays when nothing is linked.
LEMMA CsTasteStays ==
  ASSUME CsInv, NEW s \in Slots, CsSame(s), revoked' => revoked, since' = since,
         slips \subseteq slips', UNCHANGED <<link, snapshot>>,
         \/ op[s].at \notin {"clear", "forget"}
         \/ op'[s].at \in {"clear", "forget"}
         \/ "taste" \in slips'
  PROVE  CsTaste'
<1> SUFFICES ASSUME "taste" \notin slips'
             PROVE  /\ snapshot # None => link # Cs!NoLink
                    /\ revoked /\ link # Cs!NoLink /\ ~since
                         => \E u \in Slots : op'[u].at \in {"clear", "forget"}
  BY DEF CsTaste
<1>1. snapshot # None => link # Cs!NoLink
  BY DEF CsInv, CsCover, CsTaste
<1>2. ASSUME revoked, link # Cs!NoLink, ~since
      PROVE  \E u \in Slots : op'[u].at \in {"clear", "forget"}
  <2>1. PICK u \in Slots : op[u].at \in {"clear", "forget"}
    BY <1>2 DEF CsInv, CsCover, CsTaste
  <2> QED BY <2>1 DEF CsSame
<1> QED BY <1>1, <1>2

\* A step that changes no token, but may drop the link.
LEMMA CsTokensStay ==
  ASSUME CsInv, NEW s \in Slots, CsSame(s), op'[s].at # "upsert",
         link' = link \/ link' = Cs!NoLink, UNCHANGED <<valid, issued, removed, lost, sync>>
  PROVE  CsTokens'
<1>1. CsKept'
  BY CsNull DEF CsInv, CsTokens, CsKept
<1>2. ASSUME NEW u \in Slots PROVE CsPending(u)'
  <2>1. CASE u = s
    BY <2>1 DEF CsPending
  <2>2. CASE u # s
    <3>1. CsPending(u) /\ op'[u] = op[u]
      BY <2>2 DEF CsInv, CsTokens, CsSame
    <3>2. \A t \in Slots \ {u} : op'[t].at = "upsert" => op[t] = op'[t]
      BY DEF CsSame
    <3> QED BY <3>1, <3>2 DEF CsPending
  <2> QED BY <2>1, <2>2
<1> QED BY <1>1, <1>2 DEF CsTokens

\* Writing fields of the consents logs each that changes.
LEMMA CsWrites ==
  ASSUME CsInv, NEW old \in CsUser, NEW new, DOMAIN new \subseteq Cs!Fields,
         \A f \in DOMAIN new : new[f] \in BOOLEAN, Cs!Writes(old, new)
  PROVE  /\ consent' \in CsUser /\ logged' \in CsUser /\ overlapped' \in BOOLEAN /\ CsTrail'
         /\ \A f \in Cs!Fields : consent'[f] = IF f \in DOMAIN new THEN new[f] ELSE consent[f]
<1>1. /\ consent \in CsUser /\ logged \in CsUser /\ overlapped \in BOOLEAN
      /\ ~overlapped => logged = consent
  BY DEF CsInv, CsShape, CsTrail
<1>2. /\ consent' = [f \in Cs!Fields |-> IF f \in DOMAIN new THEN new[f] ELSE consent[f]]
      /\ logged' = [f \in Cs!Fields |-> IF f \in Cs!Changed(old, new) THEN new[f] ELSE logged[f]]
      /\ overlapped' = (overlapped \/ \E f \in DOMAIN new : consent[f] # old[f])
  BY DEF Cs!Writes
<1>3. \A f : f \in Cs!Changed(old, new) <=> f \in DOMAIN new /\ old[f] # new[f]
  BY DEF Cs!Changed
<1>4. consent' \in CsUser
  BY <1>1, <1>2 DEF CsUser
<1>5. logged' \in CsUser
  BY <1>1, <1>2, <1>3 DEF CsUser
<1>6. overlapped' \in BOOLEAN
  BY <1>2
<1>7. CsTrail'
  <2> SUFFICES ASSUME ~overlapped' PROVE logged' = consent'
    BY DEF CsTrail
  <2>1. logged = consent /\ \A f \in DOMAIN new : consent[f] = old[f]
    BY <1>1, <1>2
  <2>2. \A f \in Cs!Fields : (IF f \in Cs!Changed(old, new) THEN new[f] ELSE logged[f])
                            = (IF f \in DOMAIN new THEN new[f] ELSE consent[f])
    BY <1>3, <2>1
  <2> QED BY <1>2, <2>2
<1> QED BY <1>2, <1>4, <1>5, <1>6, <1>7

\* Clearing the location, which may fail.
LEMMA CsClears ==
  ASSUME CsInv, Cs!clearUserLocation
  PROVE  /\ located' \in BOOLEAN /\ slips' \subseteq {"location", "taste"} /\ faults' \in 0..MaxFaults
         /\ slips \subseteq slips' /\ (located' => located)
         /\ ~located' \/ "location" \in slips'
         /\ "taste" \in slips' => "taste" \in slips
<1>1. faults \in 0..MaxFaults /\ located \in BOOLEAN /\ slips \subseteq {"location", "taste"}
  BY DEF CsInv, CsShape
<1>2. CASE located' = FALSE /\ UNCHANGED <<slips, faults>>
  BY <1>1, <1>2
<1>3. CASE faults < MaxFaults /\ faults' = faults + 1 /\ slips' = slips \cup {"location"}
           /\ UNCHANGED located
  BY <1>1, <1>3, CsNull
<1> QED BY <1>2, <1>3 DEF Cs!clearUserLocation, Cs!Erases

\* Only the consents, the location and the requests move.
LEMMA CsCovered ==
  ASSUME CsInv, NEW s \in Slots, CsSame(s), DOMAIN op' = Slots, CsForm(s)', op'[s].at # "upsert",
         consent' \in CsUser, logged' \in CsUser, overlapped' \in BOOLEAN, CsTrail',
         revoked' \in BOOLEAN, located' \in BOOLEAN, slips' \subseteq {"location", "taste"},
         since' \in BOOLEAN, requests' \in 0..Requests["consent"], faults' \in 0..MaxFaults,
         CsCover', UNCHANGED <<link, snapshot, valid, issued, removed, lost, sync>>
  PROVE  CsInv'
<1>1. CsShape'
  BY DEF CsInv, CsShape
<1>2. CsTokens'
  BY CsTokensStay
<1>3. \A u \in Slots : CsForm(u)'
  BY CsForms
<1> QED BY <1>1, <1>2, <1>3 DEF CsInv

-----------------------------------------------------------------------------
(* The consents and the location. *)

\* updateConsent begins: the row is read.
LEMMA CsPatch ==
  ASSUME CsInv, NEW s \in Slots, NEW body \in Cs!Bodies, Cs!updateConsent(s, body)
  PROVE  CsInv'
<1> DEFINE to == IF Cs!Changed(consent, body) = {} THEN Cs!Idle
                 ELSE [at |-> "patch", old |-> consent, body |-> body]
<1>1. /\ Cs!Starts(s, to)
      /\ IF Cs!TurnsOff(body) THEN Cs!clearUserLocation ELSE UNCHANGED <<located, slips, faults>>
      /\ UNCHANGED <<Cs!saved, Cs!spotify, sync>>
  BY DEF Cs!updateConsent
<1>2. to = Cs!Idle \/ (to.at = "patch" /\ to.old = consent /\ to.body = body)
  OBVIOUS
<1> HIDE DEF to
<1>3. /\ op[s] = Cs!Idle /\ op'[s] = to /\ CsSame(s) /\ DOMAIN op' = Slots
      /\ requests' \in 0..Requests["consent"]
  BY <1>1, CsStarts
<1>4. /\ located' \in BOOLEAN /\ slips' \subseteq {"location", "taste"} /\ faults' \in 0..MaxFaults
      /\ slips \subseteq slips' /\ (located' => located)
      /\ Cs!TurnsOff(body) => ~located' \/ "location" \in slips'
  <2>1. CASE Cs!TurnsOff(body)
    BY <1>1, <2>1, CsClears
  <2>2. CASE ~Cs!TurnsOff(body)
    BY <1>1, <2>2 DEF CsInv, CsShape
  <2> QED BY <2>1, <2>2
<1>5. CsForm(s)' /\ op'[s].at # "upsert" /\ op'[s].at # "clear" /\ op[s].at = "idle"
  BY <1>2, <1>3, CsNull DEF CsForm, CsInv, CsShape
<1>6. /\ consent' \in CsUser /\ logged' \in CsUser /\ overlapped' \in BOOLEAN /\ CsTrail'
      /\ revoked' \in BOOLEAN /\ since' \in BOOLEAN
      /\ UNCHANGED <<consent, revoked, since, link, snapshot, valid, issued, removed, lost, sync>>
  BY <1>1 DEF Cs!saved, Cs!spotify, CsInv, CsShape, CsTrail
<1>7. CsPlace'
  <2> SUFFICES ASSUME located', "location" \notin slips', ~(~revoked /\ consent["location"])
               PROVE  \E u \in Slots : op'[u].at = "clear"
    BY <1>6 DEF CsPlace
  <2>1. PICK u \in Slots : op[u].at = "clear"
    BY <1>4 DEF CsInv, CsCover, CsPlace
  <2> QED BY <1>3, <1>5, <2>1 DEF CsSame
<1>8. ASSUME NEW u \in Slots PROVE CsPlaced(u)'
  <2>1. CASE u = s
    <3>1. CASE to = Cs!Idle
      BY <1>3, <2>1, <3>1, CsNull DEF CsPlaced
    <3>2. CASE to.body = body
      BY <1>3, <1>4, <2>1, <3>2 DEF CsPlaced, Cs!TurnsOff
    <3> QED BY <1>2, <3>1, <3>2
  <2>2. CASE u # s
    <3>1. CsPlaced(u) /\ op'[u] = op[u]
      BY <1>3, <2>2 DEF CsInv, CsCover, CsSame
    <3> QED BY <1>4, <3>1 DEF CsPlaced
  <2> QED BY <2>1, <2>2
<1>9. CsTaste'
  BY <1>3, <1>4, <1>5, <1>6, CsTasteStays
<1> QED BY <1>3, <1>4, <1>5, <1>6, <1>7, <1>8, <1>9, CsCovered DEF CsCover

\* The transaction of a PATCH, with its audit rows.
LEMMA CsPatched ==
  ASSUME CsInv, NEW s \in Slots, Cs!updateConsentFields(s)
  PROVE  CsInv'
<1> DEFINE body == op[s].body
           old == op[s].old
<1>1. /\ op[s].at = "patch" /\ Cs!Goes(s, Cs!Idle) /\ Cs!Writes(old, body)
      /\ revoked' = (revoked /\ Cs!Changed(old, body) \cap Cs!Strict \cap {f \in DOMAIN body : body[f]} = {})
      /\ UNCHANGED <<located, Cs!spotify, sync, faults, slips>>
  BY DEF Cs!updateConsentFields
<1>2. old \in CsUser /\ body \in Cs!Bodies
  BY <1>1 DEF CsInv, CsForm
<1>3. DOMAIN body \subseteq Cs!Patched /\ \A f \in DOMAIN body : body[f] \in BOOLEAN
  BY <1>2, CsBody
<1>4. Cs!Patched \subseteq Cs!Fields /\ "location" \in Cs!Fields
  BY DEF Cs!Patched, Cs!Fields
<1>5. CsPlaced(s)
  BY DEF CsInv, CsCover
<1>50. "location" \in DOMAIN body /\ ~body["location"] => ~located \/ "location" \in slips
  BY <1>1, <1>5 DEF CsPlaced
<1> HIDE DEF body, old
<1>6. /\ consent' \in CsUser /\ logged' \in CsUser /\ overlapped' \in BOOLEAN /\ CsTrail'
      /\ consent'["location"] = IF "location" \in DOMAIN body THEN body["location"] ELSE consent["location"]
  <2>1. DOMAIN body \subseteq Cs!Fields
    BY <1>3, <1>4
  <2> QED BY <1>1, <1>2, <1>3, <1>4, <2>1, CsWrites
<1>7. op'[s] = Cs!Idle /\ CsSame(s) /\ DOMAIN op' = Slots /\ requests' \in 0..Requests["consent"]
  BY <1>1, CsGoes
<1>8. revoked' \in BOOLEAN /\ (revoked' => revoked) /\ located' = located /\ slips' = slips
      /\ faults' = faults
  BY <1>1 DEF CsInv, CsShape
<1>9. UNCHANGED <<since, link, snapshot, valid, issued, removed, lost, sync>>
  BY <1>1 DEF Cs!spotify
<1>10. CsPlace'
  <2> SUFFICES ASSUME located, "location" \notin slips, \A u \in Slots : op'[u].at # "clear"
               PROVE  ~revoked' /\ consent'["location"]
    BY <1>8 DEF CsPlace
  <2>1. \A u \in Slots : op[u].at # "clear"
    BY <1>1, <1>7 DEF CsSame
  <2>2. ~revoked /\ consent["location"]
    BY <2>1 DEF CsInv, CsCover, CsPlace
  <2>3. "location" \in DOMAIN body => body["location"]
    BY <1>50
  <2> QED BY <1>6, <1>8, <2>2, <2>3
<1>11. ASSUME NEW u \in Slots PROVE CsPlaced(u)'
  <2>1. CASE u = s
    BY <1>7, <2>1, CsNull DEF CsPlaced
  <2>2. CASE u # s
    <3>1. CsPlaced(u) /\ op'[u] = op[u]
      BY <1>7, <2>2 DEF CsInv, CsCover, CsSame
    <3> QED BY <1>8, <3>1 DEF CsPlaced
  <2> QED BY <2>1, <2>2
<1>12. CsTaste'
  BY <1>1, <1>7, <1>8, <1>9, CsTasteStays
<1>13. CsForm(s)' /\ op'[s].at # "upsert"
  BY <1>7, CsNull DEF CsForm
<1>14. /\ located' \in BOOLEAN /\ slips' \subseteq {"location", "taste"} /\ since' \in BOOLEAN
       /\ faults' \in 0..MaxFaults
  BY <1>8, <1>9 DEF CsInv, CsShape
<1> QED BY <1>6, <1>7, <1>8, <1>9, <1>10, <1>11, <1>12, <1>13, <1>14, CsCovered DEF CsCover

\* Requests that read, and go on to what they read for.
LEMMA CsReads ==
  ASSUME CsInv, NEW s \in Slots,
         \/ Cs!revokeAllConsents(s) \/ Cs!setDerivedConsent(s) \/ Cs!setUserLocation(s)
         \/ Cs!unlinkSpotifyAccount(s)
  PROVE  CsInv'
<1>1. \E to : /\ Cs!Starts(s, to) \/ (op[s].at = "derive" /\ Cs!Goes(s, to))
              /\ \/ to = Cs!Idle
                 \/ to.at = "revoke" /\ to.old = consent
                 \/ to.at = "derived" /\ to.old = consent /\ to.granted \in BOOLEAN
                 \/ to.at \in {"store", "unlink"}
  <2>1. CASE Cs!revokeAllConsents(s)
    BY <2>1 DEF Cs!revokeAllConsents
  <2>2. CASE Cs!setDerivedConsent(s)
    <3>1. op[s].granted \in BOOLEAN /\ op[s].at = "derive"
      BY <2>2 DEF Cs!setDerivedConsent, CsInv, CsForm
    <3> QED BY <2>2, <3>1 DEF Cs!setDerivedConsent
  <2>3. CASE Cs!setUserLocation(s)
    BY <2>3 DEF Cs!setUserLocation
  <2>4. CASE Cs!unlinkSpotifyAccount(s)
    BY <2>4 DEF Cs!unlinkSpotifyAccount
  <2> QED BY <2>1, <2>2, <2>3, <2>4
<1>2. UNCHANGED <<Cs!saved, located, Cs!spotify, sync, faults, slips>>
  BY DEF Cs!revokeAllConsents, Cs!setDerivedConsent, Cs!setUserLocation, Cs!unlinkSpotifyAccount
<1>3. PICK to : /\ Cs!Starts(s, to) \/ (op[s].at = "derive" /\ Cs!Goes(s, to))
                /\ \/ to = Cs!Idle
                   \/ to.at = "revoke" /\ to.old = consent
                   \/ to.at = "derived" /\ to.old = consent /\ to.granted \in BOOLEAN
                   \/ to.at \in {"store", "unlink"}
  BY <1>1
<1>4. /\ op[s] = Cs!Idle \/ op[s].at = "derive"
      /\ op'[s] = to /\ CsSame(s) /\ DOMAIN op' = Slots /\ requests' \in 0..Requests["consent"]
  BY <1>3, CsStarts, CsGoes
<1>5. CsForm(s)' /\ op'[s].at # "upsert" /\ op'[s].at # "patch"
      /\ op[s].at \notin {"clear", "forget"}
  BY <1>3, <1>4, CsNull DEF CsForm, CsInv, CsShape
<1>6. /\ consent' \in CsUser /\ logged' \in CsUser /\ overlapped' \in BOOLEAN /\ CsTrail'
      /\ revoked' \in BOOLEAN /\ since' \in BOOLEAN /\ located' \in BOOLEAN
      /\ slips' \subseteq {"location", "taste"} /\ faults' \in 0..MaxFaults
      /\ UNCHANGED <<consent, revoked, since, located, slips, link, snapshot, valid, issued, removed,
                     lost, sync>>
  BY <1>2 DEF Cs!saved, Cs!spotify, CsInv, CsShape, CsTrail
<1>7. CsPlace' /\ \A u \in Slots : CsPlaced(u)'
  BY <1>4, <1>5, <1>6, CsPlaceStays
<1>8. CsTaste'
  BY <1>4, <1>5, <1>6, CsTasteStays
<1> QED BY <1>4, <1>5, <1>6, <1>7, <1>8, CsCovered DEF CsCover

\* The transaction of a revocation, with its audit rows.
LEMMA CsRevoke ==
  ASSUME CsInv, NEW s \in Slots, Cs!revokeConsentWithAudit(s)
  PROVE  CsInv'
<1> DEFINE to == [at |-> "clear"]
<1>1. /\ op[s].at = "revoke" /\ Cs!Goes(s, to) /\ Cs!Writes(op[s].old, Cs!AllFalse)
      /\ revoked' = TRUE /\ since' = FALSE
      /\ UNCHANGED <<located, link, snapshot, valid, issued, removed, lost, sync, faults, slips>>
  BY DEF Cs!revokeConsentWithAudit
<1>2. to.at = "clear"
  OBVIOUS
<1> HIDE DEF to
<1>3. op[s].old \in CsUser /\ DOMAIN Cs!AllFalse \subseteq Cs!Fields
      /\ \A f \in DOMAIN Cs!AllFalse : Cs!AllFalse[f] \in BOOLEAN
  BY <1>1 DEF CsInv, CsForm, Cs!AllFalse
<1>4. consent' \in CsUser /\ logged' \in CsUser /\ overlapped' \in BOOLEAN /\ CsTrail'
  BY <1>1, <1>3, CsWrites
<1>5. op'[s] = to /\ CsSame(s) /\ DOMAIN op' = Slots /\ requests' \in 0..Requests["consent"]
  BY <1>1, CsGoes
<1>6. CsPlace' /\ CsForm(s)' /\ op'[s].at = "clear"
  BY <1>2, <1>5 DEF CsPlace, CsForm
<1>7. ASSUME NEW u \in Slots PROVE CsPlaced(u)'
  <2>1. CASE u = s
    BY <1>6, <2>1 DEF CsPlaced
  <2>2. CASE u # s
    <3>1. CsPlaced(u) /\ op'[u] = op[u]
      BY <1>5, <2>2 DEF CsInv, CsCover, CsSame
    <3> QED BY <1>1, <3>1 DEF CsPlaced
  <2> QED BY <2>1, <2>2
<1>8. CsTaste'
  BY <1>1, <1>6 DEF CsInv, CsCover, CsTaste
<1>9. /\ revoked' \in BOOLEAN /\ located' \in BOOLEAN /\ slips' \subseteq {"location", "taste"}
      /\ since' \in BOOLEAN /\ faults' \in 0..MaxFaults
  BY <1>1 DEF CsInv, CsShape
<1> QED BY <1>1, <1>4, <1>5, <1>6, <1>7, <1>8, <1>9, CsCovered DEF CsCover

\* The location is cleared after a withdrawal.
LEMMA CsClear ==
  ASSUME CsInv, NEW s \in Slots, Cs!clearLocationOnRevoke(s)
  PROVE  CsInv'
<1> DEFINE to == [at |-> "forget"]
<1>1. /\ op[s].at = "clear" /\ Cs!Goes(s, to) /\ Cs!clearUserLocation
         /\ UNCHANGED <<Cs!saved, Cs!spotify, sync>>
  BY DEF Cs!clearLocationOnRevoke
<1>2. to.at = "forget"
  OBVIOUS
<1> HIDE DEF to
<1>3. op'[s] = to /\ CsSame(s) /\ DOMAIN op' = Slots /\ requests' \in 0..Requests["consent"]
  BY <1>1, CsGoes
<1>4. /\ located' \in BOOLEAN /\ slips' \subseteq {"location", "taste"} /\ faults' \in 0..MaxFaults
      /\ slips \subseteq slips' /\ (located' => located) /\ (~located' \/ "location" \in slips')
  BY <1>1, CsClears
<1>5. CsForm(s)' /\ op'[s].at = "forget"
  BY <1>2, <1>3 DEF CsForm
<1>6. /\ consent' \in CsUser /\ logged' \in CsUser /\ overlapped' \in BOOLEAN /\ CsTrail'
      /\ revoked' \in BOOLEAN /\ since' \in BOOLEAN
      /\ UNCHANGED <<consent, revoked, since, link, snapshot, valid, issued, removed, lost, sync>>
  BY <1>1 DEF Cs!saved, Cs!spotify, CsInv, CsShape, CsTrail
<1>7. CsPlace' /\ \A u \in Slots : CsPlaced(u)'
  BY <1>3, <1>4, <1>5, <1>6, CsPlaceStays
<1>8. CsTaste'
  BY <1>3, <1>4, <1>5, <1>6, CsTasteStays
<1> QED BY <1>3, <1>4, <1>5, <1>6, <1>7, <1>8, CsCovered DEF CsCover

\* A consent that mirrors the phone or the link is written.
LEMMA CsDerived ==
  ASSUME CsInv, NEW s \in Slots, Cs!setDerivedConsentField(s)
  PROVE  CsInv'
<1> DEFINE new == [f \in {"spotify"} |-> op[s].granted]
<1>1. /\ op[s].at = "derived" /\ Cs!Goes(s, Cs!Idle) /\ Cs!Writes(op[s].old, new)
      /\ UNCHANGED <<revoked, located, Cs!spotify, sync, faults, slips>>
  BY DEF Cs!setDerivedConsentField
<1>2. op[s].old \in CsUser /\ op[s].granted \in BOOLEAN
  BY <1>1 DEF CsInv, CsForm
<1>3. DOMAIN new = {"spotify"} /\ \A f \in DOMAIN new : new[f] \in BOOLEAN
  BY <1>2
<1> HIDE DEF new
<1>30. DOMAIN new \subseteq Cs!Fields /\ "location" \in Cs!Fields /\ "location" \notin DOMAIN new
  BY <1>3 DEF Cs!Fields
<1>4. /\ consent' \in CsUser /\ logged' \in CsUser /\ overlapped' \in BOOLEAN /\ CsTrail'
      /\ consent'["location"] = consent["location"]
  BY <1>1, <1>2, <1>3, <1>30, CsWrites
<1>5. op'[s] = Cs!Idle /\ CsSame(s) /\ DOMAIN op' = Slots /\ requests' \in 0..Requests["consent"]
  BY <1>1, CsGoes
<1>6. /\ revoked' \in BOOLEAN /\ since' \in BOOLEAN /\ located' \in BOOLEAN
      /\ slips' \subseteq {"location", "taste"} /\ faults' \in 0..MaxFaults
      /\ UNCHANGED <<revoked, since, located, slips, link, snapshot, valid, issued, removed, lost, sync>>
  BY <1>1 DEF Cs!spotify, CsInv, CsShape
<1>7. CsPlace'
  <2>1. \A u \in Slots : op[u].at = "clear" => op'[u].at = "clear"
    BY <1>1, <1>5 DEF CsSame
  <2> QED BY <1>4, <1>6, <2>1 DEF CsInv, CsCover, CsPlace
<1>8. ASSUME NEW u \in Slots PROVE CsPlaced(u)'
  <2>1. CASE u = s
    BY <1>5, <2>1, CsNull DEF CsPlaced
  <2>2. CASE u # s
    <3>1. CsPlaced(u) /\ op'[u] = op[u]
      BY <1>5, <2>2 DEF CsInv, CsCover, CsSame
    <3> QED BY <1>6, <3>1 DEF CsPlaced
  <2> QED BY <2>1, <2>2
<1>9. CsTaste'
  BY <1>1, <1>5, <1>6, CsTasteStays
<1>10. CsForm(s)' /\ op'[s].at # "upsert"
  BY <1>5, CsNull DEF CsForm
<1> QED BY <1>4, <1>5, <1>6, <1>7, <1>8, <1>9, <1>10, CsCovered DEF CsCover

\* A location is stored when the row allows it.
LEMMA CsStore ==
  ASSUME CsInv, NEW s \in Slots, Cs!updateUserLocation(s)
  PROVE  CsInv'
<1>1. /\ op[s].at = "store" /\ Cs!Goes(s, Cs!Idle) /\ located' = TRUE
      /\ UNCHANGED <<Cs!saved, Cs!spotify, sync, faults>>
      /\ slips' = IF \/ ~Cs!hasConsent("location")
                     \/ \E t \in Slots : op[t].at = "patch" /\ Cs!TurnsOff(op[t].body)
                  THEN slips \cup {"location"} ELSE slips
  BY DEF Cs!updateUserLocation
<1>2. op'[s] = Cs!Idle /\ CsSame(s) /\ DOMAIN op' = Slots /\ requests' \in 0..Requests["consent"]
  BY <1>1, CsGoes
<1>3. /\ consent' \in CsUser /\ logged' \in CsUser /\ overlapped' \in BOOLEAN /\ CsTrail'
      /\ revoked' \in BOOLEAN /\ since' \in BOOLEAN /\ faults' \in 0..MaxFaults
         /\ located' \in BOOLEAN
      /\ UNCHANGED <<consent, revoked, since, link, snapshot, valid, issued, removed, lost, sync>>
  BY <1>1 DEF Cs!saved, Cs!spotify, CsInv, CsShape, CsTrail
<1>4. slips' \subseteq {"location", "taste"} /\ slips \subseteq slips'
  BY <1>1 DEF CsInv, CsShape
<1>5. CsPlace'
  BY <1>1, <1>3 DEF CsPlace, Cs!hasConsent
<1>6. ASSUME NEW u \in Slots PROVE CsPlaced(u)'
  <2>1. CASE u = s
    BY <1>2, <2>1, CsNull DEF CsPlaced
  <2>2. CASE u # s
    <3>1. op'[u] = op[u]
      BY <1>2, <2>2 DEF CsSame
    <3> QED BY <1>1, <3>1 DEF CsPlaced, Cs!TurnsOff
  <2> QED BY <2>1, <2>2
<1>7. CsTaste'
  BY <1>1, <1>2, <1>3, <1>4, CsTasteStays
<1>8. CsForm(s)' /\ op'[s].at # "upsert"
  BY <1>2, CsNull DEF CsForm
<1> QED BY <1>2, <1>3, <1>4, <1>5, <1>6, <1>7, <1>8, CsCovered DEF CsCover

\* The job clears the locations that nobody agreed to keep.
LEMMA CsStale ==
  ASSUME CsInv, Cs!clearStaleUserLocations
  PROVE  CsInv'
<1>1. located' = FALSE /\ UNCHANGED <<Cs!saved, Cs!spotify, op, sync, requests, faults, slips>>
  BY DEF Cs!clearStaleUserLocations
<1>2. CsShape'
  BY <1>1 DEF Cs!saved, Cs!spotify, CsInv, CsShape
<1>3. CsTrail' /\ CsCover'
  BY <1>1 DEF Cs!saved, Cs!spotify, CsInv, CsTrail, CsCover, CsPlace, CsPlaced, CsTaste
<1>4. CsTokens' /\ \A s \in Slots : CsForm(s)'
  BY <1>1 DEF Cs!saved, Cs!spotify, CsInv, CsTokens, CsKept, CsPending, CsForm
<1> QED BY <1>2, <1>3, <1>4 DEF CsInv

-----------------------------------------------------------------------------
(* The link. *)

\* The consents stay, whatever happens to the link.
LEMMA CsLinked ==
  ASSUME CsInv, NEW s \in Slots, CsSame(s), DOMAIN op' = Slots, CsForm(s)',
         op'[s].at # "patch", op[s].at # "clear",
         UNCHANGED <<Cs!saved, located>>, slips \subseteq slips', slips' \subseteq {"location", "taste"},
         link' \in {Cs!NoLink} \cup CsLinks, snapshot' \in Accounts \cup {None}, since' \in BOOLEAN,
         valid' \subseteq Cs!Tokens, issued' \in 0..MaxTokens, removed' = removed, lost' = lost,
         sync' = sync, requests' \in 0..Requests["consent"], faults' \in 0..MaxFaults,
         CsTaste', CsTokens'
  PROVE  CsInv'
<1>1. CsShape' /\ CsTrail'
  BY DEF Cs!saved, CsInv, CsShape, CsTrail
<1>2. CsPlace' /\ \A u \in Slots : CsPlaced(u)'
  BY CsPlaceStays DEF Cs!saved
<1>3. \A u \in Slots : CsForm(u)'
  BY CsForms
<1> QED BY <1>1, <1>2, <1>3 DEF CsInv, CsCover

\* The link is deleted after a withdrawal.
LEMMA CsForget ==
  ASSUME CsInv, NEW s \in Slots, Cs!deleteSpotifyLinkOnRevoke(s)
  PROVE  CsInv'
<1>1. /\ op[s].at = "forget" /\ Cs!Goes(s, Cs!Idle)
      /\ UNCHANGED <<Cs!saved, located, valid, issued, removed, lost, since, sync>>
      /\ \/ link' = Cs!NoLink /\ snapshot' = None /\ UNCHANGED <<slips, faults>>
         \/ /\ faults < MaxFaults /\ faults' = faults + 1 /\ slips' = slips \cup {"taste"}
            /\ UNCHANGED <<link, snapshot>>
  BY DEF Cs!deleteSpotifyLinkOnRevoke, Cs!Erases, Cs!DeletesLink
<1>2. op'[s] = Cs!Idle /\ CsSame(s) /\ DOMAIN op' = Slots /\ requests' \in 0..Requests["consent"]
  BY <1>1, CsGoes
<1>3. /\ slips \subseteq slips' /\ slips' \subseteq {"location", "taste"}
         /\ faults' \in 0..MaxFaults
      /\ link' \in {Cs!NoLink} \cup CsLinks /\ snapshot' \in Accounts \cup {None}
  <2>1. faults \in 0..MaxFaults
    BY DEF CsInv, CsShape
  <2>2. faults' \in 0..MaxFaults
    BY <1>1, <2>1, CsNull
  <2> QED BY <1>1, <2>2 DEF CsInv, CsShape
<1>4. since' \in BOOLEAN /\ valid' \subseteq Cs!Tokens /\ issued' \in 0..MaxTokens
  BY <1>1 DEF CsInv, CsShape
<1>5. CsTaste'
  BY <1>1 DEF CsTaste
<1>6. CsForm(s)' /\ op'[s].at = "idle"
  BY <1>2, CsNull DEF CsForm
<1>7. CsTokens'
  BY <1>1, <1>2, <1>6, CsTokensStay
<1> QED BY <1>1, <1>2, <1>3, <1>4, <1>5, <1>6, <1>7, CsLinked

\* The link and the snapshot are deleted together.
LEMMA CsUnlink ==
  ASSUME CsInv, NEW s \in Slots, Cs!deleteLinkAndSnapshot(s)
  PROVE  CsInv'
<1> DEFINE to == [at |-> "derive", granted |-> FALSE]
<1>1. /\ op[s].at = "unlink" /\ Cs!Goes(s, to) /\ link' = Cs!NoLink /\ snapshot' = None
      /\ UNCHANGED <<Cs!saved, located, valid, issued, removed, lost, since, sync, faults, slips>>
  BY DEF Cs!deleteLinkAndSnapshot, Cs!DeletesLink
<1>2. to.at = "derive" /\ to.granted \in BOOLEAN
  OBVIOUS
<1> HIDE DEF to
<1>3. op'[s] = to /\ CsSame(s) /\ DOMAIN op' = Slots /\ requests' \in 0..Requests["consent"]
  BY <1>1, CsGoes
<1>4. /\ slips \subseteq slips' /\ slips' \subseteq {"location", "taste"}
         /\ faults' \in 0..MaxFaults
      /\ link' \in {Cs!NoLink} \cup CsLinks /\ snapshot' \in Accounts \cup {None}
      /\ since' \in BOOLEAN /\ valid' \subseteq Cs!Tokens /\ issued' \in 0..MaxTokens
  BY <1>1 DEF CsInv, CsShape
<1>5. CsTaste'
  BY <1>1 DEF CsTaste
<1>6. CsForm(s)' /\ op'[s].at = "derive"
  BY <1>2, <1>3 DEF CsForm
<1>7. CsTokens'
  BY <1>1, <1>3, <1>6, CsTokensStay
<1> QED BY <1>1, <1>3, <1>4, <1>5, <1>6, <1>7, CsLinked

\* A token that was never issued.
LEMMA CsIssue ==
  ASSUME CsInv, NEW a \in Accounts, issued < MaxTokens
  PROVE  /\ Cs!Issue(a) \in Cs!Tokens /\ Cs!Issue(a).serial = issued + 1 /\ Cs!Issue(a).account = a
         /\ issued + 1 \in 0..MaxTokens /\ issued \in Nat
         /\ \A t \in Cs!Tokens : t.serial <= issued => t # Cs!Issue(a) /\ t.serial <= issued + 1
<1>1. issued \in 0..MaxTokens
  BY DEF CsInv, CsShape
<1>2. issued + 1 \in 1..MaxTokens /\ issued + 1 \in 0..MaxTokens /\ issued \in Nat
  BY <1>1, CsNull
<1>3. Cs!Issue(a) \in Cs!Tokens /\ Cs!Issue(a).serial = issued + 1 /\ Cs!Issue(a).account = a
  BY <1>2 DEF Cs!Issue, Cs!Tokens
<1>4. ASSUME NEW t \in Cs!Tokens, t.serial <= issued PROVE t # Cs!Issue(a) /\ t.serial <= issued + 1
  <2>1. t.serial \in Nat
    BY CsNull
  <2>2. t.serial <= issued + 1 /\ t.serial # issued + 1
    BY <1>2, <1>4, <2>1
  <2> QED BY <1>3, <2>2
<1> QED BY <1>2, <1>3, <1>4

\* The user links an account.
LEMMA CsLink ==
  ASSUME CsInv, NEW s \in Slots, NEW a \in Accounts, Cs!linkSpotifyAccount(s, a)
  PROVE  CsInv'
<1> DEFINE new == Cs!Issue(a)
           to == [at |-> "upsert", token |-> new]
<1>1. /\ issued < MaxTokens /\ Cs!Starts(s, to) /\ issued' = issued + 1 /\ valid' = valid \cup {new}
      /\ UNCHANGED <<Cs!saved, located, link, snapshot, removed, lost, since, sync, faults, slips>>
  BY DEF Cs!linkSpotifyAccount
<1>2. to.at = "upsert" /\ to.token = new
  OBVIOUS
<1>3. /\ new \in Cs!Tokens /\ new.serial = issued + 1 /\ new.account = a
      /\ issued' \in 0..MaxTokens /\ issued \in Nat
      /\ \A t \in Cs!Tokens : t.serial <= issued => t # new /\ t.serial <= issued'
  BY <1>1, CsIssue
<1> HIDE DEF new, to
<1>4. op[s] = Cs!Idle /\ op'[s] = to /\ CsSame(s) /\ DOMAIN op' = Slots
      /\ requests' \in 0..Requests["consent"]
  BY <1>1, CsStarts
<1>5. /\ slips \subseteq slips' /\ slips' \subseteq {"location", "taste"}
         /\ faults' \in 0..MaxFaults
      /\ link' \in {Cs!NoLink} \cup CsLinks /\ snapshot' \in Accounts \cup {None}
      /\ since' \in BOOLEAN /\ valid' \subseteq Cs!Tokens
  BY <1>1, <1>3 DEF CsInv, CsShape
<1>6. CsForm(s)' /\ op'[s].at = "upsert" /\ op[s].at = "idle"
  BY <1>2, <1>3, <1>4, CsNull DEF CsForm
<1>7. CsTaste'
  BY <1>1, <1>4, <1>6, CsTasteStays DEF Cs!saved
<1>8. (link # Cs!NoLink => link.token \in Cs!Tokens) /\ (sync # Cs!Idle => sync.token \in Cs!Tokens)
  BY CsNull DEF CsInv, CsShape
<1>9. CsKept'
  BY <1>1, <1>3, <1>8 DEF CsInv, CsTokens, CsKept
<1>10. ASSUME NEW u \in Slots PROVE CsPending(u)'
  <2>1. CASE u = s
    <3>1. op'[s].token = new /\ new \in valid' /\ new.serial <= issued'
      BY <1>1, <1>2, <1>3, <1>4
    <3>2. (link # Cs!NoLink => link.token # new) /\ (sync # Cs!Idle => sync.token # new)
      BY <1>3, <1>8 DEF CsInv, CsTokens, CsKept
    <3>3. \A t \in Slots \ {s} : op'[t].at = "upsert" => op'[t].token # new
      <4> SUFFICES ASSUME NEW t \in Slots \ {s}, op'[t].at = "upsert" PROVE op'[t].token # new
        OBVIOUS
      <4>1. op'[t] = op[t] /\ CsPending(t) /\ CsForm(t)
        BY <1>4 DEF CsSame, CsInv, CsTokens
      <4>2. op[t].token \in Cs!Tokens /\ op[t].token.serial <= issued
        BY <4>1 DEF CsPending, CsForm
      <4> QED BY <1>3, <4>1, <4>2
    <3> QED BY <1>1, <2>1, <3>1, <3>2, <3>3 DEF CsPending
  <2>2. CASE u # s
    <3>1. CsPending(u) /\ CsForm(u) /\ op'[u] = op[u]
      BY <1>4, <2>2 DEF CsInv, CsTokens, CsSame
    <3> SUFFICES ASSUME op[u].at = "upsert" PROVE CsPending(u)'
      BY <3>1 DEF CsPending
    <3>2. op[u].token \in Cs!Tokens /\ op[u].token.serial <= issued
      BY <3>1 DEF CsPending, CsForm
    <3>3. op[u].token # new /\ op[u].token.serial <= issued'
      BY <1>3, <3>2
    <3>4. \A t \in Slots \ {u} : op'[t].at = "upsert" => op'[t].token # op[u].token
      <4> SUFFICES ASSUME NEW t \in Slots \ {u}, op'[t].at = "upsert" PROVE op'[t].token # op[u].token
        OBVIOUS
      <4>1. CASE t = s
        BY <1>2, <1>4, <3>3, <4>1
      <4>2. CASE t # s
        <5>1. op'[t] = op[t]
          BY <1>4, <4>2 DEF CsSame
        <5> QED BY <3>1, <5>1 DEF CsPending
      <4> QED BY <4>1, <4>2
    <3> QED BY <1>1, <3>1, <3>3, <3>4 DEF CsPending
  <2> QED BY <2>1, <2>2
<1>11. CsTokens'
  BY <1>9, <1>10 DEF CsTokens
<1> QED BY <1>1, <1>3, <1>4, <1>5, <1>6, <1>7, <1>11, CsLinked

\* The link and its token are stored.
LEMMA CsUpsert ==
  ASSUME CsInv, NEW s \in Slots, Cs!upsertLink(s)
  PROVE  CsInv'
<1> DEFINE tk == op[s].token
           to == [at |-> "tops", account |-> tk.account]
           new == [status |-> "ACTIVE", account |-> tk.account, token |-> tk]
<1>1. /\ op[s].at = "upsert" /\ Cs!Goes(s, to) /\ link' = new /\ since' = TRUE
      /\ UNCHANGED <<Cs!saved, located, snapshot, valid, issued, removed, lost, sync, faults, slips>>
  BY DEF Cs!upsertLink
<1>2. CsPending(s) /\ tk \in Cs!Tokens /\ tk.account \in Accounts
  BY <1>1, CsNull DEF CsInv, CsTokens, CsForm
<1>20. /\ tk.serial <= issued /\ (tk \in valid \/ tk.account \in removed)
       /\ (sync # Cs!Idle => sync.token # tk)
       /\ \A t \in Slots \ {s} : op[t].at = "upsert" => op[t].token # tk
  BY <1>1, <1>2 DEF CsPending
<1> HIDE DEF tk
<1>3. to.at = "tops" /\ to.account \in Accounts /\ new \in CsLinks /\ new.token = tk
  BY <1>2 DEF CsLinks
<1> HIDE DEF to, new
<1>30. new # Cs!NoLink
  BY <1>3, CsNull
<1>4. op'[s] = to /\ CsSame(s) /\ DOMAIN op' = Slots /\ requests' \in 0..Requests["consent"]
  BY <1>1, CsGoes
<1>5. /\ slips \subseteq slips' /\ slips' \subseteq {"location", "taste"}
         /\ faults' \in 0..MaxFaults
      /\ link' \in {Cs!NoLink} \cup CsLinks /\ snapshot' \in Accounts \cup {None}
      /\ since' \in BOOLEAN /\ valid' \subseteq Cs!Tokens /\ issued' \in 0..MaxTokens
  BY <1>1, <1>3 DEF CsInv, CsShape
<1>6. CsForm(s)' /\ op'[s].at = "tops"
  BY <1>3, <1>4 DEF CsForm
<1>7. CsTaste'
  BY <1>1, <1>30 DEF CsTaste
<1>8. CsKept'
  BY <1>1, <1>20, <1>3 DEF CsInv, CsTokens, CsKept
<1>9. ASSUME NEW u \in Slots PROVE CsPending(u)'
  <2>1. CASE u = s
    BY <1>6, <2>1 DEF CsPending
  <2>2. CASE u # s
    <3>1. CsPending(u) /\ op'[u] = op[u]
      BY <1>4, <2>2 DEF CsInv, CsTokens, CsSame
    <3>2. op[u].at = "upsert" => op[u].token # tk
      BY <1>20, <2>2
    <3>3. \A t \in Slots \ {u} : op'[t].at = "upsert" => op[t] = op'[t]
      BY <1>4, <1>6 DEF CsSame
    <3> QED BY <1>1, <1>3, <3>1, <3>2, <3>3 DEF CsPending
  <2> QED BY <2>1, <2>2
<1>10. CsTokens'
  BY <1>8, <1>9 DEF CsTokens
<1> QED BY <1>1, <1>4, <1>5, <1>6, <1>7, <1>10, CsLinked

\* A taste stored beside no link is a slip.
LEMMA CsTasted ==
  ASSUME CsInv, NEW a \in Accounts, Cs!Tastes(a), UNCHANGED <<revoked, link, since>>
  PROVE  /\ snapshot' \in Accounts \cup {None} /\ slips \subseteq slips'
         /\ slips' \subseteq {"location", "taste"}
         /\ "taste" \notin slips' => link # Cs!NoLink /\ (revoked /\ ~since
              => \E s \in Slots : op[s].at \in {"clear", "forget"})
         /\ "location" \in slips' => "location" \in slips
BY DEF Cs!Tastes, CsInv, CsShape, CsCover, CsTaste

\* The first snapshot is taken with the new token.
LEMMA CsTops ==
  ASSUME CsInv, NEW s \in Slots, Cs!syncTasteWithToken(s)
  PROVE  CsInv'
<1> DEFINE to == IF link = Cs!NoLink THEN Cs!Idle ELSE [at |-> "derive", granted |-> TRUE]
<1>1. /\ op[s].at = "tops" /\ Cs!Goes(s, to) /\ Cs!Tastes(op[s].account)
      /\ UNCHANGED <<Cs!saved, located, link, valid, issued, removed, lost, since, sync, faults>>
  BY DEF Cs!syncTasteWithToken
<1>2. to = Cs!Idle \/ (to.at = "derive" /\ to.granted \in BOOLEAN)
  OBVIOUS
<1> HIDE DEF to
<1>3. op'[s] = to /\ CsSame(s) /\ DOMAIN op' = Slots /\ requests' \in 0..Requests["consent"]
  BY <1>1, CsGoes
<1>4. op[s].account \in Accounts /\ UNCHANGED <<revoked, link, since>>
  BY <1>1 DEF Cs!saved, CsInv, CsForm
<1>5. /\ snapshot' \in Accounts \cup {None} /\ slips \subseteq slips'
      /\ slips' \subseteq {"location", "taste"}
      /\ "taste" \notin slips' => link # Cs!NoLink /\ (revoked /\ ~since
           => \E u \in Slots : op[u].at \in {"clear", "forget"})
  BY <1>1, <1>4, CsTasted
<1>6. /\ faults' \in 0..MaxFaults /\ link' \in {Cs!NoLink} \cup CsLinks
      /\ since' \in BOOLEAN /\ valid' \subseteq Cs!Tokens /\ issued' \in 0..MaxTokens
  BY <1>1 DEF CsInv, CsShape
<1>7. CsForm(s)' /\ op'[s].at \in {"idle", "derive"}
  BY <1>2, <1>3, CsNull DEF CsForm
<1>8. CsTaste'
  <2>1. \A u \in Slots : op[u].at \in {"clear", "forget"} => op'[u].at \in {"clear", "forget"}
    BY <1>1, <1>3 DEF CsSame
  <2> QED BY <1>4, <1>5, <2>1 DEF CsTaste
<1>9. CsTokens'
  BY <1>1, <1>3, <1>7, CsTokensStay
<1> QED BY <1>1, <1>3, <1>5, <1>6, <1>7, <1>8, <1>9, CsLinked

\* A request fails at its next call.
LEMMA CsFail ==
  ASSUME CsInv, NEW s \in Slots, Cs!failRequest(s)
  PROVE  CsInv'
<1>1. /\ faults < MaxFaults /\ faults' = faults + 1 /\ Cs!Goes(s, Cs!Idle)
      /\ slips' = slips \cup (CASE op[s].at = "clear" -> {"location", "taste"}
                                [] op[s].at = "forget" -> {"taste"}
                                [] OTHER -> {})
      /\ UNCHANGED <<Cs!saved, located, Cs!spotify, sync>>
  BY DEF Cs!failRequest
<1>2. op'[s] = Cs!Idle /\ CsSame(s) /\ DOMAIN op' = Slots /\ requests' \in 0..Requests["consent"]
  BY <1>1, CsGoes
<1>3. /\ slips \subseteq slips' /\ slips' \subseteq {"location", "taste"}
      /\ op[s].at = "clear" => "location" \in slips'
      /\ op[s].at \in {"clear", "forget"} => "taste" \in slips'
  <2>1. CASE op[s].at = "clear"
    BY <1>1, <2>1 DEF CsInv, CsShape
  <2>2. CASE op[s].at = "forget"
    BY <1>1, <2>2 DEF CsInv, CsShape
  <2>3. CASE op[s].at \notin {"clear", "forget"}
    BY <1>1, <2>3 DEF CsInv, CsShape
  <2> QED BY <2>1, <2>2, <2>3
<1>4. faults' \in 0..MaxFaults
  <2>1. faults \in 0..MaxFaults
    BY DEF CsInv, CsShape
  <2> QED BY <1>1, <2>1, CsNull
<1>5. CsForm(s)' /\ op'[s].at = "idle"
  BY <1>2, CsNull DEF CsForm
<1>6. /\ consent' \in CsUser /\ logged' \in CsUser /\ overlapped' \in BOOLEAN /\ CsTrail'
      /\ revoked' \in BOOLEAN /\ since' \in BOOLEAN /\ located' \in BOOLEAN
      /\ UNCHANGED <<consent, revoked, located, since, link, snapshot, valid, issued, removed, lost, sync>>
  BY <1>1 DEF Cs!saved, Cs!spotify, CsInv, CsShape, CsTrail
<1>7. CsPlace' /\ \A u \in Slots : CsPlaced(u)'
  BY <1>2, <1>3, <1>5, <1>6, CsPlaceStays
<1>8. CsTaste'
  BY <1>2, <1>3, <1>6, CsTasteStays
<1> QED BY <1>2, <1>3, <1>4, <1>5, <1>6, <1>7, <1>8, CsCovered DEF CsCover

-----------------------------------------------------------------------------
(* Spotify and the reconciler: no request moves. *)

\* What no step of the reconciler touches.
LEMMA CsApart ==
  ASSUME CsInv, UNCHANGED <<Cs!saved, located, op, requests, since>>,
         link' \in {Cs!NoLink} \cup CsLinks, link' = Cs!NoLink <=> link = Cs!NoLink,
         sync' \in {Cs!Idle} \cup CsSyncs, valid' \subseteq Cs!Tokens, issued' \in 0..MaxTokens,
         snapshot' \in Accounts \cup {None}, removed' \subseteq Accounts, lost' \in BOOLEAN,
         slips \subseteq slips', slips' \subseteq {"location", "taste"}, faults' \in 0..MaxFaults,
         snapshot' = snapshot \/ "taste" \in slips' \/ link # Cs!NoLink,
         CsTokens'
  PROVE  CsInv'
<1>1. CsShape' /\ CsTrail'
  BY DEF Cs!saved, CsInv, CsShape, CsTrail
<1>2. CsPlace' /\ \A u \in Slots : CsPlaced(u)' /\ CsForm(u)'
  BY DEF Cs!saved, CsInv, CsCover, CsPlace, CsPlaced, CsForm
<1>3. CsTaste'
  BY DEF Cs!saved, CsInv, CsCover, CsTaste
<1> QED BY <1>1, <1>2, <1>3 DEF CsInv, CsCover

\* The user removes the app at Spotify.
LEMMA CsRemove ==
  ASSUME CsInv, NEW a \in Accounts, Cs!removeApp(a)
  PROVE  CsInv'
<1>1. /\ removed' = removed \cup {a} /\ valid' = {t \in valid : t.account # a}
      /\ UNCHANGED <<Cs!saved, located, link, snapshot, issued, lost, since, op, sync, requests,
                     faults, slips>>
  BY DEF Cs!removeApp
<1>2. \A t : t \in valid \/ t.account \in removed => t \in valid' \/ t.account \in removed'
  BY <1>1
<1>3. CsTokens'
  <2>1. CsKept'
    BY <1>1, <1>2 DEF CsInv, CsTokens, CsKept
  <2>2. ASSUME NEW u \in Slots PROVE CsPending(u)'
    <3>1. CsPending(u)
      BY DEF CsInv, CsTokens
    <3> QED BY <1>1, <1>2, <3>1 DEF CsPending
  <2> QED BY <2>1, <2>2 DEF CsTokens
<1>4. /\ link' \in {Cs!NoLink} \cup CsLinks /\ sync' \in {Cs!Idle} \cup CsSyncs
      /\ valid' \subseteq Cs!Tokens /\ issued' \in 0..MaxTokens /\ removed' \subseteq Accounts
      /\ snapshot' \in Accounts \cup {None} /\ lost' \in BOOLEAN
      /\ slips' \subseteq {"location", "taste"} /\ faults' \in 0..MaxFaults
  BY <1>1 DEF CsInv, CsShape
<1> QED BY <1>1, <1>3, <1>4, CsApart

\* A step of the reconciler moves no request.
LEMMA CsQuiet ==
  ASSUME CsInv, Cs!Quiet
  PROVE  UNCHANGED <<Cs!saved, located, op, requests, removed, since>>
         /\ removed' \subseteq Accounts
BY DEF Cs!Quiet, CsInv, CsShape

\* The reconciler reads a link.
LEMMA CsFind ==
  ASSUME CsInv, Cs!findLinksDueForSync
  PROVE  CsInv'
<1> DEFINE new == [at |-> "refresh", token |-> link.token]
<1>1. /\ sync = Cs!Idle /\ link.status = "ACTIVE" /\ sync' = new /\ Cs!Quiet
      /\ UNCHANGED <<link, snapshot, valid, issued, lost, faults, slips>>
  BY DEF Cs!findLinksDueForSync
<1>2. link # Cs!NoLink /\ link.token \in Cs!Tokens
  <2>1. link # Cs!NoLink
    BY <1>1, CsNull
  <2> QED BY <2>1, CsNull DEF CsInv, CsShape
<1>3. new \in CsSyncs /\ new.token = link.token /\ new.at = "refresh"
  BY <1>2 DEF CsSyncs
<1> HIDE DEF new
<1>4. CsTokens'
  <2>1. CsKept'
    BY <1>1, <1>2, <1>3, CsQuiet, CsNull DEF CsInv, CsTokens, CsKept
  <2>2. ASSUME NEW u \in Slots PROVE CsPending(u)'
    <3>1. CsPending(u)
      BY DEF CsInv, CsTokens
    <3> QED BY <1>1, <1>2, <1>3, <3>1, CsQuiet DEF CsPending
  <2> QED BY <2>1, <2>2 DEF CsTokens
<1>5. /\ link' \in {Cs!NoLink} \cup CsLinks /\ sync' \in {Cs!Idle} \cup CsSyncs
      /\ valid' \subseteq Cs!Tokens /\ issued' \in 0..MaxTokens
      /\ snapshot' \in Accounts \cup {None} /\ lost' \in BOOLEAN
      /\ slips' \subseteq {"location", "taste"} /\ faults' \in 0..MaxFaults
  BY <1>1, <1>3 DEF CsInv, CsShape
<1> QED BY <1>1, <1>4, <1>5, CsApart, CsQuiet

\* The sync knows a token at every step.
LEMMA CsSync ==
  ASSUME CsInv, sync.at # "idle"
  PROVE  sync \in CsSyncs /\ sync # Cs!Idle /\ sync.token \in Cs!Tokens
         /\ sync.token.account \in Accounts
BY CsNull DEF CsInv, CsShape

\* The reconciler goes on with the token it has, or ends.
LEMMA CsOn ==
  ASSUME CsInv, Cs!Quiet, sync \in CsSyncs, UNCHANGED <<valid, issued>>,
         sync' = Cs!Idle \/ (sync' \in CsSyncs /\ sync'.token = sync.token /\ sync'.at # "persist"),
         lost' \in BOOLEAN, lost => lost',
         sync.at = "persist" => link' = Cs!NoLink \/ link'.token = sync.token \/ lost',
         link' = link \/ (/\ link' \in CsLinks /\ link \in CsLinks
                          /\ link'.token \in {link.token, sync.token}
                          /\ link'.status = "ACTIVE" => link.status = "ACTIVE"
                          /\ link'.token = sync.token => sync.at = "persist" \/ link.token = sync.token)
  PROVE  CsTokens'
<1>1. sync # Cs!Idle /\ sync'.at # "persist" /\ UNCHANGED <<removed, op>>
  BY CsNull, CsQuiet
<1>2. /\ link # Cs!NoLink => link.token.serial <= issued
      /\ sync.token.serial <= issued
      /\ sync.at = "persist" => sync.token \in valid \/ sync.token.account \in removed
      /\ link.status = "ACTIVE" /\ ~lost /\ sync.at # "persist"
           => link.token \in valid \/ link.token.account \in removed
  BY <1>1 DEF CsInv, CsTokens, CsKept
<1>3. link' # Cs!NoLink => link # Cs!NoLink
  BY CsNull
<1>4. link' # Cs!NoLink => link'.token \in {link.token, sync.token}
  OBVIOUS
<1>5. CsKept'
  <2>1. link' # Cs!NoLink => link'.token.serial <= issued'
    BY <1>2, <1>3, <1>4
  <2>2. sync' # Cs!Idle => sync'.token.serial <= issued'
    BY <1>2
  <2>3. ASSUME link'.status = "ACTIVE", ~lost' PROVE link'.token \in valid' \/ link'.token.account \in removed'
    <3>1. link' # Cs!NoLink /\ ~lost /\ link.status = "ACTIVE"
      BY <2>3, CsNull
    <3>2. CASE sync.at = "persist"
      BY <1>1, <1>2, <2>3, <3>1, <3>2
    <3>3. CASE sync.at # "persist"
      <4>1. link'.token = link.token
        BY <3>3, <1>4, <3>1
      <4> QED BY <1>1, <1>2, <3>1, <3>3, <4>1
    <3> QED BY <3>2, <3>3
  <2> QED BY <1>1, <2>1, <2>2, <2>3 DEF CsKept
<1>6. ASSUME NEW u \in Slots PROVE CsPending(u)'
  <2>1. CsPending(u)
    BY DEF CsInv, CsTokens
  <2>2. op[u].at = "upsert" => /\ (link # Cs!NoLink => link.token # op[u].token)
                               /\ sync.token # op[u].token
    BY <1>1, <2>1 DEF CsPending
  <2> QED BY <1>1, <1>3, <1>4, <2>1, <2>2 DEF CsPending
<1> QED BY <1>5, <1>6 DEF CsTokens

\* Spotify rotates the token.
LEMMA CsRefresh ==
  ASSUME CsInv, Cs!refreshAccessToken
  PROVE  CsInv'
<1> DEFINE tk == sync.token
<1>1. sync.at = "refresh" /\ Cs!Quiet /\ UNCHANGED <<link, snapshot, lost, faults, slips>>
  BY DEF Cs!refreshAccessToken
<1>2. sync \in CsSyncs /\ sync # Cs!Idle /\ tk \in Cs!Tokens /\ tk.account \in Accounts
  BY <1>1, CsSync
<1>3. /\ link' \in {Cs!NoLink} \cup CsLinks
      /\ snapshot' \in Accounts \cup {None} /\ lost' \in BOOLEAN
      /\ slips' \subseteq {"location", "taste"} /\ faults' \in 0..MaxFaults
      /\ valid \subseteq Cs!Tokens /\ issued \in 0..MaxTokens
  BY <1>1 DEF CsInv, CsShape
<1>4. CASE (sync' = [sync EXCEPT !.at = "mark"] \/ sync' = Cs!AfterRefresh(tk))
           /\ UNCHANGED <<valid, issued>>
  <2>1. sync' \in CsSyncs /\ sync'.token = tk /\ sync'.at # "persist"
    BY <1>2, <1>4 DEF Cs!AfterRefresh, CsSyncs
  <2>2. CsTokens'
    BY <1>1, <1>2, <1>3, <1>4, <2>1, CsOn
  <2>3. valid' \subseteq Cs!Tokens /\ issued' \in 0..MaxTokens
    BY <1>3, <1>4
  <2> QED BY <1>1, <1>3, <2>1, <2>2, <2>3, CsApart, CsQuiet
<1>5. CASE /\ tk \in valid /\ issued < MaxTokens /\ issued' = issued + 1
           /\ valid' = (valid \ {tk}) \cup {Cs!Issue(tk.account)}
           /\ sync' = Cs!AfterRefresh(Cs!Issue(tk.account))
  <2> DEFINE new == Cs!Issue(tk.account)
  <2>1. /\ new \in Cs!Tokens /\ new.serial = issued + 1 /\ issued' \in 0..MaxTokens
           /\ issued \in Nat
        /\ \A t \in Cs!Tokens : t.serial <= issued => t # new /\ t.serial <= issued'
    BY <1>2, <1>5, CsIssue
  <2> HIDE DEF new
  <2>2. tk.serial <= issued
    BY <1>2 DEF CsInv, CsTokens, CsKept
  <2>3. new # tk
    BY <1>2, <2>1, <2>2
  <2>4. sync' \in CsSyncs /\ sync'.token = new /\ sync'.at = "persist"
    <3>1. sync' = [at |-> IF new = sync.token THEN "tops" ELSE "persist", token |-> new]
      BY <1>5 DEF new, Cs!AfterRefresh
    <3> QED BY <2>1, <2>3, <3>1 DEF CsSyncs
  <2>5. new \in valid' /\ \A t : t \in valid /\ t # tk => t \in valid'
    BY <1>5 DEF new
  <2>6. link # Cs!NoLink => link.token \in Cs!Tokens
    BY CsNull DEF CsInv, CsShape
  <2>7. CsKept'
    <3>1. link # Cs!NoLink => link.token.serial <= issued'
      BY <2>1, <2>6 DEF CsInv, CsTokens, CsKept
    <3>2. new.serial <= issued'
      BY <1>5, <2>1
    <3> QED BY <1>1, <2>4, <2>5, <3>1, <3>2 DEF CsKept
  <2>8. ASSUME NEW u \in Slots PROVE CsPending(u)'
    <3>1. CsPending(u) /\ CsForm(u) /\ op' = op /\ removed' = removed
      BY <1>1, CsQuiet DEF CsInv, CsTokens
    <3> SUFFICES ASSUME op[u].at = "upsert" PROVE CsPending(u)'
      BY <3>1 DEF CsPending
    <3>2. op[u].token \in Cs!Tokens /\ op[u].token.serial <= issued /\ op[u].token # tk
      BY <1>2, <3>1 DEF CsPending, CsForm
    <3>3. op[u].token # new /\ op[u].token.serial <= issued'
      BY <2>1, <3>2
    <3>4. op[u].token \in valid' \/ op[u].token.account \in removed'
      BY <2>5, <3>1, <3>2 DEF CsPending
    <3> QED BY <1>1, <2>4, <3>1, <3>3, <3>4 DEF CsPending
  <2>9. CsTokens'
    BY <2>7, <2>8 DEF CsTokens
  <2>10. valid' \subseteq Cs!Tokens
    BY <1>3, <1>5, <2>1 DEF new
  <2> QED BY <1>1, <1>3, <2>1, <2>4, <2>9, <2>10, CsApart, CsQuiet
<1> QED BY <1>4, <1>5 DEF Cs!refreshAccessToken

\* The rotated token is stored, if the link is still the one read.
LEMMA CsPersist ==
  ASSUME CsInv, Cs!updateLinkTokens
  PROVE  CsInv'
<1>1. /\ sync.at = "persist" /\ Cs!Quiet
         /\ UNCHANGED <<snapshot, valid, issued, lost, faults, slips>>
      /\ IF link = Cs!NoLink THEN sync' = Cs!Idle /\ UNCHANGED link
         ELSE /\ link' = [link EXCEPT !.token = sync.token]
              /\ sync' = [sync EXCEPT !.at = "tops"]
  BY DEF Cs!updateLinkTokens
<1>2. sync \in CsSyncs /\ sync # Cs!Idle /\ sync.token \in Cs!Tokens
  BY <1>1, CsSync
<1>3. /\ snapshot' \in Accounts \cup {None} /\ lost' \in BOOLEAN
      /\ slips' \subseteq {"location", "taste"} /\ faults' \in 0..MaxFaults
      /\ valid' \subseteq Cs!Tokens /\ issued' \in 0..MaxTokens
  BY <1>1 DEF CsInv, CsShape
<1>4. CASE link = Cs!NoLink
  <2>1. CsTokens'
    BY <1>1, <1>2, <1>3, <1>4, CsOn
  <2>2. link' \in {Cs!NoLink} \cup CsLinks /\ link' = link /\ sync' \in {Cs!Idle} \cup CsSyncs
    BY <1>1, <1>4
  <2> QED BY <1>1, <1>3, <2>1, <2>2, CsApart, CsQuiet
<1>5. CASE link # Cs!NoLink
  <2>1. link \in CsLinks
    BY <1>5 DEF CsInv, CsShape
  <2>2. link' \in CsLinks /\ link'.token = sync.token /\ link'.status = link.status
    BY <1>1, <1>2, <1>5, <2>1 DEF CsLinks
  <2>3. sync' \in CsSyncs /\ sync'.token = sync.token /\ sync'.at = "tops"
    BY <1>1, <1>2, <1>5 DEF CsSyncs
  <2>4. CsTokens'
    BY <1>1, <1>2, <1>3, <2>1, <2>2, <2>3, CsOn
  <2>5. link' # Cs!NoLink
    BY <2>2, CsNull
  <2> QED BY <1>1, <1>3, <1>5, <2>2, <2>3, <2>4, <2>5, CsApart, CsQuiet
<1> QED BY <1>4, <1>5

\* A link that Spotify refused is marked.
LEMMA CsMark ==
  ASSUME CsInv, Cs!markLinkRevoked
  PROVE  CsInv'
<1>1. /\ sync.at = "mark" /\ sync' = Cs!Idle /\ Cs!Quiet
      /\ link' = IF link = Cs!NoLink THEN link ELSE [link EXCEPT !.status = "REVOKED"]
      /\ UNCHANGED <<snapshot, valid, issued, lost, faults, slips>>
  BY DEF Cs!markLinkRevoked
<1>2. sync \in CsSyncs /\ sync # Cs!Idle
  BY <1>1, CsSync
<1>3. /\ snapshot' \in Accounts \cup {None} /\ lost' \in BOOLEAN
      /\ slips' \subseteq {"location", "taste"} /\ faults' \in 0..MaxFaults
      /\ valid' \subseteq Cs!Tokens /\ issued' \in 0..MaxTokens
  BY <1>1 DEF CsInv, CsShape
<1>4. \/ link' = link /\ link = Cs!NoLink
      \/ /\ link' \in CsLinks /\ link \in CsLinks /\ link'.token = link.token
         /\ link'.status = "REVOKED" /\ link # Cs!NoLink
  <2>1. CASE link = Cs!NoLink
    BY <1>1, <2>1
  <2>2. CASE link # Cs!NoLink
    <3>1. link \in CsLinks
      BY <2>2 DEF CsInv, CsShape
    <3> QED BY <1>1, <2>2, <3>1 DEF CsLinks
  <2> QED BY <2>1, <2>2
<1>5. CsTokens'
  BY <1>1, <1>2, <1>3, <1>4, CsOn
<1>6. link' \in {Cs!NoLink} \cup CsLinks /\ (link' = Cs!NoLink <=> link = Cs!NoLink)
  BY <1>4, CsNull
<1> QED BY <1>1, <1>3, <1>5, <1>6, CsApart, CsQuiet

\* The snapshot of a link is refreshed.
LEMMA CsSynced ==
  ASSUME CsInv, Cs!syncTasteForLink
  PROVE  CsInv'
<1>1. /\ sync.at = "tops" /\ sync' = Cs!Idle /\ Cs!Tastes(sync.token.account) /\ Cs!Quiet
      /\ UNCHANGED <<link, valid, issued, lost, faults>>
  BY DEF Cs!syncTasteForLink
<1>2. sync \in CsSyncs /\ sync.token.account \in Accounts
  BY <1>1, CsSync
<1>3. UNCHANGED <<revoked, link, since>>
  BY <1>1, CsQuiet DEF Cs!saved
<1>4. /\ snapshot' \in Accounts \cup {None} /\ slips \subseteq slips'
      /\ slips' \subseteq {"location", "taste"} /\ ("taste" \notin slips' => link # Cs!NoLink)
  BY <1>1, <1>2, <1>3, CsTasted
<1>5. /\ lost' \in BOOLEAN /\ faults' \in 0..MaxFaults /\ link' \in {Cs!NoLink} \cup CsLinks
      /\ valid' \subseteq Cs!Tokens /\ issued' \in 0..MaxTokens
  BY <1>1 DEF CsInv, CsShape
<1>6. CsTokens'
  BY <1>1, <1>2, <1>5, CsOn
<1> QED BY <1>1, <1>4, <1>5, <1>6, CsApart, CsQuiet

\* The reconciler fails at its next call.
LEMMA CsFailSync ==
  ASSUME CsInv, Cs!failSync
  PROVE  CsInv'
<1>1. /\ sync # Cs!Idle /\ faults < MaxFaults /\ faults' = faults + 1 /\ sync' = Cs!Idle
      /\ lost' = (lost \/ sync.at = "persist") /\ Cs!Quiet
      /\ UNCHANGED <<link, snapshot, valid, issued, slips>>
  BY DEF Cs!failSync
<1>2. sync \in CsSyncs
  BY <1>1 DEF CsInv, CsShape
<1>3. lost' \in BOOLEAN /\ (lost => lost') /\ (sync.at = "persist" => lost')
  BY <1>1 DEF CsInv, CsShape
<1>4. faults' \in 0..MaxFaults
  <2>1. faults \in 0..MaxFaults
    BY DEF CsInv, CsShape
  <2> QED BY <1>1, <2>1, CsNull
<1>5. /\ snapshot' \in Accounts \cup {None} /\ link' \in {Cs!NoLink} \cup CsLinks
      /\ slips' \subseteq {"location", "taste"} /\ valid' \subseteq Cs!Tokens
         /\ issued' \in 0..MaxTokens
  BY <1>1 DEF CsInv, CsShape
<1>6. CsTokens'
  BY <1>1, <1>2, <1>3, CsOn
<1> QED BY <1>1, <1>3, <1>4, <1>5, <1>6, CsApart, CsQuiet

-----------------------------------------------------------------------------
(* The consents as a whole. *)

\* The invariant of the consents holds at the start.
LEMMA CsInvInit == ASSUME Cs!Init PROVE CsInv
<1>1. /\ consent \in CsUser /\ ~consent["spotify"]
      /\ revoked = FALSE /\ logged = consent /\ located = FALSE
      /\ link = Cs!NoLink /\ snapshot = None /\ valid = {} /\ issued = 0
      /\ op = [s \in Slots |-> Cs!Idle] /\ sync = Cs!Idle /\ requests = 0 /\ faults = 0
      /\ overlapped = FALSE /\ slips = {} /\ removed = {} /\ lost = FALSE /\ since = FALSE
  BY DEF Cs!Init, CsUser
<1>2. CsShape
  <2>1. issued \in 0..MaxTokens /\ requests \in 0..Requests["consent"] /\ faults \in 0..MaxFaults
    BY <1>1, CsNull
  <2> QED BY <1>1, <2>1 DEF CsShape
<1>3. CsTrail /\ CsPlace /\ CsTaste
  BY <1>1 DEF CsTrail, CsPlace, CsTaste
<1>4. CsKept
  BY <1>1, CsNull DEF CsKept
<1>5. ASSUME NEW s \in Slots PROVE CsPlaced(s) /\ CsPending(s) /\ CsForm(s)
  <2>1. op[s].at = "idle"
    BY <1>1, CsNull
  <2> QED BY <2>1 DEF CsPlaced, CsPending, CsForm
<1> QED BY <1>2, <1>3, <1>4, <1>5 DEF CsInv, CsCover, CsTokens

\* Every step of the consents keeps their invariant.
LEMMA CsInvNext ==
  ASSUME CsInv, [Cs!Next]_(Cs!vars)
  PROVE  CsInv'
<1>1. CASE UNCHANGED Cs!vars
  <2>1. CsShape' /\ CsTrail' /\ CsCover'
    BY <1>1 DEF Cs!vars, Cs!saved, Cs!spotify, CsInv, CsShape, CsTrail, CsCover, CsPlace, CsPlaced,
                CsTaste
  <2>2. CsTokens' /\ \A s \in Slots : CsForm(s)'
    BY <1>1 DEF Cs!vars, Cs!saved, Cs!spotify, CsInv, CsTokens, CsKept, CsPending, CsForm
  <2> QED BY <2>1, <2>2 DEF CsInv
<1>2. CASE \E s \in Slots : \/ \E body \in Cs!Bodies : Cs!updateConsent(s, body)
                            \/ Cs!updateConsentFields(s) \/ Cs!revokeAllConsents(s)
                            \/ Cs!revokeConsentWithAudit(s) \/ Cs!clearLocationOnRevoke(s)
                            \/ Cs!deleteSpotifyLinkOnRevoke(s)
                            \/ Cs!setDerivedConsent(s) \/ Cs!setDerivedConsentField(s)
  BY <1>2, CsPatch, CsPatched, CsReads, CsRevoke, CsClear, CsForget, CsDerived
<1>3. CASE \E s \in Slots : \/ Cs!setUserLocation(s) \/ Cs!updateUserLocation(s)
                            \/ \E a \in Accounts : Cs!linkSpotifyAccount(s, a)
                            \/ Cs!upsertLink(s) \/ Cs!syncTasteWithToken(s)
                            \/ Cs!unlinkSpotifyAccount(s) \/ Cs!deleteLinkAndSnapshot(s)
                            \/ Cs!failRequest(s)
  BY <1>3, CsReads, CsStore, CsLink, CsUpsert, CsTops, CsUnlink, CsFail
<1>4. CASE (\E a \in Accounts : Cs!removeApp(a)) \/ Cs!clearStaleUserLocations
  BY <1>4, CsRemove, CsStale
<1>5. CASE \/ Cs!findLinksDueForSync \/ Cs!refreshAccessToken \/ Cs!updateLinkTokens
           \/ Cs!markLinkRevoked \/ Cs!syncTasteForLink \/ Cs!failSync
  BY <1>5, CsFind, CsRefresh, CsPersist, CsMark, CsSynced, CsFailSync
<1> QED BY <1>1, <1>2, <1>3, <1>4, <1>5 DEF Cs!Next

\* The properties of the consents follow from their invariant.
LEMMA CsFollows == CsInv => Cs!TypeOK /\ Cs!TrailReplays /\ Cs!WithdrawalForgets /\ Cs!TokenKept
<1> SUFFICES ASSUME CsInv PROVE Cs!TypeOK /\ Cs!TrailReplays /\ Cs!WithdrawalForgets /\ Cs!TokenKept
  OBVIOUS
<1>1. Cs!TypeOK
  BY DEF CsInv, CsShape, CsUser, CsLinks, Cs!TypeOK
<1>2. Cs!TrailReplays
  BY DEF CsInv, CsTrail, Cs!TrailReplays
<1>3. Cs!WithdrawalForgets
  BY DEF CsInv, CsCover, CsPlace, CsTaste, Cs!WithdrawalForgets, Cs!hasConsent
<1>4. Cs!TokenKept
  BY DEF CsInv, CsTokens, CsKept, Cs!TokenKept
<1> QED BY <1>1, <1>2, <1>3, <1>4

-----------------------------------------------------------------------------
\* The versions are an initial stretch of the positive numbers.
LEMMA KeyVersions == /\ Versions \subseteq Nat \ {0} /\ 1 \in Versions
                     /\ \A v, w \in Versions : v..w \subseteq Versions
BY ChatKeysAssumption

KeyOps == [at : {"idle", "create", "reread", "store"}, on : Instances \cup {None},
       conv : Convs \cup {None}, dek : Nat]
KeyPasses == [at : {"idle", "persist", "count"}, row : Rows \cup {None}, from : Nat,
         dek : Nat, seen : SUBSET Versions]
KeyRow == [dek : Nat, kek : Versions \cup {0}]

KeysShape ==
  /\ active \in [Instances -> Versions] /\ keks \in [Instances -> SUBSET Versions]
  /\ row \in [Rows -> KeyRow]
  /\ cache \in [Instances -> [Convs -> Nat]]
  /\ op \in [Slots -> KeyOps] /\ pass \in [Instances -> KeyPasses]
  /\ messages \subseteq Convs \X (Nat \ {0}) /\ purged \subseteq Reports
  /\ pending \in [Instances -> SUBSET Versions] /\ passed \in [Instances -> BOOLEAN]
  /\ unsure \in BOOLEAN /\ minted \in Nat

\* No row holds a key that was not minted.
KeyDeks == \A r \in Rows : row[r].dek <= minted

KeyOpOK(o) ==
  o.at # "idle" =>
    /\ o.on \in Instances /\ o.conv \in Convs /\ o.dek \in 1..minted
    /\ o.at = "store" => row[o.conv].dek = o.dek

KeyPassOK(i, p) ==
  p.at = "persist" =>
    /\ p.row \in Rows /\ p.dek \in 1..minted /\ p.from \in 1..(active[i] - 1)
    /\ p.row \in Convs => row[p.row].dek = p.dek

KeyRows ==
  /\ \A m \in messages : row[m[1]].dek = m[2]
  /\ \A i \in Instances, c \in Convs : cache[i][c] \in {0, row[c].dek}
  /\ \A s \in Slots : KeyOpOK(op[s])
  /\ \A i \in Instances : KeyPassOK(i, pass[i])
  /\ \A r \in Rows \ purged : row[r].dek = 0 <=> row[r].kek = 0

\* A request, a pass and a row at rest.
LEMMA KeyNulls ==
  /\ Free \in KeyOps /\ Free.at = "idle" /\ NoPass \in KeyPasses /\ NoPass.at = "idle"
  /\ NoRow \in KeyRow /\ NoRow.dek = 0 /\ NoRow.kek = 0
BY DEF Free, KeyOps, NoPass, KeyPasses, NoRow, KeyRow

\* A request goes on and the others stay.
LEMMA KeyBecomes ==
  ASSUME KeysShape, NEW s \in Slots, NEW at \in {"create", "reread", "store"},
         NEW i \in Instances, NEW c \in Convs, NEW d \in Nat, Become(s, at, i, c, d)
  PROVE  /\ op' \in [Slots -> KeyOps]
         /\ op'[s] = [at |-> at, on |-> i, conv |-> c, dek |-> d]
         /\ \A t \in Slots \ {s} : op'[t] = op[t]
<1>1. [at |-> at, on |-> i, conv |-> c, dek |-> d] \in KeyOps
  BY DEF KeyOps
<1> QED BY <1>1 DEF Become, KeysShape

\* A request ends and the others stay.
LEMMA KeyFrees ==
  ASSUME KeysShape, NEW s \in Slots, op' = [op EXCEPT ![s] = Free]
  PROVE  /\ op' \in [Slots -> KeyOps] /\ op'[s] = Free
         /\ \A t \in Slots \ {s} : op'[t] = op[t]
BY KeyNulls DEF KeysShape

\* One entry of one cache is written.
LEMMA KeyCached ==
  ASSUME KeysShape, NEW i \in Instances, NEW c \in Convs, NEW d \in Nat, Cached(i, c, d)
  PROVE  /\ cache' \in [Instances -> [Convs -> Nat]] /\ cache'[i][c] = d
         /\ \A j \in Instances, b \in Convs : <<j, b>> # <<i, c>> => cache'[j][b] = cache[j][b]
BY DEF Cached, KeysShape

\* One envelope is written.
LEMMA KeyRowType ==
  ASSUME KeysShape, NEW r \in Rows, NEW d \in Nat, NEW k \in Versions \cup {0},
         row' = [row EXCEPT ![r] = [dek |-> d, kek |-> k]]
  PROVE  /\ row' \in [Rows -> KeyRow] /\ row'[r] = [dek |-> d, kek |-> k]
         /\ \A q \in Rows \ {r} : row'[q] = row[q]
<1>1. [dek |-> d, kek |-> k] \in KeyRow
  BY DEF KeyRow
<1> QED BY <1>1 DEF KeysShape

\* The fields of the rows and of what runs.
LEMMA KeyFields ==
  ASSUME KeysShape
  PROVE  /\ \A r \in Rows : /\ row[r] \in KeyRow /\ row[r].dek \in Nat /\ row[r].kek \in Nat
                           /\ row[r].kek \in Versions \cup {0}
         /\ \A r \in Rows : row[r] = NoRow <=> row[r].dek = 0 /\ row[r].kek = 0
         /\ \A s \in Slots : op[s] \in KeyOps /\ op[s].dek \in Nat
         /\ minted \in Nat
         /\ \A i \in Instances : pass[i] \in KeyPasses /\ pass[i].dek \in Nat
            /\ active[i] \in Nat \ {0}
                              /\ active[i] \in Versions /\ pass[i].seen \subseteq Versions
         /\ \A i \in Instances, c \in Convs : cache[i][c] \in Nat
         /\ Convs \subseteq Rows /\ Reports \subseteq Rows
         /\ Convs \cap Reports = {}
<1>1. \A r \in Rows : /\ row[r] \in KeyRow /\ row[r].dek \in Nat /\ row[r].kek \in Versions \cup {0}
                      /\ row[r].kek \in Nat
  <2> SUFFICES ASSUME NEW r \in Rows
               PROVE  /\ row[r] \in KeyRow /\ row[r].dek \in Nat
                      /\ row[r].kek \in Versions \cup {0} /\ row[r].kek \in Nat
    OBVIOUS
  <2>1. row[r] \in KeyRow
    BY DEF KeysShape
  <2>2. row[r].dek \in Nat /\ row[r].kek \in Versions \cup {0}
    BY <2>1 DEF KeyRow
  <2>3. \A v \in Versions : v \in Nat
    BY KeyVersions
  <2>4. row[r].kek \in Nat
    BY <2>2, <2>3
  <2> QED BY <2>1, <2>2, <2>4
<1>2. \A r \in Rows : row[r] = NoRow <=> row[r].dek = 0 /\ row[r].kek = 0
  BY <1>1 DEF KeyRow, NoRow
<1>3. /\ \A s \in Slots : op[s] \in KeyOps /\ op[s].dek \in Nat
      /\ minted \in Nat /\ \A i \in Instances, c \in Convs : cache[i][c] \in Nat
  BY DEF KeysShape, KeyOps
<1>4. \A i \in Instances : /\ pass[i] \in KeyPasses /\ pass[i].dek \in Nat /\ active[i] \in Nat \ {0}
                           /\ active[i] \in Versions /\ pass[i].seen \subseteq Versions
  BY KeyVersions DEF KeysShape, KeyPasses
<1>5. Convs \subseteq Rows /\ Reports \subseteq Rows /\ Convs \cap Reports = {}
  BY ChatKeysAssumption DEF Rows
<1> QED BY <1>1, <1>2, <1>3, <1>4, <1>5

\* The shape holds at the start.
LEMMA KeysShapeInit == Init => KeysShape /\ KeyDeks /\ KeyRows
<1> SUFFICES ASSUME Init PROVE KeysShape /\ KeyDeks /\ KeyRows
  OBVIOUS
<1> USE KeyVersions, ChatKeysAssumption, KeyNulls
<1>1. KeysShape
  BY DEF Init, KeysShape
<1>2. KeyDeks
  BY DEF Init, KeyDeks
<1>3. KeyRows
  BY DEF Init, KeyRows, KeyOpOK, KeyPassOK, Rows
<1> QED BY <1>1, <1>2, <1>3

\* A restart empties what the instances held in memory.
LEMMA KeyRestarts ==
  ASSUME KeysShape, NEW S \in SUBSET Instances, Restart(S)
  PROVE  /\ cache' \in [Instances -> [Convs -> Nat]]
         /\ op' \in [Slots -> KeyOps] /\ pass' \in [Instances -> KeyPasses]
         /\ pending' \in [Instances -> SUBSET Versions] /\ passed' \in [Instances -> BOOLEAN]
BY KeyNulls DEF KeysShape, Restart

\* The fields of a request that runs.
LEMMA KeyUnder ==
  ASSUME KeysShape, KeyRows, NEW s \in Slots, op[s].at # "idle"
  PROVE  /\ op[s].conv \in Convs /\ op[s].conv \in Rows /\ op[s].on \in Instances
         /\ op[s].dek \in Nat /\ op[s].dek # 0 /\ op[s].dek <= minted
         /\ active[op[s].on] \in Versions
BY KeyFields DEF KeyRows, KeyOpOK

\* The fields of a pass that is to store an envelope.
LEMMA KeyPassing ==
  ASSUME KeysShape, KeyRows, NEW i \in Instances, pass[i].at = "persist"
  PROVE  /\ pass[i].row \in Rows /\ pass[i].dek \in Nat /\ pass[i].dek # 0
         /\ pass[i].dek <= minted /\ pass[i].from \in Nat /\ pass[i].from < active[i]
         /\ active[i] \in Versions
<1>1. pass[i] \in KeyPasses /\ KeyPassOK(i, pass[i]) /\ active[i] \in Nat
      /\ active[i] \in Versions /\ minted \in Nat
  BY KeyFields DEF KeyRows, KeysShape
<1>2. /\ pass[i].row \in Rows /\ pass[i].dek \in 1..minted /\ pass[i].from \in 1..(active[i] - 1)
  BY <1>1 DEF KeyPassOK
<1> QED BY <1>1, <1>2

\* A pass that counts.
LEMMA KeyCounting ==
  ASSUME NEW p \in KeyPasses, NEW S \in SUBSET Versions
  PROVE  /\ [p EXCEPT !.at = "count", !.seen = S] \in KeyPasses
         /\ [p EXCEPT !.at = "count"] \in KeyPasses
BY DEF KeyPasses

\* The keys that the rows to re-wrap name.
LEMMA KeySees == ASSUME KeysShape, NEW v \in Versions PROVE
  {row[r].kek : r \in ToRewrap(v)} \subseteq Versions
<1>1. \A r \in ToRewrap(v) : row[r].kek \in 1..(v - 1) /\ row[r].kek \in Versions \cup {0}
  BY KeyFields DEF ToRewrap
<1>2. \A n \in 1..(v - 1) : n # 0
  BY KeyVersions
<1> QED BY <1>1, <1>2

\* Every step keeps the shape.
LEMMA KeysShapeStep == ASSUME KeysShape, KeyRows, Next PROVE KeysShape'
<1>1. ASSUME NEW s \in Slots, NEW i \in Instances, NEW c \in Convs,
             ensureConversationDek(s, i, c)
      PROVE  KeysShape'
  <2>1. UNCHANGED <<rotation, row, messages, purged, pass>>
    BY <1>1 DEF ensureConversationDek
  <2>2. op' \in [Slots -> KeyOps] /\ cache' \in [Instances -> [Convs -> Nat]] /\ minted' \in Nat
    <3>1. CASE Become(s, "store", i, c, cache[i][c]) /\ UNCHANGED <<cache, minted>>
      BY <3>1, KeyFields, KeyBecomes DEF KeysShape
    <3>2. CASE Become(s, "store", i, c, row[c].dek) /\ Cached(i, c, row[c].dek) /\ UNCHANGED minted
      BY <3>2, KeyFields, KeyBecomes, KeyCached DEF KeysShape
    <3>3. CASE minted' = minted + 1 /\ Become(s, "create", i, c, minted + 1) /\ UNCHANGED cache
      <4>1. minted + 1 \in Nat
        BY DEF KeysShape
      <4>2. op' \in [Slots -> KeyOps]
        BY <3>3, <4>1, KeyBecomes
      <4> QED BY <3>3, <4>1, <4>2 DEF KeysShape
    <3> QED BY <1>1, <3>1, <3>2, <3>3 DEF ensureConversationDek
  <2> QED BY <2>1, <2>2 DEF KeysShape, rotation
<1>2. ASSUME NEW s \in Slots, createConversationKey(s) PROVE KeysShape'
  <2>1. op[s].at # "idle" /\ UNCHANGED <<rotation, messages, purged, minted, pass>>
    BY <1>2 DEF createConversationKey
  <2>2. CASE row[op[s].conv] = NoRow
    <3>1. /\ row' = [row EXCEPT ![op[s].conv] = [dek |-> op[s].dek, kek |-> active[op[s].on]]]
          /\ Cached(op[s].on, op[s].conv, op[s].dek)
          /\ Become(s, "store", op[s].on, op[s].conv, op[s].dek)
      BY <1>2, <2>2 DEF createConversationKey
    <3>2. row' \in [Rows -> KeyRow]
      BY <2>1, <3>1, KeyUnder, KeyRowType
    <3>3. op' \in [Slots -> KeyOps]
      BY <2>1, <3>1, KeyUnder, KeyBecomes
    <3>4. cache' \in [Instances -> [Convs -> Nat]]
      BY <2>1, <3>1, KeyUnder, KeyCached
    <3> QED BY <2>1, <3>2, <3>3, <3>4 DEF KeysShape, rotation
  <2>3. CASE row[op[s].conv] # NoRow
    <3>1. Become(s, "reread", op[s].on, op[s].conv, op[s].dek) /\ UNCHANGED <<row, cache>>
      BY <1>2, <2>3 DEF createConversationKey
    <3> QED BY <2>1, <3>1, KeyUnder, KeyBecomes DEF KeysShape, rotation
  <2> QED BY <2>2, <2>3
<1>3. ASSUME NEW s \in Slots, rereadConversationKey(s) PROVE KeysShape'
  <2>1. op[s].at # "idle" /\ UNCHANGED <<rotation, store, pass>>
    BY <1>3 DEF rereadConversationKey
  <2>2. WinnersDek(s) \in Nat
    BY <2>1, KeyUnder, KeyFields DEF WinnersDek
  <2>3. op' \in [Slots -> KeyOps] /\ cache' \in [Instances -> [Convs -> Nat]]
    <3>1. CASE /\ Become(s, "store", op[s].on, op[s].conv, WinnersDek(s))
               /\ Cached(op[s].on, op[s].conv, WinnersDek(s))
      BY <2>1, <2>2, <3>1, KeyUnder, KeyBecomes, KeyCached
    <3>2. CASE op' = [op EXCEPT ![s] = Free] /\ UNCHANGED cache
      <4>1. op' \in [Slots -> KeyOps]
        BY <3>2, KeyFrees
      <4> QED BY <3>2, <4>1 DEF KeysShape
    <3> QED BY <1>3, <3>1, <3>2 DEF rereadConversationKey
  <2> QED BY <2>1, <2>3 DEF KeysShape, rotation, store
<1>4. ASSUME NEW s \in Slots, storeMessage(s) PROVE KeysShape'
  <2>1. <<op[s].conv, op[s].dek>> \in Convs \X (Nat \ {0})
    BY <1>4, KeyUnder DEF storeMessage
  <2>2. messages' \subseteq Convs \X (Nat \ {0})
    BY <1>4, <2>1 DEF storeMessage, KeysShape
  <2>3. op' \in [Slots -> KeyOps] /\ UNCHANGED <<rotation, row, purged, minted, cache, pass>>
    BY <1>4, KeyFrees DEF storeMessage
  <2> QED BY <2>2, <2>3 DEF KeysShape, rotation
<1>5. ASSUME NEW i \in Instances, NEW c \in Convs, hydrateMessages(i, c) \/ expireDek(i, c)
      PROVE  KeysShape'
  <2>1. Cached(i, c, row[c].dek) \/ Cached(i, c, 0)
    BY <1>5 DEF hydrateMessages, expireDek
  <2>2. cache' \in [Instances -> [Convs -> Nat]]
    BY <2>1, KeyFields, KeyCached
  <2>3. UNCHANGED <<rotation, store, op, pass>>
    BY <1>5 DEF hydrateMessages, expireDek
  <2> QED BY <2>2, <2>3 DEF KeysShape, rotation, store
<1>6. ASSUME NEW i \in Instances, NEW r \in Reports, sealEvidence(i, r) PROVE KeysShape'
  <2>1. /\ row' = [row EXCEPT ![r] = [dek |-> minted + 1, kek |-> active[i]]]
        /\ minted' = minted + 1
        /\ UNCHANGED <<rotation, messages, purged, cache, op, pass>>
    BY <1>6 DEF sealEvidence
  <2>2. minted + 1 \in Nat /\ active[i] \in Versions \cup {0} /\ r \in Rows
    BY KeyFields DEF KeysShape
  <2>3. row' \in [Rows -> KeyRow]
    BY <2>1, <2>2, KeyRowType
  <2> QED BY <2>1, <2>2, <2>3 DEF KeysShape, rotation
<1>7. ASSUME NEW r \in Reports, purgeEvidence(r) PROVE KeysShape'
  <2>1. row' = [row EXCEPT ![r] = [row[r] EXCEPT !.dek = 0]] /\ r \in Rows
    BY <1>7, KeyFields DEF purgeEvidence, KeysShape
  <2>2. [row[r] EXCEPT !.dek = 0] = [dek |-> 0, kek |-> row[r].kek]
    BY <2>1, KeyFields DEF KeyRow
  <2>3. row' \in [Rows -> KeyRow]
    <3>1. PICK k \in Versions \cup {0} : k = row[r].kek
      BY <2>1, KeyFields
    <3>2. row' = [row EXCEPT ![r] = [dek |-> 0, kek |-> k]]
      BY <2>1, <2>2, <3>1
    <3> QED BY <2>1, <3>2, KeyRowType
  <2>4. UNCHANGED <<rotation, messages, minted, cache, op, pass>> /\ purged' = purged \cup {r}
    BY <1>7 DEF purgeEvidence
  <2> QED BY <2>3, <2>4 DEF KeysShape, rotation
<1>8. ASSUME NEW i \in Instances, NEW r \in Rows, findPending(i, r) PROVE KeysShape'
  <2>1. row[r].kek \in Nat /\ row[r].dek \in Nat
    BY KeyFields
  <2>2. [at |-> "persist", row |-> r, from |-> row[r].kek, dek |-> row[r].dek, seen |-> {}] \in KeyPasses
    BY <2>1 DEF KeyPasses
  <2>3. pass' \in [Instances -> KeyPasses] /\ UNCHANGED <<rotation, store, cache, op>>
    BY <1>8, <2>2 DEF KeysShape, findPending
  <2> QED BY <2>3 DEF KeysShape, rotation, store
<1>9. ASSUME NEW i \in Instances, persist(i) PROVE KeysShape'
  <2>1. pass[i].at = "persist" /\ UNCHANGED <<rotation, messages, purged, minted, cache, op>>
    BY <1>9 DEF persist
  <2>2. row' \in [Rows -> KeyRow]
    <3>1. CASE row' = [row EXCEPT ![pass[i].row] = [dek |-> pass[i].dek, kek |-> active[i]]]
      BY <2>1, <3>1, KeyPassing, KeyRowType
    <3> QED BY <1>9, <3>1 DEF persist, KeysShape
  <2>3. pass' \in [Instances -> KeyPasses]
    BY <1>9, KeyNulls DEF KeysShape, persist
  <2> QED BY <2>1, <2>2, <2>3 DEF KeysShape, rotation
<1>10. ASSUME NEW i \in Instances, countPending(i) PROVE KeysShape'
  <2> DEFINE S == {row[r].kek : r \in ToRewrap(active[i]) \cap Convs}
  <2>1. S \subseteq Versions
    BY KeyFields, KeySees
  <2>2. pass' = [pass EXCEPT ![i] = [pass[i] EXCEPT !.at = "count", !.seen = S]]
    BY <1>10 DEF countPending, KeysShape
  <2>3. pass[i] \in KeyPasses
    BY KeyFields
  <2> HIDE DEF S
  <2>4. [pass[i] EXCEPT !.at = "count", !.seen = S] \in KeyPasses
    BY <2>1, <2>3, KeyCounting
  <2>5. pass' \in [Instances -> KeyPasses] /\ UNCHANGED <<rotation, store, cache, op>>
    BY <1>10, <2>2, <2>4 DEF KeysShape, countPending
  <2> QED BY <2>5 DEF KeysShape, rotation, store
<1>11. ASSUME NEW i \in Instances, countFails(i) PROVE KeysShape'
  <2>1. pass' = [pass EXCEPT ![i] = [pass[i] EXCEPT !.at = "count"]]
    BY <1>11 DEF countFails, KeysShape
  <2>2. [pass[i] EXCEPT !.at = "count"] \in KeyPasses
    BY KeyFields, KeyCounting
  <2>3. /\ pass' \in [Instances -> KeyPasses] /\ unsure' \in BOOLEAN
        /\ UNCHANGED <<active, keks, pending, passed, store, cache, op>>
    BY <1>11, <2>1, <2>2 DEF KeysShape, countFails
  <2> QED BY <2>3 DEF KeysShape, store
<1>12. ASSUME NEW i \in Instances, publishPending(i) PROVE KeysShape'
  <2>1. pass[i].seen \subseteq Versions
    BY KeyFields
  <2>2. Counted(i) \subseteq Versions
    BY <2>1, KeyFields, KeySees DEF Counted
  <2>3. pass' \in [Instances -> KeyPasses]
    BY <1>12, KeyNulls DEF KeysShape, publishPending
  <2>4. pending' \in [Instances -> SUBSET Versions] /\ passed' \in [Instances -> BOOLEAN]
    BY <1>12, <2>2 DEF KeysShape, publishPending
  <2>5. UNCHANGED <<active, keks, unsure, store, cache, op>>
    BY <1>12 DEF publishPending
  <2> QED BY <2>3, <2>4, <2>5 DEF KeysShape, store
<1>13. ASSUME NEW i \in Instances, deploy(i) PROVE KeysShape'
  <2>1. active' \in [Instances -> Versions] /\ keks' \in [Instances -> SUBSET Versions]
    BY <1>13 DEF KeysShape, deploy
  <2>2. Restart({i}) /\ UNCHANGED <<store, unsure>>
    BY <1>13 DEF deploy, Restart
  <2> QED BY <2>1, <2>2, KeyRestarts DEF KeysShape, store
<1>14. ASSUME NEW v \in Versions, retire(v) PROVE KeysShape'
  <2>1. active' \in [Instances -> Versions] /\ keks' \in [Instances -> SUBSET Versions]
    BY <1>14 DEF KeysShape, retire
  <2>2. Restart(Instances) /\ UNCHANGED <<store, unsure>>
    BY <1>14 DEF retire, Restart
  <2> QED BY <2>1, <2>2, KeyRestarts DEF KeysShape, store
<1> QED
  BY <1>1, <1>2, <1>3, <1>4, <1>5, <1>6, <1>7, <1>8, <1>9, <1>10, <1>11, <1>12, <1>13, <1>14
     DEF Next, Rewrap

\* The key of a conversation, once it has one, never changes: then what is sealed,
\* cached, under way or being rewrapped stays right.
LEMMA KeysKept ==
  ASSUME KeysShape, KeyRows, minted' \in Nat, minted' >= minted,
         \A c \in Convs : row[c].dek # 0 => row'[c].dek = row[c].dek
  PROVE  /\ \A m \in messages : row'[m[1]].dek = m[2]
         /\ \A i \in Instances, c \in Convs : cache[i][c] \in {0, row'[c].dek}
         /\ \A s \in Slots : op'[s] = op[s] \/ op'[s].at = "idle" => KeyOpOK(op[s])'
         /\ \A i \in Instances :
              (pass'[i] = pass[i] /\ active'[i] = active[i]) \/ pass'[i].at # "persist"
                => KeyPassOK(i, pass[i])'
<1>1. \A m \in messages : row'[m[1]].dek = m[2]
  <2> SUFFICES ASSUME NEW m \in messages PROVE row'[m[1]].dek = m[2]
    OBVIOUS
  <2>1. m[1] \in Convs /\ m[2] # 0 /\ row[m[1]].dek = m[2]
    BY DEF KeysShape, KeyRows
  <2> QED BY <2>1
<1>2. \A i \in Instances, c \in Convs : cache[i][c] \in {0, row'[c].dek}
  BY DEF KeyRows
<1>3. ASSUME NEW s \in Slots, op'[s] = op[s] \/ op'[s].at = "idle" PROVE KeyOpOK(op[s])'
  <2>1. KeyOpOK(op[s]) /\ minted \in Nat
    BY DEF KeyRows, KeysShape
  <2> QED BY <1>3, <2>1 DEF KeyOpOK
<1>4. ASSUME NEW i \in Instances,
             (pass'[i] = pass[i] /\ active'[i] = active[i]) \/ pass'[i].at # "persist"
      PROVE  KeyPassOK(i, pass[i])'
  <2>1. KeyPassOK(i, pass[i]) /\ minted \in Nat
    BY DEF KeyRows, KeysShape
  <2> QED BY <1>4, <2>1 DEF KeyPassOK
<1> QED BY <1>1, <1>2, <1>3, <1>4

\* Every step keeps what is true of the data keys and of the rows.
LEMMA KeysStep == ASSUME KeysShape, KeyDeks, KeyRows, Next PROVE KeyDeks' /\ KeyRows'
<1>0. KeysShape' /\ minted \in Nat /\ minted' \in Nat
  BY KeysShapeStep DEF KeysShape
<1>1. ASSUME NEW s \in Slots, NEW i \in Instances, NEW c \in Convs,
             ensureConversationDek(s, i, c)
      PROVE  KeyDeks' /\ KeyRows'
  <2>1. UNCHANGED <<rotation, row, messages, purged, pass>>
    BY <1>1 DEF ensureConversationDek
  <2>2. minted' >= minted
    BY <1>0, <1>1 DEF ensureConversationDek
  <2>3. /\ \A t \in Slots \ {s} : op'[t] = op[t]
        /\ KeyOpOK(op[s])'
        /\ \A j \in Instances, b \in Convs : cache'[j][b] \in {cache[j][b], row[b].dek}
    <3>1. row[c] # NoRow => row[c].dek \in 1..minted
      BY <1>0, KeyFields, ChatKeysAssumption DEF KeyRows, KeysShape, KeyDeks
    <3>2. CASE row[c] # NoRow /\ cache[i][c] # 0 /\ Become(s, "store", i, c, cache[i][c])
               /\ UNCHANGED <<cache, minted>>
      <4>1. cache[i][c] = row[c].dek /\ cache[i][c] \in Nat
        BY <3>2, KeyFields DEF KeyRows
      <4>2. op'[s] = [at |-> "store", on |-> i, conv |-> c, dek |-> row[c].dek]
            /\ \A t \in Slots \ {s} : op'[t] = op[t]
        BY <3>2, <4>1, KeyBecomes
      <4> QED BY <2>1, <3>1, <3>2, <4>2 DEF KeyOpOK
    <3>3. CASE row[c] # NoRow /\ Become(s, "store", i, c, row[c].dek)
               /\ Cached(i, c, row[c].dek) /\ UNCHANGED minted
      <4>1. row[c].dek \in Nat
        BY KeyFields
      <4>2. op'[s] = [at |-> "store", on |-> i, conv |-> c, dek |-> row[c].dek]
            /\ \A t \in Slots \ {s} : op'[t] = op[t]
        BY <3>3, <4>1, KeyBecomes
      <4>3. \A j \in Instances, b \in Convs : cache'[j][b] \in {cache[j][b], row[b].dek}
        BY <3>3, <4>1, KeyCached
      <4> QED BY <2>1, <3>1, <3>3, <4>2, <4>3 DEF KeyOpOK
    <3>4. CASE minted' = minted + 1 /\ Become(s, "create", i, c, minted + 1) /\ UNCHANGED cache
      <4>1. minted + 1 \in Nat
        BY <1>0
      <4>2. op'[s] = [at |-> "create", on |-> i, conv |-> c, dek |-> minted + 1]
            /\ \A t \in Slots \ {s} : op'[t] = op[t]
        BY <3>4, <4>1, KeyBecomes
      <4> QED BY <1>0, <3>4, <4>2 DEF KeyOpOK
    <3> QED BY <1>1, <3>2, <3>3, <3>4 DEF ensureConversationDek
  <2>4. \A t \in Slots \ {s} : KeyOpOK(op[t])'
    BY <1>0, <2>1, <2>2, <2>3, KeysKept
  <2>5. \A j \in Instances : KeyPassOK(j, pass[j])'
    BY <1>0, <2>1, <2>2, KeysKept DEF rotation
  <2>6. KeyDeks'
    BY <1>0, <2>1, <2>2, KeyFields DEF KeyDeks
  <2>7. KeyRows'
    BY <2>1, <2>3, <2>4, <2>5 DEF KeyRows
  <2> QED BY <2>6, <2>7
<1>2. ASSUME NEW s \in Slots, createConversationKey(s) PROVE KeyDeks' /\ KeyRows'
  <2>1. /\ op[s].at # "idle" /\ UNCHANGED <<rotation, messages, purged, minted, pass>>
    BY <1>2 DEF createConversationKey
  <2> DEFINE c == op[s].conv
             i == op[s].on
  <2>2. /\ c \in Convs /\ c \in Rows /\ i \in Instances /\ op[s].dek \in 1..minted
        /\ op[s].dek \in Nat /\ active[i] \in Versions \cup {0} /\ active[i] # 0
    BY <1>0, <2>1, KeyUnder, KeyVersions
  <2>3. CASE row[c] # NoRow
    <3>1. Become(s, "reread", i, c, op[s].dek) /\ UNCHANGED <<row, cache>>
      BY <1>2, <2>3 DEF createConversationKey
    <3>2. op'[s] = [at |-> "reread", on |-> i, conv |-> c, dek |-> op[s].dek]
          /\ \A t \in Slots \ {s} : op'[t] = op[t]
      BY <2>2, <3>1, KeyBecomes
    <3>3. \A t \in Slots : KeyOpOK(op[t])'
      <4>1. KeyOpOK(op[s])'
        BY <2>1, <2>2, <3>2 DEF KeyOpOK
      <4>2. \A t \in Slots \ {s} : KeyOpOK(op[t])'
        BY <1>0, <2>1, <3>1, <3>2, KeysKept
      <4> QED BY <4>1, <4>2
    <3>4. \A j \in Instances : KeyPassOK(j, pass[j])'
      BY <1>0, <2>1, <3>1, KeysKept DEF rotation
    <3> QED BY <2>1, <3>1, <3>3, <3>4 DEF KeyDeks, KeyRows
  <2>4. CASE row[c] = NoRow
    <3>1. /\ row' = [row EXCEPT ![c] = [dek |-> op[s].dek, kek |-> active[i]]]
          /\ Cached(i, c, op[s].dek) /\ Become(s, "store", i, c, op[s].dek)
      BY <1>2, <2>4 DEF createConversationKey
    <3>2. /\ row'[c].dek = op[s].dek /\ row'[c].kek = active[i]
          /\ \A q \in Rows \ {c} : row'[q] = row[q]
      BY <2>2, <3>1, KeyRowType
    <3>3. op'[s] = [at |-> "store", on |-> i, conv |-> c, dek |-> op[s].dek]
          /\ \A t \in Slots \ {s} : op'[t] = op[t]
      BY <2>2, <3>1, KeyBecomes
    <3>4. cache'[i][c] = op[s].dek
          /\ \A j \in Instances, b \in Convs : <<j, b>> # <<i, c>> => cache'[j][b] = cache[j][b]
      BY <2>2, <3>1, KeyCached
    <3>5. \A b \in Convs : row[b].dek # 0 => row'[b].dek = row[b].dek
      BY <2>4, <3>2, KeyNulls DEF Rows
    <3>6. \A t \in Slots : KeyOpOK(op[t])'
      <4>1. KeyOpOK(op[s])'
        BY <2>1, <2>2, <3>2, <3>3 DEF KeyOpOK
      <4>2. \A t \in Slots \ {s} : KeyOpOK(op[t])'
        BY <1>0, <2>1, <3>3, <3>5, KeysKept
      <4> QED BY <4>1, <4>2
    <3>7. \A j \in Instances : KeyPassOK(j, pass[j])'
      BY <1>0, <2>1, <3>5, KeysKept DEF rotation
    <3>8. \A j \in Instances, b \in Convs : cache'[j][b] \in {0, row'[b].dek}
      <4>1. \A j \in Instances, b \in Convs : cache[j][b] \in {0, row'[b].dek}
        BY <1>0, <2>1, <3>5, KeysKept
      <4> QED BY <3>2, <3>4, <4>1
    <3>9. \A m \in messages' : row'[m[1]].dek = m[2]
      BY <1>0, <2>1, <3>5, KeysKept
    <3>10. \A r \in Rows \ purged' : row'[r].dek = 0 <=> row'[r].kek = 0
      BY <2>1, <2>2, <3>2 DEF KeyRows
    <3>11. KeyDeks'
      BY <1>0, <2>1, <2>2, <3>2, KeyFields DEF KeyDeks
    <3> QED BY <3>6, <3>7, <3>8, <3>9, <3>10, <3>11 DEF KeyRows
  <2> QED BY <2>3, <2>4
<1>3. ASSUME NEW s \in Slots, rereadConversationKey(s) PROVE KeyDeks' /\ KeyRows'
  <2>1. op[s].at # "idle" /\ UNCHANGED <<rotation, store, pass>>
    BY <1>3 DEF rereadConversationKey
  <2> DEFINE c == op[s].conv
             i == op[s].on
  <2>2. c \in Convs /\ c \in Rows /\ i \in Instances /\ row[c].dek \in Nat
    BY <2>1, KeyUnder, KeyFields
  <2>3. /\ \A t \in Slots \ {s} : op'[t] = op[t]
        /\ KeyOpOK(op[s])'
        /\ \A j \in Instances, b \in Convs : cache'[j][b] \in {cache[j][b], row[b].dek}
    <3>1. CASE ~Opens(i, c)
      <4>1. op' = [op EXCEPT ![s] = Free] /\ UNCHANGED cache
        BY <1>3, <3>1 DEF rereadConversationKey
      <4> QED BY <4>1, KeyFrees, KeyNulls DEF KeyOpOK
    <3>2. CASE Opens(i, c)
      <4>1. Become(s, "store", i, c, row[c].dek) /\ Cached(i, c, row[c].dek)
        BY <1>3, <3>2 DEF rereadConversationKey, WinnersDek
      <4>2. op'[s] = [at |-> "store", on |-> i, conv |-> c, dek |-> row[c].dek]
            /\ \A t \in Slots \ {s} : op'[t] = op[t]
        BY <2>2, <4>1, KeyBecomes
      <4>3. \A j \in Instances, b \in Convs : cache'[j][b] \in {cache[j][b], row[b].dek}
        BY <2>2, <4>1, KeyCached
      <4>4. row[c].dek \in 1..minted
        BY <1>0, <2>2, <3>2 DEF Opens, KeyDeks
      <4> QED BY <2>1, <2>2, <4>2, <4>3, <4>4 DEF KeyOpOK, store
    <3> QED BY <3>1, <3>2
  <2>4. \A t \in Slots \ {s} : KeyOpOK(op[t])'
    BY <1>0, <2>1, <2>3, KeysKept DEF store
  <2>5. \A j \in Instances : KeyPassOK(j, pass[j])'
    BY <1>0, <2>1, KeysKept DEF rotation, store
  <2> QED BY <2>1, <2>3, <2>4, <2>5 DEF KeyRows, KeyDeks, store
<1>4. ASSUME NEW s \in Slots, storeMessage(s) PROVE KeyDeks' /\ KeyRows'
  <2>1. /\ op[s].at = "store" /\ op' = [op EXCEPT ![s] = Free]
        /\ messages' = messages \cup {<<op[s].conv, op[s].dek>>}
        /\ UNCHANGED <<rotation, row, purged, minted, cache, pass>>
    BY <1>4 DEF storeMessage
  <2>2. row[op[s].conv].dek = op[s].dek
    BY <2>1 DEF KeyRows, KeyOpOK
  <2>3. \A t \in Slots : op'[t] = op[t] \/ op'[t].at = "idle"
    BY <2>1, KeyFrees, KeyNulls
  <2>4. /\ \A t \in Slots : KeyOpOK(op[t])'
        /\ \A j \in Instances : KeyPassOK(j, pass[j])'
    BY <1>0, <2>1, <2>3, KeysKept DEF rotation
  <2>5. \A m \in messages' : row'[m[1]].dek = m[2]
    BY <2>1, <2>2 DEF KeyRows
  <2> QED BY <2>1, <2>4, <2>5 DEF KeyRows, KeyDeks
<1>5. ASSUME NEW i \in Instances, NEW c \in Convs, hydrateMessages(i, c) \/ expireDek(i, c)
      PROVE  KeyDeks' /\ KeyRows'
  <2>1. /\ Cached(i, c, row[c].dek) \/ Cached(i, c, 0)
        /\ UNCHANGED <<rotation, store, op, pass>>
    BY <1>5 DEF hydrateMessages, expireDek
  <2>2. row[c].dek \in Nat /\ 0 \in Nat
    BY KeyFields
  <2>3. \A j \in Instances, b \in Convs : cache'[j][b] \in {cache[j][b], 0, row[b].dek}
    BY <2>1, <2>2, KeyCached
  <2>4. /\ \A t \in Slots : KeyOpOK(op[t])'
        /\ \A j \in Instances : KeyPassOK(j, pass[j])'
    BY <1>0, <2>1, KeysKept DEF rotation, store
  <2> QED BY <2>1, <2>3, <2>4 DEF KeyRows, KeyDeks, store
<1>6. ASSUME NEW i \in Instances, NEW r \in Reports, sealEvidence(i, r) PROVE KeyDeks' /\ KeyRows'
  <2>1. /\ row' = [row EXCEPT ![r] = [dek |-> minted + 1, kek |-> active[i]]]
        /\ minted' = minted + 1
        /\ UNCHANGED <<rotation, messages, purged, cache, op, pass>>
    BY <1>6 DEF sealEvidence
  <2>2. /\ minted + 1 \in Nat /\ active[i] \in Versions \cup {0} /\ active[i] # 0
        /\ r \in Rows /\ r \notin Convs
    BY KeyFields DEF KeysShape
  <2>3. /\ row'[r].dek = minted + 1 /\ row'[r].kek = active[i]
        /\ \A q \in Rows \ {r} : row'[q] = row[q]
    BY <2>1, <2>2, KeyRowType
  <2>4. \A c \in Convs : row'[c] = row[c]
    BY <2>2, <2>3 DEF Rows
  <2>5. /\ \A t \in Slots : KeyOpOK(op[t])'
        /\ \A j \in Instances : KeyPassOK(j, pass[j])'
        /\ \A m \in messages' : row'[m[1]].dek = m[2]
        /\ \A j \in Instances, c \in Convs : cache'[j][c] \in {0, row'[c].dek}
    BY <1>0, <2>1, <2>4, KeysKept DEF rotation
  <2>6. \A q \in Rows \ purged' : row'[q].dek = 0 <=> row'[q].kek = 0
    BY <1>0, <2>1, <2>2, <2>3 DEF KeyRows
  <2>7. KeyDeks'
    BY <1>0, <2>1, <2>3, KeyFields DEF KeyDeks
  <2> QED BY <2>5, <2>6, <2>7 DEF KeyRows
<1>7. ASSUME NEW r \in Reports, purgeEvidence(r) PROVE KeyDeks' /\ KeyRows'
  <2>1. /\ row' = [row EXCEPT ![r].dek = 0] /\ purged' = purged \cup {r}
    BY <1>7 DEF purgeEvidence
  <2>0. UNCHANGED <<rotation, messages, minted, cache, op, pass>>
    BY <1>7 DEF purgeEvidence
  <2>2. r \in Rows /\ r \notin Convs
    BY KeyFields
  <2>3. row'[r].dek = 0 /\ \A q \in Rows \ {r} : row'[q] = row[q]
    BY <2>1, <2>2, KeyFields DEF KeysShape, KeyRow
  <2>4. \A c \in Convs : row'[c] = row[c]
    BY <2>2, <2>3 DEF Rows
  <2>5. /\ \A t \in Slots : KeyOpOK(op[t])'
        /\ \A j \in Instances : KeyPassOK(j, pass[j])'
        /\ \A m \in messages' : row'[m[1]].dek = m[2]
        /\ \A j \in Instances, c \in Convs : cache'[j][c] \in {0, row'[c].dek}
    BY <1>0, <2>0, <2>4, KeysKept DEF rotation
  <2>6. \A q \in Rows \ purged' : row'[q].dek = 0 <=> row'[q].kek = 0
    BY <2>1, <2>3 DEF KeyRows
  <2>7. KeyDeks'
    BY <1>0, <2>0, <2>3 DEF KeyDeks
  <2> QED BY <2>5, <2>6, <2>7 DEF KeyRows
<1>8. ASSUME NEW i \in Instances, NEW r \in Rows, findPending(i, r) PROVE KeyDeks' /\ KeyRows'
  <2>1. UNCHANGED <<rotation, store, cache, op>>
    BY <1>8 DEF findPending
  <2>2. /\ row[r].kek \in 1..(active[i] - 1) /\ row[r].dek # 0
        /\ row[r].dek \in Nat /\ row[r].dek <= minted
    BY <1>8, KeyFields DEF findPending, ToRewrap, KeyDeks
  <2>3. /\ pass'[i] = [at |-> "persist", row |-> r, from |-> row[r].kek,
                       dek |-> row[r].dek, seen |-> {}]
        /\ \A j \in Instances \ {i} : pass'[j] = pass[j]
    BY <1>8 DEF findPending, KeysShape
  <2>4. KeyPassOK(i, pass[i])'
    BY <1>0, <2>1, <2>2, <2>3 DEF KeyPassOK, rotation, store
  <2>5. /\ \A t \in Slots : KeyOpOK(op[t])'
        /\ \A j \in Instances \ {i} : KeyPassOK(j, pass[j])'
    BY <1>0, <2>1, <2>3, KeysKept DEF rotation, store
  <2> QED BY <2>1, <2>4, <2>5 DEF KeyRows, KeyDeks, store
<1>9. ASSUME NEW i \in Instances, persist(i) PROVE KeyDeks' /\ KeyRows'
  <2>1. /\ pass[i].at = "persist" /\ pass' = [pass EXCEPT ![i] = NoPass]
        /\ UNCHANGED <<rotation, messages, purged, minted, cache, op>>
    BY <1>9 DEF persist
  <2> DEFINE r == pass[i].row
  <2>2. /\ r \in Rows /\ pass[i].dek \in Nat /\ pass[i].dek # 0 /\ pass[i].dek <= minted
        /\ active[i] \in Versions \cup {0} /\ active[i] # 0
        /\ r \in Convs => row[r].dek = pass[i].dek
    BY <2>1, KeyPassing, KeyVersions DEF KeyRows, KeyPassOK
  <2>3. \/ row' = row
        \/ /\ row'[r].dek = pass[i].dek /\ row'[r].kek = active[i]
           /\ \A q \in Rows \ {r} : row'[q] = row[q]
    <3>1. CASE row' = [row EXCEPT ![r] = [dek |-> pass[i].dek, kek |-> active[i]]]
      BY <2>2, <3>1, KeyRowType
    <3> QED BY <1>9, <3>1 DEF persist
  <2>4. \A c \in Convs : row'[c].dek = row[c].dek
    BY <2>2, <2>3 DEF Rows
  <2>5. \A j \in Instances : pass'[j] = pass[j] \/ pass'[j].at = "idle"
    BY <2>1, KeyNulls DEF KeysShape
  <2>6. /\ \A t \in Slots : KeyOpOK(op[t])'
        /\ \A j \in Instances : KeyPassOK(j, pass[j])'
        /\ \A m \in messages' : row'[m[1]].dek = m[2]
        /\ \A j \in Instances, c \in Convs : cache'[j][c] \in {0, row'[c].dek}
    BY <1>0, <2>1, <2>4, <2>5, KeysKept DEF rotation
  <2>7. \A q \in Rows \ purged' : row'[q].dek = 0 <=> row'[q].kek = 0
    BY <2>1, <2>2, <2>3 DEF KeyRows
  <2>8. KeyDeks'
    BY <1>0, <2>1, <2>2, <2>3 DEF KeyDeks
  <2> QED BY <2>6, <2>7, <2>8 DEF KeyRows
<1>10. ASSUME NEW i \in Instances, countPending(i) \/ countFails(i) \/ publishPending(i)
       PROVE  KeyDeks' /\ KeyRows'
  <2>1. UNCHANGED <<active, store, cache, op>>
    BY <1>10 DEF countPending, countFails, publishPending, rotation
  <2>2. \A j \in Instances : pass'[j] = pass[j] \/ pass'[j].at # "persist"
    <3>1. \A j \in Instances \ {i} : pass'[j] = pass[j]
      BY <1>10 DEF countPending, countFails, publishPending, KeysShape
    <3>2. pass'[i].at # "persist"
      BY <1>10, KeyFields, KeyNulls DEF countPending, countFails, publishPending, KeysShape,
         KeyPasses
    <3> QED BY <3>1, <3>2
  <2>3. /\ \A t \in Slots : KeyOpOK(op[t])'
        /\ \A j \in Instances : KeyPassOK(j, pass[j])'
    BY <1>0, <2>1, <2>2, KeysKept DEF store
  <2> QED BY <2>1, <2>3 DEF KeyRows, KeyDeks, store
<1>11. ASSUME NEW S \in SUBSET Instances, Restart(S),
              \A j \in Instances \ S : active'[j] = active[j]
       PROVE  KeyDeks' /\ KeyRows'
  <2>1. UNCHANGED store
    BY <1>11 DEF Restart
  <2>2. \A j \in Instances, c \in Convs : cache'[j][c] \in {0, cache[j][c]}
    BY <1>11 DEF Restart, KeysShape
  <2>3. \A s \in Slots : op'[s] = op[s] \/ op'[s].at = "idle"
    BY <1>11, KeyNulls DEF Restart
  <2>4. \A j \in Instances : (pass'[j] = pass[j] /\ active'[j] = active[j]) \/ pass'[j].at # "persist"
    BY <1>11, KeyNulls DEF Restart
  <2>5. /\ \A t \in Slots : KeyOpOK(op[t])'
        /\ \A j \in Instances : KeyPassOK(j, pass[j])'
    BY <1>0, <2>1, <2>3, <2>4, KeysKept DEF store
  <2> QED BY <2>1, <2>2, <2>5 DEF KeyRows, KeyDeks, store
<1>12. ASSUME NEW i \in Instances, deploy(i) PROVE KeyDeks' /\ KeyRows'
  BY <1>11, <1>12 DEF deploy, KeysShape
<1>13. ASSUME NEW v \in Versions, retire(v) PROVE KeyDeks' /\ KeyRows'
  BY <1>11, <1>13 DEF retire
<1> QED
  BY <1>1, <1>2, <1>3, <1>4, <1>5, <1>6, <1>7, <1>8, <1>9, <1>10, <1>12, <1>13 DEF Next, Rewrap

KeyShows(j, v) == active[j] <= v \/ ~passed[j] \/ v \in pending[j]

\* An instance that is about to publish a count in which k is missing.
KeyMissed(j, k) == pass[j].at = "count" /\ k < active[j] /\ k \notin pass[j].seen

KeyOpen(k) == \A i \in Instances : k <= active[i] => k \in keks[i]
KeyShown(k) == \E j \in Instances : KeyShows(j, k)
KeyTold(k) == \E j \in Instances : KeyShows(j, k) /\ ~KeyMissed(j, k)

\* An instance opens every version from another's active one up to its own.
KeyRanges == \A i, j \in Instances : active[j] <= active[i] => active[j]..active[i] \subseteq keks[i]
\* Until a source was left uncounted, the version of a row can be opened, is shown as
\* pending somewhere, and is so by an instance that did not miss it.
KeyHeld == ~unsure => \A r \in Rows \ purged : row[r].kek # 0 =>
          KeyOpen(row[r].kek) /\ KeyShown(row[r].kek) /\ (r \in Convs => KeyTold(row[r].kek))

\* An envelope is re-wrapped to a newer active key or left alone.
LEMMA KeyEnvelopes ==
  ASSUME KeysShape, KeyRows, Next, NEW r \in Rows
  PROVE  row'[r].kek = row[r].kek \/ \E i \in Instances : row'[r].kek = active[i]
         /\ row[r].kek < active[i]
<1>0. row[r].kek \in Nat
  BY KeyFields
<1>1. ASSUME NEW s \in Slots, createConversationKey(s)
      PROVE  row'[r] = row[r] \/ \E i \in Instances : row'[r].kek = active[i]
             /\ row[r].kek < active[i]
  <2>1. op[s].at # "idle"
    BY <1>1 DEF createConversationKey
  <2>2. CASE row' # row
    <3>1. /\ row[op[s].conv] = NoRow
          /\ row' = [row EXCEPT ![op[s].conv] = [dek |-> op[s].dek, kek |-> active[op[s].on]]]
      BY <1>1, <2>2 DEF createConversationKey
    <3>2. active[op[s].on] \in Versions \cup {0} /\ active[op[s].on] > 0
      BY <2>1, KeyUnder, KeyFields
    <3>3. /\ row'[op[s].conv].kek = active[op[s].on]
          /\ \A q \in Rows \ {op[s].conv} : row'[q] = row[q]
      BY <2>1, <3>1, <3>2, KeyUnder, KeyRowType
    <3> QED BY <2>1, <3>1, <3>2, <3>3, KeyUnder, KeyNulls
  <2> QED BY <2>2
<1>2. ASSUME NEW i \in Instances, NEW q \in Reports, sealEvidence(i, q)
      PROVE  row'[r] = row[r] \/ \E j \in Instances : row'[r].kek = active[j]
             /\ row[r].kek < active[j]
  <2>1. row[q] = NoRow /\ row' = [row EXCEPT ![q] = [dek |-> minted + 1, kek |-> active[i]]]
    BY <1>2 DEF sealEvidence
  <2>2. minted + 1 \in Nat /\ active[i] \in Versions \cup {0} /\ active[i] > 0 /\ q \in Rows
    BY KeyFields DEF KeysShape
  <2>3. row'[q].kek = active[i] /\ \A p \in Rows \ {q} : row'[p] = row[p]
    BY <2>1, <2>2, KeyRowType
  <2> QED BY <2>1, <2>2, <2>3, KeyNulls
<1>3. ASSUME NEW q \in Reports, purgeEvidence(q) PROVE row'[r].kek = row[r].kek
  BY <1>3, KeyFields DEF purgeEvidence, KeysShape, KeyRow
<1>4. ASSUME NEW i \in Instances, persist(i)
      PROVE  row'[r] = row[r] \/ \E j \in Instances : row'[r].kek = active[j]
             /\ row[r].kek < active[j]
  <2>1. pass[i].at = "persist"
    BY <1>4 DEF persist
  <2>2. CASE row' # row
    <3>1. /\ row[pass[i].row].kek = pass[i].from
          /\ row' = [row EXCEPT ![pass[i].row] = [dek |-> pass[i].dek, kek |-> active[i]]]
      BY <1>4, <2>2 DEF persist, Unchanged
    <3>2. /\ row'[pass[i].row].kek = active[i]
          /\ \A q \in Rows \ {pass[i].row} : row'[q] = row[q]
      BY <2>1, <3>1, KeyPassing, KeyRowType
    <3> QED BY <2>1, <3>1, <3>2, KeyPassing
  <2> QED BY <2>2
<1>5. CASE UNCHANGED row
  BY <1>5
<1> QED
  BY <1>1, <1>2, <1>3, <1>4, <1>5
     DEF Next, Rewrap, ensureConversationDek, rereadConversationKey, storeMessage, hydrateMessages,
         expireDek, findPending, countPending, countFails, publishPending, deploy, retire,
         Restart, store

\* While no instance starts again and nothing is counted, rows only move to a version
\* that some instance writes with, and that one shows.
LEMMA KeyHeldKept ==
  ASSUME KeysShape, KeysShape', KeyRanges, KeyHeld, UNCHANGED rotation, purged \subseteq purged',
         \A j \in Instances : pass'[j] = pass[j] \/ pass'[j].at # "count",
         \A r \in Rows : row'[r].kek = row[r].kek \/ \E i \in Instances : row'[r].kek = active[i]
  PROVE  KeyRanges' /\ KeyHeld'
<1>1. KeyRanges'
  BY DEF KeyRanges, rotation
<1>2. ASSUME NEW i \in Instances
      PROVE  KeyOpen(active[i])' /\ KeyShown(active[i])' /\ KeyTold(active[i])'
  <2>1. active' = active /\ active \in [Instances -> Versions] /\ active[i] \in Nat
    BY KeyFields DEF KeysShape, rotation
  <2>2. KeyOpen(active[i])'
    <3> SUFFICES ASSUME NEW j \in Instances, active[i] <= active[j] PROVE active[i] \in keks'[j]
      BY <2>1 DEF KeyOpen
    <3> QED BY KeyFields DEF KeyRanges, rotation
  <2>3. KeyShows(i, active[i])' /\ ~KeyMissed(i, active[i])'
    BY <2>1 DEF KeyShows, KeyMissed
  <2> QED BY <2>2, <2>3 DEF KeyShown, KeyTold
<1>3. ASSUME NEW k \in Nat, NEW b \in BOOLEAN, KeyOpen(k) /\ KeyShown(k) /\ (b => KeyTold(k))
      PROVE  KeyOpen(k)' /\ KeyShown(k)' /\ (b => KeyTold(k)')
  <2>1. \A j \in Instances : (KeyShows(j, k)' <=> KeyShows(j, k))
        /\ (KeyMissed(j, k)' => KeyMissed(j, k))
    BY DEF KeyShows, KeyMissed, rotation
  <2> QED BY <1>3, <2>1 DEF KeyOpen, KeyShown, KeyTold, rotation
<1>4. ASSUME NEW r \in Rows \ purged', row'[r].kek # 0, ~unsure
      PROVE  KeyOpen(row[r].kek)' /\ KeyShown(row[r].kek)' /\ (r \in Convs => KeyTold(row[r].kek)')
  <2>1. CASE row'[r].kek = row[r].kek
    <3>1. row[r].kek \in Nat /\ (r \in Convs) \in BOOLEAN
      BY KeyFields
    <3> QED BY <1>3, <1>4, <2>1, <3>1 DEF KeyHeld
  <2>2. CASE \E i \in Instances : row'[r].kek = active[i]
    BY <1>2, <2>2 DEF rotation
  <2> QED BY <2>1, <2>2
<1> QED BY <1>1, <1>4 DEF KeyHeld, rotation

\* Every step keeps the keys that a row or a pass may need.
LEMMA KeyHeldStep == ASSUME KeysShape, KeyRows, KeyRanges, KeyHeld, Next PROVE KeyRanges' /\ KeyHeld'
<1>0. KeysShape'
  BY KeysShapeStep
<1>1. \A r \in Rows : row'[r].kek = row[r].kek \/ \E i \in Instances : row'[r].kek = active[i]
  BY KeyEnvelopes
<1>2. ASSUME UNCHANGED rotation, purged \subseteq purged',
             \A j \in Instances : pass'[j] = pass[j] \/ pass'[j].at # "count"
      PROVE  KeyRanges' /\ KeyHeld'
  BY <1>0, <1>1, <1>2, KeyHeldKept
<1>3. ASSUME NEW s \in Slots, NEW i \in Instances, NEW c \in Convs, ensureConversationDek(s, i, c)
      PROVE  KeyRanges' /\ KeyHeld'
  BY <1>2, <1>3 DEF ensureConversationDek
<1>4. ASSUME NEW s \in Slots,
             createConversationKey(s) \/ rereadConversationKey(s) \/ storeMessage(s)
      PROVE  KeyRanges' /\ KeyHeld'
  <2>1. UNCHANGED <<rotation, purged, pass>>
    BY <1>4 DEF createConversationKey, rereadConversationKey, storeMessage, store
  <2> QED BY <1>2, <2>1
<1>5. ASSUME NEW i \in Instances, NEW c \in Convs, hydrateMessages(i, c) \/ expireDek(i, c)
      PROVE  KeyRanges' /\ KeyHeld'
  BY <1>2, <1>5 DEF hydrateMessages, expireDek, store
<1>6. ASSUME NEW i \in Instances, NEW r \in Reports, sealEvidence(i, r) PROVE KeyRanges' /\ KeyHeld'
  BY <1>2, <1>6 DEF sealEvidence
<1>7. ASSUME NEW r \in Reports, purgeEvidence(r) PROVE KeyRanges' /\ KeyHeld'
  BY <1>2, <1>7 DEF purgeEvidence
<1>8. ASSUME NEW i \in Instances, NEW r \in Rows, findPending(i, r) PROVE KeyRanges' /\ KeyHeld'
  <2>1. \A j \in Instances : pass'[j] = pass[j] \/ pass'[j].at # "count"
    BY <1>8 DEF findPending, KeysShape
  <2> QED BY <1>2, <1>8, <2>1 DEF findPending, store
<1>9. ASSUME NEW i \in Instances, persist(i) PROVE KeyRanges' /\ KeyHeld'
  <2>1. \A j \in Instances : pass'[j] = pass[j] \/ pass'[j].at # "count"
    BY <1>9, KeyNulls DEF persist, KeysShape
  <2> QED BY <1>2, <1>9, <2>1 DEF persist
\* A count has every key of a conversation that waits.
<1>10. ASSUME NEW i \in Instances, countPending(i) PROVE KeyRanges' /\ KeyHeld'
  <2>1. /\ UNCHANGED <<rotation, store>>
        /\ pass'[i].seen = {row[r].kek : r \in ToRewrap(active[i]) \cap Convs}
        /\ \A j \in Instances \ {i} : pass'[j] = pass[j]
    BY <1>10, KeyFields DEF countPending, KeysShape, KeyPasses
  <2>2. \A j \in Instances, k \in Nat : KeyShows(j, k)' <=> KeyShows(j, k)
    BY <2>1 DEF KeyShows, rotation
  <2>3. ASSUME NEW r \in Convs, row[r].kek # 0 PROVE ~KeyMissed(i, row[r].kek)'
    <3>1. CASE row[r].kek < active[i]
      <4>1. r \in Rows \ purged /\ row[r].kek \in 1..(active[i] - 1) /\ row[r].dek # 0
        BY <2>3, <3>1, KeyFields DEF KeyRows, KeysShape
      <4> QED BY <2>1, <4>1 DEF ToRewrap, KeyMissed, store
    <3> QED BY <2>1, <3>1 DEF KeyMissed, rotation, store
  <2>4. ASSUME NEW r \in Convs, row[r].kek # 0, KeyTold(row[r].kek) PROVE KeyTold(row[r].kek)'
    <3>1. PICK j \in Instances : KeyShows(j, row[r].kek) /\ ~KeyMissed(j, row[r].kek)
      BY <2>4 DEF KeyTold
    <3>2. KeyShows(j, row[r].kek)'
      BY <2>1, <2>2, <3>1, KeyFields DEF store
    <3>3. ~KeyMissed(j, row[r].kek)'
      BY <2>1, <2>3, <2>4, <3>1 DEF KeyMissed, rotation, store
    <3> QED BY <3>2, <3>3 DEF KeyTold
  <2>5. ASSUME NEW r \in Rows, KeyShown(row[r].kek) PROVE KeyShown(row[r].kek)'
    BY <2>1, <2>2, <2>5, KeyFields DEF KeyShown, store
  <2> QED BY <2>1, <2>4, <2>5 DEF KeyRanges, KeyHeld, KeyOpen, rotation, store
<1>11. ASSUME NEW i \in Instances, countFails(i) PROVE KeyRanges' /\ KeyHeld'
  BY <1>11 DEF countFails, KeyRanges, KeyHeld
\* What the metric showed of a row that waits is replaced by a count that has it.
<1>12. ASSUME NEW i \in Instances, publishPending(i) PROVE KeyRanges' /\ KeyHeld'
  <2>1. /\ pass[i].at = "count" /\ UNCHANGED <<active, keks, unsure, store>>
        /\ pending' = [pending EXCEPT ![i] = Counted(i)]
        /\ passed' = [passed EXCEPT ![i] = TRUE] /\ pass' = [pass EXCEPT ![i] = NoPass]
    BY <1>12 DEF publishPending
  <2>2. /\ pending'[i] = Counted(i) /\ pass'[i].at = "idle"
        /\ \A j \in Instances \ {i} : /\ pending'[j] = pending[j] /\ passed'[j] = passed[j]
                                      /\ pass'[j] = pass[j]
    BY <2>1, KeyNulls DEF KeysShape
  <2>3. \A j \in Instances \ {i}, k \in Nat : (KeyShows(j, k)' <=> KeyShows(j, k))
        /\ (KeyMissed(j, k)' <=> KeyMissed(j, k))
    BY <2>1, <2>2 DEF KeyShows, KeyMissed
  <2>4. \A k \in Nat : ~KeyMissed(i, k)'
    BY <2>2 DEF KeyMissed
  <2>5. ASSUME NEW r \in Convs, KeyTold(row[r].kek) PROVE KeyTold(row[r].kek)'
    <3>0. row' = row /\ row[r].kek \in Nat
      BY <2>1, KeyFields DEF store
    <3>1. PICK j \in Instances : KeyShows(j, row[r].kek) /\ ~KeyMissed(j, row[r].kek)
      BY <2>5 DEF KeyTold
    <3>2. CASE j # i
      BY <2>3, <3>0, <3>1, <3>2 DEF KeyTold
    <3>3. CASE j = i
      <4>1. active[i] <= row[r].kek \/ row[r].kek \in pass[i].seen
        BY <2>1, <3>0, <3>1, <3>3, KeyFields DEF KeyMissed
      <4>2. KeyShows(i, row[r].kek)'
        BY <2>1, <2>2, <3>0, <4>1 DEF KeyShows, Counted
      <4> QED BY <2>4, <3>0, <4>2 DEF KeyTold
    <3> QED BY <3>2, <3>3
  <2>6. ASSUME NEW r \in Reports \ purged, row[r].kek # 0 PROVE KeyShown(row[r].kek)'
    <3>0. row' = row /\ row[r].kek \in Nat /\ active[i] \in Nat /\ r \in Rows
      BY <2>1, KeyFields DEF store
    <3>1. CASE row[r].kek < active[i]
      <4>1. row[r].kek \in 1..(active[i] - 1) /\ row[r].dek # 0
        BY <2>6, <3>0, <3>1 DEF KeyRows
      <4>2. row[r].kek \in Counted(i)
        BY <3>0, <4>1 DEF ToRewrap, Counted
      <4> QED BY <2>2, <3>0, <4>2 DEF KeyShows, KeyShown
    <3> QED BY <2>1, <3>0, <3>1 DEF KeyShows, KeyShown
  <2>7. \A r \in Rows : KeyTold(row[r].kek)' => KeyShown(row[r].kek)'
    BY DEF KeyTold, KeyShown
  <2> QED BY <2>1, <2>5, <2>6, <2>7 DEF KeyRanges, KeyHeld, KeyOpen, store, Rows
\* An instance that started again shows everything until it made a pass.
<1>13. ASSUME NEW S \in SUBSET Instances, Restart(S), NEW k \in Nat,
              \A j \in Instances \ S : active'[j] = active[j]
       PROVE  (KeyShown(k) => KeyShown(k)') /\ (KeyTold(k) => KeyTold(k)')
  <2>1. \A j \in S : KeyShows(j, k)' /\ ~KeyMissed(j, k)'
    BY <1>13, KeyNulls DEF Restart, KeyShows, KeyMissed
  <2>2. \A j \in Instances \ S : (KeyShows(j, k)' <=> KeyShows(j, k))
        /\ (KeyMissed(j, k)' <=> KeyMissed(j, k))
    BY <1>13 DEF Restart, KeyShows, KeyMissed
  <2> QED BY <2>1, <2>2 DEF KeyShown, KeyTold
<1>14. ASSUME NEW i \in Instances, deploy(i) PROVE KeyRanges' /\ KeyHeld'
  <2>1. /\ active' = [active EXCEPT ![i] = active[i] + 1]
        /\ keks' = [keks EXCEPT ![i] = keks[i] \cup {active[i] + 1}]
        /\ Restart({i}) /\ UNCHANGED <<store, unsure>>
    BY <1>14 DEF deploy, Restart, KeysShape
  <2>2. \A j \in Instances \ {i} : active'[j] = active[j] /\ keks'[j] = keks[j]
    BY <2>1 DEF KeysShape
  <2>3. active'[i] = active[i] + 1 /\ keks'[i] = keks[i] \cup {active[i] + 1}
    BY <2>1 DEF KeysShape
  <2>4. KeyRanges'
    <3> SUFFICES ASSUME NEW a \in Instances, NEW b \in Instances, active'[b] <= active'[a],
                        NEW n \in active'[b]..active'[a]
                 PROVE  n \in keks'[a]
      BY DEF KeyRanges
    <3>1. active[a] \in Nat /\ active[b] \in Nat
      BY KeyFields
    <3>2. CASE a = i /\ n = active[i] + 1
      BY <2>3, <3>2
    <3>3. CASE ~(a = i /\ n = active[i] + 1)
      <4>1. active[b] <= active[a] /\ n \in active[b]..active[a]
        BY <2>2, <2>3, <3>1, <3>3
      <4> QED BY <2>2, <2>3, <4>1 DEF KeyRanges
    <3> QED BY <3>2, <3>3
  <2>5. ASSUME NEW k \in Nat, KeyOpen(k) PROVE KeyOpen(k)'
    <3> SUFFICES ASSUME NEW j \in Instances, k <= active'[j] PROVE k \in keks'[j]
      BY DEF KeyOpen
    <3>1. active[j] \in Nat
      BY KeyFields
    <3> QED BY <2>2, <2>3, <2>5, <3>1 DEF KeyOpen
  <2>6. \A k \in Nat : (KeyShown(k) => KeyShown(k)') /\ (KeyTold(k) => KeyTold(k)')
    BY <1>13, <2>1, <2>2
  <2>7. \A r \in Rows : row'[r] = row[r] /\ row[r].kek \in Nat
    BY <2>1, KeyFields DEF store
  <2> QED BY <2>1, <2>4, <2>5, <2>6, <2>7 DEF KeyHeld, store
\* A version leaves when no metric shows it: then no row has it.
<1>15. ASSUME NEW v \in Versions, retire(v) PROVE KeyRanges' /\ KeyHeld'
  <2>1. /\ Authorised(v) /\ active' = active /\ keks' = [i \in Instances |-> keks[i] \ {v}]
        /\ Restart(Instances) /\ UNCHANGED <<store, unsure>>
    BY <1>15 DEF retire, Restart
  <2>2. \A j \in Instances : ~KeyShows(j, v) /\ v < active[j] /\ active[j] \in Nat
    BY <2>1, KeyFields, KeyVersions DEF Authorised, KeyShows
  <2>3. KeyRanges'
    BY <2>1, <2>2, KeyVersions DEF KeyRanges
  <2>4. ASSUME NEW k \in Nat, KeyOpen(k), KeyShown(k) PROVE KeyOpen(k)'
    <3>1. k # v
      BY <2>2, <2>4 DEF KeyShown
    <3> QED BY <2>1, <2>4, <3>1 DEF KeyOpen
  <2>5. \A k \in Nat : (KeyShown(k) => KeyShown(k)') /\ (KeyTold(k) => KeyTold(k)')
    BY <1>13, <2>1
  <2>6. \A r \in Rows : row'[r] = row[r] /\ row[r].kek \in Nat
    BY <2>1, KeyFields DEF store
  <2> QED BY <2>1, <2>3, <2>4, <2>5, <2>6 DEF KeyHeld, store
<1> QED
  BY <1>3, <1>4, <1>5, <1>6, <1>7, <1>8, <1>9, <1>10, <1>11, <1>12, <1>14, <1>15 DEF Next, Rewrap

-----------------------------------------------------------------------------
(* The theorems. *)

KeysInv == KeysShape /\ KeyDeks /\ KeyRows /\ KeyRanges /\ KeyHeld

\* The invariant of the keys holds at the start.
LEMMA KeysInit == Init => KeysInv
<1> SUFFICES ASSUME Init PROVE KeysInv
  OBVIOUS
<1>1. KeyRanges
  BY DEF Init, KeyRanges
<1>2. KeyHeld
  BY KeyNulls DEF Init, KeyHeld
<1> QED BY <1>1, <1>2, KeysShapeInit DEF KeysInv

\* Every step of the keys keeps their invariant.
LEMMA KeysNext == KeysInv /\ [Next]_vars => KeysInv'
<1>1. CASE KeysInv /\ Next
  BY <1>1, KeysShapeStep, KeysStep, KeyHeldStep DEF KeysInv
<1>2. CASE KeysInv /\ UNCHANGED vars
  BY <1>2 DEF KeysInv, vars, rotation, store, KeysShape, KeyDeks, KeyRows, KeyOpOK, KeyPassOK,
              KeyRanges, KeyHeld,
              KeyOpen, KeyShown, KeyTold, KeyShows, KeyMissed
<1> QED BY <1>1, <1>2

\* The properties of the keys follow from their invariant.
LEMMA KeysTyped == KeysInv => TypeOK /\ OneKeyOpensAll /\ NeededKeysHeld
<1> SUFFICES ASSUME KeysInv PROVE TypeOK /\ OneKeyOpensAll /\ NeededKeysHeld
  OBVIOUS
<1>1. OneKeyOpensAll
  BY DEF KeysInv, KeyRows, OneKeyOpensAll
<1>2. NeededKeysHeld
  <2> SUFFICES ASSUME ~unsure, NEW i \in Instances, NEW r \in Rows \ purged,
                      row[r].kek \in 1..active[i]
               PROVE  row[r].kek \in keks[i]
    BY DEF NeededKeysHeld
  <2> QED BY KeyFields DEF KeysInv, KeyHeld, KeyOpen
<1>3. TypeOK
  <2>1. \A r \in Rows : row[r].dek \in 0..minted /\ row[r].kek \in Versions \cup {0}
    BY KeyFields DEF KeysInv, KeyDeks
  <2>2. cache \in [Instances -> [Convs -> 0..minted]]
    <3>1. \A i \in Instances, c \in Convs : cache[i][c] \in 0..minted
      BY <2>1, KeyFields DEF KeysInv, KeyRows
    <3> QED BY <3>1 DEF KeysInv, KeysShape
  <2>3. \A s \in Slots : op[s].at \in {"idle", "create", "reread", "store"}
    BY KeyFields DEF KeysInv, KeyOps
  <2>4. messages \subseteq Convs \X (1..minted)
    <3> SUFFICES ASSUME NEW m \in messages PROVE m \in Convs \X (1..minted)
      OBVIOUS
    <3>1. m \in Convs \X (Nat \ {0}) /\ row[m[1]].dek = m[2] /\ m[1] \in Rows
      BY KeyFields DEF KeysInv, KeyRows, KeysShape
    <3> QED BY <2>1, <3>1
  <2>5. \A i \in Instances : pass[i].at \in {"idle", "persist", "count"}
        /\ pending[i] \subseteq Versions
    BY KeyFields DEF KeysInv, KeyPasses, KeysShape
  <2>6. \A i \in Instances : active[i] \in keks[i]
    BY KeyFields DEF KeysInv, KeyRanges
  <2> QED BY <2>1, <2>2, <2>3, <2>4, <2>5, <2>6 DEF KeysInv, KeysShape, TypeOK
<1> QED BY <1>1, <1>2, <1>3


\* No step takes an envelope back.
LEMMA KeysAdvance == KeysInv /\ [Next]_vars => EnvelopeAdvances
<1> SUFFICES ASSUME KeysInv, [Next]_vars, NEW r \in Rows PROVE row'[r].kek >= row[r].kek
  BY DEF EnvelopeAdvances
<1>0. row[r].kek \in Nat /\ \A i \in Instances : active[i] \in Nat
  BY KeyFields DEF KeysInv
<1>1. CASE Next
  BY <1>0, <1>1, KeyEnvelopes DEF KeysInv
<1>2. CASE UNCHANGED vars
  BY <1>0, <1>2 DEF vars, store
<1> QED BY <1>1, <1>2

-----------------------------------------------------------------------------
\* What is assumed of the constants of the notices.
LEMMA NoA == No!NoticesAssumption
BY TalkAssumption

\* What it calls finite is, and it counts as everybody does.
LEMMA NoSets ==
  \A S : (No!IsFiniteSet(S) <=> IsFiniteSet(S)) /\ No!Cardinality(S) = Cardinality(S)
BY DEF No!IsFiniteSet, No!Cardinality, IsFiniteSet, Cardinality

-----------------------------------------------------------------------------
(* Notices. *)

NoSteps == {"idle", "notify", "create", "push", "clear"}
NoStep == [at : NoSteps, key : No!Keys, id : 0..MaxRows]
NoticeRow == [id : 1..MaxRows, key : No!Keys, read : BOOLEAN]

NoShape ==
  /\ followed \in BOOLEAN /\ blocked \in BOOLEAN /\ consent \in BOOLEAN
  /\ crossed \in BOOLEAN
  /\ rows \subseteq NoticeRow /\ made \in 0..MaxRows /\ pushes \subseteq 1..made
  /\ op \in [Slots -> NoStep]
  /\ seen \subseteq 1..MaxRows /\ stay \subseteq 1..MaxRows /\ cursor \in 0..No!Start

\* A handler that made a row knows its id.
NoPart(s) == op[s].id <= made /\ (op[s].at = "push" => op[s].id > 0)

\* Rows are told apart by their id, and by their key.
NoOnce ==
  /\ \A r \in rows : r.id <= made
  /\ \A r, q \in rows : r.id = q.id \/ r.key = q.key => r = q

NoDispatch(s) == op[s].at \in {"notify", "create"} /\ op[s].key = Follow

\* Nothing was crossed: a dispatch runs only for a follow that stands, a clear only
\* for one that was undone, and after the clear nothing of it is left.
NoUndone ==
  ~crossed =>
    /\ ~followed => \A s \in Slots : ~NoDispatch(s)
    /\ followed => \A s \in Slots : op[s].at # "clear"
    /\ ~followed /\ (\A s \in Slots : op[s].at # "clear") => \A r \in rows : r.key # Follow

\* What the reader must show was shown, or is a row older than where it is.
NoReads ==
  \A i \in stay : i \in seen \/ (cursor > 0 /\ i < cursor /\ \E r \in rows : r.id = i)

NoInv == NoShape /\ NoOnce /\ NoUndone /\ NoReads /\ \A s \in Slots : NoPart(s)

\* A dispatch at rest, and the bounds.
LEMMA NoNull ==
  /\ No!Idle \in NoStep /\ No!Idle.at = "idle" /\ No!Idle.key = Follow /\ No!Idle.id = 0
  /\ MaxRows \in Nat \ {0} /\ Limit \in Nat \ {0} /\ No!Start = MaxRows + 1 /\ Follow \notin Others
BY NoA DEF No!NoticesAssumption, No!Idle, NoStep, NoSteps, No!Keys, No!Start

\* The rest of a set from an element on.
NoFrom(S, u) == {v \in S : v >= u}
NoUpTo(S, u) == {v \in S : v <= u}

\* A finite, nonempty set of naturals has a least and a greatest element.
LEMMA NoEnds ==
  ASSUME NEW S \in SUBSET Nat, IsFiniteSet(S), S # {}
  PROVE  /\ \E m \in S : \A u \in S : m <= u
         /\ \E m \in S : \A u \in S : u <= m
<1>0. \A v \in S : v \in Nat
  OBVIOUS
<1>1. IsWellFoundedOn(StrictSubsetOrdering(S), FiniteSubsetsOf(S))
  BY FS_StrictSubsetOrderingWellFounded
<1>2. FiniteSubsetsOf(S) = SUBSET S
  BY FS_FiniteSubsetsOfFinite
<1>3. \E m \in S : \A u \in S : m <= u
  <2> DEFINE T == {NoUpTo(S, u) : u \in S}
  <2>0. T \subseteq FiniteSubsetsOf(S) /\ T # {}
    <3>1. \A u \in S : NoUpTo(S, u) \in SUBSET S /\ NoUpTo(S, u) \in T
      BY DEF NoUpTo
    <3> QED BY <1>2, <3>1
  <2> HIDE DEF T
  <2>1. PICK B \in T : \A C \in T : ~ (<<C, B>> \in StrictSubsetOrdering(S))
    BY <1>1, <2>0, WFMin
  <2>2. PICK m \in S : B = NoUpTo(S, m)
    BY DEF T
  <2>3. ASSUME NEW u \in S, ~(m <= u) PROVE FALSE
    <3>1. u < m /\ u \in Nat /\ m \in Nat
      BY <1>0, <2>3
    <3>2. NoUpTo(S, u) \subseteq NoUpTo(S, m)
      <4> SUFFICES ASSUME NEW v \in NoUpTo(S, u) PROVE v \in NoUpTo(S, m)
        OBVIOUS
      <4>1. v \in S /\ v \in Nat /\ v <= m
        BY <1>0, <3>1 DEF NoUpTo
      <4> QED BY <4>1 DEF NoUpTo
    <3>3. m \notin NoUpTo(S, u) /\ m \in NoUpTo(S, m)
      BY <3>1 DEF NoUpTo
    <3>4. <<NoUpTo(S, u), NoUpTo(S, m)>> \in StrictSubsetOrdering(S)
      BY <3>2, <3>3 DEF StrictSubsetOrdering, NoUpTo
    <3> QED BY <2>1, <2>2, <3>4 DEF T
  <2> QED BY <2>3
<1>4. \E m \in S : \A u \in S : u <= m
  <2> DEFINE T == {NoFrom(S, u) : u \in S}
  <2>0. T \subseteq FiniteSubsetsOf(S) /\ T # {}
    <3>1. \A u \in S : NoFrom(S, u) \in SUBSET S /\ NoFrom(S, u) \in T
      BY DEF NoFrom
    <3> QED BY <1>2, <3>1
  <2> HIDE DEF T
  <2>1. PICK B \in T : \A C \in T : ~ (<<C, B>> \in StrictSubsetOrdering(S))
    BY <1>1, <2>0, WFMin
  <2>2. PICK m \in S : B = NoFrom(S, m)
    BY DEF T
  <2>3. ASSUME NEW u \in S, ~(u <= m) PROVE FALSE
    <3>1. m < u /\ u \in Nat /\ m \in Nat
      BY <1>0, <2>3
    <3>2. NoFrom(S, u) \subseteq NoFrom(S, m)
      <4> SUFFICES ASSUME NEW v \in NoFrom(S, u) PROVE v \in NoFrom(S, m)
        OBVIOUS
      <4>1. v \in S /\ v \in Nat /\ m <= v
        BY <1>0, <3>1 DEF NoFrom
      <4> QED BY <4>1 DEF NoFrom
    <3>3. m \notin NoFrom(S, u) /\ m \in NoFrom(S, m)
      BY <3>1 DEF NoFrom
    <3>4. <<NoFrom(S, u), NoFrom(S, m)>> \in StrictSubsetOrdering(S)
      BY <3>2, <3>3 DEF StrictSubsetOrdering, NoFrom
    <3> QED BY <2>1, <2>2, <3>4 DEF T
  <2> QED BY <2>3
<1> QED BY <1>3, <1>4

\* A page is full, or the whole rest; and what is not on it is below it.
LEMMA NoPage ==
  ASSUME NEW S \in SUBSET (1..MaxRows)
  PROVE  /\ No!PageOf(S) \subseteq S
         /\ Cardinality(No!PageOf(S)) # Limit => No!PageOf(S) = S
         /\ Cardinality(No!PageOf(S)) = Limit =>
              /\ No!Min(No!PageOf(S)) \in No!PageOf(S)
              /\ \A i \in S : i \in No!PageOf(S) \/ i < No!Min(No!PageOf(S))
<1> DEFINE P == No!PageOf(S)
<1>0. /\ S \in SUBSET Nat /\ IsFiniteSet(S) /\ Limit \in Nat \ {0}
      /\ \A u \in S : IsFiniteSet(NoFrom(S, u)) /\ Cardinality(NoFrom(S, u)) \in Nat
  <2>1. IsFiniteSet(1..MaxRows)
    BY NoNull, FS_Interval
  <2>2. IsFiniteSet(S)
    BY <2>1, FS_Subset
  <2>4. S \in SUBSET Nat
    BY NoNull
  <2>3. \A u \in S : NoFrom(S, u) \subseteq S
    BY DEF NoFrom
  <2> QED BY <2>2, <2>3, <2>4, NoNull, FS_Subset, FS_CardinalityType
<1>1. P = {u \in S : Cardinality(NoFrom(S, u)) <= Limit}
  BY NoSets DEF No!PageOf, NoFrom
<1> HIDE DEF P
<1>2. P \in SUBSET S /\ IsFiniteSet(P) /\ Cardinality(P) \in Nat /\ P \in SUBSET Nat
  BY <1>0, <1>1, FS_Subset, FS_CardinalityType
<1>3. ASSUME NEW u \in S, NEW v \in P, v <= u PROVE u \in P
  <2>1. v \in S /\ Cardinality(NoFrom(S, v)) <= Limit /\ u \in Nat /\ v \in Nat
    BY <1>0, <1>1
  <2>2. NoFrom(S, u) \subseteq NoFrom(S, v)
    <3> SUFFICES ASSUME NEW w \in NoFrom(S, u) PROVE w \in NoFrom(S, v)
      OBVIOUS
    <3>1. w \in S /\ w \in Nat /\ w >= u
      BY <1>0 DEF NoFrom
    <3>2. w >= v
      BY <1>3, <2>1, <3>1
    <3> QED BY <3>1, <3>2 DEF NoFrom
  <2>3. Cardinality(NoFrom(S, u)) <= Cardinality(NoFrom(S, v))
    BY <1>0, <2>1, <2>2, FS_Subset
  <2>4. Cardinality(NoFrom(S, u)) <= Limit
    BY <1>0, <2>1, <2>3
  <2> QED BY <1>1, <2>4
<1>4. ASSUME P # S PROVE Cardinality(P) = Limit
  <2> DEFINE Out == S \ P
  <2>1. Out # {} /\ Out \in SUBSET Nat /\ IsFiniteSet(Out)
    BY <1>0, <1>2, <1>4, FS_Subset
  <2>2. PICK m \in Out : \A u \in Out : u <= m
    BY <2>1, NoEnds
  <2>3. NoFrom(S, m) \subseteq P \cup {m}
    <3> SUFFICES ASSUME NEW w \in NoFrom(S, m), w \notin P PROVE w = m
      OBVIOUS
    <3>1. w \in S /\ w >= m /\ w \in Nat /\ m \in Nat
      BY <1>0, <2>1 DEF NoFrom
    <3>2. w <= m
      BY <2>2, <3>1
    <3> QED BY <3>1, <3>2
  <2>4. IsFiniteSet(P \cup {m}) /\ Cardinality(P \cup {m}) = Cardinality(P) + 1
    BY <1>2, FS_AddElement
  <2>5. Cardinality(NoFrom(S, m)) <= Cardinality(P) + 1
    BY <2>3, <2>4, FS_Subset
  <2>6. ~(Cardinality(NoFrom(S, m)) <= Limit)
    BY <1>1
  <2>7. Cardinality(P) >= Limit
    BY <1>0, <1>2, <2>5, <2>6
  <2>8. P # {}
    BY <1>0, <2>7, FS_EmptySet
  <2>9. PICK n \in P : \A u \in P : n <= u
    BY <1>2, <2>8, NoEnds
  <2>10. P \subseteq NoFrom(S, n)
    <3> SUFFICES ASSUME NEW w \in P PROVE w \in NoFrom(S, n)
      OBVIOUS
    <3>1. n <= w /\ w \in S /\ w \in Nat /\ n \in Nat
      BY <1>2, <2>9
    <3> QED BY <3>1 DEF NoFrom
  <2>11. Cardinality(P) <= Cardinality(NoFrom(S, n)) /\ n \in S
    BY <1>0, <1>2, <2>10, FS_Subset
  <2>12. Cardinality(NoFrom(S, n)) <= Limit
    BY <1>1
  <2> QED BY <1>0, <1>2, <2>7, <2>11, <2>12
<1>5. ASSUME Cardinality(P) = Limit
      PROVE  No!Min(P) \in P /\ \A i \in S : i \in P \/ i < No!Min(P)
  <2>1. P # {}
    BY <1>0, <1>5, FS_EmptySet
  <2>2. PICK n \in P : \A u \in P : n <= u
    BY <1>2, <2>1, NoEnds
  <2>3. No!Min(P) \in P /\ \A u \in P : No!Min(P) =< u
    BY <2>2 DEF No!Min
  <2>4. ASSUME NEW i \in S, i \notin P PROVE i < No!Min(P)
    <3>1. No!Min(P) \in Nat /\ i \in Nat
      BY <1>0, <1>2, <2>3
    <3>2. ~(No!Min(P) <= i)
      BY <1>3, <2>3, <2>4
    <3> QED BY <3>1, <3>2
  <2> QED BY <2>3, <2>4
<1> QED BY <1>2, <1>4, <1>5 DEF P

-----------------------------------------------------------------------------
(* What the steps have in common. *)

\* A dispatch goes on and the others stay.
LEMMA NoBecomes ==
  ASSUME NoInv, NEW s \in Slots, NEW at \in NoSteps, NEW key \in No!Keys, NEW id \in 0..MaxRows,
         No!Become(s, at, key, id)
  PROVE  /\ op'[s].at = at /\ op'[s].key = key /\ op'[s].id = id
         /\ op' \in [Slots -> NoStep] /\ \A u \in Slots \ {s} : op'[u] = op[u]
<1> DEFINE o == [at |-> at, key |-> key, id |-> id]
<1>1. o \in NoStep /\ o.at = at /\ o.key = key /\ o.id = id
  BY DEF NoStep
<1>2. op' = [op EXCEPT ![s] = o]
  BY DEF No!Become
<1> HIDE DEF o
<1> QED BY <1>1, <1>2 DEF NoInv, NoShape

\* A dispatch ends and the others stay.
LEMMA NoDone ==
  ASSUME NoInv, NEW s \in Slots, No!Done(s)
  PROVE  /\ op'[s].at = "idle" /\ op'[s].id = 0
         /\ op' \in [Slots -> NoStep] /\ \A u \in Slots \ {s} : op'[u] = op[u]
BY NoNull DEF NoInv, NoShape, No!Done

\* The fields of a dispatch.
LEMMA NoKnown ==
  ASSUME NoInv, NEW s \in Slots
  PROVE  op[s].at \in NoSteps /\ op[s].key \in No!Keys /\ op[s].id \in 0..MaxRows
BY DEF NoInv, NoShape, NoStep

\* Dispatches that stay keep their part when more rows were made.
LEMMA NoParts ==
  ASSUME NoInv, NEW s \in Slots, \A u \in Slots \ {s} : op'[u] = op[u], NoPart(s)',
         made' \in 0..MaxRows, made <= made'
  PROVE  \A u \in Slots : NoPart(u)'
<1> SUFFICES ASSUME NEW u \in Slots \ {s} PROVE NoPart(u)'
  OBVIOUS
<1>1. NoPart(u) /\ op'[u] = op[u] /\ op[u].id \in 0..MaxRows /\ made \in 0..MaxRows
  BY NoKnown DEF NoInv, NoShape
<1>2. op[u].id <= made'
  BY <1>1, NoNull DEF NoPart
<1> QED BY <1>1, <1>2 DEF NoPart

\* Fewer rows have one per key as well.
LEMMA NoOnceStays ==
  ASSUME NoInv, rows' \subseteq rows, made' = made
  PROVE  NoOnce'
BY DEF NoInv, NoOnce

\* The reader has missed no row when the ids stay.
LEMMA NoReadsStay ==
  ASSUME NoInv, No!KeepReader, \A r \in rows : \E q \in rows' : q.id = r.id
  PROVE  NoReads'
<1>1. seen' = seen /\ cursor' = cursor /\ stay' = stay
  BY DEF No!KeepReader
<1> QED BY <1>1 DEF NoInv, NoReads

\* The reader has missed no row when some are deleted.
LEMMA NoReadsShrink ==
  ASSUME NoInv, NEW X, rows' = rows \ X, stay' = stay \ {r.id : r \in X},
         UNCHANGED <<seen, cursor>>
  PROVE  NoReads'
<1> SUFFICES ASSUME NEW i \in stay, \A r \in X : r.id # i
             PROVE  i \in seen \/ (cursor > 0 /\ i < cursor /\ \E r \in rows' : r.id = i)
  BY DEF NoReads
<1>1. i \in seen \/ (cursor > 0 /\ i < cursor /\ \E r \in rows : r.id = i)
  BY DEF NoInv, NoReads
<1> QED BY <1>1

\* A step of a dispatch.
LEMMA NoAlong ==
  ASSUME NoInv, NEW s \in Slots, \A u \in Slots \ {s} : op'[u] = op[u],
         op[s].at # "clear", op'[s].at # "clear", NoDispatch(s)' => NoDispatch(s),
         UNCHANGED <<followed, crossed>>,
         \A r \in rows' : r.key = Follow => r \in rows \/ NoDispatch(s)
  PROVE  NoUndone'
<1> SUFFICES ASSUME ~crossed
             PROVE  /\ ~followed => \A u \in Slots : ~NoDispatch(u)'
                    /\ followed => \A u \in Slots : op'[u].at # "clear"
                    /\ ~followed /\ (\A u \in Slots : op'[u].at # "clear")
                         => \A r \in rows' : r.key # Follow
  BY DEF NoUndone
<1>1. /\ ~followed => \A u \in Slots : ~NoDispatch(u)
      /\ followed => \A u \in Slots : op[u].at # "clear"
      /\ ~followed /\ (\A u \in Slots : op[u].at # "clear") => \A r \in rows : r.key # Follow
  BY DEF NoInv, NoUndone
<1>2. \A u \in Slots : (op'[u].at = "clear" <=> op[u].at = "clear")
      /\ (NoDispatch(u)' => NoDispatch(u))
  BY DEF NoDispatch
<1> QED BY <1>1, <1>2

\* The invariant after a step of a dispatch that leaves the rows alone.
LEMMA NoMoves ==
  ASSUME NoInv, NEW s \in Slots, op' \in [Slots -> NoStep],
         \A u \in Slots \ {s} : op'[u] = op[u], NoPart(s)', NoUndone',
         rows' = rows, made' = made, No!KeepReader,
         followed' \in BOOLEAN, blocked' \in BOOLEAN, consent' \in BOOLEAN, crossed' \in BOOLEAN,
         pushes' \subseteq 1..made
  PROVE  NoInv'
<1>1. made \in 0..MaxRows
  BY DEF NoInv, NoShape
<1>2. NoShape'
  BY DEF NoInv, NoShape, No!KeepReader, No!Start
<1>3. NoOnce' /\ NoReads'
  BY NoOnceStays, NoReadsStay
<1>4. \A u \in Slots : NoPart(u)'
  BY <1>1, NoParts, NoNull
<1> QED BY <1>2, <1>3, <1>4 DEF NoInv

-----------------------------------------------------------------------------
(* Follows and dispatches. *)

\* A follow begins, and its dispatch.
LEMMA NoFollow ==
  ASSUME NoInv, NEW s \in Slots, No!followUser(s)
  PROVE  NoInv'
<1>1. /\ op[s].at = "idle" /\ followed' = TRUE /\ No!Become(s, "notify", Follow, 0)
      /\ crossed' = (crossed \/ No!Clearing)
      /\ UNCHANGED <<blocked, consent, rows, made, pushes>> /\ No!KeepReader
  BY DEF No!followUser
<1>2. Follow \in No!Keys /\ 0 \in 0..MaxRows /\ "notify" \in NoSteps
  BY NoNull DEF No!Keys, NoSteps
<1>3. op'[s].at = "notify" /\ op'[s].id = 0 /\ op' \in [Slots -> NoStep]
  BY <1>1, <1>2, NoBecomes
<1>4. \A u \in Slots \ {s} : op'[u] = op[u]
  BY <1>1, <1>2, NoBecomes
<1>5. NoPart(s)'
  BY <1>1, <1>3 DEF NoPart, NoInv, NoShape
<1>6. NoUndone'
  <2>1. ~crossed' => \A u \in Slots : op'[u].at # "clear"
    BY <1>1, <1>3, <1>4 DEF No!Clearing
  <2> QED BY <1>1, <2>1 DEF NoUndone
<1>7. /\ followed' \in BOOLEAN /\ blocked' \in BOOLEAN /\ consent' \in BOOLEAN
      /\ pushes' \subseteq 1..made
  BY <1>1 DEF NoInv, NoShape
<1>8. crossed' \in BOOLEAN
  BY <1>1 DEF NoInv, NoShape
<1> QED BY <1>1, <1>3, <1>4, <1>5, <1>6, <1>7, <1>8, NoMoves

\* Another act begins its dispatch.
LEMMA NoAct ==
  ASSUME NoInv, NEW s \in Slots, NEW key \in Others, No!act(s, key)
  PROVE  NoInv'
<1>1. /\ op[s].at = "idle" /\ No!Become(s, "notify", key, 0)
      /\ UNCHANGED <<followed, blocked, consent, rows, made, pushes, crossed>> /\ No!KeepReader
  BY DEF No!act
<1>2. key \in No!Keys /\ 0 \in 0..MaxRows /\ "notify" \in NoSteps /\ key # Follow
  BY NoNull DEF No!Keys, NoSteps
<1>3. op'[s].at = "notify" /\ op'[s].key = key /\ op'[s].id = 0 /\ op' \in [Slots -> NoStep]
  BY <1>1, <1>2, NoBecomes
<1>4. \A u \in Slots \ {s} : op'[u] = op[u]
  BY <1>1, <1>2, NoBecomes
<1>5. NoPart(s)'
  BY <1>1, <1>3 DEF NoPart, NoInv, NoShape
<1>6. NoUndone'
  <2>1. ~NoDispatch(s)'
    BY <1>2, <1>3 DEF NoDispatch
  <2> QED BY <1>1, <1>3, <1>4, <2>1, NoAlong
<1>7. /\ followed' \in BOOLEAN /\ blocked' \in BOOLEAN /\ consent' \in BOOLEAN
      /\ pushes' \subseteq 1..made /\ crossed' \in BOOLEAN
  BY <1>1 DEF NoInv, NoShape
<1> QED BY <1>1, <1>3, <1>4, <1>5, <1>6, <1>7, NoMoves

\* The dispatch asks whether it is blocked.
LEMMA NoDispatches ==
  ASSUME NoInv, NEW s \in Slots, No!dispatchSocial(s)
  PROVE  NoInv'
<1>1. /\ op[s].at = "notify" /\ (No!Done(s) \/ No!Become(s, "create", op[s].key, 0))
      /\ UNCHANGED <<followed, blocked, consent, rows, made, pushes, crossed>> /\ No!KeepReader
  BY DEF No!dispatchSocial
<1>2. op[s].key \in No!Keys /\ 0 \in 0..MaxRows /\ "create" \in NoSteps
  BY NoNull, NoKnown DEF NoSteps
<1>3. /\ op' \in [Slots -> NoStep] /\ op'[s].id = 0
      /\ op'[s].at = "idle" \/ (op'[s].at = "create" /\ op'[s].key = op[s].key)
  BY <1>1, <1>2, NoBecomes, NoDone
<1>4. \A u \in Slots \ {s} : op'[u] = op[u]
  BY <1>1, <1>2, NoBecomes, NoDone
<1>5. NoPart(s)'
  BY <1>1, <1>3 DEF NoPart, NoInv, NoShape
<1>6. NoUndone'
  <2>1. NoDispatch(s)' => NoDispatch(s)
    BY <1>1, <1>3 DEF NoDispatch
  <2> QED BY <1>1, <1>3, <1>4, <2>1, NoAlong
<1>7. /\ followed' \in BOOLEAN /\ blocked' \in BOOLEAN /\ consent' \in BOOLEAN
      /\ pushes' \subseteq 1..made /\ crossed' \in BOOLEAN
  BY <1>1 DEF NoInv, NoShape
<1> QED BY <1>1, <1>3, <1>4, <1>5, <1>6, <1>7, NoMoves

\* The row is inserted unless its key has one.
LEMMA NoCreate ==
  ASSUME NoInv, NEW s \in Slots, No!createNotificationIfNew(s)
  PROVE  NoInv'
<1> DEFINE id == made + 1
           key == op[s].key
           new == [id |-> id, key |-> key, read |-> FALSE]
<1>1. /\ op[s].at = "create" /\ made < MaxRows
      /\ UNCHANGED <<followed, blocked, consent, pushes, crossed>> /\ No!KeepReader
  BY DEF No!createNotificationIfNew
<1>2. key \in No!Keys /\ made \in 0..MaxRows /\ id \in 1..MaxRows /\ id \in 0..MaxRows
      /\ "push" \in NoSteps
  BY <1>1, NoNull, NoKnown DEF NoSteps, NoInv, NoShape
<1>3. /\ followed' \in BOOLEAN /\ blocked' \in BOOLEAN /\ consent' \in BOOLEAN
      /\ pushes' \subseteq 1..made /\ crossed' \in BOOLEAN
  BY <1>1 DEF NoInv, NoShape
<1>4. CASE No!Done(s) /\ UNCHANGED <<rows, made>>
  <2>1. op'[s].at = "idle" /\ op'[s].id = 0 /\ op' \in [Slots -> NoStep]
    BY <1>4, NoDone
  <2>2. \A u \in Slots \ {s} : op'[u] = op[u]
    BY <1>4, NoDone
  <2>3. NoPart(s)'
    BY <1>2, <1>4, <2>1 DEF NoPart
  <2>4. NoUndone'
    BY <1>1, <1>4, <2>1, <2>2, NoAlong DEF NoDispatch
  <2> QED BY <1>1, <1>3, <1>4, <2>1, <2>2, <2>3, <2>4, NoMoves
<1>5. CASE No!RowsOf(key) = {} /\ rows' = rows \cup {new} /\ made' = id
           /\ No!Become(s, "push", key, id)
  <2>1. op'[s].at = "push" /\ op'[s].id = id /\ op' \in [Slots -> NoStep]
    BY <1>2, <1>5, NoBecomes
  <2>2. \A u \in Slots \ {s} : op'[u] = op[u]
    BY <1>2, <1>5, NoBecomes
  <2>3. new \in NoticeRow /\ new.id = id /\ new.key = key
    BY <1>2 DEF NoticeRow
  <2> HIDE DEF new
  <2>4. NoShape'
    <3>1. made' \in 0..MaxRows /\ pushes' \subseteq 1..made'
      BY <1>2, <1>3, <1>5
    <3>2. rows' \subseteq NoticeRow
      BY <1>5, <2>3 DEF NoInv, NoShape
    <3>3. seen' \subseteq 1..MaxRows /\ stay' \subseteq 1..MaxRows /\ cursor' \in (0..No!Start)'
      BY <1>1 DEF NoInv, NoShape, No!KeepReader, No!Start
    <3> QED BY <1>3, <2>1, <3>1, <3>2, <3>3 DEF NoShape
  <2>5. NoOnce'
    <3>1. \A r \in rows : r.id \in Nat /\ r.id <= made /\ r.id # id
      <4> SUFFICES ASSUME NEW r \in rows PROVE r.id \in Nat /\ r.id <= made /\ r.id # id
        OBVIOUS
      <4>1. r.id \in 1..MaxRows /\ r.id <= made
        BY DEF NoInv, NoShape, NoticeRow, NoOnce
      <4> QED BY <1>2, <4>1
    <3>2. \A r \in rows : r.key # key
      BY <1>5 DEF No!RowsOf
    <3>3. \A r \in rows' : r.id <= made'
      <4> SUFFICES ASSUME NEW r \in rows' PROVE r.id <= made'
        OBVIOUS
      <4>1. CASE r \in rows
        BY <1>2, <1>5, <3>1, <4>1
      <4>2. CASE r = new
        BY <1>2, <1>5, <2>3, <4>2
      <4> QED BY <1>5, <4>1, <4>2
    <3>4. \A r, q \in rows' : r.id = q.id \/ r.key = q.key => r = q
      <4> SUFFICES ASSUME NEW r \in rows', NEW q \in rows', r.id = q.id \/ r.key = q.key
                   PROVE  r = q
        OBVIOUS
      <4>1. CASE r \in rows /\ q \in rows
        BY <4>1 DEF NoInv, NoOnce
      <4>2. CASE r = new \/ q = new
        BY <1>5, <2>3, <3>1, <3>2, <4>2
      <4> QED BY <1>5, <4>1, <4>2
    <3> QED BY <3>3, <3>4 DEF NoOnce
  <2>6. NoUndone'
    <3>1. \A r \in rows' : r.key = Follow => r \in rows \/ NoDispatch(s)
      BY <1>1, <1>5, <2>3 DEF NoDispatch
    <3> QED BY <1>1, <2>1, <2>2, <3>1, NoAlong DEF NoDispatch
  <2>7. NoReads'
    BY <1>1, <1>5, NoReadsStay
  <2>8. NoPart(s)'
    BY <1>2, <1>5, <2>1 DEF NoPart
  <2>9. \A u \in Slots : NoPart(u)'
    <3>1. made' \in 0..MaxRows /\ made <= made'
      BY <1>2, <1>5
    <3> QED BY <2>2, <2>8, <3>1, NoParts
  <2> QED BY <2>4, <2>5, <2>6, <2>7, <2>9 DEF NoInv
<1> QED BY <1>4, <1>5 DEF No!createNotificationIfNew, No!Taken

\* The push is enqueued, or fails.
LEMMA NoPush ==
  ASSUME NoInv, NEW s \in Slots, No!enqueuePush(s) \/ No!dispatchFails(s)
  PROVE  NoInv'
<1>1. /\ op[s].at # "clear" /\ No!Done(s) /\ (pushes' = pushes \/ (op[s].at = "push" /\ pushes' = pushes \cup {op[s].id}))
      /\ UNCHANGED <<followed, blocked, consent, rows, made, crossed>> /\ No!KeepReader
  BY DEF No!enqueuePush, No!dispatchFails
<1>2. op'[s].at = "idle" /\ op'[s].id = 0 /\ op' \in [Slots -> NoStep]
  BY <1>1, NoDone
<1>3. \A u \in Slots \ {s} : op'[u] = op[u]
  BY <1>1, NoDone
<1>4. NoPart(s)'
  BY <1>1, <1>2 DEF NoPart, NoInv, NoShape
<1>5. NoUndone'
  BY <1>1, <1>2, <1>3, NoAlong DEF NoDispatch
<1>6. op[s].at = "push" => op[s].id \in 1..made
  <2>1. NoPart(s) /\ op[s].id \in 0..MaxRows /\ made \in 0..MaxRows
    BY NoKnown DEF NoInv, NoShape
  <2> QED BY <2>1 DEF NoPart
<1>7. pushes' \subseteq 1..made
  BY <1>1, <1>6 DEF NoInv, NoShape
<1>8. followed' \in BOOLEAN /\ blocked' \in BOOLEAN /\ consent' \in BOOLEAN /\ crossed' \in BOOLEAN
  BY <1>1 DEF NoInv, NoShape
<1> QED BY <1>1, <1>2, <1>3, <1>4, <1>5, <1>7, <1>8, NoMoves

\* The follow ends and its notices are to be cleared.
LEMMA NoUnfollow ==
  ASSUME NoInv, NEW s \in Slots, No!unfollowUser(s)
  PROVE  NoInv'
<1>1. /\ op[s].at = "idle" /\ followed' = FALSE /\ No!Become(s, "clear", Follow, 0)
      /\ crossed' = (crossed \/ No!Dispatching)
      /\ UNCHANGED <<blocked, consent, rows, made, pushes>> /\ No!KeepReader
  BY DEF No!unfollowUser
<1>2. Follow \in No!Keys /\ 0 \in 0..MaxRows /\ "clear" \in NoSteps
  BY NoNull DEF No!Keys, NoSteps
<1>3. op'[s].at = "clear" /\ op'[s].id = 0 /\ op' \in [Slots -> NoStep]
  BY <1>1, <1>2, NoBecomes
<1>4. \A u \in Slots \ {s} : op'[u] = op[u]
  BY <1>1, <1>2, NoBecomes
<1>5. NoPart(s)'
  BY <1>1, <1>3 DEF NoPart, NoInv, NoShape
<1>6. NoUndone'
  <2>1. ~crossed' => \A u \in Slots : ~NoDispatch(u)'
    BY <1>1, <1>3, <1>4 DEF No!Dispatching, NoDispatch
  <2> QED BY <1>1, <1>3, <2>1 DEF NoUndone
<1>7. /\ followed' \in BOOLEAN /\ blocked' \in BOOLEAN /\ consent' \in BOOLEAN
      /\ pushes' \subseteq 1..made
  BY <1>1 DEF NoInv, NoShape
<1>8. crossed' \in BOOLEAN
  BY <1>1 DEF NoInv, NoShape
<1> QED BY <1>1, <1>3, <1>4, <1>5, <1>6, <1>7, <1>8, NoMoves

\* The notices of the follow are deleted.
LEMMA NoClear ==
  ASSUME NoInv, NEW s \in Slots, No!clearFollowNotifications(s)
  PROVE  NoInv'
<1>1. /\ op[s].at = "clear" /\ rows' = rows \ No!Cleared /\ No!Done(s)
      /\ crossed' = (crossed /\ (No!Dispatching \/ \E t \in Slots \ {s} : op[t].at = "clear"))
      /\ stay' = stay \ {r.id : r \in No!Cleared}
      /\ UNCHANGED <<followed, blocked, consent, made, pushes, seen, cursor>>
  BY DEF No!clearFollowNotifications
<1>2. op'[s].at = "idle" /\ op'[s].id = 0 /\ op' \in [Slots -> NoStep]
  BY <1>1, NoDone
<1>3. \A u \in Slots \ {s} : op'[u] = op[u]
  BY <1>1, NoDone
<1>4. crossed' \in BOOLEAN
  BY <1>1 DEF NoInv, NoShape
<1>5. NoShape'
  BY <1>1, <1>2, <1>4 DEF NoInv, NoShape, No!Start
<1>6. NoOnce'
  BY <1>1, NoOnceStays
<1>7. NoReads'
  BY <1>1, NoReadsShrink
<1>8. NoUndone'
  <2>1. \A r \in rows' : r.key # Follow
    BY <1>1 DEF No!Cleared
  <2>2. ASSUME ~crossed', ~followed' PROVE \A u \in Slots : ~NoDispatch(u)'
    <3>1. \A u \in Slots : ~NoDispatch(u)
      BY <1>1, <2>2 DEF NoInv, NoUndone, No!Dispatching, NoDispatch
    <3> QED BY <1>2, <1>3, <3>1 DEF NoDispatch
  <2>3. ASSUME ~crossed', followed' PROVE \A u \in Slots : op'[u].at # "clear"
    <3>1. \A u \in Slots \ {s} : op[u].at # "clear"
      BY <1>1, <2>3 DEF NoInv, NoUndone
    <3> QED BY <1>2, <1>3, <3>1
  <2> QED BY <2>1, <2>2, <2>3 DEF NoUndone
<1>9. NoPart(s)'
  BY <1>1, <1>2 DEF NoPart, NoInv, NoShape
<1>10. \A u \in Slots : NoPart(u)'
  <2>1. made' \in 0..MaxRows /\ made <= made'
    BY <1>1 DEF NoInv, NoShape
  <2> QED BY <1>3, <1>9, <2>1, NoParts
<1> QED BY <1>5, <1>6, <1>7, <1>8, <1>10 DEF NoInv

\* The deletion fails, or the process stops before it.
LEMMA NoClearFails ==
  ASSUME NoInv, NEW s \in Slots, No!clearFails(s)
  PROVE  NoInv'
<1>1. /\ op[s].at = "clear" /\ No!Done(s) /\ crossed' = TRUE
      /\ UNCHANGED <<followed, blocked, consent, rows, made, pushes>> /\ No!KeepReader
  BY DEF No!clearFails
<1>2. op'[s].at = "idle" /\ op'[s].id = 0 /\ op' \in [Slots -> NoStep]
  BY <1>1, NoDone
<1>3. \A u \in Slots \ {s} : op'[u] = op[u]
  BY <1>1, NoDone
<1>4. NoPart(s)' /\ NoUndone'
  BY <1>1, <1>2 DEF NoPart, NoUndone, NoInv, NoShape
<1>5. /\ followed' \in BOOLEAN /\ blocked' \in BOOLEAN /\ consent' \in BOOLEAN
      /\ pushes' \subseteq 1..made /\ crossed' \in BOOLEAN
  BY <1>1 DEF NoInv, NoShape
<1> QED BY <1>1, <1>2, <1>3, <1>4, <1>5, NoMoves

\* Blocks and consents change around the dispatches.
LEMMA NoAround ==
  ASSUME NoInv, No!block \/ No!unblock \/ No!changeConsent
  PROVE  NoInv'
<1>1. /\ followed' \in BOOLEAN /\ blocked' \in BOOLEAN /\ consent' \in BOOLEAN
      /\ UNCHANGED <<rows, made, pushes, op>> /\ No!KeepReader
      /\ \/ followed' = followed /\ crossed' = crossed
         \/ followed' = FALSE /\ crossed' = (crossed \/ followed)
  BY DEF No!block, No!unblock, No!changeConsent, NoInv, NoShape
<1>2. crossed' \in BOOLEAN
  BY <1>1 DEF NoInv, NoShape
<1>3. NoShape'
  BY <1>1, <1>2 DEF NoInv, NoShape, No!KeepReader, No!Start
<1>4. NoOnce' /\ NoReads'
  BY <1>1, NoOnceStays, NoReadsStay
<1>5. NoUndone'
  <2>1. ~crossed' => ~crossed /\ followed' = followed
    BY <1>1 DEF NoInv, NoShape
  <2> QED BY <1>1, <2>1 DEF NoInv, NoUndone, NoDispatch
<1>6. \A s \in Slots : NoPart(s)'
  BY <1>1 DEF NoInv, NoPart
<1> QED BY <1>3, <1>4, <1>5, <1>6 DEF NoInv

-----------------------------------------------------------------------------
(* The reader. *)

\* Rows are marked as read.
LEMMA NoMark ==
  ASSUME NoInv, NEW S, No!markRead(S)
  PROVE  NoInv'
<1> DEFINE Marked(r) == [r EXCEPT !.read = TRUE]
<1>1. /\ S \subseteq rows /\ rows' = (rows \ S) \cup {Marked(r) : r \in S}
      /\ UNCHANGED <<followed, blocked, consent, made, pushes, op, crossed>> /\ No!KeepReader
  BY DEF No!markRead
<1>2. \A r \in rows : Marked(r) \in NoticeRow /\ Marked(r).id = r.id /\ Marked(r).key = r.key
  BY DEF NoInv, NoShape, NoticeRow
<1> HIDE DEF Marked
<1>3. \A q \in rows' : \E r \in rows : q.id = r.id /\ q.key = r.key
                                       /\ q = (IF r \in S THEN Marked(r) ELSE r)
  <2> SUFFICES ASSUME NEW q \in rows'
               PROVE  \E r \in rows : q.id = r.id /\ q.key = r.key
                                       /\ q = (IF r \in S THEN Marked(r) ELSE r)
    OBVIOUS
  <2>1. CASE q \in rows \ S
    BY <2>1
  <2>2. CASE \E r \in S : q = Marked(r)
    BY <1>1, <1>2, <2>2
  <2> QED BY <1>1, <2>1, <2>2
<1>4. NoShape'
  <2>1. rows' \subseteq NoticeRow
    BY <1>1, <1>2 DEF NoInv, NoShape
  <2> QED BY <1>1, <2>1 DEF NoInv, NoShape, No!KeepReader, No!Start
<1>5. NoOnce'
  <2>1. \A q \in rows' : q.id <= made'
    BY <1>1, <1>3 DEF NoInv, NoOnce
  <2>2. \A p, q \in rows' : p.id = q.id \/ p.key = q.key => p = q
    <3> SUFFICES ASSUME NEW p \in rows', NEW q \in rows', p.id = q.id \/ p.key = q.key
                 PROVE  p = q
      OBVIOUS
    <3>1. PICK r \in rows : p.id = r.id /\ p.key = r.key /\ p = (IF r \in S THEN Marked(r) ELSE r)
      BY <1>3
    <3>2. PICK t \in rows : q.id = t.id /\ q.key = t.key /\ q = (IF t \in S THEN Marked(t) ELSE t)
      BY <1>3
    <3>3. r = t
      BY <3>1, <3>2 DEF NoInv, NoOnce
    <3> QED BY <3>1, <3>2, <3>3
  <2> QED BY <2>1, <2>2 DEF NoOnce
<1>6. NoReads'
  <2>1. \A r \in rows : \E q \in rows' : q.id = r.id
    BY <1>1, <1>2
  <2> QED BY <1>1, <2>1, NoReadsStay
<1>7. NoUndone'
  <2>1. (\A r \in rows : r.key # Follow) => \A q \in rows' : q.key # Follow
    BY <1>3
  <2> QED BY <1>1, <2>1 DEF NoInv, NoUndone, NoDispatch
<1>8. \A s \in Slots : NoPart(s)'
  BY <1>1 DEF NoInv, NoPart
<1> QED BY <1>4, <1>5, <1>6, <1>7, <1>8 DEF NoInv

\* The reader opens the list.
LEMMA NoOpen ==
  ASSUME NoInv, No!openList
  PROVE  NoInv'
<1>1. /\ cursor' = No!Start /\ seen' = {} /\ stay' = {r.id : r \in rows}
      /\ UNCHANGED <<followed, blocked, consent, rows, made, pushes, op, crossed>>
  BY DEF No!openList
<1>2. \A r \in rows : r.id \in 1..MaxRows
  BY DEF NoInv, NoShape, NoticeRow
<1>3. No!Start \in 0..No!Start
  BY NoNull
<1>4. NoShape'
  BY <1>1, <1>2, <1>3 DEF NoInv, NoShape, No!Start
<1>5. NoReads'
  <2> SUFFICES ASSUME NEW r \in rows PROVE No!Start > 0 /\ r.id < No!Start
    BY <1>1 DEF NoReads
  <2> QED BY <1>2, NoNull
<1>6. NoOnce' /\ NoUndone' /\ \A s \in Slots : NoPart(s)'
  BY <1>1 DEF NoInv, NoOnce, NoUndone, NoDispatch, NoPart
<1> QED BY <1>4, <1>5, <1>6 DEF NoInv

\* The reader gets a page.
LEMMA NoGet ==
  ASSUME NoInv, No!getNotifications
  PROVE  NoInv'
<1> DEFINE page == No!PageOf(No!Older)
<1>1. /\ cursor > 0 /\ seen' = seen \cup page
      /\ cursor' = IF Cardinality(page) = Limit THEN No!Min(page) ELSE 0
      /\ UNCHANGED <<followed, blocked, consent, rows, made, pushes, op, crossed, stay>>
  BY NoSets DEF No!getNotifications
<1>2. No!Older \in SUBSET (1..MaxRows) /\ \A r \in rows : r.id < cursor => r.id \in No!Older
  BY DEF No!Older, NoInv, NoShape, NoticeRow
<1>3. /\ page \subseteq No!Older
      /\ Cardinality(page) # Limit => page = No!Older
      /\ Cardinality(page) = Limit =>
           /\ No!Min(page) \in page
           /\ \A i \in No!Older : i \in page \/ i < No!Min(page)
  BY <1>2, NoPage
<1> HIDE DEF page
<1>4. cursor' \in 0..No!Start /\ seen' \subseteq 1..MaxRows
  <2>1. page \subseteq 1..MaxRows
    BY <1>2, <1>3
  <2>2. CASE Cardinality(page) = Limit
    <3>1. cursor' \in 1..MaxRows
      BY <1>1, <1>3, <2>1, <2>2
    <3> QED BY <1>1, <2>1, <3>1, NoNull DEF NoInv, NoShape
  <2>3. CASE Cardinality(page) # Limit
    BY <1>1, <2>1, <2>3, NoNull DEF NoInv, NoShape
  <2> QED BY <2>2, <2>3
<1>5. NoShape'
  BY <1>1, <1>4 DEF NoInv, NoShape, No!Start
<1>6. NoReads'
  <2> SUFFICES ASSUME NEW i \in stay, i \notin seen'
               PROVE  cursor' > 0 /\ i < cursor' /\ \E r \in rows' : r.id = i
    BY <1>1 DEF NoReads
  <2>1. PICK r \in rows : r.id = i /\ i < cursor
    BY <1>1 DEF NoInv, NoReads
  <2>2. i \in No!Older /\ i \notin page
    BY <1>1, <1>2, <2>1
  <2>3. Cardinality(page) = Limit /\ i < No!Min(page) /\ No!Min(page) \in page
    BY <1>3, <2>2
  <2>4. No!Min(page) \in 1..MaxRows
    BY <1>2, <1>3, <2>3
  <2> QED BY <1>1, <2>1, <2>3, <2>4
<1>7. NoOnce' /\ NoUndone' /\ \A s \in Slots : NoPart(s)'
  BY <1>1 DEF NoInv, NoOnce, NoUndone, NoDispatch, NoPart
<1> QED BY <1>5, <1>6, <1>7 DEF NoInv

\* Old rows are deleted.
LEMMA NoPurge ==
  ASSUME NoInv, No!purge
  PROVE  NoInv'
<1>1. PICK old : rows' = rows \ {old} /\ stay' = stay \ {old.id}
  BY DEF No!purge
<1>2. UNCHANGED <<followed, blocked, consent, made, pushes, op, crossed, seen, cursor>>
  BY DEF No!purge
<1>3. NoShape'
  BY <1>1, <1>2 DEF NoInv, NoShape, No!Start
<1>4. NoReads'
  <2>1. stay' = stay \ {r.id : r \in {old}}
    BY <1>1
  <2> QED BY <1>1, <1>2, <2>1, NoReadsShrink
<1>5. NoOnce'
  BY <1>1, <1>2, NoOnceStays
<1>6. NoUndone' /\ \A s \in Slots : NoPart(s)'
  BY <1>1, <1>2 DEF NoInv, NoUndone, NoDispatch, NoPart
<1> QED BY <1>3, <1>4, <1>5, <1>6 DEF NoInv

-----------------------------------------------------------------------------
(* The notices. *)

\* The invariant of the notices holds at the start.
LEMMA NoInvInit == ASSUME No!Init PROVE NoInv
<1>1. /\ followed = FALSE /\ blocked = FALSE /\ consent = TRUE
      /\ rows = {} /\ made = 0 /\ pushes = {}
      /\ op = [s \in Slots |-> No!Idle] /\ crossed = FALSE
      /\ seen = {} /\ cursor = 0 /\ stay = {}
  BY DEF No!Init
<1>2. NoShape
  <2>1. op \in [Slots -> NoStep] /\ 0 \in 0..MaxRows /\ 0 \in 0..No!Start
    BY <1>1, NoNull
  <2>2. rows \subseteq NoticeRow /\ pushes \subseteq 1..made /\ seen \subseteq 1..MaxRows
        /\ stay \subseteq 1..MaxRows
    BY <1>1
  <2> QED BY <1>1, <2>1, <2>2 DEF NoShape
<1>3. NoOnce /\ NoUndone /\ NoReads
  BY <1>1, NoNull DEF NoOnce, NoUndone, NoReads, NoDispatch
<1>4. \A s \in Slots : NoPart(s)
  BY <1>1, NoNull DEF NoPart
<1> QED BY <1>2, <1>3, <1>4 DEF NoInv

\* Every step of the notices keeps their invariant.
LEMMA NoInvNext ==
  ASSUME NoInv, [No!Next]_(No!vars)
  PROVE  NoInv'
<1>1. CASE UNCHANGED No!vars
  BY <1>1 DEF No!vars, NoInv, NoShape, NoOnce, NoUndone, NoReads, NoDispatch, NoPart, No!Start
<1>2. CASE \E s \in Slots : \/ No!followUser(s) \/ \E key \in Others : No!act(s, key)
                            \/ No!dispatchSocial(s) \/ No!createNotificationIfNew(s)
                            \/ No!enqueuePush(s) \/ No!dispatchFails(s)
                            \/ No!unfollowUser(s) \/ No!clearFollowNotifications(s) \/ No!clearFails(s)
  BY <1>2, NoFollow, NoAct, NoDispatches, NoCreate, NoPush, NoUnfollow, NoClear, NoClearFails
<1>3. CASE No!block \/ No!unblock \/ No!changeConsent
  BY <1>3, NoAround
<1>4. CASE (\E r \in rows : No!markRead({r})) \/ No!markRead(rows)
  BY <1>4, NoMark
<1>5. CASE No!openList \/ No!getNotifications \/ No!purge
  BY <1>5, NoOpen, NoGet, NoPurge
<1> QED BY <1>1, <1>2, <1>3, <1>4, <1>5 DEF No!Next

\* The properties of the notices follow from their invariant.
LEMMA NoFollows == NoInv => No!TypeOK /\ No!OneRowPerKey /\ No!UnfollowForgets /\ No!ReaderMissesNone
<1> SUFFICES ASSUME NoInv PROVE No!TypeOK /\ No!OneRowPerKey /\ No!UnfollowForgets /\ No!ReaderMissesNone
  OBVIOUS
<1>1. No!TypeOK
  <2>1. \A s \in Slots : op[s].at \in {"idle", "notify", "create", "push", "clear"}
                      /\ op[s].key \in No!Keys /\ op[s].id \in 0..made
    <3> SUFFICES ASSUME NEW s \in Slots
                 PROVE  op[s].at \in NoSteps /\ op[s].key \in No!Keys /\ op[s].id \in 0..made
      BY DEF NoSteps
    <3>1. op[s].at \in NoSteps /\ op[s].key \in No!Keys /\ op[s].id \in 0..MaxRows
      BY NoKnown
    <3>2. op[s].id <= made /\ made \in 0..MaxRows
      BY DEF NoInv, NoPart, NoShape
    <3> QED BY <3>1, <3>2, NoNull
  <2> QED BY <2>1 DEF NoInv, NoShape, No!TypeOK, NoticeRow
<1>2. No!OneRowPerKey
  <2> SUFFICES ASSUME NEW key \in No!Keys PROVE Cardinality(No!RowsOf(key)) <= 1
    BY NoSets DEF No!OneRowPerKey
  <2>1. CASE No!RowsOf(key) = {}
    BY <2>1, FS_EmptySet
  <2>2. CASE \E r \in rows : No!RowsOf(key) = {r}
    <3>1. PICK r \in rows : No!RowsOf(key) = {r}
      BY <2>2
    <3>2. Cardinality({r}) = 1
      BY FS_Singleton
    <3> QED BY <3>1, <3>2
  <2>3. \A r \in No!RowsOf(key) : r \in rows /\ No!RowsOf(key) = {r}
    BY DEF No!RowsOf, NoInv, NoOnce
  <2> QED BY <2>1, <2>2, <2>3
<1>3. No!UnfollowForgets
  BY DEF No!UnfollowForgets, No!Clearing, No!RowsOf, NoInv, NoUndone
<1>4. No!ReaderMissesNone
  BY DEF No!ReaderMissesNone, NoInv, NoReads
<1> QED BY <1>1, <1>2, <1>3, <1>4

-----------------------------------------------------------------------------
\* What is assumed of the constants of the reports.
LEMMA RpA == Rp!ReportsAssumption
BY TalkAssumption

-----------------------------------------------------------------------------
(* Reports. *)

RpStatuses == {"none", "deleted", "RESOLVED_INVALID"} \cup Rp!Open \cup Rp!WithAction

RpReport == [by : Reporters \cup {None}, on : Rp!Targets \cup {None}, status : RpStatuses,
             proof : {"none", "kept", "purged"}]

\* A report of a message has evidence, and only it; who is shown as punished was.
RpReportOK(p, gone, punishments) ==
  /\ p.proof # "none" => p.on \in Flagged
  /\ p.on \in Flagged /\ p.status \notin {"none", "deleted"} => p.proof # "none"
  /\ p.proof = "purged" => p.on \notin gone
  /\ p.status \in Rp!WithAction \ {"RESOLVED_REMOVED"} => <<p.on, p.status>> \in punishments
  /\ p.status \in {"none", "deleted"} => p.on = None /\ p.proof = "none"

\* What a request keeps for its next step.
RpStep ==
  [at : {"idle", "create", "remove", "row", "media", "delete", "unlink", "close", "mine"},
   id : Tickets \cup {None}, by : Reporters \cup {None}, on : Rp!Targets \cup {None},
   as : RpStatuses \cup {None}]

RpStepOK(s) ==
  LET o == op[s] IN
  /\ o.at = "create" => o.by \in Reporters /\ o.on \in Rp!Targets
  /\ o.at \in {"remove", "row", "media", "delete", "close"} =>
       o.id \in Tickets /\ report[o.id].status # "none"
  /\ o.at = "remove" => o.on \in Rp!Contents
  /\ o.at = "row" => o.on \in Posts
  /\ o.at \in {"media", "unlink", "mine"} => o.on \in Flagged
  /\ o.at = "close" => /\ o.as \in {"RESOLVED_SUSPENDED", "RESOLVED_BANNED"}
                       /\ Rp!Exists(o.id) => <<report[o.id].on, o.as>> \in punished
  /\ o.at \in {"remove", "row", "media"} /\ Rp!Exists(o.id) => "RESOLVED_REMOVED" \in trail[o.id]
  /\ o.at \in {"remove", "media"} /\ o.on \in Flagged /\ Rp!Exists(o.id) => report[o.id].on = o.on

RpShape ==
  /\ report \in [Tickets -> RpReport] /\ trail \in [Tickets -> SUBSET RpStatuses]
  /\ takenBy \in [Rp!Contents -> {None, "author", "removal", "deletion", "retention"}]
  /\ shown \subseteq Rp!Contents /\ files \subseteq Rp!Contents
  /\ punished \subseteq People \X (Rp!WithAction \ {"RESOLVED_REMOVED"})
  /\ op \in [Slots -> RpStep]
  /\ sweep \in [at : {"idle", "row"}, id : Tickets \cup {None}]

RpSweepOK ==
  sweep.at = "row" => /\ sweep.id \in Tickets /\ report[sweep.id].status # "none"
                      /\ report[sweep.id].proof # "none" => report[sweep.id].on \notin files

RpInv ==
  /\ RpShape /\ RpSweepOK
  /\ \A r \in Tickets : RpReportOK(report[r], files, punished)
  /\ \A s \in Slots : RpStepOK(s)
  /\ \A m \in Flagged : takenBy[m] # "removal"

-----------------------------------------------------------------------------
(* What the steps are made of. *)

\* No report is forgotten or brought back, its target only goes with a post, its
\* trail and the punishments grow.
RpGrows ==
  /\ punished \subseteq punished'
  /\ \A r \in Tickets : report[r].status # "none" =>
       /\ report'[r].status # "none"
       /\ report'[r].proof # "none" => report[r].proof # "none"
       /\ Rp!Exists(r)' => /\ Rp!Exists(r) /\ trail[r] \subseteq trail'[r]
                           /\ report'[r].on = report[r].on \/ report[r].on \in Posts

\* Reports that stay have grown, trivially.
LEMMA RpSame == ASSUME UNCHANGED <<report, punished, trail>> PROVE RpGrows
BY DEF RpGrows, Rp!Exists

\* A request that stays keeps its part when reports only grow.
LEMMA RpStepStays ==
  ASSUME RpInv, RpGrows, NEW s \in Slots, op'[s] = op[s]
  PROVE  RpStepOK(s)'
<1> DEFINE o == op[s]
<1>1. /\ RpStepOK(s) /\ punished \subseteq People \X (Rp!WithAction \ {"RESOLVED_REMOVED"})
      /\ People \cap Posts = {} /\ Flagged \cap Posts = {}
  BY RpA DEF RpInv, RpShape, Rp!ReportsAssumption, Rp!Contents
<1>2. \A r \in Tickets : report[r].status # "none" /\ Rp!Exists(r)' /\ report[r].on \in Flagged =>
        report'[r].on = report[r].on
  BY <1>1 DEF RpGrows
<1>3. \A r \in Tickets : \A p : report[r].status # "none" /\ Rp!Exists(r)'
      /\ <<report[r].on, p>> \in punished =>
        report'[r].on = report[r].on
  BY <1>1 DEF RpGrows
<1>4. o.at \in {"remove", "row", "media", "delete", "close"} =>
        o.id \in Tickets /\ report[o.id].status # "none" /\ report'[o.id].status # "none"
  BY <1>1 DEF RpGrows, RpStepOK
<1>5. o.at = "close" => /\ o.as \in {"RESOLVED_SUSPENDED", "RESOLVED_BANNED"}
                        /\ Rp!Exists(o.id)' => <<report'[o.id].on, o.as>> \in punished'
  BY <1>1, <1>3, <1>4 DEF RpGrows, RpStepOK
<1>6. o.at \in {"remove", "row", "media"} /\ Rp!Exists(o.id)' => "RESOLVED_REMOVED" \in trail'[o.id]
  BY <1>1, <1>4 DEF RpGrows, RpStepOK
<1>7. o.at \in {"remove", "media"} /\ o.on \in Flagged
      /\ Rp!Exists(o.id)' => report'[o.id].on = o.on
  BY <1>1, <1>2, <1>4 DEF RpGrows, RpStepOK
<1> QED BY <1>1, <1>4, <1>5, <1>6, <1>7 DEF RpStepOK, Rp!Exists


\* A step that lets the reports go on keeps what the other requests rely on.
LEMMA RpKeeps ==
  ASSUME RpInv, RpGrows, NEW s \in Slots, RpShape', RpSweepOK', RpStepOK(s)',
         \A r \in Tickets : RpReportOK(report'[r], files', punished'),
         \A t \in Slots \ {s} : op'[t] = op[t],
         \A m \in Flagged : takenBy'[m] # "removal"
  PROVE  RpInv'
<1>1. \A t \in Slots : RpStepOK(t)'
  BY RpStepStays
<1> QED BY <1>1 DEF RpInv

\* A request at rest.
LEMMA RpFree == Rp!Free \in RpStep /\ Rp!Free.at = "idle"
BY DEF Rp!Free, RpStep

\* What a request sets itself as its next step.
LEMMA RpBegins ==
  ASSUME RpInv, NEW s \in Slots, NEW o \in RpStep, Rp!Begin(s, o)
  PROVE  /\ op' \in [Slots -> RpStep] /\ op'[s] = o
         /\ \A t \in Slots \ {s} : op'[t] = op[t]
         /\ UNCHANGED <<sweep, crashes>>
BY DEF RpInv, RpShape, Rp!Begin

\* A request goes on and the others stay.
LEMMA RpGoes ==
  ASSUME RpInv, NEW s \in Slots, NEW at \in {"row", "media"}, Rp!Goes(s, at)
  PROVE  /\ op' \in [Slots -> RpStep] /\ op'[s] = [op[s] EXCEPT !.at = at]
         /\ \A t \in Slots \ {s} : op'[t] = op[t]
         /\ UNCHANGED <<sweep, requests, crashes>>
<1>1. [op[s] EXCEPT !.at = at] \in RpStep
  BY DEF RpInv, RpShape, RpStep
<1> QED BY <1>1 DEF RpInv, RpShape, Rp!Goes

\* A request that ends: what it wrote is all that matters.
LEMMA RpEnds ==
  ASSUME RpInv, NEW s \in Slots, Rp!Ends(s)
  PROVE  /\ op' \in [Slots -> RpStep] /\ RpStepOK(s)'
         /\ \A t \in Slots \ {s} : op'[t] = op[t]
         /\ UNCHANGED <<sweep, requests, crashes>>
<1>1. /\ op' = [op EXCEPT ![s] = Rp!Free] /\ op \in [Slots -> RpStep]
      /\ UNCHANGED <<sweep, requests, crashes>>
  BY DEF Rp!Ends, RpInv, RpShape
<1>2. op'[s] = Rp!Free /\ op' \in [Slots -> RpStep]
  BY <1>1, RpFree
<1> QED BY <1>1, <1>2, RpFree DEF RpStepOK

\* The new status of a report that is there.
LEMMA RpResolution ==
  ASSUME RpInv, NEW r \in Tickets, NEW status \in RpStatuses \ {"none", "deleted"},
         Rp!updateReportResolution(r, status), punished \subseteq punished', files' \subseteq files,
         status \in Rp!WithAction \ {"RESOLVED_REMOVED"} => <<report[r].on, status>> \in punished'
  PROVE  /\ report' \in [Tickets -> RpReport] /\ trail' \in [Tickets -> SUBSET RpStatuses]
         /\ \A q \in Tickets : /\ RpReportOK(report'[q], files', punished')
                               /\ report'[q].on = report[q].on /\ report'[q].proof = report[q].proof
         /\ RpGrows /\ Rp!Exists(r)' /\ status \in trail'[r]
<1>1. /\ Rp!Exists(r) /\ report' = [report EXCEPT ![r].status = status]
      /\ trail' = [trail EXCEPT ![r] = @ \cup {status}]
      /\ report \in [Tickets -> RpReport] /\ trail \in [Tickets -> SUBSET RpStatuses]
  BY DEF Rp!updateReportResolution, Rp!Resolvable, RpInv, RpShape
<1>2. report'[r] = [report[r] EXCEPT !.status = status] /\ report[r] \in RpReport
  BY <1>1
<1>3. /\ report'[r] \in RpReport /\ report'[r].on = report[r].on /\ report'[r].status = status
      /\ report'[r].proof = report[r].proof
  BY <1>2 DEF RpReport
<1>4. \A q \in Tickets \ {r} : report'[q] = report[q] /\ trail'[q] = trail[q]
  BY <1>1
<1>5. report' \in [Tickets -> RpReport] /\ trail' \in [Tickets -> SUBSET RpStatuses]
  BY <1>1, <1>3
<1>6. trail'[r] = trail[r] \cup {status}
  BY <1>1
<1>7. \A q \in Tickets : RpReportOK(report'[q], files', punished')
  <2>1. RpReportOK(report'[r], files', punished')
    BY <1>1, <1>3 DEF RpInv, RpReportOK, Rp!Exists
  <2>2. \A q \in Tickets \ {r} : RpReportOK(report'[q], files', punished')
    BY <1>4 DEF RpInv, RpReportOK
  <2> QED BY <2>1, <2>2
<1>8. \A q \in Tickets : /\ report'[q].on = report[q].on /\ report'[q].proof = report[q].proof
                         /\ trail[q] \subseteq trail'[q]
                         /\ report[q].status # "none" => report'[q].status # "none"
                         /\ Rp!Exists(q)' => Rp!Exists(q)
  BY <1>1, <1>3, <1>4, <1>6 DEF Rp!Exists
<1> QED BY <1>3, <1>5, <1>6, <1>7, <1>8 DEF RpGrows, Rp!Exists

\* Nothing happens to a report.
LEMMA RpReportsStay ==
  ASSUME RpInv, UNCHANGED <<report, trail>>, punished \subseteq punished', files' \subseteq files
  PROVE  /\ report' \in [Tickets -> RpReport] /\ trail' \in [Tickets -> SUBSET RpStatuses]
         /\ \A q \in Tickets : RpReportOK(report'[q], files', punished')
         /\ RpGrows
<1>1. /\ report \in [Tickets -> RpReport] /\ trail \in [Tickets -> SUBSET RpStatuses]
      /\ \A q \in Tickets : RpReportOK(report[q], files, punished)
  BY DEF RpInv, RpShape
<1>2. \A q \in Tickets : RpReportOK(report[q], files', punished')
  BY <1>1 DEF RpReportOK
<1> QED BY <1>1, <1>2, RpSame DEF RpGrows, Rp!Exists

\* The sweep that stays keeps its part.
LEMMA RpSweepStays ==
  ASSUME RpInv, RpGrows, sweep' = sweep, files' \subseteq files,
         \A q \in Tickets : RpReportOK(report'[q], files', punished')
  PROVE  RpSweepOK'
<1> SUFFICES ASSUME sweep.at = "row" PROVE RpSweepOK'
  BY DEF RpSweepOK
<1>1. /\ sweep.id \in Tickets /\ report[sweep.id].status # "none"
      /\ report[sweep.id].proof # "none" => report[sweep.id].on \notin files
      /\ report[sweep.id].proof # "none" => report[sweep.id].on \in Flagged
  BY DEF RpInv, RpSweepOK, RpReportOK
<1>2. ASSUME report'[sweep.id].proof # "none" PROVE report'[sweep.id].on \notin files'
  <2>1. report'[sweep.id].status \notin {"none", "deleted"}
    BY <1>1, <1>2 DEF RpReportOK
  <2>2. report[sweep.id].proof # "none" /\ report'[sweep.id].on = report[sweep.id].on
    BY <1>1, <1>2, <2>1, RpA DEF RpGrows, Rp!Exists, Rp!ReportsAssumption
  <2> QED BY <1>1, <2>2
<1> QED BY <1>1, <1>2 DEF RpSweepOK, RpGrows

\* A file is taken.
LEMMA RpTakes ==
  ASSUME RpInv, NEW c \in Rp!Contents, NEW who \in {"author", "removal", "deletion", "retention"},
         Rp!Takes(c, who), who = "removal" => c \notin Flagged \/ c \notin files
  PROVE  /\ files' \subseteq files /\ c \notin files'
         /\ takenBy' \in [Rp!Contents -> {None, "author", "removal", "deletion", "retention"}]
         /\ \A m \in Flagged : takenBy'[m] # "removal"
<1>1. takenBy \in [Rp!Contents -> {None, "author", "removal", "deletion", "retention"}]
      /\ Flagged \subseteq Rp!Contents /\ \A m \in Flagged : takenBy[m] # "removal"
  BY DEF RpInv, RpShape, Rp!Contents
<1>2. files' = files \ {c}
      /\ takenBy' = IF c \in files THEN [takenBy EXCEPT ![c] = who] ELSE takenBy
  BY DEF Rp!Takes
<1>3. takenBy' \in [Rp!Contents -> {None, "author", "removal", "deletion", "retention"}]
  BY <1>1, <1>2
<1>4. ASSUME NEW m \in Flagged PROVE takenBy'[m] # "removal"
  BY <1>1, <1>2
<1> QED BY <1>2, <1>3, <1>4


-----------------------------------------------------------------------------
(* The steps. *)

\* The invariant of the reports holds at the start.
LEMMA RpInvInit == Rp!Init => RpInv
<1> SUFFICES ASSUME Rp!Init PROVE RpInv
  OBVIOUS
<1>1. Rp!NoReport \in RpReport /\ RpReportOK(Rp!NoReport, files, punished) /\ Rp!Free \in RpStep
  BY RpA, RpFree DEF Rp!NoReport, RpReport, RpReportOK, RpStatuses, Rp!ReportsAssumption,
                     Rp!Targets, Rp!Contents,
                     Rp!WithAction
<1>2. RpShape
  BY <1>1 DEF Rp!Init, RpShape
<1>3. RpSweepOK /\ \A s \in Slots : RpStepOK(s)
  BY RpFree DEF Rp!Init, RpSweepOK, RpStepOK
<1>4. \A m \in Flagged : takenBy[m] # "removal"
  BY RpA DEF Rp!Init, Rp!Contents, Rp!ReportsAssumption
<1> QED BY <1>1, <1>2, <1>3, <1>4 DEF Rp!Init, RpInv

\* A report begins: its guards are read.
LEMMA RpReportTarget ==
  ASSUME RpInv, NEW s \in Slots, NEW by \in Reporters, NEW on \in Rp!Targets, Rp!reportTarget(s, by, on)
  PROVE  RpInv'
<1> DEFINE o == [Rp!Free EXCEPT !.at = "create", !.by = by, !.on = on]
<1>1. o \in RpStep /\ o.at = "create" /\ o.by = by /\ o.on = on
  BY DEF RpStep, Rp!Free
<1>2. Rp!Begin(s, o) /\ UNCHANGED Rp!moderation
  BY DEF Rp!reportTarget
<1> HIDE DEF o
<1>3. /\ op' \in [Slots -> RpStep] /\ op'[s] = o /\ \A t \in Slots \ {s} : op'[t] = op[t]
      /\ UNCHANGED <<sweep, crashes>>
  BY <1>1, <1>2, RpBegins
<1>4. UNCHANGED <<report, shown, files, punished, trail, takenBy>>
  BY <1>2 DEF Rp!moderation
<1>5. RpStepOK(s)'
  BY <1>1, <1>3 DEF RpStepOK
<1> QED BY <1>3, <1>4, <1>5, RpKeeps, RpReportsStay, RpSweepStays DEF RpInv, RpShape

\* The report is inserted, a message with its evidence.
LEMMA RpCreateReport == ASSUME RpInv, NEW s \in Slots, Rp!createReport(s) PROVE RpInv'
<1>1. /\ op[s].at = "create" /\ Rp!Ends(s) /\ UNCHANGED <<shown, files, punished, takenBy>>
      /\ op[s].by \in Reporters /\ op[s].on \in Rp!Targets
  BY DEF Rp!createReport, RpInv, RpStepOK
<1>2. /\ op' \in [Slots -> RpStep] /\ RpStepOK(s)' /\ \A t \in Slots \ {s} : op'[t] = op[t]
      /\ UNCHANGED <<sweep, requests, crashes>>
  BY <1>1, RpEnds
<1>3. CASE UNCHANGED <<report, trail>>
  BY <1>1, <1>2, <1>3, RpKeeps, RpReportsStay, RpSweepStays DEF RpInv, RpShape
<1>4. ASSUME NEW r \in Tickets, report[r] = Rp!NoReport,
             report' = [report EXCEPT ![r] = Rp!NewReport(op[s].by, op[s].on)],
             trail' = [trail EXCEPT ![r] = {"PENDING"}]
      PROVE  RpInv'
  <2> DEFINE new == Rp!NewReport(op[s].by, op[s].on)
  <2>1. /\ new \in RpReport /\ new.on = op[s].on /\ new.status = "PENDING"
        /\ new.proof = Rp!Snapshot(op[s].on)
    BY <1>1 DEF Rp!NewReport, Rp!Snapshot, RpReport, RpStatuses, Rp!Open
  <2>2. RpReportOK(new, files', punished')
    BY <2>1 DEF RpReportOK, Rp!Snapshot, Rp!WithAction
  <2> HIDE DEF new
  <2>3. /\ report' = [report EXCEPT ![r] = new] /\ report \in [Tickets -> RpReport]
        /\ trail \in [Tickets -> SUBSET RpStatuses] /\ "PENDING" \in RpStatuses
        /\ report[r].status = "none"
    BY <1>4 DEF RpInv, RpShape, RpStatuses, Rp!Open, new, Rp!NoReport
  <2>4. /\ report' \in [Tickets -> RpReport] /\ trail' \in [Tickets -> SUBSET RpStatuses]
        /\ report'[r] = new /\ \A q \in Tickets \ {r} : report'[q] = report[q]
           /\ trail'[q] = trail[q]
    BY <1>4, <2>1, <2>3
  <2>5. \A q \in Tickets : RpReportOK(report'[q], files', punished')
    BY <1>1, <2>2, <2>4 DEF RpInv
  <2>6. RpGrows
    BY <1>1, <2>3, <2>4 DEF RpGrows, Rp!Exists
  <2> QED BY <1>1, <1>2, <2>4, <2>5, <2>6, RpKeeps, RpSweepStays DEF RpInv, RpShape
<1> QED BY <1>3, <1>4 DEF Rp!createReport

\* An administrator writes a status.
LEMMA RpResolve ==
  ASSUME RpInv, NEW r \in Tickets, NEW st \in {"REVIEWED", "RESOLVED_INVALID", "RESOLVED_REMOVED"},
         Rp!resolveReport(r, st)
  PROVE  RpInv'
<1>1. /\ Rp!updateReportResolution(r, st)
      /\ UNCHANGED <<shown, files, punished, takenBy, op, sweep, crashes>>
      /\ st \in RpStatuses \ {"none", "deleted"} /\ st \notin Rp!WithAction \ {"RESOLVED_REMOVED"}
  BY DEF Rp!resolveReport, RpStatuses, Rp!Open, Rp!WithAction
<1>2. /\ report' \in [Tickets -> RpReport] /\ trail' \in [Tickets -> SUBSET RpStatuses] /\ RpGrows
      /\ \A q \in Tickets : RpReportOK(report'[q], files', punished')
  BY <1>1, RpResolution
<1>3. \A s \in Slots : RpStepOK(s)'
  BY <1>1, <1>2, RpStepStays
<1>4. RpSweepOK'
  BY <1>1, <1>2, RpSweepStays
<1> QED BY <1>1, <1>2, <1>3, <1>4 DEF RpInv, RpShape

\* The decision is stored, then the removal begins.
LEMMA RpRemoveTarget ==
  ASSUME RpInv, NEW s \in Slots, NEW r \in Tickets, Rp!removeReportTarget(s, r)
  PROVE  RpInv'
<1> DEFINE o == [Rp!Free EXCEPT !.at = "remove", !.id = r, !.on = report[r].on]
<1>1. /\ Rp!Exists(r) /\ report[r].on \in Rp!Contents
         /\ Rp!updateReportResolution(r, "RESOLVED_REMOVED")
      /\ Rp!Begin(s, o) /\ UNCHANGED <<shown, files, punished, takenBy>>
  BY DEF Rp!removeReportTarget, Rp!ResolvedFirst
<1>2. o \in RpStep /\ o.at = "remove" /\ o.id = r /\ o.on = report[r].on
  BY <1>1 DEF RpStep, Rp!Free, Rp!Targets
<1> HIDE DEF o
<1>3. /\ op' \in [Slots -> RpStep] /\ op'[s] = o /\ \A t \in Slots \ {s} : op'[t] = op[t]
      /\ UNCHANGED <<sweep, crashes>>
  BY <1>1, <1>2, RpBegins
<1>4. "RESOLVED_REMOVED" \in RpStatuses \ {"none", "deleted"}
      /\ "RESOLVED_REMOVED" \notin Rp!WithAction \ {"RESOLVED_REMOVED"}
  BY DEF RpStatuses, Rp!WithAction
<1>5. /\ report' \in [Tickets -> RpReport] /\ trail' \in [Tickets -> SUBSET RpStatuses] /\ RpGrows
      /\ \A q \in Tickets : /\ RpReportOK(report'[q], files', punished')
                            /\ report'[q].on = report[q].on
      /\ "RESOLVED_REMOVED" \in trail'[r] /\ Rp!Exists(r)'
  BY <1>1, <1>4, RpResolution
<1>6. RpStepOK(s)'
  BY <1>1, <1>2, <1>3, <1>5 DEF RpStepOK, Rp!Exists
<1> QED BY <1>1, <1>3, <1>5, <1>6, RpKeeps, RpSweepStays DEF RpInv, RpShape

\* The files of a post go before it.
LEMMA RpRemoveFiles == ASSUME RpInv, NEW s \in Slots, Rp!removeFiles(s) PROVE RpInv'
<1>1. /\ op[s].at = "remove" /\ op[s].on \in Posts /\ Rp!Takes(op[s].on, "removal")
         /\ Rp!Goes(s, "row")
      /\ UNCHANGED <<report, shown, punished, trail>> /\ RpStepOK(s)
  BY DEF Rp!removeFiles, RpInv
<1>2. /\ op' \in [Slots -> RpStep] /\ op'[s] = [op[s] EXCEPT !.at = "row"]
      /\ \A t \in Slots \ {s} : op'[t] = op[t]
      /\ UNCHANGED <<sweep, requests, crashes>>
  BY <1>1, RpGoes
<1>3. op[s].on \in Rp!Contents /\ op[s].on \notin Flagged
  BY <1>1, RpA DEF Rp!Contents, Rp!ReportsAssumption
<1>4. /\ files' \subseteq files /\ \A m \in Flagged : takenBy'[m] # "removal"
      /\ takenBy' \in [Rp!Contents -> {None, "author", "removal", "deletion", "retention"}]
  BY <1>1, <1>3, RpTakes
<1>5. op[s] \in RpStep
  BY DEF RpInv, RpShape
<1>6. op'[s].at = "row" /\ op'[s].id = op[s].id /\ op'[s].on = op[s].on
  BY <1>2, <1>5 DEF RpStep
<1>7. RpStepOK(s)'
  BY <1>1, <1>6 DEF RpStepOK, Rp!Exists
<1> QED BY <1>1, <1>2, <1>4, <1>7, RpKeeps, RpReportsStay, RpSweepStays DEF RpInv, RpShape

\* The post goes.
LEMMA RpDeleteRow == ASSUME RpInv, NEW s \in Slots, Rp!deleteRow(s) PROVE RpInv'
<1>1. /\ op[s].at = "row" /\ Rp!Ends(s) /\ shown' = shown \ {op[s].on}
      /\ report' = [r \in Tickets |-> IF report[r].on = op[s].on
                                  THEN [report[r] EXCEPT !.on = None] ELSE report[r]]
      /\ UNCHANGED <<files, punished, trail, takenBy>>
  BY DEF Rp!deleteRow
<1>2. /\ op[s].on \in Posts /\ op[s].on \notin Flagged /\ op[s].on \notin People
      /\ None \notin Flagged
  BY <1>1, RpA DEF RpInv, RpStepOK, Rp!ReportsAssumption, Rp!Contents, Rp!Targets
<1>3. /\ op' \in [Slots -> RpStep] /\ RpStepOK(s)' /\ \A t \in Slots \ {s} : op'[t] = op[t]
      /\ UNCHANGED <<sweep, requests, crashes>>
  BY <1>1, RpEnds
<1>4. ASSUME NEW r \in Tickets
      PROVE  /\ report'[r] \in RpReport /\ RpReportOK(report'[r], files', punished')
             /\ report'[r].status = report[r].status /\ report'[r].proof = report[r].proof
             /\ report'[r].on = report[r].on \/ report[r].on \in Posts
  <2>1. /\ report[r] \in RpReport /\ RpReportOK(report[r], files, punished)
        /\ punished \subseteq People \X (Rp!WithAction \ {"RESOLVED_REMOVED"})
    BY DEF RpInv, RpShape
  <2>2. CASE report[r].on # op[s].on
    <3>1. report'[r] = report[r]
      BY <1>1, <2>2
    <3> QED BY <1>1, <2>1, <3>1
  <2>3. CASE report[r].on = op[s].on
    <3>1. report'[r] = [report[r] EXCEPT !.on = None]
      BY <1>1, <2>3
    <3>2. /\ report'[r] \in RpReport /\ report'[r].on = None
          /\ report'[r].status = report[r].status /\ report'[r].proof = report[r].proof
      BY <2>1, <3>1 DEF RpReport
    <3>3. report[r].proof = "none" /\ report[r].status \notin Rp!WithAction \ {"RESOLVED_REMOVED"}
      BY <1>2, <2>1, <2>3 DEF RpReportOK, RpReport
    <3>4. RpReportOK(report'[r], files', punished')
      BY <1>2, <3>2, <3>3 DEF RpReportOK
    <3> QED BY <1>2, <2>3, <3>2, <3>4
  <2> QED BY <2>2, <2>3
<1>5. report' \in [Tickets -> RpReport]
  BY <1>1, <1>4
<1>6. RpGrows
  BY <1>1, <1>4 DEF RpGrows, Rp!Exists
<1> QED BY <1>1, <1>3, <1>4, <1>5, <1>6, RpKeeps, RpSweepStays DEF RpInv, RpShape

\* The message is removed.
LEMMA RpRemoveMessage == ASSUME RpInv, NEW s \in Slots, Rp!removeReportedMessage(s) PROVE RpInv'
<1>1. /\ op[s].at = "remove" /\ op[s].on \in Flagged /\ Rp!Goes(s, "media")
      /\ shown' = shown \ {op[s].on} /\ UNCHANGED <<report, files, punished, trail, takenBy>>
      /\ RpStepOK(s) /\ op[s] \in RpStep
  BY DEF Rp!removeReportedMessage, RpInv, RpShape
<1>2. /\ op' \in [Slots -> RpStep] /\ op'[s] = [op[s] EXCEPT !.at = "media"]
      /\ \A t \in Slots \ {s} : op'[t] = op[t]
      /\ UNCHANGED <<sweep, requests, crashes>>
  BY <1>1, RpGoes
<1>3. op'[s].at = "media" /\ op'[s].id = op[s].id /\ op'[s].on = op[s].on
  BY <1>1, <1>2 DEF RpStep
<1>4. RpStepOK(s)'
  BY <1>1, <1>3 DEF RpStepOK, Rp!Exists
<1> QED BY <1>1, <1>2, <1>4, RpKeeps, RpReportsStay, RpSweepStays DEF RpInv, RpShape


\* The media of the message goes, unless it is retained.
LEMMA RpRemoveMedia == ASSUME RpInv, NEW s \in Slots, Rp!removeMedia(s) PROVE RpInv'
<1>1. /\ op[s].at = "media" /\ Rp!Ends(s) /\ UNCHANGED <<report, shown, punished, trail>>
      /\ op[s].on \in Flagged /\ op[s].id \in Tickets
  BY DEF Rp!removeMedia, RpInv, RpStepOK
<1>2. /\ op' \in [Slots -> RpStep] /\ RpStepOK(s)' /\ \A t \in Slots \ {s} : op'[t] = op[t]
      /\ UNCHANGED <<sweep, requests, crashes>>
  BY <1>1, RpEnds
<1>3. CASE UNCHANGED <<files, takenBy>>
  BY <1>1, <1>2, <1>3, RpKeeps, RpReportsStay, RpSweepStays DEF RpInv, RpShape
<1>4. CASE ~Rp!Retained(s)
           /\ Rp!Takes(op[s].on, IF Rp!Exists(op[s].id) THEN "removal" ELSE "deletion")
  <2>1. op[s].on \in Rp!Contents
    BY <1>1 DEF Rp!Contents
  <2>2. Rp!Exists(op[s].id) => op[s].on \notin files
    <3> SUFFICES ASSUME Rp!Exists(op[s].id) PROVE op[s].on \notin files
      OBVIOUS
    <3>1. report[op[s].id].on = op[s].on /\ RpReportOK(report[op[s].id], files, punished)
      BY <1>1 DEF RpInv, RpStepOK
    <3>2. report[op[s].id].proof = "purged"
      BY <1>1, <1>4, <3>1 DEF RpReportOK, Rp!Exists, Rp!Retained, RpInv, RpShape, RpReport
    <3> QED BY <3>1, <3>2 DEF RpReportOK
  <2>3. /\ files' \subseteq files /\ \A m \in Flagged : takenBy'[m] # "removal"
        /\ takenBy' \in [Rp!Contents -> {None, "author", "removal", "deletion", "retention"}]
    BY <1>4, <2>1, <2>2, RpTakes
  <2> QED BY <1>1, <1>2, <2>3, RpKeeps, RpReportsStay, RpSweepStays DEF RpInv, RpShape
<1> QED BY <1>3, <1>4 DEF Rp!removeMedia

\* The user is suspended or banned.
LEMMA RpModerate ==
  ASSUME RpInv, NEW s \in Slots, NEW r \in Tickets, NEW st \in {"RESOLVED_SUSPENDED", "RESOLVED_BANNED"},
         Rp!moderateReportedUser(s, r, st)
  PROVE  RpInv'
<1> DEFINE o == [Rp!Free EXCEPT !.at = "close", !.id = r, !.as = st]
<1>1. /\ Rp!Exists(r) /\ report[r].on \in People /\ Rp!Begin(s, o)
      /\ punished' = punished \cup {<<report[r].on, st>>}
      /\ UNCHANGED <<report, shown, files, trail, takenBy>>
  BY DEF Rp!moderateReportedUser
<1>2. o \in RpStep /\ o.at = "close" /\ o.id = r /\ o.as = st
  BY DEF RpStep, Rp!Free, RpStatuses, Rp!WithAction
<1> HIDE DEF o
<1>3. /\ op' \in [Slots -> RpStep] /\ op'[s] = o /\ \A t \in Slots \ {s} : op'[t] = op[t]
      /\ UNCHANGED <<sweep, crashes>>
  BY <1>1, <1>2, RpBegins
<1>4. /\ punished \subseteq punished'
         /\ punished' \subseteq People \X (Rp!WithAction \ {"RESOLVED_REMOVED"})
  BY <1>1 DEF RpInv, RpShape, Rp!WithAction
<1>5. RpStepOK(s)'
  BY <1>1, <1>2, <1>3 DEF RpStepOK, Rp!Exists
<1> QED BY <1>1, <1>3, <1>4, <1>5, RpKeeps, RpReportsStay, RpSweepStays DEF RpInv, RpShape

\* The report is closed after the punishment.
LEMMA RpClose == ASSUME RpInv, NEW s \in Slots, Rp!closeReport(s) PROVE RpInv'
<1>1. /\ op[s].at = "close" /\ Rp!Ends(s) /\ UNCHANGED <<shown, files, punished, takenBy>>
      /\ op[s].id \in Tickets /\ op[s].as \in {"RESOLVED_SUSPENDED", "RESOLVED_BANNED"}
      /\ Rp!Exists(op[s].id) => <<report[op[s].id].on, op[s].as>> \in punished
  BY DEF Rp!closeReport, RpInv, RpStepOK
<1>2. /\ op' \in [Slots -> RpStep] /\ RpStepOK(s)' /\ \A t \in Slots \ {s} : op'[t] = op[t]
      /\ UNCHANGED <<sweep, requests, crashes>>
  BY <1>1, RpEnds
<1>3. CASE UNCHANGED <<report, trail>>
  BY <1>1, <1>2, <1>3, RpKeeps, RpReportsStay, RpSweepStays DEF RpInv, RpShape
<1>4. CASE Rp!updateReportResolution(op[s].id, op[s].as)
  <2>1. Rp!Exists(op[s].id)
    BY <1>4 DEF Rp!updateReportResolution, Rp!Resolvable
  <2>2. op[s].as \in RpStatuses \ {"none", "deleted"}
    BY <1>1 DEF RpStatuses, Rp!WithAction
  <2>3. /\ report' \in [Tickets -> RpReport] /\ trail' \in [Tickets -> SUBSET RpStatuses] /\ RpGrows
        /\ \A q \in Tickets : RpReportOK(report'[q], files', punished')
    BY <1>1, <1>4, <2>1, <2>2, RpResolution
  <2> QED BY <1>1, <1>2, <2>3, RpKeeps, RpSweepStays DEF RpInv, RpShape
<1> QED BY <1>3, <1>4 DEF Rp!closeReport

\* The deletion of a report begins.
LEMMA RpRemoveReport == ASSUME RpInv, NEW s \in Slots, NEW r \in Tickets, Rp!removeReport(s, r) PROVE RpInv'
<1> DEFINE o == [Rp!Free EXCEPT !.at = "delete", !.id = r, !.as = report[r].status]
<1>1. Rp!Exists(r) /\ Rp!Begin(s, o) /\ UNCHANGED Rp!moderation /\ report[r] \in RpReport
  BY DEF Rp!removeReport, RpInv, RpShape
<1>2. o \in RpStep /\ o.at = "delete" /\ o.id = r
  BY <1>1 DEF RpStep, Rp!Free, RpReport
<1> HIDE DEF o
<1>3. /\ op' \in [Slots -> RpStep] /\ op'[s] = o /\ \A t \in Slots \ {s} : op'[t] = op[t]
      /\ UNCHANGED <<sweep, crashes>>
  BY <1>1, <1>2, RpBegins
<1>4. UNCHANGED <<report, shown, files, punished, trail, takenBy>>
  BY <1>1 DEF Rp!moderation
<1>5. RpStepOK(s)'
  BY <1>1, <1>2, <1>3, <1>4 DEF RpStepOK, Rp!Exists
<1> QED BY <1>3, <1>4, <1>5, RpKeeps, RpReportsStay, RpSweepStays DEF RpInv, RpShape

\* The report is deleted.
LEMMA RpDeleteReport == ASSUME RpInv, NEW s \in Slots, Rp!deleteReportById(s) PROVE RpInv'
<1> DEFINE o == IF Rp!Retained(s) THEN [Rp!Free EXCEPT !.at = "unlink", !.on = report[op[s].id].on] ELSE Rp!Free
<1>1. /\ op[s].at = "delete" /\ Rp!Exists(op[s].id) /\ op' = [op EXCEPT ![s] = o]
      /\ report' = [report EXCEPT ![op[s].id] = Rp!Deleted]
      /\ trail' = [trail EXCEPT ![op[s].id] = {}]
      /\ UNCHANGED <<shown, files, punished, takenBy, sweep, requests, crashes>>
  BY DEF Rp!deleteReportById
<1>2. PICK r \in Tickets : r = op[s].id
  BY <1>1 DEF RpInv, RpStepOK
<1>3. /\ report[r] \in RpReport /\ RpReportOK(report[r], files, punished)
      /\ report \in [Tickets -> RpReport] /\ trail \in [Tickets -> SUBSET RpStatuses]
         /\ op \in [Slots -> RpStep]
  BY DEF RpInv, RpShape
<1>4. o \in RpStep /\ (o.at = "idle" \/ (o.at = "unlink" /\ o.on \in Flagged))
  <2>1. CASE ~Rp!Retained(s)
    BY <2>1, RpFree
  <2>2. CASE Rp!Retained(s)
    <3>1. report[r].on \in Flagged
      BY <1>2, <1>3, <2>2 DEF Rp!Retained, RpReportOK
    <3> QED BY <1>2, <2>2, <3>1 DEF RpStep, Rp!Free, Rp!Targets, Rp!Contents
  <2> QED BY <2>1, <2>2
<1> HIDE DEF o
<1>5. op' \in [Slots -> RpStep] /\ op'[s] = o /\ \A t \in Slots \ {s} : op'[t] = op[t]
  BY <1>1, <1>3, <1>4
<1>6. /\ Rp!Deleted \in RpReport /\ Rp!Deleted.status = "deleted" /\ Rp!Deleted.proof = "none"
         /\ Rp!Deleted.on = None
  BY DEF Rp!Deleted, Rp!NoReport, RpReport, RpStatuses
<1>7. /\ report' \in [Tickets -> RpReport] /\ trail' \in [Tickets -> SUBSET RpStatuses]
         /\ report'[r] = Rp!Deleted
      /\ \A q \in Tickets \ {r} : report'[q] = report[q] /\ trail'[q] = trail[q]
  BY <1>1, <1>2, <1>3, <1>6
<1>8. RpReportOK(Rp!Deleted, files', punished')
  BY <1>6, RpA DEF RpReportOK, Rp!WithAction, Rp!ReportsAssumption, Rp!Targets, Rp!Contents
<1>9. \A q \in Tickets : RpReportOK(report'[q], files', punished')
  BY <1>1, <1>7, <1>8 DEF RpInv
<1>10. RpGrows
  BY <1>1, <1>6, <1>7 DEF RpGrows, Rp!Exists
<1>11. RpStepOK(s)'
  BY <1>4, <1>5 DEF RpStepOK
<1> QED BY <1>1, <1>5, <1>7, <1>9, <1>10, <1>11, RpKeeps, RpSweepStays DEF RpInv, RpShape

\* The deletion of the report fails.
LEMMA RpDeleteFails == ASSUME RpInv, NEW s \in Slots, Rp!deleteFails(s) PROVE RpInv'
<1>1. Rp!Ends(s) /\ UNCHANGED <<report, shown, files, punished, trail, takenBy>>
  BY DEF Rp!deleteFails, Rp!moderation
<1>2. /\ op' \in [Slots -> RpStep] /\ RpStepOK(s)' /\ \A t \in Slots \ {s} : op'[t] = op[t]
      /\ UNCHANGED <<sweep, requests, crashes>>
  BY <1>1, RpEnds
<1> QED BY <1>1, <1>2, RpKeeps, RpReportsStay, RpSweepStays DEF RpInv, RpShape

\* Files go with the deleted report or the deleted message.
LEMMA RpUnlink ==
  ASSUME RpInv, NEW s \in Slots, Rp!unlinkRetained(s) \/ Rp!deleteOwnMedia(s)
  PROVE  RpInv'
<1>1. /\ op[s].at \in {"unlink", "mine"} /\ Rp!Ends(s)
         /\ UNCHANGED <<report, shown, punished, trail>>
      /\ Rp!Takes(op[s].on, "deletion") \/ Rp!Takes(op[s].on, "author")
  BY DEF Rp!unlinkRetained, Rp!deleteOwnMedia
<1>2. /\ op' \in [Slots -> RpStep] /\ RpStepOK(s)' /\ \A t \in Slots \ {s} : op'[t] = op[t]
      /\ UNCHANGED <<sweep, requests, crashes>>
  BY <1>1, RpEnds
<1>3. op[s].on \in Rp!Contents
  BY <1>1 DEF RpInv, RpStepOK, Rp!Contents
<1>4. /\ files' \subseteq files /\ \A m \in Flagged : takenBy'[m] # "removal"
      /\ takenBy' \in [Rp!Contents -> {None, "author", "removal", "deletion", "retention"}]
  BY <1>1, <1>3, RpTakes
<1> QED BY <1>1, <1>2, <1>4, RpKeeps, RpReportsStay, RpSweepStays DEF RpInv, RpShape

\* An author deletes a message.
LEMMA RpDeleteMessage ==
  ASSUME RpInv, NEW s \in Slots, NEW m \in Flagged, Rp!deleteMessage(s, m)
  PROVE  RpInv'
<1> DEFINE o == [Rp!Free EXCEPT !.at = "mine", !.on = m]
<1>1. /\ Rp!Begin(s, o) /\ shown' = shown \ {m}
         /\ UNCHANGED <<report, files, punished, trail, takenBy>>
  BY DEF Rp!deleteMessage
<1>2. o \in RpStep /\ o.at = "mine" /\ o.on = m
  BY DEF RpStep, Rp!Free, Rp!Targets, Rp!Contents
<1> HIDE DEF o
<1>3. /\ op' \in [Slots -> RpStep] /\ op'[s] = o /\ \A t \in Slots \ {s} : op'[t] = op[t]
      /\ UNCHANGED <<sweep, crashes>>
  BY <1>1, <1>2, RpBegins
<1>4. RpStepOK(s)'
  BY <1>2, <1>3 DEF RpStepOK
<1> QED BY <1>1, <1>3, <1>4, RpKeeps, RpReportsStay, RpSweepStays DEF RpInv, RpShape

\* The sweep purges the media, then the row.
LEMMA RpPurge == ASSUME RpInv, Rp!purgeMedia \/ Rp!purgeRow PROVE RpInv'
<1>1. CASE Rp!purgeMedia
  <2>1. PICK r \in Tickets : /\ Rp!Due(r) /\ Rp!Takes(report[r].on, "retention")
                             /\ sweep' = [at |-> "row", id |-> r]
    BY <1>1 DEF Rp!purgeMedia
  <2>2. UNCHANGED <<report, shown, punished, trail, op, requests, crashes>>
    BY <1>1 DEF Rp!purgeMedia
  <2>3. report[r].proof = "kept" /\ report[r].on \in Rp!Contents /\ report[r].status # "none"
    BY <2>1 DEF Rp!Due, RpInv, RpReportOK, Rp!Contents
  <2>4. /\ files' \subseteq files /\ \A m \in Flagged : takenBy'[m] # "removal"
        /\ takenBy' \in [Rp!Contents -> {None, "author", "removal", "deletion", "retention"}]
        /\ report[r].on \notin files'
    BY <2>1, <2>3, RpTakes
  <2>5. RpSweepOK'
    BY <2>1, <2>2, <2>3, <2>4 DEF RpSweepOK
  <2>6. \A s \in Slots : RpStepOK(s)'
    BY <2>2, RpSame, RpStepStays
  <2> QED BY <2>1, <2>2, <2>4, <2>5, <2>6, RpReportsStay DEF RpInv, RpShape
<1>2. CASE Rp!purgeRow
  <2>1. /\ sweep.at = "row" /\ sweep' = [at |-> "idle", id |-> None]
        /\ report' = IF Rp!Due(sweep.id) THEN [report EXCEPT ![sweep.id].proof = "purged"] ELSE report
        /\ UNCHANGED <<shown, files, punished, trail, takenBy, op, requests, crashes>>
    BY <1>2 DEF Rp!purgeRow
  <2>2. PICK r \in Tickets : r = sweep.id
    BY <2>1 DEF RpInv, RpSweepOK
  <2>3. /\ report[r] \in RpReport /\ RpReportOK(report[r], files, punished)
        /\ report \in [Tickets -> RpReport]
    BY DEF RpInv, RpShape
  <2>4. CASE ~Rp!Due(r)
    <3>1. UNCHANGED <<report, trail>>
      BY <2>1, <2>2, <2>4
    <3>2. \A s \in Slots : RpStepOK(s)'
      BY <2>1, <3>1, RpSame, RpStepStays
    <3> QED BY <2>1, <3>1, <3>2, RpReportsStay DEF RpInv, RpShape, RpSweepOK
  <2>5. CASE Rp!Due(r)
    <3>1. report' = [report EXCEPT ![r].proof = "purged"] /\ report[r].proof = "kept"
      BY <2>1, <2>2, <2>5 DEF Rp!Due
    <3>2. report'[r] = [report[r] EXCEPT !.proof = "purged"]
          /\ \A q \in Tickets \ {r} : report'[q] = report[q]
      BY <2>3, <3>1
    <3>3. /\ report'[r] \in RpReport /\ report'[r].on = report[r].on /\ report'[r].proof = "purged"
          /\ report'[r].status = report[r].status
      BY <2>3, <3>2 DEF RpReport
    <3>4. report' \in [Tickets -> RpReport]
      BY <2>3, <3>1, <3>3
    <3>5. report[r].on \notin files
      BY <2>1, <2>2, <3>1 DEF RpInv, RpSweepOK
    <3>6. RpReportOK(report'[r], files', punished')
      BY <2>1, <2>3, <3>1, <3>3, <3>5 DEF RpReportOK
    <3>7. \A q \in Tickets : RpReportOK(report'[q], files', punished')
      BY <2>1, <3>2, <3>6 DEF RpInv
    <3>8. RpGrows
      BY <2>1, <3>1, <3>2, <3>3 DEF RpGrows, Rp!Exists
    <3>9. \A s \in Slots : RpStepOK(s)'
      BY <2>1, <3>8, RpStepStays
    <3> QED BY <2>1, <3>4, <3>7, <3>9 DEF RpInv, RpShape, RpSweepOK
  <2> QED BY <2>4, <2>5
<1> QED BY <1>1, <1>2

\* The process stops and its requests with it.
LEMMA RpCrash == ASSUME RpInv, Rp!crash PROVE RpInv'
<1>1. /\ op' = [s \in Slots |-> Rp!Free] /\ sweep' = [at |-> "idle", id |-> None]
      /\ UNCHANGED <<report, shown, files, punished, trail, takenBy>>
  BY DEF Rp!crash, Rp!moderation
<1>2. /\ op' \in [Slots -> RpStep] /\ \A s \in Slots : RpStepOK(s)'
  BY <1>1, RpFree DEF RpStepOK
<1> QED BY <1>1, <1>2, RpReportsStay DEF RpInv, RpShape, RpSweepOK

\* Every step of the reports keeps their invariant.
LEMMA RpInvNext == RpInv /\ [Rp!Next]_(Rp!vars) => RpInv'
<1> SUFFICES ASSUME RpInv, [Rp!Next]_(Rp!vars) PROVE RpInv'
  OBVIOUS
<1>1. CASE Rp!Next
  BY <1>1, RpReportTarget, RpCreateReport, RpResolve, RpRemoveTarget, RpRemoveFiles, RpDeleteRow,
     RpRemoveMessage, RpRemoveMedia, RpModerate, RpClose, RpRemoveReport, RpDeleteReport,
     RpDeleteFails,
     RpUnlink, RpDeleteMessage, RpPurge, RpCrash DEF Rp!Next
<1>2. CASE UNCHANGED Rp!vars
  <2>1. UNCHANGED <<report, shown, files, punished, trail, takenBy, op, sweep>>
    BY <1>2 DEF Rp!vars, Rp!moderation
  <2>2. \A s \in Slots : RpStepOK(s)'
    BY <2>1, RpSame, RpStepStays
  <2> QED BY <2>1, <2>2, RpReportsStay DEF RpInv, RpShape, RpSweepOK
<1> QED BY <1>1, <1>2

\* The properties of the reports follow from their invariant.
LEMMA RpFollows == RpInv => Rp!TypeOK /\ Rp!RemovalSparesEvidence /\ Rp!TrailIsTrue
<1> SUFFICES ASSUME RpInv PROVE Rp!TypeOK /\ Rp!RemovalSparesEvidence /\ Rp!TrailIsTrue
  OBVIOUS
<1>1. Rp!TypeOK
  <2>1. \A r \in Tickets : report[r] \in RpReport
    BY DEF RpInv, RpShape
  <2>2. \A s \in Slots : op[s] \in RpStep
    BY DEF RpInv, RpShape
  <2>3. /\ shown \subseteq Rp!Contents /\ files \subseteq Rp!Contents
           /\ punished \subseteq People \X Rp!WithAction
        /\ sweep.at \in {"idle", "row"} /\ sweep.id \in Tickets \cup {None}
    BY DEF RpInv, RpShape
  <2> QED BY <2>1, <2>2, <2>3 DEF Rp!TypeOK, RpReport, RpStep, RpStatuses
<1>2. Rp!RemovalSparesEvidence
  BY DEF RpInv, RpReportOK, Rp!RemovalSparesEvidence
<1>3. Rp!TrailIsTrue
  BY DEF RpInv, RpReportOK, RpStepOK, Rp!TrailIsTrue
<1> QED BY <1>1, <1>2, <1>3

-----------------------------------------------------------------------------
\* What is assumed of the constants of the sign-ins.
LEMMA SiA == Si!SignInAssumption
BY TalkAssumption

-----------------------------------------------------------------------------
(* Signing in. *)

SiRec ==
  [status : {"ACTIVE", "PENDING_DELETION", "ANONYMIZED"}, email : Emails \cup {None},
   username : Usernames \cup {None}, password : BOOLEAN]

\* An account found for an identity: it has its address as long as it lives.
SiKnown(i, u) ==
  u \in Si!Rows /\ (u \in Si!Live => row[u].email = EmailOf[i])

SiPart(s) ==
  LET o == op[s] IN
  /\ o.at = "create" => o.email \in Emails /\ o.username \in Usernames
  /\ o.at \in {"email", "name", "insert"} => o.id \in Identities
  /\ o.at = "insert" => o.username \in Usernames
  /\ o.at \in {"link", "reactivate", "load"} => o.id \in Identities /\ SiKnown(o.id, o.user)

SiShape ==
  /\ row \in [Users -> SiRec \cup {Si!NoRow}] /\ social \in [Identities -> Users \cup {None}]
  /\ met \in [Identities -> Users \cup {None}] /\ requests \in 0..Requests["signin"]
  /\ split \in BOOLEAN /\ overtaken \subseteq Identities /\ DOMAIN op = Slots

SiAccounts ==
  /\ \A u, v \in Si!Live : row[u].email = row[v].email => u = v
  /\ \A i \in Identities : social[i] # None => SiKnown(i, social[i])
  /\ \A i \in Identities : met[i] # None => SiKnown(i, met[i])
  /\ \A u \in Si!Live : ~row[u].password => \E i \in Identities : social[i] = u
  /\ \A i \in Identities \ overtaken : social[i] \in Si!Live \cup {None}

SiInv == SiShape /\ SiAccounts /\ ~split /\ \A s \in Slots : SiPart(s)

\* The constants, and the rows that a sign-up makes.
LEMMA SiPar ==
  /\ EmailOf \in [Identities -> Emails] /\ None \notin Users /\ Requests["signin"] \in Nat
  /\ \A r \in SiRec : r # Si!NoRow
  /\ \A e \in Emails, n \in Usernames, p \in BOOLEAN :
       /\ Si!NewRow(e, n, p) \in SiRec /\ Si!NewRow(e, n, p).status = "ACTIVE"
       /\ Si!NewRow(e, n, p).email = e /\ Si!NewRow(e, n, p).password = p
BY SiA DEF Si!SignInAssumption, SiRec, Si!NoRow, Si!NewRow

\* Which rows are of a person.
LEMMA SiLives ==
  ASSUME NEW u
  PROVE  u \in Si!Live <=> u \in Users /\ row[u] # Si!NoRow /\ row[u].status # "ANONYMIZED"
BY DEF Si!Live, Si!Rows

\* A request goes on; no account is lost, and none that lives gets another address.
LEMMA SiStep ==
  ASSUME SiInv, NEW s \in Slots, NEW to, op' = [op EXCEPT ![s] = to],
         Si!Rows \subseteq Si!Rows',
         \A u \in Si!Rows : u \in Si!Live' => u \in Si!Live /\ row'[u].email = row[u].email,
         /\ to.at = "create" => to.email \in Emails /\ to.username \in Usernames
         /\ to.at \in {"email", "name", "insert"} => to.id \in Identities
         /\ to.at = "insert" => to.username \in Usernames
         /\ to.at \in {"link", "reactivate", "load"} => to.id \in Identities
            /\ SiKnown(to.id, to.user)'
  PROVE  DOMAIN op' = Slots /\ \A t \in Slots : SiPart(t)'
<1>1. DOMAIN op' = Slots /\ op'[s] = to /\ \A t \in Slots \ {s} : op'[t] = op[t]
  BY DEF SiInv, SiShape
<1>2. SiPart(s)'
  BY <1>1 DEF SiPart, SiKnown
<1>3. ASSUME NEW t \in Slots \ {s} PROVE SiPart(t)'
  <2>1. SiPart(t) /\ op'[t] = op[t]
    BY <1>1 DEF SiInv
  <2>2. op[t].at \in {"link", "reactivate", "load"} => SiKnown(op[t].id, op[t].user)'
    BY <2>1 DEF SiPart, SiKnown
  <2> QED BY <2>1, <2>2 DEF SiPart, SiKnown
<1> QED BY <1>1, <1>2, <1>3

\* The accounts do not change.
LEMMA SiSame ==
  ASSUME SiInv, UNCHANGED <<row, social, met, split, overtaken>>, requests' \in 0..Requests["signin"],
         DOMAIN op' = Slots
  PROVE  SiShape' /\ SiAccounts' /\ ~split' /\ Si!Rows' = Si!Rows /\ Si!Live' = Si!Live
<1>1. Si!Rows' = Si!Rows /\ Si!Live' = Si!Live
  BY DEF Si!Rows, Si!Live
<1>2. SiShape' /\ ~split'
  BY DEF SiInv, SiShape
<1>3. SiAccounts'
  BY <1>1 DEF SiInv, SiAccounts, SiKnown
<1> QED BY <1>1, <1>2, <1>3

\* A request begins and the others stay.
LEMMA SiStarts ==
  ASSUME SiInv, NEW s \in Slots, NEW to, Si!Starts(s, to)
  PROVE  op' = [op EXCEPT ![s] = to] /\ requests' \in 0..Requests["signin"]
BY SiPar DEF Si!Starts, SiInv, SiShape

\* A request goes on and the others stay.
LEMMA SiGoes ==
  ASSUME SiInv, NEW s \in Slots, NEW to, Si!Goes(s, to)
  PROVE  op' = [op EXCEPT ![s] = to] /\ requests' = requests /\ requests' \in 0..Requests["signin"]
BY DEF Si!Goes, SiInv, SiShape

\* A step of a request that changes no account.
LEMMA SiReads ==
  ASSUME SiInv, NEW s \in Slots, NEW to, Si!Starts(s, to) \/ Si!Goes(s, to),
         UNCHANGED <<row, social, met, split, overtaken>>,
         to.at = "create" => to.email \in Emails /\ to.username \in Usernames,
         to.at \in {"email", "name", "insert"} => to.id \in Identities,
         to.at = "insert" => to.username \in Usernames,
         to.at \in {"link", "reactivate", "load"} => to.id \in Identities /\ SiKnown(to.id, to.user)
  PROVE  SiInv'
<1>1. op' = [op EXCEPT ![s] = to] /\ requests' \in 0..Requests["signin"]
  BY SiStarts, SiGoes
<1>2. Si!Rows' = Si!Rows /\ Si!Live' = Si!Live /\ row' = row
  BY DEF Si!Rows, Si!Live
<1>3. to.at \in {"link", "reactivate", "load"} => to.id \in Identities /\ SiKnown(to.id, to.user)'
  BY <1>2 DEF SiKnown
<1>4. DOMAIN op' = Slots /\ \A t \in Slots : SiPart(t)'
  BY <1>1, <1>2, <1>3, SiStep
<1> QED BY <1>1, <1>4, SiSame DEF SiInv

\* A row changes its status, and lives on as before.
LEMMA SiStatus ==
  ASSUME SiInv, NEW u \in Si!Live, NEW x \in {"ACTIVE", "PENDING_DELETION"},
         row' = [row EXCEPT ![u].status = x], UNCHANGED <<social, met, split, overtaken>>,
         requests' \in 0..Requests["signin"], DOMAIN op' = Slots
  PROVE  /\ SiShape' /\ SiAccounts' /\ ~split' /\ Si!Rows' = Si!Rows /\ Si!Live' = Si!Live
         /\ \A v \in Si!Rows : row'[v].email = row[v].email
<1>1. u \in Users /\ row[u] \in SiRec /\ row[u].status # "ANONYMIZED"
  BY SiLives DEF SiInv, SiShape
<1>2. row'[u] = [row[u] EXCEPT !.status = x]
  BY <1>1 DEF SiInv, SiShape
<1>3. /\ row'[u] \in SiRec /\ row'[u].status = x /\ row'[u].email = row[u].email
      /\ row'[u].password = row[u].password
  BY <1>1, <1>2 DEF SiRec
<1>4. \A v \in Users \ {u} : row'[v] = row[v]
  BY <1>1 DEF SiInv, SiShape
<1>5. row' \in [Users -> SiRec \cup {Si!NoRow}]
  BY <1>1, <1>3 DEF SiInv, SiShape
<1>6. Si!Rows' = Si!Rows /\ Si!Live' = Si!Live
  <2>1. row[u] # Si!NoRow /\ row'[u] # Si!NoRow
    BY <1>1, <1>3, SiPar
  <2>2. Si!Rows' = Si!Rows
    BY <1>4, <2>1 DEF Si!Rows
  <2>3. \A v \in Si!Rows : row'[v].status # "ANONYMIZED" <=> row[v].status # "ANONYMIZED"
    BY <1>1, <1>3, <1>4 DEF Si!Rows
  <2> QED BY <2>2, <2>3 DEF Si!Live
<1>7. \A v \in Si!Rows : row'[v].email = row[v].email /\ row'[v].password = row[v].password
  BY <1>3, <1>4 DEF Si!Rows
<1>8. SiAccounts'
  <2>1. Si!Live \subseteq Si!Rows
    BY DEF Si!Live
  <2>2. \A v, w \in Si!Live' : row'[v].email = row'[w].email => v = w
    BY <1>6, <1>7, <2>1 DEF SiInv, SiAccounts
  <2>3. \A i, v : SiKnown(i, v) => SiKnown(i, v)'
    BY <1>6, <1>7, <2>1 DEF SiKnown
  <2>4. \A i \in Identities : /\ social'[i] # None => SiKnown(i, social[i])'
                              /\ met'[i] # None => SiKnown(i, met[i])'
    <3>1. \A i \in Identities : /\ social[i] # None => SiKnown(i, social[i])
                                /\ met[i] # None => SiKnown(i, met[i])
      BY DEF SiInv, SiAccounts
    <3> QED BY <1>6, <1>7, <2>1, <3>1 DEF SiKnown
  <2>5. \A v \in Si!Live' : ~row'[v].password => \E i \in Identities : social'[i] = v
    BY <1>6, <1>7, <2>1 DEF SiInv, SiAccounts
  <2>6. \A i \in Identities \ overtaken' : social'[i] \in Si!Live' \cup {None}
    BY <1>6 DEF SiInv, SiAccounts
  <2> QED BY <2>2, <2>4, <2>5, <2>6 DEF SiAccounts
<1> QED BY <1>5, <1>6, <1>7, <1>8 DEF SiInv, SiShape

-----------------------------------------------------------------------------
(* Registering. *)

\* A row is made: the address was free, and its identity, if it has one.
LEMMA SiMakes ==
  ASSUME SiInv, NEW u \in Si!Unused, NEW e \in Emails, NEW n \in Usernames, NEW p \in BOOLEAN,
         Si!HasEmail(e) = {}, row' = [row EXCEPT ![u] = Si!NewRow(e, n, p)],
         UNCHANGED <<met, split, overtaken>>, requests' \in 0..Requests["signin"], DOMAIN op' = Slots,
         \/ p /\ social' = social
         \/ \E i \in Identities : /\ social[i] = None /\ EmailOf[i] = e
                                  /\ social' = [social EXCEPT ![i] = u]
  PROVE  /\ SiShape' /\ SiAccounts' /\ ~split' /\ Si!Rows' = Si!Rows \cup {u} /\ Si!Live' = Si!Live \cup {u}
         /\ \A v \in Si!Rows : row'[v] = row[v]
<1> DEFINE r == Si!NewRow(e, n, p)
<1>1. /\ r \in SiRec /\ r # Si!NoRow /\ r.status = "ACTIVE" /\ r.email = e /\ r.password = p
  BY SiPar
<1> HIDE DEF r
<1>2. u \in Users /\ row[u] = Si!NoRow /\ u \notin Si!Rows /\ u \notin Si!Live /\ u # None
  BY SiPar DEF Si!Unused, Si!Rows, Si!Live
<1>3. row'[u] = r /\ \A v \in Users \ {u} : row'[v] = row[v]
  BY <1>2 DEF SiInv, SiShape, r
<1>4. row' \in [Users -> SiRec \cup {Si!NoRow}]
  BY <1>1, <1>2, <1>3 DEF SiInv, SiShape
<1>5. Si!Rows' = Si!Rows \cup {u}
  BY <1>1, <1>2, <1>3 DEF Si!Rows
<1>6. Si!Live' = Si!Live \cup {u}
  BY <1>1, <1>2, <1>3, <1>5 DEF Si!Live, Si!Rows
<1>7. \A v \in Si!Rows : row'[v] = row[v] /\ v # u
  BY <1>2, <1>3 DEF Si!Rows
<1>8. Si!Live \subseteq Si!Rows /\ \A v \in Si!Live : row[v].email # e
  BY DEF Si!Live, Si!HasEmail
<1>9. social' \in [Identities -> Users \cup {None}]
      /\ \A i \in Identities : social'[i] \in {social[i], u}
  BY <1>2 DEF SiInv, SiShape
<1>10. \A i \in Identities : social'[i] # social[i] =>
         social'[i] = u /\ social[i] = None /\ EmailOf[i] = e
  BY DEF SiInv, SiShape
<1>11. SiShape'
  BY <1>4, <1>9 DEF SiInv, SiShape
<1>12. SiAccounts'
  <2>1. \A v, w \in Si!Live' : row'[v].email = row'[w].email => v = w
    BY <1>1, <1>3, <1>6, <1>7, <1>8 DEF SiInv, SiAccounts
  <2>2. \A i \in Identities : met'[i] # None => SiKnown(i, met[i])'
    <3>1. \A i \in Identities : met[i] # None => SiKnown(i, met[i])
      BY DEF SiInv, SiAccounts
    <3> QED BY <1>5, <1>6, <1>7, <3>1 DEF SiKnown
  <2>3. ASSUME NEW i \in Identities, social'[i] # None PROVE SiKnown(i, social[i])'
    <3>1. CASE social'[i] = social[i]
      <4>1. SiKnown(i, social[i])
        BY <2>3, <3>1 DEF SiInv, SiAccounts
      <4> QED BY <1>5, <1>6, <1>7, <3>1, <4>1 DEF SiKnown
    <3>2. CASE social'[i] # social[i]
      <4>1. social'[i] = u /\ EmailOf[i] = e
        BY <1>10, <3>2
      <4> QED BY <1>1, <1>3, <1>5, <4>1 DEF SiKnown
    <3> QED BY <3>1, <3>2
  <2>4. ASSUME NEW v \in Si!Live', ~row'[v].password PROVE \E i \in Identities : social'[i] = v
    <3>1. CASE v = u
      <4>1. ~p
        BY <1>1, <1>3, <2>4, <3>1
      <4>2. PICK i \in Identities : social' = [social EXCEPT ![i] = u]
        BY <4>1
      <4>3. social'[i] = u
        BY <4>2 DEF SiInv, SiShape
      <4> QED BY <3>1, <4>3
    <3>2. CASE v # u
      <4>1. v \in Si!Live /\ ~row[v].password
        BY <1>6, <1>7, <1>8, <2>4, <3>2
      <4>2. PICK i \in Identities : social[i] = v
        BY <4>1 DEF SiInv, SiAccounts
      <4>3. v # None
        BY <4>1, SiPar DEF Si!Live, Si!Rows
      <4> QED BY <1>10, <4>2, <4>3
    <3> QED BY <3>1, <3>2
  <2>5. \A i \in Identities \ overtaken' : social'[i] \in Si!Live' \cup {None}
    BY <1>6, <1>9 DEF SiInv, SiAccounts
  <2> QED BY <2>1, <2>2, <2>3, <2>4, <2>5 DEF SiAccounts
<1> QED BY <1>5, <1>6, <1>7, <1>11, <1>12 DEF SiInv

\* A registration begins: the address and the name are looked up.
LEMMA SiRegister ==
  ASSUME SiInv, NEW s \in Slots, NEW e \in Emails, NEW n \in Usernames, Si!registerUser(s, e, n)
  PROVE  SiInv'
<1> DEFINE to == [at |-> "create", email |-> e, username |-> n]
<1>1. Si!Starts(s, to) /\ UNCHANGED <<row, social, met, split, overtaken>>
  BY DEF Si!registerUser
<1>2. to.at = "create" /\ to.email = e /\ to.username = n
  OBVIOUS
<1> HIDE DEF to
<1> QED BY <1>1, <1>2, SiReads

\* The user is inserted, if the address and the name are still free.
LEMMA SiCreate ==
  ASSUME SiInv, NEW s \in Slots, Si!createUser(s)
  PROVE  SiInv'
<1>1. op[s].at = "create" /\ Si!Goes(s, Si!Idle) /\ UNCHANGED <<social, met, split, overtaken>>
  BY DEF Si!createUser
<1>2. op[s].email \in Emails /\ op[s].username \in Usernames
  BY <1>1 DEF SiInv, SiPart
<1>3. op' = [op EXCEPT ![s] = Si!Idle] /\ requests' \in 0..Requests["signin"] /\ DOMAIN op' = Slots
  BY <1>1, SiGoes DEF SiInv, SiShape
<1>4. Si!Idle.at = "idle"
  BY DEF Si!Idle
<1>5. CASE row' = row
  BY <1>1, <1>4, <1>5, SiReads
<1>6. CASE Si!HasEmail(op[s].email) = {} /\ \E u \in Si!Unused :
             row' = [row EXCEPT ![u] = Si!NewRow(op[s].email, op[s].username, TRUE)]
  <2>1. PICK u \in Si!Unused : row' = [row EXCEPT ![u] = Si!NewRow(op[s].email, op[s].username, TRUE)]
    BY <1>6
  <2>2. /\ SiShape' /\ SiAccounts' /\ ~split' /\ Si!Rows' = Si!Rows \cup {u}
           /\ Si!Live' = Si!Live \cup {u}
        /\ \A v \in Si!Rows : row'[v] = row[v]
    BY <1>1, <1>2, <1>3, <1>6, <2>1, SiMakes
  <2>3. \A v \in Si!Rows : v \in Si!Live' => v \in Si!Live
    BY <2>2 DEF Si!Unused, Si!Rows
  <2>4. DOMAIN op' = Slots /\ \A t \in Slots : SiPart(t)'
    BY <1>3, <1>4, <2>2, <2>3, SiStep
  <2> QED BY <2>2, <2>4 DEF SiInv
<1> QED BY <1>5, <1>6 DEF Si!createUser

-----------------------------------------------------------------------------
(* Signing in with a provider. *)

\* A sign-in looks its identity up.
LEMMA SiFindSocial ==
  ASSUME SiInv, NEW s \in Slots, NEW i \in Identities, Si!findSocialAccount(s, i)
  PROVE  SiInv'
<1>1. UNCHANGED <<row, social, met, split, overtaken>>
  BY DEF Si!findSocialAccount
<1>2. CASE social[i] = None
  <2>1. Si!Starts(s, Si!At("email", i)) /\ Si!At("email", i).at = "email"
        /\ Si!At("email", i).id = i
    BY <1>2 DEF Si!findSocialAccount, Si!At
  <2> QED BY <1>1, <2>1, SiReads
<1>3. CASE social[i] # None
  <2> DEFINE to == [at |-> "reactivate", id |-> i, user |-> social[i]]
  <2>1. Si!Starts(s, to) /\ to.at = "reactivate" /\ to.id = i /\ to.user = social[i]
    BY <1>3 DEF Si!findSocialAccount
  <2> HIDE DEF to
  <2>2. SiKnown(i, social[i])
    BY <1>3 DEF SiInv, SiAccounts
  <2> QED BY <1>1, <2>1, <2>2, SiReads
<1> QED BY <1>2, <1>3

\* A sign-in looks its address up.
LEMMA SiFindEmail ==
  ASSUME SiInv, NEW s \in Slots, Si!findUserByEmail(s)
  PROVE  SiInv'
<1> DEFINE i == op[s].id
<1>1. op[s].at = "email" /\ UNCHANGED <<row, social, met, split, overtaken>>
  BY DEF Si!findUserByEmail
<1>2. i \in Identities
  BY <1>1 DEF SiInv, SiPart
<1>3. CASE \E u \in Si!Linkable(i) : Si!Goes(s, [at |-> "link", id |-> i, user |-> u])
  <2>1. PICK u \in Si!Linkable(i) : Si!Goes(s, [at |-> "link", id |-> i, user |-> u])
    BY <1>3
  <2> DEFINE to == [at |-> "link", id |-> i, user |-> u]
  <2>2. Si!Goes(s, to) /\ to.at = "link" /\ to.id = i /\ to.user = u
    BY <2>1
  <2> HIDE DEF to
  <2>3. SiKnown(i, u)
    BY DEF SiKnown, Si!Linkable, Si!HasEmail, Si!Live
  <2> QED BY <1>1, <1>2, <2>2, <2>3, SiReads
<1>4. CASE Si!Goes(s, [at |-> "name", id |-> i, left |-> USERNAME_RETRY_ATTEMPTS])
  <2> DEFINE to == [at |-> "name", id |-> i, left |-> USERNAME_RETRY_ATTEMPTS]
  <2>1. Si!Goes(s, to) /\ to.at = "name" /\ to.id = i
    BY <1>4
  <2> HIDE DEF to
  <2> QED BY <1>1, <1>2, <2>1, SiReads
<1> QED BY <1>3, <1>4 DEF Si!findUserByEmail

\* The identity is linked to the user of the address.
LEMMA SiLink ==
  ASSUME SiInv, NEW s \in Slots, Si!createSocialAccount(s)
  PROVE  SiInv'
<1>1. op[s].at = "link" /\ UNCHANGED <<row, met, split>>
  BY DEF Si!createSocialAccount
<1>2. PICK i \in Identities, u \in Si!Rows : i = op[s].id /\ u = op[s].user /\ SiKnown(i, u)
  BY <1>1 DEF SiInv, SiPart, SiKnown
<1> DEFINE to == [at |-> "reactivate", id |-> i, user |-> u]
<1>3. CASE social[i] # None
  <2>1. Si!Goes(s, Si!Idle) /\ UNCHANGED <<social, overtaken>> /\ Si!Idle.at = "idle"
    BY <1>2, <1>3 DEF Si!createSocialAccount, Si!Idle
  <2> QED BY <1>1, <2>1, SiReads
<1>4. CASE social[i] = None
  <2>1. /\ social' = [social EXCEPT ![i] = u] /\ Si!Goes(s, to)
        /\ overtaken' = IF u \in Si!Live THEN overtaken ELSE overtaken \cup {i}
    BY <1>2, <1>4 DEF Si!createSocialAccount
  <2>2. to.at = "reactivate" /\ to.id = i /\ to.user = u
    OBVIOUS
  <2> HIDE DEF to
  <2>3. op' = [op EXCEPT ![s] = to] /\ requests' \in 0..Requests["signin"]
    BY <2>1, SiGoes
  <2>4. Si!Rows' = Si!Rows /\ Si!Live' = Si!Live /\ row' = row
    BY <1>1 DEF Si!Rows, Si!Live
  <2>5. \A j, v : SiKnown(j, v)' <=> SiKnown(j, v)
    BY <2>4 DEF SiKnown
  <2>6. DOMAIN op' = Slots /\ \A t \in Slots : SiPart(t)'
    BY <1>2, <2>2, <2>3, <2>4, <2>5, SiStep
  <2>7. social'[i] = u /\ \A j \in Identities \ {i} : social'[j] = social[j]
    BY <2>1 DEF SiInv, SiShape
  <2>8. SiShape'
    <3>1. u \in Users
      BY DEF Si!Rows
    <3> QED BY <1>1, <2>1, <2>3, <2>6, <3>1 DEF SiInv, SiShape
  <2>9. SiAccounts'
    <3>1. \A v, w \in Si!Live' : row'[v].email = row'[w].email => v = w
      BY <2>4 DEF SiInv, SiAccounts
    <3>2. \A j \in Identities : met'[j] # None => SiKnown(j, met[j])'
      <4>1. \A j \in Identities : met[j] # None => SiKnown(j, met[j])
        BY DEF SiInv, SiAccounts
      <4> QED BY <1>1, <2>4, <4>1 DEF SiKnown
    <3>3. \A j \in Identities : social'[j] # None => SiKnown(j, social[j])'
      <4>1. \A j \in Identities : social[j] # None => SiKnown(j, social[j])
        BY DEF SiInv, SiAccounts
      <4> QED BY <1>2, <2>4, <2>7, <4>1 DEF SiKnown
    <3>4. ASSUME NEW v \in Si!Live', ~row'[v].password PROVE \E j \in Identities : social'[j] = v
      <4>1. PICK j \in Identities : social[j] = v
        BY <2>4, <3>4 DEF SiInv, SiAccounts
      <4>2. v # None
        BY <2>4, SiPar DEF Si!Live, Si!Rows
      <4> QED BY <1>4, <2>7, <4>1, <4>2
    <3>5. \A j \in Identities \ overtaken' : social'[j] \in Si!Live' \cup {None}
      BY <2>1, <2>4, <2>7 DEF SiInv, SiAccounts
    <3> QED BY <3>1, <3>2, <3>3, <3>4, <3>5 DEF SiAccounts
  <2> QED BY <1>1, <2>6, <2>8, <2>9 DEF SiInv
<1> QED BY <1>3, <1>4

\* A free name is looked for.
LEMMA SiName ==
  ASSUME SiInv, NEW s \in Slots, Si!generateUniqueUsername(s)
  PROVE  SiInv'
<1>1. op[s].at = "name" /\ UNCHANGED <<row, social, met, split, overtaken>>
  BY DEF Si!generateUniqueUsername
<1>2. op[s].id \in Identities
  BY <1>1 DEF SiInv, SiPart
<1>3. PICK n \in Usernames :
        Si!Goes(s, [at |-> "insert", id |-> op[s].id, left |-> op[s].left, username |-> n])
  BY DEF Si!generateUniqueUsername
<1> DEFINE to == [at |-> "insert", id |-> op[s].id, left |-> op[s].left, username |-> n]
<1>4. Si!Goes(s, to) /\ to.at = "insert" /\ to.id = op[s].id /\ to.username = n
  BY <1>3
<1> HIDE DEF to
<1> QED BY <1>1, <1>2, <1>4, SiReads

\* A user is inserted with the identity.
LEMMA SiInsert ==
  ASSUME SiInv, NEW s \in Slots, Si!createUserWithSocialAccount(s)
  PROVE  SiInv'
<1>1. op[s].at = "insert" /\ UNCHANGED <<met, split, overtaken>>
  BY DEF Si!createUserWithSocialAccount
<1>2. PICK i \in Identities, n \in Usernames : i = op[s].id /\ n = op[s].username
  BY <1>1 DEF SiInv, SiPart
<1>3. CASE Si!HasEmail(EmailOf[i]) = {} /\ social[i] = None
             /\ \E u \in Si!Unused : Si!Inserts(u, i, n) /\ Si!Goes(s, Si!Loads(i, u))
  <2>1. PICK u \in Si!Unused : Si!Inserts(u, i, n) /\ Si!Goes(s, Si!Loads(i, u))
    BY <1>3
  <2>2. /\ row' = [row EXCEPT ![u] = Si!NewRow(EmailOf[i], n, FALSE)]
        /\ social' = [social EXCEPT ![i] = u]
    BY <2>1 DEF Si!Inserts
  <2>3. op' = [op EXCEPT ![s] = Si!Loads(i, u)] /\ requests' \in 0..Requests["signin"]
        /\ DOMAIN op' = Slots
    BY <2>1, SiGoes DEF SiInv, SiShape
  <2>4. EmailOf[i] \in Emails
    BY SiPar
  <2>5. /\ SiShape' /\ SiAccounts' /\ ~split' /\ Si!Rows' = Si!Rows \cup {u}
           /\ Si!Live' = Si!Live \cup {u}
        /\ \A v \in Si!Rows : row'[v] = row[v]
    BY <1>1, <1>3, <2>2, <2>3, <2>4, SiMakes
  <2>6. \A v \in Si!Rows : v \in Si!Live' => v \in Si!Live
    BY <2>5 DEF Si!Unused, Si!Rows
  <2>7. Si!Loads(i, u).at = "load" /\ Si!Loads(i, u).id = i /\ Si!Loads(i, u).user = u
    BY DEF Si!Loads
  <2>8. SiKnown(i, u)'
    <3>1. row'[u].email = EmailOf[i]
      BY <2>2, <2>4, SiPar DEF Si!Unused, SiInv, SiShape
    <3> QED BY <2>5, <3>1 DEF SiKnown
  <2>9. DOMAIN op' = Slots /\ \A t \in Slots : SiPart(t)'
    BY <2>3, <2>5, <2>6, <2>7, <2>8, SiStep
  <2> QED BY <2>5, <2>9 DEF SiInv
<1>4. CASE Si!Goes(s, [at |-> "name", id |-> i, left |-> op[s].left - 1])
           /\ UNCHANGED <<row, social>>
  <2> DEFINE to == [at |-> "name", id |-> i, left |-> op[s].left - 1]
  <2>1. Si!Goes(s, to) /\ to.at = "name" /\ to.id = i
    BY <1>4
  <2> HIDE DEF to
  <2> QED BY <1>1, <1>4, <2>1, SiReads
<1>5. CASE Si!Goes(s, Si!Idle) /\ UNCHANGED <<row, social>>
  <2>1. Si!Idle.at = "idle"
    BY DEF Si!Idle
  <2> QED BY <1>1, <1>5, <2>1, SiReads
<1> QED BY <1>2, <1>3, <1>4, <1>5 DEF Si!createUserWithSocialAccount

\* A sign-in takes the deletion back.
LEMMA SiReactivate ==
  ASSUME SiInv, NEW s \in Slots, Si!reactivateOnLogin(s)
  PROVE  SiInv'
<1>1. op[s].at = "reactivate" /\ UNCHANGED <<social, met, split, overtaken>>
  BY DEF Si!reactivateOnLogin
<1>2. PICK i \in Identities, u \in Si!Rows : i = op[s].id /\ u = op[s].user /\ SiKnown(i, u)
  BY <1>1 DEF SiInv, SiPart, SiKnown
<1>3. /\ Si!Goes(s, Si!Loads(i, u))
      /\ row' = IF row[u].status = "PENDING_DELETION" THEN [row EXCEPT ![u].status = "ACTIVE"] ELSE row
  BY <1>2 DEF Si!reactivateOnLogin
<1>4. Si!Loads(i, u).at = "load" /\ Si!Loads(i, u).id = i /\ Si!Loads(i, u).user = u
  BY DEF Si!Loads
<1>5. CASE row' = row
  BY <1>1, <1>2, <1>3, <1>4, <1>5, SiReads
<1>6. CASE row[u].status = "PENDING_DELETION" /\ row' = [row EXCEPT ![u].status = "ACTIVE"]
  <2>1. op' = [op EXCEPT ![s] = Si!Loads(i, u)] /\ requests' \in 0..Requests["signin"]
        /\ DOMAIN op' = Slots
    BY <1>3, SiGoes DEF SiInv, SiShape
  <2>2. u \in Si!Live
    BY <1>6 DEF Si!Live
  <2>3. /\ SiShape' /\ SiAccounts' /\ ~split' /\ Si!Rows' = Si!Rows /\ Si!Live' = Si!Live
        /\ \A v \in Si!Rows : row'[v].email = row[v].email
    BY <1>1, <1>6, <2>1, <2>2, SiStatus
  <2>4. SiKnown(i, u)'
    BY <1>2, <2>3 DEF SiKnown
  <2>5. DOMAIN op' = Slots /\ \A t \in Slots : SiPart(t)'
    BY <1>4, <2>1, <2>3, <2>4, SiStep
  <2> QED BY <2>3, <2>5 DEF SiInv
<1> QED BY <1>3, <1>5, <1>6

\* Two identities of one address enter the same account.
LEMMA SiLoad ==
  ASSUME SiInv, NEW s \in Slots, Si!loadUserAndDecorate(s)
  PROVE  SiInv'
<1>1. op[s].at = "load" /\ Si!Goes(s, Si!Idle) /\ UNCHANGED <<row, social, overtaken>>
  BY DEF Si!loadUserAndDecorate
<1>2. PICK i \in Identities, u \in Si!Rows : i = op[s].id /\ u = op[s].user /\ SiKnown(i, u)
  BY <1>1 DEF SiInv, SiPart, SiKnown
<1>3. Si!Idle.at = "idle"
  BY DEF Si!Idle
<1>4. CASE u \notin Si!Live
  <2>1. UNCHANGED <<met, split>>
    BY <1>2, <1>4 DEF Si!loadUserAndDecorate
  <2> QED BY <1>1, <1>3, <2>1, SiReads
<1>5. CASE u \in Si!Live
  <2>1. /\ met' = [met EXCEPT ![i] = u]
        /\ split' = (split \/ \E j \in Identities : EmailOf[j] = EmailOf[i] /\ met[j] \in Si!Live \ {u})
    BY <1>2, <1>5 DEF Si!loadUserAndDecorate
  <2>2. ASSUME NEW j \in Identities, EmailOf[j] = EmailOf[i], met[j] \in Si!Live PROVE met[j] = u
    <3>1. met[j] # None
      BY <2>2, SiPar DEF Si!Live, Si!Rows
    <3>2. SiKnown(j, met[j])
      BY <3>1 DEF SiInv, SiAccounts
    <3>3. row[met[j]].email = EmailOf[i] /\ row[u].email = EmailOf[i]
      BY <1>2, <1>5, <2>2, <3>2 DEF SiKnown
    <3> QED BY <1>5, <2>2, <3>3 DEF SiInv, SiAccounts
  <2>3. ~split'
    BY <2>1, <2>2 DEF SiInv
  <2>4. op' = [op EXCEPT ![s] = Si!Idle] /\ requests' \in 0..Requests["signin"]
    BY <1>1, SiGoes
  <2>5. Si!Rows' = Si!Rows /\ Si!Live' = Si!Live /\ row' = row
    BY <1>1 DEF Si!Rows, Si!Live
  <2>6. DOMAIN op' = Slots /\ \A t \in Slots : SiPart(t)'
    BY <1>3, <2>4, <2>5, SiStep
  <2>7. SiShape'
    <3>1. u \in Users
      BY DEF Si!Rows
    <3>2. met' \in [Identities -> Users \cup {None}]
      BY <2>1, <3>1 DEF SiInv, SiShape
    <3>3. split' \in BOOLEAN
      BY <2>1 DEF SiInv, SiShape
    <3> QED BY <1>1, <2>4, <2>6, <3>2, <3>3 DEF SiInv, SiShape
  <2>8. SiAccounts'
    <3>1. \A j \in Identities : met'[j] # None => SiKnown(j, met[j])'
      <4>1. met'[i] = u /\ \A j \in Identities \ {i} : met'[j] = met[j]
        BY <2>1 DEF SiInv, SiShape
      <4>2. \A j \in Identities : met[j] # None => SiKnown(j, met[j])
        BY DEF SiInv, SiAccounts
      <4> QED BY <1>2, <2>5, <4>1, <4>2 DEF SiKnown
    <3>2. \A j \in Identities : social'[j] # None => SiKnown(j, social[j])'
      <4>1. \A j \in Identities : social[j] # None => SiKnown(j, social[j])
        BY DEF SiInv, SiAccounts
      <4> QED BY <1>1, <2>5, <4>1 DEF SiKnown
    <3> QED BY <1>1, <2>5, <3>1, <3>2 DEF SiInv, SiAccounts
  <2> QED BY <2>3, <2>6, <2>7, <2>8 DEF SiInv
<1> QED BY <1>4, <1>5

-----------------------------------------------------------------------------
(* The end of an account. *)

\* The user asks for the deletion.
LEMMA SiPending ==
  ASSUME SiInv, NEW u \in Users, Si!setAccountPendingDeletion(u)
  PROVE  SiInv'
<1>1. /\ u \in Si!Rows /\ row[u].status = "ACTIVE"
         /\ row' = [row EXCEPT ![u].status = "PENDING_DELETION"]
      /\ UNCHANGED <<social, op, requests, met, split, overtaken>>
  BY DEF Si!setAccountPendingDeletion
<1>2. u \in Si!Live /\ requests' \in 0..Requests["signin"] /\ DOMAIN op' = Slots
  BY <1>1 DEF Si!Live, SiInv, SiShape
<1>3. /\ SiShape' /\ SiAccounts' /\ ~split' /\ Si!Rows' = Si!Rows /\ Si!Live' = Si!Live
      /\ \A v \in Si!Rows : row'[v].email = row[v].email
  BY <1>1, <1>2, SiStatus
<1>4. \A t \in Slots : SiPart(t)'
  BY <1>1, <1>3 DEF SiInv, SiPart, SiKnown
<1> QED BY <1>3, <1>4 DEF SiInv

\* The account is anonymized and its identities go.
LEMMA SiAnonymize ==
  ASSUME SiInv, NEW u \in Users, Si!anonymizeUserTx(u)
  PROVE  SiInv'
<1> DEFINE r == [status |-> "ANONYMIZED", email |-> None, username |-> None, password |-> FALSE]
<1>1. /\ u \in Si!Rows /\ row' = [row EXCEPT ![u] = r]
      /\ social' = [i \in Identities |-> IF social[i] = u THEN None ELSE social[i]]
      /\ UNCHANGED <<op, requests, met, split, overtaken>>
  BY DEF Si!anonymizeUserTx
<1>2. r \in SiRec /\ r # Si!NoRow /\ r.status = "ANONYMIZED"
  BY DEF SiRec, Si!NoRow
<1> HIDE DEF r
<1>3. row'[u] = r /\ \A v \in Users \ {u} : row'[v] = row[v]
  BY <1>1 DEF SiInv, SiShape
<1>4. Si!Rows' = Si!Rows
  BY <1>1, <1>2, <1>3 DEF Si!Rows
<1>5. Si!Live' = Si!Live \ {u}
  BY <1>1, <1>2, <1>3, <1>4 DEF Si!Live, Si!Rows
<1>6. \A v \in Si!Live' : v \in Si!Live /\ row'[v] = row[v] /\ v # u /\ v # None
  BY <1>3, <1>5, SiPar DEF Si!Live, Si!Rows
<1>7. \A i, v : SiKnown(i, v) => SiKnown(i, v)'
  BY <1>4, <1>6 DEF SiKnown
<1>8. SiShape'
  <2>1. row' \in [Users -> SiRec \cup {Si!NoRow}]
    BY <1>1, <1>2 DEF SiInv, SiShape
  <2>2. social' \in [Identities -> Users \cup {None}]
    BY <1>1 DEF SiInv, SiShape
  <2> QED BY <1>1, <2>1, <2>2 DEF SiInv, SiShape
<1>9. SiAccounts'
  <2>1. \A v, w \in Si!Live' : row'[v].email = row'[w].email => v = w
    BY <1>6 DEF SiInv, SiAccounts
  <2>2. \A i \in Identities : met'[i] # None => SiKnown(i, met[i])'
    <3>1. \A i \in Identities : met[i] # None => SiKnown(i, met[i])
      BY DEF SiInv, SiAccounts
    <3> QED BY <1>1, <1>4, <1>6, <3>1 DEF SiKnown
  <2>3. \A i \in Identities : social'[i] # None => SiKnown(i, social[i])'
    <3>1. \A i \in Identities : social[i] # None => SiKnown(i, social[i])
      BY DEF SiInv, SiAccounts
    <3> QED BY <1>1, <1>4, <1>6, <3>1 DEF SiKnown
  <2>4. \A v \in Si!Live' : ~row'[v].password => \E i \in Identities : social'[i] = v
    <3>1. \A v \in Si!Live : ~row[v].password => \E i \in Identities : social[i] = v
      BY DEF SiInv, SiAccounts
    <3> QED BY <1>1, <1>6, <3>1
  <2>5. \A i \in Identities \ overtaken' : social'[i] \in Si!Live' \cup {None}
    BY <1>1, <1>5 DEF SiInv, SiAccounts
  <2> QED BY <2>1, <2>2, <2>3, <2>4, <2>5 DEF SiAccounts
<1>10. \A t \in Slots : SiPart(t)'
  BY <1>1, <1>7 DEF SiInv, SiPart, SiKnown
<1> QED BY <1>1, <1>8, <1>9, <1>10 DEF SiInv

\* The invariant of the sign-ins holds at the start.
LEMMA SiInvInit == ASSUME Si!Init PROVE SiInv
<1>1. /\ row = [u \in Users |-> Si!NoRow] /\ social = [i \in Identities |-> None]
      /\ op = [s \in Slots |-> Si!Idle] /\ requests = 0
      /\ met = [i \in Identities |-> None] /\ split = FALSE /\ overtaken = {}
  BY DEF Si!Init
<1>2. Si!Rows = {} /\ Si!Live = {}
  BY <1>1 DEF Si!Rows, Si!Live
<1>3. SiShape
  <2>1. requests \in 0..Requests["signin"]
    BY <1>1, SiPar
  <2> QED BY <1>1, <2>1 DEF SiShape
<1>4. SiAccounts
  BY <1>1, <1>2 DEF SiAccounts
<1>5. \A s \in Slots : SiPart(s)
  BY <1>1 DEF SiPart, Si!Idle
<1> QED BY <1>1, <1>3, <1>4, <1>5 DEF SiInv

\* Every step of the sign-ins keeps their invariant.
LEMMA SiInvNext ==
  ASSUME SiInv, [Si!Next]_(Si!vars)
  PROVE  SiInv'
<1>1. CASE UNCHANGED Si!vars
  <2>1. Si!Rows' = Si!Rows /\ Si!Live' = Si!Live
        /\ UNCHANGED <<row, social, op, requests, met, split, overtaken>>
    BY <1>1 DEF Si!vars, Si!Rows, Si!Live
  <2>2. SiShape' /\ SiAccounts' /\ ~split'
    BY <2>1, SiSame DEF SiInv, SiShape
  <2>3. \A t \in Slots : SiPart(t)'
    BY <2>1 DEF SiInv, SiPart, SiKnown
  <2> QED BY <2>2, <2>3 DEF SiInv
<1>2. CASE \E s \in Slots :
             \/ \E e \in Emails, n \in Usernames : Si!registerUser(s, e, n)
             \/ Si!createUser(s)
             \/ \E i \in Identities : Si!findSocialAccount(s, i)
             \/ Si!findUserByEmail(s) \/ Si!createSocialAccount(s)
             \/ Si!generateUniqueUsername(s) \/ Si!createUserWithSocialAccount(s)
             \/ Si!reactivateOnLogin(s) \/ Si!loadUserAndDecorate(s)
  BY <1>2, SiRegister, SiCreate, SiFindSocial, SiFindEmail, SiLink, SiName, SiInsert, SiReactivate,
     SiLoad
<1>3. CASE \E u \in Users : Si!setAccountPendingDeletion(u) \/ Si!anonymizeUserTx(u)
  BY <1>3, SiPending, SiAnonymize
<1> QED BY <1>1, <1>2, <1>3 DEF Si!Next

\* The properties of the sign-ins follow from their invariant.
LEMMA SiFollows == SiInv => Si!TypeOK /\ Si!OneWayIn
<1> SUFFICES ASSUME SiInv PROVE Si!TypeOK /\ Si!OneWayIn
  OBVIOUS
<1>1. Si!TypeOK
  <2>1. \A u \in Si!Rows : row[u] \in SiRec
    BY DEF Si!Rows, SiInv, SiShape
  <2> QED BY <2>1 DEF SiInv, SiShape, Si!TypeOK, SiRec
<1>2. ASSUME NEW i \in Identities, NEW j \in Identities, EmailOf[i] = EmailOf[j],
             social[i] \in Si!Live, social[j] \in Si!Live
      PROVE  social[i] = social[j]
  <2>1. social[i] # None /\ social[j] # None
    BY <1>2, SiPar DEF Si!Live, Si!Rows
  <2>2. SiKnown(i, social[i]) /\ SiKnown(j, social[j])
    BY <2>1 DEF SiInv, SiAccounts
  <2> QED BY <1>2, <2>2 DEF SiKnown, SiInv, SiAccounts
<1>3. Si!OneWayIn
  BY <1>2 DEF SiInv, SiAccounts, Si!OneWayIn
<1> QED BY <1>1, <1>3

-----------------------------------------------------------------------------
\* What is assumed of the constants of the groups.
LEMMA GrA == Gr!GroupsAssumption
BY TalkAssumption

\* What it calls finite is, and it counts as everybody does.
LEMMA GrSets ==
  \A S : (Gr!IsFiniteSet(S) <=> IsFiniteSet(S)) /\ Gr!Cardinality(S) = Cardinality(S)
BY DEF Gr!IsFiniteSet, Gr!Cardinality, IsFiniteSet, Cardinality

-----------------------------------------------------------------------------
(* Groups. *)

GrStep == [at : Gr!Steps, by : Members \cup {None}, target : Members \cup {None}]

GrShape ==
  /\ active \subseteq Members /\ admin \subseteq Members /\ hidden \subseteq Members
  /\ op \in [Slots -> GrStep] /\ strayed \in BOOLEAN

\* Nobody removes itself; who is removed, added or promoted is somebody.
GrPart(s) ==
  LET o == op[s] IN
  /\ o.at \in {"remove", "role", "add", "promote"} => o.target \in Members
  /\ o.at = "remove" => o.by # o.target
  /\ o.at = "left" => o.target = None

\* A group that misses its administrator: an exit is not over, or the member it
\* chose is still there.
GrHanded(s) == op[s].at = "left" \/ (op[s].at = "promote" /\ op[s].target \in active)
GrAdmin == ~strayed => active = {} \/ active \cap admin # {} \/ \E s \in Slots : GrHanded(s)

\* There is one key for both ends.
GrPairs ==
  /\ keys \subseteq {<<"pair", 1>>} /\ direct = {k[2] : k \in keys} /\ answers \subseteq direct

GrInv == GrShape /\ GrAdmin /\ GrPairs /\ \A s \in Slots : GrPart(s)

\* A request at rest.
LEMMA GrNull ==
  /\ Gr!Free \in GrStep /\ Gr!Free.at = "idle" /\ Gr!Free.by = None /\ Gr!Free.target = None
  /\ None \notin Members
BY GrA DEF Gr!Free, GrStep, Gr!Steps, Gr!GroupsAssumption

GrUpTo(S, u) == {v \in S : v <= u}

\* Of members, one joined first.
LEMMA GrLeast ==
  ASSUME NEW S \in SUBSET Members, S # {}
  PROVE  \E m \in S : \A u \in S : m <= u
<1>0. (\A v \in S : v \in Nat) /\ IsFiniteSet(S)
  BY GrA, FS_Subset, GrSets DEF Gr!GroupsAssumption
<1>1. IsWellFoundedOn(StrictSubsetOrdering(S), FiniteSubsetsOf(S))
  BY FS_StrictSubsetOrderingWellFounded
<1>2. FiniteSubsetsOf(S) = SUBSET S
  BY <1>0, FS_FiniteSubsetsOfFinite
<1> DEFINE T == {GrUpTo(S, u) : u \in S}
<1>3. T \subseteq FiniteSubsetsOf(S) /\ T # {}
  <2>1. \A u \in S : GrUpTo(S, u) \in SUBSET S /\ GrUpTo(S, u) \in T
    BY DEF GrUpTo
  <2> QED BY <1>2, <2>1
<1> HIDE DEF T
<1>4. PICK B \in T : \A C \in T : ~ (<<C, B>> \in StrictSubsetOrdering(S))
  BY <1>1, <1>3, WFMin
<1>5. PICK m \in S : B = GrUpTo(S, m)
  BY DEF T
<1>6. ASSUME NEW u \in S, ~(m <= u) PROVE FALSE
  <2>1. u < m /\ u \in Nat /\ m \in Nat
    BY <1>0, <1>6
  <2>2. GrUpTo(S, u) \subseteq GrUpTo(S, m)
    <3> SUFFICES ASSUME NEW v \in GrUpTo(S, u) PROVE v \in GrUpTo(S, m)
      OBVIOUS
    <3>1. v \in S /\ v \in Nat /\ v <= m
      BY <1>0, <2>1 DEF GrUpTo
    <3> QED BY <3>1 DEF GrUpTo
  <2>3. m \notin GrUpTo(S, u) /\ m \in GrUpTo(S, m)
    BY <2>1 DEF GrUpTo
  <2>4. <<GrUpTo(S, u), GrUpTo(S, m)>> \in StrictSubsetOrdering(S)
    BY <2>2, <2>3 DEF StrictSubsetOrdering, GrUpTo
  <2> QED BY <1>4, <1>5, <2>4 DEF T
<1> QED BY <1>6

\* The oldest participant participates.
LEMMA GrOldest == ASSUME GrInv, active # {} PROVE Gr!Oldest \in active
<1>1. active \in SUBSET Members
  BY DEF GrInv, GrShape
<1>2. \E m \in active : \A n \in active : m <= n
  BY <1>1, GrLeast
<1> QED BY <1>2 DEF Gr!Oldest

-----------------------------------------------------------------------------
(* Steps. *)

\* A request goes on and the others stay.
LEMMA GrBecomes ==
  ASSUME GrInv, NEW s \in Slots, NEW at \in Gr!Steps, NEW by \in Members \cup {None},
         NEW t \in Members \cup {None}, Gr!Become(s, at, by, t)
  PROVE  /\ op'[s].at = at /\ op'[s].by = by /\ op'[s].target = t
         /\ op' \in [Slots -> GrStep] /\ \A u \in Slots \ {s} : op'[u] = op[u]
<1> DEFINE o == [at |-> at, by |-> by, target |-> t]
<1>1. o \in GrStep /\ o.at = at /\ o.by = by /\ o.target = t
  BY DEF GrStep
<1>2. op' = [op EXCEPT ![s] = o]
  BY DEF Gr!Become
<1> HIDE DEF o
<1> QED BY <1>1, <1>2 DEF GrInv, GrShape

\* A request ends and the others stay.
LEMMA GrDone ==
  ASSUME GrInv, NEW s \in Slots, Gr!Done(s)
  PROVE  /\ op'[s].at = "idle" /\ op'[s].by = None /\ op'[s].target = None
         /\ op' \in [Slots -> GrStep] /\ \A u \in Slots \ {s} : op'[u] = op[u]
BY GrNull DEF GrInv, GrShape, Gr!Done

\* What another request was about stays as it was.
LEMMA GrOthers ==
  ASSUME GrInv, NEW s \in Slots, \A u \in Slots \ {s} : op'[u] = op[u], GrPart(s)'
  PROVE  \A u \in Slots : GrPart(u)'
<1> SUFFICES ASSUME NEW u \in Slots \ {s} PROVE GrPart(u)'
  OBVIOUS
<1>1. GrPart(u) /\ op'[u] = op[u]
  BY DEF GrInv
<1> QED BY <1>1 DEF GrPart

\* The group and the pairs are apart.
LEMMA GrPairsStay == ASSUME GrInv, UNCHANGED Gr!pairs PROVE GrPairs'
BY DEF GrInv, GrPairs, Gr!pairs

\* Who is to be promoted stays so while the group does.
LEMMA GrAdminStays ==
  ASSUME GrInv, NEW s \in Slots, \A u \in Slots \ {s} : op'[u] = op[u],
         UNCHANGED Gr!group, GrHanded(s) => GrHanded(s)' \/ active = {} \/ active \cap admin # {}
  PROVE  GrAdmin'
<1> SUFFICES ASSUME ~strayed, active # {}, active \cap admin = {}
             PROVE  \E u \in Slots : GrHanded(u)'
  BY DEF GrAdmin, Gr!group
<1>1. PICK u \in Slots : GrHanded(u)
  BY DEF GrInv, GrAdmin
<1>2. CASE u = s
  BY <1>1, <1>2
<1>3. CASE u # s
  <2>1. GrHanded(u)'
    BY <1>1, <1>3 DEF GrHanded, Gr!group
  <2> QED BY <2>1
<1> QED BY <1>2, <1>3

\* A request of an administrator is checked.
LEMMA GrAuthorize ==
  ASSUME GrInv, NEW s \in Slots, NEW m \in Members, NEW t \in Members,
         NEW at \in {"remove", "role", "add"}, Gr!authorize(s, m, t, at)
  PROVE  GrInv'
<1>1. /\ op[s].at = "idle" /\ Gr!Become(s, at, m, t) /\ (at = "remove" => t # m)
      /\ UNCHANGED <<Gr!group, Gr!pairs>>
  BY DEF Gr!authorize, Gr!Request
<1>2. /\ op'[s].at = at /\ op'[s].by = m /\ op'[s].target = t
      /\ op' \in [Slots -> GrStep]
  BY <1>1, GrBecomes DEF Gr!Steps
<1>3. \A u \in Slots \ {s} : op'[u] = op[u]
  BY <1>1, GrBecomes DEF Gr!Steps
<1>4. GrShape'
  BY <1>1, <1>2 DEF Gr!group, GrInv, GrShape
<1>5. GrAdmin'
  BY <1>1, <1>3, GrAdminStays DEF GrHanded
<1>6. GrPart(s)'
  BY <1>1, <1>2 DEF GrPart
<1> QED BY <1>1, <1>3, <1>4, <1>5, <1>6, GrOthers, GrPairsStay DEF GrInv

\* A step that ends a request and leaves an administrator where there was one.
LEMMA GrEnds ==
  ASSUME GrInv, NEW s \in Slots, Gr!Done(s), UNCHANGED Gr!pairs, strayed' \in BOOLEAN,
         active' \subseteq Members, admin' \subseteq Members, hidden' \subseteq Members,
         GrAdmin'
  PROVE  GrInv'
<1>1. /\ op'[s].at = "idle" /\ op' \in [Slots -> GrStep]
  BY GrDone
<1>2. \A u \in Slots \ {s} : op'[u] = op[u]
  BY GrDone
<1>3. GrPart(s)'
  BY <1>1 DEF GrPart
<1>4. GrShape'
  BY <1>1 DEF GrShape
<1> QED BY <1>2, <1>3, <1>4, GrOthers, GrPairsStay DEF GrInv

\* A participant is removed.
LEMMA GrRemove ==
  ASSUME GrInv, NEW s \in Slots, Gr!removeGroupParticipant(s)
  PROVE  GrInv'
<1> DEFINE t == op[s].target
<1>1. /\ op[s].at = "remove" /\ Gr!Done(s) /\ active' = active \ {t} /\ admin' = admin
      /\ strayed' = (strayed \/ (t \in active /\ ~Gr!IsAdmin(op[s].by)))
      /\ (hidden' = {} \/ hidden' = hidden) /\ UNCHANGED Gr!pairs
  BY DEF Gr!removeGroupParticipant, Gr!Announced
<1>2. op[s].by # t
  BY <1>1 DEF GrInv, GrPart
<1>3. GrAdmin'
  <2> SUFFICES ASSUME ~strayed'
               PROVE  active' = {} \/ active' \cap admin' # {} \/ \E u \in Slots : GrHanded(u)'
    BY DEF GrAdmin
  <2>1. ~strayed
    BY <1>1
  <2>2. CASE t \in active
    BY <1>1, <1>2, <2>2 DEF Gr!IsAdmin
  <2>3. CASE t \notin active
    <3>1. active' = active
      BY <1>1, <2>3
    <3>2. \A u \in Slots \ {s} : op'[u] = op[u]
      BY <1>1, GrDone
    <3>3. ~GrHanded(s)
      BY <1>1 DEF GrHanded
    <3>4. \A u \in Slots : GrHanded(u) => GrHanded(u)'
      BY <3>1, <3>2, <3>3 DEF GrHanded
    <3> QED BY <1>1, <2>1, <3>1, <3>4 DEF GrInv, GrAdmin
  <2> QED BY <2>2, <2>3
<1>4. strayed' \in BOOLEAN /\ active' \subseteq Members /\ admin' \subseteq Members
      /\ hidden' \subseteq Members
  BY <1>1 DEF GrInv, GrShape
<1> QED BY <1>1, <1>3, <1>4, GrEnds

\* A role is written, whatever administrators that leaves.
LEMMA GrRole ==
  ASSUME GrInv, NEW s \in Slots, Gr!setParticipantRole(s)
  PROVE  GrInv'
<1> DEFINE t == op[s].target
<1>1. /\ op[s].at = "role" /\ Gr!Done(s) /\ t \in active
      /\ strayed' = (strayed \/ (active # {} /\ admin' \cap active = {}))
      /\ (admin' = admin \cup {t} \/ admin' = admin \ {t})
      /\ active' = active /\ hidden' = hidden /\ UNCHANGED Gr!pairs
  BY DEF Gr!setParticipantRole
<1>2. GrAdmin'
  BY <1>1 DEF GrAdmin
<1>3. strayed' \in BOOLEAN /\ active' \subseteq Members /\ admin' \subseteq Members
      /\ hidden' \subseteq Members
  BY <1>1 DEF GrInv, GrShape
<1> QED BY <1>1, <1>2, <1>3, GrEnds

\* The role of someone who has left is not written.
LEMMA GrRoleOfNobody ==
  ASSUME GrInv, NEW s \in Slots, Gr!setRoleOfNobody(s)
  PROVE  GrInv'
<1>1. op[s].at = "role" /\ Gr!Done(s) /\ UNCHANGED <<Gr!group, Gr!pairs>>
  BY DEF Gr!setRoleOfNobody
<1>2. \A u \in Slots \ {s} : op'[u] = op[u]
  BY <1>1, GrDone
<1>3. GrAdmin'
  BY <1>1, <1>2, GrAdminStays DEF GrHanded
<1>4. strayed' \in BOOLEAN /\ active' \subseteq Members /\ admin' \subseteq Members
      /\ hidden' \subseteq Members
  BY <1>1 DEF Gr!group, GrInv, GrShape
<1> QED BY <1>1, <1>3, <1>4, GrEnds

\* A participant is added, or comes back.
LEMMA GrReactivate ==
  ASSUME GrInv, NEW s \in Slots, Gr!reactivateParticipant(s)
  PROVE  GrInv'
<1> DEFINE t == op[s].target
<1>1. /\ op[s].at = "add" /\ Gr!Done(s) /\ active' = active \cup {t} /\ admin' = admin \ {t}
      /\ hidden' = {} /\ strayed' = (strayed \/ Gr!IsAdmin(t) \/ ~Gr!IsAdmin(op[s].by))
      /\ UNCHANGED Gr!pairs
  BY DEF Gr!reactivateParticipant, Gr!Returned, Gr!Announced
<1>2. t \in Members
  BY <1>1 DEF GrInv, GrPart
<1>3. GrAdmin'
  BY <1>1 DEF GrAdmin, Gr!IsAdmin
<1>4. strayed' \in BOOLEAN /\ active' \subseteq Members /\ admin' \subseteq Members
      /\ hidden' \subseteq Members
  BY <1>1, <1>2 DEF GrInv, GrShape
<1> QED BY <1>1, <1>3, <1>4, GrEnds

\* A participant leaves.
LEMMA GrLeave ==
  ASSUME GrInv, NEW s \in Slots, NEW m \in Members, Gr!leaveGroup(s, m)
  PROVE  GrInv'
<1>1. /\ op[s].at = "idle" /\ active' = active \ {m} /\ hidden' = {} /\ admin' = admin
      /\ strayed' = strayed /\ Gr!Become(s, "left", m, None) /\ UNCHANGED Gr!pairs
  BY DEF Gr!leaveGroup, Gr!Request, Gr!Announced
<1>2. /\ op'[s].at = "left" /\ op'[s].target = None /\ op' \in [Slots -> GrStep]
  BY <1>1, GrBecomes DEF Gr!Steps
<1>3. \A u \in Slots \ {s} : op'[u] = op[u]
  BY <1>1, GrBecomes DEF Gr!Steps
<1>4. GrShape'
  BY <1>1, <1>2 DEF GrInv, GrShape
<1>5. GrAdmin'
  <2>1. GrHanded(s)'
    BY <1>2 DEF GrHanded
  <2> QED BY <2>1 DEF GrAdmin
<1>6. GrPart(s)'
  BY <1>2 DEF GrPart
<1> QED BY <1>1, <1>3, <1>4, <1>5, <1>6, GrOthers, GrPairsStay DEF GrInv

\* The oldest participant is looked for.
LEMMA GrFind ==
  ASSUME GrInv, NEW s \in Slots, Gr!findOldest(s)
  PROVE  GrInv'
<1>1. op[s].at = "left" /\ UNCHANGED <<Gr!group, Gr!pairs>>
  BY DEF Gr!findOldest
<1>2. CASE Gr!Done(s) /\ (active \cap admin # {} \/ active = {})
  <2>1. \A u \in Slots \ {s} : op'[u] = op[u]
    BY <1>2, GrDone
  <2>2. GrAdmin'
    BY <1>1, <1>2, <2>1, GrAdminStays
  <2>3. strayed' \in BOOLEAN /\ active' \subseteq Members /\ admin' \subseteq Members
        /\ hidden' \subseteq Members
    BY <1>1 DEF Gr!group, GrInv, GrShape
  <2> QED BY <1>1, <1>2, <2>2, <2>3, GrEnds
<1>3. CASE active # {} /\ Gr!Become(s, "promote", op[s].by, Gr!Oldest)
  <2>1. Gr!Oldest \in active /\ Gr!Oldest \in Members /\ op[s].by \in Members \cup {None}
    BY <1>3, GrOldest DEF GrInv, GrShape, GrStep
  <2>2. /\ op'[s].at = "promote" /\ op'[s].target = Gr!Oldest /\ op' \in [Slots -> GrStep]
    BY <1>3, <2>1, GrBecomes DEF Gr!Steps
  <2>3. \A u \in Slots \ {s} : op'[u] = op[u]
    BY <1>3, <2>1, GrBecomes DEF Gr!Steps
  <2>4. GrShape'
    BY <1>1, <2>2 DEF Gr!group, GrInv, GrShape
  <2>5. GrAdmin'
    <3>1. GrHanded(s)'
      BY <1>1, <2>1, <2>2 DEF GrHanded, Gr!group
    <3> QED BY <3>1 DEF GrAdmin
  <2>6. GrPart(s)'
    BY <2>1, <2>2 DEF GrPart
  <2> QED BY <1>1, <2>3, <2>4, <2>5, <2>6, GrOthers, GrPairsStay DEF GrInv
<1> QED BY <1>2, <1>3 DEF Gr!findOldest

\* The participant that was found is promoted.
LEMMA GrPromote ==
  ASSUME GrInv, NEW s \in Slots, Gr!promote(s)
  PROVE  GrInv'
<1> DEFINE t == op[s].target
<1>1. /\ op[s].at = "promote" /\ Gr!Done(s) /\ active' = active /\ strayed' = strayed
         /\ UNCHANGED Gr!pairs
      /\ (hidden' = {} \/ hidden' = hidden)
      /\ IF t \in active \ admin THEN admin' = admin \cup {t} ELSE admin' = admin
  BY DEF Gr!promote, Gr!Announced
<1>2. t \in Members
  BY <1>1 DEF GrInv, GrPart
<1>3. GrAdmin'
  <2>1. CASE t \in active
    BY <1>1, <2>1 DEF GrAdmin
  <2>2. CASE t \notin active
    <3>1. \A u \in Slots \ {s} : op'[u] = op[u]
      BY <1>1, GrDone
    <3>2. ~GrHanded(s)
      BY <1>1, <2>2 DEF GrHanded
    <3>3. \A u \in Slots : GrHanded(u) => GrHanded(u)'
      BY <1>1, <3>1, <3>2 DEF GrHanded
    <3> QED BY <1>1, <2>2, <3>3 DEF GrInv, GrAdmin
  <2> QED BY <2>1, <2>2
<1>4. strayed' \in BOOLEAN /\ active' \subseteq Members /\ admin' \subseteq Members
      /\ hidden' \subseteq Members
  BY <1>1, <1>2 DEF GrInv, GrShape
<1> QED BY <1>1, <1>3, <1>4, GrEnds

\* The exit stops before the promotion.
LEMMA GrFail ==
  ASSUME GrInv, NEW s \in Slots, Gr!fail(s)
  PROVE  GrInv'
<1>1. Gr!Done(s) /\ strayed' = TRUE /\ UNCHANGED <<active, admin, hidden, Gr!pairs>>
  BY DEF Gr!fail
<1>2. GrAdmin' /\ strayed' \in BOOLEAN /\ active' \subseteq Members /\ admin' \subseteq Members
      /\ hidden' \subseteq Members
  BY <1>1 DEF GrAdmin, GrInv, GrShape
<1> QED BY <1>1, <1>2, GrEnds

\* A participant hides the conversation.
LEMMA GrClear ==
  ASSUME GrInv, NEW m \in Members, Gr!clearConversation(m)
  PROVE  GrInv'
<1>1. hidden' = hidden \cup {m} /\ UNCHANGED <<active, admin, op, strayed, Gr!pairs>>
  BY DEF Gr!clearConversation
<1>2. GrShape'
  BY <1>1 DEF GrInv, GrShape
<1>3. GrAdmin' /\ \A s \in Slots : GrPart(s)'
  BY <1>1 DEF GrInv, GrAdmin, GrHanded, GrPart
<1> QED BY <1>1, <1>2, <1>3, GrPairsStay DEF GrInv

-----------------------------------------------------------------------------
(* The pair. *)

\* The pair has one key and at most one conversation.
LEMMA GrDirects ==
  ASSUME GrInv
  PROVE  /\ keys = {} \/ keys = {<<"pair", 1>>}
         /\ \A m : (\E k \in keys : k[1] = Gr!DirectKey(m)) <=> keys # {}
         /\ \A m : {k[2] : k \in {x \in keys : x[1] = Gr!DirectKey(m)}} = direct
         /\ keys = {} => direct = {} /\ answers = {}
<1>1. keys = {} \/ keys = {<<"pair", 1>>}
  BY DEF GrInv, GrPairs
<1>2. \A k \in keys : k[1] = "pair"
  BY <1>1
<1>3. \A m : {x \in keys : x[1] = Gr!DirectKey(m)} = keys
  BY <1>2 DEF Gr!DirectKey
<1> QED BY <1>1, <1>2, <1>3 DEF Gr!DirectKey, GrInv, GrPairs

\* A direct conversation is looked up.
LEMMA GrStart ==
  ASSUME GrInv, NEW s \in Slots, NEW m \in Members, Gr!startConversation(s, m)
  PROVE  GrInv'
<1>1. op[s].at = "idle" /\ UNCHANGED <<Gr!group, keys, direct>>
  BY DEF Gr!startConversation, Gr!Request
<1>2. CASE op' = op /\ answers' = answers \cup direct
  <2>1. GrShape' /\ GrAdmin' /\ \A u \in Slots : GrPart(u)'
    BY <1>1, <1>2 DEF Gr!group, GrInv, GrShape, GrAdmin, GrHanded, GrPart
  <2>2. GrPairs'
    BY <1>1, <1>2 DEF GrInv, GrPairs
  <2> QED BY <2>1, <2>2 DEF GrInv
<1>3. CASE Gr!Become(s, "create", m, None) /\ UNCHANGED answers
  <2>1. op'[s].at = "create" /\ op'[s].target = None /\ op' \in [Slots -> GrStep]
    BY <1>3, GrBecomes DEF Gr!Steps
  <2>2. \A u \in Slots \ {s} : op'[u] = op[u]
    BY <1>3, GrBecomes DEF Gr!Steps
  <2>3. GrShape'
    BY <1>1, <2>1 DEF Gr!group, GrInv, GrShape
  <2>4. GrAdmin'
    BY <1>1, <2>2, GrAdminStays DEF GrHanded
  <2>5. GrPart(s)'
    BY <2>1 DEF GrPart
  <2>6. UNCHANGED Gr!pairs
    BY <1>1, <1>3 DEF Gr!pairs
  <2> QED BY <2>2, <2>3, <2>4, <2>5, <2>6, GrOthers, GrPairsStay DEF GrInv
<1> QED BY <1>2, <1>3, GrDirects DEF Gr!startConversation

\* The direct conversation is inserted under its key.
LEMMA GrCreate ==
  ASSUME GrInv, NEW s \in Slots, Gr!createDirect(s)
  PROVE  GrInv'
<1>1. op[s].at = "create" /\ UNCHANGED Gr!group
  BY DEF Gr!createDirect
<1>2. op[s].by \in Members \cup {None}
  BY DEF GrInv, GrShape, GrStep
<1>3. CASE keys # {}
  <2>1. Gr!Become(s, "refetch", op[s].by, None) /\ UNCHANGED Gr!pairs
    BY <1>3, GrDirects DEF Gr!createDirect
  <2>2. op'[s].at = "refetch" /\ op'[s].target = None /\ op' \in [Slots -> GrStep]
    BY <1>2, <2>1, GrBecomes DEF Gr!Steps
  <2>3. \A u \in Slots \ {s} : op'[u] = op[u]
    BY <1>2, <2>1, GrBecomes DEF Gr!Steps
  <2>4. GrShape'
    BY <1>1, <2>2 DEF Gr!group, GrInv, GrShape
  <2>5. GrAdmin'
    BY <1>1, <2>3, GrAdminStays DEF GrHanded
  <2>6. GrPart(s)'
    BY <2>2 DEF GrPart
  <2> QED BY <2>1, <2>3, <2>4, <2>5, <2>6, GrOthers, GrPairsStay DEF GrInv
<1>4. CASE keys = {}
  <2> DEFINE id == Cardinality(direct) + 1
  <2>1. /\ keys' = keys \cup {<<Gr!DirectKey(op[s].by), id>>} /\ direct' = direct \cup {id}
        /\ answers' = answers \cup {id} /\ Gr!Done(s)
    BY <1>4, GrSets DEF Gr!createDirect
  <2>2. id = 1
    BY <1>4, GrDirects, FS_EmptySet
  <2>3. keys' = {<<"pair", 1>>} /\ direct' = {1} /\ answers' = {1}
    BY <1>4, <2>1, <2>2, GrDirects DEF Gr!DirectKey
  <2>4. GrPairs'
    BY <2>3 DEF GrPairs
  <2>5. op'[s].at = "idle" /\ op' \in [Slots -> GrStep]
    BY <2>1, GrDone
  <2>6. \A u \in Slots \ {s} : op'[u] = op[u]
    BY <2>1, GrDone
  <2>7. GrShape'
    BY <1>1, <2>5 DEF Gr!group, GrInv, GrShape
  <2>8. GrAdmin'
    BY <1>1, <2>6, GrAdminStays DEF GrHanded
  <2>9. GrPart(s)'
    BY <2>5 DEF GrPart
  <2> QED BY <2>4, <2>6, <2>7, <2>8, <2>9, GrOthers DEF GrInv
<1> QED BY <1>3, <1>4

\* After a conflict, the one that was inserted is read.
LEMMA GrRefetch ==
  ASSUME GrInv, NEW s \in Slots, Gr!refetchDirect(s)
  PROVE  GrInv'
<1>1. /\ op[s].at = "refetch" /\ Gr!Done(s) /\ answers' = answers \cup direct
      /\ UNCHANGED <<Gr!group, keys, direct>>
  BY GrDirects DEF Gr!refetchDirect
<1>2. op'[s].at = "idle" /\ op' \in [Slots -> GrStep]
  BY <1>1, GrDone
<1>3. \A u \in Slots \ {s} : op'[u] = op[u]
  BY <1>1, GrDone
<1>4. GrShape' /\ GrPairs'
  BY <1>1, <1>2 DEF Gr!group, GrInv, GrShape, GrPairs
<1>5. GrAdmin'
  BY <1>1, <1>3, GrAdminStays DEF GrHanded
<1>6. GrPart(s)'
  BY <1>2 DEF GrPart
<1> QED BY <1>3, <1>4, <1>5, <1>6, GrOthers DEF GrInv

-----------------------------------------------------------------------------
(* The conversations. *)

\* The invariant of the groups holds at the start.
LEMMA GrInvInit == ASSUME Gr!Init PROVE GrInv
<1>1. /\ active = Members /\ admin = {Gr!Creator} /\ hidden = {} /\ op = [s \in Slots |-> Gr!Free]
      /\ strayed = FALSE /\ keys = {} /\ direct = {} /\ answers = {}
  BY DEF Gr!Init
<1>2. Gr!Creator \in Members
  <2>1. \E m \in Members : \A n \in Members : m <= n
    BY GrA, GrLeast DEF Gr!GroupsAssumption
  <2> QED BY <2>1 DEF Gr!Creator
<1>3. GrShape /\ GrAdmin
  BY <1>1, <1>2, GrNull DEF GrShape, GrAdmin
<1>4. GrPairs
  BY <1>1 DEF GrPairs
<1>5. \A s \in Slots : GrPart(s)
  BY <1>1, GrNull DEF GrPart
<1> QED BY <1>3, <1>4, <1>5 DEF GrInv

\* Every step of the groups keeps their invariant.
LEMMA GrInvNext ==
  ASSUME GrInv, [Gr!Next]_(Gr!vars)
  PROVE  GrInv'
<1>1. CASE UNCHANGED Gr!vars
  BY <1>1 DEF Gr!vars, GrInv, GrShape, GrAdmin, GrHanded, GrPairs, GrPart
<1>2. CASE \E s \in Slots, m, t \in Members : \E at \in {"remove", "role", "add"} : Gr!authorize(s, m, t, at)
  BY <1>2, GrAuthorize
<1>3. CASE \E s \in Slots : \/ Gr!removeGroupParticipant(s) \/ Gr!setParticipantRole(s) \/ Gr!setRoleOfNobody(s)
                            \/ Gr!reactivateParticipant(s) \/ Gr!findOldest(s) \/ Gr!promote(s) \/ Gr!fail(s)
                            \/ Gr!createDirect(s) \/ Gr!refetchDirect(s)
  BY <1>3, GrRemove, GrRole, GrRoleOfNobody, GrReactivate, GrFind, GrPromote, GrFail, GrCreate,
     GrRefetch
<1>4. CASE \E s \in Slots, m \in Members : Gr!leaveGroup(s, m) \/ Gr!startConversation(s, m)
  BY <1>4, GrLeave, GrStart
<1>5. CASE \E m \in Members : Gr!clearConversation(m)
  BY <1>5, GrClear
<1> QED BY <1>1, <1>2, <1>3, <1>4, <1>5 DEF Gr!Next

\* The properties of the groups follow from their invariant.
LEMMA GrFollows == GrInv => Gr!TypeOK /\ Gr!GroupKeepsAdmin /\ Gr!OneDirectPerPair
<1> SUFFICES ASSUME GrInv PROVE Gr!TypeOK /\ Gr!GroupKeepsAdmin /\ Gr!OneDirectPerPair
  OBVIOUS
<1>1. Gr!TypeOK
  <2>1. \A s \in Slots : op[s].at \in Gr!Steps /\ op[s].by \in Members \cup {None}
                           /\ op[s].target \in Members \cup {None}
    BY DEF GrInv, GrShape, GrStep
  <2> QED BY <2>1 DEF GrInv, GrShape, GrPairs, Gr!TypeOK
<1>2. Gr!GroupKeepsAdmin
  <2>1. Gr!Quiet => \A s \in Slots : ~GrHanded(s)
    BY DEF Gr!Quiet, GrHanded
  <2> QED BY <2>1 DEF Gr!GroupKeepsAdmin, GrInv, GrAdmin
<1>3. Gr!OneDirectPerPair
  <2>1. answers = {} \/ answers = {1}
    <3>1. direct = {} \/ direct = {1}
      BY GrDirects DEF GrInv, GrPairs
    <3> QED BY <3>1 DEF GrInv, GrPairs
  <2>2. Cardinality({}) = 0 /\ Cardinality({1}) = 1
    BY FS_EmptySet, FS_Singleton
  <2> QED BY <2>1, <2>2, GrSets DEF Gr!OneDirectPerPair
<1> QED BY <1>1, <1>2, <1>3

-----------------------------------------------------------------------------
\* What is assumed of the constants of the second factor.
LEMMA SfA == Sf!SecondFactorAssumption
BY TalkAssumption

-----------------------------------------------------------------------------
(* The second factor. *)

SfRead ==
  [at : {"setup", "enable", "consume", "login", "disable"}, row : (0..MaxSecrets) \X BOOLEAN,
   then : {"end", "login", "disable"}, code : 0..MaxBatches]

\* What a request read: no factor was on when it began to set one up, and the
\* secret it enables was seen to work.
SfPart(s) ==
  LET o == op[s] IN
  o # Sf!Idle =>
    /\ o \in SfRead
    /\ o.at = "setup" => o.row[2] = FALSE
    /\ o.at = "enable" => o.row[1] \in proven
    /\ o.at = "consume" => o.code \in 1..batches /\ o.then \in {"login", "disable"}

SfShape ==
  /\ MaxSecrets \in Nat /\ MaxBatches \in Nat /\ Requests["factor"] \in Nat
  /\ secrets \in 0..MaxSecrets /\ secret \in 0..secrets /\ batches \in 0..MaxBatches
  /\ enabled \in BOOLEAN /\ raced \in BOOLEAN
  /\ codes \subseteq 1..batches /\ proven \subseteq 1..MaxSecrets
  /\ uses \in [1..MaxBatches -> Nat] /\ requests \in 0..Requests["factor"]

\* A code that is kept was not used, and one not handed out neither.
SfUses ==
  \A c \in 1..MaxBatches : /\ uses[c] <= 1
                           /\ c \in codes \/ c > batches => uses[c] = 0

SfFactor == ~raced => /\ enabled => secret \in proven
                      /\ ~enabled => codes = {}

SfInv ==
  /\ SfShape /\ SfUses /\ SfFactor /\ DOMAIN op = Slots
  /\ \A s \in Slots : SfPart(s)

\* The secrets and batches that were made are numbered.
LEMMA SfTypes ==
  ASSUME SfInv
  PROVE  /\ \A n : n \in 1..secrets => n \in 1..MaxSecrets
         /\ secret \in 0..MaxSecrets
         /\ \A n : n \in 1..batches => n \in 1..MaxBatches /\ n \in 0..MaxBatches
         /\ secret # 0 => secret \in 1..MaxSecrets
BY DEF SfInv, SfShape

\* A request takes a step: what the others hold stays true.
LEMMA SfStep ==
  ASSUME SfInv, NEW s \in Slots, NEW to, op' = [op EXCEPT ![s] = to],
         proven \subseteq proven', batches' \in Nat, batches' >= batches,
         to # Sf!Idle =>
           /\ to \in SfRead
           /\ to.at = "setup" => to.row[2] = FALSE
           /\ to.at = "enable" => to.row[1] \in proven'
           /\ to.at = "consume" => to.code \in 1..batches' /\ to.then \in {"login", "disable"}
  PROVE  DOMAIN op' = Slots /\ \A t \in Slots : SfPart(t)'
<1>1. DOMAIN op = Slots /\ batches \in Nat
  BY DEF SfInv, SfShape
<1>2. DOMAIN op' = Slots /\ op'[s] = to /\ \A t \in Slots \ {s} : op'[t] = op[t]
  BY <1>1
<1>3. SfPart(s)'
  BY <1>2 DEF SfPart
<1>4. ASSUME NEW t \in Slots \ {s} PROVE SfPart(t)'
  <2>1. SfPart(t) /\ op'[t] = op[t]
    BY <1>2 DEF SfInv
  <2>2. \A n \in 1..batches : n \in 1..batches'
    BY <1>1
  <2> QED BY <2>1, <2>2 DEF SfPart
<1> QED BY <1>2, <1>3, <1>4

\* Batches are only added.
LEMMA SfBatches == ASSUME SfInv, batches' = batches PROVE batches' \in Nat /\ batches' >= batches
BY DEF SfInv, SfShape

\* The row of the user as a request reads it.
LEMMA SfRow == ASSUME SfInv PROVE Sf!Row \in (0..MaxSecrets) \X BOOLEAN /\ Sf!Row[1] = secret /\ Sf!Row[2] = enabled
<1>1. secret \in 0..MaxSecrets /\ enabled \in BOOLEAN
  BY SfTypes DEF SfInv, SfShape
<1> QED BY <1>1 DEF Sf!Row

\* What it reads.
LEMMA SfReads ==
  ASSUME SfInv, NEW step \in {"setup", "enable", "consume", "login", "disable"},
         NEW then \in {"end", "login", "disable"}, NEW code \in 0..MaxBatches
  PROVE  LET o == Sf!Read(step, then, code)
         IN  /\ o \in SfRead /\ o.at = step /\ o.then = then /\ o.code = code
             /\ o.row[1] = secret /\ o.row[2] = enabled
<1> HIDE DEF Sf!Row
<1>1. Sf!Row \in (0..MaxSecrets) \X BOOLEAN /\ Sf!Row[1] = secret /\ Sf!Row[2] = enabled
  BY SfRow
<1>2. Sf!Read(step, then, code) = [at |-> step, row |-> Sf!Row, then |-> then, code |-> code]
  BY DEF Sf!Read
<1>3. Sf!Read(step, then, code) \in SfRead
  BY <1>1, <1>2 DEF SfRead
<1> QED BY <1>1, <1>2, <1>3

\* A request begins and the others stay.
LEMMA SfStarts ==
  ASSUME SfInv, NEW s \in Slots, NEW to, Sf!Starts(s, to)
  PROVE  op' = [op EXCEPT ![s] = to] /\ requests' \in 0..Requests["factor"]
BY DEF Sf!Starts, SfInv, SfShape

\* The factor itself does not change.
LEMMA SfRest ==
  ASSUME SfInv, UNCHANGED <<secret, enabled, codes, secrets, batches, uses, raced>>,
         requests' \in 0..Requests["factor"], proven \subseteq proven', proven' \subseteq 1..MaxSecrets
  PROVE  SfShape' /\ SfUses' /\ SfFactor'
<1>1. SfShape'
  BY DEF SfInv, SfShape
<1>2. SfUses' /\ SfFactor'
  BY DEF SfInv, SfUses, SfFactor
<1> QED BY <1>1, <1>2

\* A setup begins: the row is read.
LEMMA SfSetup ==
  ASSUME SfInv, NEW s \in Slots, Sf!setupMfa(s)
  PROVE  SfInv'
<1> DEFINE to == Sf!Read("setup", "end", 0)
<1>1. /\ ~enabled /\ Sf!Starts(s, to)
      /\ UNCHANGED <<secret, enabled, codes, secrets, batches, proven, uses, raced>>
  BY DEF Sf!setupMfa
<1>2. /\ to \in SfRead /\ to.at = "setup" /\ to.row[2] = enabled
  BY SfReads DEF SfInv, SfShape
<1> HIDE DEF to
<1>3. op' = [op EXCEPT ![s] = to] /\ requests' \in 0..Requests["factor"]
  BY <1>1, SfStarts
<1>4. SfShape' /\ SfUses' /\ SfFactor'
  BY <1>1, <1>3, SfRest DEF SfInv, SfShape
<1>5. DOMAIN op' = Slots /\ \A t \in Slots : SfPart(t)'
  <2>1. /\ batches' = batches /\ proven \subseteq proven' /\ to \in SfRead
        /\ to.at \notin {"enable", "consume"} /\ (to.at = "setup" => to.row[2] = FALSE)
    BY <1>1, <1>2
  <2> QED BY <1>3, <2>1, SfBatches, SfStep
<1> QED BY <1>4, <1>5 DEF SfInv

\* An activation begins with a code of a secret the user holds.
LEMMA SfEnable ==
  ASSUME SfInv, NEW s \in Slots, NEW held \in 1..secrets, Sf!enableMfa(s, held)
  PROVE  SfInv'
<1> DEFINE to == Sf!Read("enable", "end", 0)
<1>1. /\ secret # 0 /\ held = secret /\ Sf!Starts(s, to) /\ proven' = proven \cup {secret}
      /\ UNCHANGED <<secret, enabled, codes, secrets, batches, uses, raced>>
  BY DEF Sf!enableMfa, Sf!Verified
<1>2. /\ to \in SfRead /\ to.at = "enable" /\ to.row[1] = secret
  BY SfReads DEF SfInv, SfShape
<1> HIDE DEF to
<1>3. op' = [op EXCEPT ![s] = to] /\ requests' \in 0..Requests["factor"]
  BY <1>1, SfStarts
<1>4. proven \subseteq proven' /\ proven' \subseteq 1..MaxSecrets
  BY <1>1, SfTypes DEF SfInv, SfShape
<1>5. SfShape' /\ SfUses' /\ SfFactor'
  BY <1>1, <1>3, <1>4, SfRest
<1>6. DOMAIN op' = Slots /\ \A t \in Slots : SfPart(t)'
  BY <1>1, <1>2, <1>3, <1>4, SfBatches, SfStep
<1> QED BY <1>5, <1>6 DEF SfInv

\* A code is verified against the row that was read.
LEMMA SfVerify ==
  ASSUME SfInv, NEW s \in Slots, NEW then \in {"login", "disable"}, Sf!verifyMfaCode(s, then)
  PROVE  SfInv'
<1>1. UNCHANGED <<secret, enabled, codes, secrets, batches, proven, uses, raced>>
  BY DEF Sf!verifyMfaCode
<1>2. PICK to : /\ Sf!Starts(s, to) /\ to \in SfRead
                /\ to.at \in {"login", "disable", "consume"}
                /\ to.at = "consume" => to.code \in 1..batches /\ to.then \in {"login", "disable"}
  <2>1. CASE \E held \in 1..secrets : Sf!Verified(held) /\ Sf!Starts(s, Sf!Read(then, then, 0))
    <3>1. Sf!Read(then, then, 0) \in SfRead /\ Sf!Read(then, then, 0).at = then
      BY SfReads DEF SfInv, SfShape
    <3> QED BY <2>1, <3>1
  <2>2. CASE \E c \in 1..batches : Sf!Starts(s, Sf!Read("consume", then, c))
    <3>1. PICK c \in 1..batches : Sf!Starts(s, Sf!Read("consume", then, c))
      BY <2>2
    <3>2. c \in 0..MaxBatches
      BY SfTypes
    <3>3. /\ Sf!Read("consume", then, c) \in SfRead /\ Sf!Read("consume", then, c).at = "consume"
          /\ Sf!Read("consume", then, c).code = c /\ Sf!Read("consume", then, c).then = then
      BY <3>2, SfReads
    <3> QED BY <3>1, <3>3
  <2> QED BY <2>1, <2>2 DEF Sf!verifyMfaCode
<1>3. op' = [op EXCEPT ![s] = to] /\ requests' \in 0..Requests["factor"]
  BY <1>2, SfStarts
<1>4. SfShape' /\ SfUses' /\ SfFactor'
  BY <1>1, <1>3, SfRest DEF SfInv, SfShape
<1>5. DOMAIN op' = Slots /\ \A t \in Slots : SfPart(t)'
  BY <1>1, <1>2, <1>3, SfBatches, SfStep
<1> QED BY <1>4, <1>5 DEF SfInv

\* A request that is over.
LEMMA SfIdles ==
  ASSUME SfInv, NEW s \in Slots, Sf!Goes(s, Sf!Idle), proven' = proven, batches' \in Nat,
         batches' >= batches
  PROVE  DOMAIN op' = Slots /\ (\A t \in Slots : SfPart(t)') /\ requests' = requests
<1>1. op' = [op EXCEPT ![s] = Sf!Idle] /\ requests' = requests
  BY DEF Sf!Goes
<1> QED BY <1>1, SfStep

\* What a request that is not idle read.
LEMMA SfHas ==
  ASSUME SfInv, NEW s \in Slots, op[s].at # "idle"
  PROVE  /\ op[s] \in SfRead
         /\ op[s].at = "setup" => op[s].row[2] = FALSE
         /\ op[s].at = "enable" => op[s].row[1] \in proven
         /\ op[s].at = "consume" => op[s].code \in 1..batches /\ op[s].then \in {"login", "disable"}
BY DEF SfInv, SfPart, Sf!Idle

\* A new secret is written over the last.
LEMMA SfWriteSecret ==
  ASSUME SfInv, NEW s \in Slots, Sf!writeSecret(s)
  PROVE  SfInv'
<1>1. /\ op[s].at = "setup" /\ Sf!Goes(s, Sf!Idle) /\ secrets < MaxSecrets
      /\ secrets' = secrets + 1 /\ secret' = secrets + 1
      /\ raced' = (raced \/ op[s].row # Sf!Row)
      /\ UNCHANGED <<enabled, codes, batches, proven, uses>>
  BY DEF Sf!writeSecret, Sf!NotesRace
<1>2. op[s].row[2] = FALSE
  BY <1>1, SfHas
<1>3. DOMAIN op' = Slots /\ (\A t \in Slots : SfPart(t)') /\ requests' = requests
  BY <1>1, SfIdles DEF SfInv, SfShape
<1>4. SfFactor'
  <2>1. ~raced' => ~raced /\ enabled = FALSE
    BY <1>1, <1>2, SfRow
  <2> QED BY <1>1, <2>1 DEF SfInv, SfFactor
<1>5. SfUses'
  BY <1>1 DEF SfInv, SfUses
<1>6. SfShape'
  <2>1. secrets' \in 0..MaxSecrets /\ secret' \in 0..secrets'
    BY <1>1 DEF SfInv, SfShape
  <2>2. raced' \in BOOLEAN
    BY <1>1 DEF SfInv, SfShape
  <2> QED BY <1>1, <1>3, <2>1, <2>2 DEF SfInv, SfShape
<1> QED BY <1>3, <1>4, <1>5, <1>6 DEF SfInv

\* The factor is turned on, with a new batch of codes.
LEMMA SfWriteEnabled ==
  ASSUME SfInv, NEW s \in Slots, Sf!writeEnabled(s)
  PROVE  SfInv'
<1>1. /\ op[s].at = "enable" /\ Sf!Goes(s, Sf!Idle) /\ batches < MaxBatches
         /\ batches' = batches + 1
      /\ enabled' = TRUE /\ codes' = {batches + 1}
      /\ raced' = (raced \/ op[s].row # Sf!Row)
      /\ UNCHANGED <<secret, secrets, proven, uses>>
  BY DEF Sf!writeEnabled, Sf!NotesRace
<1>2. op[s].row[1] \in proven
  BY <1>1, SfHas
<1>3. DOMAIN op' = Slots /\ (\A t \in Slots : SfPart(t)') /\ requests' = requests
  BY <1>1, SfIdles DEF SfInv, SfShape
<1>4. SfFactor'
  <2>1. ~raced' => secret \in proven
    BY <1>1, <1>2, SfRow
  <2> QED BY <1>1, <2>1 DEF SfFactor
<1>5. SfUses'
  <2> SUFFICES ASSUME NEW c \in 1..MaxBatches
               PROVE  uses'[c] <= 1 /\ (c \in codes' \/ c > batches' => uses'[c] = 0)
    BY DEF SfUses
  <2>1. uses[c] <= 1 /\ (c > batches => uses[c] = 0)
    BY DEF SfInv, SfUses
  <2>2. c \in codes' \/ c > batches' => c > batches
    BY <1>1 DEF SfInv, SfShape
  <2> QED BY <1>1, <2>1, <2>2
<1>6. SfShape'
  <2>1. batches' \in 0..MaxBatches /\ codes' \subseteq 1..batches'
    BY <1>1 DEF SfInv, SfShape
  <2>2. raced' \in BOOLEAN
    BY <1>1 DEF SfInv, SfShape
  <2> QED BY <1>1, <1>3, <2>1, <2>2 DEF SfInv, SfShape
<1> QED BY <1>3, <1>4, <1>5, <1>6 DEF SfInv

\* A recovery code is used and deleted.
LEMMA SfConsume ==
  ASSUME SfInv, NEW s \in Slots, Sf!consumeRecoveryCode(s)
  PROVE  SfInv'
<1> DEFINE c == op[s].code
           to == [op[s] EXCEPT !.at = op[s].then]
<1>1. /\ op[s].at = "consume"
      /\ UNCHANGED <<secret, enabled, secrets, batches, proven, raced>>
  BY DEF Sf!consumeRecoveryCode
<1>2. op[s] \in SfRead /\ c \in 1..batches /\ op[s].then \in {"login", "disable"}
  BY <1>1, SfHas
<1>3. c \in 1..MaxBatches
  BY <1>2, SfTypes
<1>4. CASE c \in codes
  <2>1. codes' = codes \ {c} /\ uses' = [uses EXCEPT ![c] = @ + 1] /\ Sf!Goes(s, to)
    BY <1>4 DEF Sf!consumeRecoveryCode, Sf!RemovesCode
  <2>2. to \in SfRead /\ to.at \in {"login", "disable"}
    BY <1>2 DEF SfRead
  <2> HIDE DEF to
  <2>3. op' = [op EXCEPT ![s] = to] /\ requests' = requests
    BY <2>1 DEF Sf!Goes
  <2>4. DOMAIN op' = Slots /\ \A t \in Slots : SfPart(t)'
    BY <1>1, <2>2, <2>3, SfBatches, SfStep
  <2>5. uses[c] = 0 /\ uses'[c] = 1 /\ \A d \in (1..MaxBatches) \ {c} : uses'[d] = uses[d]
    BY <1>3, <1>4, <2>1 DEF SfInv, SfShape, SfUses
  <2>6. SfUses'
    <3> SUFFICES ASSUME NEW d \in 1..MaxBatches
                 PROVE  uses'[d] <= 1 /\ (d \in codes' \/ d > batches => uses'[d] = 0)
      BY <1>1 DEF SfUses
    <3>1. CASE d = c
      <4>1. ~(d > batches)
        BY <1>2, <3>1 DEF SfInv, SfShape
      <4> QED BY <2>1, <2>5, <3>1, <4>1
    <3>2. CASE d # c
      BY <2>1, <2>5, <3>2 DEF SfInv, SfUses
    <3> QED BY <3>1, <3>2
  <2>7. SfFactor'
    BY <1>1, <2>1 DEF SfInv, SfFactor
  <2>8. SfShape'
    <3>1. uses' \in [1..MaxBatches -> Nat]
      BY <1>3, <2>1, <2>5 DEF SfInv, SfShape
    <3> QED BY <1>1, <2>1, <2>3, <3>1 DEF SfInv, SfShape
  <2> QED BY <2>4, <2>6, <2>7, <2>8 DEF SfInv
<1>5. CASE c \notin codes
  <2>1. Sf!Goes(s, Sf!Idle) /\ UNCHANGED <<codes, uses>>
    BY <1>5 DEF Sf!consumeRecoveryCode
  <2>2. DOMAIN op' = Slots /\ (\A t \in Slots : SfPart(t)') /\ requests' = requests
    BY <1>1, <2>1, SfIdles DEF SfInv, SfShape
  <2>3. SfShape' /\ SfUses' /\ SfFactor'
    BY <1>1, <2>1, <2>2, SfRest DEF SfInv, SfShape
  <2> QED BY <2>2, <2>3 DEF SfInv
<1> QED BY <1>4, <1>5

\* A login that was verified ends.
LEMMA SfLogin ==
  ASSUME SfInv, NEW s \in Slots, Sf!validateLogin(s)
  PROVE  SfInv'
<1>1. Sf!Goes(s, Sf!Idle)
      /\ UNCHANGED <<secret, enabled, codes, secrets, batches, proven, uses, raced>>
  BY DEF Sf!validateLogin
<1>2. DOMAIN op' = Slots /\ (\A t \in Slots : SfPart(t)') /\ requests' = requests
  BY <1>1, SfIdles DEF SfInv, SfShape
<1>3. SfShape' /\ SfUses' /\ SfFactor'
  BY <1>1, <1>2, SfRest DEF SfInv, SfShape
<1> QED BY <1>2, <1>3 DEF SfInv

\* The factor is turned off and its codes deleted.
LEMMA SfDisable ==
  ASSUME SfInv, NEW s \in Slots, Sf!disableMfa(s)
  PROVE  SfInv'
<1>1. /\ Sf!Goes(s, Sf!Idle) /\ secret' = 0 /\ enabled' = FALSE /\ codes' = {}
      /\ raced' = (raced \/ op[s].row # Sf!Row)
      /\ UNCHANGED <<secrets, batches, proven, uses>>
  BY DEF Sf!disableMfa, Sf!NotesRace
<1>2. DOMAIN op' = Slots /\ (\A t \in Slots : SfPart(t)') /\ requests' = requests
  BY <1>1, SfIdles DEF SfInv, SfShape
<1>3. SfFactor'
  BY <1>1 DEF SfFactor
<1>4. SfUses'
  BY <1>1 DEF SfInv, SfUses
<1>5. SfShape'
  <2>1. secret' \in 0..secrets' /\ raced' \in BOOLEAN
    BY <1>1 DEF SfInv, SfShape
  <2> QED BY <1>1, <1>2, <2>1 DEF SfInv, SfShape
<1> QED BY <1>2, <1>3, <1>4, <1>5 DEF SfInv

\* The invariant of the second factor holds at the start.
LEMMA SfInvInit == ASSUME Sf!Init PROVE SfInv
<1>1. /\ secret = 0 /\ enabled = FALSE /\ codes = {} /\ secrets = 0 /\ batches = 0
      /\ op = [s \in Slots |-> Sf!Idle] /\ requests = 0
      /\ proven = {} /\ uses = [c \in 1..MaxBatches |-> 0] /\ raced = FALSE
  BY DEF Sf!Init
<1>2. SfShape
  <2>1. MaxSecrets \in Nat /\ MaxBatches \in Nat /\ Requests["factor"] \in Nat
    BY SfA DEF Sf!SecondFactorAssumption
  <2>2. uses \in [1..MaxBatches -> Nat]
    BY <1>1
  <2>3. /\ secrets \in 0..MaxSecrets /\ secret \in 0..secrets /\ batches \in 0..MaxBatches
        /\ requests \in 0..Requests["factor"]
    BY <1>1, <2>1
  <2>4. codes \subseteq 1..batches /\ proven \subseteq 1..MaxSecrets
    BY <1>1
  <2> QED BY <1>1, <2>1, <2>2, <2>3, <2>4 DEF SfShape
<1>3. SfUses /\ SfFactor
  BY <1>1 DEF SfUses, SfFactor
<1>4. DOMAIN op = Slots /\ \A s \in Slots : SfPart(s)
  BY <1>1 DEF SfPart
<1> QED BY <1>2, <1>3, <1>4 DEF SfInv

\* Every step of the second factor keeps its invariant.
LEMMA SfInvNext ==
  ASSUME SfInv, [Sf!Next]_(Sf!vars)
  PROVE  SfInv'
<1>1. CASE UNCHANGED Sf!vars
  <2>1. SfShape' /\ SfUses' /\ SfFactor'
    BY <1>1 DEF Sf!vars, SfInv, SfShape, SfUses, SfFactor
  <2>2. DOMAIN op' = Slots /\ \A s \in Slots : SfPart(s)'
    BY <1>1 DEF Sf!vars, SfInv, SfPart
  <2> QED BY <2>1, <2>2 DEF SfInv
<1>2. CASE Sf!Next
  <2>1. PICK s \in Slots :
          \/ Sf!setupMfa(s) \/ Sf!writeSecret(s) \/ Sf!writeEnabled(s)
          \/ \E held \in 1..secrets : Sf!enableMfa(s, held)
          \/ \E then \in {"login", "disable"} : Sf!verifyMfaCode(s, then)
          \/ Sf!consumeRecoveryCode(s) \/ Sf!validateLogin(s) \/ Sf!disableMfa(s)
    BY <1>2 DEF Sf!Next
  <2> QED BY <2>1, SfSetup, SfWriteSecret, SfWriteEnabled, SfEnable, SfVerify, SfConsume, SfLogin,
             SfDisable
<1> QED BY <1>1, <1>2

\* The properties of the second factor follow from its invariant.
LEMMA SfFollows == SfInv => Sf!TypeOK /\ Sf!FactorHolds
<1> SUFFICES ASSUME SfInv PROVE Sf!TypeOK /\ Sf!FactorHolds
  OBVIOUS
<1>1. Sf!TypeOK
  BY SfTypes DEF SfInv, SfShape, Sf!TypeOK
<1>2. Sf!FactorHolds
  BY DEF SfInv, SfUses, SfFactor, Sf!FactorHolds
<1> QED BY <1>1, <1>2

-----------------------------------------------------------------------------
\* What is assumed of the constants of the receipts.
LEMMA RcA == Rc!ReceiptsAssumption
BY TalkAssumption

\* What it calls finite is, and it counts as everybody does.
LEMMA RcSets ==
  \A S : (Rc!IsFiniteSet(S) <=> IsFiniteSet(S)) /\ Rc!Cardinality(S) = Cardinality(S)
BY DEF Rc!IsFiniteSet, Rc!Cardinality, IsFiniteSet, Cardinality

-----------------------------------------------------------------------------
(* Receipts. *)

RcShape ==
  /\ socket \in [Instances -> {"none", "open", "dead"}]
  /\ Rc!Now \in Nat /\ Rc!Now <= Cardinality((1..MaxMessages)) /\ sent = 1..Rc!Now
  /\ deleted \subseteq sent /\ received \subseteq sent /\ waiting \subseteq sent
  /\ pushed \subseteq sent /\ blind \subseteq sent
  /\ channel \in [Instances -> Seq(sent)] /\ marking \in [Instances -> SUBSET sent]
  /\ delivered \in 0..Rc!Now /\ read \in 0..delivered
  /\ member \in BOOLEAN

\* What an instance marks was received, or went to a connection that was dead;
\* and so did, or was read over, whatever the watermark covers.
RcCovered ==
  /\ \A i \in Instances : marking[i] \subseteq received \cup blind
  /\ \A n \in sent : n <= delivered => n \in received \cup blind

RcInv == RcShape /\ RcCovered /\ Rc!UnseenIsPushed

\* The messages are numbered from 1.
LEMMA RcPar ==
  /\ (1..MaxMessages) = 1..Cardinality((1..MaxMessages))
  /\ Cardinality((1..MaxMessages)) = MaxMessages /\ MaxMessages \in Nat
BY TalkAssumption, FS_Interval

\* The invariant of the receipts holds at the start.
LEMMA RcInvInit == ASSUME Rc!Init PROVE RcInv
<1>1. Rc!Now = 0 /\ sent = 1..Rc!Now
  BY FS_EmptySet, RcSets DEF Rc!Init, Rc!Now
<1>2. RcShape
  BY <1>1, RcPar DEF Rc!Init, RcShape
<1> QED BY <1>1, <1>2 DEF Rc!Init, RcInv, RcCovered, Rc!UnseenIsPushed

\* What a step leaves of the shape when no message is sent.
LEMMA RcShapeStays ==
  ASSUME RcInv, sent' = sent, socket' \in [Instances -> {"none", "open", "dead"}],
         deleted' \subseteq sent, received' \subseteq sent, waiting' \subseteq sent,
         pushed' \subseteq sent, blind' \subseteq sent,
         channel' \in [Instances -> Seq(sent)], marking' \in [Instances -> SUBSET sent],
         delivered' \in 0..Rc!Now, read' \in 0..delivered', member' \in BOOLEAN
  PROVE  RcShape'
<1>1. Rc!Now' = Rc!Now
  BY DEF Rc!Now
<1> QED BY <1>1 DEF RcInv, RcShape

\* A socket opens, closes or dies unseen.
LEMMA RcSockets ==
  ASSUME RcInv, NEW i \in Instances, Rc!connect(i) \/ Rc!close(i) \/ Rc!dies(i)
  PROVE  RcInv' /\ Rc!Advances
<1>1. UNCHANGED <<Rc!posts, Rc!marks, member>>
  BY DEF Rc!connect, Rc!close, Rc!dies
<1>2. socket' \in [Instances -> {"none", "open", "dead"}]
  BY DEF Rc!connect, Rc!close, Rc!dies, RcInv, RcShape
<1>3. RcShape'
  BY <1>1, <1>2, RcShapeStays DEF Rc!posts, Rc!marks, RcInv, RcShape
<1>4. RcCovered' /\ Rc!UnseenIsPushed' /\ delivered' = delivered /\ read' = read
  BY <1>1 DEF Rc!posts, Rc!marks, RcInv, RcCovered, Rc!UnseenIsPushed
<1> QED BY <1>3, <1>4 DEF RcInv, RcShape, Rc!Advances

\* A message is stored and published, and some instances miss it.
LEMMA RcPublish ==
  ASSUME RcInv, NEW m \in (1..MaxMessages), Rc!publishMessage(m)
  PROVE  RcInv' /\ Rc!Advances
<1>1. /\ m = Rc!Now + 1 /\ sent' = sent \cup {m} /\ waiting' = waiting \cup {m}
      /\ UNCHANGED <<socket, deleted, marking, pushed, Rc!marks, member>>
      /\ \E S \in SUBSET Instances :
           channel' = [i \in Instances |-> IF i \in S THEN channel[i] ELSE Append(channel[i], m)]
  BY DEF Rc!publishMessage
<1>2. /\ delivered' = delivered /\ read' = read /\ received' = received /\ blind' = blind
      /\ socket' = socket /\ deleted' = deleted /\ marking' = marking /\ pushed' = pushed
      /\ member' = member
  BY <1>1 DEF Rc!marks
<1>3. sent = 1..Rc!Now /\ Rc!Now \in Nat /\ IsFiniteSet(sent) /\ m \notin sent
      /\ m <= Cardinality((1..MaxMessages))
  <2>1. sent = 1..Rc!Now /\ Rc!Now \in Nat
    BY DEF RcInv, RcShape
  <2>2. IsFiniteSet(sent)
    BY <2>1, FS_Interval
  <2> QED BY <1>1, <2>1, <2>2, RcPar
<1>4. Rc!Now' = m /\ sent' = 1..m
  <2>1. Rc!Now' = Rc!Now + 1
    BY <1>1, <1>3, FS_AddElement, RcSets DEF Rc!Now
  <2> QED BY <1>1, <1>3, <2>1
<1>5. channel' \in [Instances -> Seq(sent')]
  <2>1. channel \in [Instances -> Seq(sent)]
    BY DEF RcInv, RcShape
  <2>2. ASSUME NEW i \in Instances
        PROVE  channel[i] \in Seq(sent') /\ Append(channel[i], m) \in Seq(sent')
    <3>1. channel[i] \in Seq(sent')
      BY <1>1, <2>1
    <3>2. m \in sent'
      BY <1>1
    <3> QED BY <3>1, <3>2
  <2> QED BY <1>1, <2>2
<1>6. marking' \in [Instances -> SUBSET sent']
  BY <1>1, <1>2 DEF RcInv, RcShape
<1>7. delivered \in 0..Rc!Now /\ read \in 0..delivered
  BY DEF RcInv, RcShape
<1>8. RcShape'
  <2>1. Rc!Now' \in Nat /\ Rc!Now' <= Cardinality((1..MaxMessages)) /\ sent' = 1..Rc!Now'
    BY <1>1, <1>3, <1>4
  <2>2. delivered' \in 0..Rc!Now' /\ read' \in 0..delivered'
    BY <1>1, <1>2, <1>3, <1>4, <1>7
  <2>3. /\ deleted' \subseteq sent' /\ received' \subseteq sent' /\ waiting' \subseteq sent'
        /\ pushed' \subseteq sent' /\ blind' \subseteq sent' /\ member' \in BOOLEAN
        /\ socket' \in [Instances -> {"none", "open", "dead"}]
    BY <1>1, <1>2 DEF RcInv, RcShape
  <2> QED BY <1>5, <1>6, <2>1, <2>2, <2>3 DEF RcShape
<1>9. RcCovered'
  <2>1. ~(m <= delivered)
    BY <1>1, <1>3, <1>7
  <2> QED BY <1>1, <1>2, <2>1 DEF RcInv, RcCovered
<1>10. Rc!UnseenIsPushed'
  BY <1>1, <1>2 DEF RcInv, Rc!UnseenIsPushed
<1> QED BY <1>2, <1>7, <1>8, <1>9, <1>10 DEF RcInv, Rc!Advances

\* A message is deleted.
LEMMA RcDelete ==
  ASSUME RcInv, NEW m \in (1..MaxMessages), Rc!deleteMessage(m)
  PROVE  RcInv' /\ Rc!Advances
<1>1. /\ deleted' = deleted \cup {m} /\ m \in sent
      /\ UNCHANGED <<socket, sent, channel, marking, waiting, pushed, Rc!marks, member>>
  BY DEF Rc!deleteMessage
<1>2. RcShape'
  BY <1>1, RcShapeStays DEF Rc!marks, RcInv, RcShape
<1>3. RcCovered' /\ Rc!UnseenIsPushed' /\ delivered' = delivered /\ read' = read
  BY <1>1 DEF Rc!marks, RcInv, RcCovered, Rc!UnseenIsPushed
<1> QED BY <1>2, <1>3 DEF RcInv, RcShape, Rc!Advances

\* An instance delivers the event to its socket, or none.
LEMMA RcDispatch ==
  ASSUME RcInv, NEW i \in Instances, Rc!dispatchEvent(i)
  PROVE  RcInv' /\ Rc!Advances
<1> DEFINE m == Head(channel[i])
           got == socket[i] = "open"
<1>1. /\ channel[i] # <<>> /\ channel' = [channel EXCEPT ![i] = Tail(@)]
      /\ received' = IF got THEN received \cup {m} ELSE received
      /\ marking' = IF Rc!LocalRecipient(i) THEN [marking EXCEPT ![i] = @ \cup {m}] ELSE marking
      /\ blind' = IF Rc!IsOnline(i) /\ ~got THEN blind \cup {m} ELSE blind
      /\ UNCHANGED <<socket, sent, deleted, waiting, pushed, delivered, read, member>>
  BY DEF Rc!dispatchEvent
<1>2. channel[i] \in Seq(sent)
  BY DEF RcInv, RcShape
<1>3. m \in sent /\ Tail(channel[i]) \in Seq(sent)
  BY <1>1, <1>2
<1> HIDE DEF m
<1>4. channel' \in [Instances -> Seq(sent)] /\ marking' \in [Instances -> SUBSET sent]
  BY <1>1, <1>3 DEF RcInv, RcShape
<1>5. RcShape'
  BY <1>1, <1>3, <1>4, RcShapeStays DEF RcInv, RcShape
<1>6. received \subseteq received' /\ blind \subseteq blind'
      /\ (Rc!LocalRecipient(i) => m \in received' \cup blind')
  BY <1>1 DEF Rc!LocalRecipient
<1>7. RcCovered'
  <2>1. ASSUME NEW j \in Instances PROVE marking'[j] \subseteq received' \cup blind'
    <3>1. marking[j] \subseteq received \cup blind
      BY DEF RcInv, RcCovered
    <3>2. marking'[j] \subseteq marking[j] \cup (IF Rc!LocalRecipient(i) THEN {m} ELSE {})
      BY <1>1 DEF RcInv, RcShape
    <3> QED BY <1>6, <3>1, <3>2
  <2> QED BY <1>1, <1>6, <2>1 DEF RcInv, RcCovered
<1>8. Rc!UnseenIsPushed'
  BY <1>1, <1>6 DEF RcInv, Rc!UnseenIsPushed
<1> QED BY <1>1, <1>5, <1>7, <1>8 DEF RcInv, RcShape, Rc!Advances

\* The watermark of deliveries is raised, if it is behind.
LEMMA RcMark ==
  ASSUME RcInv, NEW i \in Instances, NEW m \in marking[i], Rc!markDeliveredBatchIfBehind(i, m)
  PROVE  RcInv' /\ Rc!Advances
<1>1. /\ marking' = [marking EXCEPT ![i] = @ \ {m}]
      /\ delivered' = IF member THEN Rc!Advanced(m) ELSE delivered
      /\ blind' = blind \cup {n \in sent \ received : n > delivered /\ n <= delivered' /\ n # m}
      /\ UNCHANGED <<socket, sent, deleted, channel, waiting, pushed, read, received, member>>
  BY DEF Rc!markDeliveredBatchIfBehind
<1>2. /\ m \in sent /\ m \in received \cup blind /\ sent = 1..Rc!Now /\ Rc!Now \in Nat
      /\ delivered \in 0..Rc!Now /\ read \in 0..delivered
  BY DEF RcInv, RcShape, RcCovered
<1>3. delivered' \in 0..Rc!Now /\ delivered' >= delivered
  BY <1>1, <1>2 DEF Rc!Advanced, Rc!Later
<1>4. marking' \in [Instances -> SUBSET sent]
      /\ \A j \in Instances : marking'[j] \subseteq marking[j]
  BY <1>1 DEF RcInv, RcShape
<1>5. blind \subseteq blind' /\ blind' \subseteq sent
  BY <1>1 DEF RcInv, RcShape
<1>6. read' = read /\ read \in 0..delivered'
  BY <1>1, <1>2, <1>3
<1>7. RcShape'
  BY <1>1, <1>3, <1>4, <1>5, <1>6, RcShapeStays DEF RcInv, RcShape
<1>8. RcCovered'
  <2>1. ASSUME NEW n \in sent, n <= delivered' PROVE n \in received' \cup blind'
    <3>1. CASE n <= delivered
      BY <1>1, <1>5, <3>1 DEF RcInv, RcCovered
    <3>2. CASE ~(n <= delivered)
      <4>1. n > delivered
        BY <1>2, <3>2
      <4> QED BY <1>1, <1>2, <2>1, <4>1
    <3> QED BY <3>1, <3>2
  <2>2. \A j \in Instances : marking'[j] \subseteq received' \cup blind'
    BY <1>1, <1>4, <1>5 DEF RcInv, RcCovered
  <2> QED BY <1>1, <2>1, <2>2 DEF RcCovered
<1>9. Rc!UnseenIsPushed'
  BY <1>1, <1>5 DEF RcInv, Rc!UnseenIsPushed
<1> QED BY <1>2, <1>3, <1>6, <1>7, <1>8, <1>9 DEF RcInv, Rc!Advances

\* The member lists the messages.
LEMMA RcList ==
  ASSUME RcInv, Rc!listMessages
  PROVE  RcInv' /\ Rc!Advances
<1>1. received' = sent /\ UNCHANGED <<socket, Rc!posts, delivered, read, blind, member>>
  BY DEF Rc!listMessages
<1>2. RcShape'
  BY <1>1, RcShapeStays DEF Rc!posts, RcInv, RcShape
<1>3. RcCovered'
  BY <1>1 DEF Rc!posts, RcInv, RcShape, RcCovered
<1>4. Rc!UnseenIsPushed'
  BY <1>1 DEF Rc!posts, Rc!UnseenIsPushed
<1>5. delivered' = delivered /\ read' = read /\ Rc!Now \in Nat /\ delivered \in 0..Rc!Now
      /\ read \in 0..delivered
  BY <1>1 DEF RcInv, RcShape
<1>6. Rc!Advances
  BY <1>5 DEF Rc!Advances
<1> QED BY <1>2, <1>3, <1>4, <1>6 DEF RcInv

\* The member reads, or a client acknowledges.
LEMMA RcReads ==
  ASSUME RcInv, Rc!markAsRead \/ Rc!markDelivered
  PROVE  RcInv' /\ Rc!Advances
<1>1. /\ delivered' = Rc!Now /\ (read' = Rc!Now \/ read' = read) /\ blind' = blind \cup Rc!Covers
      /\ UNCHANGED <<socket, Rc!posts, received, member>>
  BY DEF Rc!markAsRead, Rc!markDelivered
<1>2. sent = 1..Rc!Now /\ Rc!Now \in Nat /\ delivered \in 0..Rc!Now /\ read \in 0..delivered
  BY DEF RcInv, RcShape
<1>3. blind' \subseteq sent /\ blind \subseteq blind'
  BY <1>1 DEF Rc!Covers, RcInv, RcShape
<1>4. delivered' \in 0..Rc!Now /\ read' \in 0..delivered' /\ read' >= read
      /\ delivered' >= delivered
  BY <1>1, <1>2
<1>5. RcShape'
  BY <1>1, <1>3, <1>4, RcShapeStays DEF Rc!posts, RcInv, RcShape
<1>6. RcCovered'
  <2>1. ASSUME NEW n \in sent PROVE n \in received' \cup blind'
    <3>1. CASE n <= delivered
      BY <1>1, <1>3, <3>1 DEF RcInv, RcCovered
    <3>2. CASE ~(n <= delivered)
      <4>1. n > delivered
        BY <1>2, <3>2
      <4> QED BY <1>1, <4>1 DEF Rc!Covers
    <3> QED BY <3>1, <3>2
  <2>2. \A j \in Instances : marking'[j] \subseteq received' \cup blind'
    BY <1>1, <1>3 DEF Rc!posts, RcInv, RcCovered
  <2> QED BY <1>1, <2>1, <2>2 DEF Rc!posts, RcCovered
<1>7. Rc!UnseenIsPushed'
  BY <1>1, <1>3 DEF Rc!posts, RcInv, Rc!UnseenIsPushed
<1> QED BY <1>4, <1>5, <1>6, <1>7 DEF RcInv, Rc!Advances

\* The member leaves.
LEMMA RcLeave ==
  ASSUME RcInv, Rc!leave
  PROVE  RcInv' /\ Rc!Advances
<1>1. member' = FALSE /\ UNCHANGED <<socket, Rc!posts, Rc!marks>>
  BY DEF Rc!leave
<1>2. RcShape'
  BY <1>1, RcShapeStays DEF Rc!posts, Rc!marks, RcInv, RcShape
<1>3. RcCovered' /\ Rc!UnseenIsPushed'
  BY <1>1 DEF Rc!posts, Rc!marks, RcInv, RcCovered, Rc!UnseenIsPushed
<1> QED BY <1>1, <1>2, <1>3 DEF Rc!marks, RcInv, RcShape, Rc!Advances

\* The worker pushes what is not seen.
LEMMA RcPush ==
  ASSUME RcInv, NEW m \in (1..MaxMessages), Rc!runChatMessagePush(m)
  PROVE  RcInv' /\ Rc!Advances
<1>1. /\ m \in waiting /\ waiting' = waiting \ {m}
      /\ pushed' = IF m \notin deleted /\ member /\ Rc!Behind(m) THEN pushed \cup {m} ELSE pushed
      /\ UNCHANGED <<socket, sent, deleted, channel, marking, Rc!marks, member>>
  BY DEF Rc!runChatMessagePush
<1>2. m \in sent /\ sent = 1..Rc!Now /\ Rc!Now \in Nat /\ delivered \in 0..Rc!Now
  BY <1>1 DEF RcInv, RcShape
<1>3. RcShape'
  BY <1>1, <1>2, RcShapeStays DEF Rc!marks, RcInv, RcShape
<1>4. RcCovered'
  BY <1>1 DEF Rc!marks, RcInv, RcCovered
<1>5. Rc!UnseenIsPushed'
  <2> SUFFICES ASSUME member, NEW n \in sent, n \notin waiting', n \notin deleted, n \notin blind
               PROVE  n \in received \cup pushed'
    BY <1>1 DEF Rc!marks, Rc!UnseenIsPushed
  <2>1. CASE n = m
    <3>1. CASE Rc!Behind(m)
      BY <1>1, <2>1, <3>1
    <3>2. CASE ~Rc!Behind(m)
      <4>1. m <= delivered
        BY <1>2, <3>2 DEF Rc!Behind
      <4> QED BY <1>2, <2>1, <4>1 DEF RcInv, RcCovered
    <3> QED BY <3>1, <3>2
  <2>2. CASE n # m
    BY <1>1, <2>2 DEF RcInv, Rc!UnseenIsPushed
  <2> QED BY <2>1, <2>2
<1> QED BY <1>1, <1>3, <1>4, <1>5 DEF Rc!marks, RcInv, RcShape, Rc!Advances

\* Every step of the receipts keeps their invariant and takes no watermark back.
LEMMA RcNext ==
  ASSUME RcInv, [Rc!Next]_(Rc!vars)
  PROVE  RcInv' /\ Rc!Advances
<1>1. CASE UNCHANGED Rc!vars
  <2>1. RcShape'
    BY <1>1 DEF Rc!vars, RcInv, RcShape, Rc!Now
  <2>2. RcCovered' /\ Rc!UnseenIsPushed'
    BY <1>1 DEF Rc!vars, RcInv, RcCovered, Rc!UnseenIsPushed
  <2> QED BY <1>1, <2>1, <2>2 DEF Rc!vars, RcInv, RcShape, Rc!Advances
<1>2. CASE \E i \in Instances : Rc!connect(i) \/ Rc!close(i) \/ Rc!dies(i)
  BY <1>2, RcSockets
<1>3. CASE \E m \in (1..MaxMessages) : Rc!publishMessage(m) \/ Rc!deleteMessage(m) \/ Rc!runChatMessagePush(m)
  BY <1>3, RcPublish, RcDelete, RcPush
<1>4. CASE \E i \in Instances : Rc!dispatchEvent(i) \/ \E m \in marking[i] : Rc!markDeliveredBatchIfBehind(i, m)
  BY <1>4, RcDispatch, RcMark
<1>5. CASE Rc!listMessages \/ Rc!markAsRead \/ Rc!markDelivered \/ Rc!leave
  BY <1>5, RcList, RcReads, RcLeave
<1> QED BY <1>1, <1>2, <1>3, <1>4, <1>5 DEF Rc!Next

\* A sequence of some things is one of more things.
LEMMA RcWider ==
  ASSUME NEW S, NEW T, S \subseteq T, NEW q \in Seq(S)
  PROVE  q \in Seq(T)
OBVIOUS

\* The properties of the receipts follow from their invariant.
LEMMA RcFollows == RcInv => Rc!TypeOK /\ Rc!UnseenIsPushed
<1> SUFFICES ASSUME RcInv PROVE Rc!TypeOK
  BY DEF RcInv
<1>1. sent \subseteq (1..MaxMessages) /\ delivered \in 0..Cardinality((1..MaxMessages))
  <2>1. /\ Rc!Now \in Nat /\ Rc!Now <= MaxMessages /\ sent = 1..Rc!Now
        /\ delivered \in 0..Rc!Now
    BY RcPar DEF RcInv, RcShape
  <2> QED BY <2>1, RcPar
<1>2. \A i \in Instances : channel[i] \in Seq((1..MaxMessages)) /\ marking[i] \subseteq sent
  <2> SUFFICES ASSUME NEW i \in Instances
               PROVE  channel[i] \in Seq((1..MaxMessages)) /\ marking[i] \subseteq sent
    OBVIOUS
  <2>1. channel[i] \in Seq(sent) /\ marking[i] \subseteq sent
    BY DEF RcInv, RcShape
  <2> QED BY <1>1, <2>1, RcWider
<1> QED BY <1>1, <1>2, RcSets DEF RcInv, RcShape, Rc!TypeOK

-----------------------------------------------------------------------------
\* What is assumed of the constants of the comments.
LEMMA CoA == Co!CommentsAssumption
BY TalkAssumption

\* What it calls finite is, and it counts as everybody does.
LEMMA CoSets ==
  \A S : (Co!IsFiniteSet(S) <=> IsFiniteSet(S)) /\ Co!Cardinality(S) = Cardinality(S)
BY DEF Co!IsFiniteSet, Co!Cardinality, IsFiniteSet, Cardinality

-----------------------------------------------------------------------------
(* Comments. *)

CoRow == [by : Authors \cup {None}, of : Scopes \cup {None, "gone"}, parent : Ids \cup {None}]

\* A reply that is stored has a root of the same event or post as its parent.
CoThread(c) ==
  c \in Co!Rows =>
    /\ comment[c].of \in there
    /\ comment[c].parent # None =>
         /\ comment[c].parent \in Co!Rows /\ comment[comment[c].parent].parent = None
         /\ comment[comment[c].parent].of = comment[c].of

\* The parent of a comment about to be stored was a root of its event or post, and
\* its id is not given to another.
CoPending(o) ==
  o.at = "create" =>
    /\ o.row \in CoRow /\ o.row.by \in Authors /\ o.row.of \in Scopes
    /\ o.row.parent # None =>
         /\ o.row.parent \in Ids /\ comment[o.row.parent] # Co!NoComment
         /\ o.row.parent \in Co!Rows => /\ comment[o.row.parent].parent = None
                                        /\ comment[o.row.parent].of = o.row.of

CoShape ==
  /\ comment \in [Ids -> CoRow] /\ hidden \subseteq Authors /\ there \subseteq Scopes
  /\ likes \subseteq Authors \X Co!Rows
  /\ op \in [Slots -> [at : {"idle", "create"}, row : CoRow]]

CoInv ==
  /\ CoShape
  /\ \A c \in Ids : CoThread(c)
  /\ \A s \in Slots : CoPending(op[s])

\* No comment, a comment that is gone, and a request at rest.
LEMMA CoNone ==
  /\ Co!NoComment \in CoRow /\ Co!NoComment.by = None /\ Co!Gone \in CoRow /\ Co!Gone.by = None
  /\ Co!Gone # Co!NoComment
  /\ Co!Free \in [at : {"idle", "create"}, row : CoRow] /\ Co!Free.at = "idle"
<1>1. Co!NoComment \in CoRow /\ Co!Gone \in CoRow /\ Co!Gone.by = None /\ Co!Gone.of = "gone"
  BY DEF Co!NoComment, Co!Gone, CoRow
<1>2. Co!Gone # Co!NoComment
  BY <1>1, CoA DEF Co!NoComment, Co!CommentsAssumption
<1> QED BY <1>1, <1>2 DEF Co!NoComment, Co!Free

\* The invariant of the comments holds at the start.
LEMMA CoInvInit == Co!Init => CoInv
<1> SUFFICES ASSUME Co!Init PROVE CoInv
  OBVIOUS
<1>1. Co!Rows = {}
  BY CoNone DEF Co!Init, Co!Rows
<1>2. CoShape
  BY <1>1, CoNone DEF Co!Init, CoShape
<1> QED BY <1>1, <1>2, CoNone DEF Co!Init, CoInv, CoThread, CoPending

\* Comments as they were.
LEMMA CoStays ==
  ASSUME CoInv, comment' = comment, there' = there
  PROVE  /\ Co!Rows' = Co!Rows /\ \A c \in Ids : CoThread(c)'
         /\ \A s \in Slots : op'[s] = op[s] => CoPending(op[s])'
BY DEF CoInv, CoThread, CoPending, Co!Rows

\* A comment begins: its root is read.
LEMMA CoAdd ==
  ASSUME CoInv, NEW s \in Slots, NEW u \in Authors, NEW x \in Scopes, NEW p \in Ids \cup {None},
         Co!addComment(s, u, x, p)
  PROVE  CoInv'
<1> DEFINE new == [by |-> u, of |-> x, parent |-> p]
<1>1. /\ op' = [op EXCEPT ![s] = [at |-> "create", row |-> new]]
      /\ p = None \/ (p \in Co!Rows /\ comment[p].of = x /\ comment[p].parent = None)
      /\ UNCHANGED <<comment, there, hidden, likes>>
  BY DEF Co!addComment, Co!resolveParentComment
<1>2. new \in CoRow /\ new.by = u /\ new.of = x /\ new.parent = p
  BY DEF CoRow
<1>3. p # None => p \in Ids /\ comment[p] # Co!NoComment
  BY <1>1, CoNone DEF Co!Rows
<1> HIDE DEF new
<1>4. /\ op' \in [Slots -> [at : {"idle", "create"}, row : CoRow]]
      /\ op'[s].row = new /\ \A t \in Slots \ {s} : op'[t] = op[t]
  BY <1>1, <1>2 DEF CoInv, CoShape
<1>5. \A t \in Slots : CoPending(op[t])'
  <2>1. CoPending(op[s])'
    BY <1>1, <1>2, <1>3, <1>4 DEF CoPending, Co!Rows
  <2> QED BY <1>1, <1>4, <2>1, CoStays
<1> QED BY <1>1, <1>4, <1>5, CoStays DEF CoInv, CoShape

\* The comment is inserted under the root that was read.
LEMMA CoCreate == ASSUME CoInv, NEW s \in Slots, Co!createComment(s) PROVE CoInv'
<1> DEFINE new == op[s].row
<1>1. /\ op[s].at = "create" /\ op' = [op EXCEPT ![s] = Co!Free]
      /\ UNCHANGED <<there, hidden, likes, requests>>
  BY DEF Co!createComment
<1>2. /\ op' \in [Slots -> [at : {"idle", "create"}, row : CoRow]]
      /\ op'[s] = Co!Free /\ \A t \in Slots \ {s} : op'[t] = op[t]
  BY <1>1, CoNone DEF CoInv, CoShape
<1>3. CASE UNCHANGED comment
  <2>1. CoPending(op[s])'
    BY <1>2, CoNone DEF CoPending
  <2> QED BY <1>1, <1>2, <1>3, <2>1, CoStays DEF CoInv, CoShape
<1>4. ASSUME new.of \in there, new.parent # None => new.parent \in Co!Rows,
             NEW c \in Ids, comment[c] = Co!NoComment, comment' = [comment EXCEPT ![c] = new]
      PROVE  CoInv'
  <2>1. /\ new \in CoRow /\ new.by \in Authors /\ new.by # None
        /\ new.parent # None => /\ new.parent \in Co!Rows /\ comment[new.parent].parent = None
                                /\ comment[new.parent].of = new.of
    BY <1>1, <1>4, CoA DEF CoInv, CoPending, Co!CommentsAssumption
  <2> HIDE DEF new
  <2>2. /\ comment' \in [Ids -> CoRow] /\ comment'[c] = new
        /\ \A d \in Ids \ {c} : comment'[d] = comment[d]
    BY <1>4, <2>1 DEF CoInv, CoShape
  <2>3. c \notin Co!Rows /\ Co!Rows' = Co!Rows \cup {c}
    BY <1>4, <2>1, <2>2, CoNone DEF Co!Rows
  <2>4. \A d \in Co!Rows : comment'[d] = comment[d] /\ d \in Ids
    BY <2>2, <2>3 DEF Co!Rows
  <2>5. \A d \in Ids : CoThread(d)'
    <3> SUFFICES ASSUME NEW d \in Ids, d \in Co!Rows'
                 PROVE  /\ comment'[d].of \in there
                        /\ comment'[d].parent # None =>
                             /\ comment'[d].parent \in Co!Rows'
                             /\ comment'[comment'[d].parent].parent = None
                             /\ comment'[comment'[d].parent].of = comment'[d].of
      BY <1>1 DEF CoThread
    <3>1. CASE d = c
      BY <1>4, <2>1, <2>2, <2>3, <2>4, <3>1
    <3>2. CASE d \in Co!Rows
      BY <2>3, <2>4, <3>2 DEF CoInv, CoThread
    <3> QED BY <2>3, <3>1, <3>2
  <2>6. \A t \in Slots : CoPending(op[t])'
    <3> SUFFICES ASSUME NEW t \in Slots PROVE CoPending(op[t])'
      OBVIOUS
    <3>1. CASE t = s
      BY <1>2, <3>1, CoNone DEF CoPending
    <3>2. CASE t # s
      <4>1. op'[t] = op[t] /\ CoPending(op[t])
        BY <1>2, <3>2 DEF CoInv
      <4>2. op[t].at = "create" /\ op[t].row.parent # None =>
              /\ op[t].row.parent \in Ids /\ op[t].row.parent # c
              /\ comment'[op[t].row.parent] = comment[op[t].row.parent]
        BY <1>4, <2>2, <4>1 DEF CoPending
      <4> QED BY <2>3, <4>1, <4>2 DEF CoPending
    <3> QED BY <3>1, <3>2
  <2>7. likes' \subseteq Authors \X Co!Rows'
    BY <1>1, <2>3 DEF CoInv, CoShape
  <2> QED BY <1>1, <1>2, <2>2, <2>5, <2>6, <2>7 DEF CoInv, CoShape
<1> QED BY <1>3, <1>4 DEF Co!createComment

\* What goes, and everything below it.
LEMMA CoRemoves ==
  ASSUME CoInv, NEW S \in SUBSET Ids, Co!Removes(S), op' = op, hidden' = hidden, there' \subseteq there,
         \A c \in Co!Rows : comment[c].of \in there' \/ c \in S
  PROVE  CoInv'
<1> DEFINE gone == {c \in Co!Rows : c \in S \/ comment[c].parent \in S}
<1>1. /\ comment' = [c \in Ids |-> IF c \in gone THEN Co!Gone ELSE comment[c]]
      /\ likes' = {l \in likes : l[2] \notin gone}
  BY DEF Co!Removes
<1>2. comment' \in [Ids -> CoRow]
  BY <1>1, CoNone DEF CoInv, CoShape
<1>3. Co!Rows' = Co!Rows \ gone /\ \A c \in Co!Rows \ gone : c \in Ids /\ comment'[c] = comment[c]
  BY <1>1, CoNone DEF Co!Rows
<1>4. ASSUME NEW c \in Co!Rows, c \notin gone
      PROVE  /\ comment[c].of \in there'
             /\ comment[c].parent # None =>
                  /\ comment[c].parent \in Co!Rows \ gone
                     /\ comment[comment[c].parent].parent = None
                  /\ comment[comment[c].parent].of = comment[c].of
  <2>1. c \notin S /\ comment[c].parent \notin S /\ c \in Ids
    BY <1>4 DEF Co!Rows
  <2>2. ASSUME comment[c].parent # None
        PROVE  /\ comment[c].parent \in Co!Rows \ gone /\ comment[comment[c].parent].parent = None
               /\ comment[comment[c].parent].of = comment[c].of
    <3>1. /\ comment[c].parent \in Co!Rows /\ comment[comment[c].parent].parent = None
          /\ comment[comment[c].parent].of = comment[c].of
      BY <2>1, <2>2, <1>4 DEF CoInv, CoThread
    <3>2. None \notin S
      BY CoA DEF Co!CommentsAssumption
    <3> QED BY <2>1, <3>1, <3>2
  <2> QED BY <2>1, <2>2
<1>5. \A c \in Ids : comment[c] # Co!NoComment => comment'[c] # Co!NoComment
  BY <1>1, CoNone
<1> HIDE DEF gone
<1>6. \A c \in Ids : CoThread(c)'
  <2> SUFFICES ASSUME NEW c \in Ids, c \in Co!Rows'
               PROVE  /\ comment'[c].of \in there'
                      /\ comment'[c].parent # None =>
                           /\ comment'[c].parent \in Co!Rows'
                           /\ comment'[comment'[c].parent].parent = None
                           /\ comment'[comment'[c].parent].of = comment'[c].of
    BY DEF CoThread
  <2> QED BY <1>3, <1>4
<1>7. \A s \in Slots : CoPending(op[s])'
  <2> SUFFICES ASSUME NEW s \in Slots PROVE CoPending(op[s])'
    OBVIOUS
  <2>1. CoPending(op[s])
    BY DEF CoInv
  <2>2. op[s].row.parent \in Co!Rows' =>
          op[s].row.parent \in Co!Rows /\ comment'[op[s].row.parent] = comment[op[s].row.parent]
    BY <1>3
  <2> QED BY <1>5, <2>1, <2>2 DEF CoPending
<1>8. likes' \subseteq Authors \X Co!Rows'
  <2>1. likes \subseteq Authors \X Co!Rows
    BY DEF CoInv, CoShape
  <2> QED BY <1>1, <1>3, <2>1
<1> QED BY <1>2, <1>6, <1>7, <1>8 DEF CoInv, CoShape

\* Likes and hidden authors change nothing of the threads.
LEMMA CoTalks ==
  ASSUME CoInv, UNCHANGED <<comment, there, op>>, likes' \subseteq Authors \X Co!Rows, hidden' \subseteq Authors
  PROVE  CoInv'
BY CoStays DEF CoInv, CoShape

\* Every step of the comments keeps their invariant.
LEMMA CoInvNext == CoInv /\ [Co!Next]_(Co!vars) => CoInv'
<1> SUFFICES ASSUME CoInv, [Co!Next]_(Co!vars) PROVE CoInv'
  OBVIOUS
<1>1. ASSUME NEW u \in Authors, NEW c \in Ids, Co!removeComment(u, c) PROVE CoInv'
  <2>1. Co!Removes({c}) /\ UNCHANGED <<there, hidden, op>> /\ {c} \in SUBSET Ids
    BY <1>1 DEF Co!removeComment
  <2>2. \A d \in Co!Rows : comment[d].of \in there
    BY DEF CoInv, CoThread, Co!Rows
  <2> QED BY <2>1, <2>2, CoRemoves
<1>2. ASSUME NEW x \in Scopes, Co!deleteScope(x) PROVE CoInv'
  <2> DEFINE S == {c \in Co!Rows : comment[c].of = x}
  <2>1. Co!Removes(S) /\ UNCHANGED <<hidden, op>> /\ S \in SUBSET Ids /\ there' = there \ {x}
    BY <1>2 DEF Co!deleteScope, Co!Rows
  <2>2. \A d \in Co!Rows : comment[d].of \in there' \/ d \in S
    BY <2>1 DEF CoInv, CoThread, Co!Rows
  <2> HIDE DEF S
  <2> QED BY <2>1, <2>2, CoRemoves
<1>3. ASSUME NEW u \in Authors, NEW c \in Ids, Co!likeComment(u, c) \/ Co!unlikeComment(u, c) PROVE CoInv'
  BY <1>3, CoTalks DEF Co!likeComment, Co!unlikeComment, Co!createCommentReaction, CoInv, CoShape
<1>4. ASSUME NEW u \in Authors, Co!accountChanges(u) PROVE CoInv'
  BY <1>4, CoTalks DEF Co!accountChanges, CoInv, CoShape
<1>5. CASE UNCHANGED Co!vars
  BY <1>5, CoTalks DEF Co!vars, CoInv, CoShape
<1> QED BY <1>1, <1>2, <1>3, <1>4, <1>5, CoAdd, CoCreate DEF Co!Next

\* The properties of the comments follow from their invariant.
LEMMA CoFollows == CoInv => Co!TypeOK /\ Co!ThreadsAreShallow /\ Co!CountsMatchLists
<1> SUFFICES ASSUME CoInv PROVE Co!TypeOK /\ Co!ThreadsAreShallow /\ Co!CountsMatchLists
  OBVIOUS
<1>1. \A c \in Co!Rows : c \in Ids /\ comment[c].by \in Authors
  BY DEF CoInv, CoShape, CoRow, Co!Rows
<1>2. Co!TypeOK
  BY <1>1 DEF CoInv, CoShape, CoThread, Co!TypeOK
<1>3. Co!ThreadsAreShallow
  BY <1>1 DEF CoInv, CoThread, Co!ThreadsAreShallow
<1>4. Co!CountsMatchLists
  BY DEF Co!CountsMatchLists, Co!CommentsCount, Co!RepliesCount, Co!Listed, Co!Replies, Co!Visible,
         Co!Opens, Co!findCommentDetail
<1> QED BY <1>2, <1>3, <1>4

-----------------------------------------------------------------------------
(* The gateway. *)

\* What is assumed of the constants of the gateway.
LEMMA GwA ==
  /\ Client \in Sockets /\ IsFiniteSet(Sockets)
  /\ MAX_SOCKETS_PER_USER \in Nat /\ MAX_INBOUND_FRAMES_PER_WINDOW \in Nat
BY TalkAssumption DEF Gw!GatewayAssumption, Gw!IsFiniteSet, IsFiniteSet

\* The instance counts as everybody does.
LEMMA GwCount == \A S : Gw!Cardinality(S) = Cardinality(S)
BY DEF Gw!Cardinality, Cardinality

\* No instance is above its cap.
GwCapped == \A i \in Instances : Cardinality(Gw!Registered(i)) <= MAX_SOCKETS_PER_USER

\* The frames of two windows: those of this one, and a whole one at most.
GwFlood == burst <= count + MAX_INBOUND_FRAMES_PER_WINDOW

\* Without overlaps one announcement is out at most, and it, or what was shown last,
\* is whether there is a socket anywhere.
GwPresence ==
  ~overlapped =>
    \/ announcing = {} /\ (shown <=> Gw!Anywhere # {})
    \/ \E a \in announcing : announcing = {a} /\ (a.online <=> Gw!Anywhere # {})

GwInv == Gw!TypeOK /\ GwCapped /\ GwFlood /\ GwPresence

\* Where sockets are.
LEMMA GwPlaces ==
  ASSUME Gw!TypeOK
  PROVE  /\ Gw!Anywhere = {k \in Sockets : state[k] \in {"open", "dead"}}
         /\ \A i : Gw!Registered(i) \subseteq Sockets /\ IsFiniteSet(Gw!Registered(i))
         /\ \A k \in Sockets : place[k] \in Instances
<1>1. \A k \in Sockets : place[k] \in Instances
  BY DEF Gw!TypeOK
<1>2. \A i : Gw!Registered(i) \subseteq Sockets
  BY DEF Gw!Registered
<1>3. \A i : IsFiniteSet(Gw!Registered(i))
  BY <1>2, GwA, FS_Subset
<1>4. Gw!Anywhere = {k \in Sockets : state[k] \in {"open", "dead"}}
  BY <1>1 DEF Gw!Anywhere, Gw!Registered
<1> QED BY <1>1, <1>2, <1>3, <1>4

\* The invariant begins.
LEMMA GwInvInit == Gw!Init => GwInv
<1> SUFFICES ASSUME Gw!Init PROVE GwInv
  OBVIOUS
<1>1. /\ place \in [Sockets -> Instances] /\ state = [k \in Sockets |-> "closed"]
      /\ count = 0 /\ burst = 0 /\ announcing = {} /\ ~shown /\ ~overlapped
      /\ banned \in BOOLEAN /\ shown \in BOOLEAN
  BY DEF Gw!Init
<1>2. Gw!TypeOK
  BY <1>1, GwA DEF Gw!TypeOK
<1>3. \A i : Gw!Registered(i) = {}
  BY <1>1 DEF Gw!Registered
<1>4. GwCapped
  BY <1>3, FS_EmptySet, GwA DEF GwCapped
<1>5. GwPresence
  BY <1>1, <1>3 DEF GwPresence, Gw!Anywhere
<1>6. GwFlood
  BY <1>1, GwA DEF GwFlood
<1> QED BY <1>2, <1>4, <1>5, <1>6 DEF GwInv

\* What a socket announces is the truth when it does, and alone unless it overlaps.
LEMMA GwAnnounces ==
  ASSUME GwInv, Gw!TypeOK', NEW k \in Sockets, NEW b \in BOOLEAN, Gw!Announce(b, k),
         Gw!Anywhere' # {} <=> b \/ Gw!Anywhere \ {k} # {}
  PROVE  GwPresence'
<1> DEFINE a == [online |-> b, by |-> k]
<1>1. /\ announcing' = announcing \cup {a}
      /\ overlapped' <=> (overlapped \/ announcing # {} \/ Gw!Anywhere \ {k} # {})
  BY DEF Gw!Announce
<1>2. a.online = b
  OBVIOUS
<1> HIDE DEF a
<1>3. ASSUME ~overlapped'
      PROVE  announcing' = {a} /\ a \in announcing' /\ (a.online <=> Gw!Anywhere' # {})
  BY <1>1, <1>2, <1>3
<1> QED BY <1>3 DEF GwPresence

\* A step that moves no socket in or out, and announces nothing, keeps cap and presence.
LEMMA GwRests ==
  ASSUME GwInv, Gw!TypeOK', UNCHANGED <<place, announcing, shown, overlapped>>,
         \A k \in Sockets : state'[k] \in {"open", "dead"} <=> state[k] \in {"open", "dead"}
  PROVE  GwCapped' /\ GwPresence'
<1>1. \A i : Gw!Registered(i)' = Gw!Registered(i)
  BY DEF Gw!Registered
<1>2. Gw!Anywhere' = Gw!Anywhere
  BY GwPlaces DEF Gw!Anywhere, Gw!Registered
<1> QED BY <1>1, <1>2 DEF GwInv, GwCapped, GwPresence

\* A handshake ends: below the cap the socket is registered.
LEMMA GwConnects == ASSUME GwInv, NEW k \in Sockets, Gw!connect(k) PROVE GwInv'
<1>0. /\ place \in [Sockets -> Instances] /\ state \in [Sockets -> {"closed", "authenticated", "open", "dead"}]
      /\ count \in 0..MAX_INBOUND_FRAMES_PER_WINDOW /\ burst \in Nat
      /\ announcing \subseteq [online : BOOLEAN, by : Sockets]
      /\ state[k] = "authenticated" /\ UNCHANGED <<place, shown, banned>>
  BY DEF GwInv, Gw!TypeOK, Gw!connect
<1>1. /\ count' \in 0..MAX_INBOUND_FRAMES_PER_WINDOW /\ burst' \in Nat
      /\ burst' <= count' + MAX_INBOUND_FRAMES_PER_WINDOW
  BY <1>0, GwA DEF Gw!connect, GwInv, GwFlood
<1>2. CASE ~Gw!Accepts(place[k])
  <2>1. state' = [state EXCEPT ![k] = "closed"] /\ UNCHANGED <<announcing, overlapped>>
    BY <1>2 DEF Gw!connect
  <2>2. Gw!TypeOK'
    BY <1>0, <1>1, <2>1 DEF GwInv, Gw!TypeOK
  <2>3. \A j \in Sockets : state'[j] \in {"open", "dead"} <=> state[j] \in {"open", "dead"}
    BY <1>0, <2>1
  <2> QED BY <1>0, <1>1, <2>1, <2>2, <2>3, GwRests DEF GwInv, GwFlood
<1>3. CASE Gw!Accepts(place[k])
  <2>1. /\ state' = [state EXCEPT ![k] = "open"]
        /\ IF Gw!Registered(place[k]) # {} THEN UNCHANGED <<announcing, overlapped>>
                                        ELSE Gw!Announce(TRUE, k)
    BY <1>3 DEF Gw!connect
  <2>2. announcing' \subseteq [online : BOOLEAN, by : Sockets]
    <3>1. [online |-> TRUE, by |-> k] \in [online : BOOLEAN, by : Sockets]
      OBVIOUS
    <3> QED BY <1>0, <2>1, <3>1 DEF Gw!Announce
  <2>3. Gw!TypeOK'
    BY <1>0, <1>1, <2>1, <2>2 DEF GwInv, Gw!TypeOK
  <2>4. \A i \in Instances : /\ i = place[k] => Gw!Registered(i)' = Gw!Registered(i) \cup {k}
                             /\ i # place[k] => Gw!Registered(i)' = Gw!Registered(i)
    BY <1>0, <2>1 DEF Gw!Registered
  <2>5. k \notin Gw!Registered(place[k]) /\ place[k] \in Instances
    BY <1>0 DEF Gw!Registered
  <2>6. GwCapped'
    <3> SUFFICES ASSUME NEW i \in Instances PROVE Cardinality(Gw!Registered(i)') <= MAX_SOCKETS_PER_USER
      BY DEF GwCapped
    <3>1. CASE i # place[k]
      BY <2>4, <3>1 DEF GwInv, GwCapped
    <3>2. CASE i = place[k]
      <4>1. Cardinality(Gw!Registered(i)) < MAX_SOCKETS_PER_USER
        BY <1>3, <3>2, GwCount DEF Gw!Accepts
      <4>2. IsFiniteSet(Gw!Registered(i))
        BY GwPlaces DEF GwInv
      <4>3. /\ Cardinality(Gw!Registered(i)') = Cardinality(Gw!Registered(i)) + 1
            /\ Cardinality(Gw!Registered(i)) \in Nat
        BY <2>4, <2>5, <3>2, <4>2, FS_AddElement, FS_CardinalityType
      <4> QED BY <4>1, <4>3, GwA
    <3> QED BY <3>1, <3>2
  <2>7. Gw!Anywhere' = Gw!Anywhere \cup {k}
    <3>1. Gw!Anywhere' = {j \in Sockets : state'[j] \in {"open", "dead"}}
      BY <1>0, <2>3 DEF Gw!TypeOK, Gw!Anywhere, Gw!Registered
    <3>2. Gw!Anywhere = {j \in Sockets : state[j] \in {"open", "dead"}}
      BY GwPlaces DEF GwInv
    <3> QED BY <1>0, <2>1, <3>1, <3>2
  <2>8. GwPresence'
    <3>1. CASE Gw!Registered(place[k]) = {}
      BY <2>1, <2>3, <2>7, <3>1, GwAnnounces
    <3>2. CASE Gw!Registered(place[k]) # {}
      <4>1. Gw!Anywhere # {} /\ Gw!Anywhere' # {}
        BY <2>5, <2>7, <3>2 DEF Gw!Anywhere
      <4> QED BY <1>0, <2>1, <3>2, <4>1 DEF GwInv, GwPresence
    <3> QED BY <3>1, <3>2
  <2> QED BY <1>1, <2>3, <2>6, <2>8 DEF GwInv, GwFlood
<1> QED BY <1>2, <1>3

\* A registered socket leaves, whoever ends it.
LEMMA GwLeaves ==
  ASSUME GwInv, NEW k \in Sockets, state[k] \in {"open", "dead"}, Gw!Leaves(k)
  PROVE  GwInv'
<1>0. /\ place \in [Sockets -> Instances] /\ state \in [Sockets -> {"closed", "authenticated", "open", "dead"}]
      /\ announcing \subseteq [online : BOOLEAN, by : Sockets]
      /\ state' = [state EXCEPT ![k] = "closed"]
      /\ IF Gw!LastOf(k) THEN Gw!Announce(FALSE, k) ELSE UNCHANGED <<announcing, overlapped>>
      /\ UNCHANGED <<place, count, burst, shown, banned>>
  BY DEF GwInv, Gw!TypeOK, Gw!Leaves
<1>1. announcing' \subseteq [online : BOOLEAN, by : Sockets]
  <2>1. [online |-> FALSE, by |-> k] \in [online : BOOLEAN, by : Sockets]
    OBVIOUS
  <2> QED BY <1>0, <2>1 DEF Gw!Announce
<1>2. Gw!TypeOK'
  BY <1>0, <1>1 DEF GwInv, Gw!TypeOK
<1>3. \A i : Gw!Registered(i)' = Gw!Registered(i) \ {k}
  BY <1>0 DEF Gw!Registered
<1>4. k \in Gw!Registered(place[k]) /\ place[k] \in Instances
  BY <1>0 DEF Gw!Registered
<1>5. GwCapped'
  <2> SUFFICES ASSUME NEW i \in Instances PROVE Cardinality(Gw!Registered(i)') <= MAX_SOCKETS_PER_USER
    BY DEF GwCapped
  <2>1. IsFiniteSet(Gw!Registered(i)) /\ Gw!Registered(i)' \subseteq Gw!Registered(i)
    BY <1>3, GwPlaces DEF GwInv
  <2>2. /\ Cardinality(Gw!Registered(i)') <= Cardinality(Gw!Registered(i))
        /\ Cardinality(Gw!Registered(i)') \in Nat /\ Cardinality(Gw!Registered(i)) \in Nat
    BY <2>1, FS_Subset, FS_CardinalityType
  <2>3. Cardinality(Gw!Registered(i)) <= MAX_SOCKETS_PER_USER
    BY DEF GwInv, GwCapped
  <2> QED BY <2>2, <2>3, GwA
<1>6. Gw!Anywhere' = Gw!Anywhere \ {k}
  <2>1. Gw!Anywhere' = {j \in Sockets : state'[j] \in {"open", "dead"}}
    BY <1>0, <1>2 DEF Gw!TypeOK, Gw!Anywhere, Gw!Registered
  <2>2. Gw!Anywhere = {j \in Sockets : state[j] \in {"open", "dead"}}
    BY GwPlaces DEF GwInv
  <2> QED BY <1>0, <2>1, <2>2
<1>7. GwPresence'
  <2>1. CASE Gw!LastOf(k)
    BY <1>0, <1>2, <1>6, <2>1, GwAnnounces
  <2>2. CASE ~Gw!LastOf(k)
    <3>1. PICK j \in Gw!Registered(place[k]) : j # k
      BY <1>4, <2>2 DEF Gw!LastOf
    <3>2. j \in Gw!Anywhere
      BY <1>4, <3>1 DEF Gw!Anywhere
    <3>3. Gw!Anywhere # {} /\ Gw!Anywhere' # {}
      BY <1>6, <3>1, <3>2
    <3> QED BY <1>0, <2>2, <3>3 DEF GwInv, GwPresence
  <2> QED BY <2>1, <2>2
<1> QED BY <1>0, <1>2, <1>5, <1>7 DEF GwInv, GwFlood

\* Frames, windows, bans, handshakes begun and connections that die.
LEMMA GwFrames ==
  ASSUME GwInv,
         \/ \E k \in Sockets : Gw!authenticate(k) \/ Gw!dies(k)
         \/ Gw!handleInbound \/ Gw!newWindow \/ Gw!ban \/ UNCHANGED Gw!vars
  PROVE  GwInv'
<1>0. /\ state \in [Sockets -> {"closed", "authenticated", "open", "dead"}]
      /\ count \in 0..MAX_INBOUND_FRAMES_PER_WINDOW /\ burst \in Nat /\ banned \in BOOLEAN
      /\ burst <= count + MAX_INBOUND_FRAMES_PER_WINDOW
  BY DEF GwInv, Gw!TypeOK, GwFlood
<1>1. UNCHANGED <<place, announcing, shown, overlapped>>
  BY DEF Gw!authenticate, Gw!dies, Gw!handleInbound, Gw!newWindow, Gw!ban, Gw!vars
<1>2. /\ state' \in [Sockets -> {"closed", "authenticated", "open", "dead"}]
      /\ \A k \in Sockets : state'[k] \in {"open", "dead"} <=> state[k] \in {"open", "dead"}
  <2>1. ASSUME NEW k \in Sockets, Gw!authenticate(k) PROVE <1>2!1 /\ <1>2!2
    BY <1>0, <2>1 DEF Gw!authenticate
  <2>2. ASSUME NEW k \in Sockets, Gw!dies(k) PROVE <1>2!1 /\ <1>2!2
    BY <1>0, <2>2 DEF Gw!dies
  <2>3. CASE Gw!handleInbound \/ Gw!newWindow \/ Gw!ban \/ UNCHANGED Gw!vars
    BY <1>0, <2>3 DEF Gw!handleInbound, Gw!newWindow, Gw!ban, Gw!vars
  <2> QED BY <2>1, <2>2, <2>3
<1>3. /\ count' \in 0..MAX_INBOUND_FRAMES_PER_WINDOW /\ burst' \in Nat
      /\ burst' <= count' + MAX_INBOUND_FRAMES_PER_WINDOW
  <2>1. CASE Gw!handleInbound
    BY <1>0, <2>1, GwA DEF Gw!handleInbound, Gw!Allowed
  <2>2. CASE Gw!newWindow
    BY <1>0, <2>2, GwA DEF Gw!newWindow
  <2>3. CASE UNCHANGED <<count, burst>>
    BY <1>0, <2>3
  <2> QED BY <2>1, <2>2, <2>3 DEF Gw!authenticate, Gw!dies, Gw!ban, Gw!vars
<1>4. banned' \in BOOLEAN
  BY <1>0 DEF Gw!authenticate, Gw!dies, Gw!handleInbound, Gw!newWindow, Gw!ban, Gw!vars
<1>5. Gw!TypeOK'
  BY <1>1, <1>2, <1>3, <1>4 DEF GwInv, Gw!TypeOK
<1> QED BY <1>1, <1>2, <1>3, <1>5, GwRests DEF GwInv, GwFlood

\* An announcement reaches the partners.
LEMMA GwTells == ASSUME GwInv, NEW a \in announcing, Gw!announcePresence(a) PROVE GwInv'
<1>1. /\ announcing' = announcing \ {a} /\ shown' = a.online
      /\ UNCHANGED <<place, state, count, burst, overlapped, banned>>
  BY DEF Gw!announcePresence
<1>2. a.online \in BOOLEAN
  BY DEF GwInv, Gw!TypeOK
<1>3. Gw!TypeOK'
  BY <1>1, <1>2 DEF GwInv, Gw!TypeOK
<1>4. Gw!Anywhere' = Gw!Anywhere /\ \A i : Gw!Registered(i)' = Gw!Registered(i)
  BY <1>1 DEF Gw!Anywhere, Gw!Registered
<1>5. ASSUME ~overlapped' PROVE announcing' = {} /\ (shown' <=> Gw!Anywhere' # {})
  <2>1. PICK e \in announcing : announcing = {e} /\ (e.online <=> Gw!Anywhere # {})
    BY <1>1, <1>5 DEF GwInv, GwPresence
  <2>2. e = a
    BY <2>1
  <2> QED BY <1>1, <1>4, <2>1, <2>2
<1>6. GwPresence'
  BY <1>5 DEF GwPresence
<1> QED BY <1>1, <1>3, <1>4, <1>6 DEF GwInv, GwCapped, GwFlood

\* Every step of the gateway keeps its invariant.
LEMMA GwInvNext == GwInv /\ [Gw!Next]_(Gw!vars) => GwInv'
BY GwConnects, GwLeaves, GwFrames, GwTells
   DEF Gw!Next, Gw!close, Gw!heartbeat, Gw!tokenCheck

\* The properties of the gateway follow from its invariant.
LEMMA GwFollows ==
  GwInv => Gw!TypeOK /\ Gw!SocketsCapped /\ Gw!FloodBounded /\ Gw!PresenceSettles
<1> SUFFICES ASSUME GwInv
             PROVE  Gw!TypeOK /\ Gw!SocketsCapped /\ Gw!FloodBounded /\ Gw!PresenceSettles
  OBVIOUS
<1>1. Gw!SocketsCapped
  BY GwCount DEF GwInv, GwCapped, Gw!SocketsCapped
<1>2. Gw!FloodBounded
  BY GwA DEF GwInv, Gw!TypeOK, GwFlood, Gw!FloodBounded
<1>3. Gw!PresenceSettles
  BY DEF GwInv, GwPresence, Gw!PresenceSettles
<1> QED BY <1>1, <1>2, <1>3 DEF GwInv

-----------------------------------------------------------------------------
(* The instances. *)

\* The parts, each with its invariant.
TalkInv ==
  /\ part = "keys" => KeysInv
  /\ part = "receipts" => RcInv
  /\ part = "notices" => NoInv
  /\ part = "groups" => GrInv
  /\ part = "reports" => RpInv
  /\ part = "galleries" => GaInv
  /\ part = "comments" => CoInv
  /\ part = "consent" => CsInv
  /\ part = "signin" => SiInv
  /\ part = "factor" => SfInv
  /\ part = "gateway" => GwInv

\* A step that changes nothing changes no part.
LEMMA TalkStutters ==
  ASSUME UNCHANGED all
  PROVE  /\ part' = part /\ UNCHANGED vars
         /\ UNCHANGED Rc!vars /\ UNCHANGED No!vars /\ UNCHANGED Gr!vars
         /\ UNCHANGED Rp!vars /\ UNCHANGED Ga!vars /\ UNCHANGED Co!vars
         /\ UNCHANGED Cs!vars /\ UNCHANGED Si!vars /\ UNCHANGED Sf!vars
         /\ UNCHANGED Gw!vars
<1>1. /\ part' = part /\ UNCHANGED ofKeys /\ UNCHANGED ofReceipts /\ UNCHANGED ofNotices
      /\ UNCHANGED ofGroups /\ UNCHANGED ofReports /\ UNCHANGED ofGalleries
      /\ UNCHANGED ofComments /\ UNCHANGED ofConsent /\ UNCHANGED ofSignIn
      /\ UNCHANGED ofFactor /\ UNCHANGED ofGateway
      /\ UNCHANGED <<active, row, op, faults, requests, crashes, consent, hidden, there, raced,
                      shown, overlapped>>
  BY DEF all, shared
<1>2. UNCHANGED vars
  BY <1>1 DEF ofKeys, vars, rotation, store
<1>3. UNCHANGED Rc!vars
  BY <1>1 DEF ofReceipts, Rc!vars
<1>4. UNCHANGED No!vars
  BY <1>1 DEF ofNotices, No!vars
<1>5. UNCHANGED Gr!vars
  BY <1>1 DEF ofGroups, Gr!vars
<1>6. UNCHANGED Rp!vars
  BY <1>1 DEF ofReports, Rp!vars, Rp!moderation
<1>7. UNCHANGED Ga!vars
  BY <1>1 DEF ofGalleries, Ga!vars, Ga!stored
<1>8. UNCHANGED Co!vars
  BY <1>1 DEF ofComments, Co!vars
<1>9. UNCHANGED Cs!vars
  BY <1>1 DEF ofConsent, Cs!vars, Cs!saved, Cs!spotify
<1>10. UNCHANGED Si!vars
  BY <1>1 DEF ofSignIn, Si!vars
<1>11. UNCHANGED Sf!vars
  BY <1>1 DEF ofFactor, Sf!vars
<1>12. UNCHANGED Gw!vars
  BY <1>1 DEF ofGateway, Gw!vars
<1> QED BY <1>1, <1>2, <1>3, <1>4, <1>5, <1>6, <1>7, <1>8, <1>9, <1>10, <1>11, <1>12

\* A step of the instances is one of the part that runs.
LEMMA TalkParts ==
  ASSUME [MCNext]_all
  PROVE  /\ part' = part
         /\ part = "keys" => [Next]_vars
         /\ part = "receipts" => [Rc!Next]_(Rc!vars)
         /\ part = "notices" => [No!Next]_(No!vars)
         /\ part = "groups" => [Gr!Next]_(Gr!vars)
         /\ part = "reports" => [Rp!Next]_(Rp!vars)
         /\ part = "galleries" => [Ga!Next]_(Ga!vars)
         /\ part = "comments" => [Co!Next]_(Co!vars)
         /\ part = "consent" => [Cs!Next]_(Cs!vars)
         /\ part = "signin" => [Si!Next]_(Si!vars)
         /\ part = "factor" => [Sf!Next]_(Sf!vars)
         /\ part = "gateway" => [Gw!Next]_(Gw!vars)
<1>1. CASE MCNext
  BY <1>1 DEF MCNext
<1>2. CASE UNCHANGED all
  BY <1>2, TalkStutters
<1> QED BY <1>1, <1>2

\* Every part begins with its invariant.
LEMMA TalkInit == MCInit => TalkInv
BY KeysInit, RcInvInit, NoInvInit, GrInvInit, RpInvInit, GaInvInit, CoInvInit, CsInvInit,
   SiInvInit, SfInvInit, GwInvInit DEF MCInit, TalkInv

\* Every step keeps the invariant of the part that runs.
LEMMA TalkNext == TalkInv /\ [MCNext]_all => TalkInv'
<1> SUFFICES ASSUME TalkInv, [MCNext]_all PROVE TalkInv'
  OBVIOUS
<1>1. /\ part = "keys" => KeysInv'
      /\ part = "receipts" => RcInv'
      /\ part = "notices" => NoInv'
      /\ part = "groups" => GrInv'
      /\ part = "reports" => RpInv'
  BY TalkParts, KeysNext, RcNext, NoInvNext, GrInvNext, RpInvNext DEF TalkInv
<1>2. /\ part = "galleries" => GaInv'
      /\ part = "comments" => CoInv'
      /\ part = "consent" => CsInv'
      /\ part = "signin" => SiInv'
      /\ part = "factor" => SfInv'
      /\ part = "gateway" => GwInv'
  BY TalkParts, GaInvNext, CoInvNext, CsInvNext, SiInvNext, SfInvNext, GwInvNext DEF TalkInv
<1> QED BY <1>1, <1>2, TalkParts DEF TalkInv

\* The keys of the chat, for every set of instances, conversations and rows: what an
\* instance writes every instance can open, and no key a row needs is dropped,
\* through rotations, purges and re-wrapping.
THEOREM KeysAreSafe == MCSpec => []KeysHold
<1>1. TalkInv => KeysHold
  BY KeysTyped DEF TalkInv, KeysHold
<1> QED BY <1>1, TalkInit, TalkNext, PTL DEF MCSpec

\* Conversations, for every number of messages, instances, notices and members: what
\* is unseen was pushed, a notice is kept once, a group keeps an administrator and
\* two people have one direct conversation; for every number of sockets and every
\* cap, the gateway keeps the caps and tells the presence it ends with.
THEOREM ConversationsAreSafe == MCSpec => []ConversationsHold
<1>1. TalkInv => ConversationsHold
  BY RcFollows, NoFollows, GrFollows, GwFollows DEF TalkInv, ConversationsHold
<1> QED BY <1>1, TalkInit, TalkNext, PTL DEF MCSpec

\* Reports, for every number of them and of moderators at once, stopped anywhere: the
\* evidence outlives the removal, and the trail is that of the status.
THEOREM EvidenceIsSafe == MCSpec => []EvidenceHolds
<1>1. TalkInv => EvidenceHolds
  BY RpFollows DEF TalkInv, EvidenceHolds
<1> QED BY <1>1, TalkInit, TalkNext, PTL DEF MCSpec

\* Galleries and comments, for every number of images, authors and requests at once:
\* files match rows, the limit is passed by races alone, positions are distinct,
\* threads have one level and the counts are those of what is listed.
THEOREM ContentIsSafe == MCSpec => []ContentHolds
<1>1. TalkInv => ContentHolds
  BY GaFollows, CoFollows DEF TalkInv, ContentHolds
<1> QED BY <1>1, TalkInit, TalkNext, PTL DEF MCSpec

\* Who a person is, for every number of requests at once: the trail replays to the
\* consents, a withdrawal forgets, an identity opens one account, and a second factor
\* that is on is one its owner proved.
THEOREM PersonsAreSafe == MCSpec => []PersonHolds
<1>1. TalkInv => PersonHolds
  BY CsFollows, SiFollows, SfFollows DEF TalkInv, PersonHolds
<1> QED BY <1>1, TalkInit, TalkNext, PTL DEF MCSpec

\* No step takes an envelope back to an older key, nor a watermark back.
THEOREM NothingIsTakenBack == MCSpec => NothingGoesBack
<1>1. /\ TalkInv /\ [MCNext]_all /\ part = "keys" => EnvelopeAdvances
      /\ TalkInv /\ [MCNext]_all /\ part = "receipts" => Rc!Advances
  BY TalkParts, KeysAdvance, RcNext DEF TalkInv
<1>2. TalkInv /\ [MCNext]_all =>
        [/\ part = "keys" => EnvelopeAdvances
         /\ part = "receipts" => Rc!Advances]_all
  BY <1>1
<1> QED BY <1>2, TalkInit, TalkNext, PTL DEF MCSpec, NothingGoesBack
=============================================================================
