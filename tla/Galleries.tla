----------------------------- MODULE Galleries -----------------------------
(***************************************************************************)
(* The images of events, of posts and of the photo wall.  The files are    *)
(* blobs in a paid storage that no transaction covers: a handler uploads   *)
(* before it inserts and deletes blobs around its deletes, and requests on *)
(* one gallery interleave between those steps.  The galleries of events    *)
(* and posts take images one by one; an entry of the wall (an album) is    *)
(* published with all of its images.                                       *)
(***************************************************************************)
EXTENDS Naturals, FiniteSetsExt, Functions

CONSTANTS Posts,        \* galleries of events and of posts
          Albums,       \* entries of the photo wall, not yet published
          Images,       \* images that can be uploaded
          Slots,        \* requests under way at once
          MAX_GALLERY_IMAGES,
          MaxRequests,  \* bound on requests
          MaxCrashes,   \* bound on crashes
          None

VARIABLES
  there,                \* galleries that have a row
  row,                  \* of each image: its gallery and its position
  blobs,                \* files in the storage
  taken,                \* images that were uploaded once
  op,                   \* what each request does next
  missed,               \* images a crash, or a removal that did not see them, left half done
  raced,                \* two uploads read the last position of a gallery together, or a
                        \* list of positions was applied after the images had changed
  requests, crashes

stored == <<there, row, blobs>>
vars == <<stored, taken, op, missed, raced, requests, crashes>>

Galleries == Posts \cup Albums

GalleriesAssumption ==
  /\ Posts \cap Albums = {} /\ None \notin Galleries
  /\ IsFiniteSet(Images) /\ IsFiniteSet(Slots) /\ MAX_GALLERY_IMAGES \in Nat \ {0}

NoRow == [of |-> None, order |-> 0]
Free == [at |-> "idle", of |-> None, images |-> {}, order |-> 0, pos |-> <<>>]
ImagesOf(g) == {i \in Images : row[i].of = g}
Adding(g) == {s \in Slots : op[s].of = g /\ op[s].at \in {"upload", "max", "insert"}}

TypeOK ==
  /\ there \subseteq Galleries /\ blobs \subseteq taken /\ taken \subseteq Images
  /\ \A i \in Images : row[i].of \in there \cup {None} /\ row[i].order \in Nat
  /\ \A s \in Slots : /\ op[s].images \subseteq Images
                      /\ op[s].at \in {"idle", "upload", "max", "insert", "rollback", "publish",
                                       "unlink", "blobs", "row", "reorder"}
  /\ missed \subseteq Images /\ raced \in BOOLEAN

Init ==
  /\ there = Posts /\ row = [i \in Images |-> NoRow] /\ blobs = {} /\ taken = {}
  /\ op = [s \in Slots |-> Free] /\ missed = {} /\ raced = FALSE
  /\ requests = 0 /\ crashes = 0

Begin(s, o) ==
  /\ op[s].at = "idle" /\ requests < MaxRequests /\ requests' = requests + 1
  /\ op' = [op EXCEPT ![s] = o] /\ UNCHANGED <<raced, crashes>>
Goes(s, at) == op' = [op EXCEPT ![s].at = at] /\ UNCHANGED <<taken, requests, crashes>>
Ends(s) == op' = [op EXCEPT ![s] = Free] /\ UNCHANGED <<taken, raced, requests, crashes>>

-----------------------------------------------------------------------------
(* Adding an image: count, upload, read the last position, insert. *)

\* The limit off by one.
RoomOrFull(g) == Cardinality(ImagesOf(g)) <= MAX_GALLERY_IMAGES

\* Below the limit, when the handler counts.
HasRoom(g) == Cardinality(ImagesOf(g)) < MAX_GALLERY_IMAGES

addImage(s, g, i) ==
  /\ g \in there \cap Posts /\ HasRoom(g) /\ i \notin taken
  /\ taken' = taken \cup {i}
  /\ Begin(s, [Free EXCEPT !.at = "upload", !.of = g, !.images = {i}])
  /\ UNCHANGED <<stored, missed>>

upload(s) ==
  /\ op[s].at = "upload"
  /\ \/ blobs' = blobs \cup op[s].images /\ Goes(s, "max") /\ UNCHANGED raced
     \/ Ends(s) /\ UNCHANGED blobs
  /\ UNCHANGED <<there, row, missed>>

\* The number of images for a position.
CountOrder(g) == Cardinality(ImagesOf(g))

\* One after the last position.
NextOrder(g) == IF ImagesOf(g) = {} THEN 0 ELSE Max({row[i].order : i \in ImagesOf(g)}) + 1

aggregate(s) ==
  LET g == op[s].of
  IN /\ op[s].at = "max"
     /\ op' = [op EXCEPT ![s].at = "insert", ![s].order = NextOrder(g)]
     /\ raced' = (raced \/ \E t \in Adding(g) : op[t].at = "insert")
     /\ UNCHANGED <<stored, taken, missed, requests, crashes>>

\* The insert fails when the gallery is gone.
createImage(s) ==
  LET g == op[s].of
  IN /\ op[s].at = "insert"
     /\ IF g \in there
        THEN /\ row' = [i \in Images |-> IF i \in op[s].images
                                         THEN [of |-> g, order |-> op[s].order] ELSE row[i]]
             /\ Ends(s)
        ELSE Goes(s, "rollback") /\ UNCHANGED <<row, raced>>
     /\ UNCHANGED <<there, blobs, missed>>

\* The blobs already uploaded are left behind.
Kept(s) == {}

\* What this call has uploaded.
Uploaded(s) == op[s].images

rollback(s) ==
  /\ op[s].at = "rollback" /\ blobs' = blobs \ Uploaded(s) /\ Ends(s)
  /\ UNCHANGED <<there, row, missed>>

-----------------------------------------------------------------------------
(* The photo wall: every image is uploaded, then the entry is created. *)

publishAlbum(s, g, S) ==
  /\ g \in Albums \ there /\ S # {} /\ S \cap taken = {}
  /\ \A t \in Slots : op[t].of # g
  /\ taken' = taken \cup S
  /\ Begin(s, [Free EXCEPT !.at = "publish", !.of = g, !.images = S])
  /\ UNCHANGED <<stored, missed>>

\* One upload after the other; one that fails takes back those before it.
uploadAll(s) ==
  /\ op[s].at = "publish" /\ ~(op[s].images \subseteq blobs)
  /\ \/ /\ \E i \in op[s].images \ blobs : blobs' = blobs \cup {i}
        /\ UNCHANGED <<taken, op, raced, requests, crashes>>
     \/ blobs' = blobs \ Uploaded(s) /\ Ends(s)
  /\ UNCHANGED <<there, row, missed>>

createAlbum(s) ==
  /\ op[s].at = "publish" /\ op[s].images \subseteq blobs
  /\ \/ /\ there' = there \cup {op[s].of} /\ Ends(s)
        /\ \E pos \in [op[s].images -> 0..(Cardinality(op[s].images) - 1)] :
             /\ IsInjective(pos)
             /\ row' = [i \in Images |-> IF i \in op[s].images
                                         THEN [of |-> op[s].of, order |-> pos[i]] ELSE row[i]]
     \/ Goes(s, "rollback") /\ UNCHANGED <<there, row, raced>>
  /\ UNCHANGED <<blobs, missed>>

-----------------------------------------------------------------------------
(* Removing and reordering. *)

\* removePostImage and removeEventImage: the row, then the blob.
removeImage(s, i) ==
  /\ row[i].of \in Posts /\ row' = [row EXCEPT ![i] = NoRow]
  /\ Begin(s, [Free EXCEPT !.at = "unlink", !.images = {i}])
  /\ UNCHANGED <<there, blobs, taken, missed>>

deleteUploaded(s) ==
  /\ op[s].at = "unlink" /\ blobs' = blobs \ op[s].images /\ Ends(s)
  /\ UNCHANGED <<there, row, missed>>

\* removePost, removeEvent and removeUserPhoto: the keys are read, the blobs
\* deleted, and then the row, with a cascade to the images.
removeGallery(s, g) ==
  /\ g \in there
  /\ Begin(s, [Free EXCEPT !.at = "blobs", !.of = g, !.images = ImagesOf(g)])
  /\ UNCHANGED <<stored, taken, missed>>

deleteBlobs(s) ==
  /\ op[s].at = "blobs" /\ blobs' = blobs \ op[s].images /\ Goes(s, "row")
  /\ UNCHANGED <<there, row, missed, raced>>

deleteRow(s) ==
  LET g == op[s].of
  IN /\ op[s].at = "row" /\ there' = there \ {g} /\ Ends(s)
     /\ row' = [i \in Images |-> IF row[i].of = g THEN NoRow ELSE row[i]]
     /\ missed' = missed \cup (ImagesOf(g) \ op[s].images)
     /\ UNCHANGED blobs

\* The list must be an exact rearrangement of the images there are.
reorderImages(s, g) ==
  /\ g \in there \cap Posts /\ ImagesOf(g) # {}
  /\ \E pos \in [ImagesOf(g) -> 0..(Cardinality(ImagesOf(g)) - 1)] :
       /\ IsInjective(pos)
       /\ Begin(s, [Free EXCEPT !.at = "reorder", !.of = g, !.pos = pos])
  /\ UNCHANGED <<stored, taken, missed>>

\* One transaction; an image that is gone matches no row.
setPositions(s) ==
  LET pos == op[s].pos
  IN /\ op[s].at = "reorder" /\ op' = [op EXCEPT ![s] = Free]
     /\ raced' = (raced \/ ImagesOf(op[s].of) # DOMAIN pos)
     /\ row' = [i \in Images |-> IF i \in ImagesOf(op[s].of) \cap DOMAIN pos
                                 THEN [row[i] EXCEPT !.order = pos[i]] ELSE row[i]]
     /\ UNCHANGED <<there, blobs, taken, missed, requests, crashes>>

crash ==
  /\ crashes < MaxCrashes /\ crashes' = crashes + 1
  /\ missed' = missed \cup UNION {op[s].images : s \in Slots}
  /\ op' = [s \in Slots |-> Free] /\ UNCHANGED <<stored, taken, raced, requests>>

Next ==
  \/ \E s \in Slots, g \in Posts, i \in Images : addImage(s, g, i)
  \/ \E s \in Slots, g \in Albums, S \in SUBSET Images : publishAlbum(s, g, S)
  \/ \E s \in Slots, i \in Images : removeImage(s, i)
  \/ \E s \in Slots, g \in Galleries : removeGallery(s, g) \/ reorderImages(s, g)
  \/ \E s \in Slots : \/ upload(s) \/ aggregate(s) \/ createImage(s) \/ rollback(s)
                      \/ uploadAll(s) \/ createAlbum(s) \/ deleteUploaded(s)
                      \/ deleteBlobs(s) \/ deleteRow(s) \/ setPositions(s)
  \/ crash

Spec == Init /\ [][Next]_vars

-----------------------------------------------------------------------------
(* Properties. *)

InProgress(i) == \E s \in Slots : i \in op[s].images

\* No paid orphan and no broken image: once nothing is under way on an image,
\* its blob is stored exactly when its row is, whatever failed or was removed
\* in between.  Crashes break this, and so does an upload that ends between
\* the two halves of the removal of its gallery.
BlobsMatchRows ==
  \A i \in Images \ missed : InProgress(i) \/ (i \in blobs <=> row[i] # NoRow)

\* Requests that count together can pass the limit, but only by the number of
\* uploads that were under way at once.
LimitPlusRaces ==
  \A g \in Posts : Cardinality(ImagesOf(g)) + Cardinality(Adding(g))
                     <= MAX_GALLERY_IMAGES + Cardinality(Slots) - 1

\* Adding, removing and reordering in any order leave every image of a gallery
\* a position of its own, unless two uploads read the last one together or
\* a list of positions is applied after an image came or went.
PositionsDistinct ==
  ~raced => \A i, j \in Images : row[i] = row[j] /\ row[i] # NoRow => i = j
=============================================================================
