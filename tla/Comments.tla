------------------------------ MODULE Comments ------------------------------
(***************************************************************************)
(* Comments of events and posts, the replies to them and the likes they    *)
(* get.  A comment is checked against its parent in one query and inserted *)
(* in another; the parent, the post or the event may go in between, and an *)
(* account may stop being shown (banned, suspended, deleted) at any time.  *)
(***************************************************************************)
EXTENDS Naturals, FiniteSets

CONSTANTS Users, Scopes,    \* people; events and posts
          Ids,              \* comments there can be
          Slots,            \* requests under way at once
          MaxRequests,      \* bound on requests
          None

VARIABLES
  comment,                  \* author, event or post, parent
  there,                    \* events and posts that exist
  hidden,                   \* accounts that are not shown
  likes,                    \* <<user, comment>>: the unique rows
  op,                       \* comments about to be inserted
  requests

vars == <<comment, there, hidden, likes, op, requests>>

CommentsAssumption == None \notin Users \cup Ids \cup {"gone"}

NoComment == [by |-> None, of |-> None, parent |-> None]
Gone == [NoComment EXCEPT !.of = "gone"]
Free == [at |-> "idle", row |-> NoComment]
Rows == {c \in Ids : comment[c].by # None}

TypeOK ==
  /\ \A c \in Rows : comment[c].by \in Users /\ comment[c].of \in there
  /\ hidden \subseteq Users /\ there \subseteq Scopes /\ likes \subseteq Users \X Rows
  /\ \A s \in Slots : op[s].at \in {"idle", "create"}

Init ==
  /\ comment = [c \in Ids |-> NoComment] /\ there = Scopes /\ hidden = {} /\ likes = {}
  /\ op = [s \in Slots |-> Free] /\ requests = 0

-----------------------------------------------------------------------------
(* What the queries return. *)

Visible(c) == comment[c].by \notin hidden

\* findCommentsByEvent and findCommentsByPost: visible roots.
Listed(x) == {c \in Rows : comment[c].of = x /\ comment[c].parent = None /\ Visible(c)}

\* findRepliesByComment.
Replies(p) == {c \in Rows : comment[c].parent = p /\ Visible(c)}

\* Hidden replies count.
CountHidden(p) == Cardinality({c \in Rows : comment[c].parent = p})

\* The _count of the lists: comments of a card, replies of a comment, likes.
CommentsCount(x) == Cardinality({c \in Rows : comment[c].of = x /\ comment[c].parent = None
                                              /\ comment[c].by \notin hidden})
RepliesCount(p) == Cardinality({c \in Rows : comment[c].parent = p /\ comment[c].by \notin hidden})

findCommentDetail(c) == {d \in Rows : d = c /\ Visible(d)}

\* getEventComment and getPostComment: what the link of a notification opens.
Opens(c) == findCommentDetail(c) # {}

-----------------------------------------------------------------------------
(* Handlers. *)

Request == requests < MaxRequests /\ requests' = requests + 1

\* A reply is accepted as a parent.
AnyParent(p, x) == p = None \/ (p \in Rows /\ comment[p].of = x)

\* The parent exists, is of the same event or post, and is a root.
resolveParentComment(p, x) ==
  p = None \/ (p \in Rows /\ comment[p].of = x /\ comment[p].parent = None)

addComment(s, u, x, p) ==
  /\ op[s].at = "idle" /\ Request /\ u \notin hidden
  /\ x \in there /\ resolveParentComment(p, x)
  /\ op' = [op EXCEPT ![s] = [at |-> "create", row |-> [by |-> u, of |-> x, parent |-> p]]]
  /\ UNCHANGED <<comment, there, hidden, likes>>

\* The foreign keys refuse what has gone since.
createComment(s) ==
  LET new == op[s].row
  IN /\ op[s].at = "create" /\ op' = [op EXCEPT ![s] = Free]
     /\ IF new.of \in there /\ (new.parent # None => new.parent \in Rows)
        THEN \E c \in Ids : comment[c] = NoComment /\ comment' = [comment EXCEPT ![c] = new]
        ELSE UNCHANGED comment
     /\ UNCHANGED <<there, hidden, likes, requests>>

\* The cascade: replies and likes go with a comment.
Removes(S) ==
  LET gone == {c \in Rows : c \in S \/ comment[c].parent \in S}
  IN /\ comment' = [c \in Ids |-> IF c \in gone THEN Gone ELSE comment[c]]
     /\ likes' = {l \in likes : l[2] \notin gone}

removeComment(u, c) ==
  /\ c \in Rows /\ comment[c].by = u /\ Request /\ Removes({c})
  /\ UNCHANGED <<there, hidden, op>>

deleteScope(x) ==
  /\ x \in there /\ Request /\ there' = there \ {x}
  /\ Removes({c \in Rows : comment[c].of = x}) /\ UNCHANGED <<hidden, op>>

\* A second like finds the row of the first: P2002 is answered with it.
createCommentReaction(u, c) == likes' = likes \cup {<<u, c>>}

likeComment(u, c) ==
  /\ c \in Rows /\ Request /\ createCommentReaction(u, c)
  /\ UNCHANGED <<comment, there, hidden, op>>

unlikeComment(u, c) ==
  /\ <<u, c>> \in likes /\ Request /\ likes' = likes \ {<<u, c>>}
  /\ UNCHANGED <<comment, there, hidden, op>>

\* The account is banned, suspended or deleted, or comes back.
accountChanges(u) ==
  /\ Request /\ hidden' = IF u \in hidden THEN hidden \ {u} ELSE hidden \cup {u}
  /\ UNCHANGED <<comment, there, likes, op>>

Next ==
  \/ \E s \in Slots, u \in Users, x \in Scopes, p \in Ids \cup {None} : addComment(s, u, x, p)
  \/ \E s \in Slots : createComment(s)
  \/ \E u \in Users, c \in Ids :
       removeComment(u, c) \/ likeComment(u, c) \/ unlikeComment(u, c)
  \/ \E x \in Scopes : deleteScope(x)
  \/ \E u \in Users : accountChanges(u)

Spec == Init /\ [][Next]_vars

-----------------------------------------------------------------------------
(* Properties. *)

\* Threads have one level and never cross from one event or post to another,
\* whatever went between the check of the parent and the insert.
ThreadsAreShallow ==
  \A c \in Rows : LET p == comment[c].parent
                  IN p # None => /\ p \in Rows /\ comment[p].parent = None
                                 /\ comment[p].of = comment[c].of

\* A count never disagrees with the list it sums up, and a comment opens by
\* its id exactly when one of the two lists shows it.
CountsMatchLists ==
  /\ \A x \in there : CommentsCount(x) = Cardinality(Listed(x))
  /\ \A c \in Rows : /\ RepliesCount(c) = Cardinality(Replies(c))
                     /\ Opens(c) <=> c \in Listed(comment[c].of) \cup Replies(comment[c].parent)
=============================================================================
