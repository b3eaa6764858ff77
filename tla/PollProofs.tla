------------------------------ MODULE PollProofs ------------------------------
(***************************************************************************)
(* First the server alone (PollWrites): the counters of a poll agree with  *)
(* the rows they count, and every change of them moves a revision but for  *)
(* what an account's deletion does to the comments, for any accounts,      *)
(* options and comments and any number of writes.  The parts of            *)
(* CountersMatch are inductive one by one, given the types: each is        *)
(* disturbed by the writes of its group and by the two steps of a          *)
(* deletion (ContentRows, RelationshipsRows say what these leave behind).  *)
(*                                                                         *)
(* Then the store of a tab (PollStore): it and the server agree revision   *)
(* by revision, for any number of requests that overlap.  The              *)
(* strengthening of NoConflict says of every copy of the poll (the         *)
(* server's, the answers on their way and the store) that its revisions    *)
(* are not ahead of the server's and that equal revisions mean equal       *)
(* payloads, in the groups that still hold to that (Held: the comments     *)
(* until a deletion rewrites the poll): a write of the server moves the    *)
(* revision it touches past every copy there is (ChangeStep).              *)
(*                                                                         *)
(* Then the list of comments (CommentPages), for any number of comments,   *)
(* pages and requests.  The strengthening of Complete says of every chain  *)
(* of pages (the cached one, the ones a fetch and a refresh are reading)   *)
(* that whatever has been available since its first page was read is on    *)
(* its pages or after its cursor, and not newer than its mark.  Reading a  *)
(* page keeps that (PageRead), because a page has the first comments after *)
(* the cursor and its own cursor is the last of them.                      *)
(***************************************************************************)
EXTENDS PollStore, CommentPages, FiniteSetTheorems, NaturalsInduction, WellFoundedInduction, TLAPS

VotesMatch ==
    /\ counts["votes"] = Cardinality({u \in Users : ballot[u] # None})
    /\ \A o \in Options : tally[o] = Cardinality({u \in Users : ballot[u] = o})
LikesMatch == counts["likes"] = Cardinality(fans)
CommentsMatch ==
    /\ counts["comments"] <= Cardinality(Shown)
    /\ Untouched => counts["comments"] = Cardinality(Shown)
RowsMatch ==
    \A c \in CommentIds : comments[c] # None =>
        /\ comments[c].likes >= Cardinality(comments[c].fans)
        /\ \/ comments[c].likes = Cardinality(comments[c].fans)
           \/ comments[c].author \in BeingPurged

CommentNext ==
    \E c \in CommentIds :
       \/ \E u \in Users : \/ \E parent \in CommentIds \cup {None} : CreateComment(u, c, parent)
                           \/ DeleteComment(u, c)
       \/ AdminDeleteComment(c)

(* The recount of one group writes its counter and its revision and leaves *)
(* the others alone.                                                       *)
LEMMA RecountOne ==
    ASSUME ServerTypeOK, NEW g \in Groups, NEW n \in Nat, Recount(g, n)
    PROVE  /\ counts' \in [Groups -> Nat] /\ revision' \in [Groups -> Nat]
           /\ counts'[g] = n /\ revision'[g] = revision[g] + 1
           /\ \A h \in Groups \ {g} : counts'[h] = counts[h] /\ revision'[h] = revision[h]
BY DEF ServerTypeOK, Recount

LEMMA MinusNat == \A n, k \in Nat : Minus(n, k) \in Nat
BY DEF Minus

(* Hiding comments keeps the rows comments. *)
LEMMA HiddenRows ==
    ASSUME ServerTypeOK, NEW S, S \subseteq Shown
    PROVE  /\ Hidden(S) \in [CommentIds -> Comment \cup {None}]
           /\ \A c \in S : /\ Hidden(S)[c] # None /\ ~Hidden(S)[c].shown
                           /\ Hidden(S)[c].fans = comments[c].fans
                           /\ Hidden(S)[c].likes = comments[c].likes
           /\ \A c \in CommentIds \ S : Hidden(S)[c] = comments[c]
<1>1. ASSUME NEW c \in S
      PROVE  /\ c \in CommentIds /\ comments[c] \in Comment
             /\ [comments[c] EXCEPT !.shown = FALSE] \in Comment
             /\ Hidden(S)[c] = [comments[c] EXCEPT !.shown = FALSE]
  <2>1. c \in CommentIds /\ comments[c] \in Comment
    BY DEF Shown, ServerTypeOK
  <2> QED BY <2>1 DEF Comment, Hidden
<1>2. ASSUME NEW c \in CommentIds \ S PROVE Hidden(S)[c] = comments[c]
  BY DEF Hidden
<1>3. ASSUME NEW c \in S
      PROVE  /\ Hidden(S)[c] # None /\ ~Hidden(S)[c].shown
             /\ Hidden(S)[c].fans = comments[c].fans /\ Hidden(S)[c].likes = comments[c].likes
  BY <1>1, <1>3, RowAssumption DEF Comment
<1>4. ASSUME NEW c \in CommentIds PROVE Hidden(S)[c] \in Comment \cup {None}
  BY <1>1, <1>2 DEF ServerTypeOK
<1>5. Hidden(S) = [c \in CommentIds |-> Hidden(S)[c]]
  BY DEF Hidden
<1> QED BY <1>2, <1>3, <1>4, <1>5

(* A call of purgeAccountContent: rows lose their parent, likes or         *)
(* everything, and comments_count is counted anew unless what shows is the *)
(* same.                                                                   *)
ContentRow(u, c) ==
    /\ comments'[c] \in Comment
    /\ \/ comments'[c] = Erased
       \/ /\ comments'[c].author = comments[c].author /\ comments'[c].shown = comments[c].shown
          /\ comments'[c].likes = comments[c].likes
          /\ comments'[c].fans \subseteq comments[c].fans
          /\ comments'[c].fans = comments[c].fans \/ comments[c].author = u

LEMMA DetachedRows ==
    ASSUME ServerTypeOK, NEW u \in Users, NEW S, S # {},
           \A c \in S : c \in CommentIds /\ comments[c] # None /\ comments[c].parent \in CommentIds,
           comments' = Detached(S)
    PROVE  /\ \A c \in CommentIds : IF comments[c] = None THEN comments'[c] = None
                                    ELSE ContentRow(u, c)
           /\ comments' = [c \in CommentIds |-> comments'[c]]
           /\ \E c \in CommentIds : Rewritten(c)
           /\ Shown' = Shown
<1>1. ASSUME NEW c \in S
      PROVE  /\ comments'[c] = [comments[c] EXCEPT !.parent = None]
             /\ comments[c] \in Comment
             /\ comments'[c] \in Comment
             /\ comments'[c].author = comments[c].author /\ comments'[c].shown = comments[c].shown
             /\ comments'[c].likes = comments[c].likes /\ comments'[c].fans = comments[c].fans
             /\ comments'[c].parent = None
  <2>1. c \in CommentIds /\ comments[c] \in Comment
    BY DEF ServerTypeOK
  <2>2. comments'[c] = [comments[c] EXCEPT !.parent = None]
    BY <2>1 DEF Detached
  <2> QED BY <2>1, <2>2 DEF Comment
<1>2. ASSUME NEW c \in CommentIds \ S PROVE comments'[c] = comments[c]
  BY <1>2 DEF Detached
<1>3. ASSUME NEW c \in CommentIds
      PROVE  IF comments[c] = None THEN comments'[c] = None ELSE ContentRow(u, c)
  <2>1. CASE c \in S
    BY <1>1, <2>1 DEF ContentRow
  <2>2. CASE c \notin S
    BY <1>2, <2>2 DEF ContentRow, ServerTypeOK
  <2> QED BY <2>1, <2>2
<1>4. \E c \in CommentIds : Rewritten(c)
  <2>1. PICK c \in S : TRUE
    OBVIOUS
  <2>2. comments[c].parent \in CommentIds /\ comments'[c].parent = None /\ comments[c] # None
    BY <1>1
  <2> QED BY <2>1, <2>2, PollAssumption DEF Rewritten
<1>5. Shown' = Shown
  <2>1. ASSUME NEW c \in CommentIds
        PROVE  (comments'[c] # None /\ comments'[c].shown) <=> (comments[c] # None /\ comments[c].shown)
    BY <1>1, <1>2, RowAssumption
  <2> QED BY <2>1 DEF Shown
<1>6. comments' = [c \in CommentIds |-> comments'[c]]
  BY DEF Detached
<1> QED BY <1>3, <1>4, <1>5, <1>6

LEMMA ContentRows ==
    ASSUME ServerTypeOK, NEW u \in Users, PurgeContent(u)
    PROVE  /\ \A c \in CommentIds : IF comments[c] = None THEN comments'[c] = None
                                    ELSE ContentRow(u, c)
           /\ comments' = [c \in CommentIds |-> comments'[c]]
           /\ (counts' = counts /\ Shown' = Shown) \/ (RecountForeignPoll /\ \E c \in CommentIds : Rewritten(c))
<1>1. CASE MoveReplies(u)
  <2>1. PICK S \in Batches(ForeignReplies(u)) : comments' = Detached(S)
    BY <1>1 DEF MoveReplies
  <2>2. /\ S # {}
        /\ \A c \in S : c \in CommentIds /\ comments[c] # None /\ comments[c].parent \in CommentIds
    BY DEF Batches, ForeignReplies, Owned
  <2> QED BY <1>1, <2>1, <2>2, DetachedRows DEF MoveReplies
<1>2. CASE DetachComments(u)
  <2>1. PICK S \in Batches({c \in Owned(u) : comments[c].parent # None}) : comments' = Detached(S)
    BY <1>2 DEF DetachComments
  <2>2. ASSUME NEW c \in S
        PROVE  c \in CommentIds /\ comments[c] # None /\ comments[c].parent \in CommentIds
    <3>1. c \in CommentIds /\ comments[c] \in Comment /\ comments[c].parent # None
      BY DEF Batches, Owned, ServerTypeOK
    <3> QED BY <3>1, RowAssumption DEF Comment
  <2>3. S # {}
    BY DEF Batches
  <2> QED BY <1>2, <2>1, <2>2, <2>3, DetachedRows DEF DetachComments
<1>3. CASE RemoveCommentLikes(u)
  <2>1. PICK S \in Batches(LikesOf(u)) :
           comments' = [c \in CommentIds |->
                          IF c \in Owned(u)
                          THEN [comments[c] EXCEPT !.fans = {v \in @ : <<c, v>> \notin S}]
                          ELSE comments[c]]
    BY <1>3 DEF RemoveCommentLikes
  <2>2. ASSUME NEW c \in Owned(u)
        PROVE  /\ ContentRow(u, c) /\ comments'[c] # None /\ comments[c] # None
               /\ comments'[c].shown = comments[c].shown
    <3>1. c \in CommentIds /\ comments[c] \in Comment /\ comments[c].author = u /\ comments[c] # None
      BY DEF Owned, ServerTypeOK
    <3> DEFINE left == {v \in comments[c].fans : <<c, v>> \notin S}
    <3>2. left \in SUBSET Users /\ left \subseteq comments[c].fans
      BY <3>1 DEF Comment
    <3> HIDE DEF left
    <3>3. comments'[c] = [comments[c] EXCEPT !.fans = left]
      BY <2>1, <3>1 DEF left
    <3>4. /\ comments'[c] \in Comment /\ comments'[c].fans = left
          /\ comments'[c].author = comments[c].author /\ comments'[c].shown = comments[c].shown
          /\ comments'[c].likes = comments[c].likes
      BY <3>1, <3>2, <3>3 DEF Comment
    <3> QED BY <3>1, <3>2, <3>4, RowAssumption DEF ContentRow
  <2>3. ASSUME NEW c \in CommentIds \ Owned(u) PROVE comments'[c] = comments[c]
    BY <2>1
  <2>4. ASSUME NEW c \in CommentIds
        PROVE  IF comments[c] = None THEN comments'[c] = None ELSE ContentRow(u, c)
    <3>1. CASE c \in Owned(u)
      BY <2>2, <3>1
    <3>2. CASE c \notin Owned(u)
      BY <2>3, <3>2 DEF ContentRow, ServerTypeOK
    <3> QED BY <3>1, <3>2
  <2>5. Shown' = Shown
    BY <2>2, <2>3 DEF Shown
  <2>6. comments' = [c \in CommentIds |-> comments'[c]]
    BY <2>1
  <2> QED BY <1>3, <2>4, <2>5, <2>6 DEF RemoveCommentLikes
<1>4. CASE EraseComments(u)
  <2>1. PICK S \in Batches(Owned(u)) :
           comments' = [c \in CommentIds |-> IF c \in S THEN Erased ELSE comments[c]]
    BY <1>4 DEF EraseComments
  <2>2. S # {} /\ \A c \in S : c \in CommentIds /\ comments[c] # None /\ comments[c].author = u
    BY DEF Batches, Owned
  <2>3. Erased \in Comment /\ Erased.author = None
    BY DEF Erased, Comment
  <2>4. ASSUME NEW c \in CommentIds
        PROVE  IF comments[c] = None THEN comments'[c] = None ELSE ContentRow(u, c)
    BY <2>1, <2>2, <2>3 DEF ContentRow, ServerTypeOK
  <2>5. \E c \in CommentIds : Rewritten(c)
    <3>1. PICK c \in S : TRUE
      BY <2>2
    <3>2. comments'[c] = Erased /\ comments[c].author # None
      BY <2>1, <2>2, PollAssumption
    <3> QED BY <2>2, <2>3, <3>1, <3>2 DEF Rewritten
  <2>6. comments' = [c \in CommentIds |-> comments'[c]]
    BY <2>1
  <2> QED BY <1>4, <2>4, <2>5, <2>6 DEF EraseComments
<1> QED BY <1>1, <1>2, <1>3, <1>4 DEF PurgeContent

(* What a call leaves alone.                                               *)
LEMMA ContentKeeps ==
    ASSUME ServerTypeOK, NEW u \in Users, PurgeContent(u)
    PROVE  /\ deletion' = [deletion EXCEPT ![u] = "content"]
           /\ deletion[u] \in {"accepted", "content"}
           /\ UNCHANGED <<life, open, revision, tally, ballot, fans, active>>
           /\ counts' \in [Groups -> Nat]
           /\ \A g \in Groups \ {"comments"} : counts'[g] = counts[g]
           /\ counts' = counts \/ counts'["comments"] = Cardinality(ActiveComments')
<1>1. /\ Purging(u)
      /\ UNCHANGED counts \/ counts' = [counts EXCEPT !["comments"] = Cardinality(ActiveComments')]
  BY DEF PurgeContent, MoveReplies, DetachComments, RemoveCommentLikes, EraseComments, RecountForeignPoll
<1>2. Cardinality(ActiveComments') \in Nat
  <2>1. ActiveComments' \subseteq CommentIds
    BY DEF ActiveComments, Shown
  <2>2. IsFiniteSet(ActiveComments')
    BY <2>1, PollAssumption, FS_Subset
  <2> QED BY <2>2, FS_CardinalityType
<1> HIDE DEF ActiveComments
<1> QED BY <1>1, <1>2 DEF Purging, ServerTypeOK, Groups

(* The recount of the relationships step: every counter is the number of   *)
(* its rows, of the rows of active authors for the comments.               *)
LEMMA RelationshipsRows ==
    ASSUME ServerTypeOK, NEW u \in Users, RecountRelationships(u)
    PROVE  \A c \in CommentIds :
              IF comments[c] = None THEN comments'[c] = None
              ELSE /\ comments'[c] \in Comment
                   /\ comments'[c].author = comments[c].author
                   /\ comments'[c].parent = comments[c].parent
                   /\ comments'[c].shown = comments[c].shown
                   /\ comments'[c].likes = Cardinality(comments'[c].fans)
<1> SUFFICES ASSUME NEW c \in CommentIds, comments[c] # None
             PROVE  /\ comments'[c] \in Comment
                    /\ comments'[c].author = comments[c].author
                    /\ comments'[c].parent = comments[c].parent
                    /\ comments'[c].shown = comments[c].shown
                    /\ comments'[c].likes = Cardinality(comments'[c].fans)
  BY DEF RecountRelationships
<1>1. comments[c] \in Comment
  BY DEF ServerTypeOK
<1> DEFINE left == comments[c].fans \ {u}
<1>2. left \in SUBSET Users
  BY <1>1 DEF Comment
<1>3. Cardinality(left) \in Nat
  <2> HIDE DEF left
  <2>1. IsFiniteSet(left)
    BY <1>2, PollAssumption, FS_Subset
  <2> QED BY <2>1, FS_CardinalityType
<1>4. comments'[c] = [comments[c] EXCEPT !.fans = left, !.likes = Cardinality(left)]
  BY <1>1 DEF RecountRelationships, Comment
<1> HIDE DEF left
<1> QED BY <1>1, <1>2, <1>3, <1>4 DEF Comment

LEMMA RelationshipsTypes ==
    ASSUME ServerTypeOK, NEW u \in Users, RecountRelationships(u)
    PROVE  ServerTypeOK'
<1>1. ASSUME NEW S, S \subseteq Users \/ S \subseteq CommentIds PROVE Cardinality(S) \in Nat
  <2>1. IsFiniteSet(S)
    BY <1>1, PollAssumption, FS_Subset
  <2> QED BY <2>1, FS_CardinalityType
<1>2. comments' \in [CommentIds -> Comment \cup {None}]
  <2>1. \A c \in CommentIds : comments'[c] \in Comment \cup {None}
    BY RelationshipsRows
  <2>2. comments' = [c \in CommentIds |-> comments'[c]]
    BY DEF RecountRelationships
  <2> QED BY <2>1, <2>2
<1>3. ballot' \in [Users -> Options \cup {None}] /\ fans' \subseteq Users
  BY DEF RecountRelationships, ServerTypeOK
<1>4. tally' \in [Options -> Nat]
  <2>1. \A o \in Options : Cardinality({v \in Users : ballot'[v] = o}) \in Nat
    BY <1>1
  <2>2. tally' = [o \in Options |-> Cardinality({v \in Users : ballot'[v] = o})]
    BY DEF RecountRelationships
  <2> QED BY <2>1, <2>2
<1>5. counts' \in [Groups -> Nat]
  <2> DEFINE v == Cardinality({w \in Users : ballot'[w] # None})
             l == Cardinality(fans')
             n == Cardinality(ActiveComments')
  <2>1. v \in Nat /\ l \in Nat
    BY <1>1, <1>3
  <2>2. ActiveComments' \subseteq CommentIds
    BY DEF ActiveComments, Shown
  <2>3. n \in Nat
    <3> HIDE DEF ActiveComments
    <3> QED BY <1>1, <2>2
  <2>4. counts' = [votes |-> v, likes |-> l, comments |-> n]
    BY DEF RecountRelationships
  <2> HIDE DEF v, l, n
  <2> QED BY <2>1, <2>3, <2>4 DEF Groups
<1>6. revision' \in [Groups -> Nat]
  <2>1. PICK touched : revision' = [g \in Groups |-> IF g \in touched THEN revision[g] + 1
                                                     ELSE revision[g]]
    BY DEF RecountRelationships
  <2> QED BY <2>1 DEF ServerTypeOK
<1>7. /\ deletion' \in [Users -> Stages] /\ \A v \in active' : deletion'[v] = "none"
      /\ UNCHANGED <<life, open, active>>
  BY DEF RecountRelationships, ServerTypeOK, Stages
<1> QED BY <1>2, <1>3, <1>4, <1>5, <1>6, <1>7 DEF ServerTypeOK

-----------------------------------------------------------------------------
LEMMA TypeInit == ServerInit => ServerTypeOK
<1>1. ASSUME ServerInit PROVE counts \in [Groups -> Nat]
  <2>1. {c \in CommentIds : [d \in CommentIds |-> None][c] # None} = {}
    OBVIOUS
  <2> QED BY <1>1, <2>1, FS_EmptySet DEF ServerInit, ServerStart, Groups
<1> QED BY <1>1 DEF ServerInit, ServerStart, ServerTypeOK, Stages

LEMMA TypeStep == ServerTypeOK /\ [ServerNext]_serverVars => ServerTypeOK'
<1> SUFFICES ASSUME ServerTypeOK, [ServerNext]_serverVars PROVE ServerTypeOK'
  OBVIOUS
<1> USE DEF ServerTypeOK
<1>1. ASSUME NEW u \in Users, LikePoll(u) PROVE ServerTypeOK'
  <2>1. CASE UNCHANGED <<fans, counts, revision>>
    BY <1>1, <2>1 DEF LikePoll
  <2>2. CASE fans' = fans \cup {u} /\ Recount("likes", counts["likes"] + 1)
    BY <1>1, <2>2, RecountOne DEF LikePoll, Groups
  <2> QED BY <1>1, <2>1, <2>2 DEF LikePoll
<1>2. ASSUME NEW u \in Users, UnlikePoll(u) PROVE ServerTypeOK'
  <2>1. CASE UNCHANGED <<fans, counts, revision>>
    BY <1>2, <2>1 DEF UnlikePoll
  <2>2. CASE fans' = fans \ {u} /\ Recount("likes", Minus(counts["likes"], 1))
    BY <1>2, <2>2, RecountOne, MinusNat DEF UnlikePoll, Groups
  <2> QED BY <1>2, <2>1, <2>2 DEF UnlikePoll
<1>3. ASSUME NEW u \in Users, NEW o \in Options, Vote(u, o) PROVE ServerTypeOK'
  <2>1. counts' \in [Groups -> Nat] /\ revision' \in [Groups -> Nat]
    BY <1>3, RecountOne DEF Vote, Groups
  <2> QED BY <1>3, <2>1 DEF Vote
<1>4. ASSUME NEW u \in Users, CancelVote(u) PROVE ServerTypeOK'
  <2>1. CASE UNCHANGED <<ballot, tally, counts, revision>>
    BY <1>4, <2>1 DEF CancelVote
  <2>2. CASE ballot[u] # None /\ Recount("votes", Minus(counts["votes"], 1))
    <3>1. counts' \in [Groups -> Nat] /\ revision' \in [Groups -> Nat]
      BY <2>2, RecountOne, MinusNat DEF Groups
    <3>2. /\ ballot' = [ballot EXCEPT ![u] = None]
          /\ tally' = [tally EXCEPT ![ballot[u]] = Minus(tally[ballot[u]], 1)]
      BY <1>4, <2>2 DEF CancelVote
    <3>3. ballot[u] \in Options /\ Minus(tally[ballot[u]], 1) \in Nat
      BY <2>2, MinusNat
    <3>4. tally' \in [Options -> Nat] /\ ballot' \in [Users -> Options \cup {None}]
      BY <3>2, <3>3
    <3> QED BY <1>4, <3>1, <3>4 DEF CancelVote
  <2> QED BY <1>4, <2>1, <2>2 DEF CancelVote
<1>5. ASSUME NEW u \in Users, DeletePoll(u) \/ BlockUser(u) \/ UnblockUser(u) PROVE ServerTypeOK'
  BY <1>5 DEF DeletePoll, BlockUser, UnblockUser, pollVars
<1>6. ASSUME AdminDeletePoll \/ ClosePoll PROVE ServerTypeOK'
  BY <1>6 DEF AdminDeletePoll, ClosePoll
<1>7. ASSUME NEW u \in Users, NEW c \in CommentIds, NEW parent \in CommentIds \cup {None},
             CreateComment(u, c, parent)
      PROVE  ServerTypeOK'
  <2>1. Fresh(u, parent) \in Comment
    BY DEF Fresh, Comment
  <2>2. counts' \in [Groups -> Nat] /\ revision' \in [Groups -> Nat]
    BY <1>7, RecountOne DEF CreateComment, Groups
  <2> QED BY <1>7, <2>1, <2>2 DEF CreateComment
<1>8. ASSUME NEW S, S \subseteq Shown, NEW n \in Nat, comments' = Hidden(S), Recount("comments", n),
             UNCHANGED <<life, open, tally, ballot, fans, active, deletion>>
      PROVE  ServerTypeOK'
  BY <1>8, RecountOne, HiddenRows DEF Groups
<1>9. ASSUME NEW u \in Users, NEW c \in CommentIds, DeleteComment(u, c) PROVE ServerTypeOK'
  <2> DEFINE removed == {c} \cup (IF comments[c].parent = None THEN Replies(c) ELSE {})
  <2>1. removed \subseteq Shown
    BY <1>9 DEF DeleteComment, Replies
  <2>2. IsFiniteSet(removed)
    BY <2>1, PollAssumption, FS_Subset DEF Shown
  <2>3. Minus(counts["comments"], Cardinality(removed)) \in Nat
    BY <2>2, FS_CardinalityType, MinusNat DEF Groups
  <2> QED BY <1>8, <1>9, <2>1, <2>3 DEF DeleteComment
<1>10. ASSUME NEW c \in CommentIds, AdminDeleteComment(c) PROVE ServerTypeOK'
  <2>1. {c} \subseteq Shown /\ Minus(counts["comments"], 1) \in Nat
    BY <1>10, MinusNat DEF AdminDeleteComment, Groups
  <2> QED BY <1>8, <1>10, <2>1 DEF AdminDeleteComment
<1>11. ASSUME NEW u \in Users, NEW c \in CommentIds, LikeComment(u, c) \/ UnlikeComment(u, c)
       PROVE  ServerTypeOK'
  <2>1. c \in Shown /\ UNCHANGED <<pollVars, active, deletion>>
    BY <1>11 DEF LikeComment, UnlikeComment
  <2>2. comments[c] \in Comment
    BY <2>1 DEF Shown
  <2>3. CASE UNCHANGED comments
    BY <2>1, <2>3 DEF pollVars
  <2>4. ASSUME NEW S \in SUBSET Users, NEW n \in Nat,
               comments' = [comments EXCEPT ![c] = [@ EXCEPT !.fans = S, !.likes = n]]
        PROVE  ServerTypeOK'
    BY <2>1, <2>2, <2>4 DEF pollVars, Comment
  <2>5. CASE LikeComment(u, c)
    <3>1. comments[c].fans \cup {u} \in SUBSET Users /\ comments[c].likes + 1 \in Nat
      BY <2>2 DEF Comment
    <3>2. \/ UNCHANGED comments
          \/ comments' = [comments EXCEPT ![c] = [@ EXCEPT !.fans = comments[c].fans \cup {u},
                                                        !.likes = comments[c].likes + 1]]
      BY <2>2, <2>5 DEF LikeComment, Comment
    <3> QED BY <2>3, <2>4, <3>1, <3>2
  <2>6. CASE UnlikeComment(u, c)
    <3>1. comments[c].fans \ {u} \in SUBSET Users /\ Minus(comments[c].likes, 1) \in Nat
      BY <2>2, MinusNat DEF Comment
    <3>2. \/ UNCHANGED comments
          \/ comments' = [comments EXCEPT ![c] = [@ EXCEPT !.fans = comments[c].fans \ {u},
                                                        !.likes = Minus(comments[c].likes, 1)]]
      BY <2>2, <2>6 DEF UnlikeComment, Comment
    <3> QED BY <2>3, <2>4, <3>1, <3>2
  <2> QED BY <1>11, <2>5, <2>6
<1>12. CASE UNCHANGED serverVars
  BY <1>12 DEF serverVars
<1>13. ASSUME NEW u \in Users, CloseAccount(u) PROVE ServerTypeOK'
  BY <1>13 DEF CloseAccount, pollVars, Stages
<1>14. CASE PurgePoll
  BY <1>14 DEF PurgePoll
<1>15. ASSUME NEW u \in Users, PurgeContent(u) PROVE ServerTypeOK'
  <2>1. comments' \in [CommentIds -> Comment \cup {None}]
    BY <1>15, ContentRows DEF ContentRow
  <2>2. /\ deletion' = [deletion EXCEPT ![u] = "content"] /\ deletion[u] # "none"
        /\ UNCHANGED <<life, open, revision, tally, ballot, fans, active>>
        /\ counts' \in [Groups -> Nat]
    BY <1>15, ContentKeeps
  <2>3. deletion' \in [Users -> Stages] /\ \A v \in active' : deletion'[v] = "none"
    BY <2>2 DEF Stages
  <2> QED BY <2>1, <2>2, <2>3
<1>16. ASSUME NEW u \in Users, RecountRelationships(u) PROVE ServerTypeOK'
  BY <1>16, RelationshipsTypes
<1>17. CASE PollNext
  BY <1>1, <1>2, <1>3, <1>4, <1>5, <1>6, <1>7, <1>9, <1>10, <1>13, <1>14, <1>15, <1>16, <1>17
  DEF PollNext, Purge
<1> QED BY <1>11, <1>12, <1>17 DEF ServerNext

(* What becomes of the deletions of accounts.                              *)
LEMMA DeletionMoves ==
    ASSUME ServerTypeOK, [ServerNext]_serverVars
    PROVE  \/ deletion' = deletion
           \/ \E u \in Users : CloseAccount(u) \/ PurgeContent(u) \/ RecountRelationships(u)
<1>1. ASSUME PollNext
      PROVE  \/ deletion' = deletion
             \/ \E u \in Users : CloseAccount(u) \/ PurgeContent(u) \/ RecountRelationships(u)
  BY <1>1 DEF PollNext, Purge, LikePoll, UnlikePoll, CancelVote, DeletePoll, Vote, BlockUser,
              UnblockUser, AdminDeletePoll, ClosePoll, PurgePoll, CreateComment, DeleteComment,
              AdminDeleteComment
<1>2. ASSUME NEW u \in Users, NEW c \in CommentIds, LikeComment(u, c) \/ UnlikeComment(u, c)
      PROVE  deletion' = deletion
  BY <1>2 DEF LikeComment, UnlikeComment
<1> QED BY <1>1, <1>2 DEF ServerNext, serverVars

LEMMA UntouchedBefore ==
    ASSUME ServerTypeOK, [ServerNext]_serverVars
    PROVE  /\ Untouched' => Untouched
           /\ \A u \in Users : PurgeContent(u) \/ RecountRelationships(u) => ~Untouched'
<1>1. ASSUME NEW u \in Users, PurgeContent(u) \/ RecountRelationships(u) PROVE ~Untouched'
  <2>1. deletion'[u] \in {"content", "done"}
    BY <1>1, ContentKeeps DEF RecountRelationships, ServerTypeOK
  <2> QED BY <2>1 DEF Untouched
<1>2. ASSUME NEW u \in Users, CloseAccount(u) PROVE Untouched' => Untouched
  <2>1. deletion[u] = "none" /\ \A v \in Users \ {u} : deletion'[v] = deletion[v]
    BY <1>2 DEF CloseAccount, ServerTypeOK
  <2> QED BY <2>1 DEF Untouched
<1>3. ASSUME deletion' = deletion PROVE Untouched' => Untouched
  BY <1>3 DEF Untouched
<1> QED BY <1>1, <1>2, <1>3, DeletionMoves

LEMMA PurgesGoOn ==
    ASSUME ServerTypeOK, [ServerNext]_serverVars
    PROVE  BeingPurged \subseteq BeingPurged' \/ \E u \in Users : RecountRelationships(u)
<1>1. ASSUME NEW u \in Users, CloseAccount(u) PROVE BeingPurged \subseteq BeingPurged'
  BY <1>1 DEF CloseAccount, ServerTypeOK, BeingPurged
<1>2. ASSUME NEW u \in Users, PurgeContent(u) PROVE BeingPurged \subseteq BeingPurged'
  <2>1. deletion' = [deletion EXCEPT ![u] = "content"]
    BY <1>2, ContentKeeps
  <2> QED BY <2>1 DEF ServerTypeOK, BeingPurged
<1>3. ASSUME deletion' = deletion PROVE BeingPurged \subseteq BeingPurged'
  BY <1>3 DEF BeingPurged
<1> QED BY <1>1, <1>2, <1>3, DeletionMoves

(* Each of the writes leaves the counters of the other groups alone; the   *)
(* relationships step counts all of them.                                  *)
LEMMA GroupsApart ==
    ASSUME ServerTypeOK, [ServerNext]_serverVars
    PROVE  \/ /\ \/ UNCHANGED <<counts["votes"], revision["votes"], tally, ballot>>
                 \/ \E u \in Users : CancelVote(u) \/ \E o \in Options : Vote(u, o)
              /\ \/ UNCHANGED <<counts["likes"], revision["likes"], fans>>
                 \/ \E u \in Users : LikePoll(u) \/ UnlikePoll(u)
              /\ \/ UNCHANGED <<counts["comments"], revision["comments"], comments>>
                 \/ CommentNext
                 \/ /\ \E u \in Users, c \in CommentIds : LikeComment(u, c) \/ UnlikeComment(u, c)
                    /\ UNCHANGED <<counts["comments"], revision["comments"]>>
                 \/ \E u \in Users : PurgeContent(u)
           \/ \E u \in Users : RecountRelationships(u)
<1> USE DEF ServerTypeOK
<1>1. ASSUME NEW u \in Users, LikePoll(u) \/ UnlikePoll(u)
      PROVE  /\ UNCHANGED <<counts["votes"], revision["votes"], tally, ballot>>
             /\ UNCHANGED <<counts["comments"], revision["comments"], comments>>
  <2>1. \/ UNCHANGED <<counts, revision>>
        \/ Recount("likes", counts["likes"] + 1)
        \/ Recount("likes", Minus(counts["likes"], 1))
    BY <1>1 DEF LikePoll, UnlikePoll
  <2>2. /\ counts'["votes"] = counts["votes"] /\ revision'["votes"] = revision["votes"]
        /\ counts'["comments"] = counts["comments"] /\ revision'["comments"] = revision["comments"]
    BY <2>1 DEF Recount, Groups
  <2> QED BY <1>1, <2>2 DEF LikePoll, UnlikePoll
<1>2. ASSUME NEW u \in Users, CancelVote(u) \/ \E o \in Options : Vote(u, o)
      PROVE  /\ UNCHANGED <<counts["likes"], revision["likes"], fans>>
             /\ UNCHANGED <<counts["comments"], revision["comments"], comments>>
  <2>1. \/ UNCHANGED <<counts, revision>>
        \/ Recount("votes", counts["votes"] + 1)
        \/ Recount("votes", Minus(counts["votes"], 1))
    BY <1>2 DEF CancelVote, Vote
  <2>2. /\ counts'["likes"] = counts["likes"] /\ revision'["likes"] = revision["likes"]
        /\ counts'["comments"] = counts["comments"] /\ revision'["comments"] = revision["comments"]
    BY <2>1 DEF Recount, Groups
  <2> QED BY <1>2, <2>2 DEF CancelVote, Vote
<1>3. ASSUME CommentNext
      PROVE  /\ UNCHANGED <<counts["votes"], revision["votes"], tally, ballot>>
             /\ UNCHANGED <<counts["likes"], revision["likes"], fans>>
  <2>1. \E n : Recount("comments", n)
    BY <1>3 DEF CommentNext, CreateComment, DeleteComment, AdminDeleteComment
  <2>2. /\ counts'["votes"] = counts["votes"] /\ revision'["votes"] = revision["votes"]
        /\ counts'["likes"] = counts["likes"] /\ revision'["likes"] = revision["likes"]
    BY <2>1 DEF Recount, Groups
  <2> QED BY <1>3, <2>2 DEF CommentNext, CreateComment, DeleteComment, AdminDeleteComment
<1>4. ASSUME NEW u \in Users, NEW c \in CommentIds, LikeComment(u, c) \/ UnlikeComment(u, c)
      PROVE  UNCHANGED pollVars
  BY <1>4 DEF LikeComment, UnlikeComment
<1>5. ASSUME \/ \E u \in Users : DeletePoll(u) \/ BlockUser(u) \/ UnblockUser(u) \/ CloseAccount(u)
             \/ AdminDeletePoll \/ ClosePoll \/ PurgePoll \/ UNCHANGED serverVars
      PROVE  UNCHANGED <<counts, revision, tally, ballot, fans, comments>>
  BY <1>5 DEF DeletePoll, BlockUser, UnblockUser, CloseAccount, AdminDeletePoll, ClosePoll,
              PurgePoll, serverVars, pollVars
<1>6. ASSUME NEW u \in Users, PurgeContent(u)
      PROVE  /\ UNCHANGED <<counts["votes"], revision["votes"], tally, ballot>>
             /\ UNCHANGED <<counts["likes"], revision["likes"], fans>>
  BY <1>6, ContentKeeps DEF Groups
<1>7. CASE PollNext
  BY <1>1, <1>2, <1>3, <1>5, <1>6, <1>7 DEF PollNext, Purge, CommentNext
<1>8. ASSUME NEW u \in Users, NEW c \in CommentIds, LikeComment(u, c) \/ UnlikeComment(u, c)
      PROVE  /\ UNCHANGED <<counts["votes"], revision["votes"], tally, ballot>>
             /\ UNCHANGED <<counts["likes"], revision["likes"], fans>>
             /\ UNCHANGED <<counts["comments"], revision["comments"]>>
  BY <1>4, <1>8 DEF pollVars
<1>9. CASE UNCHANGED serverVars
  BY <1>5, <1>9
<1> QED BY <1>7, <1>8, <1>9 DEF ServerNext

LEMMA FewerActive == Cardinality(ActiveComments') <= Cardinality(Shown')
<1>1. ActiveComments' \in SUBSET (Shown') /\ Shown' \in SUBSET CommentIds
  BY DEF ActiveComments, Shown
<1> HIDE DEF ActiveComments, Shown
<1>2. IsFiniteSet(Shown')
  BY <1>1, PollAssumption, FS_Subset
<1> QED BY <1>1, <1>2, FS_Subset

(* After the relationships step every counter is what it counts.           *)
LEMMA RelationshipsMatch ==
    ASSUME ServerTypeOK, NEW u \in Users, RecountRelationships(u)
    PROVE  VotesMatch' /\ LikesMatch' /\ RowsMatch' /\ counts'["comments"] <= Cardinality(Shown')
<1>1. /\ counts' = [votes |-> Cardinality({v \in Users : ballot'[v] # None}),
                   likes |-> Cardinality(fans'),
                   comments |-> Cardinality(ActiveComments')]
      /\ tally' = [o \in Options |-> Cardinality({v \in Users : ballot'[v] = o})]
  BY DEF RecountRelationships
<1>2. VotesMatch'
  BY <1>1 DEF VotesMatch
<1>3. LikesMatch'
  BY <1>1 DEF LikesMatch
<1>4. RowsMatch'
  <2> SUFFICES ASSUME NEW c \in CommentIds, comments'[c] # None
               PROVE  /\ comments'[c].likes >= Cardinality(comments'[c].fans)
                      /\ comments'[c].likes = Cardinality(comments'[c].fans)
    BY DEF RowsMatch
  <2>1. comments'[c] \in Comment /\ comments'[c].likes = Cardinality(comments'[c].fans)
    BY RelationshipsRows
  <2>2. comments'[c].likes \in Nat
    BY <2>1 DEF Comment
  <2> QED BY <2>1, <2>2
<1>5. counts'["comments"] <= Cardinality(Shown')
  <2>1. counts'["comments"] = Cardinality(ActiveComments')
    BY <1>1
  <2> QED BY <2>1, FewerActive
<1> QED BY <1>2, <1>3, <1>4, <1>5

LEMMA VotesStep ==
    ASSUME ServerTypeOK, VotesMatch, [ServerNext]_serverVars
    PROVE  VotesMatch'
<1> DEFINE voters == {v \in Users : ballot[v] # None}
           for(o) == {v \in Users : ballot[v] = o}
<1>1. IsFiniteSet(voters) /\ \A o \in Options : IsFiniteSet(for(o))
  BY PollAssumption, FS_Subset
<1>2. ASSUME NEW u \in Users, NEW o \in Options, Vote(u, o) PROVE VotesMatch'
  <2>1. /\ counts'["votes"] = counts["votes"] + 1
        /\ tally' = [tally EXCEPT ![o] = @ + 1] /\ ballot' = [ballot EXCEPT ![u] = o]
        /\ ballot[u] = None /\ o # None
    BY <1>2, PollAssumption DEF Vote, Recount, ServerTypeOK, Groups
  <2>2. voters' = voters \cup {u} /\ u \notin voters
    BY <2>1 DEF ServerTypeOK
  <2>3. ASSUME NEW p \in Options
        PROVE  for(p)' = (IF p = o THEN for(p) \cup {u} ELSE for(p)) /\ u \notin for(p)
    BY <2>1, PollAssumption DEF ServerTypeOK
  <2>4. counts'["votes"] = Cardinality(voters')
    BY <1>1, <2>1, <2>2, FS_AddElement DEF VotesMatch
  <2>5. ASSUME NEW p \in Options PROVE tally'[p] = Cardinality(for(p)')
    <3>1. Cardinality(for(p) \cup {u}) = Cardinality(for(p)) + 1
      BY <1>1, <2>3, FS_AddElement
    <3> QED BY <2>1, <2>3, <3>1 DEF VotesMatch, ServerTypeOK
  <2> QED BY <2>4, <2>5 DEF VotesMatch
<1>3. ASSUME NEW u \in Users, CancelVote(u) PROVE VotesMatch'
  <2>1. CASE UNCHANGED <<ballot, tally, counts, revision>>
    BY <2>1 DEF VotesMatch
  <2>2. CASE ballot[u] # None
    <3> DEFINE o == ballot[u]
    <3>1. /\ counts'["votes"] = Minus(counts["votes"], 1)
          /\ tally' = [tally EXCEPT ![o] = Minus(@, 1)] /\ ballot' = [ballot EXCEPT ![u] = None]
          /\ o \in Options /\ o # None
      BY <1>3, <2>2, PollAssumption DEF CancelVote, Recount, ServerTypeOK, Groups
    <3>2. voters' = voters \ {u} /\ u \in voters
      BY <2>2, <3>1 DEF ServerTypeOK
    <3>3. ASSUME NEW p \in Options
          PROVE  /\ for(p)' = (IF p = o THEN for(p) \ {u} ELSE for(p)) /\ u \in for(o)
      BY <2>2, <3>1, PollAssumption DEF ServerTypeOK
    <3>4. Cardinality(voters') = Cardinality(voters) - 1 /\ Cardinality(voters) \in Nat \ {0}
      BY <1>1, <3>2, FS_RemoveElement, FS_CardinalityType, FS_EmptySet
    <3>5. counts'["votes"] = Cardinality(voters')
      BY <3>1, <3>4 DEF VotesMatch, Minus
    <3>6. ASSUME NEW p \in Options PROVE tally'[p] = Cardinality(for(p)')
      <4>1. CASE p = o
        <5>1. Cardinality(for(p) \ {u}) = Cardinality(for(p)) - 1
              /\ Cardinality(for(p)) \in Nat \ {0}
          BY <1>1, <3>3, <4>1, FS_RemoveElement, FS_CardinalityType, FS_EmptySet
        <5>2. tally'[p] = Minus(tally[p], 1)
          BY <3>1, <4>1 DEF ServerTypeOK
        <5>3. tally[p] = Cardinality(for(p))
          BY DEF VotesMatch
        <5>4. for(p)' = for(p) \ {u}
          BY <3>3, <4>1
        <5> HIDE DEF for
        <5> QED BY <5>1, <5>2, <5>3, <5>4 DEF Minus
      <4>2. CASE p # o
        BY <3>1, <3>3, <4>2 DEF VotesMatch, ServerTypeOK
      <4> QED BY <4>1, <4>2
    <3> QED BY <3>5, <3>6 DEF VotesMatch
  <2> QED BY <1>3, <2>1, <2>2 DEF CancelVote
<1>4. CASE UNCHANGED <<counts["votes"], revision["votes"], tally, ballot>>
  BY <1>4 DEF VotesMatch
<1>5. ASSUME NEW u \in Users, RecountRelationships(u) PROVE VotesMatch'
  BY <1>5, RelationshipsMatch
<1> QED BY <1>2, <1>3, <1>4, <1>5, GroupsApart

LEMMA LikesStep ==
    ASSUME ServerTypeOK, LikesMatch, [ServerNext]_serverVars
    PROVE  LikesMatch'
<1>1. IsFiniteSet(fans)
  BY PollAssumption, FS_Subset DEF ServerTypeOK
<1>2. ASSUME NEW u \in Users, LikePoll(u) PROVE LikesMatch'
  <2>1. CASE u \in fans
    BY <1>2, <2>1 DEF LikePoll, LikesMatch
  <2>2. CASE u \notin fans
    <3>1. fans' = fans \cup {u} /\ counts'["likes"] = counts["likes"] + 1
      BY <1>2, <2>2 DEF LikePoll, Recount, ServerTypeOK, Groups
    <3> QED BY <1>1, <2>2, <3>1, FS_AddElement DEF LikesMatch
  <2> QED BY <2>1, <2>2
<1>3. ASSUME NEW u \in Users, UnlikePoll(u) PROVE LikesMatch'
  <2>1. CASE u \notin fans
    BY <1>3, <2>1 DEF UnlikePoll, LikesMatch
  <2>2. CASE u \in fans
    <3>1. fans' = fans \ {u} /\ counts'["likes"] = Minus(counts["likes"], 1)
      BY <1>3, <2>2 DEF UnlikePoll, Recount, ServerTypeOK, Groups
    <3>2. Cardinality(fans \ {u}) = Cardinality(fans) - 1 /\ Cardinality(fans) \in Nat \ {0}
      BY <1>1, <2>2, FS_RemoveElement, FS_CardinalityType, FS_EmptySet
    <3> QED BY <3>1, <3>2 DEF LikesMatch, Minus
  <2> QED BY <2>1, <2>2
<1>4. CASE UNCHANGED <<counts["likes"], revision["likes"], fans>>
  BY <1>4 DEF LikesMatch
<1>5. ASSUME NEW u \in Users, RecountRelationships(u) PROVE LikesMatch'
  BY <1>5, RelationshipsMatch
<1> QED BY <1>2, <1>3, <1>4, <1>5, GroupsApart

(* Neither a like nor an unlike of a comment shows or hides one.           *)
LEMMA ReactionKeepsShown ==
    ASSUME ServerTypeOK, NEW u \in Users, NEW c \in CommentIds,
           LikeComment(u, c) \/ UnlikeComment(u, c)
    PROVE  Shown' = Shown
<1>1. c \in Shown /\ comments[c] \in Comment /\ comments[c] # None
  BY DEF LikeComment, UnlikeComment, Shown, ServerTypeOK
<1>2. \A d \in CommentIds \ {c} : comments'[d] = comments[d]
  BY DEF LikeComment, UnlikeComment, ServerTypeOK
<1>3. comments'[c] # None /\ comments'[c].shown = comments[c].shown
  <2>1. ASSUME NEW S, NEW n,
               comments' = [comments EXCEPT ![c] = [@ EXCEPT !.fans = S, !.likes = n]],
               S \subseteq Users, n \in Nat
        PROVE  comments'[c] # None /\ comments'[c].shown = comments[c].shown
    <3>1. comments'[c] = [comments[c] EXCEPT !.fans = S, !.likes = n]
      BY <2>1 DEF ServerTypeOK
    <3>2. comments'[c] \in Comment
      <4>1. [comments[c] EXCEPT !.fans = S, !.likes = n] \in Comment
        BY <1>1, <2>1 DEF Comment
      <4> QED BY <3>1, <4>1
    <3>3. comments'[c].shown = comments[c].shown
      BY <1>1, <3>1 DEF Comment
    <3> QED BY <3>2, <3>3, RowAssumption
  <2>2. CASE LikeComment(u, c)
    <3>1. comments[c].fans \cup {u} \subseteq Users /\ comments[c].likes + 1 \in Nat
      BY <1>1 DEF Comment
    <3>2. \/ UNCHANGED comments
          \/ comments' = [comments EXCEPT ![c] = [@ EXCEPT !.fans = comments[c].fans \cup {u},
                                                        !.likes = comments[c].likes + 1]]
      BY <1>1, <2>2 DEF LikeComment, Comment
    <3> QED BY <1>1, <2>1, <3>1, <3>2
  <2>3. CASE UnlikeComment(u, c)
    <3>1. comments[c].fans \ {u} \subseteq Users /\ Minus(comments[c].likes, 1) \in Nat
      BY <1>1, MinusNat DEF Comment
    <3>2. \/ UNCHANGED comments
          \/ comments' = [comments EXCEPT ![c] = [@ EXCEPT !.fans = comments[c].fans \ {u},
                                                        !.likes = Minus(comments[c].likes, 1)]]
      BY <1>1, <2>3 DEF UnlikeComment, Comment
    <3> QED BY <1>1, <2>1, <3>1, <3>2
  <2> QED BY <2>2, <2>3
<1> QED BY <1>1, <1>2, <1>3 DEF Shown

LEMMA CommentsStep ==
    ASSUME ServerTypeOK, CommentsMatch, [ServerNext]_serverVars
    PROVE  CommentsMatch'
<1>0. Untouched' => Untouched
  BY UntouchedBefore
<1>1. IsFiniteSet(Shown) /\ Cardinality(Shown) \in Nat /\ counts["comments"] \in Nat
  <2>1. Shown \in SUBSET CommentIds
    BY DEF Shown
  <2>2. IsFiniteSet(Shown)
    BY <2>1, PollAssumption, FS_Subset
  <2> QED BY <2>2, FS_CardinalityType DEF ServerTypeOK, Groups
<1>2. ASSUME NEW S, S \subseteq Shown, comments' = Hidden(S),
             Recount("comments", Minus(counts["comments"], Cardinality(S)))
      PROVE  CommentsMatch'
  <2>1. Shown' = Shown \ S
    BY <1>2, HiddenRows DEF Shown
  <2>2. S \cap Shown = S /\ Cardinality(Shown \ S) = Cardinality(Shown) - Cardinality(S)
    <3>1. Shown \cap S = S
      BY <1>2
    <3> QED BY <1>1, <3>1, FS_Difference
  <2>3. /\ Cardinality(S) \in Nat /\ Cardinality(Shown) \in Nat
        /\ Cardinality(S) <= Cardinality(Shown)
    BY <1>1, <1>2, FS_Subset, FS_CardinalityType
  <2>4. counts'["comments"] = Minus(counts["comments"], Cardinality(S))
    BY <1>2 DEF Recount, ServerTypeOK, Groups
  <2>5. counts["comments"] <= Cardinality(Shown)
        /\ (Untouched => counts["comments"] = Cardinality(Shown))
    BY DEF CommentsMatch
  <2> QED
    <3> HIDE DEF Shown, Untouched
    <3>1. counts'["comments"] <= Cardinality(Shown')
      BY <1>1, <2>1, <2>2, <2>3, <2>4, <2>5 DEF Minus
    <3>2. Untouched' => counts'["comments"] = Cardinality(Shown')
      BY <1>0, <1>1, <2>1, <2>2, <2>3, <2>4, <2>5 DEF Minus
    <3> QED BY <3>1, <3>2 DEF CommentsMatch
<1>3. ASSUME NEW u \in Users, NEW c \in CommentIds, NEW parent \in CommentIds \cup {None},
             CreateComment(u, c, parent)
      PROVE  CommentsMatch'
  <2>1. /\ comments' = [comments EXCEPT ![c] = Fresh(u, parent)] /\ comments[c] = None
        /\ counts'["comments"] = counts["comments"] + 1
    BY <1>3 DEF CreateComment, Recount, ServerTypeOK, Groups
  <2>2. Fresh(u, parent) \in Comment /\ Fresh(u, parent).shown
    BY DEF Fresh, Comment
  <2>3. Fresh(u, parent) # None
    BY <2>2, RowAssumption
  <2>4. comments'[c] = Fresh(u, parent) /\ \A d \in CommentIds \ {c} : comments'[d] = comments[d]
    BY <2>1 DEF ServerTypeOK
  <2>5. Shown' = Shown \cup {c} /\ c \notin Shown
    BY <2>1, <2>2, <2>3, <2>4 DEF Shown
  <2>6. Cardinality(Shown \cup {c}) = Cardinality(Shown) + 1
    BY <1>1, <2>5, FS_AddElement
  <2>7. counts["comments"] <= Cardinality(Shown)
        /\ (Untouched => counts["comments"] = Cardinality(Shown))
    BY DEF CommentsMatch
  <2> QED
    <3> HIDE DEF Shown, Untouched
    <3>1. counts'["comments"] <= Cardinality(Shown')
      BY <1>1, <2>1, <2>5, <2>6, <2>7
    <3>2. Untouched' => counts'["comments"] = Cardinality(Shown')
      BY <1>0, <2>1, <2>5, <2>6, <2>7
    <3> QED BY <3>1, <3>2 DEF CommentsMatch
<1>4. ASSUME NEW u \in Users, NEW c \in CommentIds, DeleteComment(u, c) PROVE CommentsMatch'
  <2> DEFINE dead == {c} \cup (IF comments[c].parent = None THEN Replies(c) ELSE {})
  <2>1. dead \subseteq Shown
    BY <1>4 DEF DeleteComment, Replies
  <2>2. /\ comments' = Hidden(dead)
        /\ Recount("comments", Minus(counts["comments"], Cardinality(dead)))
    BY <1>4 DEF DeleteComment
  <2> QED BY <1>2, <2>1, <2>2
<1>5. ASSUME NEW c \in CommentIds, AdminDeleteComment(c) PROVE CommentsMatch'
  <2>1. Cardinality({c}) = 1
    BY FS_Singleton
  <2> QED BY <1>2, <1>5, <2>1 DEF AdminDeleteComment
<1>6. ASSUME NEW u \in Users, NEW c \in CommentIds, LikeComment(u, c) \/ UnlikeComment(u, c),
             UNCHANGED <<counts["comments"], revision["comments"]>>
      PROVE  CommentsMatch'
  <2>1. Shown' = Shown /\ counts'["comments"] = counts["comments"]
    BY <1>6, ReactionKeepsShown
  <2> HIDE DEF Shown, Untouched
  <2> QED BY <1>0, <2>1 DEF CommentsMatch
<1>7. CASE UNCHANGED <<counts["comments"], revision["comments"], comments>>
  <2>1. Shown' = Shown /\ counts'["comments"] = counts["comments"]
    BY <1>7 DEF Shown
  <2> HIDE DEF Shown, Untouched
  <2> QED BY <1>0, <2>1 DEF CommentsMatch
<1>8. ASSUME CommentNext PROVE CommentsMatch'
  BY <1>3, <1>4, <1>5, <1>8 DEF CommentNext
<1>9. ASSUME NEW u \in Users, PurgeContent(u) PROVE CommentsMatch'
  <2>1. ~Untouched'
    BY <1>9, UntouchedBefore
  <2>2. counts'["comments"] <= Cardinality(Shown')
    <3>1. CASE counts' = counts /\ Shown' = Shown
      BY <3>1 DEF CommentsMatch
    <3>2. CASE RecountForeignPoll
      <4>1. counts'["comments"] = Cardinality(ActiveComments')
        BY <3>2 DEF RecountForeignPoll, ServerTypeOK, Groups
      <4> QED BY <4>1, FewerActive
    <3> QED BY <1>9, <3>1, <3>2, ContentRows
  <2> QED BY <2>1, <2>2 DEF CommentsMatch
<1>10. ASSUME NEW u \in Users, RecountRelationships(u) PROVE CommentsMatch'
  BY <1>10, UntouchedBefore, RelationshipsMatch DEF CommentsMatch
<1> QED BY <1>6, <1>7, <1>8, <1>9, <1>10, GroupsApart

(* The likes_count of a row, next to the accounts that like the comment.   *)
RowMatches(row, purged) ==
    /\ row.likes >= Cardinality(row.fans)
    /\ row.likes = Cardinality(row.fans) \/ row.author \in purged

LEMMA ReactionRow ==
    ASSUME ServerTypeOK, NEW u \in Users, NEW c \in CommentIds,
           LikeComment(u, c) \/ UnlikeComment(u, c), RowMatches(comments[c], BeingPurged)
    PROVE  RowMatches(comments'[c], BeingPurged) /\ \A d \in CommentIds \ {c} : comments'[d] = comments[d]
<1>0. \A d \in CommentIds \ {c} : comments'[d] = comments[d]
  BY DEF LikeComment, UnlikeComment, ServerTypeOK
<1>1. c \in Shown /\ comments[c] \in Comment
  BY DEF LikeComment, UnlikeComment, Shown, ServerTypeOK
<1>2. /\ comments[c].fans \in SUBSET Users /\ comments[c].likes \in Nat
      /\ comments[c].author \in Users \cup {None}
  BY <1>1 DEF Comment
<1>3. IsFiniteSet(comments[c].fans)
  BY <1>2, PollAssumption, FS_Subset
<1>4. Cardinality(comments[c].fans) \in Nat
  BY <1>3, FS_CardinalityType
<1>5. /\ comments[c].likes >= Cardinality(comments[c].fans)
      /\ comments[c].likes = Cardinality(comments[c].fans) \/ comments[c].author \in BeingPurged
  BY DEF RowMatches
<1>6. ASSUME NEW S \in SUBSET Users, NEW n \in Nat,
             comments' = [comments EXCEPT ![c] = [@ EXCEPT !.fans = S, !.likes = n]],
             n >= Cardinality(S), n = Cardinality(S) \/ comments[c].author \in BeingPurged
      PROVE  /\ comments'[c].likes >= Cardinality(comments'[c].fans)
             /\ \/ comments'[c].likes = Cardinality(comments'[c].fans)
                \/ comments'[c].author \in BeingPurged
  <2>1. comments'[c] = [comments[c] EXCEPT !.fans = S, !.likes = n]
    BY <1>6 DEF ServerTypeOK
  <2>2. comments'[c].fans = S /\ comments'[c].likes = n /\ comments'[c].author = comments[c].author
    BY <1>1, <2>1 DEF Comment
  <2> QED BY <1>6, <2>2
<1>7. CASE LikeComment(u, c) /\ u \notin comments[c].fans
  <2>1. Cardinality(comments[c].fans \cup {u}) = Cardinality(comments[c].fans) + 1
    BY <1>3, <1>7, FS_AddElement
  <2>2. comments' = [comments EXCEPT ![c] = [@ EXCEPT !.fans = comments[c].fans \cup {u},
                                                    !.likes = comments[c].likes + 1]]
    BY <1>1, <1>7 DEF LikeComment, Comment, ServerTypeOK
  <2>3. comments[c].fans \cup {u} \in SUBSET Users /\ comments[c].likes + 1 \in Nat
    BY <1>2
  <2>4. /\ comments[c].likes + 1 >= Cardinality(comments[c].fans \cup {u})
        /\ \/ comments[c].likes + 1 = Cardinality(comments[c].fans \cup {u})
           \/ comments[c].author \in BeingPurged
    BY <1>2, <1>4, <1>5, <2>1
  <2> DEFINE S == comments[c].fans \cup {u}
             n == comments[c].likes + 1
  <2> HIDE DEF S, n
  <2>5. S \in SUBSET Users /\ n \in Nat
    BY <2>3 DEF S, n
  <2>6. comments' = [comments EXCEPT ![c] = [@ EXCEPT !.fans = S, !.likes = n]]
    BY <2>2 DEF S, n
  <2>7. n >= Cardinality(S) /\ (n = Cardinality(S) \/ comments[c].author \in BeingPurged)
    BY <2>4 DEF S, n
  <2>8. /\ comments'[c].likes >= Cardinality(comments'[c].fans)
        /\ \/ comments'[c].likes = Cardinality(comments'[c].fans)
           \/ comments'[c].author \in BeingPurged
    BY <1>6, <2>5, <2>6, <2>7
  <2> QED BY <1>0, <2>8 DEF RowMatches
<1>8. CASE UnlikeComment(u, c) /\ u \in comments[c].fans
  <2>1. /\ Cardinality(comments[c].fans \ {u}) = Cardinality(comments[c].fans) - 1
        /\ Cardinality(comments[c].fans) \in Nat \ {0}
    BY <1>3, <1>8, FS_RemoveElement, FS_CardinalityType, FS_EmptySet
  <2>2. comments' = [comments EXCEPT ![c] = [@ EXCEPT !.fans = comments[c].fans \ {u},
                                                    !.likes = Minus(comments[c].likes, 1)]]
    BY <1>1, <1>8 DEF UnlikeComment, Comment, ServerTypeOK
  <2>3. comments[c].fans \ {u} \in SUBSET Users /\ Minus(comments[c].likes, 1) \in Nat
    BY <1>2, MinusNat
  <2>4. /\ Minus(comments[c].likes, 1) >= Cardinality(comments[c].fans \ {u})
        /\ \/ Minus(comments[c].likes, 1) = Cardinality(comments[c].fans \ {u})
           \/ comments[c].author \in BeingPurged
    BY <1>2, <1>5, <2>1 DEF Minus
  <2> DEFINE S == comments[c].fans \ {u}
             n == Minus(comments[c].likes, 1)
  <2> HIDE DEF S, n
  <2>5. S \in SUBSET Users /\ n \in Nat
    BY <2>3 DEF S, n
  <2>6. comments' = [comments EXCEPT ![c] = [@ EXCEPT !.fans = S, !.likes = n]]
    BY <2>2 DEF S, n
  <2>7. n >= Cardinality(S) /\ (n = Cardinality(S) \/ comments[c].author \in BeingPurged)
    BY <2>4 DEF S, n
  <2>8. /\ comments'[c].likes >= Cardinality(comments'[c].fans)
        /\ \/ comments'[c].likes = Cardinality(comments'[c].fans)
           \/ comments'[c].author \in BeingPurged
    BY <1>6, <2>5, <2>6, <2>7
  <2> QED BY <1>0, <2>8 DEF RowMatches
<1>9. CASE UNCHANGED comments
  BY <1>0, <1>9
<1> QED BY <1>7, <1>8, <1>9 DEF LikeComment, UnlikeComment

LEMMA RowsStep ==
    ASSUME ServerTypeOK, RowsMatch, [ServerNext]_serverVars
    PROVE  RowsMatch'
<1>0. \A c \in CommentIds : comments[c] # None => RowMatches(comments[c], BeingPurged)
  BY DEF RowsMatch, RowMatches
<1>1. ASSUME BeingPurged \subseteq BeingPurged',
             \A c \in CommentIds : comments'[c] # None => RowMatches(comments'[c], BeingPurged')
      PROVE  RowsMatch'
  BY <1>1 DEF RowsMatch, RowMatches
<1>2. ASSUME NEW row, RowMatches(row, BeingPurged), BeingPurged \subseteq BeingPurged'
      PROVE  RowMatches(row, BeingPurged')
  BY <1>2 DEF RowMatches
<1>3. CASE \E u \in Users : RecountRelationships(u)
  BY <1>3, RelationshipsMatch
<1>4. CASE ~\E u \in Users : RecountRelationships(u)
  <2>0. BeingPurged \subseteq BeingPurged'
    BY <1>4, PurgesGoOn
  <2>1. ASSUME NEW S, S \subseteq Shown, comments' = Hidden(S) PROVE RowsMatch'
    <3> SUFFICES ASSUME NEW c \in CommentIds, comments'[c] # None
                 PROVE  RowMatches(comments'[c], BeingPurged)
      BY <1>1, <1>2, <2>0
    <3>1. CASE c \in S
      <4>1. comments[c] # None /\ comments[c] \in Comment
        BY <2>1, <3>1 DEF Shown, ServerTypeOK
      <4>2. comments'[c] = [comments[c] EXCEPT !.shown = FALSE]
        BY <2>1, <3>1 DEF Hidden
      <4>3. /\ comments'[c].fans = comments[c].fans /\ comments'[c].likes = comments[c].likes
            /\ comments'[c].author = comments[c].author
        BY <4>1, <4>2 DEF Comment
      <4> QED BY <1>0, <4>1, <4>3 DEF RowMatches
    <3>2. CASE c \notin S
      BY <1>0, <2>1, <3>2, HiddenRows
    <3> QED BY <3>1, <3>2
  <2>2. ASSUME NEW u \in Users, NEW c \in CommentIds, NEW parent \in CommentIds \cup {None},
               CreateComment(u, c, parent)
        PROVE  RowsMatch'
    <3>1. RowMatches(Fresh(u, parent), BeingPurged)
      BY FS_EmptySet DEF Fresh, RowMatches
    <3>2. comments'[c] = Fresh(u, parent) /\ \A d \in CommentIds \ {c} : comments'[d] = comments[d]
      BY <2>2 DEF CreateComment, ServerTypeOK
    <3> QED BY <1>0, <1>1, <1>2, <2>0, <3>1, <3>2
  <2>3. ASSUME NEW u \in Users, NEW c \in CommentIds, DeleteComment(u, c) PROVE RowsMatch'
    BY <2>1, <2>3 DEF DeleteComment, Replies
  <2>4. ASSUME NEW c \in CommentIds, AdminDeleteComment(c) PROVE RowsMatch'
    BY <2>1, <2>4 DEF AdminDeleteComment
  <2>5. ASSUME NEW u \in Users, NEW c \in CommentIds, LikeComment(u, c) \/ UnlikeComment(u, c)
        PROVE  RowsMatch'
    <3>1. comments[c] # None
      BY <2>5 DEF LikeComment, UnlikeComment, Shown
    <3>2. /\ RowMatches(comments'[c], BeingPurged)
          /\ \A d \in CommentIds \ {c} : comments'[d] = comments[d]
      BY <1>0, <2>5, <3>1, ReactionRow
    <3> QED BY <1>0, <1>1, <1>2, <2>0, <3>2
  <2>6. CASE UNCHANGED comments
    BY <1>0, <1>1, <1>2, <2>0, <2>6
  <2>7. ASSUME NEW u \in Users, PurgeContent(u) PROVE RowsMatch'
    <3> SUFFICES ASSUME NEW c \in CommentIds, comments'[c] # None
                 PROVE  RowMatches(comments'[c], BeingPurged')
      BY <1>1, <2>0
    <3>1. comments[c] # None /\ ContentRow(u, c)
      BY <2>7, ContentRows
    <3>2. u \in BeingPurged'
      <4>1. deletion' = [deletion EXCEPT ![u] = "content"]
        BY <2>7, ContentKeeps
      <4> QED BY <4>1 DEF BeingPurged, ServerTypeOK
    <3>3. CASE comments'[c] = Erased
      BY <3>3, FS_EmptySet DEF Erased, RowMatches
    <3>4. CASE comments'[c] # Erased
      <4>1. comments[c] \in Comment /\ RowMatches(comments[c], BeingPurged)
        BY <1>0, <3>1 DEF ServerTypeOK
      <4>2. IsFiniteSet(comments[c].fans)
        <5>1. comments[c].fans \in SUBSET Users
          BY <4>1 DEF Comment
        <5> QED BY <5>1, PollAssumption, FS_Subset
      <4>3. comments'[c].fans \in SUBSET (comments[c].fans)
        BY <3>1, <3>4 DEF ContentRow
      <4>4. /\ IsFiniteSet(comments'[c].fans)
            /\ Cardinality(comments'[c].fans) <= Cardinality(comments[c].fans)
        BY <4>2, <4>3, FS_Subset
      <4>5. Cardinality(comments'[c].fans) \in Nat /\ Cardinality(comments[c].fans) \in Nat
            /\ comments[c].likes \in Nat
        BY <4>1, <4>2, <4>4, FS_CardinalityType DEF Comment
      <4> QED BY <2>0, <3>1, <3>2, <3>4, <4>1, <4>4, <4>5 DEF ContentRow, RowMatches
    <3> QED BY <3>3, <3>4
  <2> QED BY <1>4, <2>2, <2>3, <2>4, <2>5, <2>6, <2>7, GroupsApart DEF CommentNext
<1> QED BY <1>3, <1>4
-----------------------------------------------------------------------------
LEMMA CountersInit == ServerInit => CountersMatch
<1> SUFFICES ASSUME ServerInit PROVE CountersMatch
  OBVIOUS
<1> USE DEF ServerInit, ServerStart
<1>1. {u \in Users : ballot[u] # None} = {}
  OBVIOUS
<1>2. \A o \in Options : {u \in Users : ballot[u] = o} = {}
  BY PollAssumption
<1>3. Shown = {} /\ {c \in CommentIds : [d \in CommentIds |-> None][c] # None} = {}
  BY DEF Shown
<1>4. Cardinality({}) = 0
  BY FS_EmptySet
<1>5. counts["votes"] = 0 /\ counts["likes"] = 0 /\ counts["comments"] = 0
  BY <1>3, <1>4 DEF Groups
<1>6. \A c \in CommentIds : comments[c] = None
  OBVIOUS
<1>7. fans = {} /\ \A o \in Options : tally[o] = 0
  OBVIOUS
<1> QED BY <1>1, <1>2, <1>3, <1>4, <1>5, <1>6, <1>7 DEF CountersMatch

(* After any sequence of writes the rows and the columns of the poll are   *)
(* of their types: polls.repository.ts writes counters that are numbers.   *)
THEOREM ServerTypes == ServerSpec => []ServerTypeOK
BY TypeInit, TypeStep, PTL DEF ServerSpec

LEMMA CountersParts == CountersMatch <=> VotesMatch /\ LikesMatch /\ CommentsMatch /\ RowsMatch
BY DEF CountersMatch, VotesMatch, LikesMatch, CommentsMatch, RowsMatch

LEMMA CountersStep ==
    ServerTypeOK /\ CountersMatch /\ [ServerNext]_serverVars => CountersMatch'
<1> SUFFICES ASSUME ServerTypeOK, CountersMatch, [ServerNext]_serverVars PROVE CountersMatch'
  OBVIOUS
<1>1. VotesMatch /\ LikesMatch /\ CommentsMatch /\ RowsMatch
  BY CountersParts
<1>2. VotesMatch' /\ LikesMatch' /\ CommentsMatch' /\ RowsMatch'
  BY <1>1, VotesStep, LikesStep, CommentsStep, RowsStep
<1> QED
  <2>1. counts'["votes"] = Cardinality({u \in Users : ballot'[u] # None})
        /\ \A o \in Options : tally'[o] = Cardinality({u \in Users : ballot'[u] = o})
    BY <1>2 DEF VotesMatch
  <2>2. /\ counts'["likes"] = Cardinality(fans')
        /\ counts'["comments"] <= Cardinality(Shown')
        /\ Untouched' => counts'["comments"] = Cardinality(Shown')
    BY <1>2 DEF LikesMatch, CommentsMatch
  <2>3. \A c \in CommentIds : comments'[c] # None =>
           /\ comments'[c].likes >= Cardinality(comments'[c].fans)
           /\ \/ comments'[c].likes = Cardinality(comments'[c].fans)
              \/ comments'[c].author \in BeingPurged'
    BY <1>2 DEF RowsMatch
  <2> QED BY <2>1, <2>2, <2>3 DEF CountersMatch

(* The columns votes_count, likes_count and comments_count and the counts  *)
(* of the options and the comments agree with the rows they count, as      *)
(* CountersMatch has it, however many accounts write in whatever order and *)
(* are deleted (polls.repository.ts, admin, account-deletion).             *)
THEOREM Counters == ServerSpec => []CountersMatch
BY ServerTypes, CountersInit, CountersStep, PTL DEF ServerSpec

(* A counter that the relationships step changes takes its revision along. *)
LEMMA RelationshipsCounted ==
    ASSUME ServerTypeOK, NEW u \in Users, RecountRelationships(u)
    PROVE  /\ \A g \in Groups : revision'[g] \in {revision[g], revision[g] + 1}
           /\ <<counts["votes"], tally, ballot>>' # <<counts["votes"], tally, ballot>>
                => revision'["votes"] = revision["votes"] + 1
           /\ <<counts["likes"], fans>>' # <<counts["likes"], fans>>
                => revision'["likes"] = revision["likes"] + 1
           /\ <<counts["comments"], comments>>' # <<counts["comments"], comments>>
                => revision'["comments"] = revision["comments"] + 1
<1>1. PICK replies \in BOOLEAN :
         revision' = [g \in Groups |->
            IF g \in {h \in Groups :
                        \/ counts'[h] # counts[h]
                        \/ h = "votes" /\ <<ballot', tally'>> # <<ballot, tally>>
                        \/ h = "likes" /\ fans' # fans
                        \/ h = "comments" /\ (comments' # comments \/ replies)}
            THEN revision[g] + 1 ELSE revision[g]]
  BY DEF RecountRelationships
<1>2. \A g \in Groups : revision'[g] \in {revision[g], revision[g] + 1}
  BY <1>1
<1>3. \A g \in Groups :
         \/ counts'[g] # counts[g]
         \/ g = "votes" /\ <<ballot', tally'>> # <<ballot, tally>>
         \/ g = "likes" /\ fans' # fans
         \/ g = "comments" /\ comments' # comments
         => revision'[g] = revision[g] + 1
  BY <1>1
<1> QED BY <1>2, <1>3 DEF Groups

(* Only the content step of a deletion changes what a group shows at an    *)
(* unchanged revision: that of the comments, and by rewriting rows.        *)
LEMMA ChangeStep ==
    ASSUME ServerTypeOK, [ServerNext]_serverVars
    PROVE  /\ \A g \in Groups : revision'[g] >= revision[g]
           /\ <<counts["votes"], tally, ballot>>' # <<counts["votes"], tally, ballot>>
                => revision'["votes"] > revision["votes"]
           /\ <<counts["likes"], fans>>' # <<counts["likes"], fans>>
                => revision'["likes"] > revision["likes"]
           /\ <<counts["comments"], Shown>>' # <<counts["comments"], Shown>>
                => \/ revision'["comments"] > revision["comments"]
                   \/ ~Untouched' /\ \E c \in CommentIds : Rewritten(c)
<1>0. \A g \in Groups : revision[g] \in Nat
  BY DEF ServerTypeOK
<1>1. ASSUME NEW g \in Groups, NEW n, Recount(g, n) PROVE revision'[g] = revision[g] + 1
  BY <1>1 DEF Recount, ServerTypeOK
<1>2. \/ UNCHANGED <<counts["votes"], tally, ballot, revision["votes"]>>
      \/ revision'["votes"] = revision["votes"] + 1
  <2>1. ASSUME NEW u \in Users, CancelVote(u) \/ \E o \in Options : Vote(u, o)
        PROVE  UNCHANGED <<ballot, tally, counts, revision>> \/ \E n : Recount("votes", n)
    BY <2>1 DEF CancelVote, Vote
  <2>2. ASSUME NEW u \in Users, RecountRelationships(u)
        PROVE  \/ revision'["votes"] = revision["votes"] + 1
               \/ UNCHANGED <<counts["votes"], tally, ballot, revision["votes"]>>
    BY <2>2, RelationshipsCounted DEF Groups
  <2> QED BY <1>1, <2>1, <2>2, GroupsApart DEF Groups
<1>3. \/ UNCHANGED <<counts["likes"], fans, revision["likes"]>>
      \/ revision'["likes"] = revision["likes"] + 1
  <2>1. ASSUME NEW u \in Users, LikePoll(u) \/ UnlikePoll(u)
        PROVE  UNCHANGED <<fans, counts, revision>> \/ \E n : Recount("likes", n)
    BY <2>1 DEF LikePoll, UnlikePoll
  <2>2. ASSUME NEW u \in Users, RecountRelationships(u)
        PROVE  \/ revision'["likes"] = revision["likes"] + 1
               \/ UNCHANGED <<counts["likes"], fans, revision["likes"]>>
    BY <2>2, RelationshipsCounted DEF Groups
  <2> QED BY <1>1, <2>1, <2>2, GroupsApart DEF Groups
<1>4. \/ UNCHANGED <<counts["comments"], Shown, revision["comments"]>>
      \/ revision'["comments"] = revision["comments"] + 1
      \/ /\ UNCHANGED revision["comments"]
         /\ ~Untouched' /\ \E c \in CommentIds : Rewritten(c)
  <2>1. ASSUME CommentNext PROVE \E n : Recount("comments", n)
    BY <2>1 DEF CommentNext, CreateComment, DeleteComment, AdminDeleteComment
  <2>2. ASSUME NEW u \in Users, NEW c \in CommentIds, LikeComment(u, c) \/ UnlikeComment(u, c)
        PROVE  Shown' = Shown
    BY <2>2, ReactionKeepsShown
  <2>3. ASSUME UNCHANGED comments PROVE Shown' = Shown
    BY <2>3 DEF Shown
  <2>4. ASSUME NEW u \in Users, RecountRelationships(u)
        PROVE  \/ revision'["comments"] = revision["comments"] + 1
               \/ UNCHANGED <<counts["comments"], Shown, revision["comments"]>>
    BY <2>3, <2>4, RelationshipsCounted DEF Groups
  <2>5. ASSUME NEW u \in Users, PurgeContent(u)
        PROVE  \/ UNCHANGED <<counts["comments"], Shown, revision["comments"]>>
               \/ /\ UNCHANGED revision["comments"]
                  /\ ~Untouched' /\ \E c \in CommentIds : Rewritten(c)
    BY <2>5, ContentRows, ContentKeeps, UntouchedBefore
  <2> QED BY <1>1, <2>1, <2>2, <2>3, <2>4, <2>5, GroupsApart DEF Groups
<1>5. \A g \in Groups : revision'[g] >= revision[g]
  <2> HIDE DEF Shown, Untouched, Rewritten
  <2> QED BY <1>0, <1>2, <1>3, <1>4 DEF Groups
<1>6. revision["votes"] \in Nat /\ revision["likes"] \in Nat /\ revision["comments"] \in Nat
  BY <1>0 DEF Groups
<1> HIDE DEF Shown, Untouched, Rewritten
<1> QED BY <1>2, <1>3, <1>4, <1>5, <1>6

(* One revision of a group names one payload of it, for every poll: what   *)
(* the clients' newest-revision-wins merge of polls relies on.  The one    *)
(* exception is what the content step of an account's deletion does to the *)
(* comments (account-deletion.content.ts).                                 *)
THEOREM ChangesCounted == ServerSpec => EveryChangeCounted
<1>1. ServerTypeOK /\ [ServerNext]_serverVars =>
         [/\ \A g \in Groups : revision[g]' >= revision[g]
          /\ <<counts["votes"], tally, ballot>>' # <<counts["votes"], tally, ballot>>
               => revision["votes"]' > revision["votes"]
          /\ <<counts["likes"], fans>>' # <<counts["likes"], fans>>
               => revision["likes"]' > revision["likes"]
          /\ <<counts["comments"], Shown>>' # <<counts["comments"], Shown>>
               => \/ revision["comments"]' > revision["comments"]
                  \/ \E c \in CommentIds : Rewritten(c)]_serverVars
  BY ChangeStep
<1> QED BY <1>1, ServerTypes, PTL DEF ServerSpec, EveryChangeCounted

-----------------------------------------------------------------------------
(* The store *)

Snapshots == [revision : [Groups -> Nat], counts : [Groups -> Nat], tally : [Options -> Nat],
              liked : BOOLEAN, vote : Options \cup {None}]

(* The groups of which one revision is one payload. *)
Held == {g \in Groups : g = "comments" => Untouched}

(* p is not ahead of q, and where it is not behind it is the same, as far  *)
(* as the groups G go *)
Behind(p, q, G) ==
    /\ \A g \in Groups : p.revision[g] <= q.revision[g]
    /\ \A g \in G : p.revision[g] = q.revision[g] => Payload(p, g) = Payload(q, g)
    /\ p.revision["likes"] = q.revision["likes"] => p.liked = q.liked
    /\ p.revision["votes"] = q.revision["votes"] => p.vote = q.vote

Same(p, q, G) ==
    /\ \A g \in G : p.revision[g] = q.revision[g] => Payload(p, g) = Payload(q, g)
    /\ p.revision["likes"] = q.revision["likes"] => p.liked = q.liked
    /\ p.revision["votes"] = q.revision["votes"] => p.vote = q.vote

Agrees(old, p, G) == ~ViewerDiffers(old, p) /\ \A g \in G : ~Differs(old, p, g)

CopiesOK ==
    /\ Copies \subseteq Snapshots
    /\ \A p \in Copies : Behind(p, Snapshot, Held)
    /\ \A p, q \in Copies : Same(p, q, Held)

StoreOK ==
    store # None =>
        /\ store.poll \in Snapshots
        /\ store.likedAt \in Nat \cup {None} /\ store.voteAt \in Nat \cup {None}
        /\ \A g \in Groups : store.poll.revision[g] <= revision[g]
        /\ store.likedAt # None => store.likedAt <= revision["likes"]
        /\ store.voteAt # None => store.voteAt <= revision["votes"]
        /\ \A p \in Copies : Agrees(store, p, Held)

RequestsOK ==
    /\ request = [s \in Slots |-> request[s]]
    /\ \A s \in Slots : \/ request[s] = None
                        \/ request[s] = [what |-> request[s].what, answer |-> request[s].answer]

IInv ==
    /\ ServerTypeOK
    /\ viewer \in Users
    /\ RequestsOK
    /\ CopiesOK
    /\ StoreOK

-----------------------------------------------------------------------------
(* Every step of the composition is a step of the server or none.          *)
LEMMA ServerMoves == viewer \in Users /\ [Next]_vars => [ServerNext]_serverVars
<1> SUFFICES ASSUME viewer \in Users, [Next]_vars PROVE [ServerNext]_serverVars
  OBVIOUS
<1>1. CASE Others
  BY <1>1 DEF Others, ServerNext
<1>2. CASE Serve
  <2>1. CASE ServeLike \/ ServeUnlike
    BY <2>1 DEF ServeLike, ServeUnlike, ServerNext, PollNext
  <2>2. ASSUME NEW o \in Options, ServeVote(o) PROVE [ServerNext]_serverVars
    BY <2>2 DEF ServeVote, ServerNext, PollNext
  <2>3. CASE ServeCancel \/ ServeDelete
    BY <2>3 DEF ServeCancel, ServeDelete, ServerNext, PollNext
  <2>4. ASSUME NEW s \in Slots, ServeGet(s) \/ ServeError(s) PROVE [ServerNext]_serverVars
    BY <2>4 DEF ServeGet, ServeError
  <2> QED BY <1>2, <2>1, <2>2, <2>3, <2>4 DEF Serve
<1>3. CASE Client
  BY <1>3 DEF Client, PressLike, PressVote, PressCancel, Press, PressDelete, Fetch, Focus,
              SwitchUser, Receive, Lose, Settle
<1>4. CASE UNCHANGED vars
  BY <1>4 DEF vars
<1> QED BY <1>1, <1>2, <1>3, <1>4 DEF Next

(* What a deletion has once rewritten stays excepted.                      *)
LEMMA HeldShrinks ==
    ASSUME ServerTypeOK, [ServerNext]_serverVars
    PROVE  Held' \subseteq Held /\ Held \subseteq Groups
BY UntouchedBefore DEF Held

(* The snapshot before a write is behind the one after it.                 *)
LEMMA SnapshotAges ==
    ASSUME ServerTypeOK, viewer \in Users, [ServerNext]_serverVars, UNCHANGED viewer
    PROVE  Snapshot \in Snapshots /\ Snapshot' \in Snapshots /\ Behind(Snapshot, Snapshot', Held')
<1>1. ServerTypeOK'
  BY TypeStep
<1>2. Snapshot \in Snapshots
  BY DEF Snapshot, Snapshots, ServerTypeOK
<1>3. Snapshot' \in Snapshots
  BY <1>1 DEF Snapshot, Snapshots, ServerTypeOK
<1>4. ASSUME NEW g \in Held', revision'[g] = revision[g]
      PROVE  Payload(Snapshot, g) = Payload(Snapshot', g)
  <2>1. g \in Groups /\ revision[g] \in Nat /\ (g = "comments" => Untouched')
    BY DEF ServerTypeOK, Held
  <2>2. CASE g = "votes"
    BY <1>4, <2>1, <2>2, ChangeStep DEF Payload, Snapshot
  <2>3. CASE g = "likes"
    BY <1>4, <2>1, <2>3, ChangeStep DEF Payload, Snapshot
  <2>4. CASE g = "comments"
    BY <1>4, <2>1, <2>4, ChangeStep DEF Payload, Snapshot
  <2> QED BY <2>1, <2>2, <2>3, <2>4 DEF Groups
<1>5. revision'["likes"] = revision["likes"] => Snapshot.liked = Snapshot'.liked
  <2>1. revision["likes"] \in Nat
    BY DEF ServerTypeOK, Groups
  <2> QED BY <2>1, ChangeStep DEF Snapshot
<1>6. revision'["votes"] = revision["votes"] => Snapshot.vote = Snapshot'.vote
  <2>1. revision["votes"] \in Nat
    BY DEF ServerTypeOK, Groups
  <2> QED BY <2>1, ChangeStep DEF Snapshot
<1>7. Snapshot.revision = revision /\ Snapshot'.revision = revision'
  BY DEF Snapshot
<1>8. \A g \in Groups : revision[g] <= revision'[g]
  BY <1>1, ChangeStep DEF ServerTypeOK
<1> HIDE DEF Snapshot, Held
<1> QED BY <1>2, <1>3, <1>4, <1>5, <1>6, <1>7, <1>8 DEF Behind

LEMMA BehindTransitive ==
    ASSUME NEW p \in Snapshots, NEW q \in Snapshots, NEW r \in Snapshots,
           NEW F, NEW G, G \subseteq F, F \subseteq Groups, Behind(p, q, F), Behind(q, r, G)
    PROVE  Behind(p, r, G)
<1>1. \A g \in Groups : /\ p.revision[g] \in Nat /\ q.revision[g] \in Nat /\ r.revision[g] \in Nat
                        /\ p.revision[g] <= q.revision[g] /\ q.revision[g] <= r.revision[g]
  BY DEF Snapshots, Behind
<1>2. ASSUME NEW g \in Groups, p.revision[g] = r.revision[g]
      PROVE  p.revision[g] = q.revision[g] /\ q.revision[g] = r.revision[g]
  BY <1>1, <1>2
<1>3. ASSUME NEW g \in Groups
      PROVE  /\ p.revision[g] <= r.revision[g]
             /\ g \in G /\ p.revision[g] = r.revision[g] => Payload(p, g) = Payload(r, g)
  BY <1>1, <1>2 DEF Behind
<1>4. "likes" \in Groups /\ "votes" \in Groups
  BY DEF Groups
<1> QED BY <1>2, <1>3, <1>4 DEF Behind

-----------------------------------------------------------------------------
(* A write of anyone: the copies there are fall behind the new snapshot.   *)
LEMMA WriteKeeps ==
    ASSUME IInv, [ServerNext]_serverVars, UNCHANGED <<viewer, store>>,
           Copies' \subseteq Copies \cup {Snapshot'}
    PROVE  CopiesOK' /\ StoreOK'
<1>1. /\ Snapshot \in Snapshots /\ Snapshot' \in Snapshots /\ Behind(Snapshot, Snapshot', Held')
      /\ Held' \subseteq Held /\ Held \subseteq Groups
  BY SnapshotAges, HeldShrinks DEF IInv
<1>2. Behind(Snapshot', Snapshot', Held')
  BY <1>1 DEF Behind, Snapshots
<1>3. ASSUME NEW p \in Copies' PROVE p \in Snapshots /\ Behind(p, Snapshot', Held')
  <2>1. CASE p = Snapshot'
    BY <1>1, <1>2, <2>1
  <2>2. CASE p \in Copies
    BY <1>1, <2>2, BehindTransitive DEF IInv, CopiesOK
  <2> QED BY <2>1, <2>2
<1>4. ASSUME NEW p \in Copies', NEW q \in Copies' PROVE Same(p, q, Held')
  <2>1. CASE p \in Copies /\ q \in Copies
    BY <1>1, <2>1 DEF IInv, CopiesOK, Same
  <2>2. CASE q = Snapshot'
    BY <1>3, <2>2 DEF Behind, Same
  <2>3. CASE p = Snapshot'
    BY <1>3, <2>3 DEF Behind, Same
  <2> QED BY <2>1, <2>2, <2>3
<1>5. CopiesOK'
  BY <1>3, <1>4 DEF CopiesOK
<1>6. ASSUME store # None
      PROVE  /\ store.poll \in Snapshots
             /\ store.likedAt \in Nat \cup {None} /\ store.voteAt \in Nat \cup {None}
             /\ \A g \in Groups : store.poll.revision[g] <= revision'[g]
             /\ store.likedAt # None => store.likedAt <= revision'["likes"]
             /\ store.voteAt # None => store.voteAt <= revision'["votes"]
             /\ \A p \in Copies' : Agrees(store, p, Held')
  <2>1. \A g \in Groups : revision[g] \in Nat /\ revision'[g] \in Nat /\ revision[g] <= revision'[g]
    BY TypeStep, ChangeStep DEF IInv, ServerTypeOK
  <2>2. /\ store.poll \in Snapshots
        /\ store.likedAt \in Nat \cup {None} /\ store.voteAt \in Nat \cup {None}
        /\ \A g \in Groups : store.poll.revision[g] \in Nat /\ store.poll.revision[g] <= revision[g]
        /\ store.likedAt # None => store.likedAt <= revision["likes"]
        /\ store.voteAt # None => store.voteAt <= revision["votes"]
    BY <1>6 DEF IInv, StoreOK, Snapshots
  <2>3. Snapshot \in Copies
    BY DEF Copies
  <2>4. Agrees(store, Snapshot, Held)
    BY <1>6, <2>3 DEF IInv, StoreOK
  <2>5. Snapshot.revision = revision /\ Snapshot'.revision = revision'
    BY DEF Snapshot
  <2>6. Agrees(store, Snapshot', Held')
    <3> HIDE DEF Snapshot, Held
    <3>1. ASSUME NEW g \in Held', revision'[g] = store.poll.revision[g]
          PROVE  Payload(Snapshot', g) = Payload(store.poll, g)
      <4>1. g \in Held /\ g \in Groups
        BY <1>1
      <4>2. revision[g] = revision'[g] /\ revision[g] = store.poll.revision[g]
        BY <2>1, <2>2, <3>1, <4>1
      <4>3. Payload(Snapshot, g) = Payload(store.poll, g)
        BY <2>4, <2>5, <4>1, <4>2 DEF Agrees, Differs
      <4> QED BY <1>1, <2>5, <4>2, <4>3 DEF Behind
    <3>2. ASSUME revision'["likes"] = store.likedAt PROVE Snapshot'.liked = store.poll.liked
      <4>1. store.likedAt # None
        BY <2>1, <3>2, PollStoreAssumption DEF Groups
      <4>2. revision["likes"] = revision'["likes"] /\ revision["likes"] = store.likedAt
        BY <2>1, <2>2, <3>2, <4>1 DEF Groups
      <4> QED BY <1>1, <2>4, <2>5, <4>2 DEF Behind, Agrees, ViewerDiffers
    <3>3. ASSUME revision'["votes"] = store.voteAt, Snapshot'.vote # None
          PROVE  Snapshot'.vote = store.poll.vote
      <4>1. store.voteAt # None
        BY <2>1, <3>3, PollStoreAssumption DEF Groups
      <4>2. revision["votes"] = revision'["votes"] /\ revision["votes"] = store.voteAt
        BY <2>1, <2>2, <3>3, <4>1 DEF Groups
      <4>3. Snapshot.vote = Snapshot'.vote
        BY <1>1, <2>5, <4>2 DEF Behind
      <4> QED BY <2>4, <2>5, <3>3, <4>2, <4>3 DEF Agrees, ViewerDiffers
    <3> QED BY <2>5, <3>1, <3>2, <3>3 DEF Agrees, Differs, ViewerDiffers
  <2>7. \A p \in Copies' : Agrees(store, p, Held')
    <3>1. \A p \in Copies : Agrees(store, p, Held)
      BY <1>6 DEF IInv, StoreOK
    <3> HIDE DEF Held
    <3> QED BY <1>1, <2>6, <3>1 DEF Agrees
  <2>8. "likes" \in Groups /\ "votes" \in Groups
    BY DEF Groups
  <2>9. \A g \in Groups : store.poll.revision[g] <= revision'[g]
    BY <2>1, <2>2
  <2>10. /\ store.likedAt # None => store.likedAt <= revision'["likes"]
         /\ store.voteAt # None => store.voteAt <= revision'["votes"]
    BY <2>1, <2>2, <2>8
  <2> QED BY <2>2, <2>7, <2>9, <2>10
<1>7. StoreOK'
  BY <1>6 DEF StoreOK
<1> QED BY <1>5, <1>7
-----------------------------------------------------------------------------
(* Group by group the merged poll is the newer of the two, and no copy     *)
(* conflicts with it that conflicted with neither.                         *)
LEMMA MergeKeeps ==
    ASSUME IInv, NEW p \in Copies
    PROVE  LET m == Merge(store, p)
           IN  /\ m.poll \in Snapshots
               /\ m.likedAt \in Nat \cup {None} /\ m.voteAt \in Nat \cup {None}
               /\ \A g \in Groups : m.poll.revision[g] <= revision[g]
               /\ m.likedAt # None => m.likedAt <= revision["likes"]
               /\ m.voteAt # None => m.voteAt <= revision["votes"]
               /\ \A q \in Copies : Agrees(m, q, Held)
               /\ store # None =>
                    \A g \in Groups : m.poll.revision[g] >= store.poll.revision[g]
<1> DEFINE m == Merge(store, p)
<1>1. p \in Snapshots /\ \A g \in Groups : p.revision[g] \in Nat /\ p.revision[g] <= revision[g]
  BY DEF IInv, CopiesOK, Snapshots, Behind, Snapshot
<1>2. ASSUME NEW q \in Copies PROVE q \in Snapshots /\ Same(q, p, Held)
  BY DEF IInv, CopiesOK
<1>3. \A g \in Groups : revision[g] \in Nat
  BY DEF IInv, ServerTypeOK
<1>4. "likes" \in Groups /\ "votes" \in Groups
  BY DEF Groups
<1>5. CASE store = None
  <2>1. m.poll = p /\ m.likedAt = None /\ m.voteAt = None
    BY <1>5 DEF Merge
  <2>2. ASSUME NEW q \in Copies PROVE Agrees(m, q, Held)
    <3>1. q.revision["likes"] # None /\ q.revision["votes"] # None
      BY <1>2, <1>4, PollStoreAssumption DEF Snapshots
    <3> HIDE DEF m
    <3> QED BY <1>2, <2>1, <3>1 DEF Agrees, Differs, ViewerDiffers, Same
  <2> HIDE DEF m
  <2>3. /\ m.poll \in Snapshots
        /\ m.likedAt \in Nat \cup {None} /\ m.voteAt \in Nat \cup {None}
        /\ \A g \in Groups : m.poll.revision[g] <= revision[g]
        /\ m.likedAt # None => m.likedAt <= revision["likes"]
        /\ m.voteAt # None => m.voteAt <= revision["votes"]
        /\ \A q \in Copies : Agrees(m, q, Held)
    BY <1>1, <2>1, <2>2
  <2> QED BY <1>5, <2>3 DEF m
<1>6. CASE store # None
  <2> DEFINE old == store.poll
             fresh == {g \in Groups : p.revision[g] > old.revision[g]}
             likes == Newer(p.revision["likes"], store.likedAt)
             votes == p.vote # None /\ Newer(p.revision["votes"], store.voteAt)
  <2>1. /\ old \in Snapshots
        /\ store.likedAt \in Nat \cup {None} /\ store.voteAt \in Nat \cup {None}
        /\ \A g \in Groups : old.revision[g] \in Nat /\ old.revision[g] <= revision[g]
        /\ store.likedAt # None => store.likedAt <= revision["likes"]
        /\ store.voteAt # None => store.voteAt <= revision["votes"]
        /\ \A q \in Copies : Agrees(store, q, Held)
    BY <1>6 DEF IInv, StoreOK, Snapshots
  <2>2. /\ m.poll = [revision |-> [g \in Groups |-> IF g \in fresh THEN p.revision[g]
                                                    ELSE old.revision[g]],
                     counts   |-> [g \in Groups |-> IF g \in fresh THEN p.counts[g]
                                                    ELSE old.counts[g]],
                     tally    |-> IF "votes" \in fresh THEN p.tally ELSE old.tally,
                     liked    |-> IF likes THEN p.liked ELSE old.liked,
                     vote     |-> IF votes THEN p.vote ELSE old.vote]
        /\ m.likedAt = IF likes THEN p.revision["likes"] ELSE store.likedAt
        /\ m.voteAt = IF votes THEN p.revision["votes"] ELSE store.voteAt
    BY <1>6 DEF Merge
  <2> HIDE DEF m
  <2>3. ASSUME NEW g \in Groups
        PROVE  /\ m.poll.revision[g] = IF g \in fresh THEN p.revision[g] ELSE old.revision[g]
               /\ Payload(m.poll, g) = IF g \in fresh THEN Payload(p, g) ELSE Payload(old, g)
    <3>1. CASE g = "votes"
      BY <2>2, <3>1 DEF Payload, Groups
    <3>2. CASE g # "votes"
      BY <2>2, <3>2 DEF Payload
    <3> QED BY <3>1, <3>2
  <2>4. m.poll \in Snapshots
    <3>1. [g \in Groups |-> IF g \in fresh THEN p.revision[g] ELSE old.revision[g]]
              \in [Groups -> Nat]
      BY <1>1, <2>1
    <3>2. [g \in Groups |-> IF g \in fresh THEN p.counts[g] ELSE old.counts[g]]
              \in [Groups -> Nat]
      BY <1>1, <2>1 DEF Snapshots
    <3>3. /\ (IF "votes" \in fresh THEN p.tally ELSE old.tally) \in [Options -> Nat]
          /\ (IF likes THEN p.liked ELSE old.liked) \in BOOLEAN
          /\ (IF votes THEN p.vote ELSE old.vote) \in Options \cup {None}
      BY <1>1, <2>1 DEF Snapshots
    <3> HIDE DEF fresh, likes, votes
    <3> QED BY <2>2, <3>1, <3>2, <3>3 DEF Snapshots
  <2>5. \A g \in Groups : m.poll.revision[g] <= revision[g] /\ m.poll.revision[g] >= old.revision[g]
    BY <1>1, <2>1, <2>3
  <2>6. /\ m.likedAt \in Nat \cup {None} /\ m.voteAt \in Nat \cup {None}
        /\ m.likedAt # None => m.likedAt <= revision["likes"]
        /\ m.voteAt # None => m.voteAt <= revision["votes"]
    BY <1>1, <1>4, <2>1, <2>2
  <2>7. ASSUME NEW q \in Copies PROVE Agrees(m, q, Held)
    <3>0. Held \subseteq Groups
      BY DEF Held
    <3> HIDE DEF Held
    <3>1. ASSUME NEW g \in Held, q.revision[g] = m.poll.revision[g]
          PROVE  Payload(q, g) = Payload(m.poll, g)
      <4>1. CASE g \in fresh
        BY <1>2, <2>3, <3>0, <3>1, <4>1 DEF Same
      <4>2. CASE g \notin fresh
        BY <2>1, <2>3, <3>0, <3>1, <4>2 DEF Agrees, Differs
      <4> QED BY <4>1, <4>2
    <3>2. q.revision["likes"] = m.likedAt => q.liked = m.poll.liked
      <4>1. CASE likes
        BY <1>2, <2>2, <4>1 DEF Same
      <4>2. CASE ~likes
        BY <2>1, <2>2, <4>2 DEF Agrees, ViewerDiffers
      <4> QED BY <4>1, <4>2
    <3>3. q.vote # None /\ q.revision["votes"] = m.voteAt => q.vote = m.poll.vote
      <4>1. CASE votes
        BY <1>2, <2>2, <4>1 DEF Same
      <4>2. CASE ~votes
        BY <2>1, <2>2, <4>2 DEF Agrees, ViewerDiffers
      <4> QED BY <4>1, <4>2
    <3> QED BY <3>1, <3>2, <3>3 DEF Agrees, Differs, ViewerDiffers
  <2> QED BY <2>4, <2>5, <2>6, <2>7 DEF m
<1> QED BY <1>5, <1>6
-----------------------------------------------------------------------------
(* No new answer comes up, and no write happens.                           *)
NothingNew ==
    /\ UNCHANGED <<serverVars, viewer>>
    /\ request' = [s \in Slots |-> request'[s]]
    /\ \A s \in Slots :
          request'[s] = request[s] \/ request'[s] = None \/ \E what : request'[s] = Sent(what)

LEMMA FewerCopies == NothingNew => Copies' \subseteq Copies
<1> SUFFICES ASSUME NothingNew, NEW p \in Copies' PROVE p \in Copies
  OBVIOUS
<1>1. Snapshot' = Snapshot
  BY DEF NothingNew, Snapshot, serverVars
<1>2. ASSUME NEW s \in Slots, request'[s] # None, request'[s].answer # None
      PROVE  request'[s] = request[s]
  BY <1>2 DEF NothingNew, Sent
<1>3. CASE p = Snapshot'
  BY <1>1, <1>3 DEF Copies
<1>4. CASE p # Snapshot'
  <2>1. PICK s \in Slots : /\ request'[s] # None /\ request'[s].answer # None
                           /\ request'[s].answer.kind = "poll" /\ p = request'[s].answer.poll
    BY <1>4 DEF Copies, Open, Idle, Outcome
  <2> QED BY <1>2, <2>1 DEF Copies, Open, Idle, Outcome
<1> QED BY <1>3, <1>4

(* What becomes of the store when the tab hears of a request.              *)
LEMMA Settled ==
    ASSUME IInv, NEW slot \in Slots, Receive(slot) \/ Lose(slot)
    PROVE  /\ NothingNew
           /\ \/ store' = store \/ store' = None
              \/ ~gone /\ \E p \in Copies : store' = Merge(store, p)
              \/ gone' = gone /\ gone /\ store' = store
<1>1. PICK out : /\ Settle(slot, out)
                 /\ out.kind = "poll" => out.poll \in Copies
  <2>1. CASE Receive(slot)
    BY <2>1 DEF Receive, Copies, Open, Idle
  <2>2. CASE Lose(slot)
    BY <2>2 DEF Lose, Says
  <2> QED BY <2>1, <2>2
<1>2. request = [s \in Slots |-> request[s]]
  BY DEF IInv, RequestsOK
<1>3. \/ request' = Done(slot) \/ request' = Reconciling(Done(slot))
  BY <1>1 DEF Settle, SettleReaction, SettleDelete, SettleGet, SettleReconcile, Ingest, Bury,
              Actions, Slots
<1>4. NothingNew
  <2>1. Done(slot) = [s \in Slots |-> IF s = slot THEN None ELSE request[s]]
    BY <1>2 DEF Done
  <2>2. CASE request' = Done(slot)
    BY <1>1, <2>1, <2>2 DEF NothingNew, Settle
  <2>3. CASE request' = Reconciling(Done(slot))
    <3>1. \/ request' = Done(slot)
          \/ request' = [s \in Slots |-> IF s = "reconcile" THEN Sent("get")
                                         ELSE IF s = slot THEN None ELSE request[s]]
      BY <2>1, <2>3 DEF Reconciling
    <3> QED BY <1>1, <2>2, <3>1 DEF NothingNew, Settle
  <2> QED BY <1>3, <2>2, <2>3
<1>5. \/ store' = store \/ store' = None
      \/ ~gone /\ out.kind = "poll" /\ store' = Merge(store, out.poll)
  BY <1>1 DEF Settle, SettleReaction, SettleDelete, SettleGet, SettleReconcile, Ingest, Bury,
              Actions
<1> QED BY <1>1, <1>4, <1>5

(* What the viewer does sends requests and, by another sign-in, forgets.   *)
LEMMA Pressed ==
    ASSUME IInv, Client, ~\E slot \in Slots : Receive(slot) \/ Lose(slot)
    PROVE  \/ NothingNew /\ store' = store /\ gone' = gone
           \/ \E u \in Viewers : SwitchUser(u)
<1>1. request = [s \in Slots |-> request[s]]
  BY DEF IInv, RequestsOK
<1>2. ASSUME NEW slot \in Slots, NEW what, Send(slot, what), UNCHANGED <<serverVars, viewer>>
      PROVE  NothingNew
  <2>1. request' = [s \in Slots |-> IF s = slot THEN Sent(what) ELSE request[s]]
    BY <1>1, <1>2 DEF Send
  <2> QED BY <1>2, <2>1 DEF NothingNew
<1>3. ASSUME NEW a \in Actions, NEW what, Press(a, what) PROVE NothingNew /\ store' = store
                                                                /\ gone' = gone
  BY <1>2, <1>3 DEF Press, Slots
<1>4. CASE PressLike \/ PressCancel \/ \E o \in Options : PressVote(o)
  BY <1>3, <1>4 DEF PressLike, PressCancel, PressVote, Actions
<1>5. CASE PressDelete \/ Fetch
  BY <1>2, <1>5 DEF PressDelete, Fetch, Slots
<1>6. CASE Focus
  <2>1. request' = [s \in Slots |-> IF s = "reconcile" THEN Sent("get") ELSE request[s]]
    BY <1>1, <1>6 DEF Focus, Reconciling, Idle
  <2> QED BY <1>6, <2>1 DEF NothingNew, Focus
<1> QED BY <1>4, <1>5, <1>6 DEF Client

LEMMA NothingKeepsRequests == RequestsOK /\ NothingNew => RequestsOK'
<1> SUFFICES ASSUME RequestsOK, NothingNew, NEW s \in Slots, request'[s] # None
             PROVE  request'[s] = [what |-> request'[s].what, answer |-> request'[s].answer]
  BY DEF RequestsOK, NothingNew
<1>1. CASE request'[s] = request[s]
  BY <1>1 DEF RequestsOK
<1>2. ASSUME NEW what, request'[s] = Sent(what)
      PROVE  request'[s] = [what |-> request'[s].what, answer |-> request'[s].answer]
  BY <1>2 DEF Sent
<1> QED BY <1>1, <1>2 DEF NothingNew

(* An answer of the server is the snapshot of its moment.                  *)
LEMMA Served ==
    ASSUME IInv, Serve
    PROVE  /\ UNCHANGED <<viewer, store, gone, pending>>
           /\ RequestsOK'
           /\ Copies' \subseteq Copies \cup {Snapshot'}
<1>1. request = [s \in Slots |-> request[s]]
  BY DEF IInv, RequestsOK
<1>2. ASSUME NEW slot \in Slots, ~Idle(slot), NEW a, Answer(slot, a),
             a.kind = "poll" => a.poll \in Copies \cup {Snapshot'}
      PROVE  /\ UNCHANGED <<viewer, store, gone, pending>>
             /\ RequestsOK'
             /\ Copies' \subseteq Copies \cup {Snapshot'}
  <2>1. /\ UNCHANGED <<viewer, store, gone, pending>>
        /\ request' = [request EXCEPT ![slot].answer = a]
    BY <1>2 DEF Answer
  <2>2. request[slot] = [what |-> request[slot].what, answer |-> request[slot].answer]
    BY <1>2 DEF IInv, RequestsOK, Idle
  <2>3. /\ request' = [s \in Slots |-> request'[s]]
        /\ \A s \in Slots \ {slot} : request'[s] = request[s]
        /\ request'[slot] = [request[slot] EXCEPT !.answer = a]
    BY <1>1, <2>1
  <2>4. request'[slot] = [what |-> request[slot].what, answer |-> a]
    BY <2>2, <2>3
  <2>5. RequestsOK'
    <3> SUFFICES ASSUME NEW s \in Slots, request'[s] # None
                 PROVE  request'[s] = [what |-> request'[s].what, answer |-> request'[s].answer]
      BY <2>3 DEF RequestsOK
    <3>1. CASE s = slot
      BY <2>4, <3>1
    <3>2. CASE s # slot
      BY <2>3, <3>2 DEF IInv, RequestsOK
    <3> QED BY <3>1, <3>2
  <2>6. ASSUME NEW p \in Copies', p # Snapshot' PROVE p \in Copies \cup {Snapshot'}
    <3>1. PICK s \in Slots : /\ request'[s] # None /\ request'[s].answer # None
                             /\ request'[s].answer.kind = "poll" /\ p = request'[s].answer.poll
      BY <2>6 DEF Copies, Open, Idle, Outcome
    <3>2. CASE s = slot
      BY <1>2, <2>4, <3>1, <3>2
    <3>3. CASE s # slot
      BY <2>3, <3>1, <3>3 DEF Copies, Open, Idle, Outcome
    <3> QED BY <3>2, <3>3
  <2> QED BY <2>1, <2>5, <2>6
<1>3. ASSUME NEW slot \in Slots, ~Idle(slot), Hydrated(slot)
      PROVE  /\ UNCHANGED <<viewer, store, gone, pending>>
             /\ RequestsOK'
             /\ Copies' \subseteq Copies \cup {Snapshot'}
  <2>1. Brings(Snapshot').poll = Snapshot' /\ Says("error").kind # "poll"
    BY DEF Brings, Says
  <2>2. CASE Answer(slot, Brings(Snapshot'))
    BY <1>2, <1>3, <2>1, <2>2
  <2>3. CASE Answer(slot, Says("error"))
    BY <1>2, <1>3, <2>1, <2>3
  <2> QED BY <1>3, <2>2, <2>3 DEF Hydrated
<1>4. ASSUME NEW slot \in Slots, ~Idle(slot), NEW kind, kind # "poll", Answer(slot, Says(kind))
      PROVE  /\ UNCHANGED <<viewer, store, gone, pending>>
             /\ RequestsOK'
             /\ Copies' \subseteq Copies \cup {Snapshot'}
  <2>1. Says(kind).kind # "poll"
    BY <1>4 DEF Says
  <2> QED BY <1>2, <1>4, <2>1
<1>5. CASE ServeLike \/ ServeUnlike
  BY <1>3, <1>4, <1>5 DEF ServeLike, ServeUnlike, Asked, Slots, Actions
<1>6. CASE ServeCancel \/ \E o \in Options : ServeVote(o)
  BY <1>3, <1>4, <1>6 DEF ServeCancel, ServeVote, Asked, Slots, Actions
<1>7. CASE ServeDelete
  BY <1>4, <1>7 DEF ServeDelete, Asked, Slots
<1>8. ASSUME NEW slot \in Slots, ServeError(slot)
      PROVE  /\ UNCHANGED <<viewer, store, gone, pending>>
             /\ RequestsOK'
             /\ Copies' \subseteq Copies \cup {Snapshot'}
  BY <1>4, <1>8 DEF ServeError
<1>9. ASSUME NEW slot \in Slots, ServeGet(slot)
      PROVE  /\ UNCHANGED <<viewer, store, gone, pending>>
             /\ RequestsOK'
             /\ Copies' \subseteq Copies \cup {Snapshot'}
  <2>1. Snapshot \in Copies /\ Brings(Snapshot).poll = Snapshot
    BY DEF Copies, Brings
  <2>2. ~Idle(slot) /\ (Answer(slot, Brings(Snapshot)) \/ Answer(slot, Says("missing")))
    BY <1>9 DEF ServeGet, Asked
  <2>3. CASE Answer(slot, Brings(Snapshot))
    BY <1>2, <2>1, <2>2, <2>3
  <2> QED BY <1>4, <2>2, <2>3
<1> QED BY <1>5, <1>6, <1>7, <1>8, <1>9 DEF Serve

-----------------------------------------------------------------------------
LEMMA StoreInit == Init => IInv
<1> SUFFICES ASSUME Init PROVE IInv
  OBVIOUS
<1>1. ServerTypeOK /\ viewer \in Users /\ store = None /\ RequestsOK
  BY TypeInit, PollStoreAssumption DEF Init, ClientInit, RequestsOK
<1>2. Copies = {Snapshot}
  BY DEF Init, ClientInit, Copies, Open, Idle
<1>3. Snapshot \in Snapshots
  BY <1>1 DEF Snapshot, Snapshots, ServerTypeOK
<1>4. CopiesOK
  <2> HIDE DEF Snapshot
  <2> QED BY <1>2, <1>3 DEF CopiesOK, Behind, Same, Snapshots
<1> QED BY <1>1, <1>4 DEF IInv, StoreOK

(* The store of a step that writes nothing: kept, dropped or merged.       *)
LEMMA ReadKeeps ==
    ASSUME IInv, NothingNew,
           store' = store \/ store' = None \/ \E p \in Copies : store' = Merge(store, p)
    PROVE  IInv'
<1>1. /\ Copies' \subseteq Copies /\ Snapshot' = Snapshot /\ Held' = Held
      /\ revision' = revision /\ viewer' = viewer
  BY FewerCopies DEF NothingNew, Snapshot, serverVars, Held, Untouched
<1>2. CopiesOK'
  <2> HIDE DEF Snapshot, Copies, Held
  <2> QED BY <1>1 DEF CopiesOK, IInv
<1>3. StoreOK'
  <2>1. CASE store' = store
    BY <1>1, <2>1 DEF IInv, StoreOK
  <2>2. CASE store' = None
    BY <2>2 DEF StoreOK
  <2>3. ASSUME NEW p \in Copies, store' = Merge(store, p) PROVE StoreOK'
    BY <1>1, <2>3, MergeKeeps DEF StoreOK
  <2> QED BY <2>1, <2>2, <2>3
<1>4. ServerTypeOK'
  BY TypeStep DEF IInv, NothingNew
<1> QED BY <1>1, <1>2, <1>3, <1>4, NothingKeepsRequests DEF IInv

LEMMA StoreStep == IInv /\ [Next]_vars => IInv'
<1> SUFFICES ASSUME IInv, [Next]_vars PROVE IInv'
  OBVIOUS
<1>0. [ServerNext]_serverVars /\ ServerTypeOK'
  BY ServerMoves, TypeStep DEF IInv
<1>1. CASE Others
  <2>1. UNCHANGED <<viewer, store, request>>
    BY <1>1 DEF Others, clientVars
  <2>2. Copies' \subseteq Copies \cup {Snapshot'}
    BY <2>1 DEF Copies, Open, Idle, Outcome
  <2>3. CopiesOK' /\ StoreOK'
    BY <1>0, <2>1, <2>2, WriteKeeps
  <2> QED BY <1>0, <2>1, <2>3 DEF IInv, RequestsOK
<1>2. CASE Serve
  <2>1. CopiesOK' /\ StoreOK'
    BY <1>0, <1>2, Served, WriteKeeps
  <2> QED BY <1>0, <1>2, <2>1, Served DEF IInv
<1>3. ASSUME NEW u \in Viewers, SwitchUser(u) PROVE IInv'
  <2>1. /\ viewer' = u /\ store' = None /\ UNCHANGED serverVars
        /\ request' = [s \in Slots |-> None]
    BY <1>3 DEF SwitchUser
  <2>2. Copies' = {Snapshot'} /\ RequestsOK'
    BY <2>1 DEF Copies, Open, Idle, RequestsOK
  <2>3. viewer' \in Users
    BY <2>1, PollStoreAssumption
  <2>4. Snapshot' \in Snapshots
    BY <1>0, <2>3 DEF Snapshot, Snapshots, ServerTypeOK
  <2>5. CopiesOK'
    <3> HIDE DEF Snapshot
    <3> QED BY <2>2, <2>4 DEF CopiesOK, Behind, Same, Snapshots
  <2> QED BY <1>0, <2>1, <2>2, <2>3, <2>5 DEF IInv, StoreOK
<1>4. ASSUME NEW slot \in Slots, Receive(slot) \/ Lose(slot) PROVE IInv'
  BY <1>4, Settled, ReadKeeps
<1>5. CASE Client /\ ~\E slot \in Slots : Receive(slot) \/ Lose(slot)
  BY <1>3, <1>5, Pressed, ReadKeeps
<1>6. CASE UNCHANGED vars
  <2>1. NothingNew
    BY <1>6 DEF vars, clientVars, NothingNew, IInv, RequestsOK
  <2> QED BY <1>6, <2>1, ReadKeeps DEF vars, clientVars
<1> QED BY <1>1, <1>2, <1>4, <1>5, <1>6 DEF Next

(* The invariant of the copies holds for every instance of the store.      *)
THEOREM StoreInvariant == Spec => []IInv
BY StoreInit, StoreStep, PTL DEF Spec

(* What the tab does to the poll is what PollWrites lets anyone do: the    *)
(* composition implements the server.                                      *)
THEOREM StoreImplementsServer == Spec => ServerSpec
<1>1. Init => ServerInit
  BY DEF Init
<1>2. IInv /\ [Next]_vars => [ServerNext]_serverVars
  BY ServerMoves DEF IInv
<1> QED BY <1>1, <1>2, StoreInvariant, PTL DEF Spec, ServerSpec

(* Under the tabs' requests, too, one revision names one payload, with the *)
(* exception of EveryChangeCounted.                                        *)
THEOREM StoreChangesCounted == Spec => EveryChangeCounted
BY StoreImplementsServer, ChangesCounted

(* Neither overtaken answers nor lost ones bring two payloads of one       *)
(* revision to mergePollSnapshot (poll-state.ts), of votes and likes never *)
(* and of comments as long as no deletion has rewritten the poll.          *)
THEOREM ConflictFree == Spec => []NoConflict
<1>1. IInv => NoConflict
  BY DEF IInv, StoreOK, NoConflict, Agrees, Differs, Held
<1> QED BY <1>1, StoreInvariant, PTL

(* The tab never goes back to an older revision of what it shows while the *)
(* session lasts (mergePollSnapshot).                                      *)
THEOREM NewestStays == Spec => NewestWins
<1>1. IInv /\ [Next]_vars =>
        [store # None /\ store' # None =>
           \A g \in Groups : store'.poll.revision[g] >= store.poll.revision[g]]_vars
  <2> SUFFICES ASSUME IInv, [Next]_vars, store # None, store' # None, NEW g \in Groups
               PROVE  store'.poll.revision[g] >= store.poll.revision[g]
    OBVIOUS
  <2>1. store.poll.revision[g] \in Nat
    BY DEF IInv, StoreOK, Snapshots
  <2>2. CASE store' = store
    BY <2>1, <2>2
  <2>3. ASSUME NEW slot \in Slots, Receive(slot) \/ Lose(slot)
        PROVE  store'.poll.revision[g] >= store.poll.revision[g]
    BY <2>2, <2>3, Settled, MergeKeeps
  <2>4. CASE Client /\ ~\E slot \in Slots : Receive(slot) \/ Lose(slot)
    BY <2>2, <2>4, Pressed DEF SwitchUser
  <2>5. CASE Serve \/ Others \/ UNCHANGED vars
    BY <2>2, <2>5, Served DEF Others, clientVars, vars
  <2> QED BY <2>3, <2>4, <2>5 DEF Next
<1> QED BY <1>1, StoreInvariant, PTL DEF Spec, NewestWins

(* A late answer does not bring back a poll the tab knows to be deleted,   *)
(* and no button waits for it (deleteCachedPoll, ingestPoll).              *)
THEOREM DeletedForGood == Spec => []DeletedStaysGone
<1>1. Init => DeletedStaysGone
  BY DEF Init, ClientInit, DeletedStaysGone
<1>2. IInv /\ DeletedStaysGone /\ [Next]_vars => DeletedStaysGone'
  <2> SUFFICES ASSUME IInv, DeletedStaysGone, [Next]_vars, gone'
               PROVE  store' = None /\ pending' = {}
    BY DEF DeletedStaysGone
  <2>1. ASSUME NEW slot \in Slots, NEW out, Settle(slot, out)
        PROVE  store' = None /\ pending' = {}
    BY <2>1 DEF DeletedStaysGone, Settle, SettleReaction, SettleDelete, SettleGet, SettleReconcile,
                Ingest, Bury
  <2>2. ASSUME NEW slot \in Slots, Receive(slot) \/ Lose(slot)
        PROVE  store' = None /\ pending' = {}
    BY <2>1, <2>2 DEF Receive, Lose
  <2>3. CASE Serve \/ Others \/ UNCHANGED vars
    BY <2>3, Served DEF Others, clientVars, vars, DeletedStaysGone
  <2>4. CASE Client /\ ~\E slot \in Slots : Receive(slot) \/ Lose(slot)
    BY <2>4 DEF Client, PressLike, PressVote, PressCancel, Press, PressDelete, Fetch, Focus,
                SwitchUser, DeletedStaysGone
  <2> QED BY <2>2, <2>3, <2>4 DEF Next
<1> QED BY <1>1, <1>2, StoreInvariant, PTL DEF Spec

-----------------------------------------------------------------------------
(* The list of comments *)

(* A comment that was deleted, and stays so. *)
Removed(c) == comments[c] # None /\ ~comments[c].shown

Item  == [id : CommentIds, liked : BOOLEAN]
Place == [last : CommentIds, mark : CommentIds]
Page  == [items : SUBSET Item, next : Place \cup {None}]

Fetches   == [kind : {"append", "refetch"}, got : Seq(Page), left : Nat,
              since : Nat \cup {None}, asked : Nat, answer : Page \cup {None}]
Refreshes == [kind : {"refresh"}, asked : Nat, answer : Page \cup {None}]

LoadTypes ==
    /\ pages \in Seq(Page)
    /\ fetch \in Fetches \cup {NoFetch}
    /\ refresh \in Refreshes \cup {NoFetch}
    /\ steady \in [{"pages", "fetch", "refresh"} -> SUBSET CommentIds]

CallTypes ==
    /\ liking \in [CommentIds ->
                      [want : {"like", "unlike"}, answer : Item \cup {None}] \cup {None}]
    /\ deleting \in [CommentIds ->
                        [want : {"delete"}, answer : {"deleted", None}] \cup {None}]
    /\ creating \in [want : {"create"}, answer : Item \cup {None}] \cup {None}

OverlayTypes ==
    overlay \in [mine : SUBSET Item, revision : Nat, deleted : SUBSET CommentIds,
                 reactions : [CommentIds -> [liked : BOOLEAN, revision : Nat] \cup {None}]]

PageTypes == root \in CommentIds \cup {None} /\ LoadTypes /\ CallTypes /\ OverlayTypes

(* What the tab takes for deleted is deleted for good. *)
DeletedOK ==
    /\ \A c \in overlay.deleted : Removed(c)
    /\ \A c \in CommentIds : deleting[c] # None /\ deleting[c].answer # None => Removed(c)

SteadyOK == \A s \in DOMAIN steady : steady[s] \subseteq Available

(* Every comment of S is on the pages ps, or after their last one and not  *)
(* newer than the chain.                                                   *)
Chain(ps, S) ==
    \A c \in S : \/ c \in Ids(ps)
                 \/ /\ Cursor(ps) # None
                    /\ Before(Cursor(ps).last, c) /\ c <= Cursor(ps).mark

FetchChain(f, S) ==
    f.kind # "idle" =>
        /\ f.got # <<>> => Cursor(f.got) # None /\ Chain(f.got, S)
        /\ f.answer # None => Chain(Append(f.got, f.answer), S)
        /\ f.kind = "append" => f.since # None /\ f.left = Len(f.got) + 1

RefreshChain(r, S) ==
    r.kind # "idle" /\ r.answer # None => Chain(<<r.answer>>, S)

ChainsOK ==
    /\ Chain(pages, steady["pages"])
    /\ FetchChain(fetch, steady["fetch"])
    /\ RefreshChain(refresh, steady["refresh"])

PagesInv == ServerTypeOK /\ PageTypes /\ DeletedOK /\ SteadyOK /\ ChainsOK

-----------------------------------------------------------------------------
(* Lists of comments *)

LEMMA HasLeast ==
    ASSUME NEW S, S \subseteq Nat, S # {}
    PROVE  \E n \in S : \A m \in S : n <= m
<1> DEFINE R == {p \in Nat \X Nat : p[1] < p[2]}
<1>1. IsWellFoundedOn(R, Nat)
  BY NatLessThanWellFounded DEF OpToRel
<1> HIDE DEF R
<1>2. PICK n \in S : \A m \in S : ~(<<m, n>> \in R)
  BY <1>1, WFMin
<1>3. \A m \in S : ~(m < n)
  BY <1>2 DEF R
<1> QED BY <1>3

(* A finite set has a last element in every order: the one that most       *)
(* elements are before.                                                    *)
LEMMA HasLast ==
    ASSUME NEW S, IsFiniteSet(S), S # {}, NEW R,
           \A c \in S : <<c, c>> \notin R,
           \A c, d \in S : c # d => <<c, d>> \in R \/ <<d, c>> \in R,
           \A c, d, e \in S : <<c, d>> \in R /\ <<d, e>> \in R => <<c, e>> \in R
    PROVE  \E c \in S : \A d \in S \ {c} : <<d, c>> \in R
<1> DEFINE first(c) == {d \in S : <<d, c>> \in R}
           rank(c) == Cardinality(first(c))
           T == {Cardinality(S) - rank(c) : c \in S}
<1>1. ASSUME NEW c \in S
      PROVE  IsFiniteSet(first(c)) /\ rank(c) \in Nat /\ Cardinality(S) - rank(c) \in Nat
  <2>1. first(c) \in SUBSET S
    OBVIOUS
  <2> HIDE DEF first
  <2>2. IsFiniteSet(first(c)) /\ Cardinality(first(c)) <= Cardinality(S)
    BY <2>1, FS_Subset
  <2>3. Cardinality(S) \in Nat /\ Cardinality(first(c)) \in Nat
    BY <2>2, FS_CardinalityType
  <2> QED BY <2>2, <2>3
<1> HIDE DEF rank
<1>2. T \subseteq Nat /\ T # {}
  <2>1. \A c \in S : Cardinality(S) - rank(c) \in Nat
    BY <1>1
  <2>2. PICK c \in S : TRUE
    OBVIOUS
  <2> QED BY <2>1, <2>2
<1>3. PICK t \in T : \A m \in T : t <= m
  <2> HIDE DEF T
  <2> QED BY <1>2, HasLeast
<1>4. PICK c \in S : t = Cardinality(S) - rank(c)
  OBVIOUS
<1>5. Cardinality(S) \in Nat
  BY FS_CardinalityType
<1>6. ASSUME NEW d \in S PROVE rank(d) <= rank(c)
  <2>1. Cardinality(S) - rank(c) <= Cardinality(S) - rank(d)
    BY <1>3, <1>4
  <2>2. rank(c) \in Nat /\ rank(d) \in Nat
    BY <1>1
  <2> QED BY <1>5, <2>1, <2>2
<1>7. ASSUME NEW d \in S \ {c}, <<c, d>> \in R PROVE FALSE
  <2>1. first(c) \cup {c} \in SUBSET first(d) /\ c \notin first(c)
    BY <1>7
  <2> HIDE DEF first
  <2>2. IsFiniteSet(first(c)) /\ IsFiniteSet(first(d))
    BY <1>1
  <2>3. Cardinality(first(c) \cup {c}) = Cardinality(first(c)) + 1
    BY <2>1, <2>2, FS_AddElement
  <2>4. Cardinality(first(c) \cup {c}) <= Cardinality(first(d))
    BY <2>1, <2>2, FS_Subset
  <2>5. rank(c) + 1 <= rank(d) /\ rank(c) \in Nat /\ rank(d) \in Nat
    BY <1>1, <2>3, <2>4 DEF rank
  <2> QED BY <1>6, <2>5
<1> QED BY <1>7

(* What both orders of comments have in common. *)
LEMMA Ordered ==
    /\ \A c \in CommentIds : ~Before(c, c)
    /\ \A c, d \in CommentIds : c # d => Before(c, d) \/ Before(d, c)
    /\ \A c, d, e \in CommentIds : Before(c, d) /\ Before(d, e) => Before(c, e)
BY PollAssumption DEF Before

LEMMA LastOfIs ==
    ASSUME NEW S, S \subseteq CommentIds, S # {}
    PROVE  LastOf(S) \in S /\ \A d \in S \ {LastOf(S)} : Before(d, LastOf(S))
<1> DEFINE R == {p \in S \X S : Before(p[1], p[2])}
<1>1. IsFiniteSet(S)
  BY PollAssumption, FS_Subset
<1>2. \A c, d \in S : <<c, d>> \in R <=> Before(c, d)
  OBVIOUS
<1> HIDE DEF R
<1>3. \E c \in S : \A d \in S \ {c} : <<d, c>> \in R
  <2>1. \A c \in S : <<c, c>> \notin R
    BY <1>2, Ordered
  <2>2. \A c, d \in S : c # d => <<c, d>> \in R \/ <<d, c>> \in R
    BY <1>2, Ordered
  <2>3. \A c, d, e \in S : <<c, d>> \in R /\ <<d, e>> \in R => <<c, e>> \in R
    BY <1>2, Ordered
  <2> QED BY <1>1, <2>1, <2>2, <2>3, HasLast
<1>4. \E c \in S : \A d \in S \ {c} : Before(d, c)
  BY <1>2, <1>3
<1> QED BY <1>4 DEF LastOf

LEMMA MaxIs ==
    ASSUME NEW S, S \subseteq CommentIds, S # {}
    PROVE  Max(S) \in S /\ \A d \in S : d <= Max(S)
<1> DEFINE R == {p \in S \X S : p[1] < p[2]}
<1>1. IsFiniteSet(S) /\ S \subseteq Nat
  BY PollAssumption, FS_Subset
<1>2. \A c, d \in S : <<c, d>> \in R <=> c < d
  OBVIOUS
<1> HIDE DEF R
<1>3. \E c \in S : \A d \in S \ {c} : <<d, c>> \in R
  <2>1. \A c \in S : <<c, c>> \notin R
    BY <1>1, <1>2
  <2>2. \A c, d \in S : c # d => <<c, d>> \in R \/ <<d, c>> \in R
    BY <1>1, <1>2
  <2>3. \A c, d, e \in S : <<c, d>> \in R /\ <<d, e>> \in R => <<c, e>> \in R
    <3>1. \A c, d, e \in S : c < d /\ d < e => c < e
      BY <1>1
    <3> QED BY <1>2, <3>1
  <2>4. IsFiniteSet(S)
    BY <1>1
  <2> QED BY <2>1, <2>2, <2>3, <2>4, HasLast
<1>4. PICK c \in S : \A d \in S \ {c} : d < c
  BY <1>2, <1>3
<1>6. \A d \in S : c >= d
  BY <1>1, <1>4
<1>5. Max(S) \in S /\ \A d \in S : Max(S) >= d
  BY <1>6 DEF Max
<1> QED BY <1>1, <1>5

(* A comment is among the first n, or after all of those. *)
LEMMA FirstAreFirst ==
    ASSUME NEW S, S \subseteq CommentIds, NEW n \in Nat \ {0}, NEW c \in S
    PROVE  \/ c \in FirstOf(S, n)
           \/ /\ Cardinality(S) > n
              /\ FirstOf(S, n) # {} /\ FirstOf(S, n) \subseteq S
              /\ \A d \in FirstOf(S, n) : Before(d, c)
<1> DEFINE first(d) == {e \in S : Before(e, d)}
<1> SUFFICES ASSUME c \notin FirstOf(S, n)
             PROVE  /\ Cardinality(S) > n
                    /\ FirstOf(S, n) # {} /\ FirstOf(S, n) \subseteq S
                    /\ \A d \in FirstOf(S, n) : Before(d, c)
  OBVIOUS
<1>1. IsFiniteSet(S) /\ Cardinality(S) \in Nat
  BY PollAssumption, FS_Subset, FS_CardinalityType
<1>2. FirstOf(S, n) = {d \in S : Cardinality(first(d)) < n}
  BY DEF FirstOf
<1>3. ASSUME NEW d \in S
      PROVE  first(d) \in SUBSET S /\ IsFiniteSet(first(d)) /\ Cardinality(first(d)) \in Nat
  <2>1. first(d) \in SUBSET S
    OBVIOUS
  <2> HIDE DEF first
  <2> QED BY <1>1, <2>1, FS_Subset, FS_CardinalityType
<1>4. ASSUME NEW d \in S, Before(c, d)
      PROVE  Cardinality(first(c)) <= Cardinality(first(d))
  <2>1. first(c) \in SUBSET first(d)
    BY <1>4, Ordered
  <2> HIDE DEF first
  <2> QED BY <1>3, <2>1, FS_Subset
<1>5. Cardinality(first(c)) >= n
  BY <1>2, <1>3
<1>6. ASSUME NEW d \in FirstOf(S, n) PROVE Before(d, c)
  <2>1. d \in S /\ Cardinality(first(d)) < n
    BY <1>2
  <2>2. ~Before(c, d)
    <3> HIDE DEF first
    <3> QED BY <1>3, <1>4, <1>5, <2>1
  <2> QED BY <2>1, <2>2, Ordered
<1>7. Cardinality(S) > n
  <2>1. first(c) \cup {c} \in SUBSET S /\ c \notin first(c)
    BY Ordered
  <2> HIDE DEF first
  <2>2. Cardinality(first(c) \cup {c}) = Cardinality(first(c)) + 1
    BY <1>3, <2>1, FS_AddElement
  <2>3. Cardinality(first(c) \cup {c}) <= Cardinality(S)
    BY <1>1, <2>1, FS_Subset
  <2> QED BY <1>1, <1>3, <1>5, <2>2, <2>3
<1>8. FirstOf(S, n) # {}
  <2> DEFINE R == {p \in S \X S : Before(p[2], p[1])}
  <2>1. \A d, e \in S : <<d, e>> \in R <=> Before(e, d)
    OBVIOUS
  <2> HIDE DEF R
  <2>2. PICK l \in S : \A d \in S \ {l} : <<d, l>> \in R
    <3>1. \A d \in S : <<d, d>> \notin R
      BY <2>1, Ordered
    <3>2. \A d, e \in S : d # e => <<d, e>> \in R \/ <<e, d>> \in R
      BY <2>1, Ordered
    <3>3. \A d, e, f \in S : <<d, e>> \in R /\ <<e, f>> \in R => <<d, f>> \in R
      BY <2>1, Ordered
    <3> QED BY <1>1, <3>1, <3>2, <3>3, HasLast
  <2>3. first(l) = {}
    BY <2>1, <2>2, Ordered
  <2>4. Cardinality({}) = 0
    BY FS_EmptySet
  <2> QED BY <1>2, <2>3, <2>4
<1> QED BY <1>2, <1>6, <1>7, <1>8

PageIds(p) == {item.id : item \in p.items}

(* A page has what its query found, up to the limit; its cursor leads to   *)
(* the rest.                                                               *)
LEMMA PageRead ==
    ASSUME NEW cursor \in Place \cup {None}
    PROVE  /\ ReadPage(cursor) \in Page
           /\ \A c \in Found(cursor) :
                 \/ c \in PageIds(ReadPage(cursor))
                 \/ /\ ReadPage(cursor).next # None
                    /\ Before(ReadPage(cursor).next.last, c)
                    /\ c <= ReadPage(cursor).next.mark
<1> DEFINE F == Found(cursor)
           P == FirstOf(F, Limit)
<1>1. Available \subseteq CommentIds /\ F \subseteq Available /\ Limit \in Nat \ {0}
  BY PagesAssumption DEF Available, Shown, Found
<1>2. ASSUME F # {}
      PROVE  Mark(cursor) \in CommentIds /\ P # {} /\ P \subseteq CommentIds
  <2>1. Mark(cursor) \in CommentIds
    <3>1. CASE cursor = None
      BY <1>1, <1>2, <3>1, MaxIs DEF Mark
    <3>2. CASE cursor # None
      BY <3>2 DEF Mark, Place
    <3> QED BY <3>1, <3>2
  <2>2. PICK c \in F : TRUE
    BY <1>2
  <2>3. c \in P \/ P # {}
    <3> HIDE DEF F
    <3> QED BY <1>1, <2>2, FirstAreFirst
  <2>4. P \subseteq CommentIds
    <3> HIDE DEF F
    <3> QED BY <1>1 DEF FirstOf
  <2> QED BY <2>1, <2>3, <2>4
<1>3. Cardinality(F) > Limit => F # {}
  <2> HIDE DEF F
  <2>1. Cardinality({}) = 0
    BY FS_EmptySet
  <2> QED BY <1>1, <2>1
<1> DEFINE place == [last |-> LastOf(P), mark |-> Mark(cursor)]
<1>4. F # {} => place \in Place /\ place # None
  <2> HIDE DEF F, P
  <2>1. F # {} => LastOf(P) \in CommentIds /\ Mark(cursor) \in CommentIds
    BY <1>2, LastOfIs
  <2> QED BY <2>1, PagesAssumption DEF Place
<1>5. IsFiniteSet(F) /\ Cardinality(F) \in Nat
  BY <1>1, PollAssumption, FS_Subset, FS_CardinalityType
<1>6. ReadPage(cursor).next = (IF Cardinality(F) <= Limit THEN None ELSE place)
  BY DEF ReadPage, NextCursor
<1>7. ReadPage(cursor).items = {Row(c) : c \in P} /\ PageIds(ReadPage(cursor)) = P
  <2>1. ReadPage(cursor).items = {Row(c) : c \in P}
    BY DEF ReadPage
  <2>2. \A c : Row(c).id = c
    BY DEF Row
  <2> HIDE DEF F, P
  <2> QED BY <2>1, <2>2 DEF PageIds
<1>8. \A c \in CommentIds : Row(c) \in Item
  BY DEF Row, Item
<1>9. P \subseteq CommentIds
  <2> HIDE DEF F
  <2> QED BY <1>1 DEF FirstOf
<1>10. ReadPage(cursor) \in Page
  <2>1. {Row(c) : c \in P} \in SUBSET Item
    <3> HIDE DEF F, P
    <3> QED BY <1>8, <1>9
  <2>2. ReadPage(cursor).next \in Place \cup {None}
    <3> HIDE DEF F, P, place
    <3> QED BY <1>1, <1>3, <1>4, <1>5, <1>6
  <2>3. ReadPage(cursor) = [items |-> ReadPage(cursor).items, next |-> ReadPage(cursor).next]
    BY DEF ReadPage
  <2> HIDE DEF F, P
  <2> QED BY <1>7, <2>1, <2>2, <2>3 DEF Page
<1>11. ASSUME NEW c \in F, c \notin P
       PROVE  /\ ReadPage(cursor).next = place /\ place # None
              /\ Before(place.last, c) /\ c <= place.mark
  <2>1. Cardinality(F) > Limit /\ \A d \in P : Before(d, c)
    <3> HIDE DEF F
    <3> QED BY <1>1, <1>11, FirstAreFirst
  <2>2. ReadPage(cursor).next = place /\ place # None
    <3> HIDE DEF F, P, place
    <3> QED BY <1>1, <1>4, <1>5, <1>6, <1>11, <2>1
  <2>3. Before(LastOf(P), c)
    <3> HIDE DEF F, P
    <3> QED BY <1>2, <1>11, <2>1, LastOfIs
  <2>4. c <= Mark(cursor)
    BY DEF Found
  <2> QED BY <2>2, <2>3, <2>4
<1> QED
  <2> HIDE DEF F, P, place
  <2> QED BY <1>7, <1>10, <1>11 DEF F

LEMMA IdsOf ==
    ASSUME NEW ps \in Seq(Page), NEW p \in Page
    PROVE  /\ Append(ps, p) \in Seq(Page) /\ Append(ps, p) # <<>>
           /\ Len(Append(ps, p)) = Len(ps) + 1
           /\ Ids(Append(ps, p)) = Ids(ps) \cup PageIds(p)
           /\ Rows(Append(ps, p)) = Rows(ps) \cup p.items
           /\ Cursor(Append(ps, p)) = p.next
<1>1. /\ Append(ps, p) \in Seq(Page) /\ Append(ps, p) # <<>> /\ Len(ps) \in Nat
      /\ Len(Append(ps, p)) = Len(ps) + 1 /\ Append(ps, p)[Len(ps) + 1] = p
      /\ DOMAIN Append(ps, p) = DOMAIN ps \cup {Len(ps) + 1}
      /\ \A i \in DOMAIN ps : Append(ps, p)[i] = ps[i]
  OBVIOUS
<1>2. Cursor(Append(ps, p)) = p.next
  BY <1>1 DEF Cursor
<1>3. Rows(Append(ps, p)) = Rows(ps) \cup p.items
  BY <1>1 DEF Rows
<1>4. Ids(Append(ps, p)) = Ids(ps) \cup PageIds(p)
  BY <1>3 DEF Ids, PageIds
<1> QED BY <1>1, <1>2, <1>3, <1>4

LEMMA CursorOf ==
    ASSUME NEW ps \in Seq(Page)
    PROVE  Cursor(ps) \in Place \cup {None}
<1>1. ps # <<>> => Len(ps) \in DOMAIN ps /\ ps[Len(ps)] \in Page
  OBVIOUS
<1> QED BY <1>1 DEF Cursor, Page

(* Reconciling takes from a page what was deleted, and gives the reactions *)
(* that were confirmed since.                                              *)
LEMMA Reconciled ==
    ASSUME OverlayTypes, NEW p \in Page, NEW since \in Nat
    PROVE  /\ Reconcile(p, since) \in Page
           /\ Reconcile(p, since).next = p.next
           /\ PageIds(Reconcile(p, since)) = PageIds(p) \ overlay.deleted
           /\ \A item \in Reconcile(p, since).items :
                 item.id \in Confirmed(since) =>
                     item = [id |-> item.id, liked |-> overlay.reactions[item.id].liked]
<1> DEFINE Now(item) ==
              LET r == overlay.reactions[item.id]
              IN  IF r # None /\ r.revision > since
                  THEN [item EXCEPT !.liked = r.liked] ELSE item
           kept == {i \in p.items : ~Hides(i.id)}
<1>1. p.items \in SUBSET Item /\ p = [items |-> p.items, next |-> p.next]
      /\ p.next \in Place \cup {None}
  BY DEF Page
<1>2. Reconcile(p, since) = [items |-> {Now(item) : item \in kept}, next |-> p.next]
  <2>1. \A X : [p EXCEPT !.items = X] = [items |-> X, next |-> p.next]
    BY <1>1
  <2>2. Reconcile(p, since) = [p EXCEPT !.items = {Now(item) : item \in kept}]
    BY DEF Reconcile
  <2> QED BY <2>1, <2>2
<1>3. ASSUME NEW item \in Item
      PROVE  /\ Now(item) \in Item /\ Now(item).id = item.id
             /\ item.id \in Confirmed(since) =>
                  Now(item) = [id |-> item.id, liked |-> overlay.reactions[item.id].liked]
  BY DEF Item, OverlayTypes, Confirmed
<1> HIDE DEF Now
<1>4. {Now(item) : item \in kept} \in SUBSET Item
  BY <1>1, <1>3
<1>5. Reconcile(p, since) \in Page /\ Reconcile(p, since).next = p.next
  BY <1>1, <1>2, <1>4 DEF Page
<1>6. PageIds(Reconcile(p, since)) = PageIds(p) \ overlay.deleted
  <2>1. Reconcile(p, since).items = {Now(item) : item \in kept}
    BY <1>2
  <2> QED BY <1>1, <1>3, <2>1 DEF PageIds, Hides
<1>7. \A item \in Reconcile(p, since).items :
         item.id \in Confirmed(since) =>
            item = [id |-> item.id, liked |-> overlay.reactions[item.id].liked]
  BY <1>1, <1>2, <1>3
<1> QED BY <1>5, <1>6, <1>7

(* Pages rewritten one by one keep the cursor and, but for D, the ids.     *)
Rewrites(qs, ps, D) ==
    /\ qs = [i \in DOMAIN ps |-> qs[i]]
    /\ \A i \in DOMAIN ps : /\ qs[i] \in Page /\ qs[i].next = ps[i].next
                            /\ PageIds(ps[i]) \ D \subseteq PageIds(qs[i])

LEMMA RewriteIs ==
    ASSUME NEW ps \in Seq(Page), NEW qs, NEW D, Rewrites(qs, ps, D)
    PROVE  /\ qs \in Seq(Page) /\ Len(qs) = Len(ps) /\ Cursor(qs) = Cursor(ps)
           /\ qs = <<>> <=> ps = <<>>
           /\ Ids(ps) \ D \subseteq Ids(qs)
<1> USE DEF Rewrites
<1>1. DOMAIN ps = 1 .. Len(ps) /\ Len(ps) \in Nat
  OBVIOUS
<1>2. DOMAIN qs = 1 .. Len(ps)
  BY <1>1
<1>3. qs \in Seq(Page) /\ Len(qs) = Len(ps)
  BY <1>1, <1>2
<1>4. qs = <<>> <=> ps = <<>>
  BY <1>3
<1>5. Cursor(qs) = Cursor(ps)
  BY <1>1, <1>3, <1>4 DEF Cursor
<1>6. ASSUME NEW c \in Ids(ps) \ D PROVE c \in Ids(qs)
  <2>1. PICK i \in DOMAIN ps : c \in PageIds(ps[i])
    BY DEF Ids, Rows, PageIds
  <2>2. c \in PageIds(qs[i]) /\ i \in DOMAIN qs
    BY <1>1, <1>2, <1>6, <2>1
  <2> QED BY <2>2 DEF Ids, Rows, PageIds
<1> QED BY <1>3, <1>4, <1>5, <1>6

LEMMA AllReconciled ==
    ASSUME OverlayTypes, NEW ps \in Seq(Page), NEW since \in Nat
    PROVE  LET qs == ReconcileAll(ps, since)
           IN  /\ qs \in Seq(Page) /\ Len(qs) = Len(ps) /\ Cursor(qs) = Cursor(ps)
               /\ qs = <<>> <=> ps = <<>>
               /\ Ids(ps) \ overlay.deleted \subseteq Ids(qs)
               /\ \A item \in Rows(qs) :
                     item.id \in Confirmed(since) =>
                         item = [id |-> item.id, liked |-> overlay.reactions[item.id].liked]
<1> DEFINE qs == ReconcileAll(ps, since)
<1>1. qs = [i \in DOMAIN ps |-> qs[i]] /\ \A i \in DOMAIN ps : qs[i] = Reconcile(ps[i], since)
  BY DEF ReconcileAll
<1>2. \A i \in DOMAIN ps : ps[i] \in Page
  OBVIOUS
<1> HIDE DEF qs
<1>3. \A i \in DOMAIN ps : /\ qs[i] \in Page /\ qs[i].next = ps[i].next
                           /\ PageIds(ps[i]) \ overlay.deleted \subseteq PageIds(qs[i])
  BY <1>1, <1>2, Reconciled
<1>4. /\ qs \in Seq(Page) /\ Len(qs) = Len(ps) /\ Cursor(qs) = Cursor(ps)
      /\ qs = <<>> <=> ps = <<>>
      /\ Ids(ps) \ overlay.deleted \subseteq Ids(qs)
  <2>1. Rewrites(qs, ps, overlay.deleted)
    BY <1>1, <1>3 DEF Rewrites
  <2> QED BY <2>1, RewriteIs
<1>5. ASSUME NEW item \in Rows(qs), item.id \in Confirmed(since)
      PROVE  item = [id |-> item.id, liked |-> overlay.reactions[item.id].liked]
  <2>1. DOMAIN qs = DOMAIN ps
    BY <1>1
  <2>2. PICK i \in DOMAIN ps : item \in qs[i].items
    BY <2>1 DEF Rows
  <2> QED BY <1>1, <1>2, <1>5, <2>2, Reconciled
<1> QED BY <1>4, <1>5 DEF qs

LEMMA FinallyIs ==
    ASSUME PageTypes, NEW ps \in Seq(Page)
    PROVE  LET qs == Finally(ps)
           IN  /\ qs \in Seq(Page) /\ Len(qs) = Len(ps) /\ Cursor(qs) = Cursor(ps)
               /\ qs = <<>> <=> ps = <<>>
               /\ Ids(ps) \ overlay.deleted \subseteq Ids(qs)
<1>1. fetch.kind # "idle" /\ fetch.since # None => fetch.since \in Nat
  BY DEF PageTypes, LoadTypes, Fetches, NoFetch
<1> QED BY <1>1, AllReconciled DEF Finally, PageTypes

LEMMA InPagesIs ==
    ASSUME PageTypes, NEW item \in Item
    PROVE  LET qs == InPages(item)
           IN  /\ qs \in Seq(Page) /\ Cursor(qs) = Cursor(pages) /\ (qs = <<>> <=> pages = <<>>)
               /\ Ids(pages) \subseteq Ids(qs)
<1> DEFINE qs == InPages(item)
           new(m) == IF m.id = item.id THEN item ELSE m
<1>1. \A i \in DOMAIN pages : pages[i] \in Page
  BY DEF PageTypes, LoadTypes
<1>2. qs = [i \in DOMAIN pages |-> qs[i]]
  BY DEF InPages
<1>3. ASSUME NEW i \in DOMAIN pages
      PROVE  /\ qs[i] \in Page /\ qs[i].next = pages[i].next
             /\ PageIds(pages[i]) \ {} \subseteq PageIds(qs[i])
  <2>1. /\ pages[i].items \in SUBSET Item /\ pages[i].next \in Place \cup {None}
        /\ pages[i] = [items |-> pages[i].items, next |-> pages[i].next]
    BY <1>1 DEF Page
  <2>2. \A X : [pages[i] EXCEPT !.items = X] = [items |-> X, next |-> pages[i].next]
    BY <2>1
  <2>3. qs[i] = [pages[i] EXCEPT !.items = {new(m) : m \in pages[i].items}]
    BY DEF InPages
  <2>4. qs[i] = [items |-> {new(m) : m \in pages[i].items}, next |-> pages[i].next]
    BY <2>2, <2>3
  <2>5. \A m : m \in Item => new(m) \in Item /\ new(m).id = m.id
    OBVIOUS
  <2> HIDE DEF new, qs
  <2>6. {new(m) : m \in pages[i].items} \in SUBSET Item
    BY <2>1, <2>5
  <2>7. \A m \in pages[i].items : m.id \in PageIds(qs[i])
    BY <2>1, <2>4, <2>5 DEF PageIds
  <2> QED BY <2>1, <2>4, <2>6, <2>7 DEF Page, PageIds
<1> HIDE DEF qs
<1>4. pages \in Seq(Page)
  BY DEF PageTypes, LoadTypes
<1>5. /\ qs \in Seq(Page) /\ Cursor(qs) = Cursor(pages) /\ (qs = <<>> <=> pages = <<>>)
      /\ Ids(pages) \subseteq Ids(qs)
  <2>1. Rewrites(qs, pages, {})
    BY <1>2, <1>3 DEF Rewrites
  <2> QED BY <1>4, <2>1, RewriteIs
<1> QED BY <1>5 DEF qs

LEMMA ForgetIs ==
    ASSUME PageTypes, NEW c \in CommentIds, Forget(c)
    PROVE  /\ pages' \in Seq(Page) /\ Cursor(pages') = Cursor(pages)
           /\ pages' = <<>> <=> pages = <<>>
           /\ Ids(pages) \ {c} \subseteq Ids(pages')
           /\ OverlayTypes' /\ overlay'.deleted = overlay.deleted \cup {c}
<1>1. \A i \in DOMAIN pages : pages[i] \in Page
  BY DEF PageTypes, LoadTypes
<1>2. pages' = [i \in DOMAIN pages |-> pages'[i]]
  BY DEF Forget
<1>3. ASSUME NEW i \in DOMAIN pages
      PROVE  /\ pages'[i] \in Page /\ pages'[i].next = pages[i].next
             /\ PageIds(pages[i]) \ {c} \subseteq PageIds(pages'[i])
  <2>1. /\ pages[i].items \in SUBSET Item /\ pages[i].next \in Place \cup {None}
        /\ pages[i] = [items |-> pages[i].items, next |-> pages[i].next]
    BY <1>1 DEF Page
  <2>2. \A X : [pages[i] EXCEPT !.items = X] = [items |-> X, next |-> pages[i].next]
    BY <2>1
  <2>3. pages'[i] = [pages[i] EXCEPT !.items = {m \in pages[i].items : m.id # c}]
    BY DEF Forget
  <2>4. pages'[i] = [items |-> {m \in pages[i].items : m.id # c}, next |-> pages[i].next]
    BY <2>2, <2>3
  <2> QED BY <2>1, <2>4 DEF Page, PageIds
<1>4. pages \in Seq(Page)
  BY DEF PageTypes, LoadTypes
<1>5. /\ pages' \in Seq(Page) /\ Cursor(pages') = Cursor(pages)
      /\ pages' = <<>> <=> pages = <<>>
      /\ Ids(pages) \ {c} \subseteq Ids(pages')
  <2>1. Rewrites(pages', pages, {c})
    BY <1>2, <1>3 DEF Rewrites
  <2> QED BY <1>4, <2>1, RewriteIs
<1>6. OverlayTypes' /\ overlay'.deleted = overlay.deleted \cup {c}
  BY DEF PageTypes, OverlayTypes, Forget
<1> QED BY <1>5, <1>6

LEMMA ChainKept ==
    ASSUME NEW ps, NEW qs, NEW S, NEW T, Chain(ps, S), T \subseteq S,
           Cursor(qs) = Cursor(ps), Ids(ps) \cap T \subseteq Ids(qs)
    PROVE  Chain(qs, T)
BY DEF Chain

-----------------------------------------------------------------------------
(* Every step of the list is a step of the server or none.                 *)
LEMMA PagesServerMoves ==
    root \in CommentIds \cup {None} /\ [PagesNext]_pagesVars => [ServerNext]_serverVars
<1> SUFFICES ASSUME root \in CommentIds \cup {None}, [PagesNext]_pagesVars
             PROVE  [ServerNext]_serverVars
  OBVIOUS
<1>1. Me \in Users
  BY PagesAssumption
<1>2. CASE Load
  BY <1>2 DEF Load, LoadMore, RetryLoad, ServeFetch, SettleFetch, FailFetch, Refresh,
              ServeRefresh, SettleRefresh, FailRefresh, NewThread
<1>3. ASSUME NEW c \in CommentIds, ServeCommentLike(c) PROVE ServerNext
  BY <1>1, <1>3 DEF ServeCommentLike, ServerNext
<1>4. ASSUME NEW c \in CommentIds, ServeCommentDelete(c) PROVE ServerNext
  BY <1>1, <1>4 DEF ServeCommentDelete, ServerNext, PollNext
<1>5. ASSUME NEW c \in CommentIds, ServeCreate(c) PROVE ServerNext
  BY <1>1, <1>5 DEF ServeCreate, ServerNext, PollNext
<1>6. ASSUME NEW c \in CommentIds,
             \/ PressCommentLike(c) \/ SettleCommentLike(c)
             \/ RefuseCommentLike(c) \/ LoseCommentLike(c)
             \/ PressCommentDelete(c) \/ SettleCommentDelete(c)
             \/ RefuseCommentDelete(c) \/ LoseCommentDelete(c)
      PROVE  UNCHANGED serverVars
  BY <1>6 DEF PressCommentLike, SettleCommentLike, RefuseCommentLike, LoseCommentLike,
              PressCommentDelete, SettleCommentDelete, RefuseCommentDelete, LoseCommentDelete
<1>7. CASE Submit \/ SettleCreate \/ LoseCreate
  BY <1>7 DEF Submit, SettleCreate, LoseCreate
<1>8. CASE OthersWrite
  BY <1>8 DEF OthersWrite, ServerNext, PollNext
<1>9. CASE UNCHANGED pagesVars
  BY <1>9 DEF pagesVars
<1> QED BY <1>2, <1>3, <1>4, <1>5, <1>6, <1>7, <1>8, <1>9 DEF PagesNext, Call

(* A comment is deleted once and for all. *)
LEMMA RemovedStays ==
    ASSUME ServerTypeOK, [ServerNext]_serverVars, NEW c \in CommentIds, Removed(c)
    PROVE  Removed(c)'
<1>1. c \notin Shown /\ comments[c] # None
  BY DEF Removed, Shown
<1>2. ASSUME NEW S, S \subseteq Shown, comments' = Hidden(S) PROVE Removed(c)'
  BY <1>1, <1>2, HiddenRows DEF Removed
<1>3. ASSUME NEW u \in Users, NEW d \in CommentIds, NEW parent \in CommentIds \cup {None},
             CreateComment(u, d, parent)
      PROVE  Removed(c)'
  <2>1. comments'[c] = comments[c]
    BY <1>1, <1>3 DEF CreateComment, ServerTypeOK
  <2> QED BY <2>1 DEF Removed
<1>4. ASSUME NEW u \in Users, NEW d \in CommentIds, DeleteComment(u, d) PROVE Removed(c)'
  <2> DEFINE dead == {d} \cup (IF comments[d].parent = None THEN Replies(d) ELSE {})
  <2>1. dead \subseteq Shown
    BY <1>4 DEF DeleteComment, Replies
  <2>2. comments' = Hidden(dead)
    BY <1>4 DEF DeleteComment
  <2> QED BY <1>2, <2>1, <2>2
<1>5. ASSUME NEW d \in CommentIds, AdminDeleteComment(d) PROVE Removed(c)'
  BY <1>2, <1>5 DEF AdminDeleteComment
<1>6. ASSUME NEW u \in Users, NEW d \in CommentIds, LikeComment(u, d) \/ UnlikeComment(u, d)
      PROVE  Removed(c)'
  <2>1. d \in Shown
    BY <1>6 DEF LikeComment, UnlikeComment
  <2>2. comments'[c] = comments[c]
    BY <1>1, <1>6, <2>1 DEF LikeComment, UnlikeComment, ServerTypeOK
  <2> QED BY <2>2 DEF Removed
<1>7. CASE UNCHANGED comments
  BY <1>7 DEF Removed
<1>8. ASSUME NEW u \in Users, PurgeContent(u) PROVE Removed(c)'
  <2>1. ContentRow(u, c)
    BY <1>1, <1>8, ContentRows
  <2>2. comments'[c] # None /\ ~comments'[c].shown
    BY <2>1, RowAssumption DEF ContentRow, Erased, Removed
  <2> QED BY <2>2 DEF Removed
<1>9. ASSUME NEW u \in Users, RecountRelationships(u) PROVE Removed(c)'
  <2>1. comments'[c] \in Comment /\ comments'[c].shown = comments[c].shown
    BY <1>1, <1>9, RelationshipsRows
  <2> QED BY <2>1, RowAssumption DEF Removed
<1> QED BY <1>3, <1>4, <1>5, <1>6, <1>7, <1>8, <1>9, GroupsApart DEF CommentNext

(* Nor does a reaction make a comment available, or unavailable. *)
LEMMA ReactionKeepsAvailable ==
    ASSUME ServerTypeOK, NEW u \in Users, NEW c \in CommentIds, UNCHANGED root,
           LikeComment(u, c) \/ UnlikeComment(u, c)
    PROVE  Available' = Available
<1>1. Shown' = Shown /\ active' = active
  BY ReactionKeepsShown DEF LikeComment, UnlikeComment
<1>2. c \in Shown /\ comments[c] \in Comment
  BY RowAssumption DEF LikeComment, UnlikeComment, Shown, ServerTypeOK
<1>3. \A d \in CommentIds \ {c} : comments'[d] = comments[d]
  BY DEF LikeComment, UnlikeComment, ServerTypeOK
<1>4. comments'[c].parent = comments[c].parent /\ comments'[c].author = comments[c].author
  <2> DEFINE row(S, n) == [comments[c] EXCEPT !.fans = S, !.likes = n]
  <2>1. \A S, n : row(S, n).parent = comments[c].parent /\ row(S, n).author = comments[c].author
    BY <1>2 DEF Comment
  <2>2. ASSUME comments' = [comments EXCEPT ![c].fans = @ \cup {u}, ![c].likes = @ + 1]
        PROVE  comments'[c] = row(comments[c].fans \cup {u}, comments[c].likes + 1)
    BY <1>2, <2>2 DEF ServerTypeOK, Shown, Comment
  <2>3. ASSUME comments' = [comments EXCEPT ![c].fans = @ \ {u}, ![c].likes = Minus(@, 1)]
        PROVE  comments'[c] = row(comments[c].fans \ {u}, Minus(comments[c].likes, 1))
    BY <1>2, <2>3 DEF ServerTypeOK, Shown, Comment
  <2>4. CASE UNCHANGED comments
    BY <2>4
  <2>5. CASE LikeComment(u, c) /\ ~UNCHANGED comments
    <3>1. comments' = [comments EXCEPT ![c].fans = @ \cup {u}, ![c].likes = @ + 1]
      BY <2>5 DEF LikeComment
    <3> HIDE DEF row
    <3> QED BY <2>1, <2>2, <3>1
  <2>6. CASE UnlikeComment(u, c) /\ ~UNCHANGED comments
    <3>1. comments' = [comments EXCEPT ![c].fans = @ \ {u}, ![c].likes = Minus(@, 1)]
      BY <2>6 DEF UnlikeComment
    <3> HIDE DEF row
    <3> QED BY <2>1, <2>3, <3>1
  <2> QED BY <2>4, <2>5, <2>6
<1> QED BY <1>1, <1>3, <1>4 DEF Available, Shown

-----------------------------------------------------------------------------
LEMMA ChainsNow ==
    ASSUME UNCHANGED root, Chain(pages', steady'["pages"]),
           FetchChain(fetch', steady'["fetch"]), RefreshChain(refresh', steady'["refresh"])
    PROVE  ChainsOK'
BY DEF ChainsOK, FetchChain, RefreshChain, Chain, Before

LEMMA NotSteady ==
    ASSUME PagesInv, NEW c, Removed(c), NEW s \in DOMAIN steady
    PROVE  c \notin steady[s]
BY DEF PagesInv, SteadyOK, Removed, Available, Shown

LEMMA FetchesIdle == NoFetch.kind = "idle" /\ \A S : FetchChain(NoFetch, S) /\ RefreshChain(NoFetch, S)
BY DEF NoFetch, FetchChain, RefreshChain

LEMMA RereadIs ==
    ASSUME PageTypes
    PROVE  Reread \in Fetches /\ \A S : FetchChain(Reread, S)
<1>1. Larger(Len(pages), 1) \in Nat /\ <<>> \in Seq(Page) /\ overlay.revision \in Nat
  BY DEF PageTypes, LoadTypes, OverlayTypes, Larger
<1>2. Reread = [kind |-> "refetch", got |-> <<>>, left |-> Larger(Len(pages), 1),
                since |-> None, asked |-> overlay.revision, answer |-> None]
  BY DEF Reread, Fetching
<1>3. Reread \in Fetches
  BY <1>1, <1>2 DEF Fetches
<1>4. Reread.kind = "refetch" /\ Reread.got = <<>> /\ Reread.answer = None
  BY <1>2
<1> QED BY <1>3, <1>4 DEF FetchChain

(* What a step does to the loads when it begins or cancels a fetch, and    *)
(* rewrites the pages at most.                                             *)
LEMMA LoadsKept ==
    ASSUME PagesInv, UNCHANGED <<root, refresh, steady>>, Available' = Available,
           fetch' \in {fetch, NoFetch, Reread, Invalidated},
           pages' \in Seq(Page), Cursor(pages') = Cursor(pages),
           \A c \in Ids(pages) : c \in Ids(pages') \/ Removed(c)
    PROVE  LoadTypes' /\ SteadyOK' /\ ChainsOK'
<1>1. PageTypes /\ LoadTypes /\ SteadyOK /\ ChainsOK
  BY DEF PagesInv, PageTypes
<1>2. fetch' = fetch \/ fetch' = NoFetch \/ fetch' = Reread
  BY DEF Invalidated
<1>3. fetch' \in Fetches \cup {NoFetch}
  BY <1>1, <1>2, RereadIs DEF LoadTypes
<1>4. LoadTypes'
  BY <1>1, <1>3 DEF LoadTypes
<1>5. SteadyOK'
  BY <1>1 DEF SteadyOK
<1>6. Chain(pages', steady["pages"])
  <2>1. \A c : Removed(c) => c \notin steady["pages"]
    BY <1>1, NotSteady DEF LoadTypes
  <2>2. Ids(pages) \cap steady["pages"] \subseteq Ids(pages')
    BY <2>1
  <2> QED BY <1>1, <2>2, ChainKept DEF ChainsOK
<1>7. FetchChain(fetch', steady["fetch"])
  BY <1>1, <1>2, RereadIs, FetchesIdle DEF ChainsOK
<1>8. ChainsOK'
  BY <1>1, <1>6, <1>7, ChainsNow DEF ChainsOK
<1> QED BY <1>4, <1>5, <1>8

(* A write on the server at most narrows what has been available all the   *)
(* time.                                                                   *)
LEMMA LoadsNarrowed ==
    ASSUME PagesInv, UNCHANGED <<root, pages, fetch, refresh>>, Narrow
    PROVE  LoadTypes' /\ SteadyOK' /\ ChainsOK'
<1>1. LoadTypes /\ SteadyOK /\ ChainsOK
  BY DEF PagesInv, PageTypes
<1>2. /\ DOMAIN steady = {"pages", "fetch", "refresh"} /\ DOMAIN steady' = DOMAIN steady
      /\ \A s \in DOMAIN steady : steady'[s] = steady[s] \cap Available'
  BY <1>1 DEF LoadTypes, Narrow
<1>3. steady' \in [{"pages", "fetch", "refresh"} -> SUBSET CommentIds]
  BY <1>1 DEF LoadTypes, Narrow
<1>4. LoadTypes'
  BY <1>1, <1>3 DEF LoadTypes
<1>5. SteadyOK'
  BY <1>2 DEF SteadyOK
<1>6. \A ps, S, T : Chain(ps, S) /\ T \subseteq S => Chain(ps, T)
  BY DEF Chain
<1>7. /\ steady'["pages"] \subseteq steady["pages"] /\ steady'["fetch"] \subseteq steady["fetch"]
      /\ steady'["refresh"] \subseteq steady["refresh"]
  BY <1>2
<1>8. /\ Chain(pages, steady'["pages"]) /\ FetchChain(fetch, steady'["fetch"])
      /\ RefreshChain(refresh, steady'["refresh"])
  BY <1>1, <1>6, <1>7 DEF ChainsOK, FetchChain, RefreshChain
<1>9. ChainsOK'
  BY <1>8, ChainsNow
<1> QED BY <1>4, <1>5, <1>9

(* Serving a page: what has been available is on the pages read so far, on *)
(* this one, or after it.                                                  *)
LEMMA FetchServed ==
    ASSUME PagesInv, ServeFetch
    PROVE  LoadTypes' /\ SteadyOK' /\ ChainsOK'
<1> DEFINE got == fetch.got
           cursor == Cursor(got)
           page == ReadPage(cursor)
           S == IF got = <<>> THEN Available ELSE steady["fetch"]
<1>1. LoadTypes /\ SteadyOK /\ ChainsOK
  BY DEF PagesInv, PageTypes
<1>2. /\ fetch \in Fetches /\ got \in Seq(Page) /\ fetch.kind # "idle"
      /\ fetch' = [fetch EXCEPT !.answer = page]
  BY <1>1 DEF ServeFetch, LoadTypes, Fetches, NoFetch
<1>3. cursor \in Place \cup {None}
  BY <1>2, CursorOf
<1>4. page \in Page
  <2> HIDE DEF cursor
  <2> QED BY <1>3, PageRead
<1>5. /\ fetch'.kind = fetch.kind /\ fetch'.got = got /\ fetch'.since = fetch.since
      /\ fetch'.left = fetch.left /\ fetch'.answer = page /\ fetch' \in Fetches
  <2> HIDE DEF page
  <2> QED BY <1>2, <1>4 DEF Fetches
<1>6. Available \subseteq CommentIds
  BY DEF Available, Shown
<1>7. /\ steady' \in [{"pages", "fetch", "refresh"} -> SUBSET CommentIds]
      /\ steady'["fetch"] = S /\ steady'["pages"] = steady["pages"]
      /\ steady'["refresh"] = steady["refresh"] /\ S \subseteq Available
  BY <1>1, <1>6 DEF LoadTypes, ServeFetch, SteadyOK
<1>8. LoadTypes'
  BY <1>1, <1>5, <1>7 DEF LoadTypes, ServeFetch
<1>9. SteadyOK'
  <2>1. Available' = Available
    BY DEF ServeFetch, serverVars, Available, Shown
  <2>2. DOMAIN steady = {"pages", "fetch", "refresh"} /\ DOMAIN steady' = DOMAIN steady
    BY <1>1, <1>7 DEF LoadTypes
  <2> HIDE DEF S
  <2> QED BY <1>1, <1>7, <2>1, <2>2 DEF SteadyOK
<1>10. ASSUME NEW c \in S, c \notin Ids(got) PROVE c \in Found(cursor)
  <2>1. c \in Available /\ c \in CommentIds
    BY <1>6, <1>7
  <2>2. CASE got = <<>>
    <3>1. cursor = None
      BY <2>2 DEF Cursor
    <3>2. c <= Max(Available)
      BY <1>6, <2>1, MaxIs
    <3> HIDE DEF cursor
    <3> QED BY <2>1, <3>1, <3>2 DEF Found, Mark
  <2>3. CASE got # <<>>
    <3>1. cursor # None /\ Chain(got, steady["fetch"])
      BY <1>1, <1>2, <2>3 DEF ChainsOK, FetchChain
    <3>2. Before(cursor.last, c) /\ c <= cursor.mark
      BY <1>10, <2>3, <3>1 DEF Chain
    <3> HIDE DEF cursor
    <3> QED BY <2>1, <3>1, <3>2 DEF Found, Mark
  <2> QED BY <2>2, <2>3
<1>11. Chain(Append(got, page), S)
  <2> HIDE DEF got, cursor, page, S
  <2>1. Ids(Append(got, page)) = Ids(got) \cup PageIds(page) /\ Cursor(Append(got, page)) = page.next
    BY <1>2, <1>4, IdsOf
  <2>2. ASSUME NEW c \in Found(cursor)
        PROVE  \/ c \in PageIds(page)
               \/ page.next # None /\ Before(page.next.last, c) /\ c <= page.next.mark
    BY <1>3, PageRead DEF page
  <2> QED BY <1>10, <2>1, <2>2 DEF Chain
<1>12. FetchChain(fetch', S)
  <2>1. got # <<>> => Cursor(got) # None /\ Chain(got, S)
    BY <1>1, <1>2 DEF ChainsOK, FetchChain
  <2>2. fetch.kind = "append" => fetch.since # None /\ fetch.left = Len(got) + 1
    BY <1>1, <1>2 DEF ChainsOK, FetchChain
  <2> HIDE DEF got, page, S
  <2> QED BY <1>5, <1>11, <2>1, <2>2 DEF FetchChain
<1>13. ChainsOK'
  <2>1. UNCHANGED <<root, pages, refresh>>
    BY DEF ServeFetch
  <2> HIDE DEF S
  <2> QED BY <1>1, <1>7, <1>12, <2>1, ChainsNow DEF ChainsOK
<1> QED BY <1>8, <1>9, <1>13

(* A page arrives. *)
LEMMA FetchSettled ==
    ASSUME PagesInv, SettleFetch
    PROVE  LoadTypes' /\ SteadyOK' /\ ChainsOK'
<1> DEFINE page == Reconcile(fetch.answer, fetch.asked)
           got == Append(fetch.got, page)
           ended == Len(got) = fetch.left \/ Cursor(got) = None
           S == steady["fetch"]
<1>1. PageTypes /\ LoadTypes /\ OverlayTypes /\ SteadyOK /\ ChainsOK /\ DeletedOK
  BY DEF PagesInv, PageTypes
<1>2. /\ fetch \in Fetches /\ fetch.got \in Seq(Page) /\ fetch.answer \in Page
      /\ fetch.asked \in Nat /\ fetch.kind # "idle"
  BY <1>1 DEF SettleFetch, LoadTypes, Fetches, NoFetch
<1>3. page \in Page /\ page.next = fetch.answer.next
      /\ PageIds(page) = PageIds(fetch.answer) \ overlay.deleted
  BY <1>1, <1>2, Reconciled
<1>4. got \in Seq(Page) /\ got # <<>> /\ Len(got) = Len(fetch.got) + 1
  <2> HIDE DEF page
  <2> QED BY <1>2, <1>3, IdsOf
<1>5. S \cap overlay.deleted = {}
  BY <1>1, NotSteady DEF LoadTypes, DeletedOK
<1>6. Chain(got, S)
  <2>1. Chain(Append(fetch.got, fetch.answer), S)
    BY <1>1, <1>2, PagesAssumption DEF ChainsOK, FetchChain, SettleFetch
  <2>2. /\ Cursor(got) = Cursor(Append(fetch.got, fetch.answer))
        /\ Ids(got) = Ids(fetch.got) \cup PageIds(page)
        /\ Ids(Append(fetch.got, fetch.answer)) = Ids(fetch.got) \cup PageIds(fetch.answer)
    <3> HIDE DEF page
    <3> QED BY <1>2, <1>3, IdsOf
  <2> HIDE DEF got, page, S
  <2>3. Ids(Append(fetch.got, fetch.answer)) \cap S \subseteq Ids(got)
    BY <1>3, <1>5, <2>2
  <2> QED BY <2>1, <2>2, <2>3, ChainKept
<1>7. Available' = Available /\ DOMAIN steady = {"pages", "fetch", "refresh"}
  BY <1>1 DEF SettleFetch, serverVars, Available, Shown, LoadTypes
<1>8. UNCHANGED <<root, refresh>>
  BY DEF SettleFetch
<1>9. CASE ended
  <2> DEFINE qs == Finally(got)
  <2>1. qs \in Seq(Page) /\ Cursor(qs) = Cursor(got) /\ Ids(got) \ overlay.deleted \subseteq Ids(qs)
    <3> HIDE DEF got
    <3> QED BY <1>1, <1>4, FinallyIs
  <2>2. /\ pages' = qs /\ fetch' = NoFetch
        /\ steady' = [steady EXCEPT !["pages"] = S, !["fetch"] = {}]
    BY <1>9 DEF SettleFetch
  <2> HIDE DEF qs, got, S
  <2>3. Chain(qs, S)
    <3>1. Ids(got) \cap S \subseteq Ids(qs)
      BY <1>5, <2>1
    <3> QED BY <1>6, <2>1, <3>1, ChainKept
  <2>4. S \subseteq CommentIds /\ S \subseteq Available
    BY <1>1, <1>7 DEF S, SteadyOK, LoadTypes
  <2>5. /\ steady' \in [{"pages", "fetch", "refresh"} -> SUBSET CommentIds]
        /\ steady'["pages"] = S /\ steady'["refresh"] = steady["refresh"]
        /\ steady'["fetch"] = {}
    BY <1>1, <2>2, <2>4 DEF LoadTypes
  <2>6. LoadTypes'
    BY <1>1, <1>8, <2>1, <2>2, <2>5 DEF LoadTypes
  <2>7. SteadyOK'
    BY <1>1, <1>7, <2>2, <2>4, <2>5 DEF SteadyOK
  <2>8. ChainsOK'
    BY <1>1, <1>8, <2>2, <2>3, <2>5, FetchesIdle, ChainsNow DEF ChainsOK
  <2> QED BY <2>6, <2>7, <2>8
<1>10. CASE ~ended
  <2>1. /\ pages' = pages /\ steady' = steady
        /\ fetch' = [fetch EXCEPT !.got = got, !.asked = overlay.revision, !.answer = None]
    BY <1>10 DEF SettleFetch
  <2>2. Cursor(got) # None /\ Len(got) # fetch.left
    BY <1>10
  <2>3. overlay.revision \in Nat
    BY <1>1 DEF OverlayTypes
  <2> HIDE DEF got
  <2>4. /\ fetch' \in Fetches /\ fetch'.got = got /\ fetch'.answer = None
        /\ fetch'.kind = fetch.kind
    BY <1>2, <1>4, <2>1, <2>3 DEF Fetches
  <2>5. fetch.kind # "append"
    BY <1>1, <1>2, <1>4, <2>2 DEF ChainsOK, FetchChain
  <2>6. LoadTypes'
    BY <1>1, <1>8, <2>1, <2>4 DEF LoadTypes
  <2>7. SteadyOK'
    BY <1>1, <1>7, <2>1 DEF SteadyOK
  <2>8. FetchChain(fetch', S)
    <3> HIDE DEF S
    <3> QED BY <1>6, <2>2, <2>4, <2>5 DEF FetchChain
  <2>9. ChainsOK'
    BY <1>1, <1>8, <2>1, <2>8, ChainsNow DEF ChainsOK
  <2> QED BY <2>6, <2>7, <2>9
<1> QED BY <1>9, <1>10

(* The fetch is cancelled, or fails. *)
LEMMA FetchDropped ==
    ASSUME PagesInv, UNCHANGED <<serverVars, root>>,
           pages' = Finally(pages), fetch' = NoFetch, refresh' \in Refreshes \cup {NoFetch},
           refresh' = refresh \/ refresh'.answer = None,
           steady' = [steady EXCEPT !["fetch"] = {}]
    PROVE  LoadTypes' /\ SteadyOK' /\ ChainsOK'
<1>1. PageTypes /\ LoadTypes /\ SteadyOK /\ ChainsOK /\ DeletedOK
  BY DEF PagesInv, PageTypes
<1>2. /\ pages' \in Seq(Page) /\ Cursor(pages') = Cursor(pages)
      /\ Ids(pages) \ overlay.deleted \subseteq Ids(pages')
  BY <1>1, FinallyIs DEF LoadTypes
<1>3. /\ steady' \in [{"pages", "fetch", "refresh"} -> SUBSET CommentIds]
      /\ steady'["pages"] = steady["pages"] /\ steady'["refresh"] = steady["refresh"]
      /\ steady'["fetch"] = {}
  BY <1>1 DEF LoadTypes
<1>4. LoadTypes'
  BY <1>1, <1>2, <1>3 DEF LoadTypes
<1>5. Available' = Available /\ DOMAIN steady = {"pages", "fetch", "refresh"}
  BY <1>1 DEF serverVars, Available, Shown, LoadTypes
<1>6. SteadyOK'
  BY <1>1, <1>3, <1>5 DEF SteadyOK
<1>7. Chain(pages', steady["pages"])
  <2>1. steady["pages"] \cap overlay.deleted = {}
    BY <1>1, <1>5, NotSteady DEF DeletedOK
  <2>2. Ids(pages) \cap steady["pages"] \subseteq Ids(pages')
    BY <1>2, <2>1
  <2> QED BY <1>1, <1>2, <2>2, ChainKept DEF ChainsOK
<1>8. RefreshChain(refresh', steady["refresh"])
  BY <1>1 DEF ChainsOK, RefreshChain
<1>9. ChainsOK'
  BY <1>3, <1>7, <1>8, FetchesIdle, ChainsNow
<1> QED BY <1>4, <1>6, <1>9

LEMMA RefreshServed ==
    ASSUME PagesInv, ServeRefresh
    PROVE  LoadTypes' /\ SteadyOK' /\ ChainsOK'
<1> DEFINE page == ReadPage(None)
<1>1. LoadTypes /\ SteadyOK /\ ChainsOK
  BY DEF PagesInv, PageTypes
<1>2. refresh \in Refreshes /\ refresh' = [refresh EXCEPT !.answer = page]
  BY <1>1 DEF ServeRefresh, LoadTypes, NoFetch
<1>3. page \in Page
  BY PageRead
<1>4. refresh' \in Refreshes /\ refresh'.answer = page
  <2> HIDE DEF page
  <2> QED BY <1>2, <1>3 DEF Refreshes
<1>5. Available' = Available /\ Available \subseteq CommentIds
  BY DEF ServeRefresh, serverVars, Available, Shown
<1>6. /\ steady' \in [{"pages", "fetch", "refresh"} -> SUBSET CommentIds]
      /\ steady'["fetch"] = steady["fetch"] /\ steady'["pages"] = steady["pages"]
      /\ steady'["refresh"] = Available
  BY <1>1, <1>5 DEF LoadTypes, ServeRefresh
<1>7. LoadTypes'
  BY <1>1, <1>4, <1>6 DEF LoadTypes, ServeRefresh
<1>8. SteadyOK'
  BY <1>1, <1>5, <1>6 DEF SteadyOK, LoadTypes
<1>9. Chain(<<page>>, Available)
  <2>1. \A c \in Available : c \in Found(None)
    BY <1>5, MaxIs DEF Found, Mark
  <2>2. Ids(<<page>>) = PageIds(page) /\ Cursor(<<page>>) = page.next
    <3> HIDE DEF page
    <3> QED BY <1>3 DEF Ids, Rows, PageIds, Cursor
  <2>3. ASSUME NEW c \in Found(None)
        PROVE  \/ c \in PageIds(page)
               \/ page.next # None /\ Before(page.next.last, c) /\ c <= page.next.mark
    BY PageRead
  <2> HIDE DEF page
  <2> QED BY <2>1, <2>2, <2>3 DEF Chain
<1>10. ChainsOK'
  <2>1. UNCHANGED <<root, pages, fetch>>
    BY DEF ServeRefresh
  <2>2. RefreshChain(refresh', Available)
    <3> HIDE DEF page
    <3> QED BY <1>4, <1>9 DEF RefreshChain
  <2> QED BY <1>1, <1>6, <2>1, <2>2, ChainsNow DEF ChainsOK
<1> QED BY <1>7, <1>8, <1>10

LEMMA RefreshSettled ==
    ASSUME PagesInv, SettleRefresh
    PROVE  LoadTypes' /\ SteadyOK' /\ ChainsOK'
<1> DEFINE page == Reconcile(refresh.answer, refresh.asked)
           S == steady["refresh"]
<1>1. PageTypes /\ LoadTypes /\ OverlayTypes /\ SteadyOK /\ ChainsOK /\ DeletedOK
  BY DEF PagesInv, PageTypes
<1>2. refresh.answer \in Page /\ refresh.asked \in Nat /\ refresh.kind # "idle" /\ refresh.answer # None
  BY <1>1 DEF SettleRefresh, LoadTypes, Refreshes, NoFetch
<1>3. page \in Page /\ page.next = refresh.answer.next
      /\ PageIds(page) = PageIds(refresh.answer) \ overlay.deleted
  BY <1>1, <1>2, Reconciled
<1>4. Available' = Available /\ DOMAIN steady = {"pages", "fetch", "refresh"}
      /\ S \subseteq CommentIds /\ S \subseteq Available /\ S \cap overlay.deleted = {}
  BY <1>1, NotSteady DEF SettleRefresh, serverVars, Available, Shown, LoadTypes, SteadyOK, DeletedOK
<1>5. /\ pages' = <<page>> /\ refresh' = NoFetch /\ UNCHANGED <<root, fetch>>
      /\ steady' = [steady EXCEPT !["pages"] = S, !["refresh"] = {}]
  BY DEF SettleRefresh
<1> HIDE DEF page, S
<1>6. /\ steady' \in [{"pages", "fetch", "refresh"} -> SUBSET CommentIds]
      /\ steady'["pages"] = S /\ steady'["refresh"] = {} /\ steady'["fetch"] = steady["fetch"]
  BY <1>1, <1>4, <1>5 DEF LoadTypes
<1>7. LoadTypes'
  BY <1>1, <1>3, <1>5, <1>6 DEF LoadTypes
<1>8. SteadyOK'
  BY <1>1, <1>4, <1>5, <1>6 DEF SteadyOK
<1>9. Chain(<<page>>, S)
  <2>1. Chain(<<refresh.answer>>, S)
    BY <1>1, <1>2 DEF ChainsOK, RefreshChain, S
  <2>2. \A p : p \in Page => Ids(<<p>>) = PageIds(p) /\ Cursor(<<p>>) = p.next
    BY DEF Ids, Rows, PageIds, Cursor
  <2>3. Ids(<<refresh.answer>>) \cap S \subseteq Ids(<<page>>) /\ Cursor(<<page>>) = Cursor(<<refresh.answer>>)
    BY <1>2, <1>3, <1>4, <2>2
  <2> QED BY <2>1, <2>3, ChainKept
<1>10. ChainsOK'
  BY <1>1, <1>5, <1>6, <1>9, FetchesIdle, ChainsNow DEF ChainsOK
<1> QED BY <1>7, <1>8, <1>10

LEMMA MoreLoaded ==
    ASSUME PagesInv, LoadMore
    PROVE  LoadTypes' /\ SteadyOK' /\ ChainsOK'
<1>1. PageTypes /\ LoadTypes /\ SteadyOK /\ ChainsOK
  BY DEF PagesInv, PageTypes
<1>2. Available' = Available /\ DOMAIN steady = {"pages", "fetch", "refresh"}
  BY <1>1 DEF LoadMore, serverVars, Available, Shown, LoadTypes
<1>3. overlay.revision \in Nat /\ Len(pages) + 1 \in Nat /\ overlay.revision # None
  BY <1>1, PagesAssumption DEF PageTypes, OverlayTypes, LoadTypes
<1>4. UNCHANGED <<root, pages, refresh>>
  BY DEF LoadMore
<1>5. ASSUME fetch' = Fetching("append", pages, Len(pages) + 1, overlay.revision),
             steady' = [steady EXCEPT !["fetch"] = steady["pages"]]
      PROVE  LoadTypes' /\ SteadyOK' /\ ChainsOK'
  <2>1. fetch' = [kind |-> "append", got |-> pages, left |-> Len(pages) + 1,
                  since |-> overlay.revision, asked |-> overlay.revision, answer |-> None]
    BY <1>5 DEF Fetching
  <2>2. fetch' \in Fetches
    BY <1>1, <1>3, <2>1 DEF Fetches, LoadTypes
  <2>3. /\ steady' \in [{"pages", "fetch", "refresh"} -> SUBSET CommentIds]
        /\ steady'["pages"] = steady["pages"] /\ steady'["refresh"] = steady["refresh"]
        /\ steady'["fetch"] = steady["pages"]
    BY <1>1, <1>5 DEF LoadTypes
  <2>4. LoadTypes' /\ SteadyOK'
    BY <1>1, <1>2, <1>4, <2>2, <2>3 DEF LoadTypes, SteadyOK
  <2>5. FetchChain(fetch', steady["pages"])
    BY <1>1, <1>3, <2>1 DEF FetchChain, ChainsOK, LoadMore
  <2>6. ChainsOK'
    BY <1>1, <1>4, <2>3, <2>5, ChainsNow DEF ChainsOK
  <2> QED BY <2>4, <2>6
<1>6. ASSUME fetch.kind = "refetch", fetch' = [fetch EXCEPT !.since = overlay.revision],
             UNCHANGED steady
      PROVE  LoadTypes' /\ SteadyOK' /\ ChainsOK'
  <2>1. fetch \in Fetches
    BY <1>1, <1>6 DEF LoadTypes, NoFetch
  <2>2. /\ fetch' \in Fetches /\ fetch'.kind = "refetch" /\ fetch'.got = fetch.got
        /\ fetch'.answer = fetch.answer
    BY <1>3, <1>6, <2>1 DEF Fetches
  <2>3. LoadTypes' /\ SteadyOK'
    BY <1>1, <1>2, <1>4, <1>6, <2>2 DEF LoadTypes, SteadyOK
  <2>4. FetchChain(fetch', steady["fetch"])
    BY <1>1, <1>6, <2>2 DEF FetchChain, ChainsOK
  <2>5. ChainsOK'
    BY <1>1, <1>4, <1>6, <2>4, ChainsNow DEF ChainsOK
  <2> QED BY <2>3, <2>5
<1> QED BY <1>5, <1>6 DEF LoadMore

LEMMA LoadStep ==
    ASSUME PagesInv, Load
    PROVE  LoadTypes' /\ SteadyOK' /\ ChainsOK'
<1>1. PageTypes /\ LoadTypes /\ SteadyOK /\ ChainsOK
  BY DEF PagesInv, PageTypes
<1>2. DOMAIN steady = {"pages", "fetch", "refresh"}
  BY <1>1 DEF LoadTypes
<1>3. CASE RetryLoad
  <2>1. Available' = Available
    BY <1>3 DEF RetryLoad, serverVars, Available, Shown
  <2>2. /\ pages' \in Seq(Page) /\ Cursor(pages') = Cursor(pages)
        /\ Ids(pages) \subseteq Ids(pages')
    BY <1>1, <1>3 DEF RetryLoad, LoadTypes
  <2>3. UNCHANGED <<root, refresh, steady>> /\ fetch' = Reread
    BY <1>3 DEF RetryLoad
  <2> QED BY <2>1, <2>2, <2>3, LoadsKept
<1>4. CASE FailFetch
  BY <1>1, <1>4, FetchDropped DEF FailFetch, LoadTypes
<1>5. CASE Refresh
  <2>1. overlay.revision \in Nat
    BY <1>1 DEF PageTypes, OverlayTypes
  <2>2. refresh' \in Refreshes /\ refresh'.answer = None
    BY <1>5, <2>1 DEF Refresh, Refreshes
  <2> QED BY <1>5, <2>2, FetchDropped DEF Refresh
<1>6. CASE FailRefresh
  <2>1. Available' = Available
    BY <1>6 DEF FailRefresh, serverVars, Available, Shown
  <2>2. UNCHANGED <<root, pages, fetch>> /\ refresh' = NoFetch
        /\ steady' = [steady EXCEPT !["refresh"] = {}]
    BY <1>6 DEF FailRefresh
  <2>3. /\ steady' \in [{"pages", "fetch", "refresh"} -> SUBSET CommentIds]
        /\ steady'["pages"] = steady["pages"] /\ steady'["fetch"] = steady["fetch"]
        /\ steady'["refresh"] = {}
    BY <1>1, <2>2 DEF LoadTypes
  <2>4. LoadTypes' /\ SteadyOK'
    BY <1>1, <2>1, <2>2, <2>3 DEF LoadTypes, SteadyOK
  <2>5. ChainsOK'
    BY <1>1, <2>2, <2>3, FetchesIdle, ChainsNow DEF ChainsOK
  <2> QED BY <2>4, <2>5
<1>7. CASE NewThread
  <2>1. UNCHANGED <<root, refresh>> /\ pages' = <<>>
        /\ steady' = [s \in DOMAIN steady |-> {}]
    BY <1>7 DEF NewThread
  <2>2. overlay.revision \in Nat
    BY <1>1 DEF PageTypes, OverlayTypes
  <2>3. fetch' = [kind |-> "refetch", got |-> <<>>, left |-> 1, since |-> None,
                  asked |-> overlay.revision, answer |-> None]
    BY <1>7 DEF NewThread, Fetching
  <2>4. fetch' \in Fetches /\ \A S : FetchChain(fetch', S)
    BY <2>2, <2>3 DEF Fetches, FetchChain
  <2>5. LoadTypes' /\ SteadyOK'
    BY <1>1, <1>2, <2>1, <2>4 DEF LoadTypes, SteadyOK
  <2>6. \A ps : Chain(ps, {})
    BY DEF Chain
  <2>7. ChainsOK'
    BY <1>2, <2>1, <2>4, <2>6, ChainsNow DEF RefreshChain
  <2> QED BY <2>5, <2>7
<1> QED BY <1>3, <1>4, <1>5, <1>6, <1>7, MoreLoaded, FetchServed, FetchSettled, RefreshServed,
           RefreshSettled DEF Load

-----------------------------------------------------------------------------
(* Calls *)

LEMMA DeletedStays ==
    ASSUME PagesInv, [ServerNext]_serverVars,
           \A c \in overlay'.deleted : c \in overlay.deleted \/ Removed(c)',
           \A c \in CommentIds : deleting'[c] # None /\ deleting'[c].answer # None =>
                                    deleting'[c] = deleting[c] \/ Removed(c)'
    PROVE  DeletedOK'
<1>1. ServerTypeOK /\ PageTypes /\ DeletedOK /\ overlay.deleted \subseteq CommentIds
  BY DEF PagesInv, PageTypes, OverlayTypes
<1>2. \A c \in CommentIds : Removed(c) => Removed(c)'
  BY <1>1, RemovedStays
<1>3. \A c \in overlay'.deleted : Removed(c)'
  BY <1>1, <1>2 DEF DeletedOK
<1>4. \A c \in CommentIds : deleting'[c] # None /\ deleting'[c].answer # None => Removed(c)'
  BY <1>1, <1>2 DEF DeletedOK
<1> QED BY <1>3, <1>4 DEF DeletedOK

LEMMA RowIs == \A c \in CommentIds : Row(c) \in Item /\ Row(c)' \in Item
BY DEF Row, Item

(* A reaction or a new comment is put into the overlay and the pages.      *)
LEMMA ReactionApplied ==
    ASSUME PageTypes, NEW item \in Item, ApplyReaction(item) \/ AddCreated(item)
    PROVE  /\ pages' \in Seq(Page) /\ Cursor(pages') = Cursor(pages)
           /\ Ids(pages) \subseteq Ids(pages')
           /\ OverlayTypes' /\ overlay'.deleted = overlay.deleted
<1>1. /\ InPages(item) \in Seq(Page) /\ Cursor(InPages(item)) = Cursor(pages)
      /\ Ids(pages) \subseteq Ids(InPages(item))
  BY InPagesIs
<1>2. pages' = pages \/ pages' = InPages(item)
  BY DEF ApplyReaction, AddCreated
<1>3. OverlayTypes /\ pages \in Seq(Page)
  BY DEF PageTypes, LoadTypes
<1>4. item.id \in CommentIds /\ item.liked \in BOOLEAN
  BY DEF Item
<1>5. CASE ApplyReaction(item) /\ overlay' # overlay
  <2> DEFINE rev == overlay.revision + 1
             mine == {IF m.id = item.id THEN item ELSE m : m \in overlay.mine}
             reactions == [overlay.reactions EXCEPT
                              ![item.id] = [liked |-> item.liked, revision |-> rev]]
  <2>1. overlay' = [overlay EXCEPT !.revision = rev, !.reactions = reactions, !.mine = mine]
    BY <1>3, <1>5 DEF ApplyReaction, OverlayTypes
  <2>2. rev \in Nat /\ mine \in SUBSET Item
    BY <1>3 DEF OverlayTypes
  <2>3. reactions \in [CommentIds -> [liked : BOOLEAN, revision : Nat] \cup {None}]
    BY <1>3, <1>4, <2>2 DEF OverlayTypes
  <2> HIDE DEF rev, mine, reactions
  <2> QED BY <1>1, <1>2, <1>3, <2>1, <2>2, <2>3 DEF OverlayTypes
<1>6. CASE AddCreated(item) /\ overlay' # overlay
  BY <1>1, <1>2, <1>3, <1>6 DEF AddCreated, OverlayTypes
<1>7. CASE overlay' = overlay
  BY <1>1, <1>2, <1>3, <1>7 DEF OverlayTypes
<1> QED BY <1>5, <1>6, <1>7

LEMMA CallTypesStep ==
    ASSUME CallTypes, Call
    PROVE  CallTypes'
<1> DEFINE Likes == [want : {"like", "unlike"}, answer : Item \cup {None}]
           Deletes == [want : {"delete"}, answer : {"deleted", None}]
           Creates == [want : {"create"}, answer : Item \cup {None}]
<1>1. CallTypes <=> /\ liking \in [CommentIds -> Likes \cup {None}]
                    /\ deleting \in [CommentIds -> Deletes \cup {None}]
                    /\ creating \in Creates \cup {None}
  BY DEF CallTypes
<1>2. CallTypes' <=> /\ liking' \in [CommentIds -> Likes \cup {None}]
                     /\ deleting' \in [CommentIds -> Deletes \cup {None}]
                     /\ creating' \in Creates \cup {None}
  BY DEF CallTypes
<1>3. /\ Ask("like") \in Likes /\ Ask("unlike") \in Likes /\ Ask("delete") \in Deletes
      /\ Ask("create") \in Creates
  BY DEF Ask
<1>4. \A a \in Item \cup {None} : /\ \A l \in Likes : [l EXCEPT !.answer = a] \in Likes
                                  /\ \A l \in Creates : [l EXCEPT !.answer = a] \in Creates
  OBVIOUS
<1>5. \A d \in Deletes : [d EXCEPT !.answer = "deleted"] \in Deletes
  OBVIOUS
<1> HIDE DEF Likes, Deletes, Creates
<1>6. ASSUME NEW c \in CommentIds,
             \/ PressCommentLike(c) \/ ServeCommentLike(c) \/ SettleCommentLike(c)
             \/ RefuseCommentLike(c) \/ LoseCommentLike(c)
      PROVE  CallTypes'
  <2>1. UNCHANGED <<deleting, creating>>
    BY <1>6 DEF PressCommentLike, ServeCommentLike, SettleCommentLike, RefuseCommentLike,
                LoseCommentLike
  <2>2. CASE PressCommentLike(c)
    BY <1>1, <1>2, <1>3, <2>1, <2>2 DEF PressCommentLike
  <2>3. CASE ServeCommentLike(c)
    <3>1. liking[c] \in Likes /\ liking' = [liking EXCEPT ![c].answer = Row(c)']
      BY <1>1, <2>3 DEF ServeCommentLike
    <3>2. [liking[c] EXCEPT !.answer = Row(c)'] \in Likes
      BY <1>4, <3>1, RowIs
    <3> QED BY <1>1, <1>2, <2>1, <3>1, <3>2
  <2>4. CASE liking' = [liking EXCEPT ![c] = None]
    BY <1>1, <1>2, <2>1, <2>4
  <2> QED BY <1>6, <2>2, <2>3, <2>4 DEF SettleCommentLike, RefuseCommentLike, LoseCommentLike
<1>7. ASSUME NEW c \in CommentIds,
             \/ PressCommentDelete(c) \/ ServeCommentDelete(c) \/ SettleCommentDelete(c)
             \/ RefuseCommentDelete(c) \/ LoseCommentDelete(c)
      PROVE  CallTypes'
  <2>1. UNCHANGED <<liking, creating>>
    BY <1>7 DEF PressCommentDelete, ServeCommentDelete, SettleCommentDelete,
                RefuseCommentDelete, LoseCommentDelete
  <2>2. CASE PressCommentDelete(c)
    BY <1>1, <1>2, <1>3, <2>1, <2>2 DEF PressCommentDelete
  <2>3. CASE ServeCommentDelete(c)
    <3>1. deleting[c] \in Deletes /\ deleting' = [deleting EXCEPT ![c].answer = "deleted"]
      BY <1>1, <2>3 DEF ServeCommentDelete
    <3>2. [deleting[c] EXCEPT !.answer = "deleted"] \in Deletes
      BY <1>5, <3>1
    <3> QED BY <1>1, <1>2, <2>1, <3>1, <3>2
  <2>4. CASE deleting' = [deleting EXCEPT ![c] = None]
    BY <1>1, <1>2, <2>1, <2>4
  <2> QED BY <1>7, <2>2, <2>3, <2>4 DEF SettleCommentDelete, RefuseCommentDelete, LoseCommentDelete
<1>8. ASSUME NEW c \in CommentIds, ServeCreate(c) PROVE CallTypes'
  <2>1. /\ creating \in Creates /\ creating' = [creating EXCEPT !.answer = Row(c)']
        /\ UNCHANGED <<liking, deleting>>
    BY <1>1, <1>8 DEF ServeCreate
  <2> QED BY <1>1, <1>2, <1>4, <2>1, RowIs
<1>9. CASE Submit \/ SettleCreate \/ LoseCreate
  BY <1>1, <1>2, <1>3, <1>9 DEF Submit, SettleCreate, LoseCreate
<1> QED BY <1>6, <1>7, <1>8, <1>9 DEF Call

(* A call is asked, refused, lost or settled: nothing on the server. *)
LEMMA TabSteps ==
    ASSUME PagesInv, UNCHANGED <<serverVars, root, refresh, steady>>, OverlayTypes',
           fetch' \in {fetch, NoFetch, Reread, Invalidated},
           pages' \in Seq(Page), Cursor(pages') = Cursor(pages),
           \A c \in Ids(pages) : c \in Ids(pages') \/ Removed(c),
           \A c \in overlay'.deleted : c \in overlay.deleted \/ Removed(c),
           \A c \in CommentIds : deleting'[c] # None /\ deleting'[c].answer # None =>
                                    deleting'[c] = deleting[c]
    PROVE  /\ root' \in CommentIds \cup {None} /\ OverlayTypes'
           /\ LoadTypes' /\ DeletedOK' /\ SteadyOK' /\ ChainsOK'
<1>1. Available' = Available /\ \A c : Removed(c)' <=> Removed(c)
  BY DEF serverVars, Available, Shown, Removed
<1>2. DeletedOK'
  BY <1>1, DeletedStays
<1> QED BY <1>1, <1>2, LoadsKept DEF PagesInv, PageTypes

LEMMA CallStep ==
    ASSUME PagesInv, Call, [ServerNext]_serverVars
    PROVE  /\ root' \in CommentIds \cup {None} /\ OverlayTypes'
           /\ LoadTypes' /\ DeletedOK' /\ SteadyOK' /\ ChainsOK'
<1> DEFINE Kept == /\ root' \in CommentIds \cup {None} /\ OverlayTypes'
                   /\ LoadTypes' /\ DeletedOK' /\ SteadyOK' /\ ChainsOK'
<1>1. /\ ServerTypeOK /\ PageTypes /\ LoadTypes /\ OverlayTypes /\ CallTypes /\ DeletedOK
      /\ root \in CommentIds \cup {None} /\ Me \in Users
  BY PagesAssumption DEF PagesInv, PageTypes
<1>2. /\ pages \in Seq(Page) /\ Finally(pages) \in Seq(Page)
      /\ Cursor(Finally(pages)) = Cursor(pages)
      /\ Ids(pages) \ overlay.deleted \subseteq Ids(Finally(pages))
      /\ \A c \in overlay.deleted : Removed(c)
  BY <1>1, FinallyIs DEF LoadTypes, DeletedOK
<1>3. ASSUME UNCHANGED <<root, overlay>> PROVE root' \in CommentIds \cup {None} /\ OverlayTypes'
  BY <1>1, <1>3 DEF OverlayTypes
<1>4. ASSUME UNCHANGED <<serverVars, root, refresh, overlay, steady>>,
             \/ UNCHANGED <<pages, fetch>>
             \/ pages' = Finally(pages) /\ fetch' = Invalidated,
             \A c \in CommentIds : deleting'[c] # None /\ deleting'[c].answer # None =>
                                      deleting'[c] = deleting[c]
      PROVE  Kept
  <2>1. /\ pages' \in Seq(Page) /\ Cursor(pages') = Cursor(pages)
        /\ \A c \in Ids(pages) : c \in Ids(pages') \/ Removed(c)
    BY <1>2, <1>4
  <2>2. fetch' \in {fetch, NoFetch, Reread, Invalidated}
    BY <1>4
  <2>3. \A c \in overlay'.deleted : c \in overlay.deleted \/ Removed(c)
    BY <1>4
  <2> QED BY <1>2, <1>3, <1>4, <2>1, <2>2, <2>3, TabSteps
<1>5. ASSUME NEW c \in CommentIds,
             \/ deleting' = deleting \/ deleting' = [deleting EXCEPT ![c] = None]
             \/ deleting' = [deleting EXCEPT ![c] = Ask("delete")]
      PROVE  \A d \in CommentIds : deleting'[d] # None /\ deleting'[d].answer # None =>
                                      deleting'[d] = deleting[d]
  BY <1>1, <1>5 DEF CallTypes, Ask
<1>6. ASSUME NEW c \in CommentIds,
             \/ PressCommentLike(c) \/ RefuseCommentLike(c) \/ LoseCommentLike(c)
             \/ PressCommentDelete(c) \/ RefuseCommentDelete(c) \/ LoseCommentDelete(c)
      PROVE  Kept
  <2>1. UNCHANGED <<serverVars, root, refresh, overlay, steady>>
    BY <1>6 DEF PressCommentLike, RefuseCommentLike, LoseCommentLike, PressCommentDelete,
                RefuseCommentDelete, LoseCommentDelete, loads
  <2>2. \/ UNCHANGED <<pages, fetch>>
        \/ pages' = Finally(pages) /\ fetch' = Invalidated
    BY <1>6 DEF PressCommentLike, RefuseCommentLike, LoseCommentLike, PressCommentDelete,
                RefuseCommentDelete, LoseCommentDelete, loads
  <2>3. \/ deleting' = deleting \/ deleting' = [deleting EXCEPT ![c] = None]
        \/ deleting' = [deleting EXCEPT ![c] = Ask("delete")]
    BY <1>6 DEF PressCommentLike, RefuseCommentLike, LoseCommentLike, PressCommentDelete,
                RefuseCommentDelete, LoseCommentDelete
  <2> QED BY <1>4, <1>5, <2>1, <2>2, <2>3
<1>7. CASE Submit \/ LoseCreate
  <2>1. UNCHANGED <<serverVars, root, refresh, overlay, steady, deleting>>
    BY <1>7 DEF Submit, LoseCreate, loads
  <2>2. \/ UNCHANGED <<pages, fetch>>
        \/ pages' = Finally(pages) /\ fetch' = Invalidated
    BY <1>7 DEF Submit, LoseCreate, loads
  <2> QED BY <1>4, <2>1, <2>2
<1>8. ASSUME NEW c \in CommentIds, ServeCommentLike(c) PROVE Kept
  <2>1. UNCHANGED <<root, pages, fetch, refresh, overlay, deleting, steady>>
    BY <1>8 DEF ServeCommentLike, loads
  <2>2. Available' = Available
    BY <1>1, <1>8, <2>1, ReactionKeepsAvailable DEF ServeCommentLike
  <2>3. DeletedOK'
    BY <2>1, DeletedStays
  <2>4. fetch' \in {fetch, NoFetch, Reread, Invalidated}
    BY <2>1
  <2>5. pages' \in Seq(Page) /\ Cursor(pages') = Cursor(pages) /\ Ids(pages) \subseteq Ids(pages')
    BY <1>2, <2>1
  <2>6. LoadTypes' /\ SteadyOK' /\ ChainsOK'
    BY <2>1, <2>2, <2>4, <2>5, LoadsKept
  <2> QED BY <1>3, <2>1, <2>3, <2>6
<1>9. ASSUME NEW c \in CommentIds, ServeCommentDelete(c) PROVE Kept
  <2>1. UNCHANGED <<root, pages, fetch, refresh, overlay>> /\ Narrow
    BY <1>9 DEF ServeCommentDelete, loads
  <2>2. Removed(c)'
    <3> DEFINE dead == {c} \cup (IF comments[c].parent = None THEN Replies(c) ELSE {})
    <3>1. dead \subseteq Shown /\ c \in dead /\ comments' = Hidden(dead)
      BY <1>9 DEF ServeCommentDelete, DeleteComment, Replies
    <3> HIDE DEF dead
    <3> QED BY <1>1, <3>1, HiddenRows DEF Removed
  <2>3. \A d \in CommentIds : deleting'[d] = deleting[d] \/ d = c
    BY <1>1, <1>9 DEF ServeCommentDelete, CallTypes
  <2>4. DeletedOK'
    BY <2>1, <2>2, <2>3, DeletedStays
  <2> QED BY <1>3, <2>1, <2>4, LoadsNarrowed
<1>10. ASSUME NEW c \in CommentIds, ServeCreate(c) PROVE Kept
  <2>1. UNCHANGED <<root, pages, fetch, refresh, overlay, deleting>> /\ Narrow
    BY <1>10 DEF ServeCreate, loads
  <2>2. DeletedOK'
    BY <2>1, DeletedStays
  <2> QED BY <1>3, <2>1, <2>2, LoadsNarrowed
<1>11. ASSUME NEW item \in Item, ApplyReaction(item) \/ AddCreated(item),
              UNCHANGED <<serverVars, root, refresh, steady, deleting>>,
              fetch' \in {fetch, NoFetch, Reread, Invalidated}
       PROVE  Kept
  <2>1. /\ pages' \in Seq(Page) /\ Cursor(pages') = Cursor(pages)
        /\ Ids(pages) \subseteq Ids(pages')
        /\ OverlayTypes' /\ overlay'.deleted = overlay.deleted
    BY <1>1, <1>11, ReactionApplied
  <2>2. \A c \in overlay'.deleted : c \in overlay.deleted \/ Removed(c)
    BY <2>1
  <2>3. \A c \in Ids(pages) : c \in Ids(pages') \/ Removed(c)
    BY <2>1
  <2>4. \A c \in CommentIds : deleting'[c] # None /\ deleting'[c].answer # None =>
                                 deleting'[c] = deleting[c]
    BY <1>11
  <2> QED BY <1>11, <2>1, <2>2, <2>3, <2>4, TabSteps
<1>12. ASSUME NEW c \in CommentIds, SettleCommentLike(c) PROVE Kept
  <2>1. liking[c].answer \in Item
    BY <1>1, <1>12 DEF SettleCommentLike, CallTypes
  <2> QED BY <1>11, <1>12, <2>1 DEF SettleCommentLike
<1>13. CASE SettleCreate
  <2>1. creating.answer \in Item
    BY <1>1, <1>13 DEF SettleCreate, CallTypes
  <2> QED BY <1>11, <1>13, <2>1 DEF SettleCreate
<1>14. ASSUME NEW c \in CommentIds, SettleCommentDelete(c) PROVE Kept
  <2>1. Removed(c)
    BY <1>1, <1>14 DEF SettleCommentDelete, DeletedOK
  <2>2. /\ pages' \in Seq(Page) /\ Cursor(pages') = Cursor(pages)
        /\ Ids(pages) \ {c} \subseteq Ids(pages')
        /\ OverlayTypes' /\ overlay'.deleted = overlay.deleted \cup {c}
    BY <1>1, <1>14, ForgetIs DEF SettleCommentDelete
  <2>3. \A d \in CommentIds : deleting'[d] # None /\ deleting'[d].answer # None =>
                                 deleting'[d] = deleting[d]
    <3>1. deleting' = [deleting EXCEPT ![c] = None]
      BY <1>14 DEF SettleCommentDelete
    <3> QED BY <1>5, <3>1
  <2>4. UNCHANGED <<serverVars, root, refresh, steady>>
        /\ fetch' \in {fetch, NoFetch, Reread, Invalidated}
    BY <1>14 DEF SettleCommentDelete
  <2>5. \A d \in Ids(pages) : d \in Ids(pages') \/ Removed(d)
    BY <2>1, <2>2
  <2>6. \A d \in overlay'.deleted : d \in overlay.deleted \/ Removed(d)
    BY <2>1, <2>2
  <2> QED BY <2>2, <2>3, <2>4, <2>5, <2>6, TabSteps
<1>15. ASSUME NEW c \in CommentIds,
              \/ PressCommentLike(c) \/ ServeCommentLike(c) \/ SettleCommentLike(c)
              \/ RefuseCommentLike(c) \/ LoseCommentLike(c)
              \/ PressCommentDelete(c) \/ ServeCommentDelete(c) \/ SettleCommentDelete(c)
              \/ RefuseCommentDelete(c) \/ LoseCommentDelete(c)
              \/ ServeCreate(c)
       PROVE  Kept
  <2> HIDE DEF Kept
  <2> QED BY <1>6, <1>8, <1>9, <1>10, <1>12, <1>14, <1>15
<1> QED BY <1>7, <1>13, <1>15 DEF Call

LEMMA OthersStep ==
    ASSUME PagesInv, OthersWrite, [ServerNext]_serverVars
    PROVE  PageTypes' /\ DeletedOK' /\ SteadyOK' /\ ChainsOK'
<1>1. PageTypes
  BY DEF PagesInv
<1>2. UNCHANGED <<root, pages, fetch, refresh, overlay, liking, deleting, creating>> /\ Narrow
  BY DEF OthersWrite, listVars, loads, calls
<1>3. LoadTypes' /\ SteadyOK' /\ ChainsOK'
  BY <1>2, LoadsNarrowed
<1>4. DeletedOK'
  BY <1>2, DeletedStays
<1>5. CallTypes' /\ OverlayTypes' /\ root' \in CommentIds \cup {None}
  BY <1>1, <1>2 DEF PageTypes, CallTypes, OverlayTypes
<1> QED BY <1>3, <1>4, <1>5 DEF PageTypes

LEMMA PagesStep == PagesInv /\ [PagesNext]_pagesVars => PagesInv'
<1> SUFFICES ASSUME PagesInv, [PagesNext]_pagesVars PROVE PagesInv'
  OBVIOUS
<1>1. ServerTypeOK /\ PageTypes
  BY DEF PagesInv
<1>2. [ServerNext]_serverVars
  BY <1>1, PagesServerMoves DEF PageTypes
<1>3. ServerTypeOK'
  BY <1>1, <1>2, TypeStep
<1>4. CASE Load
  <2>1. UNCHANGED <<root, overlay, liking, deleting, creating>>
    BY <1>4 DEF Load, LoadMore, RetryLoad, ServeFetch, SettleFetch, FailFetch, Refresh,
                ServeRefresh, SettleRefresh, FailRefresh, NewThread, calls
  <2>2. LoadTypes' /\ SteadyOK' /\ ChainsOK'
    BY <1>4, LoadStep
  <2>3. DeletedOK'
    BY <1>2, <2>1, DeletedStays
  <2>4. CallTypes' /\ OverlayTypes' /\ root' \in CommentIds \cup {None}
    BY <1>1, <2>1 DEF PageTypes, CallTypes, OverlayTypes
  <2> QED BY <1>3, <2>2, <2>3, <2>4 DEF PagesInv, PageTypes
<1>5. CASE Call
  <2>1. CallTypes'
    BY <1>1, <1>5, CallTypesStep DEF PageTypes
  <2> QED BY <1>2, <1>3, <1>5, <2>1, CallStep DEF PagesInv, PageTypes
<1>6. CASE OthersWrite
  BY <1>2, <1>3, <1>6, OthersStep DEF PagesInv
<1>7. CASE UNCHANGED pagesVars
  <2>1. UNCHANGED <<serverVars, root, pages, fetch, refresh, overlay, liking, deleting, creating,
                    steady>>
    BY <1>7 DEF pagesVars, listVars, loads, calls
  <2>2. DeletedOK'
    BY <1>2, <2>1, DeletedStays
  <2>3. PageTypes'
    BY <1>1, <2>1 DEF PageTypes, LoadTypes, CallTypes, OverlayTypes
  <2>4. SteadyOK' /\ ChainsOK'
    <3>1. Available' = Available /\ SteadyOK /\ ChainsOK
      BY <2>1 DEF serverVars, Available, Shown, PagesInv
    <3>2. SteadyOK'
      BY <2>1, <3>1 DEF SteadyOK
    <3>3. ChainsOK'
      BY <2>1, <3>1, ChainsNow DEF ChainsOK
    <3> QED BY <3>2, <3>3
  <2> QED BY <1>3, <2>2, <2>3, <2>4 DEF PagesInv
<1> QED BY <1>4, <1>5, <1>6, <1>7 DEF PagesNext

LEMMA PagesBegin == PagesInit => PagesInv /\ CountersMatch
<1> SUFFICES ASSUME PagesInit PROVE PagesInv /\ CountersMatch
  OBVIOUS
<1> DEFINE fresh(c) == Fresh(Author[c], IF c = root THEN None ELSE root)
           rows(W) == [c \in CommentIds |-> IF c \notin W THEN None ELSE fresh(c)]
<1>1. PICK W \in Written : /\ root \in {None, Thread} /\ (root # None => root \in W)
                           /\ ServerStart(rows(W))
  BY DEF PagesInit
<1>2. W \subseteq CommentIds /\ root \in CommentIds \cup {None}
  BY <1>1, PagesAssumption
<1>3. \A c \in CommentIds : /\ fresh(c) \in Comment /\ fresh(c).shown
                            /\ fresh(c).fans = {} /\ fresh(c).likes = 0
  BY <1>2, PagesAssumption DEF Fresh, Comment
<1>4. \A c \in CommentIds : fresh(c) # None
  BY <1>3, RowAssumption
<1> HIDE DEF fresh
<1>5. /\ comments \in [CommentIds -> Comment \cup {None}]
      /\ \A c \in CommentIds \ W : comments[c] = None
      /\ \A c \in W : comments[c] = fresh(c)
  BY <1>1, <1>2, <1>3 DEF ServerStart
<1>6. Shown = W
  BY <1>2, <1>3, <1>4, <1>5 DEF Shown
<1>7. counts = [g \in Groups |-> IF g = "comments" THEN Cardinality(W) ELSE 0]
      /\ Cardinality(W) \in Nat
  <2>1. {c \in CommentIds : rows(W)[c] # None} = W
    BY <1>2, <1>4
  <2>2. Cardinality(W) \in Nat
    <3>1. IsFiniteSet(W)
      BY <1>2, PollAssumption, FS_Subset
    <3> QED BY <3>1, FS_CardinalityType
  <2> QED BY <1>1, <2>1, <2>2 DEF ServerStart
<1>8. counts["votes"] = 0 /\ counts["likes"] = 0 /\ counts["comments"] = Cardinality(W)
      /\ counts \in [Groups -> Nat]
  BY <1>7 DEF Groups
<1>9. /\ ballot = [u \in Users |-> None] /\ tally = [o \in Options |-> 0] /\ fans = {}
      /\ revision = [g \in Groups |-> 0] /\ life = "live" /\ open = TRUE /\ active = Users
      /\ deletion = [u \in Users |-> "none"]
  BY <1>1 DEF ServerStart
<1>10. ServerTypeOK
  BY <1>5, <1>8, <1>9 DEF ServerTypeOK, Stages
<1>11. CountersMatch
  <2>1. {u \in Users : ballot[u] # None} = {}
    BY <1>9
  <2>2. \A o \in Options : {u \in Users : ballot[u] = o} = {} /\ tally[o] = 0
    BY <1>9, PollAssumption
  <2>3. Cardinality({}) = 0
    BY FS_EmptySet
  <2>4. \A c \in CommentIds : comments[c] # None => comments[c].likes = 0 /\ comments[c].fans = {}
    BY <1>3, <1>5
  <2>5. counts["comments"] = Cardinality(Shown) /\ Cardinality(Shown) \in Nat
    BY <1>6, <1>7, <1>8
  <2> HIDE DEF Shown, Untouched, BeingPurged
  <2>6. \A c \in CommentIds : comments[c] # None =>
           /\ comments[c].likes >= Cardinality(comments[c].fans)
           /\ comments[c].likes = Cardinality(comments[c].fans)
    BY <2>3, <2>4
  <2>7. counts["votes"] = Cardinality({u \in Users : ballot[u] # None})
    BY <1>8, <2>1, <2>3
  <2>8. \A o \in Options : tally[o] = Cardinality({u \in Users : ballot[u] = o})
    BY <2>2, <2>3
  <2>9. counts["likes"] = Cardinality(fans)
    BY <1>8, <1>9, <2>3
  <2>10. counts["comments"] <= Cardinality(Shown)
    BY <2>5
  <2> QED BY <2>5, <2>6, <2>7, <2>8, <2>9, <2>10 DEF CountersMatch
<1>12. /\ pages = <<>> /\ fetch = Reread /\ refresh = NoFetch
       /\ overlay = [mine |-> {}, revision |-> 0, deleted |-> {},
                     reactions |-> [c \in CommentIds |-> None]]
       /\ liking = [c \in CommentIds |-> None] /\ deleting = [c \in CommentIds |-> None]
       /\ creating = None /\ steady = [s \in {"pages", "fetch", "refresh"} |-> {}]
  BY DEF PagesInit
<1>13. OverlayTypes
  BY <1>12 DEF OverlayTypes
<1>14. CallTypes
  BY <1>12 DEF CallTypes
<1>15. fetch \in Fetches /\ FetchChain(fetch, {})
  <2>1. Larger(Len(pages), 1) = 1
    BY <1>12 DEF Larger
  <2>2. fetch = [kind |-> "refetch", got |-> <<>>, left |-> 1, since |-> None,
                 asked |-> 0, answer |-> None]
    BY <1>12, <2>1 DEF Reread, Fetching
  <2> QED BY <2>2 DEF Fetches, FetchChain
<1>16. LoadTypes
  BY <1>12, <1>15 DEF LoadTypes
<1>17. SteadyOK /\ ChainsOK
  <2>1. Chain(pages, {})
    BY DEF Chain
  <2> QED BY <1>12, <1>15, <2>1, FetchesIdle DEF SteadyOK, ChainsOK
<1>18. DeletedOK
  BY <1>12 DEF DeletedOK
<1> QED BY <1>2, <1>10, <1>11, <1>13, <1>14, <1>16, <1>17, <1>18 DEF PagesInv, PageTypes

(* The strengthening of Complete: every comment that has been available    *)
(* ever since the first page of a chain was read is on the pages of the    *)
(* chain or after its cursor, on the screen, in a fetch page by page and   *)
(* in a refresh; and what the session took for deleted is deleted on the   *)
(* server (comment-state.ts, pagination-state.ts, polls.repository.ts).    *)
THEOREM PagesInvariant == PagesSpec => []PagesInv
BY PagesBegin, PagesStep, PTL DEF PagesSpec

LEMMA ChainComplete == PagesInv => Complete
<1> SUFFICES ASSUME PagesInv, Cursor(pages) = None, NEW c \in steady["pages"]
             PROVE  c \in Displayed
  BY DEF Complete
<1>1. LoadTypes /\ ChainsOK /\ DeletedOK
  BY DEF PagesInv, PageTypes
<1>2. c \in Ids(pages)
  BY <1>1 DEF ChainsOK, Chain
<1>3. c \notin overlay.deleted
  BY <1>1, NotSteady DEF DeletedOK, LoadTypes
<1> QED BY <1>2, <1>3 DEF Displayed, Cached, Hides

(* Once the last page has come, no comment that was there all the time is  *)
(* missing from the list of the tab, for any number of comments, any size  *)
(* of a page, and any writes, reactions, refreshes and refetches between   *)
(* the pages (CommentList.tsx, CommentThread.tsx, listPollCommentRecords). *)
THEOREM NothingMissing == PagesSpec => []Complete
BY PagesInvariant, ChainComplete, PTL

(* The counters of the poll agree with its rows under the writes of the    *)
(* tab and of everyone else, from comments that were there before.         *)
THEOREM PagesCounted == PagesSpec => []CountersMatch
<1>1. PagesInv /\ CountersMatch /\ [PagesNext]_pagesVars => CountersMatch'
  BY PagesServerMoves, CountersStep DEF PagesInv, PageTypes
<1> QED BY <1>1, PagesBegin, PagesInvariant, PTL DEF PagesSpec

LEMMA ReactionsKept ==
    ASSUME PagesInv
    PROVE  /\ fetch.kind = "append" /\ SettleFetch =>
                 \A c \in Confirmed(fetch.since) \cap Ids(pages') : Shows(c, overlay.reactions[c])'
           /\ SettleRefresh =>
                 \A c \in Confirmed(refresh.asked) \cap Ids(pages') : Shows(c, overlay.reactions[c])'
<1>1. PageTypes /\ LoadTypes /\ OverlayTypes /\ ChainsOK
  BY DEF PagesInv, PageTypes
<1>2. ASSUME NEW since, NEW c \in Confirmed(since) \cap Ids(pages'), UNCHANGED overlay,
             \A item \in Rows(pages') : item.id \in Confirmed(since) =>
                 item = [id |-> item.id, liked |-> overlay.reactions[item.id].liked]
      PROVE  Shows(c, overlay.reactions[c])'
  <2>1. PICK item \in Rows(pages') : item.id = c
    BY <1>2 DEF Ids
  <2>2. item = [id |-> c, liked |-> overlay.reactions[c].liked]
    BY <1>2, <2>1
  <2>3. [id |-> c, liked |-> overlay'.reactions[c].liked] \in Rows(pages')
    BY <1>2, <2>1, <2>2
  <2> QED BY <2>3 DEF Shows
<1>3. ASSUME fetch.kind = "append", SettleFetch,
             NEW c \in Confirmed(fetch.since) \cap Ids(pages')
      PROVE  Shows(c, overlay.reactions[c])'
  <2> DEFINE page == Reconcile(fetch.answer, fetch.asked)
             got == Append(fetch.got, page)
  <2>1. /\ fetch.got \in Seq(Page) /\ fetch.answer \in Page /\ fetch.asked \in Nat
        /\ fetch.since \in Nat /\ fetch.since # None /\ fetch.left = Len(fetch.got) + 1
    BY <1>1, <1>3 DEF SettleFetch, LoadTypes, Fetches, NoFetch, ChainsOK, FetchChain
  <2>2. page \in Page
    BY <1>1, <2>1, Reconciled
  <2>3. got \in Seq(Page) /\ Len(got) = fetch.left
    <3> HIDE DEF page
    <3> QED BY <2>1, <2>2, IdsOf
  <2>4. pages' = ReconcileAll(got, fetch.since) /\ UNCHANGED overlay
    BY <1>3, <2>1, <2>3 DEF SettleFetch, Finally
  <2> HIDE DEF got
  <2>5. \A item \in Rows(pages') : item.id \in Confirmed(fetch.since) =>
            item = [id |-> item.id, liked |-> overlay.reactions[item.id].liked]
    BY <1>1, <2>1, <2>3, <2>4, AllReconciled
  <2> QED BY <1>2, <1>3, <2>4, <2>5
<1>4. ASSUME SettleRefresh, NEW c \in Confirmed(refresh.asked) \cap Ids(pages')
      PROVE  Shows(c, overlay.reactions[c])'
  <2> DEFINE page == Reconcile(refresh.answer, refresh.asked)
  <2>1. refresh.answer \in Page /\ refresh.asked \in Nat
    BY <1>1, <1>4 DEF SettleRefresh, LoadTypes, Refreshes, NoFetch
  <2>2. pages' = <<page>> /\ UNCHANGED overlay
    BY <1>4 DEF SettleRefresh
  <2>3. \A item \in page.items : item.id \in Confirmed(refresh.asked) =>
            item = [id |-> item.id, liked |-> overlay.reactions[item.id].liked]
    BY <1>1, <2>1, Reconciled
  <2> HIDE DEF page
  <2>4. Rows(pages') = page.items
    BY <2>2 DEF Rows
  <2> QED BY <1>2, <1>4, <2>2, <2>3, <2>4
<1> QED BY <1>3, <1>4

(* A like that the session saw confirmed survives the pages that were read *)
(* before it: finally reconcileCommentPageCache, and the reconciliation of *)
(* a refreshed first page, give the rows of an ended append or refresh the *)
(* reaction (comment-state.ts, CommentList.tsx).                           *)
THEOREM ReactionsStay == PagesSpec => AppendsKeepReactions
<1>1. PagesInv /\ [PagesNext]_pagesVars =>
        [/\ fetch.kind = "append" /\ SettleFetch =>
               \A c \in Confirmed(fetch.since) \cap Ids(pages') : Shows(c, overlay.reactions[c])'
         /\ SettleRefresh =>
               \A c \in Confirmed(refresh.asked) \cap Ids(pages') : Shows(c, overlay.reactions[c])'
        ]_pagesVars
  BY ReactionsKept
<1> QED BY <1>1, PagesInvariant, PTL DEF PagesSpec, AppendsKeepReactions
===============================================================================
