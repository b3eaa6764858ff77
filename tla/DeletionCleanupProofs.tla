------------------------- MODULE DeletionCleanupProofs -------------------------
(***************************************************************************)
(* Proofs about DeletionCleanup: the account's content is gone for good    *)
(* after the content step, the counters of polls are right, what others    *)
(* wrote under polls that stay is kept, and nothing names the account or   *)
(* its content once the users row is gone.  They hold for any rows, any    *)
(* size of a batch and whatever the others and a late worker do.           *)
(***************************************************************************)
EXTENDS DeletionCleanup, FiniteSetTheorems, TLAPS

Ids      == Comments \cup Spare
Counters == [vote : Nat, like : Nat, comments : Nat]
Rows     == [poll : Polls, author : Users, parent : Ids \cup {None}, shown : BOOLEAN,
             likes : Nat, replies : Nat]

PollRows ==
    /\ DOMAIN poll \subseteq Polls
    /\ poll \in [DOMAIN poll -> Counters]

CommentRows ==
    /\ IsFiniteSet(DOMAIN comment) /\ DOMAIN comment \subseteq Ids
    /\ comment \in [DOMAIN comment -> Rows]

(* A comment is on a poll that exists, under a parent on the same poll. *)
Threads ==
    \A c \in DOMAIN comment :
        /\ comment[c].poll \in DOMAIN poll
        /\ comment[c].parent # None =>
             /\ comment[c].parent \in DOMAIN comment
             /\ comment[comment[c].parent].poll = comment[c].poll

Relations ==
    /\ IsFiniteSet(marks) /\ marks \subseteq Users \X (DOMAIN poll) \X MarkKinds
    /\ IsFiniteSet(reactions) /\ reactions \subseteq Users \X (DOMAIN comment)

NoticeRows ==
    notices \subseteq [to : Users, from : Users \cup {None}, poll : DOMAIN poll \cup {None},
                       comment : DOMAIN comment \cup {None}]

Progress ==
    /\ at \in Nat /\ cursor \in Nat /\ acts \in Nat
    /\ touched \subseteq ({"poll"} \X Polls) \cup ({"comment"} \X Ids)
    /\ reading # None => /\ reading.poll \in Polls
                         /\ \A c \in DOMAIN reading.likes : reading.likes[c] \in Nat

(* The types of the variables and the foreign keys. *)
Social == PollRows /\ CommentRows /\ Threads /\ Relations /\ NoticeRows
Types == Social /\ Progress

(* The recount goes through the polls upwards: the account's marks are     *)
(* above the cursor, and none is left when no poll is.                     *)
MarksAhead ==
    /\ \A x \in OwnMarks : x[2] > cursor
    /\ reading # None => \A x \in OwnMarks : x[2] >= reading.poll
    /\ at > Relationships => OwnMarks = {} /\ OwnReactions = {}

(* Polls where the account has no comment left, or never had one, are      *)
(* counted rightly; the recount with the last batch repairs the others.    *)
MarksRight == \A p \in DOMAIN poll, m \in MarkKinds : poll[p][m] = MarkCount(p, m)
CommentsRight ==
    \A p \in DOMAIN poll : OwnComments(p) = {} => poll[p].comments = CommentCount(p)
CountersRight == MarksRight /\ CommentsRight

(* The target of a report exists or was remembered when it was deleted,    *)
(* and exists once the check for remainders was passed.                    *)
Live(t) == t \in ({"poll"} \X (DOMAIN poll)) \cup ({"comment"} \X (DOMAIN comment))
ReportsNamed ==
    /\ \A t \in reports : Live(t) \/ t \in doomed
    /\ at >= Counts \/ ~userRow => \A t \in reports : Live(t)

(* No notification of a user who is gone comes back. *)
NoticesGone ==
    ~userRow => at >= Residual /\ \A n \in notices : Account \notin {n.to, n.from}

Inv == /\ Types /\ ContentStaysGone /\ MarksAhead /\ CountersRight /\ ReportsNamed
       /\ NoticesGone

-----------------------------------------------------------------------------
(* The operators of the model *)

LEMMA MaxZero ==
    ASSUME NEW n \in Nat
    PROVE  Max({n - 1, 0}) = (IF n = 0 THEN 0 ELSE n - 1)
<1> DEFINE m == IF n = 0 THEN 0 ELSE n - 1
<1>1. m \in {n - 1, 0} /\ \A y \in {n - 1, 0} : m >= y
  OBVIOUS
<1>2. \A x \in {n - 1, 0} : (\A y \in {n - 1, 0} : x >= y) => x = m
  OBVIOUS
<1> HIDE DEF m
<1>3. Max({n - 1, 0}) = m
  BY <1>1, <1>2 DEF Max
<1> QED
  BY <1>3 DEF m

LEMMA PortionSubsets == \A S : \A P \in Portion(S) : P \subseteq S
BY DEF Portion, kSubset

LEMMA CountType ==
    ASSUME NEW S, IsFiniteSet(S), NEW T, T \subseteq S
    PROVE  IsFiniteSet(T) /\ Cardinality(T) \in Nat
BY FS_Subset, FS_CardinalityType

(* A row added to a finite set, or taken from it, moves its cardinality by *)
(* one.                                                                    *)
LEMMA CountAdded ==
    ASSUME NEW S, IsFiniteSet(S), NEW x, x \notin S
    PROVE  Cardinality(S \cup {x}) = Cardinality(S) + 1
BY FS_AddElement

LEMMA CountRemoved ==
    ASSUME NEW S, IsFiniteSet(S), NEW x, x \in S
    PROVE  Cardinality(S) # 0 /\ Cardinality(S \ {x}) = Cardinality(S) - 1
BY FS_RemoveElement, FS_EmptySet

(* The number of comments that a poll shows by a table of comments. *)
ShownIn(table, p) == {c \in DOMAIN table : table[c].poll = p /\ table[c].shown
                                           /\ table[c].author # Account}

(* What the recount of a foreign poll writes: the rows of the table, but   *)
(* for numbers of replies, and the number of comments shown.               *)
LEMMA RecountRows ==
    ASSUME PollRows, NEW p \in DOMAIN poll, NEW table, NEW S,
           IsFiniteSet(DOMAIN table), table \in [DOMAIN table -> Rows],
           RecountForeignPoll(p, table, S)
    PROVE  /\ DOMAIN comment' = DOMAIN table /\ comment' \in [DOMAIN table -> Rows]
           /\ \A c \in DOMAIN table :
                 /\ comment'[c].poll = table[c].poll /\ comment'[c].author = table[c].author
                 /\ comment'[c].parent = table[c].parent
                 /\ comment'[c].shown = table[c].shown
           /\ PollRows' /\ DOMAIN poll' = DOMAIN poll
           /\ poll'[p].comments = Cardinality(ShownIn(table, p))
           /\ \A m \in MarkKinds : poll'[p][m] = poll[p][m]
           /\ \A q \in DOMAIN poll \ {p} : poll'[q] = poll[q]
<1> DEFINE shown(T)   == Cardinality({c \in T : table[c].shown /\ table[c].author # Account})
           replies(c) == {r \in DOMAIN table : table[r].parent = c}
           on == {c \in DOMAIN table : table[c].poll = p}
           row(c) == IF table[c].poll = p /\ c \in S
                     THEN [table[c] EXCEPT !.replies = shown(replies(c))] ELSE table[c]
<1>1. \A c : shown(replies(c)) \in Nat
  BY CountType
<1>2. shown(on) \in Nat
  BY CountType
<1>3. {c \in on : table[c].shown /\ table[c].author # Account} = ShownIn(table, p)
  BY DEF ShownIn
<1>4. comment' = [c \in DOMAIN table |-> row(c)]
  BY DEF RecountForeignPoll
<1>5. poll' = [poll EXCEPT ![p].comments = shown(on)]
  BY DEF RecountForeignPoll
<1>6. ASSUME NEW c \in DOMAIN table
      PROVE  /\ row(c) \in Rows
             /\ row(c).poll = table[c].poll /\ row(c).author = table[c].author
             /\ row(c).parent = table[c].parent /\ row(c).shown = table[c].shown
  <2>1. table[c] \in Rows
    OBVIOUS
  <2>2. shown(replies(c)) \in Nat
    BY <1>1
  <2> HIDE DEF shown, replies
  <2> QED
    BY <2>1, <2>2 DEF Rows
<1>7. \A n \in Nat : [poll[p] EXCEPT !.comments = n] \in Counters
  BY DEF PollRows, Counters
<1> HIDE DEF row
<1>8. /\ DOMAIN comment' = DOMAIN table /\ comment' \in [DOMAIN table -> Rows]
      /\ \A c \in DOMAIN table : comment'[c] = row(c)
  BY <1>4, <1>6
<1> HIDE DEF shown, on
<1>9. /\ DOMAIN poll' = DOMAIN poll /\ poll' \in [DOMAIN poll -> Counters]
      /\ \A q \in DOMAIN poll \ {p} : poll'[q] = poll[q]
      /\ poll'[p] = [poll[p] EXCEPT !.comments = shown(on)]
  BY <1>2, <1>5, <1>7 DEF PollRows
<1>10. poll'[p].comments = shown(on) /\ \A m \in MarkKinds : poll'[p][m] = poll[p][m]
  BY <1>9 DEF PollRows, Counters, MarkKinds
<1> USE DEF shown
<1>11. poll'[p].comments = Cardinality(ShownIn(table, p))
  BY <1>3, <1>10
<1> QED
  BY <1>6, <1>8, <1>9, <1>10, <1>11 DEF PollRows

(* Comments of polls that stay, fewer of them or under other parents. *)
LEMMA RowFields ==
    ASSUME CommentRows, NEW c \in DOMAIN comment
    PROVE  /\ comment[c] \in Rows
           /\ \A q \in Ids \cup {None} : [comment[c] EXCEPT !.parent = q] \in Rows
           /\ \A q : /\ [comment[c] EXCEPT !.parent = q].parent = q
                     /\ [comment[c] EXCEPT !.parent = q].poll = comment[c].poll
                     /\ [comment[c] EXCEPT !.parent = q].author = comment[c].author
                     /\ [comment[c] EXCEPT !.parent = q].shown = comment[c].shown
           /\ [comment[c] EXCEPT !.shown = FALSE] \in Rows
           /\ ~[comment[c] EXCEPT !.shown = FALSE].shown
           /\ [comment[c] EXCEPT !.shown = FALSE].poll = comment[c].poll
           /\ [comment[c] EXCEPT !.shown = FALSE].author = comment[c].author
           /\ [comment[c] EXCEPT !.shown = FALSE].parent = comment[c].parent
<1>1. comment[c] \in Rows
  BY DEF CommentRows
<1> QED
  BY <1>1 DEF Rows

LEMMA LikesFields ==
    ASSUME CommentRows, NEW c \in DOMAIN comment, NEW n \in Nat
    PROVE  /\ [comment[c] EXCEPT !.likes = n] \in Rows
           /\ [comment[c] EXCEPT !.likes = n].poll = comment[c].poll
           /\ [comment[c] EXCEPT !.likes = n].author = comment[c].author
           /\ [comment[c] EXCEPT !.likes = n].parent = comment[c].parent
           /\ [comment[c] EXCEPT !.likes = n].shown = comment[c].shown
<1>1. comment[c] \in Rows
  BY DEF CommentRows
<1> QED
  BY <1>1 DEF Rows

(* The notifications keep their shape when keys are set to NULL. *)
Nulled(n, P, C) == [n EXCEPT !.poll = IF @ \in P THEN None ELSE @,
                             !.comment = IF @ \in C THEN None ELSE @]
LEMMA NoticeNulls ==
    ASSUME NoticeRows, NEW n \in notices, NEW P, NEW C
    PROVE  /\ Nulled(n, P, C).to = n.to /\ Nulled(n, P, C).from = n.from
           /\ Nulled(n, P, C) \in [to : Users, from : Users \cup {None},
                                   poll : (DOMAIN poll \ P) \cup {None},
                                   comment : (DOMAIN comment \ C) \cup {None}]
<1> DEFINE a == IF n.poll \in P THEN None ELSE n.poll
           b == IF n.comment \in C THEN None ELSE n.comment
<1>1. n \in [to : Users, from : Users \cup {None}, poll : DOMAIN poll \cup {None},
             comment : DOMAIN comment \cup {None}]
  BY DEF NoticeRows
<1>2. [n EXCEPT !.poll = a, !.comment = b]
        = [to |-> n.to, from |-> n.from, poll |-> a, comment |-> b]
  <2> HIDE DEF a, b
  <2>1. [n EXCEPT !.poll = a, !.comment = b] = [[n EXCEPT !.poll = a] EXCEPT !.comment = b]
    OBVIOUS
  <2>2. [n EXCEPT !.poll = a]
          = [to |-> n.to, from |-> n.from, poll |-> a, comment |-> n.comment]
    BY <1>1
  <2>3. [[to |-> n.to, from |-> n.from, poll |-> a, comment |-> n.comment]
           EXCEPT !.comment = b] = [to |-> n.to, from |-> n.from, poll |-> a, comment |-> b]
    OBVIOUS
  <2> QED
    BY <2>1, <2>2, <2>3
<1>3. Nulled(n, P, C) = [to |-> n.to, from |-> n.from, poll |-> a, comment |-> b]
  BY <1>2 DEF Nulled
<1> QED
  BY <1>1, <1>3

LEMMA CommentNulls ==
    ASSUME NoticeRows, NEW n \in notices, NEW C
    PROVE  LET m == [n EXCEPT !.comment = IF @ \in C THEN None ELSE @]
           IN  /\ m.to = n.to /\ m.from = n.from
               /\ m \in [to : Users, from : Users \cup {None}, poll : DOMAIN poll \cup {None},
                         comment : (DOMAIN comment \ C) \cup {None}]
<1>1. n \in [to : Users, from : Users \cup {None}, poll : DOMAIN poll \cup {None},
             comment : DOMAIN comment \cup {None}]
  BY DEF NoticeRows
<1> QED
  BY <1>1

-----------------------------------------------------------------------------
(* What the transactions of the content step do to the rows *)

(* Polls P and the comments C go, and everything that refers to them. *)
Drops(P, C) ==
    /\ DOMAIN poll' = DOMAIN poll \ P /\ \A q \in DOMAIN poll' : poll'[q] = poll[q]
    /\ DOMAIN comment' = DOMAIN comment \ C
    /\ \A c \in DOMAIN comment' : comment'[c] = comment[c]
    /\ marks' = {x \in marks : x[2] \notin P}
    /\ reactions' = {x \in reactions : x[2] \notin C}
(* The rows of comments keep their polls, authors and visibility. *)
KeepsRows(table) ==
    /\ DOMAIN table = DOMAIN comment
    /\ \A c \in DOMAIN comment : /\ table[c].poll = comment[c].poll
                                 /\ table[c].author = comment[c].author
                                 /\ table[c].shown = comment[c].shown
(* The recipients and senders of notifications are known ones. *)
NoNewPeople == \A n \in notices' : \E m \in notices : n.to = m.to /\ n.from = m.from

LEMMA DeletingOwnPolls ==
    ASSUME Social, DeleteOwnPolls
    PROVE  /\ Social' /\ NoNewPeople
           /\ \E P \in SUBSET OwnPolls : Drops(P, {c \in DOMAIN comment : comment[c].poll \in P})
<1> USE DEF Social
<1>1. PICK P \in Portion(OwnPolls) : DeleteRows(P, {})
  BY DEF DeleteOwnPolls
<1>2. P \in SUBSET OwnPolls
  BY <1>1, PortionSubsets
<1> DEFINE C == {c \in DOMAIN comment : comment[c].poll \in P}
           dead == {} \cup {c \in DOMAIN comment : \/ comment[c].poll \in P
                                                   \/ comment[c].parent \in {}}
           null(n) == Nulled(n, P, dead)
<1>3. dead = C
  OBVIOUS
<1>4. /\ poll' = Restrict(poll, DOMAIN poll \ P)
      /\ comment' = Restrict(comment, DOMAIN comment \ dead)
      /\ marks' = {x \in marks : x[2] \notin P}
      /\ reactions' = {x \in reactions : x[2] \notin dead}
      /\ notices' = {null(n) : n \in notices}
  BY <1>1 DEF DeleteRows, Nulled
<1> HIDE DEF dead
<1>5. \A n \in notices :
         /\ null(n).to = n.to /\ null(n).from = n.from
         /\ null(n) \in [to : Users, from : Users \cup {None},
                         poll : (DOMAIN poll \ P) \cup {None},
                         comment : (DOMAIN comment \ dead) \cup {None}]
  BY NoticeNulls
<1> HIDE DEF null
<1>6. Drops(P, C)
  BY <1>3, <1>4 DEF Drops, Restrict
<1>7. NoticeRows' /\ NoNewPeople
  <2>1. DOMAIN poll' = DOMAIN poll \ P /\ DOMAIN comment' = DOMAIN comment \ dead
    BY <1>4 DEF Restrict
  <2> QED
    BY <1>4, <1>5, <2>1 DEF NoticeRows, NoNewPeople
<1>8. PollRows'
  BY <1>4 DEF PollRows, Restrict
<1>9. CommentRows'
  <2>1. IsFiniteSet(DOMAIN comment \ dead)
    BY FS_Subset DEF CommentRows
  <2> QED
    BY <1>4, <2>1 DEF CommentRows, Restrict
<1>10. Threads'
  BY <1>6 DEF Threads, Drops
<1>11. Relations'
  <2>1. IsFiniteSet(marks') /\ IsFiniteSet(reactions')
    BY <1>4, FS_Subset DEF Relations
  <2>2. marks' \subseteq Users \X (DOMAIN poll \ P) \X MarkKinds
    BY <1>4 DEF Relations
  <2>3. reactions' \subseteq Users \X (DOMAIN comment \ C)
    BY <1>3, <1>4 DEF Relations
  <2> QED
    BY <1>6, <2>1, <2>2, <2>3 DEF Relations, Drops
<1> QED
  BY <1>2, <1>6, <1>7, <1>8, <1>9, <1>10, <1>11

LEMMA RemovingReactions ==
    ASSUME Social, NEW p, RemoveReactions(p)
    PROVE  /\ Social' /\ UNCHANGED <<poll, comment, marks, notices>>
           /\ reactions' \subseteq reactions
<1> USE DEF Social
<1>1. UNCHANGED <<poll, comment, marks, notices>> /\ reactions' \subseteq reactions
  BY DEF RemoveReactions
<1>2. Relations'
  BY <1>1, FS_Subset DEF Relations
<1> QED
  BY <1>1, <1>2 DEF PollRows, CommentRows, Threads, NoticeRows

LEMMA DetachingParents ==
    ASSUME Social, NEW p, DetachParents(p)
    PROVE  Social' /\ UNCHANGED <<poll, marks, reactions, notices>> /\ KeepsRows(comment')
<1> USE DEF Social
<1>1. PICK C \in Portion(Attached(p)) :
         comment' = [c \in DOMAIN comment |->
                       IF c \in C THEN [comment[c] EXCEPT !.parent = None] ELSE comment[c]]
  BY DEF DetachParents
<1>2. UNCHANGED <<poll, marks, reactions, notices>>
  BY DEF DetachParents
<1>3. \A c \in DOMAIN comment :
         /\ [comment[c] EXCEPT !.parent = None] \in Rows
         /\ [comment[c] EXCEPT !.parent = None].parent = None
         /\ [comment[c] EXCEPT !.parent = None].poll = comment[c].poll
         /\ [comment[c] EXCEPT !.parent = None].author = comment[c].author
         /\ [comment[c] EXCEPT !.parent = None].shown = comment[c].shown
  BY RowFields
<1>4. DOMAIN comment' = DOMAIN comment /\ comment' \in [DOMAIN comment -> Rows]
  BY <1>1, <1>3 DEF CommentRows
<1>5. /\ KeepsRows(comment')
      /\ \A c \in DOMAIN comment : comment'[c].parent \in {None, comment[c].parent}
  BY <1>1, <1>3 DEF KeepsRows
<1>6. CommentRows' /\ Threads'
  BY <1>2, <1>4, <1>5 DEF CommentRows, Threads, KeepsRows
<1> QED
  BY <1>2, <1>4, <1>5, <1>6 DEF PollRows, Relations, NoticeRows

LEMMA ReparentingReplies ==
    ASSUME Social, NEW p \in DOMAIN poll, ReparentReplies(p)
    PROVE  /\ Social' /\ UNCHANGED <<marks, reactions, notices>> /\ KeepsRows(comment')
           /\ DOMAIN poll' = DOMAIN poll
           /\ poll'[p].comments = Cardinality(ShownIn(comment, p))
           /\ \A q \in DOMAIN poll, m \in MarkKinds : poll'[q][m] = poll[q][m]
           /\ \A q \in DOMAIN poll \ {p} : poll'[q] = poll[q]
           /\ touched' \subseteq touched \cup TouchedNow \cup ({"comment"} \X DOMAIN comment)
<1> USE DEF Social
<1>1. PICK C \in Portion(Orphans(p)) :
         LET found == {Survivor(c) : c \in C} \ {None}
             table == [c \in DOMAIN comment |->
                         IF c \in C THEN [comment[c] EXCEPT !.parent = Survivor(c)]
                         ELSE comment[c]]
         IN  /\ touched' = touched \cup TouchedNow \cup ({"comment"} \X found)
             /\ RecountForeignPoll(p, table, Listed("comment", touched \cup TouchedNow) \cup found)
  BY DEF ReparentReplies
<1> DEFINE table == [c \in DOMAIN comment |->
                       IF c \in C THEN [comment[c] EXCEPT !.parent = Survivor(c)]
                       ELSE comment[c]]
<1>2. UNCHANGED <<marks, reactions, notices>>
  BY DEF ReparentReplies
<1>3. C \subseteq Orphans(p)
  BY PortionSubsets
<1>4. ASSUME NEW c \in C, Survivor(c) # None
      PROVE  /\ Survivor(c) \in DOMAIN comment
             /\ comment[Survivor(c)].poll = comment[c].poll
  <2>1. c \in DOMAIN comment /\ comment[c].parent \in DOMAIN comment
        /\ comment[comment[c].parent].poll = comment[c].poll
    <3>1. c \in DOMAIN comment /\ comment[c].parent \in DOMAIN comment
      BY <1>3 DEF Orphans, CommentsOn, By
    <3>2. comment[c].parent # None
      BY <3>1, RowsAssumption DEF CommentRows, Ids
    <3> QED
      BY <3>1, <3>2 DEF Threads
  <2>2. Survivor(c) = comment[comment[c].parent].parent
    BY <1>4 DEF Survivor
  <2> QED
    BY <1>4, <2>1, <2>2 DEF Threads
<1>5. ASSUME NEW c \in DOMAIN comment
      PROVE  /\ table[c] \in Rows
             /\ table[c].poll = comment[c].poll /\ table[c].author = comment[c].author
             /\ table[c].shown = comment[c].shown
             /\ table[c].parent = IF c \in C THEN Survivor(c) ELSE comment[c].parent
  <2>1. comment[c] \in Rows
    BY DEF CommentRows
  <2>2. CASE c \in C
    <3>1. Survivor(c) \in Ids \cup {None}
      BY <1>4, <2>2 DEF CommentRows
    <3> DEFINE q == Survivor(c)
    <3>2. table[c] = [comment[c] EXCEPT !.parent = q]
      BY <2>2
    <3> HIDE DEF q, table
    <3>3. q \in Ids \cup {None}
      BY <3>1 DEF q
    <3>4. /\ table[c] \in Rows /\ table[c].parent = q
          /\ table[c].poll = comment[c].poll /\ table[c].author = comment[c].author
          /\ table[c].shown = comment[c].shown
      BY <2>1, <3>2, <3>3 DEF Rows
    <3> QED
      BY <2>2, <3>4 DEF q
  <2>3. CASE c \notin C
    BY <2>1, <2>3
  <2> QED
    BY <2>2, <2>3
<1>6. DOMAIN table = DOMAIN comment
  OBVIOUS
<1>7. \E S : RecountForeignPoll(p, table, S)
  BY <1>1
<1> HIDE DEF table
<1>8. IsFiniteSet(DOMAIN table) /\ table \in [DOMAIN table -> Rows]
  <2>1. table = [c \in DOMAIN table |-> table[c]]
    BY DEF table
  <2> QED
    BY <1>5, <1>6, <2>1 DEF CommentRows
<1>9. /\ DOMAIN comment' = DOMAIN table /\ comment' \in [DOMAIN table -> Rows]
      /\ \A c \in DOMAIN table :
            /\ comment'[c].poll = table[c].poll /\ comment'[c].author = table[c].author
            /\ comment'[c].parent = table[c].parent /\ comment'[c].shown = table[c].shown
      /\ PollRows' /\ DOMAIN poll' = DOMAIN poll
      /\ poll'[p].comments = Cardinality(ShownIn(table, p))
      /\ \A m \in MarkKinds : poll'[p][m] = poll[p][m]
      /\ \A q \in DOMAIN poll \ {p} : poll'[q] = poll[q]
  BY <1>7, <1>8, RecountRows
<1>10. ShownIn(table, p) = ShownIn(comment, p)
  BY <1>5, <1>6 DEF ShownIn
<1>11. KeepsRows(comment') /\ CommentRows'
  BY <1>5, <1>6, <1>9 DEF KeepsRows, CommentRows
<1>12. Threads'
  <2> SUFFICES ASSUME NEW c \in DOMAIN comment
               PROVE  /\ comment'[c].poll \in DOMAIN poll
                      /\ comment'[c].parent # None =>
                            /\ comment'[c].parent \in DOMAIN comment
                            /\ comment'[comment'[c].parent].poll = comment'[c].poll
    BY <1>6, <1>9 DEF Threads
  <2>1. comment'[c].parent = (IF c \in C THEN Survivor(c) ELSE comment[c].parent)
        /\ comment'[c].poll = comment[c].poll
    BY <1>5, <1>6, <1>9
  <2>2. comment'[c].parent # None =>
            /\ comment'[c].parent \in DOMAIN comment
            /\ comment[comment'[c].parent].poll = comment[c].poll
    BY <1>4, <2>1 DEF Threads
  <2> QED
    BY <1>5, <1>6, <1>9, <2>1, <2>2 DEF Threads
<1>13. Relations' /\ NoticeRows'
  BY <1>2, <1>6, <1>9 DEF Relations, NoticeRows
<1>14. touched' \subseteq touched \cup TouchedNow \cup ({"comment"} \X DOMAIN comment)
  BY <1>1, <1>4
<1> QED
  BY <1>2, <1>9, <1>10, <1>11, <1>12, <1>13, <1>14

(* With no foreign reply left below them, only the account's comments go;  *)
(* and they go alone, because none of them is a reply any more.            *)
LEMMA DeletingComments ==
    ASSUME Social, NEW p \in DOMAIN poll, Orphans(p) = {}, Attached(p) = {}, DeleteComments(p)
    PROVE  /\ Social' /\ NoNewPeople /\ UNCHANGED marks
           /\ DOMAIN poll' = DOMAIN poll
           /\ DOMAIN comment' \subseteq DOMAIN comment
           /\ DOMAIN comment \ DOMAIN comment' \subseteq OwnComments(p)
           /\ \A c \in DOMAIN comment' : /\ comment'[c].poll = comment[c].poll
                                         /\ comment'[c].author = comment[c].author
                                         /\ comment'[c].shown = comment[c].shown
           /\ reactions' \subseteq reactions
           /\ poll'[p].comments = Cardinality(ShownIn(comment', p))
           /\ \A q \in DOMAIN poll, m \in MarkKinds : poll'[q][m] = poll[q][m]
           /\ \A q \in DOMAIN poll \ {p} : poll'[q] = poll[q]
<1> USE DEF Social
<1>1. PICK C \in Portion(OwnComments(p)) :
         LET dead  == C \cup UNION {RepliesTo(c) : c \in C}
             table == Restrict(comment, DOMAIN comment \ dead)
         IN  /\ RecountForeignPoll(p, table, Listed("comment", touched \cup TouchedNow))
             /\ reactions' = {x \in reactions : x[2] \notin dead}
             /\ notices' = {[n EXCEPT !.comment = IF @ \in dead THEN None ELSE @] : n \in notices}
  BY DEF DeleteComments
<1>2. UNCHANGED marks
  BY DEF DeleteComments
<1> DEFINE dead == C \cup UNION {RepliesTo(c) : c \in C}
           table == Restrict(comment, DOMAIN comment \ dead)
           null(n) == [n EXCEPT !.comment = IF @ \in dead THEN None ELSE @]
<1>3. C \subseteq OwnComments(p)
  BY PortionSubsets
<1>4. ASSUME NEW c \in C
      PROVE  RepliesTo(c) = {}
  <2> SUFFICES ASSUME NEW r \in RepliesTo(c) PROVE FALSE
    OBVIOUS
  <2>1. /\ r \in DOMAIN comment /\ comment[r].parent = c /\ c \in DOMAIN comment
        /\ comment[c].poll = p /\ c \in By(Account)
    BY <1>3 DEF RepliesTo, OwnComments, CommentsOn, By
  <2>2. c # None
    BY <2>1, RowsAssumption DEF CommentRows, Ids
  <2>3. comment[r].poll = p
    BY <2>1, <2>2 DEF Threads
  <2>4. r \in Orphans(p) \/ r \in Attached(p)
    BY <2>1, <2>2, <2>3 DEF Orphans, Attached, OwnComments, CommentsOn, By
  <2> QED
    BY <2>4
<1>5. dead = C
  BY <1>4
<1>6. C \subseteq DOMAIN comment
  BY <1>3 DEF OwnComments, CommentsOn
<1>7. \A c \in DOMAIN comment : comment[c].parent \notin C
  BY <1>4 DEF RepliesTo
<1>8. \E S : RecountForeignPoll(p, table, S)
  BY <1>1
<1>9. /\ reactions' = {x \in reactions : x[2] \notin dead}
      /\ notices' = {null(n) : n \in notices}
  BY <1>1
<1>10. \A n \in notices :
          /\ null(n).to = n.to /\ null(n).from = n.from
          /\ null(n) \in [to : Users, from : Users \cup {None}, poll : DOMAIN poll \cup {None},
                          comment : (DOMAIN comment \ dead) \cup {None}]
  BY CommentNulls
<1>11. DOMAIN table = DOMAIN comment \ dead /\ \A c \in DOMAIN table : table[c] = comment[c]
  BY DEF Restrict
<1>12. IsFiniteSet(DOMAIN table) /\ table \in [DOMAIN table -> Rows]
  <2>1. table = [c \in DOMAIN comment \ dead |-> comment[c]]
    BY DEF Restrict
  <2> QED
    BY <1>11, <2>1, FS_Subset DEF CommentRows
<1> HIDE DEF table, null, dead
<1>13. /\ DOMAIN comment' = DOMAIN table /\ comment' \in [DOMAIN table -> Rows]
       /\ \A c \in DOMAIN table :
             /\ comment'[c].poll = table[c].poll /\ comment'[c].author = table[c].author
             /\ comment'[c].parent = table[c].parent /\ comment'[c].shown = table[c].shown
       /\ PollRows' /\ DOMAIN poll' = DOMAIN poll
       /\ poll'[p].comments = Cardinality(ShownIn(table, p))
       /\ \A m \in MarkKinds : poll'[p][m] = poll[p][m]
       /\ \A q \in DOMAIN poll \ {p} : poll'[q] = poll[q]
  BY <1>8, <1>12, RecountRows
<1>14. ShownIn(table, p) = ShownIn(comment', p)
  BY <1>13 DEF ShownIn
<1>15. NoticeRows' /\ NoNewPeople
  BY <1>9, <1>10, <1>11, <1>13 DEF NoticeRows, NoNewPeople
<1>16. CommentRows'
  BY <1>11, <1>12, <1>13 DEF CommentRows
<1>17. Relations'
  <2>1. IsFiniteSet(reactions')
    BY <1>9, FS_Subset DEF Relations
  <2>2. reactions' \subseteq Users \X (DOMAIN comment \ dead)
    BY <1>9 DEF Relations
  <2> QED
    BY <1>2, <1>11, <1>13, <2>1, <2>2 DEF Relations
<1>18. Threads'
  <2> SUFFICES ASSUME NEW c \in DOMAIN comment \ C
               PROVE  /\ comment'[c].poll \in DOMAIN poll
                      /\ comment'[c].parent # None =>
                            /\ comment'[c].parent \in DOMAIN comment \ C
                            /\ comment'[comment'[c].parent].poll = comment'[c].poll
    BY <1>5, <1>11, <1>13 DEF Threads
  <2>1. comment'[c].poll = comment[c].poll /\ comment'[c].parent = comment[c].parent
    BY <1>5, <1>11, <1>13
  <2>2. comment[c].parent # None => comment[c].parent \in DOMAIN comment \ C
    BY <1>7 DEF Threads
  <2> QED
    BY <1>5, <1>11, <1>13, <2>1, <2>2 DEF Threads
<1>19. \A q \in DOMAIN poll, m \in MarkKinds : poll'[q][m] = poll[q][m]
  BY <1>13
<1>20. /\ DOMAIN comment \ DOMAIN comment' \subseteq OwnComments(p)
       /\ DOMAIN comment' \subseteq DOMAIN comment
  BY <1>3, <1>5, <1>11, <1>13
<1>21. \A c \in DOMAIN comment' : /\ comment'[c].poll = comment[c].poll
                                  /\ comment'[c].author = comment[c].author
                                  /\ comment'[c].shown = comment[c].shown
  BY <1>11, <1>13
<1>22. poll'[p].comments = Cardinality(ShownIn(comment', p)) /\ reactions' \subseteq reactions
  BY <1>9, <1>13, <1>14
<1> QED
  BY <1>2, <1>13, <1>15, <1>16, <1>17, <1>18, <1>19, <1>20, <1>21, <1>22

(* A table with the same polls, authors and parents has the same threads. *)
LEMMA SameTable ==
    ASSUME Social, DOMAIN comment' = DOMAIN comment, comment' \in [DOMAIN comment -> Rows],
           \A c \in DOMAIN comment : /\ comment'[c].poll = comment[c].poll
                                     /\ comment'[c].parent = comment[c].parent,
           DOMAIN poll' = DOMAIN poll
    PROVE  CommentRows' /\ Threads'
BY DEF Social, CommentRows, Threads

(* What the recount of a poll leaves. *)
LEMMA FinishingRecount ==
    ASSUME Social, Progress, FinishRecount
    PROVE  /\ Social' /\ KeepsRows(comment') /\ UNCHANGED notices
           /\ reading # None /\ reading' = None /\ cursor' = reading.poll
           /\ marks' = {x \in marks : ~(x[1] = Account /\ x[2] = reading.poll)}
           /\ reactions' \subseteq reactions
           /\ DOMAIN poll' = DOMAIN poll
           /\ \A q \in DOMAIN poll \ {reading.poll} : poll'[q] = poll[q]
           /\ reading.poll \in DOMAIN poll =>
                 /\ \A m \in MarkKinds : poll'[reading.poll][m] =
                       Cardinality({x \in marks' : x[2] = reading.poll /\ x[3] = m})
                 /\ poll'[reading.poll].comments = CommentCount(reading.poll)
<1> USE DEF Social
<1> DEFINE p == reading.poll
           kept == {x \in marks : ~(x[1] = Account /\ x[2] = p)}
           votes == Cardinality({x \in kept : x[2] = p /\ x[3] = "vote"})
           likes == Cardinality({x \in kept : x[2] = p /\ x[3] = "like"})
           new(c) == IF c \in DOMAIN reading.likes
                     THEN [comment[c] EXCEPT !.likes = reading.likes[c],
                                             !.replies = ReplyCount(c)]
                     ELSE comment[c]
<1>1. /\ reading # None /\ reading' = None /\ cursor' = p /\ UNCHANGED notices
      /\ marks' = kept
      /\ reactions' = {x \in reactions : ~(x[1] = Account /\ x[2] \in CommentsOn(p))}
      /\ comment' = [c \in DOMAIN comment |-> new(c)]
      /\ poll' = IF p \in DOMAIN poll
                 THEN [poll EXCEPT ![p] = [vote |-> votes, like |-> likes,
                                           comments |-> CommentCount(p)]]
                 ELSE poll
  BY DEF FinishRecount
<1>2. IsFiniteSet(kept) /\ votes \in Nat /\ likes \in Nat
  <2>1. IsFiniteSet(kept)
    BY FS_Subset DEF Relations
  <2> QED
    BY <2>1, CountType
<1>3. CommentCount(p) \in Nat /\ \A c \in DOMAIN comment : ReplyCount(c) \in Nat
  BY CountType DEF CommentCount, ReplyCount, CommentsOn, RepliesTo, CommentRows
<1>4. ASSUME NEW c \in DOMAIN comment
      PROVE  /\ new(c) \in Rows /\ new(c).poll = comment[c].poll
             /\ new(c).author = comment[c].author /\ new(c).parent = comment[c].parent
             /\ new(c).shown = comment[c].shown
  <2>1. comment[c] \in Rows
    BY DEF CommentRows
  <2>2. CASE c \in DOMAIN reading.likes
    <3> DEFINE n == reading.likes[c]
               k == ReplyCount(c)
               first == [comment[c] EXCEPT !.likes = n]
    <3>1. n \in Nat /\ k \in Nat
      BY <1>1, <1>3, <2>2 DEF Progress
    <3>2. new(c) = [comment[c] EXCEPT !.likes = n, !.replies = k]
      BY <2>2
    <3> HIDE DEF n, k, new
    <3>3. [comment[c] EXCEPT !.likes = n, !.replies = k] = [first EXCEPT !.replies = k]
      OBVIOUS
    <3>4. /\ first \in Rows /\ first.poll = comment[c].poll
          /\ first.author = comment[c].author /\ first.parent = comment[c].parent
          /\ first.shown = comment[c].shown
      BY <2>1, <3>1 DEF Rows
    <3> HIDE DEF first
    <3>5. /\ [first EXCEPT !.replies = k] \in Rows
          /\ [first EXCEPT !.replies = k].poll = first.poll
          /\ [first EXCEPT !.replies = k].author = first.author
          /\ [first EXCEPT !.replies = k].parent = first.parent
          /\ [first EXCEPT !.replies = k].shown = first.shown
      BY <3>1, <3>4 DEF Rows
    <3> QED
      BY <3>2, <3>3, <3>4, <3>5
  <2>3. CASE c \notin DOMAIN reading.likes
    BY <2>1, <2>3
  <2> QED
    BY <2>2, <2>3
<1> HIDE DEF new
<1>5. DOMAIN comment' = DOMAIN comment /\ comment' \in [DOMAIN comment -> Rows]
  BY <1>1, <1>4
<1>6. KeepsRows(comment')
  BY <1>1, <1>4 DEF KeepsRows
<1>7. /\ DOMAIN poll' = DOMAIN poll /\ PollRows'
      /\ \A q \in DOMAIN poll \ {p} : poll'[q] = poll[q]
  <2>1. [vote |-> votes, like |-> likes, comments |-> CommentCount(p)] \in Counters
    BY <1>2, <1>3 DEF Counters
  <2> HIDE DEF votes, likes
  <2> QED
    BY <1>1, <2>1 DEF PollRows
<1>8. p \in DOMAIN poll =>
          /\ \A m \in MarkKinds : poll'[p][m] = Cardinality({x \in marks' : x[2] = p /\ x[3] = m})
          /\ poll'[p].comments = CommentCount(p)
  BY <1>1 DEF MarkKinds
<1>9. CommentRows' /\ Threads'
  <2>1. \A c \in DOMAIN comment : /\ comment'[c].poll = comment[c].poll
                                  /\ comment'[c].parent = comment[c].parent
    BY <1>1, <1>4
  <2> QED
    BY <1>5, <1>7, <2>1, SameTable
<1>10. Relations' /\ NoticeRows'
  BY <1>1, <1>2, <1>5, <1>7, FS_Subset DEF Relations, NoticeRows
<1> QED
  BY <1>1, <1>5, <1>6, <1>7, <1>8, <1>9, <1>10

-----------------------------------------------------------------------------
(* What the others do to the rows *)

LEMMA Notifying ==
    ASSUME NoticeRows, NEW to \in Users, NEW from \in Users, NEW p \in DOMAIN poll,
           NEW c \in (DOMAIN comment)' \cup {None}, DOMAIN poll' = DOMAIN poll,
           DOMAIN comment \subseteq DOMAIN comment', Notify(to, from, p, c)
    PROVE  /\ NoticeRows'
           /\ \A n \in notices' : n \in notices \/ (n.to = to /\ n.from = from)
BY DEF NoticeRows, Notify

SetCounter(p, m, n) == [poll EXCEPT ![p][m] = n]

LEMMA CounterMoves ==
    ASSUME PollRows, NEW p \in DOMAIN poll, NEW m \in MarkKinds, NEW n \in Nat,
           poll' = SetCounter(p, m, n)
    PROVE  /\ PollRows' /\ DOMAIN poll' = DOMAIN poll /\ poll'[p][m] = n
           /\ \A q \in DOMAIN poll : poll'[q].comments = poll[q].comments
           /\ \A q \in DOMAIN poll, k \in MarkKinds : q # p \/ k # m => poll'[q][k] = poll[q][k]
<1> DEFINE row == [poll[p] EXCEPT ![m] = n]
<1>1. poll[p] \in Counters
  BY DEF PollRows
<1>2. /\ row \in Counters /\ row[m] = n /\ row.comments = poll[p].comments
      /\ \A k \in MarkKinds \ {m} : row[k] = poll[p][k]
  BY <1>1 DEF Counters, MarkKinds
<1>3. poll' = [poll EXCEPT ![p] = row]
  BY DEF SetCounter
<1> HIDE DEF row
<1>4. /\ DOMAIN poll' = DOMAIN poll /\ poll'[p] = row
      /\ \A q \in DOMAIN poll \ {p} : poll'[q] = poll[q]
      /\ poll' \in [DOMAIN poll -> Counters]
  BY <1>2, <1>3 DEF PollRows
<1> QED
  BY <1>2, <1>4 DEF PollRows

LEMMA Marking ==
    ASSUME Social, NEW u \in Others, NEW p \in Polls, NEW m \in MarkKinds, Mark(u, p, m)
    PROVE  /\ Social' /\ UNCHANGED <<comment, reactions>>
           /\ marks' = marks \cup {<<u, p, m>>}
           /\ DOMAIN poll' = DOMAIN poll
           /\ \A q \in DOMAIN poll : poll'[q].comments = poll[q].comments
           /\ MarksRight => MarksRight'
           /\ \A n \in notices' : n \in notices \/ (n.to = Author[p] /\ n.from = u)
<1> USE DEF Social
<1>1. /\ p \in DOMAIN poll /\ <<u, p, m>> \notin marks /\ marks' = marks \cup {<<u, p, m>>}
      /\ poll' = SetCounter(p, m, poll[p][m] + 1)
      /\ Notify(Author[p], u, p, None) /\ UNCHANGED <<comment, reactions>>
  BY DEF Mark, SetCounter
<1>2. poll[p][m] + 1 \in Nat
  BY <1>1 DEF PollRows, Counters, MarkKinds
<1>3. /\ PollRows' /\ DOMAIN poll' = DOMAIN poll /\ poll'[p][m] = poll[p][m] + 1
      /\ \A q \in DOMAIN poll : poll'[q].comments = poll[q].comments
      /\ \A q \in DOMAIN poll, k \in MarkKinds : q # p \/ k # m => poll'[q][k] = poll[q][k]
  BY <1>1, <1>2, CounterMoves
<1>4. u \in Users /\ Author[p] \in Users
  BY RowsAssumption DEF Users
<1>5. NoticeRows' /\ \A n \in notices' : n \in notices \/ (n.to = Author[p] /\ n.from = u)
  BY <1>1, <1>3, <1>4, Notifying
<1>6. Relations'
  <2>1. IsFiniteSet(marks')
    BY <1>1, FS_AddElement DEF Relations
  <2> QED
    BY <1>1, <1>3, <1>4, <2>1 DEF Relations
<1>7. CommentRows' /\ Threads'
  BY <1>1, <1>3 DEF CommentRows, Threads
<1>8. ASSUME NEW q \in DOMAIN poll, NEW k \in MarkKinds, q # p \/ k # m
      PROVE  MarkCount(q, k)' = MarkCount(q, k)
  <2>1. {x \in marks' : x[2] = q /\ x[3] = k} = {x \in marks : x[2] = q /\ x[3] = k}
    BY <1>1, <1>8
  <2> QED
    BY <2>1 DEF MarkCount
<1>9. MarkCount(p, m)' = MarkCount(p, m) + 1
  <2> DEFINE S == {x \in marks : x[2] = p /\ x[3] = m}
  <2>1. {x \in marks' : x[2] = p /\ x[3] = m} = S \cup {<<u, p, m>>}
    BY <1>1
  <2>2. IsFiniteSet(S) /\ <<u, p, m>> \notin S
    <3>1. S \subseteq marks /\ IsFiniteSet(marks)
      BY DEF Relations
    <3> QED
      BY <1>1, <3>1, FS_Subset
  <2>3. Cardinality(S \cup {<<u, p, m>>}) = Cardinality(S) + 1
    BY <2>2, CountAdded
  <2> QED
    BY <2>1, <2>3 DEF MarkCount
<1>10. MarksRight => MarksRight'
  <2> SUFFICES ASSUME MarksRight, NEW q \in DOMAIN poll, NEW k \in MarkKinds
               PROVE  poll'[q][k] = MarkCount(q, k)'
    BY <1>3 DEF MarksRight
  <2>1. poll[q][k] = MarkCount(q, k)
    BY DEF MarksRight
  <2> QED
    BY <1>3, <1>8, <1>9, <2>1
<1> QED
  BY <1>1, <1>3, <1>5, <1>6, <1>7, <1>10

LEMMA Unmarking ==
    ASSUME Social, NEW u \in Others, NEW p \in Polls, NEW m \in MarkKinds, Unmark(u, p, m)
    PROVE  /\ Social' /\ UNCHANGED <<comment, reactions, notices>>
           /\ marks' \subseteq marks
           /\ DOMAIN poll' = DOMAIN poll
           /\ \A q \in DOMAIN poll : poll'[q].comments = poll[q].comments
           /\ MarksRight => MarksRight'
<1> USE DEF Social
<1> DEFINE n == Max({poll[p][m] - 1, 0})
<1>1. /\ p \in DOMAIN poll /\ <<u, p, m>> \in marks /\ marks' = marks \ {<<u, p, m>>}
      /\ poll' = SetCounter(p, m, n)
      /\ UNCHANGED <<comment, reactions, notices>>
  BY DEF Unmark, SetCounter
<1>2. poll[p][m] \in Nat
  BY <1>1 DEF PollRows, Counters, MarkKinds
<1>3. n \in Nat /\ n = IF poll[p][m] = 0 THEN 0 ELSE poll[p][m] - 1
  BY <1>2, MaxZero
<1> HIDE DEF n
<1>4. /\ PollRows' /\ DOMAIN poll' = DOMAIN poll /\ poll'[p][m] = n
      /\ \A q \in DOMAIN poll : poll'[q].comments = poll[q].comments
      /\ \A q \in DOMAIN poll, k \in MarkKinds : q # p \/ k # m => poll'[q][k] = poll[q][k]
  BY <1>1, <1>3, CounterMoves
<1>5. Relations'
  BY <1>1, <1>4, FS_Subset DEF Relations
<1>6. CommentRows' /\ Threads' /\ NoticeRows'
  BY <1>1, <1>4 DEF CommentRows, Threads, NoticeRows
<1>7. ASSUME NEW q \in DOMAIN poll, NEW k \in MarkKinds, q # p \/ k # m
      PROVE  MarkCount(q, k)' = MarkCount(q, k)
  <2>1. {x \in marks' : x[2] = q /\ x[3] = k} = {x \in marks : x[2] = q /\ x[3] = k}
    BY <1>1, <1>7
  <2> QED
    BY <2>1 DEF MarkCount
<1>8. MarkCount(p, m) # 0 /\ MarkCount(p, m)' = MarkCount(p, m) - 1
  <2> DEFINE S == {x \in marks : x[2] = p /\ x[3] = m}
  <2>1. {x \in marks' : x[2] = p /\ x[3] = m} = S \ {<<u, p, m>>}
    BY <1>1
  <2>2. IsFiniteSet(S) /\ <<u, p, m>> \in S
    <3>1. S \subseteq marks /\ IsFiniteSet(marks)
      BY DEF Relations
    <3> QED
      BY <1>1, <3>1, FS_Subset
  <2>3. Cardinality(S) # 0 /\ Cardinality(S \ {<<u, p, m>>}) = Cardinality(S) - 1
    BY <2>2, CountRemoved
  <2> QED
    BY <2>1, <2>3 DEF MarkCount
<1>9. MarksRight => MarksRight'
  <2> SUFFICES ASSUME MarksRight, NEW q \in DOMAIN poll, NEW k \in MarkKinds
               PROVE  poll'[q][k] = MarkCount(q, k)'
    BY <1>4 DEF MarksRight
  <2>1. poll[q][k] = MarkCount(q, k)
    BY DEF MarksRight
  <2> QED
    BY <1>3, <1>4, <1>7, <1>8, <2>1
<1> QED
  BY <1>1, <1>4, <1>5, <1>6, <1>9

(* The others' likes of comments. *)
LEMMA Reacting ==
    ASSUME Social, NEW u \in Others, NEW c \in DOMAIN comment, React(u, c) \/ Unreact(u, c)
    PROVE  /\ Social' /\ UNCHANGED <<poll, marks>> /\ KeepsRows(comment')
           /\ reactions' \subseteq reactions \cup {<<u, c>>}
           /\ \A n \in notices' : n \in notices \/ (n.to = comment[c].author /\ n.from = u)
<1> USE DEF Social
<1>1. UNCHANGED <<poll, marks>> /\ u \in Users
  BY DEF React, Unreact, Users
<1>2. comment[c] \in Rows
  BY DEF CommentRows
<1>3. PICK n \in Nat : comment' = [comment EXCEPT ![c].likes = n]
  <2>1. comment[c].likes \in Nat
    BY <1>2 DEF Rows
  <2>2. comment[c].likes + 1 \in Nat /\ Max({comment[c].likes - 1, 0}) \in Nat
    BY <2>1, MaxZero
  <2> QED
    BY <2>2 DEF React, Unreact
<1> DEFINE row == [comment[c] EXCEPT !.likes = n]
<1>4. comment' = [comment EXCEPT ![c] = row]
  BY <1>3
<1>5. /\ row \in Rows /\ row.poll = comment[c].poll /\ row.author = comment[c].author
      /\ row.parent = comment[c].parent /\ row.shown = comment[c].shown
  BY LikesFields
<1> HIDE DEF row
<1>6. /\ DOMAIN comment' = DOMAIN comment /\ comment' \in [DOMAIN comment -> Rows]
      /\ KeepsRows(comment')
      /\ \A d \in DOMAIN comment : comment'[d].parent = comment[d].parent
  BY <1>4, <1>5 DEF KeepsRows, CommentRows
<1>7. CommentRows' /\ Threads'
  BY <1>1, <1>6, SameTable DEF KeepsRows
<1>8. reactions' = reactions \cup {<<u, c>>} \/ reactions' = reactions \ {<<u, c>>}
  BY DEF React, Unreact
<1>9. Relations'
  <2>1. IsFiniteSet(reactions')
    BY <1>8, FS_AddElement, FS_Subset DEF Relations
  <2> QED
    BY <1>1, <1>6, <1>8, <2>1 DEF Relations
<1>10. NoticeRows' /\ \A x \in notices' : x \in notices \/ (x.to = comment[c].author /\ x.from = u)
  <2>1. CASE React(u, c)
    <3>1. Notify(comment[c].author, u, comment[c].poll, c)
      BY <2>1 DEF React
    <3>2. comment[c].author \in Users /\ comment[c].poll \in DOMAIN poll
      BY <1>2 DEF Rows, Threads
    <3> QED
      BY <1>1, <1>6, <3>1, <3>2, Notifying
  <2>2. CASE Unreact(u, c)
    BY <1>1, <1>6, <2>2 DEF Unreact, NoticeRows
  <2> QED
    BY <2>1, <2>2
<1> QED
  BY <1>1, <1>6, <1>7, <1>8, <1>9, <1>10 DEF PollRows

SetComments(p, n) == [poll EXCEPT ![p].comments = n]

LEMMA CommentsMove ==
    ASSUME PollRows, NEW p \in DOMAIN poll, NEW n \in Nat, poll' = SetComments(p, n)
    PROVE  /\ PollRows' /\ DOMAIN poll' = DOMAIN poll /\ poll'[p].comments = n
           /\ \A q \in DOMAIN poll \ {p} : poll'[q] = poll[q]
           /\ \A q \in DOMAIN poll, m \in MarkKinds : poll'[q][m] = poll[q][m]
<1> DEFINE row == [poll[p] EXCEPT !.comments = n]
<1>1. poll[p] \in Counters
  BY DEF PollRows
<1>2. row \in Counters /\ row.comments = n /\ \A m \in MarkKinds : row[m] = poll[p][m]
  BY <1>1 DEF Counters, MarkKinds
<1>3. poll' = [poll EXCEPT ![p] = row]
  BY DEF SetComments
<1> HIDE DEF row
<1>4. /\ DOMAIN poll' = DOMAIN poll /\ poll'[p] = row
      /\ \A q \in DOMAIN poll \ {p} : poll'[q] = poll[q]
      /\ poll' \in [DOMAIN poll -> Counters]
  BY <1>2, <1>3 DEF PollRows
<1> QED
  BY <1>2, <1>4 DEF PollRows

(* The comments of a poll that a table shows, when none is the account's. *)
LEMMA CountShown ==
    ASSUME CommentRows, NEW p
    PROVE  /\ CommentCount(p) = Cardinality(ShownIn(comment, p))
           /\ CommentCount(p) \in Nat /\ IsFiniteSet(ShownIn(comment, p))
<1>1. {c \in CommentsOn(p) : comment[c].shown /\ comment[c].author # Account}
        = ShownIn(comment, p)
  BY DEF CommentsOn, ShownIn
<1>2. IsFiniteSet(ShownIn(comment, p))
  BY FS_Subset DEF ShownIn, CommentRows
<1> QED
  BY <1>1, <1>2, CountType DEF CommentCount

LEMMA CountShownNext == \A p : CommentCount(p)' = Cardinality(ShownIn(comment', p))
<1> SUFFICES ASSUME NEW p PROVE CommentCount(p)' = Cardinality(ShownIn(comment', p))
  OBVIOUS
<1>1. {c \in CommentsOn(p)' : comment'[c].shown /\ comment'[c].author # Account}
        = ShownIn(comment', p)
  BY DEF CommentsOn, ShownIn
<1> QED
  BY <1>1 DEF CommentCount

(* A comment of a user on a poll, and the notification that goes with it. *)
Added(u, p, c) ==
    /\ UNCHANGED <<marks, reactions>>
    /\ DOMAIN comment' = DOMAIN comment \cup {c} /\ comment'[c].author = u
    /\ \A d \in DOMAIN comment : comment'[d] = comment[d]
    /\ DOMAIN poll' = DOMAIN poll
    /\ \A q \in DOMAIN poll, m \in MarkKinds : poll'[q][m] = poll[q][m]
    /\ \A n \in notices' :
          \/ n \in notices
          \/ n.from = u /\ \/ n.to = Author[p]
                           \/ \E d \in DOMAIN comment : n.to = comment[d].author

LEMMA Commenting ==
    ASSUME Social, NEW u \in Others, NEW p \in DOMAIN poll, NEW parent,
           NEW c \in Spare \ DOMAIN comment, CreateComment(u, p, parent, c)
    PROVE  Social' /\ Added(u, p, c) /\ (CommentsRight => CommentsRight')
<1> USE DEF Social
<1> DEFINE new == [poll |-> p, author |-> u, parent |-> parent, shown |-> TRUE,
                   likes |-> 0, replies |-> 0]
           to == IF parent = None THEN Author[p] ELSE comment[parent].author
<1>1. /\ parent # None => parent \in DOMAIN comment /\ comment[parent].poll = p
      /\ comment' = [x \in DOMAIN comment \cup {c} |-> IF x = c THEN new ELSE comment[x]]
      /\ poll' = SetComments(p, poll[p].comments + 1)
      /\ Notify(to, u, p, c) /\ UNCHANGED <<marks, reactions>>
  BY DEF CreateComment, SetComments, CommentsOn
<1>2. u \in Users /\ u # Account /\ Author[p] \in Users /\ p \in Polls
  BY RowsAssumption, ReachAssumption DEF Users, PollRows
<1>3. c \in Ids /\ c # None
  BY RowsAssumption DEF Ids
<1>4. new \in Rows
  BY <1>1, <1>2 DEF Rows, CommentRows
<1>5. poll[p].comments \in Nat
  BY DEF PollRows, Counters
<1>6. /\ PollRows' /\ DOMAIN poll' = DOMAIN poll
      /\ poll'[p].comments = poll[p].comments + 1
      /\ \A q \in DOMAIN poll \ {p} : poll'[q] = poll[q]
      /\ \A q \in DOMAIN poll, m \in MarkKinds : poll'[q][m] = poll[q][m]
  BY <1>1, <1>5, CommentsMove
<1> HIDE DEF new
<1>7. /\ DOMAIN comment' = DOMAIN comment \cup {c} /\ comment'[c] = new
      /\ \A d \in DOMAIN comment : comment'[d] = comment[d]
  BY <1>1
<1>8. CommentRows'
  <2>1. IsFiniteSet(DOMAIN comment')
    BY <1>7, FS_AddElement DEF CommentRows
  <2> QED
    BY <1>1, <1>3, <1>4, <1>7, <2>1 DEF CommentRows
<1>9. new.poll = p /\ new.author = u /\ new.parent = parent /\ new.shown
  BY DEF new
<1>10. Threads'
  BY <1>1, <1>6, <1>7, <1>9 DEF Threads
<1>11. Relations'
  BY <1>1, <1>6, <1>7 DEF Relations
<1>12. to \in Users
  BY <1>1, <1>2 DEF CommentRows, Rows
<1>13. NoticeRows' /\ \A n \in notices' : n \in notices \/ (n.to = to /\ n.from = u)
  <2>1. c \in (DOMAIN comment)' \cup {None} /\ DOMAIN comment \subseteq DOMAIN comment'
    BY <1>7
  <2> HIDE DEF to
  <2> QED
    BY <1>1, <1>2, <1>6, <1>12, <2>1, Notifying
<1>14. CommentsRight => CommentsRight'
  <2> SUFFICES ASSUME CommentsRight, NEW q \in DOMAIN poll, OwnComments(q)' = {}
               PROVE  poll'[q].comments = CommentCount(q)'
    BY <1>6 DEF CommentsRight
  <2>1. OwnComments(q) = {}
    BY <1>7 DEF OwnComments, CommentsOn, By
  <2>2. poll[q].comments = CommentCount(q)
    BY <2>1 DEF CommentsRight
  <2>3. CommentCount(q) = Cardinality(ShownIn(comment, q)) /\ IsFiniteSet(ShownIn(comment, q))
    BY CountShown
  <2>4. CommentCount(q)' = Cardinality(ShownIn(comment', q))
    BY CountShownNext
  <2>5. CASE q = p
    <3>1. ShownIn(comment', p) = ShownIn(comment, p) \cup {c} /\ c \notin ShownIn(comment, p)
      BY <1>2, <1>7, <1>9 DEF ShownIn
    <3>2. Cardinality(ShownIn(comment', p)) = Cardinality(ShownIn(comment, p)) + 1
      BY <2>3, <2>5, <3>1, CountAdded
    <3> QED
      BY <1>6, <2>2, <2>3, <2>4, <2>5, <3>2
  <2>6. CASE q # p
    <3>1. ShownIn(comment', q) = ShownIn(comment, q)
      BY <1>2, <1>7, <1>9, <2>6 DEF ShownIn
    <3> QED
      BY <1>6, <2>2, <2>3, <2>4, <2>6, <3>1
  <2> QED
    BY <2>5, <2>6
<1>15. Added(u, p, c)
  BY <1>1, <1>6, <1>7, <1>9, <1>13 DEF Added
<1> QED
  BY <1>6, <1>8, <1>10, <1>11, <1>13, <1>14, <1>15

LEMMA DeletingComment ==
    ASSUME Social, NEW u \in Others, NEW c \in DOMAIN comment, DeleteComment(u, c)
    PROVE  /\ Social' /\ UNCHANGED <<marks, reactions, notices>>
           /\ DOMAIN comment' = DOMAIN comment
           /\ \A d \in DOMAIN comment : /\ comment'[d].poll = comment[d].poll
                                        /\ comment'[d].author = comment[d].author
           /\ DOMAIN poll' = DOMAIN poll /\ (CommentsRight => CommentsRight')
           /\ \A q \in DOMAIN poll, m \in MarkKinds : poll'[q][m] = poll[q][m]
<1> USE DEF Social
<1> DEFINE p    == comment[c].poll
           gone == {c} \cup (IF comment[c].parent = None
                               THEN {r \in RepliesTo(c) : comment[r].shown} ELSE {})
           k == Cardinality(gone)
           n == IF poll[p].comments < k THEN 0 ELSE poll[p].comments - k
           new(x) == IF x \in gone THEN [comment[x] EXCEPT !.shown = FALSE] ELSE comment[x]
<1>1. /\ comment[c].shown /\ UNCHANGED <<marks, reactions, notices>>
      /\ comment' = [x \in DOMAIN comment |-> new(x)]
      /\ poll' = SetComments(p, n)
  <2>1. poll' = [poll EXCEPT ![p].comments = IF @ < k THEN 0 ELSE @ - k]
    BY DEF DeleteComment
  <2>2. poll' = SetComments(p, n)
    <3> HIDE DEF k
    <3> QED
      BY <2>1 DEF SetComments
  <2> QED
    BY <2>2 DEF DeleteComment
<1>2. p \in DOMAIN poll /\ p \in Polls
  BY DEF Threads, PollRows
<1>3. gone \subseteq {d \in DOMAIN comment : comment[d].poll = p /\ comment[d].shown}
  <2>1. ASSUME NEW r \in RepliesTo(c)
        PROVE  r \in DOMAIN comment /\ comment[r].poll = p
    <3>1. c # None
      BY RowsAssumption DEF CommentRows, Ids
    <3>2. r \in DOMAIN comment /\ comment[r].parent = c
      BY DEF RepliesTo
    <3> QED
      BY <3>1, <3>2 DEF Threads
  <2> QED
    BY <1>1, <2>1
<1>4. IsFiniteSet(gone) /\ k \in Nat
  <2>1. IsFiniteSet(DOMAIN comment) /\ gone \subseteq DOMAIN comment
    BY <1>3 DEF CommentRows
  <2> HIDE DEF gone
  <2> QED
    BY <2>1, CountType
<1> HIDE DEF gone
<1>5. poll[p].comments \in Nat /\ n \in Nat
  <2>1. poll[p].comments \in Nat
    BY <1>2 DEF PollRows, Counters
  <2> HIDE DEF k
  <2> QED
    BY <1>4, <2>1
<1>6. /\ PollRows' /\ DOMAIN poll' = DOMAIN poll /\ poll'[p].comments = n
      /\ \A q \in DOMAIN poll \ {p} : poll'[q] = poll[q]
      /\ \A q \in DOMAIN poll, m \in MarkKinds : poll'[q][m] = poll[q][m]
  <2> HIDE DEF n
  <2> QED
    BY <1>1, <1>2, <1>5, CommentsMove
<1>7. ASSUME NEW d \in DOMAIN comment
      PROVE  /\ new(d) \in Rows /\ new(d).poll = comment[d].poll
             /\ new(d).author = comment[d].author /\ new(d).parent = comment[d].parent
             /\ new(d).shown = (comment[d].shown /\ d \notin gone)
  <2>1. comment[d] \in Rows
    BY RowFields
  <2>2. CASE d \in gone
    <3>1. new(d) = [comment[d] EXCEPT !.shown = FALSE]
      BY <2>2
    <3> HIDE DEF new
    <3>2. /\ new(d) \in Rows /\ ~new(d).shown /\ new(d).poll = comment[d].poll
          /\ new(d).author = comment[d].author /\ new(d).parent = comment[d].parent
      BY <3>1, RowFields
    <3>3. new(d).shown \in BOOLEAN /\ comment[d].shown \in BOOLEAN
      BY <2>1, <3>2 DEF Rows
    <3> QED
      BY <2>2, <3>2, <3>3
  <2>3. CASE d \notin gone
    BY <2>1, <2>3 DEF Rows
  <2> QED
    BY <2>2, <2>3
<1> HIDE DEF new
<1>8. /\ DOMAIN comment' = DOMAIN comment /\ comment' \in [DOMAIN comment -> Rows]
      /\ \A d \in DOMAIN comment : /\ comment'[d].poll = comment[d].poll
                                   /\ comment'[d].author = comment[d].author
                                   /\ comment'[d].parent = comment[d].parent
                                   /\ comment'[d].shown = (comment[d].shown /\ d \notin gone)
  BY <1>1, <1>7
<1>9. CommentRows' /\ Threads'
  BY <1>6, <1>8, SameTable
<1>10. Relations' /\ NoticeRows'
  BY <1>1, <1>6, <1>8 DEF Relations, NoticeRows
<1>11. CommentsRight => CommentsRight'
  <2> SUFFICES ASSUME CommentsRight, NEW q \in DOMAIN poll, OwnComments(q)' = {}
               PROVE  poll'[q].comments = CommentCount(q)'
    BY <1>6 DEF CommentsRight
  <2>1. OwnComments(q) = {}
    BY <1>8 DEF OwnComments, CommentsOn, By
  <2>2. /\ poll[q].comments = Cardinality(ShownIn(comment, q))
        /\ IsFiniteSet(ShownIn(comment, q))
        /\ CommentCount(q)' = Cardinality(ShownIn(comment', q))
    BY <2>1, CountShown, CountShownNext DEF CommentsRight
  <2>3. CASE q = p
    <3>1. gone \subseteq ShownIn(comment, p)
      BY <1>3, <2>1, <2>3 DEF ShownIn, OwnComments, CommentsOn, By
    <3>2. ShownIn(comment', p) = ShownIn(comment, p) \ gone
      BY <1>8 DEF ShownIn
    <3>3. gone = ShownIn(comment, p) \cap gone
      BY <3>1
    <3>4. /\ Cardinality(ShownIn(comment, p) \ gone)
               = Cardinality(ShownIn(comment, p)) - k
          /\ k <= Cardinality(ShownIn(comment, p))
      <4> DEFINE S == ShownIn(comment, p)
      <4>1. IsFiniteSet(S) /\ gone \in SUBSET S /\ S \cap gone = gone
        BY <2>2, <2>3, <3>1
      <4> HIDE DEF S
      <4>2. Cardinality(S \ gone) = Cardinality(S) - Cardinality(gone)
        BY <4>1, FS_Difference
      <4>3. Cardinality(gone) <= Cardinality(S)
        BY <4>1, FS_Subset
      <4> QED
        BY <4>2, <4>3 DEF S
    <3> HIDE DEF k
    <3>5. poll[p].comments \in Nat /\ k \in Nat /\ k <= poll[p].comments
      BY <1>4, <1>5, <2>2, <2>3, <3>4
    <3>6. n = poll[p].comments - k
      BY <3>5
    <3> QED
      BY <1>6, <2>2, <2>3, <3>2, <3>4, <3>6
  <2>4. CASE q # p
    <3>1. ShownIn(comment', q) = ShownIn(comment, q)
      BY <1>3, <1>8, <2>4 DEF ShownIn
    <3> QED
      BY <1>6, <2>2, <2>4, <3>1
  <2> QED
    BY <2>3, <2>4
<1> QED
  BY <1>1, <1>6, <1>8, <1>9, <1>10, <1>11

-----------------------------------------------------------------------------
(* The others' acts keep the invariant *)

LEMMA SameCounts ==
    ASSUME KeepsRows(comment')
    PROVE  /\ \A p : CommentCount(p)' = CommentCount(p) /\ OwnComments(p)' = OwnComments(p)
           /\ \A u : By(u)' = By(u)
<1>1. \A p : /\ CommentsOn(p)' = CommentsOn(p)
             /\ {c \in CommentsOn(p) : comment[c].shown /\ comment[c].author # Account}
                  = {c \in CommentsOn(p)' : comment'[c].shown /\ comment'[c].author # Account}
  BY DEF KeepsRows, CommentsOn
<1>2. \A u : By(u)' = By(u)
  BY DEF KeepsRows, By
<1> QED
  BY <1>1, <1>2 DEF CommentCount, OwnComments

(* What an act of another user leaves as it was. *)
Elsewhere ==
    /\ Social' /\ UNCHANGED <<targets, at, cursor, reading, userRow, reports>>
    /\ acts' = acts + 1
    /\ DOMAIN poll' = DOMAIN poll /\ DOMAIN comment \subseteq DOMAIN comment'
    /\ \A c \in DOMAIN comment : /\ comment'[c].poll = comment[c].poll
                                 /\ comment'[c].author = comment[c].author
    /\ By(Account)' = By(Account) /\ OwnMarks' \subseteq OwnMarks
    /\ OwnReactions' \subseteq OwnReactions
    /\ CountersRight => CountersRight'
    /\ \A n \in notices' :
          \/ n \in notices
          \/ /\ n.from # Account
             /\ \/ \E p \in DOMAIN poll : n.to = Author[p]
                \/ \E c \in DOMAIN comment : n.to = comment[c].author

LEMMA ActsElsewhere ==
    ASSUME Types, NEW u \in Others, OtherUsers(u)
    PROVE  Elsewhere
<1> USE DEF Types
<1>1. u # Account
  BY ReachAssumption
<1>2. ASSUME NEW p \in Polls, NEW m \in MarkKinds, Mark(u, p, m)
      PROVE  Elsewhere
  <2>1. /\ UNCHANGED <<targets, at, cursor, reading, userRow, reports>> /\ acts' = acts + 1
        /\ p \in DOMAIN poll
    BY <1>2 DEF Mark, Act, Bystanders
  <2>2. /\ Social' /\ UNCHANGED <<comment, reactions>>
        /\ marks' = marks \cup {<<u, p, m>>} /\ DOMAIN poll' = DOMAIN poll
        /\ \A q \in DOMAIN poll : poll'[q].comments = poll[q].comments
        /\ MarksRight => MarksRight'
        /\ \A n \in notices' : n \in notices \/ (n.to = Author[p] /\ n.from = u)
    BY <1>2, Marking
  <2>3. OwnMarks' \subseteq OwnMarks /\ OwnReactions' = OwnReactions
    BY <1>1, <2>2 DEF OwnMarks, OwnReactions
  <2>4. KeepsRows(comment')
    BY <2>2 DEF KeepsRows
  <2>5. CommentsRight => CommentsRight'
    BY <2>2, <2>4, SameCounts DEF CommentsRight
  <2> QED
    BY <1>1, <2>1, <2>2, <2>3, <2>4, <2>5, SameCounts DEF Elsewhere, CountersRight, KeepsRows
<1>3. ASSUME NEW p \in Polls, NEW m \in MarkKinds, Unmark(u, p, m)
      PROVE  Elsewhere
  <2>1. UNCHANGED <<targets, at, cursor, reading, userRow, reports>> /\ acts' = acts + 1
    BY <1>3 DEF Unmark, Act, Bystanders
  <2>2. /\ Social' /\ UNCHANGED <<comment, reactions, notices>>
        /\ marks' \subseteq marks /\ DOMAIN poll' = DOMAIN poll
        /\ \A q \in DOMAIN poll : poll'[q].comments = poll[q].comments
        /\ MarksRight => MarksRight'
    BY <1>3, Unmarking
  <2>3. OwnMarks' \subseteq OwnMarks /\ OwnReactions' = OwnReactions
    BY <2>2 DEF OwnMarks, OwnReactions
  <2>4. KeepsRows(comment')
    BY <2>2 DEF KeepsRows
  <2>5. CommentsRight => CommentsRight'
    BY <2>2, <2>4, SameCounts DEF CommentsRight
  <2> QED
    BY <2>1, <2>2, <2>3, <2>4, <2>5, SameCounts DEF Elsewhere, CountersRight, KeepsRows
<1>4. ASSUME NEW p \in DOMAIN poll, NEW parent, NEW c \in Spare \ DOMAIN comment,
             CreateComment(u, p, parent, c)
      PROVE  Elsewhere
  <2>1. UNCHANGED <<targets, at, cursor, reading, userRow, reports>> /\ acts' = acts + 1
    BY <1>4 DEF CreateComment, Act, Bystanders
  <2>2. Social' /\ Added(u, p, c) /\ (CommentsRight => CommentsRight')
    BY <1>4, Commenting
  <2>3. OwnMarks' = OwnMarks /\ OwnReactions' = OwnReactions
    BY <2>2 DEF Added, OwnMarks, OwnReactions
  <2>4. By(Account)' = By(Account)
    BY <1>1, <2>2 DEF Added, By
  <2>5. MarksRight => MarksRight'
    BY <2>2 DEF Added, MarksRight, MarkCount
  <2> QED
    BY <1>1, <2>1, <2>2, <2>3, <2>4, <2>5 DEF Added, Elsewhere, CountersRight
<1>5. ASSUME NEW c \in DOMAIN comment, DeleteComment(u, c)
      PROVE  Elsewhere
  <2>1. UNCHANGED <<targets, at, cursor, reading, userRow, reports>> /\ acts' = acts + 1
    BY <1>5 DEF DeleteComment, Act, Bystanders
  <2>2. /\ Social' /\ UNCHANGED <<marks, reactions, notices>>
        /\ DOMAIN comment' = DOMAIN comment
        /\ \A d \in DOMAIN comment : /\ comment'[d].poll = comment[d].poll
                                     /\ comment'[d].author = comment[d].author
        /\ DOMAIN poll' = DOMAIN poll /\ (CommentsRight => CommentsRight')
        /\ \A q \in DOMAIN poll, m \in MarkKinds : poll'[q][m] = poll[q][m]
    BY <1>5, DeletingComment
  <2>3. /\ OwnMarks' = OwnMarks /\ OwnReactions' = OwnReactions
        /\ By(Account)' = By(Account)
    BY <2>2 DEF OwnMarks, OwnReactions, By
  <2>4. MarksRight => MarksRight'
    BY <2>2 DEF MarksRight, MarkCount
  <2> QED
    BY <2>1, <2>2, <2>3, <2>4 DEF Elsewhere, CountersRight
<1>6. ASSUME NEW c \in DOMAIN comment, React(u, c) \/ Unreact(u, c)
      PROVE  Elsewhere
  <2>1. UNCHANGED <<targets, at, cursor, reading, userRow, reports>> /\ acts' = acts + 1
    BY <1>6 DEF React, Unreact, Act, Bystanders
  <2>2. /\ Social' /\ UNCHANGED <<poll, marks>> /\ KeepsRows(comment')
        /\ reactions' \subseteq reactions \cup {<<u, c>>}
        /\ \A n \in notices' : n \in notices \/ (n.to = comment[c].author /\ n.from = u)
    BY <1>6, Reacting
  <2>3. OwnMarks' = OwnMarks /\ OwnReactions' \subseteq OwnReactions
    BY <1>1, <2>2 DEF OwnMarks, OwnReactions
  <2>4. MarksRight => MarksRight'
    BY <2>2 DEF MarksRight, MarkCount
  <2>5. CommentsRight => CommentsRight'
    BY <2>2, SameCounts DEF CommentsRight
  <2> QED
    BY <1>1, <2>1, <2>2, <2>3, <2>4, <2>5, SameCounts DEF Elsewhere, CountersRight, KeepsRows
<1> QED
  BY <1>2, <1>3, <1>4, <1>5, <1>6 DEF OtherUsers

LEMMA ElsewhereKeeps ==
    ASSUME Inv, Elsewhere
    PROVE  Inv'
<1> USE DEF Inv
<1>1. UNCHANGED <<touched, doomed, at, cursor, reading, userRow, reports>>
  BY DEF Elsewhere, targets
<1>2. Types'
  BY <1>1 DEF Types, Progress, Elsewhere
<1>3. ContentStaysGone'
  BY <1>1 DEF Elsewhere, ContentStaysGone, OwnPolls
<1>4. MarksAhead'
  BY <1>1 DEF Elsewhere, MarksAhead
<1>5. CountersRight'
  BY DEF Elsewhere
<1>6. ReportsNamed'
  <2>1. \A t : Live(t) => Live(t)'
    BY DEF Elsewhere, Live
  <2> QED
    BY <1>1, <2>1 DEF ReportsNamed
<1>7. NoticesGone'
  <2> SUFFICES ASSUME ~userRow PROVE (at >= Residual /\ \A n \in notices : Account \notin {n.to, n.from})'
    BY <1>1 DEF NoticesGone
  <2>1. at >= Residual /\ \A n \in notices : Account \notin {n.to, n.from}
    BY DEF NoticesGone
  <2>2. OwnPolls = {} /\ By(Account) = {}
    BY <2>1 DEF ContentStaysGone, Residual, Content, Types, Progress
  <2>3. \A p \in DOMAIN poll : Author[p] # Account
    BY <2>2 DEF OwnPolls
  <2>4. \A c \in DOMAIN comment : comment[c].author # Account
    BY <2>2 DEF By
  <2> QED
    BY <1>1, <2>1, <2>3, <2>4 DEF Elsewhere
<1> QED
  BY <1>2, <1>3, <1>4, <1>5, <1>6, <1>7

LEMMA ReportKeeps ==
    ASSUME Inv, NEW t \in ({"poll"} \X Polls) \cup ({"comment"} \X (DOMAIN comment)), Report(t)
    PROVE  Inv'
<1> USE DEF Inv
<1>1. /\ UNCHANGED <<poll, comment, marks, reactions, notices>>
      /\ UNCHANGED <<touched, doomed, at, cursor, reading, userRow>>
      /\ acts' = acts + 1 /\ reports' = reports \cup {t} /\ Live(t)
  BY DEF Report, Act, Bystanders, targets, Live
<1>2. Types'
  BY <1>1 DEF Types, Social, Progress, PollRows, CommentRows, Threads, Relations, NoticeRows
<1>3. ContentStaysGone' /\ MarksAhead' /\ NoticesGone'
  BY <1>1 DEF ContentStaysGone, OwnPolls, By, MarksAhead, OwnMarks, OwnReactions, NoticesGone
<1>4. CountersRight'
  BY <1>1 DEF CountersRight, MarksRight, CommentsRight, MarkCount, CommentCount, CommentsOn,
             OwnComments, By
<1>5. ReportsNamed'
  BY <1>1 DEF ReportsNamed, Live
<1> QED
  BY <1>2, <1>3, <1>4, <1>5

-----------------------------------------------------------------------------
(* The steps of the cleanup keep the invariant *)

(* A call of a handler leaves the stage or takes it to the next one.       *)
LEMMA CallingStage ==
    ASSUME Types, NEW s \in Nat, NEW done \in BOOLEAN, Calls(s), Answer(s, done)
    PROVE  /\ at >= s /\ at' \in Nat /\ acts' \in Nat
           /\ at' = at \/ (at = s /\ at' = s + 1 /\ done)
BY DEF Types, Progress, Calls, Answer, Act

LEMMA PurgingNotifications ==
    ASSUME Inv, PurgeNotifications
    PROVE  Inv'
<1> USE DEF Inv
<1>1. /\ UNCHANGED <<poll, comment, marks, reactions, reports>>
      /\ UNCHANGED <<touched, doomed, cursor, reading, userRow>>
      /\ Calls(Notifications) /\ Answer(Notifications, Noticed = {})
  BY DEF PurgeNotifications, targets
<1>2. notices' \subseteq notices
  BY PortionSubsets DEF PurgeNotifications
<1>3. /\ at \in Nat /\ at' \in Nat /\ acts' \in Nat
      /\ at' = at \/ (at = Notifications /\ at' = Notifications + 1)
  BY <1>1, CallingStage DEF Types, Progress, Notifications
<1>4. Types'
  BY <1>1, <1>2, <1>3
     DEF Types, Social, Progress, PollRows, CommentRows, Threads, Relations, NoticeRows
<1>5. ContentStaysGone' /\ MarksAhead'
  BY <1>1, <1>3 DEF ContentStaysGone, OwnPolls, By, MarksAhead, OwnMarks, OwnReactions,
                    Notifications, Content, Relationships
<1>6. CountersRight'
  BY <1>1 DEF CountersRight, MarksRight, CommentsRight, MarkCount, CommentCount, CommentsOn,
             OwnComments, By
<1>7. ReportsNamed' /\ NoticesGone'
  BY <1>1, <1>2, <1>3 DEF ReportsNamed, Live, NoticesGone, Notifications, Counts, Residual
<1> QED
  BY <1>4, <1>5, <1>6, <1>7

LEMMA PurgingModeration ==
    ASSUME Inv, PurgeModeration
    PROVE  Inv'
<1> USE DEF Inv
<1>1. /\ UNCHANGED <<poll, comment, marks, reactions, notices>>
      /\ UNCHANGED <<touched, doomed, cursor, reading, userRow>>
      /\ Calls(Moderation) /\ Answer(Moderation, Reported = {})
  BY DEF PurgeModeration, targets
<1>2. reports' \subseteq reports
  BY PortionSubsets DEF PurgeModeration
<1>3. /\ at \in Nat /\ at' \in Nat /\ acts' \in Nat
      /\ at' = at \/ (at = Moderation /\ at' = Moderation + 1)
  BY <1>1, CallingStage DEF Types, Progress, Moderation
<1>4. Types'
  BY <1>1, <1>3
     DEF Types, Social, Progress, PollRows, CommentRows, Threads, Relations, NoticeRows
<1>5. ContentStaysGone' /\ MarksAhead'
  BY <1>1, <1>3 DEF ContentStaysGone, OwnPolls, By, MarksAhead, OwnMarks, OwnReactions,
                    Moderation, Content, Relationships
<1>6. CountersRight'
  BY <1>1 DEF CountersRight, MarksRight, CommentsRight, MarkCount, CommentCount, CommentsOn,
             OwnComments, By
<1>7. ReportsNamed' /\ NoticesGone'
  BY <1>1, <1>2, <1>3 DEF ReportsNamed, Live, NoticesGone, Moderation, Counts, Residual
<1> QED
  BY <1>4, <1>5, <1>6, <1>7

(* What a call of the content handler leaves: fewer rows, and of those of  *)
(* others under polls that stay none is gone or hidden.                    *)
Shrinks ==
    /\ Social' /\ NoNewPeople
    /\ DOMAIN poll' \subseteq DOMAIN poll /\ DOMAIN poll \ DOMAIN poll' \subseteq OwnPolls
    /\ DOMAIN comment' \subseteq DOMAIN comment
    /\ \A c \in DOMAIN comment \ DOMAIN comment' :
          c \in By(Account) \/ comment[c].poll \in OwnPolls
    /\ \A c \in DOMAIN comment' : /\ comment'[c].poll = comment[c].poll
                                  /\ comment'[c].author = comment[c].author
                                  /\ comment'[c].shown = comment[c].shown
    /\ marks' \subseteq marks /\ reactions' \subseteq reactions
    /\ CountersRight => CountersRight'

LEMMA DeletingOwnPollsShrinks ==
    ASSUME Social, DeleteOwnPolls
    PROVE  Shrinks
<1> DEFINE C(P) == {c \in DOMAIN comment : comment[c].poll \in P}
<1>1. /\ Social' /\ NoNewPeople
      /\ \E P \in SUBSET OwnPolls : Drops(P, {c \in DOMAIN comment : comment[c].poll \in P})
  BY DeletingOwnPolls
<1>2. PICK P \in SUBSET OwnPolls : Drops(P, C(P))
  BY <1>1
<1>3. P \subseteq DOMAIN poll
  BY DEF OwnPolls
<1>4. MarksRight => MarksRight'
  <2> SUFFICES ASSUME MarksRight, NEW q \in DOMAIN poll \ P, NEW m \in MarkKinds
               PROVE  poll'[q][m] = MarkCount(q, m)'
    BY <1>2 DEF MarksRight, Drops
  <2>1. {x \in marks' : x[2] = q /\ x[3] = m} = {x \in marks : x[2] = q /\ x[3] = m}
    BY <1>2 DEF Drops
  <2> QED
    BY <1>2, <2>1 DEF MarksRight, MarkCount, Drops
<1>5. CommentsRight => CommentsRight'
  <2> SUFFICES ASSUME CommentsRight, NEW q \in DOMAIN poll \ P, OwnComments(q)' = {}
               PROVE  poll'[q].comments = CommentCount(q)'
    BY <1>2 DEF CommentsRight, Drops
  <2>1. /\ \A c \in DOMAIN comment : comment[c].poll = q => c \in DOMAIN comment'
        /\ DOMAIN comment' \subseteq DOMAIN comment
        /\ \A c \in DOMAIN comment' : comment'[c] = comment[c]
    BY <1>2 DEF Drops
  <2>2. OwnComments(q) = {}
    BY <2>1 DEF OwnComments, CommentsOn, By
  <2>3. ShownIn(comment', q) = ShownIn(comment, q)
    BY <2>1 DEF ShownIn
  <2>4. CommentCount(q) = Cardinality(ShownIn(comment, q))
    BY CountShown DEF Social
  <2> QED
    BY <1>2, <2>2, <2>3, <2>4, CountShownNext DEF CommentsRight, Drops
<1> QED
  BY <1>1, <1>2, <1>3, <1>4, <1>5 DEF Shrinks, Drops, CountersRight

(* A poll counted anew, and the others as they were. *)
LEMMA RecountedRight ==
    ASSUME Social, NEW p \in DOMAIN poll, DOMAIN poll' = DOMAIN poll, UNCHANGED marks,
           \A q \in DOMAIN poll, m \in MarkKinds : poll'[q][m] = poll[q][m],
           \A q \in DOMAIN poll \ {p} : poll'[q] = poll[q],
           poll'[p].comments = Cardinality(ShownIn(comment', p)),
           \A q \in DOMAIN poll \ {p} : /\ OwnComments(q)' = OwnComments(q)
                                        /\ ShownIn(comment', q) = ShownIn(comment, q)
    PROVE  CountersRight => CountersRight'
<1>1. MarksRight => MarksRight'
  BY DEF MarksRight, MarkCount
<1>2. CommentsRight => CommentsRight'
  <2> SUFFICES ASSUME CommentsRight, NEW q \in DOMAIN poll, OwnComments(q)' = {}
               PROVE  poll'[q].comments = CommentCount(q)'
    BY DEF CommentsRight
  <2>1. CommentCount(q)' = Cardinality(ShownIn(comment', q))
    BY CountShownNext
  <2>2. CommentCount(q) = Cardinality(ShownIn(comment, q))
    BY CountShown DEF Social
  <2> QED
    BY <2>1, <2>2 DEF CommentsRight
<1> QED
  BY <1>1, <1>2 DEF CountersRight

(* The branches of purgeAccountContent. *)
LEMMA ContentShrinks ==
    ASSUME Types, PurgeContent
    PROVE  /\ Shrinks
           /\ OwnPolls = {} /\ Hosts = {} => UNCHANGED <<poll, comment, marks, reactions, notices>>
           /\ touched' \subseteq touched \cup TouchedNow \cup ({"comment"} \X (DOMAIN comment))
<1> USE DEF Types
<1>1. CASE OwnPolls # {}
  <2>1. DeleteOwnPolls /\ touched' = touched \cup TouchedNow
    BY <1>1 DEF PurgeContent
  <2>2. Shrinks
    BY <2>1, DeletingOwnPollsShrinks
  <2> QED
    BY <1>1, <2>1, <2>2
<1>2. CASE OwnPolls = {} /\ Hosts = {}
  <2>1. UNCHANGED <<poll, comment, marks, reactions, notices>> /\ touched' = touched \cup TouchedNow
    BY <1>2 DEF PurgeContent
  <2>2. Social' /\ NoNewPeople
    BY <2>1 DEF Social, PollRows, CommentRows, Threads, Relations, NoticeRows, NoNewPeople
  <2>3. CountersRight => CountersRight'
    BY <2>1 DEF CountersRight, MarksRight, CommentsRight, MarkCount, CommentCount, CommentsOn,
                OwnComments, By
  <2> QED
    BY <2>1, <2>2, <2>3 DEF Shrinks
<1>3. CASE OwnPolls = {} /\ Hosts # {}
  <2>1. PICK p \in Hosts :
           IF Orphans(p) # {} THEN ReparentReplies(p)
           ELSE /\ touched' = touched \cup TouchedNow
                /\ IF Attached(p) # {} THEN DetachParents(p)
                   ELSE IF Liked(p) # {} THEN RemoveReactions(p)
                   ELSE DeleteComments(p)
    BY <1>3 DEF PurgeContent
  <2>2. p \in DOMAIN poll
    BY DEF Hosts
  <2>3. CASE Orphans(p) # {}
    <3>1. ReparentReplies(p)
      BY <2>1, <2>3
    <3>2. /\ Social' /\ UNCHANGED <<marks, reactions, notices>> /\ KeepsRows(comment')
          /\ DOMAIN poll' = DOMAIN poll
          /\ poll'[p].comments = Cardinality(ShownIn(comment, p))
          /\ \A q \in DOMAIN poll, m \in MarkKinds : poll'[q][m] = poll[q][m]
          /\ \A q \in DOMAIN poll \ {p} : poll'[q] = poll[q]
          /\ touched' \subseteq touched \cup TouchedNow \cup ({"comment"} \X (DOMAIN comment))
      BY <2>2, <3>1, ReparentingReplies
    <3>3. \A q : ShownIn(comment', q) = ShownIn(comment, q)
      BY <3>2 DEF KeepsRows, ShownIn
    <3>4. CountersRight => CountersRight'
      BY <2>2, <3>2, <3>3, SameCounts, RecountedRight
    <3>5. Shrinks
      BY <3>2, <3>4 DEF Shrinks, KeepsRows, NoNewPeople
    <3> QED
      BY <1>3, <3>2, <3>5
  <2>4. CASE Orphans(p) = {} /\ Attached(p) # {}
    <3>1. DetachParents(p) /\ touched' = touched \cup TouchedNow
      BY <2>1, <2>4
    <3>2. Social' /\ UNCHANGED <<poll, marks, reactions, notices>> /\ KeepsRows(comment')
      BY <3>1, DetachingParents
    <3>3. CountersRight => CountersRight'
      BY <3>2, SameCounts DEF CountersRight, MarksRight, CommentsRight, MarkCount
    <3>4. Shrinks
      BY <3>2, <3>3 DEF Shrinks, KeepsRows, NoNewPeople
    <3> QED
      BY <1>3, <3>1, <3>4
  <2>5. CASE Orphans(p) = {} /\ Attached(p) = {} /\ Liked(p) # {}
    <3>1. RemoveReactions(p) /\ touched' = touched \cup TouchedNow
      BY <2>1, <2>5
    <3>2. Social' /\ UNCHANGED <<poll, comment, marks, notices>> /\ reactions' \subseteq reactions
      BY <3>1, RemovingReactions
    <3>3. CountersRight => CountersRight'
      BY <3>2 DEF CountersRight, MarksRight, CommentsRight, MarkCount, CommentCount, CommentsOn,
                  OwnComments, By
    <3>4. Shrinks
      BY <3>2, <3>3 DEF Shrinks, NoNewPeople
    <3> QED
      BY <1>3, <3>1, <3>4
  <2>6. CASE Orphans(p) = {} /\ Attached(p) = {} /\ Liked(p) = {}
    <3>1. DeleteComments(p) /\ touched' = touched \cup TouchedNow
      BY <2>1, <2>6
    <3>2. /\ Social' /\ NoNewPeople /\ UNCHANGED marks
          /\ DOMAIN poll' = DOMAIN poll
          /\ DOMAIN comment' \subseteq DOMAIN comment
          /\ DOMAIN comment \ DOMAIN comment' \subseteq OwnComments(p)
          /\ \A c \in DOMAIN comment' : /\ comment'[c].poll = comment[c].poll
                                        /\ comment'[c].author = comment[c].author
                                        /\ comment'[c].shown = comment[c].shown
          /\ reactions' \subseteq reactions
          /\ poll'[p].comments = Cardinality(ShownIn(comment', p))
          /\ \A q \in DOMAIN poll, m \in MarkKinds : poll'[q][m] = poll[q][m]
          /\ \A q \in DOMAIN poll \ {p} : poll'[q] = poll[q]
      BY <2>2, <2>6, <3>1, DeletingComments
    <3>3. ASSUME NEW q \in DOMAIN poll \ {p}
          PROVE  /\ OwnComments(q)' = OwnComments(q)
                 /\ ShownIn(comment', q) = ShownIn(comment, q)
      <4>1. \A c \in DOMAIN comment : comment[c].poll = q => c \in DOMAIN comment'
        BY <3>2 DEF OwnComments, CommentsOn
      <4> QED
        BY <3>2, <4>1 DEF OwnComments, CommentsOn, By, ShownIn
    <3>4. CountersRight => CountersRight'
      BY <2>2, <3>2, <3>3, RecountedRight
    <3>5. DOMAIN comment \ DOMAIN comment' \subseteq By(Account)
      BY <3>2 DEF OwnComments
    <3>6. Shrinks
      BY <3>2, <3>4, <3>5 DEF Shrinks
    <3> QED
      BY <1>3, <3>1, <3>6
  <2> QED
    BY <2>3, <2>4, <2>5, <2>6
<1> QED
  BY <1>1, <1>2, <1>3

LEMMA TouchedTargets ==
    ASSUME Types
    PROVE  TouchedNow \subseteq ({"poll"} \X Polls) \cup ({"comment"} \X Ids)
<1>1. OwnPolls \subseteq Polls
  BY DEF Types, Social, PollRows, OwnPolls
<1>2. \A c \in By(Account) : /\ comment[c].poll \in Polls
                             /\ comment[c].parent # None => comment[c].parent \in Ids
  BY DEF Types, Social, CommentRows, Rows, By
<1> QED
  BY <1>1, <1>2 DEF TouchedNow

(* Without polls of the account and polls that it commented on it has no   *)
(* comment.                                                                *)
LEMMA NothingLeft ==
    ASSUME Types, OwnPolls = {}
    PROVE  Hosts = {} <=> By(Account) = {}
<1>1. \A c \in By(Account) : /\ comment[c].poll \in DOMAIN poll
                             /\ Author[comment[c].poll] # Account
                             /\ c \in OwnComments(comment[c].poll)
  BY DEF Types, Social, Threads, By, OwnPolls, OwnComments, CommentsOn
<1>2. Hosts = {} => By(Account) = {}
  BY <1>1 DEF Hosts
<1>3. By(Account) = {} => Hosts = {}
  BY DEF Hosts, OwnComments
<1> QED
  BY <1>2, <1>3

LEMMA PurgingContent ==
    ASSUME Inv, PurgeContent
    PROVE  Inv'
<1> USE DEF Inv
<1>1. /\ UNCHANGED <<reports, cursor, reading, userRow>> /\ reading = None
      /\ doomed' = doomed \cup DoomedNow
      /\ Calls(Content) /\ Answer(Content, OwnPolls = {} /\ Hosts = {})
  BY DEF PurgeContent
<1>2. /\ at \in Nat /\ at' \in Nat /\ acts' \in Nat
      /\ at' = at \/ (at = Content /\ at' = Content + 1 /\ OwnPolls = {} /\ Hosts = {})
  BY <1>1, CallingStage DEF Types, Progress, Content
<1>3. /\ Shrinks
      /\ OwnPolls = {} /\ Hosts = {} => UNCHANGED <<poll, comment, marks, reactions, notices>>
      /\ touched' \subseteq touched \cup TouchedNow \cup ({"comment"} \X (DOMAIN comment))
  BY ContentShrinks
<1>4. /\ OwnPolls' \subseteq OwnPolls /\ By(Account)' \subseteq By(Account)
      /\ OwnMarks' \subseteq OwnMarks /\ OwnReactions' \subseteq OwnReactions
  BY <1>3 DEF Shrinks, OwnPolls, By, OwnMarks, OwnReactions
<1>5. Types'
  <2>1. touched' \subseteq ({"poll"} \X Polls) \cup ({"comment"} \X Ids)
    <3>1. touched \cup TouchedNow \cup ({"comment"} \X (DOMAIN comment))
            \subseteq ({"poll"} \X Polls) \cup ({"comment"} \X Ids)
      BY TouchedTargets DEF Types, Progress, Social, CommentRows
    <3> QED
      BY <1>3, <3>1
  <2>2. Social'
    BY <1>3 DEF Shrinks
  <2> QED
    BY <1>1, <1>2, <2>1, <2>2 DEF Types, Progress
(* Once the step is done there is nothing left for it to do. *)
<1>6. at' > Content \/ ~userRow => OwnPolls = {} /\ By(Account) = {} /\ Hosts = {}
  BY <1>2, NothingLeft DEF ContentStaysGone, NoticesGone, Residual, Content
<1>7. ContentStaysGone'
  BY <1>4, <1>6 DEF ContentStaysGone
<1>8. MarksAhead'
  BY <1>1, <1>2, <1>4 DEF MarksAhead, Content, Relationships
<1>9. CountersRight'
  BY <1>3 DEF Shrinks
<1>10. ReportsNamed'
  <2>1. ASSUME NEW t \in reports
        PROVE  Live(t)' \/ t \in doomed'
    <3>1. Live(t) \/ t \in doomed
      BY DEF ReportsNamed
    <3>2. ASSUME Live(t), ~Live(t)'
          PROVE  t \in DoomedNow
      <4>1. \/ t \in {"poll"} \X (DOMAIN poll \ DOMAIN poll')
            \/ t \in {"comment"} \X (DOMAIN comment \ DOMAIN comment')
        BY <3>2 DEF Live
      <4> QED
        BY <1>3, <4>1 DEF Shrinks, DoomedNow
    <3> QED
      BY <1>1, <3>1, <3>2
  <2>2. ASSUME at' >= Counts \/ ~userRow, NEW t \in reports
        PROVE  Live(t)'
    <3>1. Live(t)
      BY <1>2, <2>2 DEF ReportsNamed, Counts, Content
    <3>2. UNCHANGED <<poll, comment>>
      BY <1>2, <1>3, <1>6, <2>2 DEF Counts, Content
    <3> QED
      BY <3>1, <3>2 DEF Live
  <2> QED
    BY <1>1, <2>1, <2>2 DEF ReportsNamed
<1>11. NoticesGone'
  BY <1>1, <1>2, <1>3, <1>6 DEF NoticesGone, Residual, Content
<1> QED
  BY <1>5, <1>7, <1>8, <1>9, <1>10, <1>11

(* The polls that the recount goes to. *)
LEMMA AffectedPolls ==
    ASSUME Types
    PROVE  Affected \subseteq Polls
<1>1. Listed("poll", touched) \subseteq Polls
  BY DEF Types, Progress, Listed
<1>2. \A c \in DOMAIN comment : comment[c].poll \in Polls
  BY DEF Types, Social, CommentRows, Rows
<1>3. /\ \A x \in OwnMarks : x[2] \in Polls
      /\ \A x \in OwnReactions : x[2] \in DOMAIN comment
  BY DEF Types, Social, Relations, PollRows, OwnMarks, OwnReactions
<1> QED
  BY <1>1, <1>2, <1>3 DEF Affected

(* When no poll is left to recount the account has no mark any more. *)
LEMMA MarksAreNext ==
    ASSUME Inv
    PROVE  \A x \in OwnMarks : x[2] \in NextPoll
BY DEF Inv, MarksAhead, NextPoll, Affected

LEMMA StartingRecount ==
    ASSUME Inv, StartRecount
    PROVE  Inv'
<1> USE DEF Inv
<1>1. /\ UNCHANGED <<poll, comment, marks, reactions, notices, reports>>
      /\ UNCHANGED <<touched, doomed, at, cursor, userRow>> /\ acts' \in Nat
  BY DEF StartRecount, social, targets, Calls, Act, Types, Progress
<1> DEFINE likes(p) == [c \in CommentsOn(p) |->
                          Cardinality({x \in reactions : x[2] = c /\ x[1] # Account})]
           stale(p) == {c \in CommentsOn(p) : \/ comment[c].likes # likes(p)[c]
                                              \/ comment[c].replies # ReplyCount(c)}
<1>2. PICK p \in NextPoll : /\ \A q \in NextPoll : p <= q
                            /\ reading' = [poll |-> p, likes |-> Restrict(likes(p), stale(p))]
  BY DEF StartRecount
<1>3. p \in Polls
  BY AffectedPolls DEF NextPoll
<1>4. \A c : Cardinality({x \in reactions : x[2] = c /\ x[1] # Account}) \in Nat
  BY CountType DEF Types, Social, Relations
<1>5. /\ reading'.poll = p
      /\ \A c \in DOMAIN reading'.likes : reading'.likes[c] \in Nat
  <2>1. reading'.likes = Restrict(likes(p), stale(p)) /\ stale(p) \subseteq CommentsOn(p)
    BY <1>2
  <2>2. \A c \in CommentsOn(p) : likes(p)[c] \in Nat
    BY <1>4
  <2> HIDE DEF likes, stale
  <2> QED
    BY <1>2, <2>1, <2>2 DEF Restrict
<1>6. Types'
  BY <1>1, <1>3, <1>5
     DEF Types, Social, Progress, PollRows, CommentRows, Threads, Relations, NoticeRows
<1>7. MarksAhead'
  <2>1. OwnMarks' = OwnMarks /\ OwnReactions' = OwnReactions
    BY <1>1 DEF OwnMarks, OwnReactions
  <2>2. \A x \in OwnMarks : x[2] \in NextPoll /\ x[2] \in Nat
    BY MarksAreNext, RowsAssumption DEF Types, Social, Relations, PollRows, OwnMarks
  <2>3. \A x \in OwnMarks : x[2] >= p
    BY <1>2, <1>3, <2>2, RowsAssumption
  <2> QED
    BY <1>1, <1>5, <2>1, <2>3 DEF MarksAhead
<1>8. ContentStaysGone' /\ ReportsNamed' /\ NoticesGone'
  BY <1>1 DEF ContentStaysGone, OwnPolls, By, ReportsNamed, Live, NoticesGone
<1>9. CountersRight'
  BY <1>1 DEF CountersRight, MarksRight, CommentsRight, MarkCount, CommentCount, CommentsOn,
             OwnComments, By
<1> QED
  BY <1>6, <1>7, <1>8, <1>9

LEMMA FinishingRecountKeeps ==
    ASSUME Inv, FinishRecount
    PROVE  Inv'
<1> USE DEF Inv
<1> DEFINE p == reading.poll
<1>1. UNCHANGED <<notices, reports, touched, doomed, at, userRow, acts>>
  BY DEF FinishRecount
<1>2. /\ Social' /\ KeepsRows(comment') /\ reading # None /\ reading' = None /\ cursor' = p
      /\ marks' = {x \in marks : ~(x[1] = Account /\ x[2] = p)}
      /\ reactions' \subseteq reactions
      /\ DOMAIN poll' = DOMAIN poll
      /\ \A q \in DOMAIN poll \ {p} : poll'[q] = poll[q]
      /\ p \in DOMAIN poll =>
            /\ \A m \in MarkKinds : poll'[p][m] = Cardinality({x \in marks' : x[2] = p /\ x[3] = m})
            /\ poll'[p].comments = CommentCount(p)
  BY FinishingRecount DEF Types
<1>3. p \in Polls /\ p \in Nat
  BY <1>2, RowsAssumption DEF Types, Progress
<1> HIDE DEF p
<1>4. Types'
  BY <1>1, <1>2, <1>3 DEF Types, Progress
<1>5. ContentStaysGone'
  BY <1>1, <1>2, SameCounts DEF ContentStaysGone, OwnPolls
<1>6. MarksAhead'
  <2>1. \A x \in OwnMarks' : x \in OwnMarks /\ x[2] # p /\ x[2] \in Nat
    BY <1>2, RowsAssumption DEF OwnMarks, Types, Social, Relations, PollRows
  <2>2. \A x \in OwnMarks' : x[2] > p
    BY <1>2, <1>3, <2>1 DEF MarksAhead, p
  <2>3. OwnReactions' \subseteq OwnReactions
    BY <1>2 DEF OwnReactions
  <2> QED
    BY <1>1, <1>2, <2>1, <2>2, <2>3 DEF MarksAhead
<1>7. MarksRight'
  <2> SUFFICES ASSUME NEW q \in DOMAIN poll, NEW m \in MarkKinds
               PROVE  poll'[q][m] = MarkCount(q, m)'
    BY <1>2 DEF MarksRight
  <2>1. CASE q = p
    BY <1>2, <2>1 DEF MarkCount
  <2>2. CASE q # p
    <3>1. {x \in marks' : x[2] = q /\ x[3] = m} = {x \in marks : x[2] = q /\ x[3] = m}
      BY <1>2, <2>2
    <3> QED
      BY <1>2, <2>2, <3>1 DEF MarkCount, CountersRight, MarksRight
  <2> QED
    BY <2>1, <2>2
<1>8. CommentsRight'
  BY <1>2, SameCounts DEF CountersRight, CommentsRight
<1>9. ReportsNamed'
  BY <1>1, <1>2 DEF ReportsNamed, Live, KeepsRows
<1>10. NoticesGone'
  BY <1>1 DEF NoticesGone
<1> QED
  BY <1>4, <1>5, <1>6, <1>7, <1>8, <1>9, <1>10 DEF CountersRight

LEMMA DroppingRelations ==
    ASSUME Inv, DropRelations
    PROVE  Inv'
<1> USE DEF Inv
<1>1. /\ UNCHANGED <<poll, comment, notices, reports, touched, doomed, cursor, reading, userRow>>
      /\ reading = None /\ NextPoll = {}
      /\ marks' = marks \ OwnMarks /\ reactions' = reactions \ OwnReactions
      /\ Calls(Relationships) /\ Answer(Relationships, TRUE)
  BY DEF DropRelations
<1>2. /\ at \in Nat /\ at' \in Nat /\ acts' \in Nat
      /\ at' = at \/ (at = Relationships /\ at' = Relationships + 1)
  BY <1>1, CallingStage DEF Types, Progress, Relationships
<1>3. OwnMarks = {} /\ marks' = marks
  BY <1>1, MarksAreNext
<1>4. OwnMarks' = {} /\ OwnReactions' = {}
  BY <1>1, <1>3 DEF OwnMarks, OwnReactions
<1>5. Types'
  <2>1. Relations'
    BY <1>1, <1>3, FS_Subset DEF Types, Social, Relations
  <2> QED
    BY <1>1, <1>2, <2>1 DEF Types, Social, Progress, PollRows, CommentRows, Threads, NoticeRows
<1>6. ContentStaysGone' /\ MarksAhead'
  BY <1>1, <1>2, <1>4 DEF ContentStaysGone, OwnPolls, By, MarksAhead, Relationships, Content
<1>7. CountersRight'
  BY <1>1, <1>3 DEF CountersRight, MarksRight, CommentsRight, MarkCount, CommentCount, CommentsOn,
                    OwnComments, By
<1>8. ReportsNamed' /\ NoticesGone'
  BY <1>1, <1>2 DEF ReportsNamed, Live, NoticesGone, Relationships, Counts, Residual
<1> QED
  BY <1>5, <1>6, <1>7, <1>8

(* The statements of the last step change no rows but with the user. *)
LEMMA CheckingRemainders ==
    ASSUME Inv, CheckResidual \/ CheckCounts \/ Finish
    PROVE  Inv'
<1> USE DEF Inv
<1>1. /\ UNCHANGED <<poll, comment, marks, reactions, notices, reports>>
      /\ UNCHANGED <<cursor, reading, userRow, acts>>
  BY DEF CheckResidual, CheckCounts, Finish, social
<1> USE DEF Residual, Counts, Removal, Recheck, Over
<1>2. /\ at \in {Residual, Counts, Recheck}
      /\ at' \in {Residual, Counts, Removal, Over}
      /\ UNCHANGED <<touched, doomed>> \/ (at = Recheck /\ touched' = {})
      /\ at = Residual => ResidualReports = {} /\ UNCHANGED doomed
  BY DEF CheckResidual, CheckCounts, Finish, targets, Remainders
<1>3. Types'
  BY <1>1, <1>2
     DEF Types, Social, Progress, PollRows, CommentRows, Threads, Relations, NoticeRows
<1>4. ContentStaysGone' /\ MarksAhead' /\ NoticesGone'
  BY <1>1, <1>2 DEF ContentStaysGone, OwnPolls, By, MarksAhead, OwnMarks, OwnReactions,
                    NoticesGone, Content, Relationships
<1>5. CountersRight'
  BY <1>1 DEF CountersRight, MarksRight, CommentsRight, MarkCount, CommentCount, CommentsOn,
             OwnComments, By
<1>6. ReportsNamed'
  <2>1. \A t \in reports : Live(t)
    <3>1. CASE at = Residual
      BY <1>2, <3>1 DEF ReportsNamed, ResidualReports
    <3>2. CASE at # Residual
      BY <1>2, <3>2 DEF ReportsNamed
    <3> QED
      BY <3>1, <3>2
  <2> QED
    BY <1>1, <2>1 DEF ReportsNamed, Live
<1> QED
  BY <1>3, <1>4, <1>5, <1>6

LEMMA DeletingUser ==
    ASSUME Inv, DeleteUser
    PROVE  Inv'
<1> USE DEF Inv
<1>1. /\ UNCHANGED <<poll, comment, reports, touched, doomed, cursor, reading, acts>>
      /\ at = Removal /\ at' = Recheck /\ userRow' = FALSE
      /\ marks' = marks \ OwnMarks /\ reactions' = reactions \ OwnReactions
      /\ notices' = {[n EXCEPT !.from = IF @ = Account THEN None ELSE @] :
                       n \in {m \in notices : m.to # Account}}
  BY DEF DeleteUser, targets
<1> USE DEF Removal, Recheck
<1>2. OwnMarks = {} /\ OwnReactions = {} /\ marks' = marks /\ reactions' = reactions
  BY <1>1 DEF MarksAhead, Relationships
<1>3. ASSUME NEW n \in notices, n.to # Account
      PROVE  LET m == [n EXCEPT !.from = IF @ = Account THEN None ELSE @]
             IN  /\ m \in [to : Users, from : Users \cup {None}, poll : DOMAIN poll \cup {None},
                           comment : DOMAIN comment \cup {None}]
                 /\ m.to # Account /\ m.from # Account
  <2>1. n \in [to : Users, from : Users \cup {None}, poll : DOMAIN poll \cup {None},
               comment : DOMAIN comment \cup {None}]
    BY DEF Types, Social, NoticeRows
  <2>2. None # Account
    BY RowsAssumption DEF Users
  <2> QED
    BY <1>3, <2>1, <2>2
<1>4. NoticeRows' /\ \A n \in notices' : Account \notin {n.to, n.from}
  BY <1>1, <1>3 DEF NoticeRows
<1>5. Types'
  BY <1>1, <1>2, <1>4 DEF Types, Social, Progress, PollRows, CommentRows, Threads, Relations
<1>6. ContentStaysGone' /\ MarksAhead' /\ NoticesGone'
  BY <1>1, <1>2, <1>4 DEF ContentStaysGone, OwnPolls, By, MarksAhead, OwnMarks, OwnReactions,
                          NoticesGone, Content, Relationships, Residual
<1>7. CountersRight'
  BY <1>1, <1>2 DEF CountersRight, MarksRight, CommentsRight, MarkCount, CommentCount, CommentsOn,
                    OwnComments, By
<1>8. ReportsNamed'
  BY <1>1 DEF ReportsNamed, Live, Counts
<1> QED
  BY <1>5, <1>6, <1>7, <1>8

-----------------------------------------------------------------------------
(* The theorems *)

LEMMA InitInv == Init => Inv
<1> SUFFICES ASSUME Init PROVE Inv
  OBVIOUS
<1> USE DEF Init
<1>1. /\ DOMAIN comment = Comments /\ DOMAIN poll = Polls
      /\ \A c \in Comments : /\ comment[c].poll = FirstComments[c].poll
                             /\ comment[c].author = FirstComments[c].author
                             /\ comment[c].parent = FirstComments[c].parent
                             /\ comment[c].shown
  BY DEF Comments
<1>2. Relations
  BY <1>1, RowsAssumption DEF Relations
<1>3. /\ \A p, m : MarkCount(p, m) \in Nat
      /\ \A c : LikeCount(c) \in Nat
      /\ \A p : Cardinality({c \in DOMAIN FirstComments : FirstComments[c].poll = p}) \in Nat
  BY <1>2, CountType, RowsAssumption DEF Relations, MarkCount, LikeCount, Comments
<1>4. PollRows
  <2>1. \A p \in Polls : poll[p] \in Counters
    BY <1>3 DEF Counters
  <2> QED
    BY <1>1, <2>1 DEF PollRows
<1>5. CommentRows
  <2>1. \A c \in Comments : comment[c] \in Rows
    BY <1>3, RowsAssumption DEF Rows, Ids, Comments
  <2> QED
    BY <1>1, <2>1, RowsAssumption DEF CommentRows, Ids, Comments
<1>6. Threads
  BY <1>1, RowsAssumption DEF Threads
<1>7. NoticeRows
  BY <1>1, RowsAssumption DEF NoticeRows
<1>8. Types
  BY <1>2, <1>4, <1>5, <1>6, <1>7 DEF Types, Social, Progress, Notifications
<1>9. ContentStaysGone /\ NoticesGone
  BY DEF ContentStaysGone, NoticesGone, Notifications, Content
<1>10. MarksAhead
  <2>1. \A x \in OwnMarks : x[2] \in Nat \ {0}
    BY RowsAssumption DEF OwnMarks
  <2> QED
    BY <2>1 DEF MarksAhead, Notifications, Relationships
<1>11. MarksRight
  BY DEF MarksRight, MarkKinds
<1>12. CommentsRight
  <2> SUFFICES ASSUME NEW p \in Polls, OwnComments(p) = {}
               PROVE  poll[p].comments = CommentCount(p)
    BY <1>1 DEF CommentsRight
  <2>1. {c \in CommentsOn(p) : comment[c].shown /\ comment[c].author # Account}
          = {c \in DOMAIN FirstComments : FirstComments[c].poll = p}
    BY <1>1 DEF OwnComments, CommentsOn, By, Comments
  <2> QED
    BY <2>1 DEF CommentCount
<1>13. ReportsNamed
  BY <1>1, RowsAssumption DEF ReportsNamed, Live, Notifications, Counts
<1> QED
  BY <1>8, <1>9, <1>10, <1>11, <1>12, <1>13 DEF Inv, CountersRight

LEMMA NextInv == Inv /\ [Next]_vars => Inv'
<1> SUFFICES ASSUME Inv, [Next]_vars PROVE Inv'
  OBVIOUS
<1>1. CASE PurgeNotifications
  BY <1>1, PurgingNotifications
<1>2. CASE PurgeModeration
  BY <1>2, PurgingModeration
<1>3. CASE PurgeContent
  BY <1>3, PurgingContent
<1>4. CASE StartRecount
  BY <1>4, StartingRecount
<1>5. CASE FinishRecount
  BY <1>5, FinishingRecountKeeps
<1>6. CASE DropRelations
  BY <1>6, DroppingRelations
<1>7. CASE CheckResidual \/ CheckCounts \/ Finish
  BY <1>7, CheckingRemainders
<1>8. CASE DeleteUser
  BY <1>8, DeletingUser
<1>9. ASSUME NEW u \in Others, OtherUsers(u)
      PROVE  Inv'
  BY <1>9, ActsElsewhere, ElsewhereKeeps DEF Inv
<1>10. ASSUME NEW t \in ({"poll"} \X Polls) \cup ({"comment"} \X (DOMAIN comment)), Report(t)
       PROVE  Inv'
  BY <1>10, ReportKeeps
<1>11. CASE UNCHANGED vars
  <2>1. UNCHANGED <<poll, comment, marks, reactions, notices, reports, touched, doomed, counted,
                    at, cursor, reading, userRow, acts>>
    BY <1>11 DEF vars, social, targets
  <2>2. Types'
    BY <2>1 DEF Inv, Types, Social, Progress, PollRows, CommentRows, Threads, Relations, NoticeRows
  <2>3. ContentStaysGone' /\ MarksAhead' /\ ReportsNamed' /\ NoticesGone'
    BY <2>1 DEF Inv, ContentStaysGone, OwnPolls, By, MarksAhead, OwnMarks, OwnReactions,
                ReportsNamed, Live, NoticesGone
  <2>4. CountersRight'
    BY <2>1 DEF Inv, CountersRight, MarksRight, CommentsRight, MarkCount, CommentCount, CommentsOn,
                OwnComments, By
  <2> QED
    BY <2>2, <2>3, <2>4 DEF Inv
<1> QED
  BY <1>1, <1>2, <1>3, <1>4, <1>5, <1>6, <1>7, <1>8, <1>9, <1>10, <1>11 DEF Next, Cleanup

(* The inductive invariant of the cleanup: types and foreign keys, no      *)
(* content after the content step, marks above the cursor, right counters, *)
(* targets of reports that exist or were remembered.                       *)
THEOREM CleanupInvariant == Spec => []Inv
BY InitInv, NextInv, PTL DEF Spec

(* After the content step neither a late worker nor another user brings    *)
(* polls or comments of the account back (purgeAccountContent).            *)
THEOREM ContentIsGoneForGood == Spec => []ContentStaysGone
<1>1. Inv => ContentStaysGone
  BY DEF Inv
<1> QED
  BY <1>1, CleanupInvariant, PTL

(* The counters of polls agree with their votes and likes at every moment, *)
(* and with the comments that are shown once the account's comments are    *)
(* gone (recountForeignPoll, recountPollRelationships, createVoteRecord).  *)
THEOREM PollsStayCounted == Spec => []PollsCounted
<1>1. Inv => PollsCounted
  <2> SUFFICES ASSUME Inv PROVE PollsCounted
    OBVIOUS
  <2>1. at > Content => \A p : OwnComments(p) = {}
    BY DEF Inv, ContentStaysGone, OwnComments
  <2> QED
    BY <2>1 DEF Inv, CountersRight, MarksRight, CommentsRight, PollsCounted
<1> QED
  BY <1>1, CleanupInvariant, PTL

(* Once the users row is gone no row is the account's and nothing names    *)
(* the account or what was removed with it (verifyAndCompleteDeletion).    *)
THEOREM NothingNamesTheErased == Spec => []ErasedClean
<1>1. Inv => ErasedClean
  <2> SUFFICES ASSUME Inv, ~userRow PROVE ErasedClean
    BY DEF ErasedClean
  <2>1. at >= Residual /\ \A n \in notices : Account \notin {n.to, n.from}
    BY DEF Inv, NoticesGone
  <2>2. at > Content /\ at > Relationships
    BY <2>1 DEF Residual, Content, Relationships, Inv, Types, Progress
  <2>3. OwnPolls = {} /\ By(Account) = {} /\ OwnMarks = {} /\ OwnReactions = {}
    BY <2>2 DEF Inv, ContentStaysGone, MarksAhead
  <2>4. \A n \in notices : /\ n.poll \in DOMAIN poll \cup {None}
                           /\ n.comment \in DOMAIN comment \cup {None}
    BY DEF Inv, Types, Social, NoticeRows
  <2>5. \A t \in reports : t[2] \in DOMAIN poll \cup DOMAIN comment
    BY DEF Inv, ReportsNamed, Live
  <2> QED
    BY <2>1, <2>3, <2>4, <2>5 DEF ErasedClean
<1> QED
  BY <1>1, CleanupInvariant, PTL

(* No step of the cleanup removes or hides a comment of another user under *)
(* a poll that stays: a foreign reply is moved away before its parent goes *)
(* (reparentForeignReplies, deleteOwnedCommentBatch).                      *)
THEOREM OthersCommentsStay == Spec => OthersKeepTheirComments
<1> DEFINE Kept == \A c \in DOMAIN comment :
                      comment[c].author # Account /\ Author[comment[c].poll] # Account =>
                          /\ c \in DOMAIN comment'
                          /\ comment'[c].shown = comment[c].shown \/ acts' # acts
<1>1. Inv /\ [Next]_vars => [Kept]_vars
  <2> SUFFICES ASSUME Inv, Next PROVE Kept
    BY DEF vars, social
  <2>1. CASE PurgeContent
    <3>1. Shrinks
      BY <2>1, ContentShrinks DEF Inv
    <3> QED
      BY <3>1 DEF Shrinks, By, OwnPolls
  <2>2. CASE FinishRecount
    BY <2>2, FinishingRecount DEF Inv, Types, KeepsRows
  <2>3. CASE \/ PurgeNotifications \/ PurgeModeration \/ StartRecount \/ DropRelations
             \/ CheckResidual \/ CheckCounts \/ DeleteUser \/ Finish
    BY <2>3 DEF PurgeNotifications, PurgeModeration, StartRecount, DropRelations, CheckResidual,
                CheckCounts, DeleteUser, Finish, social
  <2>4. ASSUME NEW u \in Others, OtherUsers(u)
        PROVE  Kept
    <3>1. Elsewhere
      BY <2>4, ActsElsewhere DEF Inv
    <3> QED
      BY <3>1 DEF Elsewhere, Inv, Types, Progress
  <2>5. ASSUME NEW t \in ({"poll"} \X Polls) \cup ({"comment"} \X (DOMAIN comment)), Report(t)
        PROVE  Kept
    BY <2>5 DEF Report
  <2> QED
    BY <2>1, <2>2, <2>3, <2>4, <2>5 DEF Next, Cleanup
<1> QED
  BY <1>1, CleanupInvariant, PTL DEF Spec, OthersKeepTheirComments
===============================================================================
