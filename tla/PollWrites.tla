------------------------------ MODULE PollWrites ------------------------------
(***************************************************************************)
(* One poll in PostgreSQL and what writes to it:                           *)
(* services/api/src/modules/polls/polls.repository.ts; the removal of      *)
(* polls and comments and the blocking of accounts by staff                *)
(* (modules/admin); the deletion of an account, which takes its poll, its  *)
(* comments, its vote and its likes away (modules/account-deletion, the    *)
(* content and relationships steps).                                       *)
(*                                                                         *)
(* Every transaction locks the acting account and then the poll (the likes *)
(* of a comment: the comment), so each is one action.  An action stands    *)
(* for a call that reaches its COMMIT; a call that is refused changes      *)
(* nothing.  The counters and the revisions of polls are columns of their  *)
(* own, maintained next to the rows they count.                            *)
(***************************************************************************)
EXTENDS Naturals, FiniteSets

CONSTANTS
    Users,        \* accounts; one of them wrote the poll
    Owner,
    Options,      \* poll_options
    CommentIds,   \* ids of comments in the order of created_at, which is set when the
                  \* transaction begins: a later commit may well have the smaller id
    MaxWrites,    \* bounds the likes_count of a comment, and Room below
    None

Groups == {"votes", "likes", "comments"}

ASSUME PollAssumption ==
    /\ IsFiniteSet(Users) /\ Owner \in Users
    /\ IsFiniteSet(Options) /\ IsFiniteSet(CommentIds)
    /\ CommentIds \subseteq Nat
    /\ MaxWrites \in Nat
    /\ None \notin Options \cup CommentIds \cup Users

VARIABLES
    life,       \* "live"; "deleted" once polls.deleted_at is set; "removed" when the row is
                \* gone and whatever hung on it: then nothing below is read or written
    open,       \* ends_at has not passed
    counts,     \* votes_count, likes_count, comments_count
    revision,   \* votes_revision, likes_revision, comments_revision
    tally,      \* poll_options.votes_count
    ballot,     \* poll_votes: the option of each voter
    fans,       \* likes of the poll
    comments,   \* the rows of comments
    active,     \* accounts with status active
    deletion    \* how far the deletion of an account is with this poll

pollVars == <<life, open, counts, revision, tally, ballot, fans>>
serverVars == <<life, open, counts, revision, tally, ballot, fans, comments, active, deletion>>

(* No deletion; accepted; the content step has taken a comment away, or    *)
(* its place among the replies; the relationships step has been here.      *)
Stages == {"none", "accepted", "content", "done"}

(* without an author: the row is gone, and its id is not given again *)
Comment == [author : Users \cup {None}, parent : CommentIds \cup {None}, shown : BOOLEAN,
            fans : SUBSET Users, likes : Nat]

ASSUME RowAssumption == None \notin Comment

ServerTypeOK ==
    /\ life \in {"live", "deleted", "removed"}
    /\ open \in BOOLEAN
    /\ counts \in [Groups -> Nat]
    /\ revision \in [Groups -> Nat]
    /\ tally \in [Options -> Nat]
    /\ ballot \in [Users -> Options \cup {None}]
    /\ fans \subseteq Users
    /\ comments \in [CommentIds -> Comment \cup {None}]
    /\ active \subseteq Users
    /\ deletion \in [Users -> Stages]
    /\ \A u \in active : deletion[u] = "none"

(* some comments may have been written already *)
ServerStart(rows) ==
    /\ life = "live" /\ open = TRUE
    /\ counts = [g \in Groups |-> IF g = "comments"
                                  THEN Cardinality({c \in CommentIds : rows[c] # None}) ELSE 0]
    /\ revision = [g \in Groups |-> 0]
    /\ tally = [o \in Options |-> 0]
    /\ ballot = [u \in Users |-> None]
    /\ fans = {}
    /\ comments = rows
    /\ active = Users
    /\ deletion = [u \in Users |-> "none"]

ServerInit == ServerStart([c \in CommentIds |-> None])

Shown == {c \in CommentIds : comments[c] # None /\ comments[c].shown}
Replies(c) == {d \in Shown : comments[d].parent = c}

(* SQL GREATEST(n - k, 0) *)
Minus(n, k) == IF n >= k THEN n - k ELSE 0

(* Bound: the revisions, taken together, and the accounts that are blocked *)
(* or closed.                                                              *)
Revisions == revision["votes"] + revision["likes"] + revision["comments"]
Room == Revisions + Cardinality(Users \ active) < MaxWrites

\* Mutant of Recount: the revision is left alone.
RecountUnrevised(g, n) ==
    /\ counts' = [counts EXCEPT ![g] = n]
    /\ UNCHANGED revision

(* One UPDATE of polls: a counter and its revision in one statement. *)
Recount(g, n) ==
    /\ Room
    /\ counts' = [counts EXCEPT ![g] = n]
    /\ revision' = [revision EXCEPT ![g] = @ + 1]

-----------------------------------------------------------------------------
(* Votes and likes of the poll.  A repeated like, an unlike without a like *)
(* and a cancellation without a vote commit without an effect.             *)

MayWrite(u) == u \in active /\ life = "live"

LikePoll(u) ==
    /\ MayWrite(u)
    /\ \/ /\ u \notin fans
          /\ fans' = fans \cup {u}
          /\ Recount("likes", counts["likes"] + 1)
       \/ u \in fans /\ UNCHANGED <<fans, counts, revision>>
    /\ UNCHANGED <<life, open, tally, ballot, comments, active, deletion>>

UnlikePoll(u) ==
    /\ MayWrite(u)
    /\ \/ /\ u \in fans
          /\ fans' = fans \ {u}
          /\ Recount("likes", Minus(counts["likes"], 1))
       \/ u \notin fans /\ UNCHANGED <<fans, counts, revision>>
    /\ UNCHANGED <<life, open, tally, ballot, comments, active, deletion>>

Vote(u, o) ==
    /\ MayWrite(u) /\ open
    /\ ballot[u] = None
    /\ ballot' = [ballot EXCEPT ![u] = o]
    /\ tally' = [tally EXCEPT ![o] = @ + 1]
    /\ Recount("votes", counts["votes"] + 1)
    /\ UNCHANGED <<life, open, fans, comments, active, deletion>>

CancelVote(u) ==
    /\ MayWrite(u) /\ open
    /\ \/ /\ ballot[u] # None
          /\ ballot' = [ballot EXCEPT ![u] = None]
          /\ tally' = [tally EXCEPT ![ballot[u]] = Minus(@, 1)]
          /\ Recount("votes", Minus(counts["votes"], 1))
       \/ ballot[u] = None /\ UNCHANGED <<ballot, tally, counts, revision>>
    /\ UNCHANGED <<life, open, fans, comments, active, deletion>>

(* deletePollRecord by the owner, deleteAdminPoll by staff *)
DeletePoll(u) ==
    /\ MayWrite(u) /\ u = Owner
    /\ life' = "deleted"
    /\ UNCHANGED <<open, counts, revision, tally, ballot, fans, comments, active, deletion>>

AdminDeletePoll ==
    /\ life = "live"
    /\ life' = "deleted"
    /\ UNCHANGED <<open, counts, revision, tally, ballot, fans, comments, active, deletion>>

ClosePoll ==
    /\ open
    /\ open' = FALSE
    /\ UNCHANGED <<life, counts, revision, tally, ballot, fans, comments, active, deletion>>

-----------------------------------------------------------------------------
(* Comments.  A reply goes to a root that is shown; the answer hydrates    *)
(* the poll, so the write rolls back when the owner is not active.         *)

Fresh(u, parent) == [author |-> u, parent |-> parent, shown |-> TRUE, fans |-> {}, likes |-> 0]

CreateComment(u, c, parent) ==
    /\ MayWrite(u) /\ Owner \in active
    /\ comments[c] = None
    /\ parent = None \/ (parent \in Shown /\ comments[parent].parent = None)
    /\ comments' = [comments EXCEPT ![c] = Fresh(u, parent)]
    /\ Recount("comments", counts["comments"] + 1)
    /\ UNCHANGED <<life, open, tally, ballot, fans, active, deletion>>

Hidden(S) == [c \in CommentIds |-> IF c \in S THEN [comments[c] EXCEPT !.shown = FALSE]
                                   ELSE comments[c]]

\* Mutant of DeleteComment: the replies go uncounted.
DeleteCommentAlone(u, c) ==
    /\ MayWrite(u) /\ Owner \in active
    /\ c \in Shown /\ comments[c].author = u
    /\ comments' = Hidden({c} \cup (IF comments[c].parent = None THEN Replies(c) ELSE {}))
    /\ Recount("comments", Minus(counts["comments"], 1))
    /\ UNCHANGED <<life, open, tally, ballot, fans, active, deletion>>

(* deletePollCommentRecord: a root takes its replies with it *)
DeleteComment(u, c) ==
    /\ MayWrite(u) /\ Owner \in active
    /\ c \in Shown /\ comments[c].author = u
    /\ LET gone == {c} \cup (IF comments[c].parent = None THEN Replies(c) ELSE {})
       IN /\ comments' = Hidden(gone)
          /\ Recount("comments", Minus(counts["comments"], Cardinality(gone)))
    /\ UNCHANGED <<life, open, tally, ballot, fans, active, deletion>>

(* deleteAdminComment: that comment alone, whatever became of the poll *)
AdminDeleteComment(c) ==
    /\ life # "removed"
    /\ c \in Shown
    /\ comments' = Hidden({c})
    /\ Recount("comments", Minus(counts["comments"], 1))
    /\ UNCHANGED <<life, open, tally, ballot, fans, active, deletion>>

(* of one's own or anyone's; repeated or without a like: no effect *)
LikeComment(u, c) ==
    /\ MayWrite(u)
    /\ c \in Shown
    /\ \/ /\ u \notin comments[c].fans /\ comments[c].likes < MaxWrites
          /\ comments' = [comments EXCEPT ![c].fans = @ \cup {u}, ![c].likes = @ + 1]
       \/ u \in comments[c].fans /\ UNCHANGED comments
    /\ UNCHANGED <<pollVars, active, deletion>>

UnlikeComment(u, c) ==
    /\ MayWrite(u)
    /\ c \in Shown
    /\ \/ /\ u \in comments[c].fans
          /\ comments' = [comments EXCEPT ![c].fans = @ \ {u}, ![c].likes = Minus(@, 1)]
       \/ u \notin comments[c].fans /\ UNCHANGED comments
    /\ UNCHANGED <<pollVars, active, deletion>>

(* blockUser and unblockUser, which finds no account that is being deleted *)
BlockUser(u) ==
    /\ Room
    /\ u \in active
    /\ active' = active \ {u}
    /\ UNCHANGED <<pollVars, comments, deletion>>

UnblockUser(u) ==
    /\ u \notin active /\ deletion[u] = "none"
    /\ active' = active \cup {u}
    /\ UNCHANGED <<pollVars, comments, deletion>>

-----------------------------------------------------------------------------
(* Account deletion.  Once it is accepted the account writes no more.      *)
(* Calls of purgeAccountContent, one transaction each, take its poll, then *)
(* its comments in the polls of others, soft-deleted ones included; calls  *)
(* of purgeAccountRelationships then its vote and its likes.  (How a call  *)
(* selects its rows, over several polls: DeletionCleanup.  Bound: a batch  *)
(* of CONTENT_BATCH_SIZE rows is any of them.)                             *)

CloseAccount(u) ==
    /\ Room
    /\ u \in active
    /\ active' = active \ {u}
    /\ deletion' = [deletion EXCEPT ![u] = "accepted"]
    /\ UNCHANGED <<pollVars, comments>>

(* deleteOwnedPollBatch *)
PurgePoll ==
    /\ deletion[Owner] # "none" /\ life # "removed"
    /\ life' = "removed"
    /\ UNCHANGED <<open, counts, revision, tally, ballot, fans, comments, active, deletion>>

Owned(u) == {c \in CommentIds : comments[c] # None /\ comments[c].author = u}
ForeignReplies(u) ==
    {c \in CommentIds : /\ comments[c] # None /\ comments[c].author # u
                        /\ comments[c].parent \in Owned(u)}
LikesOf(u) == {l \in Owned(u) \X Users : l[2] \in comments[l[1]].fans}

ActiveComments == {c \in Shown : comments[c].author \in active}

(* The comments of active authors are counted anew; the statement leaves   *)
(* comments_revision alone.                                                *)
RecountForeignPoll == counts' = [counts EXCEPT !["comments"] = Cardinality(ActiveComments')]

Batches(S) == (SUBSET S) \ {{}}
Detached(S) == [c \in CommentIds |-> IF c \in S THEN [comments[c] EXCEPT !.parent = None]
                                     ELSE comments[c]]
Erased == [author |-> None, parent |-> None, shown |-> FALSE, fans |-> {}, likes |-> 0]

Purging(u) ==
    /\ deletion[u] \in {"accepted", "content"}
    /\ u # Owner /\ life # "removed"
    /\ Owned(u) # {}
    /\ deletion' = [deletion EXCEPT ![u] = "content"]
    /\ UNCHANGED <<life, open, revision, tally, ballot, fans, active>>

(* reparentForeignReplies: replies go to roots, so a reply of another      *)
(* account has no ancestor left and becomes a root                         *)
MoveReplies(u) ==
    /\ Purging(u)
    /\ \E batch \in Batches(ForeignReplies(u)) : comments' = Detached(batch)
    /\ RecountForeignPoll

DetachComments(u) ==
    /\ Purging(u) /\ ForeignReplies(u) = {}
    /\ \E batch \in Batches({c \in Owned(u) : comments[c].parent # None}) :
          comments' = Detached(batch)
    /\ UNCHANGED counts

(* the rows of likes only *)
RemoveCommentLikes(u) ==
    /\ Purging(u) /\ ForeignReplies(u) = {}
    /\ \A c \in Owned(u) : comments[c].parent = None
    /\ \E batch \in Batches(LikesOf(u)) :
          comments' = [c \in CommentIds |->
                         IF c \in Owned(u)
                         THEN [comments[c] EXCEPT !.fans = {v \in @ : <<c, v>> \notin batch}]
                         ELSE comments[c]]
    /\ UNCHANGED counts

EraseComments(u) ==
    /\ Purging(u) /\ ForeignReplies(u) = {} /\ LikesOf(u) = {}
    /\ \A c \in Owned(u) : comments[c].parent = None
    /\ \E batch \in Batches(Owned(u)) :
          comments' = [c \in CommentIds |-> IF c \in batch THEN Erased ELSE comments[c]]
    /\ RecountForeignPoll

(* recountPollRelationships, once for a poll the account had something to  *)
(* do with.  All counters are counted anew; a revision moves when its      *)
(* group changes in this statement.  (replies_count is not modelled: it    *)
(* may differ or not.)                                                     *)
Concerned(u) ==
    \/ deletion[u] = "content" \/ ballot[u] # None \/ u \in fans
    \/ \E c \in CommentIds : comments[c] # None /\ u \in comments[c].fans

RecountRelationships(u) ==
    /\ deletion[u] \in {"accepted", "content"}
    /\ u # Owner /\ life # "removed"
    /\ Owned(u) = {} /\ Concerned(u)
    /\ deletion' = [deletion EXCEPT ![u] = "done"]
    /\ UNCHANGED <<life, open, active>>
    /\ ballot' = [ballot EXCEPT ![u] = None]
    /\ tally' = [o \in Options |-> Cardinality({v \in Users : ballot'[v] = o})]
    /\ fans' = fans \ {u}
    /\ comments' = [c \in CommentIds |->
                      IF comments[c] = None THEN None
                      ELSE [comments[c] EXCEPT !.fans = @ \ {u},
                                               !.likes = Cardinality(comments[c].fans \ {u})]]
    /\ counts' = [votes |-> Cardinality({v \in Users : ballot'[v] # None}),
                  likes |-> Cardinality(fans'),
                  comments |-> Cardinality(ActiveComments')]
    /\ \E replies \in BOOLEAN :
          LET touched == {g \in Groups :
                            \/ counts'[g] # counts[g]
                            \/ g = "votes" /\ <<ballot', tally'>> # <<ballot, tally>>
                            \/ g = "likes" /\ fans' # fans
                            \/ g = "comments" /\ (comments' # comments \/ replies)}
          IN  revision' = [g \in Groups |-> IF g \in touched THEN revision[g] + 1 ELSE revision[g]]
    /\ Revisions' <= MaxWrites

PurgeContent(u) ==
    MoveReplies(u) \/ DetachComments(u) \/ RemoveCommentLikes(u) \/ EraseComments(u)
Purge(u) == PurgeContent(u) \/ RecountRelationships(u)

(* Anybody's writes, in any order: what PollStore and CommentPages let     *)
(* their clients and everyone else do.  The likes of comments are apart:   *)
(* no group of the poll carries them.                                      *)
PollNext ==
    \/ \E u \in Users : \/ LikePoll(u) \/ UnlikePoll(u) \/ CancelVote(u) \/ DeletePoll(u)
                        \/ \E o \in Options : Vote(u, o)
                        \/ BlockUser(u) \/ UnblockUser(u)
                        \/ CloseAccount(u) \/ Purge(u)
    \/ AdminDeletePoll \/ ClosePoll \/ PurgePoll
    \/ \E c \in CommentIds :
          \/ \E u \in Users : \/ \E parent \in CommentIds \cup {None} : CreateComment(u, c, parent)
                              \/ DeleteComment(u, c)
          \/ AdminDeleteComment(c)

ServerNext ==
    \/ PollNext
    \/ \E u \in Users, c \in CommentIds : LikeComment(u, c) \/ UnlikeComment(u, c)

ServerSpec == ServerInit /\ [][ServerNext]_serverVars

-----------------------------------------------------------------------------
(* Properties *)

(* No deletion of an account has rewritten this poll yet.                  *)
Untouched == \A u \in Users : deletion[u] \in {"none", "accepted"}

BeingPurged == {u \in Users : deletion[u] = "content"}

(* The counters and the rows they count agree after any sequence of        *)
(* writes: votes per option and in total, likes, and comments with the     *)
(* replies a deleted root took along.  For comments that is without        *)
(* account deletion, whose recounts leave out the shown comments of        *)
(* blocked authors: after one of them the count is at most the number of   *)
(* shown comments.  The likes_count of a comment is behind its rows only   *)
(* while its author's own rows are taken away.                             *)
CountersMatch ==
    /\ counts["votes"] = Cardinality({u \in Users : ballot[u] # None})
    /\ \A o \in Options : tally[o] = Cardinality({u \in Users : ballot[u] = o})
    /\ counts["likes"] = Cardinality(fans)
    /\ counts["comments"] <= Cardinality(Shown)
    /\ Untouched => counts["comments"] = Cardinality(Shown)
    /\ \A c \in CommentIds : comments[c] # None =>
          /\ comments[c].likes >= Cardinality(comments[c].fans)
          /\ \/ comments[c].likes = Cardinality(comments[c].fans)
             \/ comments[c].author \in BeingPurged

(* A row of comments loses its author (it is gone) or its parent.          *)
Rewritten(c) ==
    /\ comments[c] # None
    /\ <<comments[c].author, comments[c].parent>>' # <<comments[c].author, comments[c].parent>>

(* Whatever a client may show of a group of the poll changes only together *)
(* with the revision of that group, and a revision never goes back: so one *)
(* revision names one payload.  The exception is the content step of an    *)
(* account's deletion: when it takes comments away or moves replies it     *)
(* writes a new commentsCount under the old comments revision, where       *)
(* docs/motion-poll-state-contract.md and docs/prd-account-deletion.md ask *)
(* for a new one.  Its votes and likes are counted like any other.         *)
EveryChangeCounted ==
    [][/\ \A g \in Groups : revision[g]' >= revision[g]
       /\ <<counts["votes"], tally, ballot>>' # <<counts["votes"], tally, ballot>>
            => revision["votes"]' > revision["votes"]
       /\ <<counts["likes"], fans>>' # <<counts["likes"], fans>>
            => revision["likes"]' > revision["likes"]
       /\ <<counts["comments"], Shown>>' # <<counts["comments"], Shown>>
            => \/ revision["comments"]' > revision["comments"]
               \/ \E c \in CommentIds : Rewritten(c)]_serverVars
=============================================================================
