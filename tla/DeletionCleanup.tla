-------------------------- MODULE DeletionCleanup --------------------------
(***************************************************************************)
(* What the cleanup handlers of account deletion do to the social data:    *)
(*   services/api/src/modules/account-deletion/                            *)
(*     account-deletion.notifications.ts, .moderation.ts, .content.ts,     *)
(*     .relationships.ts and .completion.ts                                *)
(* while the other users go on marking, commenting and reporting           *)
(*   (modules/polls/polls.repository.ts, modules/moderation).              *)
(*                                                                         *)
(* One account is being deleted; its operation was accepted, so it does    *)
(* nothing itself any more.  Every transaction is one action, except the   *)
(* recount of the relationships step, which reads and then writes rows     *)
(* that another user may lock and change in between.  DeletionWorker says  *)
(* which handler runs when; here a handler is called until it answers done,*)
(* and a worker that lost its lease may call it once more later ("stale"). *)
(*                                                                         *)
(* Votes and likes of a poll are one relation, marks, told apart by their  *)
(* kind: every statement treats them alike.  A report stands for itself    *)
(* and its moderation case.  The other accounts stay active.  Follows,     *)
(* devices, preferences, push jobs, sanctions, audit rows and media are    *)
(* left out.                                                               *)
(***************************************************************************)
EXTENDS Naturals, FiniteSets, FiniteSetsExt, Functions

CONSTANTS
    Account,         \* the user being deleted
    Others,          \* the other users
    None,            \* SQL NULL
    Author,          \* [poll id -> user]: polls.author_id
    FirstComments,   \* [comment id -> [poll, author, parent, shown]] at acceptance
    FirstMarks,      \* votes and likes of polls at acceptance: <<user, poll, kind>>
    FirstReactions,  \* likes of comments at acceptance: <<user, comment>>
    FirstNotices,    \* notifications at acceptance
    FirstReports,    \* reported targets at acceptance
    Spare,           \* ids of the comments created later
    Batch,           \* LIMIT of every purge (100 in the code)
    Kinds,           \* what the others may do
    Reach,           \* whose polls and comments they do it to
    MaxActs          \* bound on what they do, stale calls included

MarkKinds == {"vote", "like"}
Users     == Others \cup {Account}
Polls     == DOMAIN Author
Comments  == DOMAIN FirstComments

ASSUME BatchAssumption == Batch \in Nat \ {0} /\ MaxActs \in Nat
ASSUME ReachAssumption == Account \notin Others /\ Reach \subseteq Users

\* The foreign keys of the rows at acceptance; ids of polls are above the first cursor.
ASSUME RowsAssumption ==
    /\ None \notin Users \cup Polls \cup Comments \cup Spare
    /\ Polls \subseteq Nat \ {0} /\ \A p \in Polls : Author[p] \in Users
    /\ IsFiniteSet(Comments)
    /\ \A c \in Comments :
         /\ FirstComments[c].poll \in Polls /\ FirstComments[c].author \in Users
         /\ FirstComments[c].parent # None =>
              /\ FirstComments[c].parent \in Comments
              /\ FirstComments[FirstComments[c].parent].poll = FirstComments[c].poll
    /\ IsFiniteSet(FirstMarks) /\ FirstMarks \subseteq Users \X Polls \X MarkKinds
    /\ IsFiniteSet(FirstReactions) /\ FirstReactions \subseteq Users \X Comments
    /\ FirstNotices \subseteq [to : Users, from : Users \cup {None}, poll : Polls \cup {None},
                              comment : Comments \cup {None}]
    /\ FirstReports \subseteq ({"poll"} \X Polls) \cup ({"comment"} \X Comments)

\* The stages of the operation: four of the seven steps, then the statements of the seventh.
Notifications == 1
Moderation    == 2
Content       == 3
Relationships == 4
Residual      == 5     \* hasDatabaseRemainders: RESIDUAL_SQL
Counts        == 6     \* hasDatabaseRemainders: COUNT_CHECK_SQL
Removal       == 7     \* deleteUser
Recheck       == 8     \* hasPostDeleteRemainders and the removal of the targets
Over          == 9

VARIABLES
    poll,       \* rows of polls: id -> [vote, like, comments], the three counters
    comment,    \* rows of comments: id -> [poll, author, parent, shown, likes, replies]
    marks,      \* poll_votes and likes of polls
    reactions,  \* likes of comments
    notices,    \* notifications: [to, from, poll, comment]
    reports,    \* reports and cases that still name their target: <<"poll" or "comment", id>>
    at,         \* the stage
    cursor,     \* cursor_id of the relationships step, 0 for NULL
    touched,    \* account_deletion_content_targets
    doomed,     \* account_deletion_deleted_content_targets
    counted,    \* account_deletion_counter_targets
    reading,    \* the recount under way: what its UPDATE read, or None
    userRow,    \* the users row exists
    acts        \* what the others did so far, at most MaxActs

social  == <<poll, comment, marks, reactions, notices, reports>>
targets == <<touched, doomed, counted>>
vars    == <<social, targets, at, cursor, reading, userRow, acts>>

-----------------------------------------------------------------------------
(* Reading the rows *)

CommentsOn(p)  == {c \in DOMAIN comment : comment[c].poll = p}
By(u)          == {c \in DOMAIN comment : comment[c].author = u}
RepliesTo(c)   == {r \in DOMAIN comment : comment[r].parent = c}
OwnPolls       == {p \in DOMAIN poll : Author[p] = Account}
OwnComments(p) == CommentsOn(p) \cap By(Account)

Listed(kind, T) == {t[2] : t \in {x \in T : x[1] = kind}}

MarkCount(p, m)  == Cardinality({x \in marks : x[2] = p /\ x[3] = m})
LikeCount(c)     == Cardinality({x \in reactions : x[2] = c})
CommentCount(p)  == Cardinality({c \in CommentsOn(p) : comment[c].shown /\ comment[c].author # Account})
ReplyCount(c)    == Cardinality({r \in RepliesTo(c) : comment[r].shown /\ comment[r].author # Account})

Init ==
    /\ marks     = FirstMarks
    /\ reactions = FirstReactions
    /\ notices   = FirstNotices
    /\ reports   = FirstReports
    /\ comment   = [c \in DOMAIN FirstComments |->
                      [poll |-> FirstComments[c].poll, author |-> FirstComments[c].author,
                       parent |-> FirstComments[c].parent, shown |-> TRUE,
                       likes |-> LikeCount(c), replies |-> 0]]
    /\ poll      = [p \in Polls |->
                      [vote |-> MarkCount(p, "vote"), like |-> MarkCount(p, "like"),
                       comments |-> Cardinality({c \in DOMAIN FirstComments : FirstComments[c].poll = p})]]
    /\ at = Notifications /\ cursor = 0
    /\ touched = {} /\ doomed = {} /\ counted = {}
    /\ reading = None /\ userRow = TRUE /\ acts = 0

-----------------------------------------------------------------------------
(* The other users *)

Act(kind) ==
    /\ kind \in Kinds
    /\ acts < MaxActs
    /\ acts' = acts + 1

\* The recount holds its poll FOR UPDATE.
Locked(p) == reading # None /\ reading.poll = p

\* The comment and its poll are within Reach.
Within(c) == {comment[c].author, Author[comment[c].poll]} \subseteq Reach

\* createNotification, in the transaction of the act.
Notify(to, from, p, c) ==
    notices' = notices \cup
       (IF to = from THEN {} ELSE {[to |-> to, from |-> from, poll |-> p, comment |-> c]})

Bystanders == <<targets, at, cursor, reading, userRow>>

\* createVoteRecord, likePollRecord: the author's status is not looked at.
Mark(u, p, m) ==
    /\ Act("mark")
    /\ p \in DOMAIN poll /\ ~Locked(p) /\ Author[p] \in Reach
    /\ <<u, p, m>> \notin marks
    /\ marks' = marks \cup {<<u, p, m>>}
    /\ poll' = [poll EXCEPT ![p][m] = @ + 1]
    /\ Notify(Author[p], u, p, None)
    /\ UNCHANGED <<comment, reactions, reports, Bystanders>>

\* cancelVoteRecord, unlikePollRecord
Unmark(u, p, m) ==
    /\ Act("mark")
    /\ p \in DOMAIN poll /\ ~Locked(p)
    /\ <<u, p, m>> \in marks
    /\ marks' = marks \ {<<u, p, m>>}
    /\ poll' = [poll EXCEPT ![p][m] = Max({@ - 1, 0})]
    /\ UNCHANGED <<comment, reactions, notices, reports, Bystanders>>

\* createPollCommentRecord: under an inactive author's poll hydratePolls finds nothing and the
\* transaction is rolled back; under an inactive author's comment a reply goes through.
CreateComment(u, p, parent, c) ==
    /\ Act(IF parent = None THEN "comment" ELSE "reply")
    /\ p \in DOMAIN poll /\ ~Locked(p) /\ Author[p] # Account
    /\ parent # None => /\ parent \in CommentsOn(p)
                        /\ comment[parent].parent = None /\ comment[parent].shown
                        /\ Within(parent)
    /\ comment' = [x \in DOMAIN comment \cup {c} |->
                     IF x = c THEN [poll |-> p, author |-> u, parent |-> parent, shown |-> TRUE,
                                    likes |-> 0, replies |-> 0]
                              ELSE comment[x]]
    /\ poll' = [poll EXCEPT ![p].comments = @ + 1]
    /\ Notify(IF parent = None THEN Author[p] ELSE comment[parent].author, u, p, c)
    /\ UNCHANGED <<marks, reactions, reports, Bystanders>>

\* deletePollCommentRecord: a soft delete, with the replies of a top-level comment.
DeleteComment(u, c) ==
    LET p    == comment[c].poll
        gone == {c} \cup (IF comment[c].parent = None
                            THEN {r \in RepliesTo(c) : comment[r].shown} ELSE {})
    IN  /\ Act("deleteComment")
        /\ comment[c].author = u /\ comment[c].shown
        /\ ~Locked(p) /\ Author[p] # Account
        /\ comment' = [x \in DOMAIN comment |->
                         IF x \in gone THEN [comment[x] EXCEPT !.shown = FALSE] ELSE comment[x]]
        /\ poll' = [poll EXCEPT ![p].comments = IF @ < Cardinality(gone) THEN 0 ELSE @ - Cardinality(gone)]
        /\ UNCHANGED <<marks, reactions, notices, reports, Bystanders>>

\* likeCommentRecord locks the comment and not its poll.
React(u, c) ==
    /\ Act("likeComment")
    /\ comment[c].shown /\ Within(c)
    /\ <<u, c>> \notin reactions
    /\ reactions' = reactions \cup {<<u, c>>}
    /\ comment' = [comment EXCEPT ![c].likes = @ + 1]
    /\ Notify(comment[c].author, u, comment[c].poll, c)
    /\ UNCHANGED <<poll, marks, reports, Bystanders>>

\* unlikeCommentRecord
Unreact(u, c) ==
    /\ Act("likeComment")
    /\ comment[c].shown
    /\ <<u, c>> \in reactions
    /\ reactions' = reactions \ {<<u, c>>}
    /\ comment' = [comment EXCEPT ![c].likes = Max({@ - 1, 0})]
    /\ UNCHANGED <<poll, marks, notices, reports, Bystanders>>

\* createReport opens a report and a case.
Report(t) ==
    /\ Act("report")
    /\ \/ t[1] = "poll" /\ t[2] \in DOMAIN poll /\ ~Locked(t[2]) /\ Author[t[2]] \in Reach
       \/ t[1] = "comment" /\ t[2] \in DOMAIN comment /\ comment[t[2]].shown
                           /\ Within(t[2])
    /\ reports' = reports \cup {t}
    /\ UNCHANGED <<poll, comment, marks, reactions, notices, Bystanders>>

-----------------------------------------------------------------------------
(* A call of a handler *)

\* The handler of stage s is called by the worker, or again by one that is late.
Calls(s) ==
    \/ at = s /\ UNCHANGED acts
    \/ at > s /\ Act("stale")

\* The answer counts only for the worker whose step it is.
Answer(s, done) == at' = IF at = s /\ done THEN s + 1 ELSE at

\* ORDER BY ... LIMIT: the ids are random, so any of the first rows.
Portion(S) == kSubset(Min({Batch, Cardinality(S)}), S)

\* loadDeletion: the polls and comments notifications and reports are searched for.
NamedPolls    == Listed("poll", touched) \cup OwnPolls
NamedComments == Listed("comment", touched) \cup By(Account)
                   \cup {c \in DOMAIN comment : comment[c].poll \in OwnPolls}

Noticed == {n \in notices : \/ Account \in {n.to, n.from}
                            \/ n.poll \in NamedPolls
                            \/ n.comment \in NamedComments}

\* purgeAccountNotifications
PurgeNotifications ==
    /\ Calls(Notifications)
    /\ IF Noticed = {}
         THEN UNCHANGED notices
         ELSE \E N \in Portion(Noticed) : notices' = notices \ N
    /\ Answer(Notifications, Noticed = {})
    /\ UNCHANGED <<poll, comment, marks, reactions, reports, targets, cursor, reading, userRow>>

\* purgeAccountModerationData: target_id is set to NULL, in the report and in its case.
Reported == {t \in reports : \/ t[1] = "poll" /\ t[2] \in NamedPolls
                             \/ t[1] = "comment" /\ t[2] \in NamedComments}

PurgeModeration ==
    /\ Calls(Moderation)
    /\ IF Reported = {}
         THEN UNCHANGED reports
         ELSE \E T \in Portion(Reported) : reports' = reports \ T
    /\ Answer(Moderation, Reported = {})
    /\ UNCHANGED <<poll, comment, marks, reactions, notices, targets, cursor, reading, userRow>>

-----------------------------------------------------------------------------
(* purgeAccountContent: one transaction per call, holding the operation row *)

\* rememberTargets
TouchedNow ==
    ({"poll"} \X (OwnPolls \cup {comment[c].poll : c \in By(Account)}))
    \cup ({"comment"} \X {comment[c].parent : c \in
             {d \in By(Account) : /\ Author[comment[d].poll] # Account
                                  /\ comment[d].parent # None
                                  /\ comment[comment[d].parent].author # Account}})
DoomedNow ==
    ({"poll"} \X OwnPolls)
    \cup ({"comment"} \X (By(Account) \cup {c \in DOMAIN comment : comment[c].poll \in OwnPolls}))

\* DELETE with its cascades: notifications.poll_id and comment_id ON DELETE SET NULL, all the
\* rest ON DELETE CASCADE.
DeleteRows(P, C) ==
    LET dead == C \cup {c \in DOMAIN comment : comment[c].poll \in P \/ comment[c].parent \in C}
    IN  /\ poll' = Restrict(poll, DOMAIN poll \ P)
        /\ comment' = Restrict(comment, DOMAIN comment \ dead)
        /\ marks' = {x \in marks : x[2] \notin P}
        /\ reactions' = {x \in reactions : x[2] \notin dead}
        /\ notices' = {[n EXCEPT !.poll = IF @ \in P THEN None ELSE @,
                                 !.comment = IF @ \in dead THEN None ELSE @] : n \in notices}

DeleteOwnPolls ==
    \E P \in Portion(OwnPolls) : DeleteRows(P, {})

\* Mutant of Hosts: only comments that are not soft-deleted are looked for.
HostsOfShown == {p \in DOMAIN poll : Author[p] # Account /\ \E c \in OwnComments(p) : comment[c].shown}

\* findForeignPollWithOwnedComments: the first by id.
Hosts == {p \in DOMAIN poll : Author[p] # Account /\ OwnComments(p) # {}}

\* recountForeignPoll over a new table of comments: the poll, and the remembered parents on it.
RecountForeignPoll(p, table, parents) ==
    LET shown(S)  == Cardinality({c \in S : table[c].shown /\ table[c].author # Account})
        replies(c) == {r \in DOMAIN table : table[r].parent = c}
    IN  /\ comment' = [c \in DOMAIN table |->
                         IF table[c].poll = p /\ c \in parents
                           THEN [table[c] EXCEPT !.replies = shown(replies(c))] ELSE table[c]]
        /\ poll' = [poll EXCEPT ![p].comments = shown({c \in DOMAIN table : table[c].poll = p})]

\* Mutant of Orphans: soft-deleted replies are left under the account's comments.
ShownOrphans(p) == {c \in CommentsOn(p) : /\ comment[c].author # Account /\ comment[c].shown
                                          /\ comment[c].parent \in By(Account)}

\* reparentForeignReplies
Orphans(p) == {c \in CommentsOn(p) : /\ comment[c].author # Account
                                     /\ comment[c].parent \in By(Account)}

\* The nearest ancestor that is not the account's and not deleted; threads have two levels.
Survivor(c) ==
    LET up == comment[comment[c].parent].parent
    IN  IF up # None /\ comment[up].author # Account /\ comment[up].shown THEN up ELSE None

ReparentReplies(p) ==
    \E C \in Portion(Orphans(p)) :
        LET found == {Survivor(c) : c \in C} \ {None}
            table == [c \in DOMAIN comment |->
                        IF c \in C THEN [comment[c] EXCEPT !.parent = Survivor(c)] ELSE comment[c]]
        IN  /\ touched' = touched \cup TouchedNow \cup ({"comment"} \X found)
            /\ RecountForeignPoll(p, table, Listed("comment", touched \cup TouchedNow) \cup found)
            /\ UNCHANGED <<marks, reactions, notices>>

\* detachOwnedCommentParents
Attached(p) == {c \in OwnComments(p) : comment[c].parent # None}

DetachParents(p) ==
    \E C \in Portion(Attached(p)) :
        /\ comment' = [c \in DOMAIN comment |->
                         IF c \in C THEN [comment[c] EXCEPT !.parent = None] ELSE comment[c]]
        /\ UNCHANGED <<poll, marks, reactions, notices>>

\* removeOwnedCommentReactions
Liked(p) == {x \in reactions : x[2] \in OwnComments(p)}

RemoveReactions(p) ==
    \E X \in Portion(Liked(p)) :
        /\ reactions' = reactions \ X
        /\ UNCHANGED <<poll, comment, marks, notices>>

\* Mutant of DeleteComments: without the recount.
DeleteCommentsUncounted(p) ==
    \E C \in Portion(OwnComments(p)) :
        LET dead == C \cup UNION {RepliesTo(c) : c \in C}
        IN  /\ comment' = Restrict(comment, DOMAIN comment \ dead)
            /\ reactions' = {x \in reactions : x[2] \notin dead}
            /\ notices' = {[n EXCEPT !.comment = IF @ \in dead THEN None ELSE @] : n \in notices}
            /\ UNCHANGED <<poll, marks>>

\* deleteOwnedCommentBatch and the recount
DeleteComments(p) ==
    \E C \in Portion(OwnComments(p)) :
        LET dead  == C \cup UNION {RepliesTo(c) : c \in C}
            table == Restrict(comment, DOMAIN comment \ dead)
        IN  /\ RecountForeignPoll(p, table, Listed("comment", touched \cup TouchedNow))
            /\ reactions' = {x \in reactions : x[2] \notin dead}
            /\ notices' = {[n EXCEPT !.comment = IF @ \in dead THEN None ELSE @] : n \in notices}
            /\ UNCHANGED marks

PurgeContent ==
    /\ Calls(Content)
    /\ reading = None
    /\ doomed' = doomed \cup DoomedNow
    /\ counted' = counted \cup touched \cup TouchedNow
    /\ Answer(Content, OwnPolls = {} /\ Hosts = {})
    /\ IF OwnPolls # {} THEN
            DeleteOwnPolls /\ touched' = touched \cup TouchedNow
       ELSE IF Hosts = {} THEN
            UNCHANGED <<poll, comment, marks, reactions, notices>> /\ touched' = touched \cup TouchedNow
       ELSE \E p \in Hosts :
            /\ \A q \in Hosts : p <= q
            /\ IF Orphans(p) # {} THEN ReparentReplies(p)
               ELSE /\ touched' = touched \cup TouchedNow
                    /\ IF Attached(p) # {} THEN DetachParents(p)
                       ELSE IF Liked(p) # {} THEN RemoveReactions(p)
                       ELSE DeleteComments(p)
    /\ UNCHANGED <<reports, cursor, reading, userRow>>

-----------------------------------------------------------------------------
(* purgeAccountRelationships *)

OwnMarks     == {x \in marks : x[1] = Account}
OwnReactions == {x \in reactions : x[1] = Account}

\* rememberCounterTargets
CountedNow ==
    ({"poll"} \X ({x[2] : x \in OwnMarks} \cup {comment[x[2]].poll : x \in OwnReactions}))
    \cup ({"comment"} \X {x[2] : x \in OwnReactions})

\* Mutant of Affected: only where the account commented.
AffectedByComments == Listed("poll", touched)

\* getNextAffectedPoll
Affected ==
    Listed("poll", touched) \cup {x[2] : x \in OwnMarks}
    \cup {comment[c].poll : c \in (Listed("comment", touched) \cap DOMAIN comment)
                                    \cup {x[2] : x \in OwnReactions}}

\* Mutant of NextPoll: the cursor is not looked at.
NextPollFromStart == Affected

NextPoll == {p \in Affected : p > cursor}

\* recountPollRelationships, up to the moment its UPDATE of the comments has taken its
\* snapshot: the poll is locked, the comments are not.  What it read is in reading.
StartRecount ==
    /\ Calls(Relationships)
    /\ reading = None
    /\ \E p \in NextPoll :
          LET likes == [c \in CommentsOn(p) |->
                          Cardinality({x \in reactions : x[2] = c /\ x[1] # Account})]
              stale == {c \in CommentsOn(p) : \/ comment[c].likes # likes[c]
                                              \/ comment[c].replies # ReplyCount(c)}
          IN  /\ \A q \in NextPoll : p <= q
              /\ reading' = [poll |-> p, likes |-> Restrict(likes, stale)]
    /\ UNCHANGED <<social, targets, at, cursor, userRow>>

\* The UPDATE writes what was read, whatever happened to the rows since; then the poll's
\* counters, the cursor and the commit.
FinishRecount ==
    /\ reading # None
    /\ LET p    == reading.poll
           kept == {x \in marks : ~(x[1] = Account /\ x[2] = p)}
       IN /\ marks' = kept
          /\ reactions' = {x \in reactions : ~(x[1] = Account /\ x[2] \in CommentsOn(p))}
          /\ comment' = [c \in DOMAIN comment |->
                           IF c \in DOMAIN reading.likes
                             THEN [comment[c] EXCEPT !.likes = reading.likes[c], !.replies = ReplyCount(c)]
                             ELSE comment[c]]
          /\ poll' = IF p \in DOMAIN poll
                       THEN [poll EXCEPT ![p] =
                              [vote |-> Cardinality({x \in kept : x[2] = p /\ x[3] = "vote"}),
                               like |-> Cardinality({x \in kept : x[2] = p /\ x[3] = "like"}),
                               comments |-> CommentCount(p)]]
                       ELSE poll
          /\ cursor' = p
    /\ counted' = counted \cup CountedNow
    /\ reading' = None
    /\ UNCHANGED <<notices, reports, touched, doomed, at, userRow, acts>>

\* No poll is left: the rest of the account's relations go without a recount.
DropRelations ==
    /\ Calls(Relationships)
    /\ reading = None
    /\ NextPoll = {}
    /\ marks' = marks \ OwnMarks
    /\ reactions' = reactions \ OwnReactions
    /\ counted' = counted \cup CountedNow
    /\ Answer(Relationships, TRUE)
    /\ UNCHANGED <<poll, comment, notices, reports, touched, doomed, cursor, reading, userRow>>

-----------------------------------------------------------------------------
(* verifyAndCompleteDeletion *)

\* Mutant of ResidualReports: reports are not looked for.
NoReports == {}

ResidualReports == reports \cap doomed

\* RESIDUAL_SQL
ResidualNotices ==
    {n \in notices : \/ Account \in {n.to, n.from}
                     \/ n.poll \in Listed("poll", doomed)
                     \/ n.comment \in Listed("comment", doomed)}
Remainders ==
    \/ OwnPolls # {} \/ OwnMarks # {} \/ OwnReactions # {} \/ By(Account) # {}
    \/ \E c \in DOMAIN comment : comment[c].parent \in Listed("comment", doomed)
    \/ \E x \in marks : x[2] \in Listed("poll", doomed)
    \/ \E x \in reactions : x[2] \in Listed("comment", doomed)
    \/ ResidualNotices # {} \/ ResidualReports # {}

\* COUNT_CHECK_SQL
CheckedComments == Listed("comment", touched \cup counted) \cap DOMAIN comment
CheckedPolls ==
    (Listed("poll", touched \cup counted) \cap DOMAIN poll)
    \cup {comment[c].poll : c \in CheckedComments}
Miscounted ==
    \/ \E p \in CheckedPolls : \/ \E m \in MarkKinds : poll[p][m] # MarkCount(p, m)
                               \/ poll[p].comments # CommentCount(p)
    \/ \E c \in CheckedComments : \/ comment[c].replies # ReplyCount(c)
                                  \/ comment[c].likes # LikeCount(c)

\* hasDatabaseRemainders sends both queries at once; each sees the rows of its own moment.
CheckResidual ==
    /\ at = Residual
    /\ ~Remainders
    /\ at' = Counts
    /\ UNCHANGED <<social, targets, cursor, reading, userRow, acts>>

CheckCounts ==
    /\ at = Counts
    /\ at' = IF Miscounted THEN Residual ELSE Removal
    /\ UNCHANGED <<social, targets, cursor, reading, userRow, acts>>

\* deleteUser: what still belongs to the account goes with the row.
DeleteUser ==
    /\ at = Removal
    /\ reading = None
    /\ at' = Recheck
    /\ userRow' = FALSE
    /\ marks' = marks \ OwnMarks
    /\ reactions' = reactions \ OwnReactions
    /\ notices' = {[n EXCEPT !.from = IF @ = Account THEN None ELSE @] :
                     n \in {m \in notices : m.to # Account}}
    /\ UNCHANGED <<poll, comment, reports, targets, cursor, reading, acts>>

\* hasPostDeleteRemainders, then removeContentTargets and its siblings.
Finish ==
    /\ at = Recheck
    /\ IF Remainders \/ Miscounted
         THEN at' = Residual /\ UNCHANGED targets
         ELSE at' = Over /\ touched' = {} /\ doomed' = {} /\ counted' = {}
    /\ UNCHANGED <<social, cursor, reading, userRow, acts>>

-----------------------------------------------------------------------------
(* The specification *)

Cleanup ==
    \/ PurgeNotifications \/ PurgeModeration \/ PurgeContent
    \/ StartRecount \/ FinishRecount \/ DropRelations
    \/ CheckResidual \/ CheckCounts \/ DeleteUser \/ Finish

OtherUsers(u) ==
    \/ \E p \in Polls, m \in MarkKinds : Mark(u, p, m) \/ Unmark(u, p, m)
    \/ \E p \in DOMAIN poll, parent \in DOMAIN comment \cup {None}, c \in Spare \ DOMAIN comment :
          /\ \A d \in Spare \ DOMAIN comment : c <= d
          /\ CreateComment(u, p, parent, c)
    \/ \E c \in DOMAIN comment : DeleteComment(u, c) \/ React(u, c) \/ Unreact(u, c)

Next ==
    \/ Cleanup
    \/ \E u \in Others : OtherUsers(u)
    \/ \E t \in ({"poll"} \X Polls) \cup ({"comment"} \X DOMAIN comment) : Report(t)

Spec == Init /\ [][Next]_vars

\* The worker calls the handlers until the operation is completed.
FairSpec == Spec /\ WF_vars(Cleanup)

-----------------------------------------------------------------------------
(* Properties *)

TypeOK ==
    /\ DOMAIN poll \subseteq Polls
    /\ \A p \in DOMAIN poll : poll[p] \in [vote : Nat, like : Nat, comments : Nat]
    /\ \A c \in DOMAIN comment :
         /\ comment[c].poll \in DOMAIN poll
         /\ comment[c].author \in Users
         /\ comment[c].parent \in {None} \cup CommentsOn(comment[c].poll)
         /\ comment[c].likes \in Nat /\ comment[c].replies \in Nat
    /\ \A x \in marks : x[1] \in Users /\ x[2] \in DOMAIN poll /\ x[3] \in MarkKinds
    /\ \A x \in reactions : x[1] \in Users /\ x[2] \in DOMAIN comment
    /\ at \in Notifications .. Over
    /\ acts \in 0 .. MaxActs

\* Once the users row is gone nothing in the database is the account's or names its content:
\* no comment, vote, like, notification or report, whoever made it and whenever.
ErasedClean ==
    ~userRow =>
        /\ OwnPolls = {} /\ By(Account) = {} /\ OwnMarks = {} /\ OwnReactions = {}
        /\ \A n \in notices : /\ Account \notin {n.to, n.from}
                              /\ n.poll \in DOMAIN poll \cup {None}
                              /\ n.comment \in DOMAIN comment \cup {None}
        /\ \A t \in reports : t[2] \in DOMAIN poll \cup DOMAIN comment

\* The vote and like counters of every poll are right at every moment, through the removal of
\* the account's votes and likes and every concurrent vote.  Once the account's comments are gone,
\* so is every error of the comment counters: they agree with the comments that are shown,
\* although deletion, soft deletion and comments interleave.
PollsCounted ==
    /\ \A p \in DOMAIN poll, m \in MarkKinds : poll[p][m] = MarkCount(p, m)
    /\ at > Content => \A p \in DOMAIN poll : poll[p].comments = CommentCount(p)

\* The account's content does not come back after its cleanup, whatever a late worker does.
ContentStaysGone ==
    at > Content => OwnPolls = {} /\ By(Account) = {}

\* What others wrote under polls that stay is never deleted or hidden with the account's
\* comments: a foreign reply, soft-deleted or not, is moved away before its parent goes.
OthersKeepTheirComments ==
    [][\A c \in DOMAIN comment :
          comment[c].author # Account /\ Author[comment[c].poll] # Account =>
              /\ c \in DOMAIN comment'
              /\ comment'[c].shown = comment[c].shown \/ acts' # acts]_vars

\* Whatever others do meanwhile, the operation is completed in the end, or what it leaves open is
\* one of the rows no step comes back to: a notification or a report written after the step that
\* removes them, or a counter of a comment.  Content of the account, its votes and likes, and the
\* counters of polls never keep it open.
CompletesOrNamesWhy ==
    <>[](\/ at = Over
         \/ ResidualNotices # {} \/ ResidualReports # {}
         \/ \E c \in DOMAIN comment : \/ comment[c].replies # ReplyCount(c)
                                     \/ comment[c].likes # LikeCount(c))

\* The operation is completed and the users row removed.
Completes == <>(at = Over)
=============================================================================
