# Verification of yaskapp

TLA+ models of yaskapp, a social polls application: a Fastify API over PostgreSQL, Redis and
S3 (`services/api`), a web client (`apps/web`), a Flutter client (`apps/mobile`), a moderation
client (`apps/moderation-web`). Source paths below are relative to the repository; API paths
start at `services/api/src`, those of the web client at `apps/web/src`.

The project follows one account through the system. What others and the account itself write
(`PollWrites`), what a browser tab shows of it while answers overtake each other (`PollStore`,
`CommentPages`, `Inbox`), the sockets that carry the events (`RealtimeSockets`), the pushes
(`PushJobs`), the objects it uploads (`AccountMedia`), the sanctions that end its sessions
(`Moderation`), and its deletion: accepted in one database and recorded in another
(`DeletionAcceptance`), driven through seven steps under a lease (`DeletionWorker`), erased while
everybody else goes on (`DeletionCleanup`).

## Inventory

| Component | State | Operations | Hard behaviour | What makes it correct |
| --- | --- | --- | --- | --- |
| Deletion worker (`account-deletion.worker.ts`, `run-account-deletion-worker.ts`) | rows of operations and steps; per process: batch, owner id, current step | claim, next step, mark, renew, yield, retry, complete | several processes, crashes, stolen leases, late renewals | ordered steps, one writer, completion means erased, every request served |
| Cleanup handlers (`account-deletion.{notifications,moderation,content,relationships,completion}.ts`) | polls, comments, votes, likes, counters, remembered targets | one bounded transaction per call, final checks | other users' writes in between, late workers | nothing of the account is left, counters right, foreign comments kept, completion reached |
| Acceptance (`account-deletion.{service,repository,routes,verification}.ts`) | permissions, operation, user | verify, prepare, accept, replay, status | lost answers, double submits, last superadmin | one accepted operation per user, never without the account closed |
| Journal and restore (`account-deletion.{journal,restore}.ts`) | journal entries beside the database | prepare, accept, reconcile, reapply | crash between two stores | an accepted deletion survives a restore |
| Media (`account-deletion.media.ts`) | manifest rows with claims, objects | discover, purge, verify | stale discovery, partial failure | no object left at completion |
| Outboxes (`account-deletion.events.ts`, `dispatchPendingRelationshipEvents`) | event rows with leases | claim, publish, mark | at-least-once | every event published |
| Push worker (`jobs/notification-push-worker.ts`, devices, account guard) | push jobs, devices, row locks | claim, lock, send, revoke, mark, retry | deadlocks, leases never renewed, crash mid-send | no stale push, no loss, bounded retries |
| Polls, votes, likes, comments (`modules/polls`) | rows, counters, revisions | vote, cancel, like, comment, delete | concurrent counters, revisions | counters equal rows, revisions grow |
| Feed snapshots and pagination | snapshots, cursors | create, read, expire | pages while the feed changes | no duplicates or holes within a snapshot |
| Notifications (`modules/notifications`) | notifications, read marks | create, list, mark read | deduplication, read all racing a new one | at most one per key, unread count right |
| Realtime (`realtime`) | sockets, subscriptions, bus | connect, publish, disconnect | instances, closed accounts, reordering | nothing to a closed account |
| Auth and sessions (`modules/auth`) | session_version, tokens | login, refresh, logout, revoke | tokens that are still out | a revoked token opens nothing |
| Administration, moderation, sanctions, appeals | roles, cases, sanctions, idempotency keys, audit | change role, block, resolve, sanction, appeal | concurrent admins, retried requests | a superadmin remains, one effect per key |
| Profiles and follows | profiles, follow counters | follow, unfollow, edit | concurrent counters | counters equal rows |
| Web and mobile state (`poll-state.ts`, `poll_state_store.dart`, `cursor_list_controller.dart`, notification stores, realtime clients) | cached polls by revision, pages, generations | merge, optimistic vote, load, refresh | answers out of order, user changes | the newest revision wins, nothing from another session |
| Search, health, rate limits, storage wrappers, migrations, deployment, screens | | | | not modelled: reads, I/O, configuration, layout |

How they interact. The API accepts a deletion in one transaction (operation, steps, closed
account), which the deletion worker polls for. The handlers share the social tables with every
other request. Writers lock users rows first (`account-activity.guard.ts`), then polls and
comments; a comment like takes the comment and not the poll. A notification and its push job
are inserted in the transaction of the act they report; the push worker takes the job later and
locks the same users rows. Realtime events are sent after the commit, to the sockets of the
process and over Redis to every process; a client that missed one reads again. Objects in the
store are written before the row that names them, under the lock of the account. PROJECT.json
lists every component with its state of modelling, and every hazard with its line.

Composition. `PollStore` and `CommentPages` extend `PollWrites`: the same writes run next to the
tab, by the tab's own requests and by anybody else. Each of the others stands alone and says in
its header which module has the other side.

## Modules

### PollWrites

One poll in PostgreSQL: votes, likes, comments with one level of replies, likes of comments, the
soft deletion of the poll and of a thread, removal by staff, blocked accounts, the end of voting,
and the deletion of accounts. Every transaction locks the acting account and then the poll or the
comment, so it is one action; a call that is refused changes nothing. Stored counters (`counts`,
`tally`, `likes` of a comment) and the three revisions of `polls` are columns of their own next to
the rows they count. An id of a comment is its place in the order of `created_at`, which is set when
the transaction begins, so a later commit may have the smaller id.

What the deletion of an account writes here: `CloseAccount` accepts it, `PurgePoll` takes its poll,
`MoveReplies`, `DetachComments`, `RemoveCommentLikes` and `EraseComments` are the calls of the
content step under a poll of somebody else, `RecountRelationships` the call of the relationships
step that takes its vote and likes away and counts everything anew. `deletion[u]` says how far it
is. `RecountForeignPoll` counts the comments of active authors and leaves `comments_revision`
alone; the later recount gives a new revision only to a group it still finds changed. So
`CountersMatch` asks for equal comment counts without account deletion only, and
`EveryChangeCounted` names the one kind of step that breaks the rule. How a call selects its rows
over several polls, and what meets it there, is in `DeletionCleanup`.

### PollStore, PollProofs (also of PollWrites and CommentPages)

The poll as one tab knows it (`features/polls/poll-state.ts`, `usePollMutations.ts`,
`app/session-provider.tsx`), on top of `PollWrites`. `request[slot]` is what is in the air: the
like, the vote, the deletion, a reading, and the reading that follows a failure or a conflict
(`reconcile`). `Serve*` is what the server does and answers, `Receive` what `onSuccess`, `onError`
and `onSettled` do with it, `Lose` a request without an answer, with or without effect. `Ingest`
is `mergePollSnapshot` with the tombstone and the conflict check, `SwitchUser` a change of
session, `Focus` the reading when the page becomes visible or the socket ready. No realtime event
of the web client carries a poll. `Others` is anybody's write of `PollWrites`, comments and account
deletion included.

### CommentPages

A list of comments read page by page (`comment-state.ts`, `CommentList.tsx`, `CommentThread.tsx`,
the queries of `polls.repository.ts`): roots newest first, or the replies to one root oldest
first. TanStack Query is external, modelled from its use: one fetch at a time, an append extends
the pages it saw when it began, a refetch reads the chain anew and replaces it at its end. Next
to the cache the tab keeps its overlay of created, deleted and liked comments with the revision
of reactions that tells a page read before a like from one read after it. `steady` is history:
what has been available ever since the first page of a chain was read. The items of a page are a
set: within a page the order is that of the ids (`Before`), and no property is about more of it.

### Inbox, RealtimeProofs

Notifications from the INSERT to the badge. `Begin` and `Commit` are apart because `created_at`
orders the pages and is older than the commit. A change is published to the process and over the
bus; `Handle` reads the row anew, `Spent` is the last copy of an event. On the tab's side
`Reconcile` is the single flight of `reconcile()`, `epoch` the guard of every dispatch,
`Press*` the optimistic marks with their rollback, `SwitchUser` and `Mount` the change of session.

### RealtimeSockets, RealtimeProofs

Who holds a socket: `Connect` (upgrade), `Authenticate`, `Register`, `RemoveClient`, the look at
the account before every delivery and in the sweep (`Look`, `Read`, `Deliver`), `Disconnect`,
subscription of the bus, restarts, and the client that reconnects (`ClientCloses`, `SignOut`).
`accepted` are the clients whose token `authenticate` still takes: `TokenExpires` ends it with time,
`RevokeSessions` with a ban or a logout elsewhere, and neither closes a socket that is registered.
`Claim`, `Publish`, `MarkDelivered`, `ScheduleRetry` are the outbox of `access_revoked` events
(`account-deletion.events.ts`), whose leases end while their process is still at work.

### AccountMedia, AccountMediaProofs

The objects of one account in a bucket with or without versions: uploads of poll images and
avatars with their compensations, the day after which orphans are collected, and the deletion of
the account with its manifest, two workers and their leases. `LeaseEnds` is a lease that was not
renewed in time; a worker that lost it goes on with the statements that do not look at it. An
upload that fails after the account was closed sets the media and completion steps back to
pending (`Enqueue`), also of an operation that was completed. A poll whose COMMIT took effect
although its answer was an error is "unheard" (third branch of `CreateFails`): it is live, and the
request goes on to remove its image. A call of the store that fails may have taken effect, too
(`CleanUpFails`). `former[k]` is the avatar that the
upload of `k` read as the one it replaces (`previousObjectKey`); an upload that fails before it
names its object replaces none (`ReplacesNone`). `GivenUp` names the one object that a deletion
may leave: an avatar outside the prefix of its user whose deletion or replacement is over. An
avatar under the old prefix is only ever the first one of the account (`MediaAssumption`).

### Moderation, ModerationProofs

Reports, cases, the removal of reported content, sanctions with Idempotency-Keys, strikes and
their thresholds, appeals, the policy, and the sessions a ban ends. Transactions lock the account
and the rows they decide on, so each is one action; the removal of content (`DeleteContent`,
`ResolveAfterRemoval`) is two with a failure between them (`AbandonRemoval`), and the login is
three (`login.step`): the reading of `session_version`, of the sanctions, and the signature.

### PushJobs, PushJobsProofs

The push worker with its row locks. `held[w]` are the rows a worker's transaction has locked, in the
order of the code: the recipient (`LockRecipient`), the job (`ReadJob`), the other parties by id
(`LockParty`). A worker that needs a row another holds waits; when workers wait in a circle
PostgreSQL aborts one (`Abort`). Users register and revoke devices, hide targets, close accounts;
the cleanup purges jobs (`Purge`). `Hide` is a deletion by the owner, who is locked; `Remove` is one
by staff, or of a reply together with its thread, and needs no row a worker holds. `SlowWorker` lets
a lease end under a live worker, which the code never renews. `pushes` counts what the provider
took, up to two.

### DeletionContract, DeletionWorker, DeletionWorkerProofs

`DeletionContract` is the abstract promise: a request is accepted, its steps are over one after
another, the users row goes after the cleanup steps and before the completion step is over, and
the request is completed last.

`DeletionWorker` is `processDeletionBatch` with its repository. Every SQL statement is one
action, so a crash (`Crash`), an exception (`Throw`), a stall (`Stall`), another worker or a
renewal can fall between any two. `pc` is the point in the loop: `pick`, `next`, `mark`, `run`,
`reportDone`/`reportMore`, `clear`, `yield`, `complete`, and `catch`/`reschedule` for the catch
block. Renewals are messages (`renewals`), since the timer does not await them. The handlers are
abstracted to their answer, done or not, except the completion step, whose gate and two checks
around `deleteUser` are separate actions.

Two points of the abstraction deserve a reader's attention. Time is what the statements compare:
a lease is live or expired, an operation due or not. And the test `lease_until > $4` of the
fenced statements is dropped because `$4` is the instant of the claim, `input.now`, in every
statement of a batch: it can never fail for the owner of the lease, so what fences a stale batch
is the owner id alone.

### DeletionCleanup, DeletionCleanupProofs

What the handlers do to the data, for one account. A handler call is one transaction and one
action, except `recountPollRelationships` (`StartRecount`, `FinishRecount`), whose UPDATE can
wait for a row after it took its snapshot. Next to it, `Mark`, `Unmark`, `CreateComment`,
`DeleteComment`, `React`, `Unreact` and `Report` are what other users do, with the guards of
`polls.repository.ts` and `moderation.repository.ts`; `Calls(s)` lets a late worker call the
handler of an earlier stage again. Votes and likes of polls are one relation (every statement
treats them alike), a report stands for its case. The other accounts keep their status: a
commenter who is blocked meanwhile is a hazard of its own (see the list in PROJECT.json).

### DeletionAcceptance, DeletionAcceptanceProofs

How a deletion is accepted and how the acceptance outlives the database. `acceptAccountDeletion`
is a request with a `pc`: `Begin` locks the permission (or finds the operation accepted before,
a replay), `LockAccount` takes the advisory lock and the users row and counts superadmins,
`Prepare` writes the intent to the journal, `Commit` commits, `Confirm` writes the acceptance to
the journal and answers. `Fail` can fall between any two: a refusal, a journal out of reach, a
crash; `Commit` may succeed unheard. Without the journal (`UseJournal` is FALSE) `Prepare` is
skipped. `Verify` and `Forget` make and prune operations, `Status` and `Reconcile` also confirm.
`DeleteUser` and `Complete` are what the deletion worker does in the end.

Administrators' transactions (`Block`, `Unblock`, `DeleteAdminUser`, `Promote`, `Demote`,
`Bootstrap`) are one action each, enabled when the locks they take are free: they hold them from
their first statements to COMMIT and meet nobody else in between. What does matter is the gap
before them, so `Admit` is the check of the preHandler, and nothing repeats it.

`Restore` puts back a backup of any age and stops the traffic; `ReadJournal`, `Reapply` (one
entry, one transaction), `FailReapply` and `Reopen` are the job that must run before there is
traffic again. That the API stays stopped until then is the operators' procedure
(docs/superpowers/plans/2026-10-15-account-deletion-postgres-journal.md:372), not code.

An instant `accepted_at` is represented by the request that took it. Signatures are left out:
the journal is not tampered with. Moderators are left out: they block and unblock as
superadmins do. Accounts the model deletes or blocks do not register again.

## Runs

| Run | Instance | Shows |
| --- | --- | --- |
| deletion | 1 operation, 2 workers, 3 owner ids, 3 steps, 2 faults, fairness | order of steps, one writer, refinement of `DeletionContract`, stale batches harmless, completed is final, every request served |
| cleanup | 3 polls, 5 comments, batch 1, 3 acts of another user or a late worker, fairness | nothing of the account left, counters right, foreign comments kept, completion or a named residue |
| push | 2 users who notify each other, 2 jobs, 2 workers, 2 devices, 1 fault, 1 act, fairness | what the locks cover still holds at the push, once per device, sent means received, the queue drains |
| acceptance | 2 users, 3 operations (one user verifies twice), 2 requests, 2 acts of administrators, 1 restore, with the journal | closures survive, no false answer, the stores agree, a superadmin stays |
| moderation | 1 reporter, 1 superadmin, 2 cases, 3 sanctions, 2 keys, 2 policies, session version up to 2 | banned without a session, one effect per key, thresholds applied |
| poll_store | 2 accounts, both sign in here, 1 option, 1 comment, 2 counted writes or absent accounts, any writes of account deletion, 2 requests in the air, fairness | newest wins, no conflict, deleted stays gone, every change has a revision, the tab catches up; each but for comments after an account deletion |
| comment_pages | comments 1 to 3 (1 and 2 there from the start), pages of 1, 2 writes or absent accounts, any writes of account deletion, 1 reaction to comment 3, 2 requests in the air | the pages are complete, counters equal rows, appends keep reactions |
| inbox | 2 accounts, 2 notifications of one (1 there from the start), pages of 1, 2 writes, 1 mark elsewhere, 1 in the tab, 1 change of session, fairness | own inbox, read stays read, badge and list catch up |
| sockets | 1 account, 1 tab, 2 processes, 2 connections, 1 fault, 1 block, 1 look at a time, fairness | leases kept, closed accounts lose their sockets, clients with an accepted token come back |
| media | 1 image, an avatar under the old prefix and its successor, 2 workers, 1 upload, 1 fault, both kinds of bucket, fairness | completion means erased, what is shown can be read, everything is cleaned up |
| cleanup_residue | the data of cleanup, 1 act | a defect, see below |
| poll_cancelled_vote | the instance of poll_store | a defect, see below |

Bounds and why they are enough. What is bounded are counters that only grow: faults, acts, writes,
requests in the air at once. One fault puts a stale batch next to a new owner, two a stale batch
next to a stale batch; three steps tell first, middle and last apart, a third owner id a claim while
two are remembered. Several operations in one batch are only in the proofs, which cover any number.
The data of the cleanup has the account's own poll with a foreign comment, a foreign poll with
comments on both sides of a reply in both directions, and a poll with only a vote; batches of one
make every handler need several calls. Two push jobs between two users are the smallest crossed lock
order; an act may be a removal by staff; `MaxAttempts` is 1, since larger values only repeat the
same cycle. Two users are the smallest number whose deletions race for the last superadmin; a second
operation of one user is needed for a verification repeated after an intent was orphaned; two
requests for a race or a replay; one restore for every age of backup.

In `poll_store` and `comment_pages` an account that is blocked or closed uses up one of the two
writes while it is (`Room`); what its deletion then does to the poll is not bounded. In
`poll_store` two writes and two requests give an answer that is older than the store, one
that is newer and one that is equal, and two viewers a change of session between them; with one
comment, its author's account can be closed, its row taken away and the poll recounted under the
old revision while an answer is in the air. In
`comment_pages` a page of one makes every list longer than a page, the third comment may be
written before, between or after two pages, and two writes delete the comment a cursor names and
add another; a reaction and a write are the two things that can happen between two pages, and
comment 3 (`Liked`) is on the first page of the roots and on the last of the thread. In
`inbox` the two writes are an arrival and a mark, of the arrival elsewhere or of anything in the
tab, so that its copies overtake each other; one change of session is enough for answers of an
earlier one. In `sockets` a second process is needed for an announcement that
misses it, a second connection for the reconnect while the old one is still registered. In
`media` the object, its marker and a second marker are the versions a listing tells apart:
`MaxMarkers` is never reached. In `moderation` three sanctions are two strikes and what the
policy adds to them, two keys a repeated request next to a new one.

Symmetry is used in acceptance and moderation, which check no liveness.

No run checks for deadlock: an idle application with nothing to delete, to send or to show may
stop, and the bounds end behaviours too. Where progress matters a liveness property says so.

Fairness, where it is assumed:

- Deletion and push workers run in containers that restart them (`infra/docker`), in loops that
  claim every second or so: a live worker goes on (weak fairness of its steps), time passes
  (leases and delays end), a sent renewal arrives. Claims take the longest-waiting rows first, so
  a row that is claimable again and again is claimed (strong fairness of its claim). A waiting
  transaction gets a row in the order of PostgreSQL's lock queue (strong fairness of
  `LockParty`). `Drained` assumes that the recipients keep a device each.
- PollStore: reading again after a failure (`reconcile`) is repeated on every focus, so the reading
  reaches the server and is answered at some time (strong); the tab gets the focus again (weak).
  Nothing is asked of the other requests: they may stay in the air for ever.
- Inbox: copies of events are handled or lost, requests end (weak), a page that is read again and
  again is answered at some time, the tab becomes visible again and again (strong).
- RealtimeSockets: the timers of client and sweep fire, what a process began with a socket it
  goes on with. Nothing is assumed of the outbox or of Redis: the sweep alone gives
  `ClosedLoseSockets`.
- AccountMedia: requests run to their end unless they crash, jobs and workers are started again
  and again (weak), days pass (strong, since the job rests between its passes).

Faults, losses and the acts of users are never fair.

## What is proved

Each proof module assumes only the named assumptions on the constants, which TLC evaluates in the
runs; the sets are arbitrary and nothing is bounded but by the constants' own bounds.

`DeletionWorkerProofs`: `DeletionWorker` keeps `IndInv`, and from it `CleanupInOrder`,
`UserDeletedLast`, `CompletedIsErased`, `AtMostOneWriter`, `TypeCorrect`; `Refinement`: every
behaviour is one of `DeletionContract`; `CompletedStays` and `StaleBatchIsHarmless`, about steps.
None of the properties is inductive alone. A step is completed by whoever holds the operation at
that moment, so "steps are completed in order" needs that a worker at a step has all earlier ones
behind it (`HandlersAfterPredecessors`); that is stable because completed steps stay completed
(`Monotone`): every UPDATE excludes completed rows, whoever sends it. That the user is gone when
the completion step is recorded needs the control points after `deleteUser` (`CompletionShape`);
a stale worker that reaches `reportDone` for the last step has deleted the user itself.
`ControlShape` ties owner ids to batches, one batch per id. The refinement maps the statuses
between acceptance and completion to one phase; the fenced UPDATE that completes a step is the
contract's `FinishStep`, everything about leases stutters.

`DeletionAcceptanceProofs`, with and without the journal: `AcceptanceSurvives`, `NoFalseAnswer`,
`StoresAgree`, `OneSuperadminStays`. A committed operation is in the journal because its intent
was written first and the journal only grows (`JournalGrows`, `PreparedFirst`, which must speak
of the backup too). The restore goes on only if every intent was accepted (`ReadsAll`), so what
it reads covers every operation ever committed; until it has applied an entry that entry is in
`todo` (`ClosuresKept`), and outside a restore neither acceptances nor closed accounts are undone
(`Lasting`). An operation has one intent (`EntriesAgree`), so the two stores cannot disagree. For
the superadmins, the count under the advisory lock gives another one (`AnotherCounted`); the
strengthening `OthersRemain` asks for one whose account no request is about to close, which
stays true until COMMIT because no one else passes the lock meanwhile (`OneCloses`).

`PollProofs`, its first part, about `PollWrites`: `Counters` and `ChangesCounted`. Each part of
`CountersMatch` is inductive given the types, since a write disturbs the counters of its own group
only; the work is in the cardinalities, above all of a thread that goes at once (`HiddenRows` and
what follows it) and of what the deletion of an account takes away (`ContentRows`,
`RelationshipsRows`). A recount of the comments of active authors is at most the number of shown
ones (`FewerActive`), and no deletion un-happens (`PurgesGoOn`), so the equality of counts holds
until the first recount and the bound for good. Every other write moves the revision of the group it
touches, `RecountRelationships` of each group it finds changed (`RelationshipsCounted`).
Assumptions: `PollAssumption`, `RowAssumption`.

`PollProofs`, its second part, about `PollStore`: `StoreImplementsServer` (the composition
implements `ServerSpec`, so both theorems above hold next to the tab: `StoreChangesCounted`),
`ConflictFree`, `NewestStays`, `DeletedForGood`. `NoConflict` is not inductive: the invariant says
of every copy of the poll, the server's, the answers on their way and the store, that no revision
is ahead of the server's and that equal revisions mean equal payloads (`CopiesOK`, `StoreOK`); a
write keeps it because it moves the revision it touches past every copy there is, which is
`ChangesCounted` again. Of the comments it says so until an account deletion has rewritten the
poll (`Held`); of votes, likes and the viewer's own fields always. Assumption: `PollStoreAssumption`.

`PollProofs`, its third part, about `CommentPages`: `NothingMissing` (`Complete`), `ReactionsStay`
(`AppendsKeepReactions`) and `PagesCounted`, for any number of comments, size of a page, number of
requests and writes. `Complete` speaks of a chain that has come to its end; the invariant has to
speak of the chains on their way, too: the cached one, the one a fetch is reading, with or without
its next page in the air, and the one of a refresh. Of each it says (`Chain`) that a comment
available ever since the first page was read is on a page or after the cursor, and not newer than
the mark. A page keeps that because it takes the first comments after the cursor (`PageRead`; the
last of them exists by `HasLast`, which orders a finite set by how many elements are before each)
and hands the mark on; a write keeps it because what it removes was not available all the time
(`SteadyOK`); what the tab takes out of its pages was deleted on the server (`DeletedOK`,
`RemovedStays`). `ReactionsStay` needs of the same invariant that an append ends with its first
page, whereas a refetch goes on. That the steps next to the list are steps of the server
(`PagesServerMoves`) carries the counters over. Assumption: `PagesAssumption`.

`PushJobsProofs`: `LocksCoverTheCall` (`NoStalePush`), `SentWasReceived`, `NothingTwice`
(`OncePerDevice`). What was read before the call of the provider is still so because the rows
that a writer would need are held (`LockInv`), each by one worker; nothing is proved of what
staff remove, who need none of these rows. Each row is held by one worker, and a worker that does not
move keeps standing where it does (`KeepsStanding`); what a delivery has gathered dies with its
transaction (`Gathered`). As long as nothing fails, every job is in one hand whose claim is good
(`AloneOnJobs`, `LeaseHeld`), and a push belongs to a delivery under way or to a job that is done
with (`PushedOnce`): so a job that is claimed has no push yet. Assumptions: `UsersAssumption`,
`JobsAssumption`, `DevicesAssumption`, `NoneAssumption`, `BoundsAssumption`.

`ModerationProofs`: `BansEndSessions`, `RequestsActOnce`, `StrikesApplied`. No token and no login
is ahead of `session_version` (`NoneAhead`), so raising it leaves every one of them behind; a
login that read before the ban signs an old version. Whatever was issued for a key has the key
recorded (`KeysRecorded`), in the same transaction. Assumptions: `ModerationAssumption`,
`RowAssumption`.

`RealtimeProofs`, its first part, about `Inbox`: `NeverForeign` (`OwnInbox`). What the tab shows
comes from events, answers and the stores that failed marks bring back, so `IInv` says of each
where it may come from: events that are being sent are of this account (`EventsOwn`), and the
requests of this epoch carry pages and stores of this account (`BringsOwn`). Of earlier epochs
nothing is said, and nothing needs to be: they are not accepted, and no request is ahead of the
epoch. `ReadStaysRead` (`ArrivalsKeepRead`) then needs that everything that arrives is well
formed: an event that says "read" carries a time, and the older of two items of one notification
never wins over the one that is read. The time of a mark of all is the latest of the times that
were set (`LatestOf`), which exists because the set is not empty and lies in the past
(`RowsTimed`, `HasFirst`). Assumption: `InboxAssumption`; the notifications that were there from
the start are a finite set, as the rows of a table are.

`RealtimeProofs`, its second part, about `RealtimeSockets`: `LeasesStay` (`LeasesKept`) and
`OneConnectionEach`, for any accounts, clients, processes and sockets and any number of faults.
`OneConnection` (no client has two links up, none has one while it is stopped or waits for its
timer) is not inductive: a connection might be up that its client has forgotten. The invariant
links the two sides (`LinksOK`): what is up is what its client holds, and what a client holds is
a connection of its own, while it is started and no timer runs. Everything that closes
connections, a refused handshake, a sweep, an announcement or a restart, is one of `Closed`,
`Kept` and `Stopped`, about which there is one lemma each. `LeasesKept` needs of the invariant
only the types: who releases a lease compares its owner, and the process that dispatches is
another one, since its claim is still there. Assumptions: `SocketsAssumption`,
`ConnectionAssumption`.

`DeletionCleanupProofs`: `ContentIsGoneForGood`, `PollsStayCounted`, `NothingNamesTheErased` and
`OthersCommentsStay`, for any rows, any size of a batch, any number of other users and any call of
a late worker. The types alone need the foreign keys (`Threads`, `Relations`, `NoticeRows`): a
comment is under a parent on the same poll, which is what makes "no poll of the account and no
poll that it commented" mean "no comment of the account" (`NothingLeft`). `PollsCounted` says
nothing of comment counters before the end of the content step, when they may be wrong: a comment
removed with the last batch, or by a late worker, is repaired by the recount of its poll in the
same transaction. What is inductive is `CountersRight`: a poll where the account has no comment
left is counted rightly (`CommentsRight`), so once it has none anywhere, all are. That the votes
and likes are gone after the relationships step depends on the cursor: `NextPoll` takes the
smallest poll above it and every mark of the account is above (`MarksAhead`), those of the poll
that is being recounted included; without it a step might end with a mark behind the cursor. Each
of the deletions is described once by what it does to everything else (`Shrinks`), each act of
another user by `Elsewhere`, and the invariant is shown for those two instead of for every
statement. A report may outlive its target while the cleanup is under way, but the target was
remembered when it went (`ReportsNamed`), which is why the check of the residue suffices; after it
the account has nothing left whose deletion could take a target away. A notification that names
the account is refused by the lock of its row (`NoticesGone`). Assumptions: `BatchAssumption`,
`ReachAssumption`, `RowsAssumption` (the foreign keys and column types of the rows at acceptance,
of which there are finitely many).

`AccountMediaProofs`: `NamedStaysReadable` (`ReferencedKept`) and `CompletedLeavesNothing`
(`Erased`), in buckets with and without versions. Both rest on the row lock of the account
(`Locked`): an upload holds it while the store takes the object, the acceptance needs it, so after
the acceptance nothing is added to the bucket any more (`WhoAdds`) and a bucket that was found
empty stays so (`EmptyKept`). The completion goes past its check only with an empty bucket
(`Leaving`); the check lists the prefixes of the account and the keys of the manifest, so of an
avatar outside the prefixes the invariant says that the row of the account, the manifest or the
upload that replaces it still knows its key, until it is given up (`KnownKept`). For
`ReferencedKept` the invariant places each upload next to what the rows name (`Placed`): a former
avatar's successor is named before it goes, an object that a pass of the job may take is old and
was not referenced when the pass read the references; and a key that no row named yet has no
delete marker (`Fresh`). What its two exceptions are is part of the invariant (`Excused`): an
avatar being deleted, and a poll that was created unheard. Assumption: `MediaAssumption`.

Only model-checked, every other property of a passing run being proved:

- liveness: `ServesEveryRequest`, `CompletesOrNamesWhy`, `Drained`, both `CatchesUp`,
  `ClosedLoseSockets`, `Reconnects` and `CleansUp`. No prover here handles fairness or ENABLED.

## Findings

1. **cleanup_residue** - a vote or like on a poll of the closed account, between the notifications
   step and the deletion of the poll, leaves a notification to the account that the final check
   refuses for ever (`account-deletion.completion.ts:96`, `polls.repository.ts:1653`).
2. **poll_cancelled_vote** - an answer that says "no vote any more" (an explicit null) passes
   through `??` in `mergePoll` and counts as absent: the group of the votes is taken over with its
   new revision, the cancelled vote of the viewer stays on the screen (`poll-state.ts:75`;
   docs/motion-poll-state-contract.md:48 and :74 ask for the null to replace it).

Met while modelling, without a run of their own:

- When the content step of an account deletion removes comments from a foreign poll, or moves
  replies, it commits a new `comments_count` under the old `comments_revision`
  (`account-deletion.content.ts:230-240`); the relationships step later gives a new revision only
  if the count still differs then, or a comment's counters or likes changed
  (`account-deletion.relationships.ts:134`). A tab that has the poll meets an equal revision with
  another count, keeps its own and reads again, with the same result, at every reconciliation.
  docs/motion-poll-state-contract.md:47 and :51 ask for a revision with every real change and of
  every writer, docs/prd-account-deletion.md:328 (AC-07) names the revisions. `EveryChangeCounted`,
  `NoConflict` and `CatchesUp` except this case; TLC finds each of them violated without the
  exception.
- Staff who delete a poll or a comment lock no users row (`admin.repository.ts:279-413`), so a
  target may be removed after the push worker read it (`jobs/notification-push-worker.ts:63-92`)
  and before `provider.send` (:102): the push goes out. `NoStalePush` is about what the locks cover.
- A socket client of an active account whose token expired or was revoked (`auth.utils.ts:22-33`)
  is refused and tries again for ever: `onclose` only schedules the next try
  (`realtime-client.ts:109-114`). Its session ends at its next HTTP request with 401. A socket
  that is registered is not closed when its session is revoked by a logout.
- A COMMIT that takes effect and is answered by an error (`polls.repository.ts:438`) runs into the
  catch of the route, which removes the image of the poll that now exists
  (`polls.routes.ts:466-478`). `ReferencedKept` excepts that image.
- `replies_count` is maintained by nothing but the recount of the deletion; a reply after it makes
  the check of the counters refuse completion for ever (`account-deletion.completion.ts:65`), and
  the recount of comment likes overwrites a concurrent like
  (`account-deletion.relationships.ts:98`). Both are residues that `CompletesOrNamesWhy` names.
- `attempts` of a push job is never incremented, so `max_attempts` bounds nothing
  (`jobs/notification-push-worker.ts:168`), although notification-push-worker.test.ts:13 says
  "push retry stops at max attempts".
- A blocked user can be promoted to superadmin, both guards of the last superadmin count blocked
  ones, and bootstrap counts active ones: the last active superadmin may leave
  (`admin.users.repository.ts:176`, `account-deletion.service.ts:107`,
  `db/bootstrap-superadmin.ts:75`).
- A refetch of several comment pages takes the revision of reactions anew at each page: a like
  confirmed between two of them is undone by the page read before it (`CommentList.tsx:209`).
  `AppendsKeepReactions` is about appends and refreshes of the first page, where it holds.
- The removal of content and the resolution of its case are two transactions: after a failure
  between them the repeated request answers 204 and leaves the case open
  (`moderation.routes.ts:328-371`; docs/moderation-reports-api.md:137-139 says otherwise).
- A strike whose sanction was revoked still counts towards the thresholds until it expires
  (`sanctions.repository.ts:171`).
- The first snapshot of a poll is stored without watermarks for the viewer's own fields, and a 404
  of a reconciling read buries the poll: both differ from docs/motion-poll-state-contract.md, and
  neither breaks a property above. `setVoteRecord` (`polls.repository.ts:1999`) has no caller.
- A created comment is written over a reaction to it that was confirmed before
  (`addCreatedCommentOverlay`).
- The inbox joins a reading that is already in flight, rolls a failed mark back over events that
  came meanwhile, and marks all read as of the server's now: wrong for a while, repaired by the
  next reading (`CatchesUp`).
- A worker that lost its lease may add a delete marker after the operation was completed; the
  object itself is gone (docs/account-deletion-data-map.md:41). An old avatar outside the prefix
  of its user that was replaced, and whose deletion failed, is found by no cleanup (`GivenUp`).
- An avatar request holds one connection of the pool and asks for a second one
  (`avatars.service.ts:151`).

## Not modelled, and the plan

Next, in this order:

1. Follows with their two counters, and the outbox of relationship events.
2. An abstract specification of acceptance ("accepted once, closed from then on, never forgotten
   while there is traffic") and the refinement of `DeletionAcceptance` to it.
3. The mobile stores (`poll_state_store.dart`, `cursor_list_controller.dart`), which have the
   protocols of PollStore, CommentPages and Inbox in code of their own.
4. Status changes of commenters inside DeletionCleanup, and the locks of its handlers.
5. Proofs: that refinement, and the strengthened invariants of whatever 1, 3 and 4 add.

Left out for good: feed snapshots (one INSERT of a list that later pages only read), the archive,
search, health, rate limits, migrations, deployment, the moderation client, pages, screens and
widgets: they keep no state of their own that a protocol could break. The models leave out
legacy servers that send no revisions, texts, and the processing of images.
