------------------------------- MODULE PollStore -------------------------------
(***************************************************************************)
(* The poll as one browser tab knows it: apps/web/src/features/polls       *)
(* (poll-state.ts, usePollMutations.ts), the session around it             *)
(* (app/session-provider.tsx, api/client.ts) and the buttons of PollCard,  *)
(* on top of the server of PollWrites.                                     *)
(*                                                                         *)
(* Requests overlap and their answers arrive in any order or not at all.   *)
(* Every answer of the server carries the poll with the revision of each   *)
(* group and the viewer's own like and vote; the store merges it group by  *)
(* group.  The answers to legacy servers that send no revisions are left   *)
(* out: hydratePolls always sends them.  Other tabs, other accounts and    *)
(* requests whose tab gave up on them are writes by anyone at any time.    *)
(***************************************************************************)
EXTENDS PollWrites

CONSTANTS
    Viewers,      \* the accounts that sign in on this browser
    MaxOpen       \* bounds the requests of the tab that are in the air

ASSUME PollStoreAssumption == Viewers \subseteq Users /\ MaxOpen \in Nat /\ None \notin Nat

VARIABLES
    viewer,     \* the account signed in
    store,      \* polls.get(id) of the tab: None, or the merged poll
    gone,       \* the tombstone of a poll known to be deleted
    pending,    \* the actions ("like", "vote") a button waits for
    request     \* what is in the air, by slot

clientVars == <<viewer, store, gone, pending, request>>
vars == <<serverVars, clientVars>>

Actions == {"like", "vote"}
Slots == Actions \cup {"delete", "get", "reconcile"}
(* what hydratePolls answers to one viewer, read in one snapshot *)
Snapshot == [revision |-> revision, counts |-> counts, tally |-> tally,
             liked |-> viewer \in fans, vote |-> ballot[viewer]]

Payload(p, g) == IF g = "votes" THEN <<p.counts[g], p.tally>> ELSE <<p.counts[g]>>

Idle(slot) == request[slot] = None
Sent(what) == [what |-> what, answer |-> None]
Brings(p) == [kind |-> "poll", poll |-> p]
Says(kind) == [kind |-> kind, poll |-> None]
Open == {s \in Slots : ~Idle(s)}

ClientInit ==
    /\ viewer \in Viewers
    /\ store = None
    /\ gone = FALSE
    /\ pending = {}
    /\ request = [s \in Slots |-> None]

Init == ServerInit /\ ClientInit

-----------------------------------------------------------------------------
(* mergePollSnapshot.  The first snapshot is stored as it came, without    *)
(* watermarks for the viewer's own fields.  A null vote of an answer       *)
(* passes `??` and counts as absent, as in the code.                       *)

Newer(p, mark) == mark = None \/ p > mark

\* Mutant of Merge: the answer is taken as it comes.
MergeLatest(old, p) == [poll |-> p, likedAt |-> p.revision["likes"], voteAt |-> p.revision["votes"]]

Merge(old, p) ==
    IF old = None THEN [poll |-> p, likedAt |-> None, voteAt |-> None]
    ELSE
    LET fresh == {g \in Groups : p.revision[g] > old.poll.revision[g]}
        likes == Newer(p.revision["likes"], old.likedAt)
        votes == p.vote # None /\ Newer(p.revision["votes"], old.voteAt)
    IN  [poll |->
           [revision |-> [g \in Groups |-> IF g \in fresh THEN p.revision[g]
                                           ELSE old.poll.revision[g]],
            counts   |-> [g \in Groups |-> IF g \in fresh THEN p.counts[g]
                                           ELSE old.poll.counts[g]],
            tally    |-> IF "votes" \in fresh THEN p.tally ELSE old.poll.tally,
            liked    |-> IF likes THEN p.liked ELSE old.poll.liked,
            vote     |-> IF votes THEN p.vote ELSE old.poll.vote],
         likedAt |-> IF likes THEN p.revision["likes"] ELSE old.likedAt,
         voteAt  |-> IF votes THEN p.revision["votes"] ELSE old.voteAt]

(* the same revision with another payload *)
Differs(old, p, g) ==
    /\ p.revision[g] = old.poll.revision[g]
    /\ Payload(p, g) # Payload(old.poll, g)

ViewerDiffers(old, p) ==
    \/ p.revision["likes"] = old.likedAt /\ p.liked # old.poll.liked
    \/ /\ p.vote # None
       /\ p.revision["votes"] = old.voteAt /\ p.vote # old.poll.vote

Conflict(old, p) ==
    old # None /\ (ViewerDiffers(old, p) \/ \E g \in Groups : Differs(old, p, g))

(* reconcilePoll: at most one read of the poll at a time *)
Reconciling(r) == IF r["reconcile"] = None THEN [r EXCEPT !["reconcile"] = Sent("get")] ELSE r

\* Mutant of Ingest: the tombstone is not asked.
IngestBuried(p, r) == store' = Merge(store, p) /\ request' = r

(* ingestPoll.  A tombstone swallows the answer. *)
Ingest(p, r) ==
    IF gone THEN request' = r /\ UNCHANGED store
    ELSE /\ store' = Merge(store, p)
         /\ request' = IF Conflict(store, p) THEN Reconciling(r) ELSE r

(* deleteCachedPoll *)
Bury(r) ==
    /\ gone' = TRUE
    /\ store' = None
    /\ pending' = {}
    /\ request' = r

-----------------------------------------------------------------------------
(* What the viewer does.  Buttons show the state of the store.             *)

Send(slot, what) ==
    /\ Idle(slot) /\ Cardinality(Open) < MaxOpen
    /\ request' = [request EXCEPT ![slot] = Sent(what)]

(* beginPollOperation: one operation per button *)
Press(action, what) ==
    /\ store # None /\ ~gone /\ action \notin pending
    /\ Send(action, what)
    /\ pending' = pending \cup {action}
    /\ UNCHANGED <<serverVars, viewer, store, gone>>

PressLike == Press("like", IF store.poll.liked THEN "unlike" ELSE "like")

PressVote(o) ==
    /\ store # None /\ store.poll.vote = None /\ open
    /\ Press("vote", o)

PressCancel ==
    /\ store # None /\ store.poll.vote # None /\ open
    /\ Press("vote", "cancel")

PressDelete ==
    /\ store # None /\ viewer = Owner
    /\ Send("delete", "delete")
    /\ UNCHANGED <<serverVars, viewer, store, gone, pending>>

(* A page with the poll is opened: fetchPollQuery.  (Bound: while the tab  *)
(* holds the poll, only Focus reads it again.)                             *)
Fetch ==
    /\ store = None
    /\ Send("get", "get")
    /\ UNCHANGED <<serverVars, viewer, store, gone, pending>>

(* the tab gets the focus or comes back online: reconcileCachedPolls *)
Focus ==
    /\ store # None /\ ~gone
    /\ Idle("reconcile")
    /\ request' = Reconciling(request)
    /\ UNCHANGED <<serverVars, viewer, store, gone, pending>>

\* Mutant of SwitchUser: the requests of the last session go on.
SwitchUserOnly(u) ==
    /\ u \in active
    /\ viewer' = u
    /\ store' = None
    /\ gone' = FALSE
    /\ pending' = {}
    /\ UNCHANGED <<serverVars, request>>

(* sign out and in, also as the same account: the epoch moves on, requests *)
(* are aborted and their late answers belong to an older epoch             *)
SwitchUser(u) ==
    /\ u \in active
    /\ viewer' = u
    /\ store' = None
    /\ gone' = FALSE
    /\ pending' = {}
    /\ request' = [s \in Slots |-> None]
    /\ UNCHANGED serverVars

-----------------------------------------------------------------------------
(* The server takes a request.  The status of a refusal is what pollError  *)
(* makes of the errors of polls.service.ts.                                *)

Answer(slot, a) ==
    /\ UNCHANGED <<viewer, store, gone, pending>>
    /\ request' = [request EXCEPT ![slot].answer = a]

Asked(slot, what) ==
    /\ ~Idle(slot) /\ request[slot].what = what
    /\ request[slot].answer = None

(* After the write the answer is hydrated; the poll of an owner who is not *)
(* active is not found and the request ends in an internal error.          *)
Hydrated(slot) == Answer(slot, IF Owner \in active THEN Brings(Snapshot') ELSE Says("error"))

ServeLike ==
    /\ Asked("like", "like")
    /\ \/ LikePoll(viewer) /\ Hydrated("like")
       \/ ~MayWrite(viewer) /\ Answer("like", Says("refused")) /\ UNCHANGED serverVars

ServeUnlike ==
    /\ Asked("like", "unlike")
    /\ \/ UnlikePoll(viewer) /\ Hydrated("like")
       \/ ~MayWrite(viewer) /\ Answer("like", Says("refused")) /\ UNCHANGED serverVars

ServeVote(o) ==
    /\ Asked("vote", o)
    /\ \/ Vote(viewer, o) /\ Hydrated("vote")
       \/ /\ ~(MayWrite(viewer) /\ open /\ ballot[viewer] = None)
          /\ Answer("vote", Says("refused")) /\ UNCHANGED serverVars

ServeCancel ==
    /\ Asked("vote", "cancel")
    /\ \/ CancelVote(viewer) /\ Hydrated("vote")
       \/ ~(MayWrite(viewer) /\ open) /\ Answer("vote", Says("refused")) /\ UNCHANGED serverVars

ServeDelete ==
    /\ Asked("delete", "delete")
    /\ \/ DeletePoll(viewer) /\ Answer("delete", Says("deleted"))
       \/ ~MayWrite(viewer) /\ Answer("delete", Says("refused")) /\ UNCHANGED serverVars

ServeGet(slot) ==
    /\ Asked(slot, "get")
    /\ Answer(slot, IF life = "live" /\ Owner \in active THEN Brings(Snapshot)
                    ELSE Says("missing"))
    /\ UNCHANGED serverVars

(* any request may fail in the server before it writes, and does so in the *)
(* model once a revision has reached its bound                             *)
ServeError(slot) ==
    /\ slot \notin {"get", "reconcile"}
    /\ ~Idle(slot) /\ request[slot].answer = None
    /\ Answer(slot, Says("error"))
    /\ UNCHANGED serverVars

Serve ==
    \/ ServeLike \/ ServeUnlike
    \/ \E o \in Options : ServeVote(o)
    \/ ServeCancel \/ ServeDelete
    \/ \E slot \in Slots : ServeGet(slot) \/ ServeError(slot)

-----------------------------------------------------------------------------
(* The tab gets the outcome of a request: the answer, or an error because  *)
(* the answer (or the request) was lost or a read timed out.               *)

Outcome(slot) == request[slot].answer
Done(slot) == [request EXCEPT ![slot] = None]

(* onSuccess, onError and onSettled of a vote or a like *)
SettleReaction(a, out) ==
    /\ \/ /\ out.kind = "poll"
          /\ Ingest(out.poll, Done(a))
       \/ /\ out.kind = "refused"
          /\ request' = Done(a) /\ UNCHANGED store
       \/ /\ out.kind = "error"
          /\ request' = IF gone THEN Done(a) ELSE Reconciling(Done(a))
          /\ UNCHANGED store
    /\ pending' = pending \ {a}
    /\ UNCHANGED gone

SettleDelete(out) ==
    \/ out.kind = "deleted" /\ Bury(Done("delete"))
    \/ /\ out.kind = "refused"
       /\ request' = Done("delete") /\ UNCHANGED <<store, gone, pending>>
    \/ /\ out.kind = "error"
       /\ request' = IF gone THEN Done("delete") ELSE Reconciling(Done("delete"))
       /\ UNCHANGED <<store, gone, pending>>

SettleGet(out) ==
    /\ \/ out.kind = "poll" /\ Ingest(out.poll, Done("get"))
       \/ out.kind # "poll" /\ request' = Done("get") /\ UNCHANGED store
    /\ UNCHANGED <<gone, pending>>

\* Mutant of SettleReconcile: the reading stays registered.
SettleReconcileRegistered(out) ==
    /\ store' = IF out.kind # "poll" \/ gone THEN store ELSE Merge(store, out.poll)
    /\ UNCHANGED <<gone, pending, request>>

(* reconcilePoll: a 404 buries the poll; a conflict found while the read   *)
(* is still registered starts no other                                     *)
SettleReconcile(out) ==
    \/ /\ out.kind = "poll"
       /\ request' = Done("reconcile")
       /\ store' = IF gone THEN store ELSE Merge(store, out.poll)
       /\ UNCHANGED <<gone, pending>>
    \/ out.kind = "missing" /\ Bury(Done("reconcile"))
    \/ /\ out.kind = "error"
       /\ request' = Done("reconcile") /\ UNCHANGED <<store, gone, pending>>

Settle(slot, out) ==
    /\ \/ slot \in Actions /\ SettleReaction(slot, out)
       \/ slot = "delete" /\ SettleDelete(out)
       \/ slot = "get" /\ SettleGet(out)
       \/ slot = "reconcile" /\ SettleReconcile(out)
    /\ UNCHANGED <<serverVars, viewer>>

Receive(slot) ==
    /\ ~Idle(slot) /\ Outcome(slot) # None
    /\ Settle(slot, Outcome(slot))

Lose(slot) ==
    /\ ~Idle(slot)
    /\ Settle(slot, Says("error"))

-----------------------------------------------------------------------------
(* Everyone else, comments and the deletion of accounts included.  The     *)
(* viewer stays active: otherwise the next answer is 401 and the session   *)
(* ends as in SwitchUser.  (Bound: likes of comments are in CommentPages.) *)
Others ==
    /\ PollNext
    /\ viewer \in active'
    /\ UNCHANGED clientVars

Client ==
    \/ PressLike \/ PressCancel \/ PressDelete
    \/ \E o \in Options : PressVote(o)
    \/ Fetch \/ Focus
    \/ \E u \in Viewers : SwitchUser(u)
    \/ \E slot \in Slots : Receive(slot) \/ Lose(slot)

Next == Client \/ Serve \/ Others

Spec == Init /\ [][Next]_vars

(* The tab gets the focus again; a reading that is repeated again and      *)
(* again reaches the server and is answered at some time.  Nothing is      *)
(* asked of the other requests.                                            *)
Fairness ==
    /\ SF_vars(ServeGet("reconcile"))
    /\ SF_vars(Receive("reconcile"))
    /\ WF_vars(Focus)

FairSpec == Spec /\ Fairness

-----------------------------------------------------------------------------
(* Properties *)

StoreTypeOK ==
    /\ ServerTypeOK
    /\ viewer \in active
    /\ pending \subseteq Actions
    /\ gone \in BOOLEAN

(* Every copy of the poll that the tab may come to compare: the server's,  *)
(* the store and the answers on their way.                                 *)
Copies == {Snapshot} \cup
          {Outcome(s).poll : s \in {t \in Open : Outcome(t) # None /\ Outcome(t).kind = "poll"}}

(* One revision of a group is one payload, and for one viewer one like and *)
(* one vote, wherever the copies come from: the conflict that poll-state   *)
(* checks for never arises from the server's own answers.  After a         *)
(* deletion of an account has rewritten the poll it does, about the        *)
(* comments and about nothing else (see EveryChangeCounted).               *)
NoConflict ==
    store # None =>
       \A p \in Copies : /\ ~ViewerDiffers(store, p)
                         /\ \A g \in Groups : Differs(store, p, g) => g = "comments" /\ ~Untouched

(* Answers overtake each other; what the tab shows of a group never goes   *)
(* back to an older revision while the session lasts.                      *)
NewestWins ==
    [][store # None /\ store' # None =>
          \A g \in Groups : store'.poll.revision[g] >= store.poll.revision[g]]_vars

(* A poll the tab knows to be deleted does not come back with a late       *)
(* answer, and no button waits for it.                                     *)
DeletedStaysGone == gone => store = None /\ pending = {}

(* Once the writes have stopped, every tab that shows the poll shows the   *)
(* revisions of the server and, with them, its counts, after any losses,   *)
(* refusals and overtakings.  The count of comments is excepted once a     *)
(* deletion of an account has rewritten the poll: at the revision the tab  *)
(* knows it keeps its own, however often it reads the other.               *)
UpToDate ==
    store # None =>
       \A g \in Groups : /\ store.poll.revision[g] = revision[g]
                         /\ (g = "comments" => Untouched) => Payload(store.poll, g) = Payload(Snapshot, g)
CatchesUp == <>[]UpToDate

(* An answer about the viewer's own vote that is newer than the vote shown *)
(* replaces it (docs/motion-poll-state-contract.md); the code does so only *)
(* when the answer has a vote.                                             *)
NewerVoteShown ==
    [][\A slot \in Slots : \A p \in Copies :
          /\ request[slot] # None /\ request[slot].answer = Brings(p) /\ Receive(slot)
          /\ store # None /\ store.voteAt # None /\ ~gone
          /\ p.revision["votes"] > store.voteAt
          => store'.poll.vote = p.vote]_vars
=============================================================================
