------------------------------ MODULE CommentPages ------------------------------
(***************************************************************************)
(* One list of comments as a browser tab reads it, page by page, while     *)
(* comments come and go: the roots of a poll, newest first, or the replies *)
(* to one root, oldest first.  apps/web/src/features/comments              *)
(* (comment-state.ts, CommentList.tsx, CommentThread.tsx,                  *)
(* PollDetailPage.tsx) and core/pagination/pagination-state.ts, on top of  *)
(* the queries of polls.repository.ts and the writes of PollWrites.        *)
(*                                                                         *)
(* The cache of pages is an infinite query of TanStack Query, external:    *)
(* one fetch at a time; an append extends the pages it saw when it began;  *)
(* a refetch reads the whole chain anew, page after page, and replaces the *)
(* data when the last page has arrived.  Next to it the tab keeps an       *)
(* overlay: what this session created, deleted and liked.                  *)
(***************************************************************************)
EXTENDS PollWrites, Sequences, FiniteSetsExt

CONSTANTS
    Me,            \* the account of the tab
    Thread,        \* the root whose replies may be read instead of the list of roots
    Written,       \* the sets of comments that may be there from the start
    Author,        \* who wrote a comment that is there from the start
    Limit,         \* comments per page
    Liked,         \* bounds the comments this session reacts to
    MaxReactions,  \* bounds the reactions of the session
    MaxCalls       \* bounds the requests of the tab in the air when it starts another

ASSUME PagesAssumption ==
    /\ Me \in Users /\ Thread \in CommentIds /\ Liked \subseteq CommentIds
    /\ Written \subseteq SUBSET CommentIds /\ Author \in [CommentIds -> Users]
    /\ Limit \in Nat \ {0} /\ MaxReactions \in Nat /\ MaxCalls \in Nat
    /\ None \notin Nat \cup [last : CommentIds, mark : CommentIds]

VARIABLES
    root,       \* None: the list of roots; otherwise the root of the thread
    pages,      \* the cached pages: [items, next]
    fetch,      \* the fetch of the query
    refresh,    \* the button "Refresh comments" has a request of its own
    overlay,    \* mine, revision, reactions, deleted
    liking,     \* the like or unlike in the air, by comment
    deleting,   \* the deletion in the air, by comment
    creating,   \* the new comment in the air
    steady      \* history: what has been available since the first page of
                \* the cached chain, of the fetch and of the refresh was read

loads == <<pages, fetch, refresh>>
calls == <<liking, deleting, creating>>
listVars == <<root, loads, overlay, calls>>
pagesVars == <<serverVars, listVars, steady>>

-----------------------------------------------------------------------------
(* Reading a page: one snapshot of the database.  A cursor holds the last  *)
(* comment of its page and the newest one of the first page, so that the   *)
(* chain ends although comments are added.                                 *)

Before(c, d) == IF root = None THEN c > d ELSE c < d

Available == {c \in Shown : comments[c].parent = root /\ comments[c].author \in active}

Readable ==
    /\ life = "live" /\ Owner \in active
    /\ root # None => root \in Shown /\ comments[root].author \in active

(* what mapComment tells this viewer, without the count of likes *)
Row(c) == [id |-> c, liked |-> Me \in comments[c].fans]

(* the first n comments of S and the last of them, in the order of the list *)
FirstOf(S, n) == {c \in S : Cardinality({d \in S : Before(d, c)}) < n}
LastOf(S) == CHOOSE c \in S : \A d \in S \ {c} : Before(d, c)

Mark(cursor) == IF cursor = None THEN Max(Available) ELSE cursor.mark
Found(cursor) ==
    {c \in Available : c <= Mark(cursor) /\ (cursor # None => Before(cursor.last, c))}

\* Mutant of NextCursor: the cursor is the row beyond the page.
NextCursorBeyond(cursor, found) ==
    IF Cardinality(found) <= Limit THEN None
    ELSE [last |-> LastOf(FirstOf(found, Limit + 1)), mark |-> Mark(cursor)]

(* one row more than the page has shows that there is a next page *)
NextCursor(cursor, found) ==
    IF Cardinality(found) <= Limit THEN None
    ELSE [last |-> LastOf(FirstOf(found, Limit)), mark |-> Mark(cursor)]

ReadPage(cursor) ==
    [items |-> {Row(c) : c \in FirstOf(Found(cursor), Limit)},
     next  |-> NextCursor(cursor, Found(cursor))]

-----------------------------------------------------------------------------
(* comment-state.ts *)

Hides(c) == c \in overlay.deleted

(* The reaction that the session saw confirmed wins over a page asked for  *)
(* before.                                                                 *)
Reconcile(page, since) ==
    LET Now(item) ==
            LET r == overlay.reactions[item.id]
            IN  IF r # None /\ r.revision > since
                THEN [item EXCEPT !.liked = r.liked] ELSE item
    IN  [page EXCEPT !.items = {Now(item) : item \in {i \in @ : ~Hides(i.id)}}]

ReconcileAll(ps, since) == [i \in DOMAIN ps |-> Reconcile(ps[i], since)]

Rows(ps) == UNION {ps[i].items : i \in DOMAIN ps}
Ids(ps) == {item.id : item \in Rows(ps)}
Cursor(ps) == IF ps = <<>> THEN None ELSE ps[Len(ps)].next
Cached == Ids(pages)
MineIds == {item.id : item \in overlay.mine}
Displayed == {c \in Cached \cup MineIds : ~Hides(c)}
(* the rows as rendered: a page before the overlay *)
OnScreen(c) ==
    IF c \in Cached
    THEN CHOOSE item \in Rows(pages) : item.id = c
    ELSE CHOOSE item \in overlay.mine : item.id = c

(* updateCachedComments *)
InPages(item) ==
    [i \in DOMAIN pages |->
       [pages[i] EXCEPT !.items = {IF m.id = item.id THEN item ELSE m : m \in @}]]

(* applyCommentReaction *)
ApplyReaction(item) ==
    IF Hides(item.id) THEN UNCHANGED <<overlay, pages>>
    ELSE LET rev == overlay.revision + 1
         IN  /\ overlay' = [overlay EXCEPT
                   !.revision = rev,
                   !.reactions[item.id] = [liked |-> item.liked, revision |-> rev],
                   !.mine = {IF m.id = item.id THEN item ELSE m : m \in @}]
             /\ pages' = InPages(item)

(* addCreatedCommentOverlay *)
AddCreated(item) ==
    IF Hides(item.id) THEN UNCHANGED <<overlay, pages>>
    ELSE IF item.id \in Cached THEN pages' = InPages(item) /\ UNCHANGED overlay
    ELSE /\ overlay' = [overlay EXCEPT !.mine = {m \in @ : m.id # item.id} \cup {item}]
         /\ UNCHANGED pages

(* deleteCommentFromCache *)
Forget(c) ==
    /\ overlay' = [overlay EXCEPT !.mine = {m \in @ : m.id # c},
                                  !.reactions[c] = None,
                                  !.deleted = @ \cup {c}]
    /\ pages' = [i \in DOMAIN pages |->
                   [pages[i] EXCEPT !.items = {m \in @ : m.id # c}]]

-----------------------------------------------------------------------------
(* Loads of the infinite query *)

NoFetch == [kind |-> "idle"]

Fetching(kind, got, left, since) ==
    [kind |-> kind, got |-> got, left |-> left,
     since |-> since,               \* the revision at loadMore, or None
     asked |-> overlay.revision,    \* the revision when the page was asked for
     answer |-> None]

(* (bound) *)
Quiet ==
    LET n(b) == IF b THEN 1 ELSE 0
    IN  n(fetch.kind # "idle") + n(refresh.kind # "idle") + n(creating # None)
          + Cardinality({c \in CommentIds : liking[c] # None})
          + Cardinality({c \in CommentIds : deleting[c] # None}) < MaxCalls

Larger(m, n) == IF m > n THEN m ELSE n
Reread == Fetching("refetch", <<>>, Larger(Len(pages), 1), None)

\* Mutant of Finally: the pages captured at the start stay as they were.
FinallyNothing(ps) == ps

(* What follows the end of a fetch that "Load more" waits for: finally     *)
(* reconcileCommentPageCache.                                              *)
Finally(ps) == IF fetch.kind # "idle" /\ fetch.since # None
               THEN ReconcileAll(ps, fetch.since) ELSE ps

(* invalidateQueries.  A fetch on its way is cancelled for a refetch,      *)
(* except the first of all.                                                *)
Invalidated == IF fetch.kind # "idle" /\ pages = <<>> THEN fetch ELSE Reread

(* "Load more".  During a refetch the button only waits for its end.       *)
LoadMore ==
    /\ Quiet
    /\ Cursor(pages) # None
    /\ refresh.kind = "idle"
    /\ \/ /\ fetch.kind = "idle"
          /\ fetch' = Fetching("append", pages, Len(pages) + 1, overlay.revision)
          /\ steady' = [steady EXCEPT !["fetch"] = steady["pages"]]
       \/ /\ fetch.kind = "refetch" /\ fetch.since = None
          /\ fetch' = [fetch EXCEPT !.since = overlay.revision]
          /\ UNCHANGED steady
    /\ UNCHANGED <<serverVars, root, pages, refresh, overlay, calls>>

(* the button shown when the first load failed *)
RetryLoad ==
    /\ Quiet
    /\ pages = <<>> /\ fetch.kind = "idle"
    /\ fetch' = Reread
    /\ UNCHANGED <<serverVars, root, pages, refresh, overlay, calls, steady>>

ServeFetch ==
    /\ fetch.kind # "idle" /\ fetch.answer = None
    /\ Readable
    /\ fetch' = [fetch EXCEPT !.answer = ReadPage(Cursor(fetch.got))]
    /\ steady' = IF fetch.got = <<>> THEN [steady EXCEPT !["fetch"] = Available] ELSE steady
    /\ UNCHANGED <<serverVars, root, pages, refresh, overlay, calls>>

(* A page arrives and is reconciled; then the next page is asked for, or   *)
(* the chain is committed.                                                 *)
SettleFetch ==
    /\ fetch.kind # "idle" /\ fetch.answer # None
    /\ LET got == Append(fetch.got, Reconcile(fetch.answer, fetch.asked))
           ended == Len(got) = fetch.left \/ Cursor(got) = None
       IN  /\ pages' = IF ended THEN Finally(got) ELSE pages
           /\ fetch' = IF ended THEN NoFetch
                       ELSE [fetch EXCEPT !.got = got, !.asked = overlay.revision, !.answer = None]
           /\ steady' = IF ended THEN [steady EXCEPT !["pages"] = steady["fetch"], !["fetch"] = {}]
                         ELSE steady
    /\ UNCHANGED <<serverVars, root, refresh, overlay, calls>>

(* an error, also the 404 of a poll or a root that is gone *)
FailFetch ==
    /\ fetch.kind # "idle"
    /\ pages' = Finally(pages)
    /\ fetch' = NoFetch
    /\ steady' = [steady EXCEPT !["fetch"] = {}]
    /\ UNCHANGED <<serverVars, root, refresh, overlay, calls>>

(* refreshComments cancels the fetch and reads the first page.  A thread   *)
(* has no such button: it gets a new query when the list is refreshed.     *)
Refresh ==
    /\ Quiet
    /\ root = None /\ refresh.kind = "idle"
    /\ refresh' = [kind |-> "refresh", asked |-> overlay.revision, answer |-> None]
    /\ pages' = Finally(pages)
    /\ fetch' = NoFetch
    /\ steady' = [steady EXCEPT !["fetch"] = {}]
    /\ UNCHANGED <<serverVars, root, overlay, calls>>

ServeRefresh ==
    /\ refresh.kind # "idle" /\ refresh.answer = None
    /\ Readable
    /\ refresh' = [refresh EXCEPT !.answer = ReadPage(None)]
    /\ steady' = [steady EXCEPT !["refresh"] = Available]
    /\ UNCHANGED <<serverVars, root, pages, fetch, overlay, calls>>

SettleRefresh ==
    /\ refresh.kind # "idle" /\ refresh.answer # None
    /\ pages' = <<Reconcile(refresh.answer, refresh.asked)>>
    /\ refresh' = NoFetch
    /\ steady' = [steady EXCEPT !["pages"] = steady["refresh"], !["refresh"] = {}]
    /\ UNCHANGED <<serverVars, root, fetch, overlay, calls>>

FailRefresh ==
    /\ refresh.kind # "idle"
    /\ refresh' = NoFetch
    /\ steady' = [steady EXCEPT !["refresh"] = {}]
    /\ UNCHANGED <<serverVars, root, pages, fetch, overlay, calls>>

NewThread ==
    /\ root # None
    /\ pages' = <<>>
    /\ fetch' = Fetching("refetch", <<>>, 1, None)
    /\ steady' = [s \in DOMAIN steady |-> {}]
    /\ UNCHANGED <<serverVars, root, refresh, overlay, calls>>

-----------------------------------------------------------------------------
(* Mutations.  A call is asked, then answered by the server, then settled  *)
(* in the tab; it fails for good when the server refuses it, and           *)
(* ambiguously when the request or the answer is lost.                     *)

Ask(want) == [want |-> want, answer |-> None]

PressCommentLike(c) ==
    /\ Quiet
    /\ c \in Displayed \cap Liked /\ liking[c] = None
    /\ overlay.revision < MaxReactions
    /\ liking' = [liking EXCEPT ![c] = Ask(IF OnScreen(c).liked THEN "unlike" ELSE "like")]
    /\ UNCHANGED <<serverVars, root, loads, overlay, deleting, creating, steady>>

ServeCommentLike(c) ==
    /\ liking[c] # None /\ liking[c].answer = None
    /\ \/ liking[c].want = "like" /\ LikeComment(Me, c)
       \/ liking[c].want = "unlike" /\ UnlikeComment(Me, c)
    /\ liking' = [liking EXCEPT ![c].answer = Row(c)']
    /\ UNCHANGED <<root, loads, overlay, deleting, creating, steady>>

SettleCommentLike(c) ==
    /\ liking[c] # None /\ liking[c].answer # None
    /\ ApplyReaction(liking[c].answer)
    /\ liking' = [liking EXCEPT ![c] = None]
    /\ UNCHANGED <<serverVars, root, fetch, refresh, deleting, creating, steady>>

RefuseCommentLike(c) ==
    /\ liking[c] # None /\ liking[c].answer = None
    /\ ~(MayWrite(Me) /\ c \in Shown)
    /\ liking' = [liking EXCEPT ![c] = None]
    /\ UNCHANGED <<serverVars, root, loads, overlay, deleting, creating, steady>>

LoseCommentLike(c) ==
    /\ liking[c] # None
    /\ liking' = [liking EXCEPT ![c] = None]
    /\ pages' = Finally(pages) /\ fetch' = Invalidated
    /\ UNCHANGED <<serverVars, root, refresh, overlay, deleting, creating, steady>>

PressCommentDelete(c) ==
    /\ Quiet
    /\ c \in Displayed /\ deleting[c] = None
    /\ comments[c].author = Me
    /\ deleting' = [deleting EXCEPT ![c] = Ask("delete")]
    /\ UNCHANGED <<serverVars, root, loads, overlay, liking, creating, steady>>

(* the history loses what is no longer available *)
Narrow == steady' = [s \in DOMAIN steady |-> steady[s] \cap Available']

ServeCommentDelete(c) ==
    /\ deleting[c] # None /\ deleting[c].answer = None
    /\ DeleteComment(Me, c)
    /\ deleting' = [deleting EXCEPT ![c].answer = "deleted"]
    /\ UNCHANGED <<root, loads, overlay, liking, creating>>
    /\ Narrow

(* the thread reads its pages again *)
SettleCommentDelete(c) ==
    /\ deleting[c] # None /\ deleting[c].answer # None
    /\ Forget(c)
    /\ deleting' = [deleting EXCEPT ![c] = None]
    /\ fetch' = IF root = None THEN fetch ELSE Invalidated
    /\ UNCHANGED <<serverVars, root, refresh, liking, creating, steady>>

RefuseCommentDelete(c) ==
    /\ deleting[c] # None /\ deleting[c].answer = None
    /\ ~(MayWrite(Me) /\ c \in Shown)
    /\ deleting' = [deleting EXCEPT ![c] = None]
    /\ UNCHANGED <<serverVars, root, loads, overlay, liking, creating, steady>>

LoseCommentDelete(c) ==
    /\ deleting[c] # None
    /\ deleting' = [deleting EXCEPT ![c] = None]
    /\ pages' = Finally(pages) /\ fetch' = Invalidated
    /\ UNCHANGED <<serverVars, root, refresh, overlay, liking, creating, steady>>

Submit ==
    /\ Quiet
    /\ creating = None
    /\ creating' = Ask("create")
    /\ UNCHANGED <<serverVars, root, loads, overlay, liking, deleting, steady>>

ServeCreate(c) ==
    /\ creating # None /\ creating.answer = None
    /\ CreateComment(Me, c, root)
    /\ creating' = [creating EXCEPT !.answer = Row(c)']
    /\ UNCHANGED <<root, loads, overlay, liking, deleting>>
    /\ Narrow

(* a reply makes the thread read its pages again *)
SettleCreate ==
    /\ creating # None /\ creating.answer # None
    /\ AddCreated(creating.answer)
    /\ creating' = None
    /\ fetch' = IF root = None THEN fetch ELSE Invalidated
    /\ UNCHANGED <<serverVars, root, refresh, liking, deleting, steady>>

(* lost or refused (bound: a refusal reads the list again, too) *)
LoseCreate ==
    /\ creating # None
    /\ creating' = None
    /\ pages' = Finally(pages) /\ fetch' = Invalidated
    /\ UNCHANGED <<serverVars, root, refresh, overlay, liking, deleting, steady>>

-----------------------------------------------------------------------------
(* Everyone else, also when their accounts are deleted.  Their likes show  *)
(* only in the count.  (Bound: the poll stays.)                            *)
OthersWrite ==
    /\ \/ \E u \in Users \ {Me}, c \in CommentIds :
             DeleteComment(u, c) \/ \E parent \in {None, root} : CreateComment(u, c, parent)
       \/ \E c \in CommentIds : AdminDeleteComment(c)
       \/ \E u \in Users \ {Me} : BlockUser(u) \/ UnblockUser(u) \/ CloseAccount(u) \/ Purge(u)
    /\ UNCHANGED listVars
    /\ Narrow

(* some comments have been written before the page is opened *)
PagesInit ==
    /\ \E written \in Written :
          /\ root \in {None, Thread} /\ (root # None => root \in written)
          /\ ServerStart([c \in CommentIds |-> IF c \notin written THEN None
                         ELSE Fresh(Author[c], IF c = root THEN None ELSE root)])
    /\ pages = <<>>
    /\ overlay = [mine |-> {}, revision |-> 0, deleted |-> {},
                  reactions |-> [c \in CommentIds |-> None]]
    /\ fetch = Reread
    /\ refresh = NoFetch
    /\ liking = [c \in CommentIds |-> None]
    /\ deleting = [c \in CommentIds |-> None]
    /\ creating = None
    /\ steady = [s \in {"pages", "fetch", "refresh"} |-> {}]

Load ==
    \/ LoadMore \/ RetryLoad \/ ServeFetch \/ SettleFetch \/ FailFetch
    \/ Refresh \/ ServeRefresh \/ SettleRefresh \/ FailRefresh
    \/ NewThread

Call ==
    \/ \E c \in CommentIds :
          \/ PressCommentLike(c) \/ ServeCommentLike(c) \/ SettleCommentLike(c)
          \/ RefuseCommentLike(c) \/ LoseCommentLike(c)
          \/ PressCommentDelete(c) \/ ServeCommentDelete(c) \/ SettleCommentDelete(c)
          \/ RefuseCommentDelete(c) \/ LoseCommentDelete(c)
          \/ ServeCreate(c)
    \/ Submit \/ SettleCreate \/ LoseCreate

PagesNext == Load \/ Call \/ OthersWrite

PagesSpec == PagesInit /\ [][PagesNext]_pagesVars

-----------------------------------------------------------------------------
(* Properties *)

(* When the chain has come to its end, nothing that has been available     *)
(* ever since its first page was read is missing on the screen, however    *)
(* the list changed between the pages.                                     *)
Complete ==
    pages # <<>> /\ Cursor(pages) = None => steady["pages"] \subseteq Displayed

(* A reaction confirmed while an append or a refresh was under way is      *)
(* still shown when its page arrives: neither the page, read before, nor   *)
(* the pages captured when the append began undo it.                       *)
Shows(c, r) == [id |-> c, liked |-> r.liked] \in Rows(pages)
Confirmed(since) ==
    {c \in CommentIds : overlay.reactions[c] # None /\ overlay.reactions[c].revision > since}
AppendsKeepReactions ==
    [][/\ fetch.kind = "append" /\ SettleFetch =>
             \A c \in Confirmed(fetch.since) \cap Ids(pages') : Shows(c, overlay.reactions[c])'
       /\ SettleRefresh =>
             \A c \in Confirmed(refresh.asked) \cap Ids(pages') : Shows(c, overlay.reactions[c])'
      ]_pagesVars
=============================================================================
