---------------------------------- MODULE Inbox ----------------------------------
(***************************************************************************)
(* The notification inbox: the rows of                                     *)
(* services/api/src/modules/notifications (repository, routes, publisher), *)
(* the realtime events about them, and the inbox of one browser tab,       *)
(* apps/web/src/features/notifications (notification-store.tsx,            *)
(* realtime-client.ts, NotificationsPage.tsx).                             *)
(*                                                                         *)
(* A change is published twice, to the sockets of the process that made it *)
(* and over the Redis bus to every process.  Each copy is sent after a     *)
(* look at the account, so the copies arrive in any order or not at all;   *)
(* the tab repairs what it missed by reading the first page again, when    *)
(* the socket becomes ready and when the page becomes visible.  Sockets    *)
(* and their registry are in RealtimeSockets.                              *)
(*                                                                         *)
(* Time is counted in writes of the server.  The unread count of an event, *)
(* a page or a mark is a query of its own after the first; the model takes *)
(* the two together.  Left out: the texts, the pill for arrivals below the *)
(* fold (pendingIds), error messages.                                      *)
(***************************************************************************)
EXTENDS Naturals, FiniteSets

CONSTANTS
    Users,
    Notes,        \* 1..n, in the order in which their transactions begin
    Recipient,    \* [Notes -> Users]
    Old,          \* 1..k: the notifications that are there when the tab opens
    PageSize,
    None,
    Elsewhere,    \* bounds the notifications that are marked on other devices
    MaxNow,       \* bounds the writes of the server
    MaxPresses,   \* bounds the marks pressed in the tab
    MaxSessions,  \* bounds the sign-ins and the changes of the profile
    MaxWire,      \* bounds the events that are being sent
    MaxOpen       \* bounds the requests of the tab that are in the air

ASSUME InboxAssumption ==
    /\ Notes \subseteq Nat \ {0}
    /\ Recipient \in [Notes -> Users]
    /\ Old \subseteq Notes /\ IsFiniteSet(Old) /\ Elsewhere \subseteq Notes
    /\ PageSize \in Nat \ {0}
    /\ {MaxNow, MaxPresses, MaxSessions, MaxWire, MaxOpen} \subseteq Nat
    /\ None \notin Users \cup Nat

VARIABLES
    now,        \* the clock: one tick for each write
    born,       \* created_at by notification, 0: no transaction has begun
    there,      \* the committed rows
    readAt,     \* read_at by notification, 0: NULL
    bus,        \* published events, some of their copies not handled yet
    wire,       \* notification.created as read from the database, being sent
    user,       \* the account of the tab
    due,        \* the account whose session has begun but is not rendered yet
    epoch,      \* epoch.current of the provider
    store,      \* NotificationStoreState
    request,    \* the requests in the air, by slot
    flight,     \* reconcileFlight.current
    presses     \* bound

serverVars == <<now, born, there, readAt>>
eventVars == <<bus, wire>>
tabVars == <<user, due, epoch, store, request, flight, presses>>
vars == <<serverVars, eventVars, tabVars>>

Slots == 1..MaxOpen
Latest(S) == CHOOSE n \in S : \A m \in S : m <= n

-----------------------------------------------------------------------------
(* The rows.  listNotifications orders by created_at, the start of the     *)
(* transaction that inserts the row.                                       *)

Mine(u) == {n \in there : Recipient[n] = u}
Unread(u) == Cardinality({n \in Mine(u) : readAt[n] = 0})

(* the newest rows of S, at most PageSize *)
Newest(S) == {n \in S : Cardinality({m \in S : m > n}) < PageSize}

(* one page below a cursor (None: the first) with the cursor of the next *)
Page(u, cursor) ==
    LET below == {n \in Mine(u) : cursor = None \/ n < cursor}
        page  == Newest(below)
    IN  [items |-> [n \in Notes |-> IF n \in page THEN readAt[n] ELSE None],
         next  |-> IF page = below THEN None
                   ELSE CHOOSE n \in page : \A m \in page : n <= m]

Created(n) == [type |-> "created", to |-> Recipient[n], note |-> n]
ReadOne(n, at, k) ==
    [type |-> "read", to |-> Recipient[n], note |-> n, at |-> at, unread |-> k]
ReadAll(u, at) == [type |-> "readAll", to |-> u, at |-> at]

(* sendToUser in this process and realtimeBus.publish: the copies are the  *)
(* same element, delivered more than once                                  *)
Published(e) == bus \cup {e}

(* the transaction of a vote, a comment, a like or a follow begins ... *)
Begin(n) ==
    /\ n \in Notes /\ born[n] = 0 /\ \A m \in Notes : m < n => born[m] > 0
    /\ now < MaxNow
    /\ now' = now + 1
    /\ born' = [born EXCEPT ![n] = now + 1]
    /\ UNCHANGED <<there, readAt, eventVars, tabVars>>

(* ... and commits with createNotification in it; then the event goes out *)
Commit(n) ==
    /\ n \in Notes /\ born[n] > 0 /\ n \notin there
    /\ there' = there \cup {n}
    /\ bus' = Published(Created(n))
    /\ UNCHANGED <<now, born, readAt, wire, tabVars>>

(* markNotificationRead: read_at = COALESCE(read_at, now()) *)
MarkRow(n) ==
    IF readAt[n] > 0 THEN UNCHANGED <<now, readAt>>
    ELSE /\ now < MaxNow
         /\ now' = now + 1
         /\ readAt' = [readAt EXCEPT ![n] = now + 1]

(* markAllNotificationsRead, and the time it answers *)
MarkRows(u) ==
    LET marked == {n \in Mine(u) : readAt[n] = 0}
    IN  IF marked = {} THEN UNCHANGED <<now, readAt>>
        ELSE /\ now < MaxNow
             /\ now' = now + 1
             /\ readAt' = [n \in Notes |-> IF n \in marked THEN now + 1 ELSE readAt[n]]
AllReadAt(u) ==
    IF Mine(u) = {} THEN now ELSE Latest({readAt'[n] : n \in Mine(u)})

(* The same account in another tab or the mobile app, which mark one by    *)
(* one, and the requests this tab gave up on.                              *)
MarkElsewhere(n) ==
    /\ n \in there \cap Elsewhere
    /\ MarkRow(n)
    /\ readAt' # readAt
    /\ UNCHANGED <<born, there, wire, tabVars>>
    /\ bus' = Published(ReadOne(n, readAt'[n], Unread(Recipient[n])'))

-----------------------------------------------------------------------------
(* Delivery.  A copy of notification.created is read again before it is    *)
(* sent (refreshNotificationCreatedEvent); what is sent then is on its way *)
(* while everything else goes on.  The other events say what they said     *)
(* when they were published.                                               *)

Handle(e) ==
    /\ e \in bus /\ e.to = user /\ e.type = "created"
    /\ Cardinality(wire) < MaxWire
    /\ wire' = wire \cup {[type |-> "created", to |-> e.to, note |-> e.note,
                           at |-> readAt[e.note], unread |-> Unread(e.to)]}
    /\ UNCHANGED <<serverVars, bus, tabVars>>

(* every copy was handled or lost: no socket of the account here, Redis or *)
(* the socket fails                                                        *)
Spent(e) ==
    /\ e \in bus
    /\ bus' = bus \ {e}
    /\ UNCHANGED <<serverVars, wire, tabVars>>

-----------------------------------------------------------------------------
(* notificationReducer *)

NewStore == [items |-> [n \in Notes |-> None], unread |-> 0, cursor |-> None,
             loading |-> FALSE]

Shown(st) == {n \in Notes : st.items[n] # None}
IsRead(st, n) == st.items[n] # None /\ st.items[n] > 0

\* Mutant of MergeItem: what arrives last is shown.
MergeItemLast(old, at) == at

(* mergeItem: without authority the later read_at stays *)
MergeItem(old, at) == IF old # None /\ old > at THEN old ELSE at

Merged(st, items) ==
    [st EXCEPT !.items = [n \in Notes |-> IF items[n] = None THEN @[n]
                                          ELSE MergeItem(@[n], items[n])]]

Overwritten(st, items) ==
    [st EXCEPT !.items = [n \in Notes |-> IF items[n] = None THEN @[n] ELSE items[n]]]

Loaded(st, k, next) == [st EXCEPT !.unread = k, !.cursor = next, !.loading = FALSE]

(* createdEvent *)
OnCreated(st, e) ==
    LET known == e.note \in Shown(st)
        older == Shown(st) # {} /\ e.note < Latest(Shown(st))
        one   == [n \in Notes |-> IF n = e.note THEN e.at ELSE None]
    IN  [Merged(st, one) EXCEPT !.unread = IF known \/ older THEN st.unread ELSE e.unread]

(* readEvent, also for the answer to a mark *)
OnRead(st, n, at, k) ==
    IF n \notin Shown(st) THEN [st EXCEPT !.unread = IF k < @ THEN k ELSE @]
    ELSE IF at < st.items[n] THEN st
    ELSE [st EXCEPT !.items[n] = at, !.unread = k]

(* readAllEvent, also for the answer *)
OnReadAll(st, at) ==
    LET newer == {n \in Shown(st) : born[n] > at}
    IN  [st EXCEPT !.items = [n \in Notes |->
                                IF n \in Shown(st) \ newer /\ at >= @[n] THEN at ELSE @[n]],
                   !.unread = IF \E n \in newer : st.items[n] = 0 THEN @ ELSE 0]

(* optimisticRead and optimisticReadAll, at the time of the tab's clock *)
ReadNow(st, n) ==
    IF n \notin Shown(st) \/ st.items[n] > 0 THEN st
    ELSE [st EXCEPT !.items[n] = now, !.unread = IF @ > 0 THEN @ - 1 ELSE 0]
AllReadNow(st) ==
    [st EXCEPT !.items = [n \in Notes |-> IF @[n] = 0 THEN now ELSE @[n]], !.unread = 0]

(* applyRealtime *)
ReceiveCreated(e) ==
    /\ e \in wire
    /\ wire' = wire \ {e}
    /\ store' = OnCreated(store, e)
    /\ UNCHANGED <<serverVars, bus, user, due, epoch, request, flight, presses>>

ReceiveMark(e) ==
    /\ e \in bus /\ e.to = user
    /\ \/ e.type = "read" /\ store' = OnRead(store, e.note, e.at, e.unread)
       \/ e.type = "readAll" /\ store' = OnReadAll(store, e.at)
    /\ UNCHANGED <<serverVars, eventVars, user, due, epoch, request, flight, presses>>

Receive == (\E e \in wire : ReceiveCreated(e)) \/ (\E e \in bus : ReceiveMark(e))

-----------------------------------------------------------------------------
(* Requests of the tab *)

Asked(kind, arg, ep, snapshot) ==
    [kind |-> kind, arg |-> arg, epoch |-> ep, snapshot |-> snapshot,
     stage |-> "asked", got |-> None, unread |-> 0]

Free(rs) == {s \in Slots : rs[s] = None}
Slot(rs) == CHOOSE s \in Free(rs) : TRUE

(* reconcile: joins the one that is in flight in this epoch *)
Reconcile(st, rs) ==
    IF flight # None /\ flight.epoch = epoch
    THEN store' = st /\ request' = rs /\ UNCHANGED flight
    ELSE /\ Free(rs) # {}
         /\ store' = [st EXCEPT !.loading = TRUE]
         /\ request' = [rs EXCEPT ![Slot(rs)] = Asked("list", None, epoch, None)]
         /\ flight' = [epoch |-> epoch, slot |-> Slot(rs)]

(* connection.ready, a page that becomes visible, the inbox page opened,   *)
(* Retry                                                                   *)
Refresh ==
    /\ due = None
    /\ Reconcile(store, request)
    /\ UNCHANGED <<serverVars, eventVars, user, due, epoch, presses>>

LoadMore ==
    /\ due = None
    /\ store.cursor # None /\ ~store.loading
    /\ Free(request) # {}
    /\ request' = [request EXCEPT ![Slot(request)] = Asked("more", store.cursor, epoch, None)]
    /\ store' = [store EXCEPT !.loading = TRUE]
    /\ UNCHANGED <<serverVars, eventVars, user, due, epoch, flight, presses>>

Press(kind, n, st) ==
    /\ due = None /\ presses < MaxPresses
    /\ Free(request) # {}
    /\ request' = [request EXCEPT ![Slot(request)] = Asked(kind, n, epoch, store)]
    /\ store' = st
    /\ presses' = presses + 1
    /\ UNCHANGED <<serverVars, eventVars, user, due, epoch, flight>>

(* markRead of a card that is opened, and Mark all as read *)
PressRead(n) == n \in Shown(store) /\ Press("mark", n, ReadNow(store, n))
PressReadAll == store.unread > 0 /\ Press("markAll", None, AllReadNow(store))

(* A session ends and another begins: requests are cancelled; their        *)
(* callbacks may run before the provider is rendered again (SwitchUser) or *)
(* after it (Mount).                                                       *)
SwitchUser(u) ==
    /\ u # user /\ due = None /\ epoch < MaxSessions
    /\ due' = u
    /\ request' = [s \in Slots |-> IF request[s] = None THEN None
                                   ELSE [request[s] EXCEPT !.stage = "failed"]]
    /\ UNCHANGED <<serverVars, eventVars, user, epoch, store, flight, presses>>

(* the effect of the provider: the next epoch, an empty store, a new       *)
(* socket, and the unread count is asked for                               *)
Mount ==
    /\ due # None /\ Free(request) # {}
    /\ user' = due /\ due' = None
    /\ epoch' = epoch + 1
    /\ store' = [NewStore EXCEPT !.loading = TRUE]
    /\ request' = [request EXCEPT ![Slot(request)] = Asked("count", None, epoch + 1, None)]
    /\ wire' = {}
    /\ UNCHANGED <<serverVars, bus, flight, presses>>

-----------------------------------------------------------------------------
(* The server takes a request. *)

Serve(s, kind) ==
    /\ request[s] # None /\ request[s].kind = kind /\ request[s].stage = "asked"
    /\ due = None

Answer(s, got, k) ==
    /\ request' = [request EXCEPT ![s].stage = "answered", ![s].got = got, ![s].unread = k]
    /\ UNCHANGED <<born, there, wire, user, due, epoch, store, flight, presses>>

ServePage(s) ==
    /\ Serve(s, "list") \/ Serve(s, "more")
    /\ Answer(s, Page(user, request[s].arg), Unread(user))
    /\ UNCHANGED <<now, readAt, bus>>

ServeCount(s) ==
    /\ Serve(s, "count")
    /\ Answer(s, None, Unread(user))
    /\ UNCHANGED <<now, readAt, bus>>

ServeMark(s) ==
    /\ Serve(s, "mark")
    /\ LET n == request[s].arg
       IN  /\ MarkRow(n)
           /\ UNCHANGED <<there, user>>
           /\ Answer(s, readAt'[n], Unread(user)')
           /\ bus' = Published(ReadOne(n, readAt'[n], Unread(user)'))

ServeMarkAll(s) ==
    /\ Serve(s, "markAll")
    /\ MarkRows(user)
    /\ UNCHANGED <<there, user>>
    /\ Answer(s, AllReadAt(user), 0)
    /\ bus' = Published(ReadAll(user, AllReadAt(user)))

-----------------------------------------------------------------------------
(* The tab gets the outcome. *)

\* Mutant of Accepts: the epoch is not compared.
AcceptsAny(r) == TRUE

Accepts(r) == r.epoch = epoch

Done(s) == [request EXCEPT ![s] = None]

\* Mutant of Landed: the finally of reconcile is missing.
LandedNever(s) == flight

(* the finally of reconcile *)
Landed(s) == IF flight # None /\ flight.slot = s /\ request[s].kind = "list"
                /\ flight.epoch = request[s].epoch
             THEN None ELSE flight

Answered(st, r) ==
    CASE r.kind = "count"   -> [st EXCEPT !.unread = r.unread, !.loading = FALSE]
      [] r.kind = "list"    -> Loaded(Overwritten(st, r.got.items), r.unread, r.got.next)
      [] r.kind = "more"    -> Loaded(Merged(st, r.got.items), r.unread, r.got.next)
      [] r.kind = "mark"    -> OnRead(st, r.arg, r.got, r.unread)
      [] r.kind = "markAll" -> OnReadAll(st, r.got)

Settle(s) ==
    /\ due = None
    /\ request[s] # None /\ request[s].stage = "answered"
    /\ store' = IF Accepts(request[s]) THEN Answered(store, request[s]) ELSE store
    /\ request' = Done(s)
    /\ flight' = Landed(s)
    /\ UNCHANGED <<serverVars, eventVars, user, due, epoch, presses>>

(* The request or its answer is lost, or it was cancelled.  A mark that    *)
(* failed brings back the store of the press and reads the page again.     *)
Fail(s) ==
    /\ request[s] # None
    /\ due # None => request[s].stage = "failed"
    /\ LET r == request[s]
       IN  IF r.kind \in {"mark", "markAll"} /\ Accepts(r)
           THEN Reconcile(r.snapshot, Done(s))
           ELSE /\ store' = IF Accepts(r) THEN [store EXCEPT !.loading = FALSE] ELSE store
                /\ request' = Done(s)
                /\ flight' = Landed(s)
    /\ UNCHANGED <<serverVars, eventVars, user, due, epoch, presses>>

-----------------------------------------------------------------------------
(* the first session is mounted and has its unread count *)
Init ==
    /\ now = Cardinality(Old)
    /\ born = [n \in Notes |-> IF n \in Old THEN n ELSE 0]
    /\ there = Old
    /\ readAt = [n \in Notes |-> 0]
    /\ bus = {} /\ wire = {}
    /\ user \in {Recipient[n] : n \in Notes}
    /\ due = None
    /\ epoch = 1
    /\ store = [NewStore EXCEPT !.unread = Unread(user)]
    /\ request = [s \in Slots |-> None]
    /\ flight = None
    /\ presses = 0

Server ==
    \/ \E n \in Notes : Begin(n) \/ Commit(n) \/ MarkElsewhere(n)
    \/ \E s \in Slots : ServePage(s) \/ ServeCount(s) \/ ServeMark(s)
                        \/ ServeMarkAll(s)

Delivery ==
    \/ \E e \in bus : Handle(e) \/ Spent(e) \/ ReceiveMark(e)
    \/ \E e \in wire : ReceiveCreated(e)

Tab ==
    \/ Refresh \/ LoadMore \/ PressReadAll \/ Mount
    \/ \E n \in Notes : PressRead(n)
    \/ \E u \in Users : SwitchUser(u)
    \/ \E s \in Slots : Settle(s) \/ Fail(s)

Next == Server \/ Delivery \/ Tab

Spec == Init /\ [][Next]_vars

(* The copies are handled or lost (nothing is assumed of what is being     *)
(* sent); the server answers, or the request is given up; a page that is   *)
(* read again and again gets an answer at some time; a session is mounted; *)
(* the tab becomes visible again and again, also when the bound on         *)
(* requests keeps it from reading now.                                     *)
Fairness ==
    /\ WF_vars(\E e \in bus : Spent(e))
    /\ WF_vars(\E s \in Slots : Settle(s) \/ Fail(s))
    /\ SF_vars(\E s \in Slots : request[s] # None /\ request[s].kind = "list" /\ ServePage(s))
    /\ SF_vars(\E s \in Slots : request[s] # None /\ request[s].kind = "list" /\ Settle(s))
    /\ WF_vars(Mount)
    /\ SF_vars(Refresh)

FairSpec == Spec /\ Fairness

-----------------------------------------------------------------------------
(* Properties *)

Times == 0..MaxNow

TypeOK ==
    /\ now \in Times
    /\ born \in [Notes -> Times] /\ readAt \in [Notes -> Times]
    /\ there \subseteq Notes
    /\ user \in Users /\ due \in Users \cup {None}
    /\ store.items \in [Notes -> Times \cup {None}]
    /\ store.cursor \in Notes \cup {None}
    /\ \A s \in Slots : request[s] # None => request[s].epoch <= epoch

(* The tab shows notifications of the account that is signed in, whatever  *)
(* answers, failures and rolled back marks of an earlier session come late *)
(* (notification-store.tsx checks the epoch before every dispatch).        *)
OwnInbox == \A n \in Shown(store) : Recipient[n] = user

(* Copies of an event overtake each other and a page that was read earlier *)
(* is appended later: neither turns a read notification unread.            *)
Arrives ==
    \/ Receive
    \/ \E s \in Slots : request[s] # None /\ request[s].kind = "more" /\ Settle(s)
ArrivalsKeepRead ==
    [][Arrives => \A n \in Notes : IsRead(store, n) => IsRead(store', n)]_vars

(* Once nothing is written any more the badge and the first page are those *)
(* of the server, after any losses, overtakings and rolled back marks.     *)
Current ==
    /\ store.unread = Unread(user)
    /\ \A n \in Newest(Mine(user)) : store.items[n] = readAt[n]
CatchesUp == <>[]Current
=============================================================================
