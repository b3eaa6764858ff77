----------------------------- MODULE RealtimeProofs -----------------------------
(***************************************************************************)
(* Two parts, about the inbox of a tab and about the sockets that feed it. *)
(*                                                                         *)
(* A tab shows notifications of the account that is signed in only, and no *)
(* event or older page turns one unread, for any accounts, notifications,  *)
(* sizes of a page and number of requests that are in the air when the     *)
(* session changes.                                                        *)
(*                                                                         *)
(* The invariant says where a foreign notification, or one without a time, *)
(* could come from and does not: the events that are being sent, the       *)
(* answers and the stores that a failed mark would bring back - of         *)
(* requests of this epoch only, since the others are not accepted.         *)
(*                                                                         *)
(* A client has one connection at most, for any clients, processes and     *)
(* faults: the invariant links the two sides, every connection that is up  *)
(* being the one its client holds.  And the lease of an event is taken     *)
(* from no dispatcher while it lasts.                                      *)
(***************************************************************************)
EXTENDS Inbox, RealtimeSockets, FiniteSetTheorems, WellFoundedInduction, TLAPS

IsStore(st) ==
    /\ st = [items |-> st.items, unread |-> st.unread, cursor |-> st.cursor,
             loading |-> st.loading]
    /\ st.items = [n \in Notes |-> st.items[n]]

(* items, or a store, with notifications of the account u only *)
OwnItems(items, u) ==
    \A n \in Notes : items[n] # None => Recipient[n] = u /\ items[n] \in Nat
Own(st, u) == IsStore(st) /\ OwnItems(st.items, u)

RowsTimed ==
    /\ there \subseteq Notes /\ now \in Nat /\ readAt \in [Notes -> Nat]
    /\ \A n \in Notes : readAt[n] <= now

EventsOwn ==
    /\ \A e \in bus : e.type = "created" => e.note \in Notes /\ e.to = Recipient[e.note]
    /\ \A e \in bus : e.type \in {"read", "readAll"} => e.at \in Nat
    /\ \A e \in wire : e.at \in Nat /\ (e.note \in Notes => Recipient[e.note] = user)

IsRequest(r) ==
    /\ r = [kind |-> r.kind, arg |-> r.arg, epoch |-> r.epoch, snapshot |-> r.snapshot,
            stage |-> r.stage, got |-> r.got, unread |-> r.unread]
    /\ r.kind \in {"count", "list", "more", "mark", "markAll"}
    /\ r.kind = "mark" => r.arg \in Notes
    /\ r.epoch \in Nat /\ r.epoch <= epoch

BringsOwn(r) ==
    r.epoch = epoch =>
        /\ r.kind \in {"list", "more"} /\ r.stage = "answered" => OwnItems(r.got.items, user)
        /\ r.kind \in {"mark", "markAll"} /\ r.stage = "answered" => r.got \in Nat
        /\ r.kind \in {"mark", "markAll"} => Own(r.snapshot, user)

SlotsOwn(rs) ==
    /\ rs = [s \in Slots |-> rs[s]]
    /\ \A s \in Slots : rs[s] # None => IsRequest(rs[s]) /\ BringsOwn(rs[s])

RequestsOwn == SlotsOwn(request)

TabInv == epoch \in Nat /\ Own(store, user) /\ EventsOwn /\ RequestsOwn

IInv == RowsTimed /\ TabInv

-----------------------------------------------------------------------------
(* The rows *)

(* Every set of naturals has a least element, and a bounded one a greatest. *)
LEMMA HasFirst ==
    ASSUME NEW S, S \subseteq Nat, S # {}
    PROVE  \E n \in S : \A m \in S : n <= m
<1> DEFINE R == {p \in Nat \X Nat : p[1] < p[2]}
<1>1. IsWellFoundedOn(R, Nat)
  BY NatLessThanWellFounded DEF OpToRel
<1> HIDE DEF R
<1>2. PICK n \in S : \A m \in S : ~(<<m, n>> \in R)
  BY <1>1, WFMin
<1>3. \A m \in S : ~(m < n)
  BY <1>2 DEF R
<1> QED BY <1>3

LEMMA LatestOf ==
    ASSUME NEW S, S \subseteq Nat, S # {}, NEW k \in Nat, \A n \in S : n <= k
    PROVE  Latest(S) \in S
<1> DEFINE T == {k - n : n \in S}
<1>1. T \subseteq Nat /\ T # {}
  <2>1. \A n \in S : n \in Nat /\ n <= k
    OBVIOUS
  <2>2. \A n \in S : k - n \in Nat
    BY <2>1
  <2> QED BY <2>2
<1>2. PICK t \in T : \A m \in T : t <= m
  <2> HIDE DEF T
  <2> QED BY <1>1, HasFirst
<1>3. PICK n \in S : t = k - n
  OBVIOUS
<1>4. \A m \in S : k - n <= k - m
  BY <1>2, <1>3
<1>5. \A m \in S : m <= n
  BY <1>4
<1> QED BY <1>5 DEF Latest

LEMMA MarkRowTimed ==
    ASSUME RowsTimed, NEW n \in Notes, UNCHANGED there, MarkRow(n)
    PROVE  RowsTimed' /\ readAt'[n] \in Nat
<1>1. CASE readAt[n] > 0
  BY <1>1 DEF RowsTimed, MarkRow
<1>2. CASE ~(readAt[n] > 0)
  BY <1>2 DEF RowsTimed, MarkRow
<1> QED BY <1>1, <1>2

LEMMA MarkRowsTimed ==
    ASSUME RowsTimed, UNCHANGED there, there \subseteq Notes, MarkRows(user)
    PROVE  RowsTimed' /\ AllReadAt(user) \in Nat
<1> DEFINE marked == {n \in Mine(user) : readAt[n] = 0}
<1>1. RowsTimed'
  <2>1. CASE marked = {}
    BY <2>1 DEF RowsTimed, MarkRows
  <2>2. CASE marked # {}
    BY <2>2 DEF RowsTimed, MarkRows
  <2> QED BY <2>1, <2>2
<1>2. AllReadAt(user) \in Nat
  <2> DEFINE S == {readAt'[n] : n \in Mine(user)}
  <2>1. CASE Mine(user) = {}
    BY <2>1 DEF AllReadAt, RowsTimed
  <2>2. CASE Mine(user) # {}
    <3>1. S \subseteq Nat /\ S # {} /\ now' \in Nat /\ \A k \in S : k <= now'
      BY <1>1, <2>2 DEF RowsTimed, Mine
    <3> HIDE DEF S
    <3>2. Latest(S) \in Nat
      BY <3>1, LatestOf
    <3> QED BY <2>2, <3>2 DEF AllReadAt, S
  <2> QED BY <2>1, <2>2
<1> QED BY <1>1, <1>2

-----------------------------------------------------------------------------
(* The reducer *)

(* Whatever an event or an answer brings of the account, the store stays   *)
(* the account's.                                                          *)
LEMMA MergesOwn ==
    ASSUME NEW u, NEW st, Own(st, u), NEW items, OwnItems(items, u)
    PROVE  /\ Own(Merged(st, items), u)
           /\ Own(Overwritten(st, items), u)
           /\ \A n \in Notes : IsRead(st, n) => IsRead(Merged(st, items), n)
<1>1. Own(Merged(st, items), u) /\ Own(Overwritten(st, items), u)
  BY DEF Own, OwnItems, IsStore, Merged, Overwritten, MergeItem
<1>2. ASSUME NEW n \in Notes, IsRead(st, n)
      PROVE  IsRead(Merged(st, items), n)
  <2>1. st.items[n] # None /\ st.items[n] \in Nat /\ st.items[n] > 0
    BY <1>2 DEF IsRead, Own, OwnItems
  <2>2. Merged(st, items).items[n]
          = IF items[n] = None THEN st.items[n] ELSE MergeItem(st.items[n], items[n])
    BY DEF Merged, Own, IsStore
  <2>3. CASE items[n] = None
    BY <2>1, <2>2, <2>3 DEF IsRead
  <2>4. CASE items[n] # None
    <3>1. items[n] \in Nat
      BY <2>4 DEF OwnItems
    <3>2. MergeItem(st.items[n], items[n]) \in Nat /\ MergeItem(st.items[n], items[n]) > 0
      BY <2>1, <3>1 DEF MergeItem
    <3> QED BY <2>2, <2>4, <3>2, InboxAssumption DEF IsRead
  <2> QED BY <2>3, <2>4
<1> QED BY <1>1, <1>2

LEMMA CountsOwn ==
    ASSUME NEW u, NEW st, Own(st, u), NEW k
    PROVE  /\ Own([st EXCEPT !.unread = k], u)
           /\ Own([st EXCEPT !.cursor = k], u)
           /\ Own([st EXCEPT !.loading = k], u)
           /\ [st EXCEPT !.unread = k].items = st.items
           /\ [st EXCEPT !.cursor = k].items = st.items
           /\ [st EXCEPT !.loading = k].items = st.items
BY DEF Own, OwnItems, IsStore

LEMMA LoadedOwn ==
    ASSUME NEW u, NEW st, Own(st, u), NEW k, NEW next, NEW b
    PROVE  /\ Own(Loaded(st, k, next), u)
           /\ Own([st EXCEPT !.unread = k, !.loading = b], u)
           /\ Loaded(st, k, next).items = st.items
<1> DEFINE one == [st EXCEPT !.unread = k]
           two == [one EXCEPT !.cursor = next]
           three == [two EXCEPT !.loading = FALSE]
<1>1. Own(three, u) /\ three.items = st.items
  <2>1. Own(one, u) /\ one.items = st.items
    BY CountsOwn
  <2> HIDE DEF one
  <2>2. Own(two, u) /\ two.items = one.items
    BY <2>1, CountsOwn
  <2> HIDE DEF two
  <2>3. Own(three, u) /\ three.items = two.items
    BY <2>2, CountsOwn
  <2> QED BY <2>1, <2>2, <2>3
<1>2. Own([[st EXCEPT !.unread = k] EXCEPT !.loading = b], u)
  BY CountsOwn
<1>3. Loaded(st, k, next) = three
  BY DEF Loaded
<1>4. [st EXCEPT !.unread = k, !.loading = b] = [[st EXCEPT !.unread = k] EXCEPT !.loading = b]
  OBVIOUS
<1> HIDE DEF three
<1> QED BY <1>1, <1>2, <1>3, <1>4

LEMMA CreatedOwn ==
    ASSUME NEW u, NEW st, Own(st, u), NEW e, e.at \in Nat,
           e.note \in Notes => Recipient[e.note] = u
    PROVE  /\ Own(OnCreated(st, e), u)
           /\ \A n \in Notes : IsRead(st, n) => IsRead(OnCreated(st, e), n)
<1> DEFINE one == [n \in Notes |-> IF n = e.note THEN e.at ELSE None]
<1>1. OwnItems(one, u)
  BY DEF OwnItems
<1> HIDE DEF one
<1>2. /\ Own(Merged(st, one), u)
      /\ \A n \in Notes : IsRead(st, n) => IsRead(Merged(st, one), n)
  BY <1>1, MergesOwn
<1>3. \A k : /\ Own([Merged(st, one) EXCEPT !.unread = k], u)
            /\ [Merged(st, one) EXCEPT !.unread = k].items = Merged(st, one).items
  BY <1>2, CountsOwn
<1>4. \E k : OnCreated(st, e) = [Merged(st, one) EXCEPT !.unread = k]
  BY DEF OnCreated, one
<1>5. Own(OnCreated(st, e), u) /\ OnCreated(st, e).items = Merged(st, one).items
  BY <1>3, <1>4
<1> QED BY <1>2, <1>5 DEF IsRead

LEMMA ReplacedOwn ==
    ASSUME NEW u, NEW st, Own(st, u), NEW items, NEW k, items = [n \in Notes |-> items[n]],
           OwnItems(items, u)
    PROVE  /\ Own([st EXCEPT !.items = items, !.unread = k], u)
           /\ [st EXCEPT !.items = items, !.unread = k].items = items
<1>1. Own([st EXCEPT !.items = items], u) /\ [st EXCEPT !.items = items].items = items
  BY DEF Own, OwnItems, IsStore
<1>2. /\ Own([[st EXCEPT !.items = items] EXCEPT !.unread = k], u)
      /\ [[st EXCEPT !.items = items] EXCEPT !.unread = k].items = items
  <2> DEFINE one == [st EXCEPT !.items = items]
  <2> HIDE DEF one
  <2>1. Own(one, u) /\ one.items = items
    BY <1>1 DEF one
  <2>2. Own([one EXCEPT !.unread = k], u) /\ [one EXCEPT !.unread = k].items = items
    BY <2>1, CountsOwn
  <2> QED BY <2>2 DEF one
<1>3. [st EXCEPT !.items = items, !.unread = k] = [[st EXCEPT !.items = items] EXCEPT !.unread = k]
  OBVIOUS
<1> QED BY <1>2, <1>3

LEMMA MarksOwn ==
    ASSUME NEW u, NEW st, Own(st, u), NEW n, NEW at \in Nat, NEW k, now \in Nat
    PROVE  /\ Own(OnRead(st, n, at, k), u)
           /\ Own(OnReadAll(st, at), u)
           /\ Own(ReadNow(st, n), u)
           /\ Own(AllReadNow(st), u)
           /\ \A m \in Notes : IsRead(st, m) =>
                 IsRead(OnRead(st, n, at, k), m) /\ IsRead(OnReadAll(st, at), m)
<1>0. \A m \in Notes : st.items[m] # None => st.items[m] \in Nat
  BY DEF Own, OwnItems
<1>1. /\ Own(OnRead(st, n, at, k), u)
      /\ \A m \in Notes : IsRead(st, m) => IsRead(OnRead(st, n, at, k), m)
  <2>1. CASE n \notin Shown(st)
    BY <2>1 DEF Own, OwnItems, IsStore, OnRead, IsRead
  <2>2. CASE n \in Shown(st) /\ at < st.items[n]
    BY <2>2 DEF OnRead
  <2>3. CASE n \in Shown(st) /\ ~(at < st.items[n])
    <3> DEFINE items == [st.items EXCEPT ![n] = at]
    <3>1. OnRead(st, n, at, k) = [st EXCEPT !.items = items, !.unread = k]
      BY <2>3 DEF OnRead
    <3>2. items = [m \in Notes |-> items[m]] /\ OwnItems(items, u)
      BY <2>3 DEF Own, OwnItems, IsStore, Shown
    <3>3. n \in Notes /\ st.items[n] \in Nat /\ at >= st.items[n]
      BY <1>0, <2>3 DEF Shown
    <3>4. \A m \in Notes : IsRead(st, m) => items[m] # None /\ items[m] > 0
      BY <1>0, <3>3, InboxAssumption DEF IsRead, Own, IsStore
    <3> HIDE DEF items
    <3>5. /\ Own([st EXCEPT !.items = items, !.unread = k], u)
          /\ [st EXCEPT !.items = items, !.unread = k].items = items
      BY <3>2, ReplacedOwn
    <3>6. Own(OnRead(st, n, at, k), u) /\ OnRead(st, n, at, k).items = items
      BY <3>1, <3>5
    <3> QED BY <3>4, <3>6 DEF IsRead
  <2> QED BY <2>1, <2>2, <2>3
<1>2. /\ Own(OnReadAll(st, at), u)
      /\ \A m \in Notes : IsRead(st, m) => IsRead(OnReadAll(st, at), m)
  <2> DEFINE newer == {m \in Shown(st) : born[m] > at}
             item(m) == IF m \in Shown(st) \ newer /\ at >= st.items[m]
                          THEN at ELSE st.items[m]
             items == [m \in Notes |-> item(m)]
             count == IF \E m \in newer : st.items[m] = 0 THEN st.unread ELSE 0
  <2>1. OnReadAll(st, at) = [st EXCEPT !.items = items, !.unread = count]
    BY DEF Own, IsStore, OnReadAll
  <2>2. OwnItems(items, u)
    BY DEF Own, OwnItems, Shown
  <2>5. \A m \in Notes : IsRead(st, m) => items[m] # None /\ items[m] > 0
    BY <1>0, InboxAssumption DEF IsRead
  <2> HIDE DEF item
  <2>3. items = [m \in Notes |-> items[m]]
    OBVIOUS
  <2> HIDE DEF items, count
  <2>4. /\ Own([st EXCEPT !.items = items, !.unread = count], u)
        /\ [st EXCEPT !.items = items, !.unread = count].items = items
    BY <2>2, <2>3, ReplacedOwn
  <2> QED BY <2>1, <2>4, <2>5 DEF IsRead
<1>3. Own(ReadNow(st, n), u)
  BY DEF Own, OwnItems, IsStore, ReadNow, Shown
<1>4. Own(AllReadNow(st), u)
  <2> DEFINE item(m) == IF st.items[m] = 0 THEN now ELSE st.items[m]
             items == [m \in Notes |-> item(m)]
  <2>1. AllReadNow(st) = [st EXCEPT !.items = items, !.unread = 0]
    BY DEF Own, IsStore, AllReadNow
  <2>2. OwnItems(items, u)
    BY InboxAssumption DEF Own, OwnItems
  <2> HIDE DEF item
  <2>3. items = [m \in Notes |-> items[m]]
    OBVIOUS
  <2> HIDE DEF items
  <2>4. Own([st EXCEPT !.items = items, !.unread = 0], u)
    BY <2>2, <2>3, ReplacedOwn
  <2> QED BY <2>1, <2>4
<1> QED BY <1>1, <1>2, <1>3, <1>4

LEMMA AnsweredOwn ==
    ASSUME NEW u, NEW st, Own(st, u), NEW r,
           r.kind \in {"count", "list", "more", "mark", "markAll"},
           r.kind \in {"list", "more"} => OwnItems(r.got.items, u),
           r.kind \in {"mark", "markAll"} => r.got \in Nat, now \in Nat
    PROVE  Own(Answered(st, r), u)
<1>1. CASE r.kind = "count"
  BY <1>1, LoadedOwn DEF Answered
<1>2. CASE r.kind = "list"
  <2>1. Own(Overwritten(st, r.got.items), u)
    BY <1>2, MergesOwn
  <2> QED BY <1>2, <2>1, LoadedOwn DEF Answered
<1>3. CASE r.kind = "more"
  <2>1. Own(Merged(st, r.got.items), u)
    BY <1>3, MergesOwn
  <2> QED BY <1>3, <2>1, LoadedOwn DEF Answered
<1>4. CASE r.kind = "mark"
  BY <1>4, MarksOwn DEF Answered
<1>5. CASE r.kind = "markAll"
  BY <1>5, MarksOwn DEF Answered
<1> QED BY <1>1, <1>2, <1>3, <1>4, <1>5

-----------------------------------------------------------------------------
(* The requests *)

(* a page of an account has its notifications only *)
LEMMA PageOwn ==
    ASSUME NEW u, NEW cursor, RowsTimed
    PROVE  OwnItems(Page(u, cursor).items, u)
BY DEF OwnItems, RowsTimed, Page, Newest, Mine

(* A new request of this epoch carries the store that is shown now, when   *)
(* it is a mark.                                                           *)
LEMMA AskedOwn ==
    ASSUME NEW kind, kind \in {"count", "list", "more", "mark", "markAll"}, NEW arg,
           kind = "mark" => arg \in Notes, NEW snapshot, epoch \in Nat, kind \in {"mark", "markAll"} => Own(snapshot, user)
    PROVE  /\ IsRequest(Asked(kind, arg, epoch, snapshot))
           /\ BringsOwn(Asked(kind, arg, epoch, snapshot))
BY DEF Asked, IsRequest, BringsOwn

LEMMA PutOwn ==
    ASSUME NEW rs, SlotsOwn(rs), NEW s \in Slots, NEW r,
           r # None => IsRequest(r) /\ BringsOwn(r)
    PROVE  SlotsOwn([rs EXCEPT ![s] = r])
<1> DEFINE qs == [rs EXCEPT ![s] = r]
<1>1. qs = [t \in Slots |-> qs[t]]
  BY DEF SlotsOwn
<1>2. ASSUME NEW t \in Slots, qs[t] # None
      PROVE  IsRequest(qs[t]) /\ BringsOwn(qs[t])
  BY <1>2 DEF SlotsOwn
<1> QED BY <1>1, <1>2 DEF SlotsOwn

LEMMA SlotIsFree ==
    ASSUME NEW rs, Free(rs) # {}
    PROVE  Slot(rs) \in Slots
BY DEF Free, Slot

LEMMA DoneOwn ==
    ASSUME RequestsOwn, NEW s \in Slots
    PROVE  SlotsOwn(Done(s))
BY PutOwn DEF Done, RequestsOwn

(* Requests of the same session stay good. *)
LEMMA SameSession ==
    ASSUME UNCHANGED <<user, epoch>>, SlotsOwn(request')
    PROVE  RequestsOwn'
BY DEF RequestsOwn, SlotsOwn, IsRequest, BringsOwn

(* A reading is asked for, or joined, from any store of the account.       *)
LEMMA ReconcileOwn ==
    ASSUME epoch \in Nat, NEW st, Own(st, user), NEW rs, SlotsOwn(rs),
           UNCHANGED <<user, epoch>>, Reconcile(st, rs)
    PROVE  Own(store', user') /\ RequestsOwn'
<1>1. CASE store' = st /\ request' = rs
  BY <1>1, SameSession
<1>2. CASE /\ Free(rs) # {}
           /\ store' = [st EXCEPT !.loading = TRUE]
           /\ request' = [rs EXCEPT ![Slot(rs)] = Asked("list", None, epoch, None)]
  <2>1. Own(store', user')
    BY <1>2, CountsOwn
  <2>2. SlotsOwn(request')
    BY <1>2, AskedOwn, SlotIsFree, PutOwn
  <2> QED BY <2>1, <2>2, SameSession
<1> QED BY <1>1, <1>2 DEF Reconcile

-----------------------------------------------------------------------------
(* The steps *)

LEMMA InitOwn == Init => IInv
<1> SUFFICES ASSUME Init PROVE IInv
  OBVIOUS
<1>1. Own([NewStore EXCEPT !.unread = Unread(user)], user)
  <2>1. Own(NewStore, user)
    BY DEF Own, OwnItems, IsStore, NewStore
  <2> QED BY <2>1, CountsOwn
<1>2. SlotsOwn(request)
  BY DEF Init, SlotsOwn
<1>3. RowsTimed
  BY FS_CardinalityType, InboxAssumption DEF Init, RowsTimed
<1> QED BY <1>1, <1>2, <1>3 DEF Init, IInv, TabInv, EventsOwn, RequestsOwn

(* Rows and copies: nothing of the tab changes. *)
LEMMA RowsOwn ==
    ASSUME IInv, NEW n \in Notes, Begin(n) \/ Commit(n) \/ MarkElsewhere(n)
    PROVE  TabInv'
<1>1. UNCHANGED <<user, epoch, store, request, wire>>
  BY DEF Begin, Commit, MarkElsewhere, eventVars, tabVars
<1>2. \A e \in bus' : /\ e.type = "created" => e.note \in Notes /\ e.to = Recipient[e.note]
                      /\ e.type \in {"read", "readAll"} => e.at \in Nat
  <2>1. CASE Begin(n) \/ Commit(n)
    BY <2>1 DEF IInv, TabInv, EventsOwn, Begin, Commit, eventVars, Published, Created
  <2>2. CASE MarkElsewhere(n)
    <3>1. readAt'[n] \in Nat
      BY <2>2, MarkRowTimed DEF MarkElsewhere, IInv
    <3> QED BY <2>2, <3>1 DEF IInv, TabInv, EventsOwn, MarkElsewhere, Published, ReadOne
  <2> QED BY <2>1, <2>2
<1>3. RequestsOwn'
  BY <1>1, SameSession DEF IInv, TabInv, RequestsOwn
<1>4. EventsOwn'
  <2>1. \A e \in wire' : e.at \in Nat /\ (e.note \in Notes => Recipient[e.note] = user')
    BY <1>1 DEF IInv, TabInv, EventsOwn
  <2>2. \A e \in bus' : e.type = "created" => e.note \in Notes /\ e.to = Recipient[e.note]
    BY <1>2
  <2>3. \A e \in bus' : e.type \in {"read", "readAll"} => e.at \in Nat
    BY <1>2
  <2> QED BY <2>1, <2>2, <2>3 DEF EventsOwn
<1> QED BY <1>1, <1>3, <1>4 DEF IInv, TabInv

WithAnswer(q, got, k) == [q EXCEPT !.stage = "answered", !.got = got, !.unread = k]

(* an answer changes nothing else of a request *)
LEMMA AnsweredRequest ==
    ASSUME NEW q, NEW got, NEW k, IsRequest(q)
    PROVE  /\ IsRequest(WithAnswer(q, got, k))
           /\ WithAnswer(q, got, k).kind = q.kind
           /\ WithAnswer(q, got, k).epoch = q.epoch
           /\ WithAnswer(q, got, k).snapshot = q.snapshot
           /\ WithAnswer(q, got, k).got = got
<1> DEFINE a == [q EXCEPT !.stage = "answered"]
           b == [a EXCEPT !.got = got]
           c == [b EXCEPT !.unread = k]
<1>1. IsRequest(a) /\ a.kind = q.kind /\ a.epoch = q.epoch /\ a.snapshot = q.snapshot
  BY DEF IsRequest
<1>2. IsRequest(b) /\ b.kind = q.kind /\ b.epoch = q.epoch /\ b.snapshot = q.snapshot
      /\ b.got = got
  <2> HIDE DEF a
  <2> QED BY <1>1 DEF IsRequest
<1>3. IsRequest(c) /\ c.kind = q.kind /\ c.epoch = q.epoch /\ c.snapshot = q.snapshot
      /\ c.got = got
  <2> HIDE DEF b
  <2> QED BY <1>2 DEF IsRequest
<1>4. c = WithAnswer(q, got, k)
  BY DEF WithAnswer
<1> HIDE DEF c
<1> QED BY <1>3, <1>4

LEMMA AnswerOwn ==
    ASSUME IInv, NEW s \in Slots, NEW got, NEW k, Answer(s, got, k), request[s] # None,
           request[s].kind \in {"list", "more"} => got = Page(user, request[s].arg),
           request[s].kind \in {"mark", "markAll"} => got \in Nat,
           \A e \in bus' \ bus : e.type # "created" /\ e.at \in Nat
    PROVE  TabInv'
<1> DEFINE r == WithAnswer(request[s], got, k)
<1>1. UNCHANGED <<user, epoch, store, wire>>
  BY DEF Answer
<1>2. request' = [request EXCEPT ![s] = r]
  BY DEF Answer, WithAnswer
<1>3. IsRequest(request[s]) /\ BringsOwn(request[s])
  BY DEF IInv, TabInv, RequestsOwn, SlotsOwn
<1>4. IsRequest(r) /\ r.kind = request[s].kind /\ r.epoch = request[s].epoch
      /\ r.snapshot = request[s].snapshot /\ r.got = got
  BY <1>3, AnsweredRequest
<1> HIDE DEF r
<1>5. BringsOwn(r)
  <2>1. r.kind \in {"list", "more"} => OwnItems(r.got.items, user)
    BY <1>4, PageOwn DEF IInv
  <2> QED BY <2>1, <1>3, <1>4 DEF BringsOwn
<1>6. SlotsOwn(request')
  BY <1>2, <1>4, <1>5, PutOwn DEF IInv, TabInv, RequestsOwn
<1>7. RequestsOwn'
  BY <1>1, <1>6, SameSession
<1> QED BY <1>1, <1>7 DEF IInv, TabInv, EventsOwn

LEMMA ServedOwn ==
    ASSUME IInv, NEW s \in Slots, ServePage(s) \/ ServeCount(s) \/ ServeMark(s) \/ ServeMarkAll(s)
    PROVE  TabInv'
<1>1. CASE ServePage(s)
  BY <1>1, AnswerOwn DEF ServePage, Serve
<1>2. CASE ServeCount(s)
  BY <1>2, AnswerOwn DEF ServeCount, Serve
<1>3. CASE ServeMark(s)
  <2>1. request[s].arg \in Notes
    BY <1>3 DEF ServeMark, Serve, IInv, TabInv, RequestsOwn, SlotsOwn, IsRequest
  <2>2. readAt'[request[s].arg] \in Nat
    BY <1>3, <2>1, MarkRowTimed DEF ServeMark, IInv
  <2> QED BY <1>3, <2>2, AnswerOwn DEF ServeMark, Serve, Published, ReadOne
<1>4. CASE ServeMarkAll(s)
  <2>1. AllReadAt(user) \in Nat
    BY <1>4, MarkRowsTimed DEF ServeMarkAll, IInv, RowsTimed
  <2> QED BY <1>4, <2>1, AnswerOwn DEF ServeMarkAll, Serve, Published, ReadAll
<1> QED BY <1>1, <1>2, <1>3, <1>4

LEMMA DeliveryOwn ==
    ASSUME IInv, Delivery
    PROVE  TabInv'
<1>1. ASSUME NEW e \in bus, Handle(e)
      PROVE  TabInv'
  <2>1. UNCHANGED <<bus, user, epoch, store, request>>
    BY <1>1 DEF Handle, tabVars
  <2>2. \A x \in wire' : x.at \in Nat /\ (x.note \in Notes => Recipient[x.note] = user)
    BY <1>1 DEF IInv, TabInv, RowsTimed, EventsOwn, Handle
  <2>3. RequestsOwn'
    BY <2>1, SameSession DEF IInv, TabInv, RequestsOwn
  <2> QED BY <2>1, <2>2, <2>3 DEF IInv, TabInv, EventsOwn
<1>2. ASSUME NEW e \in bus, Spent(e)
      PROVE  TabInv'
  <2>1. bus' \subseteq bus /\ UNCHANGED <<wire, user, epoch, store, request>>
    BY <1>2 DEF Spent, tabVars
  <2>2. RequestsOwn'
    BY <2>1, SameSession DEF IInv, TabInv, RequestsOwn
  <2> QED BY <2>1, <2>2 DEF IInv, TabInv, EventsOwn
<1>3. ASSUME NEW e \in bus, ReceiveMark(e)
      PROVE  TabInv'
  <2>1. UNCHANGED <<bus, wire, user, epoch, request>>
    BY <1>3 DEF ReceiveMark, eventVars
  <2>2. Own(store', user)
    <3>1. e.at \in Nat /\ now \in Nat
      BY <1>3 DEF ReceiveMark, IInv, TabInv, EventsOwn, RowsTimed
    <3> QED BY <1>3, <3>1, MarksOwn DEF ReceiveMark, IInv, TabInv
  <2>3. RequestsOwn'
    BY <2>1, SameSession DEF IInv, TabInv, RequestsOwn
  <2> QED BY <2>1, <2>2, <2>3 DEF IInv, TabInv, EventsOwn
<1>4. ASSUME NEW e \in wire, ReceiveCreated(e)
      PROVE  TabInv'
  <2>1. wire' \subseteq wire /\ UNCHANGED <<bus, user, epoch, request>>
    BY <1>4 DEF ReceiveCreated
  <2>2. Own(store', user)
    BY <1>4, CreatedOwn DEF ReceiveCreated, IInv, TabInv, EventsOwn
  <2>3. RequestsOwn'
    BY <2>1, SameSession DEF IInv, TabInv, RequestsOwn
  <2> QED BY <2>1, <2>2, <2>3 DEF IInv, TabInv, EventsOwn
<1> QED BY <1>1, <1>2, <1>3, <1>4 DEF Delivery

(* What the user does in the same session. *)
LEMMA PressedOwn ==
    ASSUME IInv, NEW kind, kind \in {"mark", "markAll"}, NEW n, kind = "mark" => n \in Notes,
           NEW st, Own(st, user),
           Press(kind, n, st)
    PROVE  TabInv'
<1>1. UNCHANGED <<bus, wire, user, epoch>>
  BY DEF Press, eventVars
<1>2. SlotsOwn(request')
  BY AskedOwn, SlotIsFree, PutOwn DEF Press, IInv, TabInv, RequestsOwn
<1>3. RequestsOwn'
  BY <1>1, <1>2, SameSession
<1> QED BY <1>1, <1>3 DEF Press, IInv, TabInv, EventsOwn

LEMMA ReadingOwn ==
    ASSUME IInv, Refresh \/ LoadMore
    PROVE  TabInv'
<1>1. UNCHANGED <<bus, wire, user, epoch>>
  BY DEF Refresh, LoadMore, eventVars
<1>2. CASE Refresh
  BY <1>1, <1>2, ReconcileOwn DEF Refresh, IInv, TabInv, EventsOwn, RequestsOwn
<1>3. CASE LoadMore
  <2>1. SlotsOwn(request')
    BY <1>3, AskedOwn, SlotIsFree, PutOwn DEF LoadMore, IInv, TabInv, RequestsOwn
  <2>2. RequestsOwn'
    BY <1>1, <2>1, SameSession
  <2>3. Own(store', user)
    BY <1>3, CountsOwn DEF LoadMore, IInv, TabInv
  <2> QED BY <1>1, <2>2, <2>3 DEF IInv, TabInv, EventsOwn
<1> QED BY <1>2, <1>3

(* The next session: what is in the air is of earlier ones. *)
LEMMA SessionOwn ==
    ASSUME IInv, Mount \/ \E u \in Users : SwitchUser(u)
    PROVE  TabInv'
<1>1. CASE Mount
  <2> DEFINE st == [NewStore EXCEPT !.loading = TRUE]
             r == Asked("count", None, epoch + 1, None)
  <2>1. epoch' = epoch + 1 /\ bus' = bus /\ wire' = {} /\ store' = st
        /\ request' = [request EXCEPT ![Slot(request)] = r] /\ Slot(request) \in Slots
    BY <1>1, SlotIsFree DEF Mount
  <2>2. Own(st, user')
    <3>1. Own(NewStore, user')
      BY DEF Own, OwnItems, IsStore, NewStore
    <3> QED BY <3>1, CountsOwn
  <2>3. request' = [s \in Slots |-> request'[s]]
    BY <2>1 DEF IInv, TabInv, RequestsOwn, SlotsOwn
  <2>4. ASSUME NEW s \in Slots
        PROVE  (request[s] # None => IsRequest(request[s]) /\ BringsOwn(request[s]))'
    <3>1. CASE s = Slot(request)
      <4>1. request'[s] = r
        BY <2>1, <3>1 DEF IInv, TabInv, RequestsOwn, SlotsOwn
      <4> QED BY <2>1, <4>1 DEF Asked, IsRequest, BringsOwn, IInv, TabInv
    <3>2. CASE s # Slot(request)
      <4>1. request'[s] = request[s]
        BY <2>1, <3>2 DEF IInv, TabInv, RequestsOwn, SlotsOwn
      <4> QED BY <2>1, <4>1 DEF IsRequest, BringsOwn, IInv, TabInv, RequestsOwn, SlotsOwn
    <3> QED BY <3>1, <3>2
  <2>5. RequestsOwn'
    BY <2>3, <2>4 DEF RequestsOwn, SlotsOwn
  <2> HIDE DEF st, r
  <2> QED BY <2>1, <2>2, <2>5 DEF IInv, TabInv, EventsOwn
<1>2. ASSUME NEW u \in Users, SwitchUser(u)
      PROVE  TabInv'
  <2>1. UNCHANGED <<bus, wire, user, epoch, store>>
    BY <1>2 DEF SwitchUser, eventVars
  <2>2. request' = [s \in Slots |-> request'[s]]
    BY <1>2 DEF SwitchUser
  <2>3. ASSUME NEW s \in Slots, request'[s] # None
        PROVE  IsRequest(request'[s]) /\ BringsOwn(request'[s])
    <3>1. request[s] # None /\ request'[s] = [request[s] EXCEPT !.stage = "failed"]
      BY <1>2, <2>3 DEF SwitchUser
    <3>2. IsRequest(request[s]) /\ BringsOwn(request[s])
      BY <3>1 DEF IInv, TabInv, RequestsOwn, SlotsOwn
    <3> QED BY <3>1, <3>2 DEF IsRequest, BringsOwn
  <2>4. RequestsOwn'
    BY <2>1, <2>2, <2>3, SameSession DEF SlotsOwn
  <2> QED BY <2>1, <2>4 DEF IInv, TabInv, EventsOwn
<1> QED BY <1>1, <1>2

(* Outcomes *)
LEMMA OutcomeOwn ==
    ASSUME IInv, NEW s \in Slots, Settle(s) \/ Fail(s)
    PROVE  TabInv'
<1>1. UNCHANGED <<bus, wire, user, epoch>> /\ request[s] # None
  BY DEF Settle, Fail, eventVars
<1>2. IsRequest(request[s]) /\ BringsOwn(request[s]) /\ SlotsOwn(Done(s)) /\ Own(store, user)
  BY <1>1, DoneOwn DEF IInv, TabInv, RequestsOwn, SlotsOwn
<1>3. CASE Settle(s)
  <2>1. Own(store', user)
    <3>1. CASE Accepts(request[s])
      <4>1. request[s].kind \in {"list", "more"} =>
              OwnItems(request[s].got.items, user)
        BY <1>2, <1>3, <3>1 DEF Settle, Accepts, BringsOwn
      <4>2. request[s].kind \in {"count", "list", "more", "mark", "markAll"}
        BY <1>2 DEF IsRequest
      <4>4. request[s].kind \in {"mark", "markAll"} => request[s].got \in Nat
        BY <1>2, <1>3, <3>1 DEF Settle, Accepts, BringsOwn
      <4>5. now \in Nat
        BY DEF IInv, RowsTimed
      <4>3. Own(Answered(store, request[s]), user)
        BY <1>2, <4>1, <4>2, <4>4, <4>5, AnsweredOwn
      <4> QED BY <1>3, <3>1, <4>3 DEF Settle
    <3>2. CASE ~Accepts(request[s])
      BY <1>2, <1>3, <3>2 DEF Settle
    <3> QED BY <3>1, <3>2
  <2>2. RequestsOwn'
    BY <1>1, <1>2, <1>3, SameSession DEF Settle
  <2> QED BY <1>1, <2>1, <2>2 DEF IInv, TabInv, EventsOwn
<1>4. CASE Fail(s)
  <2>1. CASE request[s].kind \in {"mark", "markAll"} /\ Accepts(request[s])
    <3>1. Reconcile(request[s].snapshot, Done(s))
      BY <1>4, <2>1 DEF Fail
    <3>2. Own(request[s].snapshot, user)
      BY <1>2, <2>1 DEF Accepts, BringsOwn
    <3>3. Own(store', user') /\ RequestsOwn'
      BY <1>1, <1>2, <3>1, <3>2, ReconcileOwn DEF IInv, TabInv
    <3> QED BY <1>1, <3>3 DEF IInv, TabInv, EventsOwn
  <2>2. CASE ~(request[s].kind \in {"mark", "markAll"} /\ Accepts(request[s]))
    <3>1. /\ store' = IF Accepts(request[s]) THEN [store EXCEPT !.loading = FALSE] ELSE store
          /\ request' = Done(s)
      BY <1>4, <2>2 DEF Fail
    <3>2. Own(store', user)
      BY <1>2, <3>1, CountsOwn
    <3>3. RequestsOwn'
      BY <1>1, <1>2, <3>1, SameSession
    <3> QED BY <1>1, <3>2, <3>3 DEF IInv, TabInv, EventsOwn
  <2> QED BY <2>1, <2>2
<1> QED BY <1>3, <1>4

LEMMA TabOwn ==
    ASSUME IInv, Tab
    PROVE  TabInv'
<1>1. CASE Refresh \/ LoadMore
  BY <1>1, ReadingOwn
<1>2. CASE PressReadAll
  <2>1. Own(AllReadNow(store), user)
    BY MarksOwn DEF IInv, TabInv, RowsTimed
  <2> QED BY <1>2, <2>1, PressedOwn DEF PressReadAll
<1>3. ASSUME NEW n \in Notes, PressRead(n)
      PROVE  TabInv'
  <2>1. Own(ReadNow(store, n), user)
    BY MarksOwn DEF IInv, TabInv, RowsTimed
  <2> QED BY <1>3, <2>1, PressedOwn DEF PressRead
<1>4. CASE Mount \/ \E u \in Users : SwitchUser(u)
  BY <1>4, SessionOwn
<1>5. ASSUME NEW s \in Slots, Settle(s) \/ Fail(s)
      PROVE  TabInv'
  BY <1>5, OutcomeOwn
<1> QED BY <1>1, <1>2, <1>3, <1>4, <1>5 DEF Tab

LEMMA RowsStep ==
    ASSUME IInv, [Next]_vars
    PROVE  RowsTimed'
<1>1. ASSUME NEW n \in Notes, Begin(n) \/ Commit(n)
      PROVE  RowsTimed'
  BY <1>1 DEF IInv, RowsTimed, Begin, Commit
<1>2. ASSUME NEW n \in Notes, MarkElsewhere(n)
      PROVE  RowsTimed'
  BY <1>2, MarkRowTimed DEF IInv, MarkElsewhere
<1>3. ASSUME NEW s \in Slots, ServePage(s) \/ ServeCount(s)
      PROVE  RowsTimed'
  BY <1>3 DEF IInv, RowsTimed, ServePage, ServeCount, Answer
<1>4. ASSUME NEW s \in Slots, ServeMark(s)
      PROVE  RowsTimed'
  <2>1. request[s].arg \in Notes
    BY <1>4 DEF ServeMark, Serve, IInv, TabInv, RequestsOwn, SlotsOwn, IsRequest
  <2> QED BY <1>4, <2>1, MarkRowTimed DEF IInv, ServeMark
<1>5. ASSUME NEW s \in Slots, ServeMarkAll(s)
      PROVE  RowsTimed'
  BY <1>5, MarkRowsTimed DEF IInv, RowsTimed, ServeMarkAll
<1>6. CASE Delivery
  BY <1>6 DEF IInv, RowsTimed, Delivery, Handle, Spent, ReceiveMark, ReceiveCreated, serverVars
<1>7. CASE Tab
  BY <1>7 DEF IInv, RowsTimed, Tab, Refresh, LoadMore, PressReadAll, PressRead, Press, Mount,
             SwitchUser, Settle, Fail, serverVars
<1>8. CASE UNCHANGED vars
  BY <1>8 DEF IInv, RowsTimed, vars, serverVars
<1> QED BY <1>1, <1>2, <1>3, <1>4, <1>5, <1>6, <1>7, <1>8 DEF Next, Server

LEMMA InboxStep ==
    ASSUME IInv, [Next]_vars
    PROVE  IInv'
<1>1. CASE Server
  BY <1>1, RowsStep, RowsOwn, ServedOwn DEF Server, IInv
<1>2. CASE Delivery
  BY <1>2, RowsStep, DeliveryOwn DEF IInv
<1>3. CASE Tab
  BY <1>3, RowsStep, TabOwn DEF IInv
<1>4. CASE UNCHANGED vars
  <2>1. UNCHANGED <<bus, wire, user, epoch, store, request>>
    BY <1>4 DEF vars, eventVars, tabVars
  <2>2. RequestsOwn'
    BY <2>1, SameSession DEF IInv, TabInv, RequestsOwn
  <2> QED BY <2>1, <2>2, RowsStep DEF IInv, TabInv, EventsOwn
<1> QED BY <1>1, <1>2, <1>3, <1>4 DEF Next

LEMMA InboxInvariant == Spec => []IInv
BY InitOwn, InboxStep, PTL DEF Spec

(* The tab shows notifications of the account that is signed in, whatever  *)
(* answers, failures and rolled back marks of an earlier session come late *)
(* (the epoch in notification-store.tsx).                                  *)
THEOREM NeverForeign == Spec => []OwnInbox
<1>1. IInv => OwnInbox
  BY DEF IInv, TabInv, Own, OwnItems, OwnInbox, Shown
<1> QED BY <1>1, InboxInvariant, PTL

(* Neither copies of events that overtake each other nor a page that was   *)
(* read earlier turns a read notification unread (mergeItem, readEvent and *)
(* readAllEvent of notificationReducer).                                   *)
THEOREM ReadStaysRead == Spec => ArrivalsKeepRead
<1> DEFINE Stays == Arrives => \A n \in Notes : IsRead(store, n) => IsRead(store', n)
<1>1. IInv /\ [Next]_vars => [Stays]_vars
  <2> SUFFICES ASSUME IInv, Arrives
               PROVE  \A n \in Notes : IsRead(store, n) => IsRead(store', n)
    OBVIOUS
  <2>1. Own(store, user) /\ now \in Nat
    BY DEF IInv, TabInv, RowsTimed
  <2>2. ASSUME NEW e \in wire, ReceiveCreated(e)
        PROVE  \A n \in Notes : IsRead(store, n) => IsRead(store', n)
    <3>1. e.at \in Nat /\ (e.note \in Notes => Recipient[e.note] = user)
      BY DEF IInv, TabInv, EventsOwn
    <3> QED BY <2>1, <2>2, <3>1, CreatedOwn DEF ReceiveCreated
  <2>3. ASSUME NEW e \in bus, ReceiveMark(e)
        PROVE  \A n \in Notes : IsRead(store, n) => IsRead(store', n)
    <3>1. e.at \in Nat
      BY <2>3 DEF ReceiveMark, IInv, TabInv, EventsOwn
    <3> QED BY <2>1, <2>3, <3>1, MarksOwn DEF ReceiveMark
  <2>4. ASSUME NEW s \in Slots, request[s] # None, request[s].kind = "more", Settle(s)
        PROVE  \A n \in Notes : IsRead(store, n) => IsRead(store', n)
    <3>1. CASE Accepts(request[s])
      <4> DEFINE items == request[s].got.items
      <4>1. OwnItems(items, user)
        BY <2>4, <3>1 DEF Settle, Accepts, BringsOwn, IInv, TabInv, RequestsOwn, SlotsOwn
      <4>2. store' = Loaded(Merged(store, items), request[s].unread, request[s].got.next)
        BY <2>4, <3>1 DEF Settle, Answered
      <4>3. /\ Own(Merged(store, items), user)
            /\ \A n \in Notes : IsRead(store, n) => IsRead(Merged(store, items), n)
        BY <2>1, <4>1, MergesOwn
      <4>4. store'.items = Merged(store, items).items
        BY <4>2, <4>3, LoadedOwn
      <4> QED BY <4>3, <4>4 DEF IsRead
    <3>2. CASE ~Accepts(request[s])
      BY <2>4, <3>2 DEF Settle
    <3> QED BY <3>1, <3>2
  <2> QED BY <2>2, <2>3, <2>4 DEF Arrives, Receive
<1> QED BY <1>1, InboxInvariant, PTL DEF Spec, ArrivalsKeepRead

-----------------------------------------------------------------------------
(* The sockets *)

(* A connection that is up is the current one of its client; and the       *)
(* current socket of a client is a connection of its own, while no timer   *)
(* runs.                                                                   *)
LinksOK ==
    /\ \A s \in Sockets : socket[s] # Nothing /\ socket[s].up =>
          current[socket[s].client] = s /\ socket[s].side # "removed"
    /\ \A c \in Clients : current[c] # Nothing =>
          /\ socket[current[c]] # Nothing /\ socket[current[c]].client = c
          /\ c \in running \ timer

SocketsInv == SocketsTypeOK /\ LinksOK

LinkTypes ==
    /\ running \subseteq Clients /\ timer \subseteq running
    /\ current \in [Clients -> Sockets \cup {Nothing}]
    /\ socket \in [Sockets -> Connections \cup {Nothing}]

(* The same connections of the same clients, with other sides or links.    *)
Rewired(sk) ==
    /\ sk \in [Sockets -> Connections \cup {Nothing}]
    /\ \A s \in Sockets : /\ sk[s] = Nothing <=> socket[s] = Nothing
                          /\ sk[s] # Nothing => sk[s].client = socket[s].client

LEMMA KeptIs ==
    ASSUME NEW sk \in [Sockets -> Connections \cup {Nothing}],
           NEW cur \in [Clients -> Sockets \cup {Nothing}]
    PROVE  /\ Kept(sk, cur) \in [Sockets -> Connections \cup {Nothing}]
           /\ \A s \in Sockets : Kept(sk, cur)[s] = sk[s] \/ Kept(sk, cur)[s] = Nothing
           /\ \A c \in Clients : cur[c] # Nothing => Kept(sk, cur)[cur[c]] = sk[cur[c]]
BY DEF Kept

LEMMA ClosedIs ==
    ASSUME NEW sk \in [Sockets -> Connections \cup {Nothing}], NEW S,
           \A s \in S : s \in Sockets => sk[s] # Nothing
    PROVE  /\ Closed(sk, S) \in [Sockets -> Connections \cup {Nothing}]
           /\ \A s \in Sockets : s \notin S => Closed(sk, S)[s] = sk[s]
           /\ \A s \in Sockets : s \in S => /\ Closed(sk, S)[s] # Nothing /\ ~Closed(sk, S)[s].up
                                            /\ Closed(sk, S)[s].client = sk[s].client
<1>1. ASSUME NEW s \in Sockets, s \in S
      PROVE  /\ Closed(sk, S)[s] \in Connections /\ ~Closed(sk, S)[s].up
             /\ Closed(sk, S)[s].client = sk[s].client
  <2>1. sk[s] \in Connections
    BY <1>1
  <2>2. Closed(sk, S)[s] = [sk[s] EXCEPT !.side = "removed", !.up = FALSE]
    BY <1>1 DEF Closed
  <2> QED BY <2>1, <2>2 DEF Connections
<1>2. \A s \in Sockets : s \notin S => Closed(sk, S)[s] = sk[s]
  BY DEF Closed
<1>3. Closed(sk, S) = [s \in Sockets |-> Closed(sk, S)[s]]
  BY DEF Closed
<1>4. \A s \in Sockets : Closed(sk, S)[s] \in Connections \cup {Nothing}
  BY <1>1, <1>2
<1> QED BY <1>1, <1>2, <1>3, <1>4, ConnectionAssumption

(* Connections are closed on the server's side. *)
LEMMA ServerCloses ==
    ASSUME SocketsInv, NEW S, S \subseteq {s \in Sockets : socket[s] # Nothing},
           socket' = Kept(Closed(socket, S), current), UNCHANGED <<current, running, timer>>
    PROVE  LinkTypes' /\ LinksOK'
<1> DEFINE sk == Closed(socket, S)
<1>1. LinkTypes /\ LinksOK
  BY DEF SocketsInv, SocketsTypeOK, LinkTypes
<1>2. /\ sk \in [Sockets -> Connections \cup {Nothing}]
      /\ \A s \in Sockets : s \notin S => sk[s] = socket[s]
      /\ \A s \in Sockets : s \in S => /\ sk[s] # Nothing /\ ~sk[s].up
                                       /\ sk[s].client = socket[s].client
  BY <1>1, ClosedIs DEF LinkTypes
<1> HIDE DEF sk
<1>3. /\ socket' \in [Sockets -> Connections \cup {Nothing}]
      /\ \A s \in Sockets : socket'[s] = sk[s] \/ socket'[s] = Nothing
      /\ \A c \in Clients : current[c] # Nothing => socket'[current[c]] = sk[current[c]]
  BY <1>1, <1>2, KeptIs DEF LinkTypes, sk
<1>4. LinkTypes'
  BY <1>1, <1>3 DEF LinkTypes
<1>5. ASSUME NEW s \in Sockets, socket'[s] # Nothing, socket'[s].up
      PROVE  current'[socket'[s].client] = s /\ socket'[s].side # "removed"
  <2>1. socket'[s] = socket[s]
    BY <1>2, <1>3, <1>5
  <2> QED BY <1>1, <1>5, <2>1 DEF LinksOK
<1>6. ASSUME NEW c \in Clients, current'[c] # Nothing
      PROVE  /\ socket'[current'[c]] # Nothing /\ socket'[current'[c]].client = c
             /\ c \in running' \ timer'
  <2>1. current[c] \in Sockets /\ current'[c] = current[c]
    BY <1>1, <1>6 DEF LinkTypes
  <2>2. socket[current[c]] # Nothing /\ socket[current[c]].client = c /\ c \in running \ timer
    BY <1>1, <1>6, <2>1 DEF LinksOK
  <2>3. socket'[current[c]] = sk[current[c]]
    BY <1>3, <1>6, <2>1
  <2> QED BY <1>2, <2>1, <2>2, <2>3
<1> QED BY <1>4, <1>5, <1>6 DEF LinksOK

(* Clients are stopped; of the connections only some of theirs may be up.  *)
LEMMA StoppedIs ==
    ASSUME SocketsInv, NEW sk, Rewired(sk), NEW S, S \subseteq Clients,
           \A s \in Sockets : sk[s] # Nothing /\ sk[s].up => socket[s] # Nothing /\ socket[s].up,
           \A s \in Sockets : sk[s] # Nothing /\ sk[s].up => sk[s].side # "removed",
           Stopped(S, current, sk)
    PROVE  LinkTypes' /\ LinksOK'
<1> DEFINE cut == [s \in Sockets |-> IF sk[s] # Nothing /\ sk[s].client \in S
                                     THEN [sk[s] EXCEPT !.up = FALSE] ELSE sk[s]]
<1>1. LinkTypes /\ LinksOK
  BY DEF SocketsInv, SocketsTypeOK, LinkTypes
<1>2. /\ running' = running \ S /\ timer' = timer \ S
      /\ current' = [c \in Clients |-> IF c \in S THEN Nothing ELSE current[c]]
      /\ socket' = Kept(cut, current')
  BY DEF Stopped
<1>3. current' \in [Clients -> Sockets \cup {Nothing}]
  BY <1>1, <1>2 DEF LinkTypes
<1>4. ASSUME NEW s \in Sockets, sk[s] # Nothing, sk[s].client \in S
      PROVE  cut[s] \in Connections /\ ~cut[s].up /\ cut[s].client = sk[s].client
  <2>1. sk[s] \in Connections /\ cut[s] = [sk[s] EXCEPT !.up = FALSE]
    BY <1>4 DEF Rewired
  <2> QED BY <2>1 DEF Connections
<1>5. ASSUME NEW s \in Sockets, ~(sk[s] # Nothing /\ sk[s].client \in S)
      PROVE  cut[s] = sk[s] /\ cut[s] \in Connections \cup {Nothing}
  BY <1>5 DEF Rewired
<1>6. cut = [s \in Sockets |-> cut[s]]
  OBVIOUS
<1> HIDE DEF cut
<1>7. cut \in [Sockets -> Connections \cup {Nothing}]
  BY <1>4, <1>5, <1>6
<1>8. /\ socket' \in [Sockets -> Connections \cup {Nothing}]
      /\ \A s \in Sockets : socket'[s] = cut[s] \/ socket'[s] = Nothing
      /\ \A c \in Clients : current'[c] # Nothing => socket'[current'[c]] = cut[current'[c]]
  BY <1>2, <1>3, <1>7, KeptIs
<1>9. LinkTypes'
  BY <1>1, <1>2, <1>3, <1>8 DEF LinkTypes
<1>10. ASSUME NEW s \in Sockets, socket'[s] # Nothing, socket'[s].up
       PROVE  current'[socket'[s].client] = s /\ socket'[s].side # "removed"
  <2>1. socket'[s] = sk[s] /\ sk[s] # Nothing /\ sk[s].client \notin S
    BY <1>4, <1>5, <1>8, <1>10
  <2>2. socket[s] # Nothing /\ socket[s].up /\ sk[s].client = socket[s].client
        /\ sk[s].side # "removed"
    BY <1>10, <2>1 DEF Rewired
  <2>3. current[sk[s].client] = s /\ sk[s].client \in Clients
    BY <1>1, <2>1, <2>2 DEF LinksOK, Rewired, Connections
  <2> QED BY <1>2, <2>1, <2>2, <2>3
<1>11. ASSUME NEW c \in Clients, current'[c] # Nothing
       PROVE  /\ socket'[current'[c]] # Nothing /\ socket'[current'[c]].client = c
              /\ c \in running' \ timer'
  <2>1. c \notin S /\ current'[c] = current[c] /\ current[c] \in Sockets
    BY <1>1, <1>2, <1>11 DEF LinkTypes
  <2>2. socket[current[c]] # Nothing /\ socket[current[c]].client = c /\ c \in running \ timer
    BY <1>1, <1>11, <2>1 DEF LinksOK
  <2>3. sk[current[c]] # Nothing /\ sk[current[c]].client = c
    BY <2>1, <2>2 DEF Rewired
  <2>4. cut[current[c]] = sk[current[c]]
    BY <1>5, <2>1, <2>3
  <2> QED BY <1>2, <1>8, <1>11, <2>1, <2>2, <2>3, <2>4
<1> QED BY <1>9, <1>10, <1>11 DEF LinksOK

LEMMA LinksStep ==
    ASSUME SocketsInv, [SocketsNext]_socketVars
    PROVE  LinkTypes' /\ LinksOK'
<1>1. LinkTypes /\ LinksOK /\ SocketsTypeOK
  BY DEF SocketsInv, SocketsTypeOK, LinkTypes
<1>2. CASE UNCHANGED <<running, timer, current, socket>>
  BY <1>1, <1>2 DEF LinkTypes, LinksOK
<1>3. ASSUME NEW c \in Clients, NEW p \in Processes, Connect(c, p) PROVE LinkTypes' /\ LinksOK'
  <2>1. PICK s \in Sockets :
           /\ socket[s] = Nothing
           /\ socket' = [socket EXCEPT ![s] =
                           [client |-> c, at |-> p, side |-> "asked", up |-> TRUE]]
           /\ current' = [current EXCEPT ![c] = s]
    BY <1>3 DEF Connect
  <2> DEFINE new == [client |-> c, at |-> p, side |-> "asked", up |-> TRUE]
  <2>12. new \in Connections /\ new.client = c /\ new.side # "removed"
    BY DEF Connections
  <2>13. new # Nothing
    <3> HIDE DEF new
    <3> QED BY <2>12, ConnectionAssumption
  <2>14. s # Nothing
    BY SocketsAssumption
  <2>2. /\ new \in Connections /\ new # Nothing /\ new.client = c /\ new.side # "removed"
        /\ s # Nothing
    BY <2>12, <2>13, <2>14
  <2>3. c \in running /\ c \in timer /\ timer' = timer \ {c} /\ running' = running
        /\ current[c] = Nothing
    BY <1>1, <1>3 DEF Connect, LinksOK
  <2>4. socket'[s] = new /\ \A t \in Sockets \ {s} : socket'[t] = socket[t]
    BY <1>1, <2>1 DEF LinkTypes
  <2>5. current'[c] = s /\ \A d \in Clients \ {c} : current'[d] = current[d]
    BY <1>1, <2>1 DEF LinkTypes
  <2> HIDE DEF new
  <2>6. LinkTypes'
    BY <1>1, <2>1, <2>2, <2>3 DEF LinkTypes, new
  <2>7. ASSUME NEW t \in Sockets, socket'[t] # Nothing, socket'[t].up
        PROVE  current'[socket'[t].client] = t /\ socket'[t].side # "removed"
    <3>1. CASE t = s
      BY <2>2, <2>4, <2>5, <3>1
    <3>2. CASE t # s
      <4>1. socket'[t] = socket[t] /\ current[socket[t].client] = t /\ socket[t].side # "removed"
        BY <1>1, <2>4, <2>7, <3>2 DEF LinksOK
      <4>2. socket[t].client \in Clients /\ socket[t].client # c /\ t # Nothing
        BY <1>1, <2>3, <2>7, <4>1, SocketsAssumption DEF LinkTypes, Connections
      <4> QED BY <2>5, <4>1, <4>2
    <3> QED BY <3>1, <3>2
  <2>8. ASSUME NEW d \in Clients, current'[d] # Nothing
        PROVE  /\ socket'[current'[d]] # Nothing /\ socket'[current'[d]].client = d
               /\ d \in running' \ timer'
    <3>1. CASE d = c
      BY <2>2, <2>3, <2>4, <2>5, <3>1
    <3>2. CASE d # c
      <4>1. /\ current'[d] = current[d] /\ current[d] \in Sockets
            /\ socket[current[d]] # Nothing /\ socket[current[d]].client = d
            /\ d \in running \ timer
        BY <1>1, <2>5, <2>8, <3>2 DEF LinksOK, LinkTypes
      <4>2. socket'[current[d]] = socket[current[d]]
        BY <2>1, <2>4, <4>1
      <4> QED BY <2>3, <4>1, <4>2
    <3> QED BY <3>1, <3>2
  <2> QED BY <2>6, <2>7, <2>8 DEF LinksOK
<1>4. ASSUME NEW c \in Clients, ClientCloses(c) PROVE LinkTypes' /\ LinksOK'
  <2>1. /\ current[c] \in Sockets /\ current[c] # Nothing /\ ~socket[current[c]].up
        /\ current' = [current EXCEPT ![c] = Nothing]
        /\ socket' = Kept(socket, current') /\ timer' = timer \cup {c} /\ running' = running
    BY <1>1, <1>4 DEF ClientCloses, LinkTypes
  <2>2. current' \in [Clients -> Sockets \cup {Nothing}] /\ c \in running
    BY <1>1, <2>1 DEF LinkTypes, LinksOK
  <2>3. /\ socket' \in [Sockets -> Connections \cup {Nothing}]
        /\ \A s \in Sockets : socket'[s] = socket[s] \/ socket'[s] = Nothing
        /\ \A d \in Clients : current'[d] # Nothing => socket'[current'[d]] = socket[current'[d]]
    <3> DEFINE cur == [current EXCEPT ![c] = Nothing]
    <3>1. cur = current' /\ cur \in [Clients -> Sockets \cup {Nothing}]
      BY <2>1, <2>2
    <3> HIDE DEF cur
    <3>2. socket' = Kept(socket, cur) /\ socket \in [Sockets -> Connections \cup {Nothing}]
      BY <1>1, <2>1, <3>1 DEF LinkTypes
    <3>3. /\ socket' \in [Sockets -> Connections \cup {Nothing}]
          /\ \A s \in Sockets : socket'[s] = socket[s] \/ socket'[s] = Nothing
          /\ \A d \in Clients : cur[d] # Nothing => socket'[cur[d]] = socket[cur[d]]
      BY <3>1, <3>2, KeptIs
    <3> QED BY <3>1, <3>3
  <2>4. LinkTypes'
    BY <1>1, <2>1, <2>2, <2>3 DEF LinkTypes
  <2>5. current'[c] = Nothing /\ \A d \in Clients \ {c} : current'[d] = current[d]
    BY <1>1, <2>1 DEF LinkTypes
  <2>6. ASSUME NEW s \in Sockets, socket'[s] # Nothing, socket'[s].up
        PROVE  current'[socket'[s].client] = s /\ socket'[s].side # "removed"
    <3>1. /\ socket'[s] = socket[s] /\ socket[s].client \in Clients
          /\ current[socket[s].client] = s /\ socket[s].side # "removed"
      BY <1>1, <2>3, <2>6 DEF LinksOK, LinkTypes, Connections
    <3>2. socket[s].client # c
      BY <2>1, <2>6, <3>1
    <3> QED BY <2>5, <3>1, <3>2
  <2>7. ASSUME NEW d \in Clients, current'[d] # Nothing
        PROVE  /\ socket'[current'[d]] # Nothing /\ socket'[current'[d]].client = d
               /\ d \in running' \ timer'
    <3>1. d # c /\ current'[d] = current[d]
      BY <2>5, <2>7
    <3>2. /\ socket[current[d]] # Nothing /\ socket[current[d]].client = d
          /\ d \in running \ timer
      BY <1>1, <2>7, <3>1 DEF LinksOK
    <3> QED BY <2>1, <2>3, <2>7, <3>1, <3>2
  <2> QED BY <2>4, <2>6, <2>7 DEF LinksOK
<1>5. ASSUME NEW c \in Clients, SignOut(c) PROVE LinkTypes' /\ LinksOK'
  <2>1. Rewired(socket) /\ Stopped({c}, current, socket)
    BY <1>1, <1>5 DEF SignOut, Rewired, LinkTypes
  <2>2. \A s \in Sockets : socket[s] # Nothing /\ socket[s].up => socket[s].side # "removed"
    BY <1>1 DEF LinksOK
  <2>3. {c} \subseteq Clients
    OBVIOUS
  <2> QED BY <2>1, <2>2, <2>3, StoppedIs
<1>6. ASSUME NEW s \in Sockets, NEW conn \in Connections, socket[s] # Nothing,
             socket' = [socket EXCEPT ![s] = conn], conn.client = socket[s].client,
             conn.up => socket[s].up, conn.side # "removed" \/ conn.up = FALSE,
             UNCHANGED <<running, timer, current>>
      PROVE  LinkTypes' /\ LinksOK'
  <2>1. conn # Nothing
    BY ConnectionAssumption
  <2>2. socket'[s] = conn /\ \A t \in Sockets \ {s} : socket'[t] = socket[t]
    BY <1>1, <1>6 DEF LinkTypes
  <2>3. LinkTypes'
    BY <1>1, <1>6 DEF LinkTypes
  <2>4. ASSUME NEW t \in Sockets, socket'[t] # Nothing, socket'[t].up
        PROVE  current'[socket'[t].client] = t /\ socket'[t].side # "removed"
    BY <1>1, <1>6, <2>2, <2>4 DEF LinksOK
  <2>5. ASSUME NEW d \in Clients, current'[d] # Nothing
        PROVE  /\ socket'[current'[d]] # Nothing /\ socket'[current'[d]].client = d
               /\ d \in running' \ timer'
    <3>1. /\ current'[d] = current[d] /\ current[d] \in Sockets
          /\ socket[current[d]] # Nothing /\ socket[current[d]].client = d
          /\ d \in running \ timer
      BY <1>1, <1>6, <2>5 DEF LinksOK, LinkTypes
    <3>2. CASE current[d] = s
      BY <1>6, <2>1, <2>2, <3>1, <3>2
    <3>3. CASE current[d] # s
      BY <1>6, <2>2, <3>1, <3>3
    <3> QED BY <3>2, <3>3
  <2> QED BY <2>3, <2>4, <2>5 DEF LinksOK
<1>7. ASSUME NEW s \in Sockets, LinkBreaks(s) PROVE LinkTypes' /\ LinksOK'
  <2> DEFINE conn == [socket[s] EXCEPT !.up = FALSE]
  <2>1. socket[s] \in Connections /\ socket[s] # Nothing /\ UNCHANGED <<running, timer, current>>
    BY <1>1, <1>7 DEF LinkBreaks, LinkTypes
  <2>2. conn \in Connections /\ conn.client = socket[s].client /\ conn.up = FALSE
    BY <2>1 DEF Connections
  <2>3. socket' = [socket EXCEPT ![s] = conn]
    BY <1>7 DEF LinkBreaks
  <2> HIDE DEF conn
  <2> QED BY <1>6, <2>1, <2>2, <2>3
<1>8. ASSUME NEW s \in Sockets, socket[s] # Nothing, socket' = Kept(Closed(socket, {s}), current),
             UNCHANGED <<running, timer, current>>
      PROVE  LinkTypes' /\ LinksOK'
  <2>1. {s} \subseteq {t \in Sockets : socket[t] # Nothing}
    BY <1>8
  <2> QED BY <1>8, <2>1, ServerCloses
<1>9. ASSUME NEW s \in Sockets, NEW side \in {"checked", "registered"}, socket[s] # Nothing,
             socket' = [socket EXCEPT ![s].side = side], UNCHANGED <<running, timer, current>>
      PROVE  LinkTypes' /\ LinksOK'
  <2> DEFINE conn == [socket[s] EXCEPT !.side = side]
  <2>1. socket[s] \in Connections
    BY <1>1, <1>9 DEF LinkTypes
  <2>2. /\ conn \in Connections /\ conn.client = socket[s].client /\ conn.up = socket[s].up
        /\ conn.side # "removed"
    BY <2>1 DEF Connections
  <2>3. socket' = [socket EXCEPT ![s] = conn]
    BY <1>9
  <2> HIDE DEF conn
  <2> QED BY <1>6, <1>9, <2>2, <2>3
<1>10. ASSUME NEW s \in Sockets, Authenticate(s) PROVE LinkTypes' /\ LinksOK'
  BY <1>8, <1>9, <1>10 DEF Authenticate
<1>11. ASSUME NEW s \in Sockets, Register(s) PROVE LinkTypes' /\ LinksOK'
  BY <1>8, <1>9, <1>11 DEF Register
<1>12. ASSUME NEW s \in Sockets, RemoveClient(s) PROVE LinkTypes' /\ LinksOK'
  BY <1>8, <1>12 DEF RemoveClient
<1>13. ASSUME NEW k \in looks, Deliver(k) PROVE LinkTypes' /\ LinksOK'
  <2>1. Held(k.at, k.user) \subseteq {s \in Sockets : socket[s] # Nothing}
    BY DEF Held
  <2>2. UNCHANGED <<running, timer, current>>
        /\ (UNCHANGED socket \/ socket' = Kept(Closed(socket, Held(k.at, k.user)), current))
    BY <1>13 DEF Deliver
  <2> QED BY <1>2, <2>1, <2>2, ServerCloses
<1>14. ASSUME NEW p \in Processes, NEW u \in Accounts, Disconnect(p, u)
       PROVE  LinkTypes' /\ LinksOK'
  <2> DEFINE H == Held(p, u)
             sk == Closed(socket, H)
             reached == {socket[s].client : s \in {t \in H : socket[t].up}}
             S == {c \in reached : current[c] \in H}
  <2>1. Stopped(S, current, sk)
    BY <1>14 DEF Disconnect
  <2>2. \A s \in H : s \in Sockets /\ socket[s] # Nothing
    BY DEF Held
  <2> HIDE DEF H
  <2>3. S \subseteq Clients
    BY <1>1, <2>2 DEF LinkTypes, Connections
  <2>4. /\ sk \in [Sockets -> Connections \cup {Nothing}]
        /\ \A s \in Sockets : s \notin H => sk[s] = socket[s]
        /\ \A s \in Sockets : s \in H => /\ sk[s] # Nothing /\ ~sk[s].up
                                         /\ sk[s].client = socket[s].client
    BY <1>1, <2>2, ClosedIs DEF LinkTypes
  <2> HIDE DEF sk, S
  <2>5. Rewired(sk)
    BY <2>2, <2>4 DEF Rewired
  <2>6. \A s \in Sockets : sk[s] # Nothing /\ sk[s].up => socket[s] # Nothing /\ socket[s].up
    BY <2>4
  <2>7. \A s \in Sockets : sk[s] # Nothing /\ sk[s].up => sk[s].side # "removed"
    BY <1>1, <2>4 DEF LinksOK
  <2> QED BY <2>1, <2>3, <2>5, <2>6, <2>7, StoppedIs
<1>15. ASSUME NEW p \in Processes, Restart(p) PROVE LinkTypes' /\ LinksOK'
  <2> DEFINE S == {s \in Sockets : socket[s] # Nothing /\ socket[s].at = p}
  <2>1. S \subseteq {s \in Sockets : socket[s] # Nothing}
    OBVIOUS
  <2>2. UNCHANGED <<running, timer, current>> /\ socket' = Kept(Closed(socket, S), current)
    BY <1>15 DEF Restart
  <2> HIDE DEF S
  <2> QED BY <2>1, <2>2, ServerCloses
<1>16. ASSUME NEW k \in looks, Read(k) \/ ReadFails(k)
       PROVE  UNCHANGED <<running, timer, current, socket>>
  BY <1>16 DEF Read, ReadFails, links
<1>17. ASSUME NEW p \in Processes, NEW u \in Accounts,
              \/ Look(p, u) \/ CloseAccount(p, u) \/ Claim(p, u)
              \/ Block(u) \/ Unblock(u) \/ LeaseEnds(u)
              \/ Publish(p) \/ PublishFails(p) \/ MarkDelivered(p) \/ ScheduleRetry(p)
              \/ Subscribe(p) \/ SubscriptionLost(p)
       PROVE  UNCHANGED <<running, timer, current, socket>>
  BY <1>17 DEF Look, CloseAccount, Claim, Block, Unblock, LeaseEnds, Publish, PublishFails,
               MarkDelivered, ScheduleRetry, Subscribe, SubscriptionLost, links
<1>18. ASSUME NEW u \in Accounts, Block(u) \/ Unblock(u) \/ RevokeSessions(u) \/ LeaseEnds(u)
       PROVE  UNCHANGED <<running, timer, current, socket>>
  BY <1>18 DEF Block, Unblock, RevokeSessions, LeaseEnds, links
<1>23. ASSUME NEW c \in Clients, TokenExpires(c)
       PROVE  UNCHANGED <<running, timer, current, socket>>
  BY <1>23 DEF TokenExpires, links
<1>19. ASSUME NEW p \in Processes,
              \/ Publish(p) \/ PublishFails(p) \/ MarkDelivered(p) \/ ScheduleRetry(p)
              \/ Subscribe(p) \/ SubscriptionLost(p)
       PROVE  UNCHANGED <<running, timer, current, socket>>
  BY <1>19 DEF Publish, PublishFails, MarkDelivered, ScheduleRetry, Subscribe, SubscriptionLost,
               links
<1>20. CASE UNCHANGED socketVars
  BY <1>2, <1>20 DEF socketVars, links
<1>21. CASE \/ \E c \in Clients : \/ ClientCloses(c) \/ SignOut(c) \/ TokenExpires(c)
                                  \/ \E p \in Processes : Connect(c, p)
            \/ \E s \in Sockets : LinkBreaks(s) \/ Authenticate(s) \/ Register(s) \/ RemoveClient(s)
            \/ \E k \in looks : Read(k) \/ ReadFails(k) \/ Deliver(k)
  BY <1>2, <1>3, <1>4, <1>5, <1>7, <1>10, <1>11, <1>12, <1>13, <1>16, <1>21,
     <1>23
<1>22. CASE \/ \E p \in Processes, u \in Accounts :
                  Look(p, u) \/ Disconnect(p, u) \/ CloseAccount(p, u) \/ Claim(p, u)
            \/ \E u \in Accounts : Block(u) \/ Unblock(u) \/ RevokeSessions(u) \/ LeaseEnds(u)
            \/ \E p \in Processes :
                  \/ Publish(p) \/ PublishFails(p) \/ MarkDelivered(p) \/ ScheduleRetry(p)
                  \/ Subscribe(p) \/ SubscriptionLost(p) \/ Restart(p)
  BY <1>2, <1>14, <1>15, <1>17, <1>18, <1>19, <1>22
<1> QED BY <1>20, <1>21, <1>22 DEF SocketsNext

RestTypes ==
    /\ status \in [Accounts -> {"active", "blocked", "closed"}]
    /\ accepted \subseteq Clients
    /\ looks \subseteq [at : Processes, user : Accounts, allowed : BOOLEAN \cup {Nothing}]
    /\ event \in [Accounts -> {"none", "due", "delivered"}]
    /\ lease \in [Accounts -> [owner : Processes \cup {Nothing}, lasts : BOOLEAN]]
    /\ claim \in [Processes -> [user : Accounts, stage : {"claimed", "published", "failed"}]
                                 \cup {Nothing}]
    /\ told \in [Processes -> SUBSET Accounts] /\ listening \subseteq Processes
    /\ faults \in Nat /\ blocks \in Nat

LEMMA RestStep ==
    ASSUME SocketsInv, [SocketsNext]_socketVars
    PROVE  RestTypes'
<1>1. RestTypes
  BY DEF SocketsInv, SocketsTypeOK, RestTypes
<1>2. CASE UNCHANGED <<accounts, looks, outbox, channel, faults, blocks>>
  BY <1>1, <1>2 DEF RestTypes, accounts, outbox, channel
<1>3. ASSUME faults' = faults + 1, UNCHANGED <<accounts, looks, outbox, channel, blocks>>
      PROVE  RestTypes'
  BY <1>1, <1>3 DEF RestTypes, accounts, outbox, channel
<1>4. ASSUME NEW c \in Clients,
             ClientCloses(c) \/ SignOut(c) \/ \E p \in Processes : Connect(c, p)
      PROVE  UNCHANGED <<accounts, looks, outbox, channel, faults, blocks>>
  BY <1>4 DEF ClientCloses, SignOut, Connect, bounds
<1>5. ASSUME NEW s \in Sockets, LinkBreaks(s)
      PROVE  RestTypes'
  BY <1>3, <1>5 DEF LinkBreaks, Fault
<1>6. ASSUME NEW s \in Sockets, Authenticate(s) \/ Register(s) \/ RemoveClient(s)
      PROVE  UNCHANGED <<accounts, looks, outbox, channel, faults, blocks>>
  BY <1>6 DEF Authenticate, Register, RemoveClient, bounds
<1>7. ASSUME NEW k \in looks, Read(k)
      PROVE  RestTypes'
  <2>1. [k EXCEPT !.allowed = (status[k.user] = "active")]
           \in [at : Processes, user : Accounts, allowed : BOOLEAN \cup {Nothing}]
    BY <1>1 DEF RestTypes
  <2>2. looks' \subseteq [at : Processes, user : Accounts, allowed : BOOLEAN \cup {Nothing}]
    BY <1>1, <1>7, <2>1 DEF RestTypes, Read
  <2> QED BY <1>1, <1>7, <2>2 DEF RestTypes, accounts, Read, outbox, channel, bounds
<1>8. ASSUME NEW k \in looks, ReadFails(k)
      PROVE  RestTypes'
  <2>1. [k EXCEPT !.allowed = FALSE]
           \in [at : Processes, user : Accounts, allowed : BOOLEAN \cup {Nothing}]
    BY <1>1 DEF RestTypes
  <2>2. looks' \subseteq [at : Processes, user : Accounts, allowed : BOOLEAN \cup {Nothing}]
    BY <1>1, <1>8, <2>1 DEF RestTypes, ReadFails
  <2> QED BY <1>1, <1>8, <2>2 DEF RestTypes, accounts, ReadFails, Fault, outbox, channel
<1>9. ASSUME NEW k \in looks, Deliver(k)
      PROVE  RestTypes'
  BY <1>1, <1>9 DEF RestTypes, accounts, Deliver, outbox, channel, bounds
<1>10. ASSUME NEW p \in Processes, NEW u \in Accounts, Look(p, u)
       PROVE  RestTypes'
  BY <1>1, <1>10 DEF RestTypes, accounts, Look, outbox, channel, bounds
<1>11. ASSUME NEW p \in Processes, NEW u \in Accounts, Disconnect(p, u)
       PROVE  RestTypes'
  BY <1>1, <1>11 DEF RestTypes, accounts, Disconnect, outbox, bounds
<1>12. ASSUME NEW p \in Processes, NEW u \in Accounts, CloseAccount(p, u)
       PROVE  RestTypes'
  BY <1>1, <1>12 DEF RestTypes, CloseAccount, links, bounds
<1>13. ASSUME NEW p \in Processes, NEW u \in Accounts, Claim(p, u)
       PROVE  RestTypes'
  BY <1>1, <1>13 DEF RestTypes, accounts, Claim, channel, bounds
<1>14. ASSUME NEW u \in Accounts, Block(u) \/ Unblock(u) \/ RevokeSessions(u)
       PROVE  RestTypes'
  BY <1>1, <1>14 DEF RestTypes, Block, Unblock, RevokeSessions, outbox, channel, bounds
<1>25. ASSUME NEW c \in Clients, TokenExpires(c)
       PROVE  RestTypes'
  BY <1>1, <1>25 DEF RestTypes, TokenExpires, outbox, channel, bounds
<1>15. ASSUME NEW u \in Accounts, LeaseEnds(u)
       PROVE  RestTypes'
  BY <1>1, <1>15 DEF RestTypes, accounts, LeaseEnds, channel, bounds
<1>16. ASSUME NEW p \in Processes, Publish(p)
       PROVE  RestTypes'
  <2>1. claim[p] \in [user : Accounts, stage : {"claimed", "published", "failed"}]
    BY <1>1, <1>16 DEF RestTypes, Publish, Dispatches
  <2>2. told' \in [Processes -> SUBSET Accounts]
    BY <1>1, <1>16, <2>1 DEF RestTypes, Publish
  <2>3. claim' \in [Processes -> [user : Accounts, stage : {"claimed", "published", "failed"}]
                                   \cup {Nothing}]
    BY <1>1, <1>16, <2>1 DEF RestTypes, Publish
  <2> QED BY <1>1, <1>16, <2>2, <2>3 DEF RestTypes, accounts, Publish, bounds
<1>17. ASSUME NEW p \in Processes, PublishFails(p)
       PROVE  RestTypes'
  <2>1. claim[p] \in [user : Accounts, stage : {"claimed", "published", "failed"}]
    BY <1>1, <1>17 DEF RestTypes, PublishFails, Dispatches
  <2>2. claim' \in [Processes -> [user : Accounts, stage : {"claimed", "published", "failed"}]
                                   \cup {Nothing}]
    BY <1>1, <1>17, <2>1 DEF RestTypes, PublishFails
  <2> QED BY <1>1, <1>17, <2>2 DEF RestTypes, accounts, PublishFails, Fault, channel
<1>18. ASSUME NEW u \in Accounts, Released(u)
       PROVE  lease' \in [Accounts -> [owner : Processes \cup {Nothing}, lasts : BOOLEAN]]
  BY <1>1, <1>18 DEF RestTypes, Released
<1>19. ASSUME NEW p \in Processes, MarkDelivered(p) \/ ScheduleRetry(p)
       PROVE  RestTypes'
  <2>1. claim[p].user \in Accounts
    BY <1>1, <1>19 DEF RestTypes, MarkDelivered, ScheduleRetry, Dispatches
  <2>2. lease' \in [Accounts -> [owner : Processes \cup {Nothing}, lasts : BOOLEAN]]
    BY <1>1, <1>18, <1>19, <2>1 DEF RestTypes, MarkDelivered, ScheduleRetry
  <2>3. event' \in [Accounts -> {"none", "due", "delivered"}]
    BY <1>1, <1>19 DEF RestTypes, MarkDelivered, ScheduleRetry
  <2>4. claim' \in [Processes -> [user : Accounts, stage : {"claimed", "published", "failed"}]
                                   \cup {Nothing}]
    BY <1>1, <1>19 DEF RestTypes, MarkDelivered, ScheduleRetry
  <2> QED BY <1>1, <1>19, <2>2, <2>3, <2>4
          DEF RestTypes, accounts, MarkDelivered, ScheduleRetry, channel, bounds
<1>20. ASSUME NEW p \in Processes, Subscribe(p) \/ SubscriptionLost(p)
       PROVE  RestTypes'
  BY <1>1, <1>20 DEF RestTypes, accounts, Subscribe, SubscriptionLost, Fault, outbox, bounds
<1>21. ASSUME NEW p \in Processes, Restart(p)
       PROVE  RestTypes'
  BY <1>1, <1>21 DEF RestTypes, accounts, Restart, Fault
<1>22. CASE UNCHANGED socketVars
  BY <1>2, <1>22 DEF socketVars, bounds
<1>23. CASE \/ \E c \in Clients : \/ ClientCloses(c) \/ SignOut(c) \/ TokenExpires(c)
                                  \/ \E p \in Processes : Connect(c, p)
            \/ \E s \in Sockets : LinkBreaks(s) \/ Authenticate(s) \/ Register(s) \/ RemoveClient(s)
            \/ \E k \in looks : Read(k) \/ ReadFails(k) \/ Deliver(k)
  BY <1>2, <1>4, <1>5, <1>6, <1>7, <1>8, <1>9, <1>23, <1>25
<1>24. CASE \/ \E p \in Processes, u \in Accounts :
                  Look(p, u) \/ Disconnect(p, u) \/ CloseAccount(p, u) \/ Claim(p, u)
            \/ \E u \in Accounts : Block(u) \/ Unblock(u) \/ RevokeSessions(u) \/ LeaseEnds(u)
            \/ \E p \in Processes :
                  \/ Publish(p) \/ PublishFails(p) \/ MarkDelivered(p) \/ ScheduleRetry(p)
                  \/ Subscribe(p) \/ SubscriptionLost(p) \/ Restart(p)
  BY <1>10, <1>11, <1>12, <1>13, <1>14, <1>15, <1>16, <1>17, <1>19, <1>20, <1>21, <1>24
<1> QED BY <1>22, <1>23, <1>24 DEF SocketsNext

LEMMA SocketsStart == SocketsInit => SocketsInv
<1> SUFFICES ASSUME SocketsInit PROVE SocketsInv
  OBVIOUS
<1>1. SocketsTypeOK
  BY DEF SocketsInit, SocketsTypeOK
<1>2. LinksOK
  BY DEF SocketsInit, LinksOK
<1> QED BY <1>1, <1>2 DEF SocketsInv

LEMMA SocketsStep == SocketsInv /\ [SocketsNext]_socketVars => SocketsInv'
BY LinksStep, RestStep DEF SocketsInv, SocketsTypeOK, LinkTypes, RestTypes

(* Every state the sockets reach has its types, and a link that is up is   *)
(* that of the socket its client now holds: realtime-client.ts drops the   *)
(* socket it had before it opens the next, whatever of closes, refusals,   *)
(* announcements and restarts of processes comes in between.               *)
THEOREM SocketsInvariant == SocketsSpec => []SocketsInv
<1>1. SocketsInit => SocketsInv
  BY SocketsStart
<1>2. SocketsInv /\ [SocketsNext]_socketVars => SocketsInv'
  BY SocketsStep
<1> QED BY <1>1, <1>2, PTL DEF SocketsSpec

(* A client never has two connections up, and none once it is stopped      *)
(* (stop of realtime-client.ts clears the timer and closes the socket) or  *)
(* while it waits for its reconnect timer.                                 *)
OneConnection ==
    /\ \A s, t \in Sockets :
          /\ socket[s] # Nothing /\ socket[s].up /\ socket[t] # Nothing /\ socket[t].up
          /\ socket[s].client = socket[t].client
          => s = t
    /\ \A s \in Sockets :
          socket[s] # Nothing /\ socket[s].up => socket[s].client \in running \ timer

(* OneConnection holds in every state of the sockets.                      *)
THEOREM OneConnectionEach == SocketsSpec => []OneConnection
<1>1. SocketsInv => OneConnection
  <2> SUFFICES ASSUME SocketsInv PROVE OneConnection
    OBVIOUS
  <2>1. LinkTypes /\ LinksOK
    BY DEF SocketsInv, SocketsTypeOK, LinkTypes
  <2>2. ASSUME NEW s \in Sockets, socket[s] # Nothing, socket[s].up
        PROVE  /\ socket[s].client \in Clients /\ current[socket[s].client] = s
               /\ socket[s].client \in running \ timer
    <3>1. socket[s].client \in Clients /\ current[socket[s].client] = s
      BY <2>1, <2>2 DEF LinkTypes, LinksOK, Connections
    <3>2. s # Nothing
      BY SocketsAssumption
    <3> QED BY <2>1, <3>1, <3>2 DEF LinksOK
  <2> QED BY <2>2 DEF OneConnection
<1> QED BY <1>1, SocketsInvariant, PTL

(* LeasesKept: the dispatcher of an event whose lease lasts is still its   *)
(* owner after a step that leaves it dispatching: markDelivered and        *)
(* scheduleRetry of another process find lease_owner = $2 false, a claim   *)
(* waits for the end of the lease, and a lease that ends keeps its owner.  *)
THEOREM LeasesStay == SocketsSpec => LeasesKept
<1> DEFINE Stay == \A u \in Accounts : \A p \in Processes :
                      /\ lease[u] = [owner |-> p, lasts |-> TRUE]
                      /\ claim[p] # Nothing /\ claim[p].user = u
                      /\ claim'[p] = claim[p]
                      => lease'[u].owner = p
<1>1. ASSUME SocketsInv, [SocketsNext]_socketVars, NEW u \in Accounts, NEW p \in Processes,
             lease[u] = [owner |-> p, lasts |-> TRUE],
             claim[p] # Nothing, claim[p].user = u, claim'[p] = claim[p]
      PROVE  lease'[u].owner = p
  <2>1. /\ lease \in [Accounts -> [owner : Processes \cup {Nothing}, lasts : BOOLEAN]]
        /\ claim \in [Processes -> [user : Accounts, stage : {"claimed", "published", "failed"}]
                                     \cup {Nothing}]
    BY <1>1 DEF SocketsInv, SocketsTypeOK
  <2>2. lease[u].owner = p /\ lease[u].lasts
    BY <1>1
  <2>3. CASE UNCHANGED lease
    BY <2>2, <2>3
  <2>4. ASSUME NEW q \in Processes, MarkDelivered(q) \/ ScheduleRetry(q)
        PROVE  lease'[u].owner = p
    <3>1. claim[q] # Nothing /\ claim' = [claim EXCEPT ![q] = Nothing]
      BY <2>4 DEF MarkDelivered, ScheduleRetry, Dispatches
    <3>2. q # p
      BY <1>1, <2>1, <3>1
    <3>3. CASE claim[q].user = u
      <4>1. lease[u].owner # q
        BY <2>2, <3>2
      <4> QED BY <2>3, <2>4, <3>3, <4>1 DEF MarkDelivered, ScheduleRetry
    <3>4. CASE claim[q].user # u
      <4>1. \/ UNCHANGED lease
            \/ lease' = [lease EXCEPT ![claim[q].user] = [owner |-> Nothing, lasts |-> FALSE]]
        BY <2>4 DEF MarkDelivered, ScheduleRetry, Released
      <4> QED BY <2>1, <2>2, <3>4, <4>1
    <3> QED BY <3>3, <3>4
  <2>5. ASSUME NEW q \in Processes, NEW v \in Accounts, Claim(q, v)
        PROVE  lease'[u].owner = p
    <3>1. v # u
      BY <2>2, <2>5 DEF Claim
    <3> QED BY <2>1, <2>2, <2>5, <3>1 DEF Claim
  <2>6. ASSUME NEW v \in Accounts, LeaseEnds(v)
        PROVE  lease'[u].owner = p
    BY <2>1, <2>2, <2>6 DEF LeaseEnds
  <2>7. ASSUME NEW c \in Clients, \/ ClientCloses(c) \/ SignOut(c) \/ TokenExpires(c)
                                 \/ \E r \in Processes : Connect(c, r)
        PROVE  UNCHANGED lease
    BY <2>7 DEF ClientCloses, SignOut, TokenExpires, Connect, outbox
  <2>8. ASSUME NEW s \in Sockets, LinkBreaks(s) \/ Authenticate(s) \/ Register(s) \/ RemoveClient(s)
        PROVE  UNCHANGED lease
    BY <2>8 DEF LinkBreaks, Authenticate, Register, RemoveClient, outbox
  <2>9. ASSUME NEW k \in looks, Read(k) \/ ReadFails(k) \/ Deliver(k)
        PROVE  UNCHANGED lease
    BY <2>9 DEF Read, ReadFails, Deliver, outbox
  <2>10. ASSUME NEW q \in Processes, NEW v \in Accounts,
                Look(q, v) \/ Disconnect(q, v) \/ CloseAccount(q, v)
         PROVE  UNCHANGED lease
    BY <2>10 DEF Look, Disconnect, CloseAccount, outbox
  <2>11. ASSUME NEW v \in Accounts, Block(v) \/ Unblock(v) \/ RevokeSessions(v)
         PROVE  UNCHANGED lease
    BY <2>11 DEF Block, Unblock, RevokeSessions, outbox
  <2>12. ASSUME NEW q \in Processes,
                \/ Publish(q) \/ PublishFails(q)
                \/ Subscribe(q) \/ SubscriptionLost(q) \/ Restart(q)
         PROVE  UNCHANGED lease
    BY <2>12 DEF Publish, PublishFails, Subscribe, SubscriptionLost, Restart, outbox
  <2>13. CASE UNCHANGED socketVars
    BY <2>3, <2>13 DEF socketVars, outbox
  <2>14. CASE \/ \E c \in Clients : \/ ClientCloses(c) \/ SignOut(c) \/ TokenExpires(c)
                                    \/ \E r \in Processes : Connect(c, r)
              \/ \E s \in Sockets : LinkBreaks(s) \/ Authenticate(s) \/ Register(s) \/ RemoveClient(s)
              \/ \E k \in looks : Read(k) \/ ReadFails(k) \/ Deliver(k)
    BY <2>3, <2>7, <2>8, <2>9, <2>14
  <2>15. CASE \/ \E q \in Processes, v \in Accounts :
                    Look(q, v) \/ Disconnect(q, v) \/ CloseAccount(q, v) \/ Claim(q, v)
              \/ \E v \in Accounts : Block(v) \/ Unblock(v) \/ RevokeSessions(v) \/ LeaseEnds(v)
              \/ \E q \in Processes :
                    \/ Publish(q) \/ PublishFails(q) \/ MarkDelivered(q) \/ ScheduleRetry(q)
                    \/ Subscribe(q) \/ SubscriptionLost(q) \/ Restart(q)
    BY <2>3, <2>4, <2>5, <2>6, <2>10, <2>11, <2>12, <2>15
  <2> QED BY <1>1, <2>13, <2>14, <2>15 DEF SocketsNext
<1>2. SocketsInv /\ [SocketsNext]_socketVars => [Stay]_socketVars
  BY <1>1
<1>3. LeasesKept <=> [][Stay]_socketVars
  BY PTL DEF LeasesKept
<1> QED BY <1>2, <1>3, SocketsInvariant, PTL DEF SocketsSpec
===============================================================================
