---------------------------- MODULE RealtimeSockets ----------------------------
(***************************************************************************)
(* The sockets of the realtime channel and what ends them when an account  *)
(* is closed:                                                              *)
(*   services/api/src/realtime/realtime.hub.ts, .bus.ts, .routes.ts        *)
(*   services/api/src/app.ts (the receiver and its timers)                 *)
(*   modules/account-deletion/account-deletion.events.ts (the outbox of    *)
(*     access_revoked events) and account-activity.guard.ts                *)
(*   apps/web/src/features/notifications/realtime-client.ts (reconnecting) *)
(*                                                                         *)
(* Each process keeps its own registry of sockets.  Whatever it sends, it  *)
(* first looks at the account, in the database, and disconnects the user   *)
(* instead when the account is not active; every 30 seconds it looks at    *)
(* the accounts of all its sockets.  A closure is announced to the sockets *)
(* of the process that accepted it, and through the outbox over Redis to   *)
(* every process that is subscribed then.                                  *)
(*                                                                         *)
(* Left out: metrics, the rate limit and the origin of handshakes, what    *)
(* the events say (Inbox, PollStore).                                      *)
(***************************************************************************)
EXTENDS Naturals, FiniteSets

CONSTANTS
    Accounts,
    Clients,     \* browser tabs
    Owner,       \* [Clients -> Accounts]
    Processes,   \* of the API
    Sockets,     \* bounds the connections that are known to either side
    Nothing,
    MaxFaults,   \* bounds broken links, crashes, failed queries and Redis failures
    MaxBlocks,   \* bounds how often accounts are blocked
    MaxLooks     \* bounds the looks at accounts under way

ASSUME SocketsAssumption ==
    /\ Owner \in [Clients -> Accounts]
    /\ Nothing \notin Accounts \cup Sockets \cup Processes
    /\ {MaxFaults, MaxBlocks, MaxLooks} \subseteq Nat

VARIABLES
    status,     \* users.status by account
    accepted,   \* clients whose token has not expired and names the session_version
    running,    \* clients that are started
    timer,      \* clients with a reconnect timer
    current,    \* the socket of a client, Nothing without one
    socket,     \* connections: Nothing, or client, process, the server's side and the link
    looks,      \* looks at an account under way: process, account, what was read
    event,      \* the access_revoked event of an account: "none", "due" or "delivered"
    lease,      \* of the event: its owner and whether the 30 seconds last
    claim,      \* what a process dispatches: Nothing, or the account and the stage
    told,       \* by process, closures it is about to handle
    listening,  \* processes that are subscribed to the channel
    faults, blocks

accounts == <<status, accepted>>
outbox == <<event, lease, claim>>
links == <<running, timer, current, socket>>
channel == <<told, listening>>
bounds == <<faults, blocks>>
socketVars == <<accounts, links, looks, outbox, channel, bounds>>

Connections == [client : Clients, at : Processes,
                side : {"asked", "checked", "registered", "removed"}, up : BOOLEAN]

ASSUME ConnectionAssumption == Nothing \notin Connections

Of(s) == Owner[socket[s].client]
Held(p, u) == {s \in Sockets : /\ socket[s] # Nothing /\ socket[s].at = p
                               /\ socket[s].side = "registered" /\ Of(s) = u}
Registered(u) == UNION {Held(p, u) : p \in Processes}

(* A connection is forgotten when neither side knows it. *)
Kept(sk, cur) ==
    [s \in Sockets |-> IF sk[s] # Nothing /\ sk[s].side = "removed"
                          /\ \A c \in Clients : cur[c] # s
                       THEN Nothing ELSE sk[s]]

Closed(sk, S) ==
    [s \in Sockets |-> IF s \in S THEN [sk[s] EXCEPT !.side = "removed", !.up = FALSE]
                       ELSE sk[s]]

Fault == faults < MaxFaults /\ faults' = faults + 1

-----------------------------------------------------------------------------
(* NotificationRealtimeClient *)

(* connect, at the start or when the reconnect timer fires *)
Connect(c, p) ==
    /\ c \in running \cap timer
    /\ \E s \in Sockets :
         /\ socket[s] = Nothing
         /\ socket' = [socket EXCEPT ![s] =
                         [client |-> c, at |-> p, side |-> "asked", up |-> TRUE]]
         /\ current' = [current EXCEPT ![c] = s]
    /\ timer' = timer \ {c}
    /\ UNCHANGED <<accounts, running, looks, outbox, channel, bounds>>

\* Mutant of ClientCloses: the reconnect is not scheduled.
ClientClosesOnly(c) ==
    /\ current[c] # Nothing /\ ~socket[current[c]].up
    /\ current' = [current EXCEPT ![c] = Nothing]
    /\ socket' = Kept(socket, current')
    /\ UNCHANGED <<accounts, running, timer, looks, outbox, channel, bounds>>

(* onclose, or no pong for 10 seconds: scheduleReconnect *)
ClientCloses(c) ==
    /\ current[c] # Nothing /\ ~socket[current[c]].up
    /\ current' = [current EXCEPT ![c] = Nothing]
    /\ socket' = Kept(socket, current')
    /\ timer' = timer \cup {c}
    /\ UNCHANGED <<accounts, running, looks, outbox, channel, bounds>>

(* stop, at the end of the session *)
Stopped(S, cur, sk) ==
    /\ running' = running \ S
    /\ timer' = timer \ S
    /\ current' = [c \in Clients |-> IF c \in S THEN Nothing ELSE cur[c]]
    /\ socket' = Kept([s \in Sockets |-> IF sk[s] # Nothing /\ sk[s].client \in S
                                         THEN [sk[s] EXCEPT !.up = FALSE] ELSE sk[s]],
                      current')

SignOut(c) ==
    /\ c \in running
    /\ Stopped({c}, current, socket)
    /\ UNCHANGED <<accounts, looks, outbox, channel, bounds>>

(* the network fails: neither side is told *)
LinkBreaks(s) ==
    /\ socket[s] # Nothing /\ socket[s].up
    /\ Fault
    /\ socket' = [socket EXCEPT ![s].up = FALSE]
    /\ UNCHANGED <<accounts, running, timer, current, looks, outbox, channel, blocks>>

-----------------------------------------------------------------------------
(* The handshake: authenticate verifies the token and reads the account    *)
(* and its session_version, then the route registers the socket.           *)

Admitted(s) == status[Of(s)] = "active" /\ socket[s].client \in accepted

Authenticate(s) ==
    /\ socket[s] # Nothing /\ socket[s].side = "asked"
    /\ socket' = IF Admitted(s)
                 THEN [socket EXCEPT ![s].side = "checked"]
                 ELSE Kept(Closed(socket, {s}), current)
    /\ UNCHANGED <<accounts, running, timer, current, looks, outbox, channel, bounds>>

(* addRealtimeClient *)
Register(s) ==
    /\ socket[s] # Nothing /\ socket[s].side = "checked"
    /\ socket' = IF socket[s].up THEN [socket EXCEPT ![s].side = "registered"]
                 ELSE Kept(Closed(socket, {s}), current)
    /\ UNCHANGED <<accounts, running, timer, current, looks, outbox, channel, bounds>>

(* the close or error event of the socket, or sweepIdleRealtimeClients     *)
(* after 90 seconds without a ping                                         *)
RemoveClient(s) ==
    /\ socket[s] # Nothing /\ socket[s].side = "registered" /\ ~socket[s].up
    /\ socket' = Kept(Closed(socket, {s}), current)
    /\ UNCHANGED <<accounts, running, timer, current, looks, outbox, channel, bounds>>

-----------------------------------------------------------------------------
(* Every delivery asks canDeliverToUser first: sendToUser, broadcast, and  *)
(* sweepInactiveRealtimeClients, which delivers nothing.                   *)

Look(p, u) ==
    /\ Held(p, u) # {}
    /\ Cardinality(looks) < MaxLooks
    /\ looks' = looks \cup {[at |-> p, user |-> u, allowed |-> Nothing]}
    /\ UNCHANGED <<accounts, links, outbox, channel, bounds>>

(* isActiveAccount *)
Read(k) ==
    /\ k \in looks /\ k.allowed = Nothing
    /\ looks' = (looks \ {k}) \cup {[k EXCEPT !.allowed = (status[k.user] = "active")]}
    /\ UNCHANGED <<accounts, links, outbox, channel, bounds>>

ReadFails(k) ==
    /\ k \in looks /\ k.allowed = Nothing
    /\ Fault
    /\ looks' = (looks \ {k}) \cup {[k EXCEPT !.allowed = FALSE]}
    /\ UNCHANGED <<accounts, links, outbox, channel, blocks>>

\* Mutant of Deliver: a refused delivery is only skipped.
DeliverOrSkip(k) ==
    /\ k \in looks /\ k.allowed # Nothing
    /\ looks' = looks \ {k}
    /\ UNCHANGED <<accounts, links, outbox, channel, bounds>>

(* the event goes to the sockets the user has by now, or they are closed *)
Deliver(k) ==
    /\ k \in looks /\ k.allowed # Nothing
    /\ looks' = looks \ {k}
    /\ socket' = IF k.allowed THEN socket
                 ELSE Kept(Closed(socket, Held(k.at, k.user)), current)
    /\ UNCHANGED <<accounts, running, timer, current, outbox, channel, bounds>>

(* disconnectUser with the event: a client that gets it ends its session *)
Disconnect(p, u) ==
    /\ u \in told[p]
    /\ told' = [told EXCEPT ![p] = @ \ {u}]
    /\ LET reached == {socket[s].client : s \in {t \in Held(p, u) : socket[t].up}}
       IN  Stopped({c \in reached : current[c] \in Held(p, u)}, current,
                   Closed(socket, Held(p, u)))
    /\ UNCHANGED <<accounts, looks, outbox, listening, bounds>>

-----------------------------------------------------------------------------
(* Accounts *)

(* the acceptance of a deletion commits the event with the closure; the    *)
(* process that took it disconnects its own sockets                        *)
CloseAccount(p, u) ==
    /\ status[u] = "active"
    /\ status' = [status EXCEPT ![u] = "closed"]
    /\ accepted' = {c \in accepted : Owner[c] # u}
    /\ event' = [event EXCEPT ![u] = "due"]
    /\ told' = [told EXCEPT ![p] = @ \cup {u}]
    /\ UNCHANGED <<links, looks, lease, claim, listening, bounds>>

Block(u) ==
    /\ status[u] = "active" /\ blocks < MaxBlocks
    /\ blocks' = blocks + 1
    /\ status' = [status EXCEPT ![u] = "blocked"]
    /\ UNCHANGED <<accepted, links, looks, outbox, channel, faults>>

Unblock(u) ==
    /\ status[u] = "blocked"
    /\ status' = [status EXCEPT ![u] = "active"]
    /\ UNCHANGED <<accepted, links, looks, outbox, channel, bounds>>

(* A logout of another client or a ban raises session_version.  Neither    *)
(* closes the sockets that are registered.                                 *)
RevokeSessions(u) ==
    /\ accepted' = {c \in accepted : Owner[c] # u}
    /\ UNCHANGED <<status, links, looks, outbox, channel, bounds>>

TokenExpires(c) ==
    /\ accepted' = accepted \ {c}
    /\ UNCHANGED <<status, links, looks, outbox, channel, bounds>>

-----------------------------------------------------------------------------
(* dispatchPendingDeletionEvents, one at a time in a process *)

Claim(p, u) ==
    /\ claim[p] = Nothing /\ event[u] = "due" /\ ~lease[u].lasts
    /\ claim' = [claim EXCEPT ![p] = [user |-> u, stage |-> "claimed"]]
    /\ lease' = [lease EXCEPT ![u] = [owner |-> p, lasts |-> TRUE]]
    /\ UNCHANGED <<accounts, links, looks, event, channel, bounds>>

LeaseEnds(u) ==
    /\ lease[u].lasts
    /\ lease' = [lease EXCEPT ![u].lasts = FALSE]
    /\ UNCHANGED <<accounts, links, looks, event, claim, channel, bounds>>

Dispatches(p, stage) == claim[p] # Nothing /\ claim[p].stage = stage

(* Redis hands the message to the processes that are subscribed *)
Publish(p) ==
    /\ Dispatches(p, "claimed")
    /\ claim' = [claim EXCEPT ![p].stage = "published"]
    /\ told' = [q \in Processes |-> IF q \in listening THEN told[q] \cup {claim[p].user}
                                    ELSE told[q]]
    /\ UNCHANGED <<accounts, links, looks, event, lease, listening, bounds>>

(* an error, or no answer within a second *)
PublishFails(p) ==
    /\ Dispatches(p, "claimed")
    /\ Fault
    /\ claim' = [claim EXCEPT ![p].stage = "failed"]
    /\ UNCHANGED <<accounts, links, looks, event, lease, channel, blocks>>

Released(u) == lease' = [lease EXCEPT ![u] = [owner |-> Nothing, lasts |-> FALSE]]

(* markDelivered and scheduleRetry: WHERE lease_owner = $2 *)
MarkDelivered(p) ==
    /\ Dispatches(p, "published")
    /\ claim' = [claim EXCEPT ![p] = Nothing]
    /\ LET u == claim[p].user
       IN  IF lease[u].owner = p
           THEN event' = [event EXCEPT ![u] = "delivered"] /\ Released(u)
           ELSE UNCHANGED <<event, lease>>
    /\ UNCHANGED <<accounts, links, looks, channel, bounds>>

\* Mutant of ScheduleRetry: the owner of the lease is not compared.
ScheduleRetryAny(p) ==
    /\ Dispatches(p, "failed")
    /\ claim' = [claim EXCEPT ![p] = Nothing]
    /\ Released(claim[p].user)
    /\ UNCHANGED <<accounts, links, looks, event, channel, bounds>>

ScheduleRetry(p) ==
    /\ Dispatches(p, "failed")
    /\ claim' = [claim EXCEPT ![p] = Nothing]
    /\ IF lease[claim[p].user].owner = p THEN Released(claim[p].user) ELSE UNCHANGED lease
    /\ UNCHANGED <<accounts, links, looks, event, channel, bounds>>

-----------------------------------------------------------------------------
(* Processes and their subscription, which is retried every second *)

Subscribe(p) ==
    /\ p \notin listening
    /\ listening' = listening \cup {p}
    /\ UNCHANGED <<accounts, links, looks, outbox, told, bounds>>

SubscriptionLost(p) ==
    /\ p \in listening
    /\ Fault
    /\ listening' = listening \ {p}
    /\ UNCHANGED <<accounts, links, looks, outbox, told, blocks>>

(* the process dies and starts again *)
Restart(p) ==
    /\ Fault
    /\ socket' = Kept(Closed(socket, {s \in Sockets : socket[s] # Nothing /\ socket[s].at = p}),
                      current)
    /\ looks' = {k \in looks : k.at # p}
    /\ claim' = [claim EXCEPT ![p] = Nothing]
    /\ told' = [told EXCEPT ![p] = {}]
    /\ listening' = listening \ {p}
    /\ UNCHANGED <<accounts, running, timer, current, event, lease, blocks>>

-----------------------------------------------------------------------------
SocketsInit ==
    /\ status = [u \in Accounts |-> "active"]
    /\ accepted = Clients
    /\ running = Clients /\ timer = Clients
    /\ current = [c \in Clients |-> Nothing]
    /\ socket = [s \in Sockets |-> Nothing]
    /\ looks = {}
    /\ event = [u \in Accounts |-> "none"]
    /\ lease = [u \in Accounts |-> [owner |-> Nothing, lasts |-> FALSE]]
    /\ claim = [p \in Processes |-> Nothing]
    /\ told = [p \in Processes |-> {}]
    /\ listening = Processes
    /\ faults = 0 /\ blocks = 0

SocketsNext ==
    \/ \E c \in Clients : \/ ClientCloses(c) \/ SignOut(c) \/ TokenExpires(c)
                          \/ \E p \in Processes : Connect(c, p)
    \/ \E s \in Sockets : LinkBreaks(s) \/ Authenticate(s) \/ Register(s) \/ RemoveClient(s)
    \/ \E k \in looks : Read(k) \/ ReadFails(k) \/ Deliver(k)
    \/ \E p \in Processes, u \in Accounts :
          Look(p, u) \/ Disconnect(p, u) \/ CloseAccount(p, u) \/ Claim(p, u)
    \/ \E u \in Accounts : Block(u) \/ Unblock(u) \/ RevokeSessions(u) \/ LeaseEnds(u)
    \/ \E p \in Processes :
          \/ Publish(p) \/ PublishFails(p) \/ MarkDelivered(p) \/ ScheduleRetry(p)
          \/ Subscribe(p) \/ SubscriptionLost(p) \/ Restart(p)

SocketsSpec == SocketsInit /\ [][SocketsNext]_socketVars

(* Timers fire (the reconnect, the sweeps), and what a process has begun   *)
(* with a socket it goes on with.  Nothing is assumed of the outbox.       *)
SocketsFairness ==
    /\ \A c \in Clients : /\ WF_socketVars(ClientCloses(c))
                          /\ SF_socketVars(\E p \in Processes : Connect(c, p))
    /\ \A s \in Sockets : WF_socketVars(Authenticate(s) \/ Register(s) \/ RemoveClient(s))
    /\ WF_socketVars(\E k \in looks : Read(k) \/ Deliver(k))
    /\ \A u \in Accounts : SF_socketVars(\E p \in Processes : Look(p, u))

FairSocketsSpec == SocketsSpec /\ SocketsFairness

-----------------------------------------------------------------------------
(* Properties *)

SocketsTypeOK ==
    /\ status \in [Accounts -> {"active", "blocked", "closed"}]
    /\ accepted \subseteq Clients
    /\ running \subseteq Clients /\ timer \subseteq running
    /\ current \in [Clients -> Sockets \cup {Nothing}]
    /\ socket \in [Sockets -> Connections \cup {Nothing}]
    /\ looks \subseteq [at : Processes, user : Accounts, allowed : BOOLEAN \cup {Nothing}]
    /\ event \in [Accounts -> {"none", "due", "delivered"}]
    /\ lease \in [Accounts -> [owner : Processes \cup {Nothing}, lasts : BOOLEAN]]
    /\ claim \in [Processes -> [user : Accounts, stage : {"claimed", "published", "failed"}]
                                 \cup {Nothing}]
    /\ told \in [Processes -> SUBSET Accounts] /\ listening \subseteq Processes
    /\ faults \in Nat /\ blocks \in Nat

(* A closed account ends without sockets in every process, also in one     *)
(* that missed the announcement and for a handshake that had passed        *)
(* authenticate when the account was closed (the sweep of the hub).        *)
ClosedLoseSockets ==
    \A u \in Accounts : [](status[u] = "closed" => <>[](Registered(u) = {}))

(* A client of an active account that is left running, with a token that   *)
(* is still accepted, comes back after broken links, restarts and refused  *)
(* handshakes.  Without such a token it is refused for ever, and goes on   *)
(* trying: the socket client does not end its session on a refusal.        *)
Reconnects ==
    \A c \in Clients :
       <>[](c \in running \cap accepted /\ status[Owner[c]] = "active")
          => []<>(current[c] \in Registered(Owner[c]))

(* A dispatcher whose lease has ended takes nobody else's.                 *)
LeasesKept ==
    [][\A u \in Accounts : \A p \in Processes :
          /\ lease[u] = [owner |-> p, lasts |-> TRUE]
          /\ claim[p] # Nothing /\ claim[p].user = u
          /\ claim'[p] = claim[p]
          => lease'[u].owner = p]_socketVars
=============================================================================
