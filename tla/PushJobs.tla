------------------------------ MODULE PushJobs ------------------------------
(***************************************************************************)
(* The outbox of push notifications and the workers that deliver it:       *)
(*   services/api/src/jobs/notification-push-worker.ts                     *)
(* with the enqueueing half of createNotification                          *)
(*   (modules/notifications/notifications.repository.ts), the devices of   *)
(* modules/notifications/notification-devices.repository.ts and the        *)
(* account guard of modules/account-deletion/account-activity.guard.ts.    *)
(*                                                                         *)
(* A worker claims a batch of jobs, then delivers each in a transaction    *)
(* that holds the users row of the recipient, the row of the job and the   *)
(* users rows of the other parties, in this order, while it calls the      *)
(* provider.  Row locks are kept in held: what one transaction holds,      *)
(* others wait for.  A lease of two minutes, never renewed, lets another   *)
(* worker take over a job whose worker died - or is slow.                  *)
(*                                                                         *)
(* Preferences are left out: whether the recipient wants a push is decided *)
(* when the job is enqueued.  Users are numbered in the order of their ids.*)
(***************************************************************************)
EXTENDS Naturals, FiniteSets, FiniteSetsExt

CONSTANTS
    Jobs,         \* one per notification
    Users,        \* user ids, in the order lockActiveAccounts sorts them
    Recipient,    \* [job -> user]
    Parties,      \* [job -> the users who act in the notification or own its target]
    Owner,        \* [job -> the owner of its target]
    Devices,      \* device tokens
    FirstDevices, \* [user -> tokens registered at first]
    Workers,
    None,
    MaxAttempts,  \* max_attempts (8 in the code)
    MaxFaults,    \* bound: crashes, errors of the provider or the database, slow workers
    MaxActs       \* bound on what users do: devices, targets, closed accounts

ASSUME MaxAttemptsAssumption == MaxAttempts \in Nat \ {0}
ASSUME UsersAssumption == Users \subseteq Nat /\ Users \cap Jobs = {}
ASSUME JobsAssumption ==
    /\ Recipient \in [Jobs -> Users]
    /\ Parties \in [Jobs -> SUBSET Users]
    /\ \A j \in Jobs : Owner[j] \in Parties[j] \cup {Recipient[j]}
ASSUME DevicesAssumption == FirstDevices \in [Users -> SUBSET Devices]
ASSUME NoneAssumption == None \notin Jobs
ASSUME BoundsAssumption == MaxFaults \in Nat /\ MaxActs \in Nat

VARIABLES
    status,    \* "none" before the INSERT, "gone" after the DELETE, else notification_push_jobs.status
    due,       \* available_at <= now()
    fresh,     \* claimed_at is less than two minutes ago
    attempts,  \* notification_push_jobs.attempts
    active,    \* users with status 'active' and no deleted_at
    devices,   \* [user -> tokens not revoked]
    target,    \* the poll or the comment of the job: "shown", "deleted" by its owner, or
               \* "removed" by somebody else
    pc,        \* where deliverPendingPushNotifications stands
    batch,     \* claimed jobs not looked at yet
    cur,       \* the job being delivered
    todo,      \* devices the provider has not been called for
    got,       \* deliveredToDevice
    revoked,   \* devices revoked by the transaction under way
    held,      \* rows the transaction of a worker has locked
    pushes,    \* pushes the provider took: [job -> [device -> 0 .. 2]], saturating
    faults,
    acts

jobRows == <<status, due, fresh, attempts>>
world   == <<active, devices, target>>
local   == <<batch, cur, todo, got, revoked>>
history == <<pushes>>
vars    == <<jobRows, world, pc, local, held, history, faults, acts>>

Init ==
    /\ status   = [j \in Jobs |-> "none"]
    /\ due      = [j \in Jobs |-> FALSE]
    /\ fresh    = [j \in Jobs |-> FALSE]
    /\ attempts = [j \in Jobs |-> 0]
    /\ active   = Users
    /\ devices  = FirstDevices
    /\ target   = [j \in Jobs |-> "shown"]
    /\ pc       = [w \in Workers |-> "idle"]
    /\ batch    = [w \in Workers |-> {}]
    /\ cur      = [w \in Workers |-> None]
    /\ todo     = [w \in Workers |-> {}]
    /\ got      = [w \in Workers |-> FALSE]
    /\ revoked  = [w \in Workers |-> {}]
    /\ held     = [w \in Workers |-> {}]
    /\ pushes   = [j \in Jobs |-> [d \in Devices |-> 0]]
    /\ faults   = 0
    /\ acts     = 0

\* No transaction of a worker other than w holds the row.
Free(row, w) == \A v \in Workers \ {w} : row \notin held[v]

Unlocked(row) == \A v \in Workers : row \notin held[v]

-----------------------------------------------------------------------------
(* The users, each in a transaction of its own *)

\* createNotification, in the transaction of an active party.  The recipient may be inactive;
\* the foreign key of the new row waits for a transaction that holds the recipient.
Enqueue(j) ==
    /\ status[j] = "none"
    /\ target[j] = "shown"
    /\ Unlocked(Recipient[j])
    /\ \E u \in Parties[j] : u \in active /\ Unlocked(u)
    /\ status' = [status EXCEPT ![j] = "pending"]
    /\ due' = [due EXCEPT ![j] = TRUE]
    /\ UNCHANGED <<fresh, attempts, world, pc, local, held, history, faults, acts>>

Act == acts < MaxActs /\ acts' = acts + 1

\* registerNotificationDevice and revokeNotificationDevice under withActiveAccountTransaction
Register(u, d) ==
    /\ Act
    /\ u \in active /\ Unlocked(u)
    /\ d \notin devices[u]
    /\ devices' = [devices EXCEPT ![u] = @ \cup {d}]
    /\ UNCHANGED <<jobRows, active, target, pc, local, held, history, faults>>

Revoke(u, d) ==
    /\ Act
    /\ u \in active /\ Unlocked(u)
    /\ d \in devices[u]
    /\ devices' = [devices EXCEPT ![u] = @ \ {d}]
    /\ UNCHANGED <<jobRows, active, target, pc, local, held, history, faults>>

\* deletePollRecord, deletePollCommentRecord: by the owner of the target.
Hide(j) ==
    /\ Act
    /\ target[j] = "shown"
    /\ Owner[j] \in active /\ Unlocked(Owner[j])
    /\ target' = [target EXCEPT ![j] = "deleted"]
    /\ UNCHANGED <<jobRows, active, devices, pc, local, held, history, faults>>

\* deleteAdminPoll and deleteAdminComment lock no users row, and who deletes a root deletes the
\* replies of others with it: nothing a worker holds keeps them waiting.
Remove(j) ==
    /\ Act
    /\ target[j] = "shown"
    /\ target' = [target EXCEPT ![j] = "removed"]
    /\ UNCHANGED <<jobRows, active, devices, pc, local, held, history, faults>>

\* acceptAccountDeletion: the account stops being active.
Close(u) ==
    /\ Act
    /\ u \in active /\ Unlocked(u)
    /\ active' = active \ {u}
    /\ UNCHANGED <<jobRows, devices, target, pc, local, held, history, faults>>

\* purgeAccountNotifications: the notifications of a closed account go, with their jobs.
Purge(j) ==
    /\ ({Recipient[j]} \cup Parties[j]) \ active # {}
    /\ status[j] \notin {"none", "gone"}
    /\ Unlocked(j)
    /\ status' = [status EXCEPT ![j] = "gone"]
    /\ devices' = [u \in Users |-> IF u \in active THEN devices[u] ELSE {}]
    /\ UNCHANGED <<due, fresh, attempts, active, target, pc, local, held, history, faults, acts>>

-----------------------------------------------------------------------------
(* The clock *)

RetryDelayElapses(j) ==
    /\ status[j] = "pending" /\ ~due[j]
    /\ due' = [due EXCEPT ![j] = TRUE]
    /\ UNCHANGED <<status, fresh, attempts, world, pc, local, held, history, faults, acts>>

Tended(j) == \E w \in Workers : j \in batch[w] \/ cur[w] = j

\* SENDING_LEASE_SECONDS are over and the worker is gone; or it is only slow.
LeaseExpires(j) ==
    /\ status[j] = "sending" /\ fresh[j] /\ ~Tended(j)
    /\ fresh' = [fresh EXCEPT ![j] = FALSE]
    /\ UNCHANGED <<status, due, attempts, world, pc, local, held, history, faults, acts>>

SlowWorker(j) ==
    /\ status[j] = "sending" /\ fresh[j] /\ Tended(j)
    /\ faults < MaxFaults
    /\ faults' = faults + 1
    /\ fresh' = [fresh EXCEPT ![j] = FALSE]
    /\ UNCHANGED <<status, due, attempts, world, pc, local, held, history, acts>>

-----------------------------------------------------------------------------
(* deliverPendingPushNotifications *)

\* Mutant of Claimable: an abandoned job is not taken over.
ClaimablePending(j) == status[j] = "pending" /\ due[j] /\ attempts[j] < MaxAttempts

Claimable(j) ==
    /\ \/ status[j] = "pending" /\ due[j]
       \/ status[j] = "sending" /\ ~fresh[j]
    /\ attempts[j] < MaxAttempts

\* FOR UPDATE SKIP LOCKED LIMIT: any claimable jobs that nobody has locked.
Claim(w, S) ==
    /\ pc[w] = "idle"
    /\ S # {}
    /\ \A j \in S : Claimable(j) /\ Unlocked(j)
    /\ status' = [j \in Jobs |-> IF j \in S THEN "sending" ELSE status[j]]
    /\ fresh' = [j \in Jobs |-> j \in S \/ fresh[j]]
    /\ pc' = [pc EXCEPT ![w] = "pick"]
    /\ batch' = [batch EXCEPT ![w] = S]
    /\ UNCHANGED <<due, attempts, world, cur, todo, got, revoked, held, history, faults, acts>>

Pick(w, j) ==
    /\ pc[w] = "pick" /\ j \in batch[w]
    /\ pc' = [pc EXCEPT ![w] = "begin"]
    /\ batch' = [batch EXCEPT ![w] = @ \ {j}]
    /\ cur' = [cur EXCEPT ![w] = j]
    /\ UNCHANGED <<jobRows, world, todo, got, revoked, held, history, faults, acts>>

EndBatch(w) ==
    /\ pc[w] = "pick" /\ batch[w] = {}
    /\ pc' = [pc EXCEPT ![w] = "idle"]
    /\ UNCHANGED <<jobRows, world, local, held, history, faults, acts>>

\* The transaction of a worker ends, by COMMIT or ROLLBACK.
EndTransaction(w, label) ==
    /\ pc' = [pc EXCEPT ![w] = label]
    /\ held' = [held EXCEPT ![w] = {}]
    /\ todo' = [todo EXCEPT ![w] = {}]
    /\ got' = [got EXCEPT ![w] = FALSE]
    /\ revoked' = [revoked EXCEPT ![w] = {}]
    /\ cur' = IF label = "pick" THEN [cur EXCEPT ![w] = None] ELSE cur
    /\ UNCHANGED batch

\* Mutant of NextParty: nobody but the recipient is locked and looked at.
NoParty(j, rows) == {}

\* lockActiveAccounts: the users rows still to lock.
NextParty(j, rows) == Parties[j] \ rows

-----------------------------------------------------------------------------
(* deliverClaimedPushJob *)

\* lockActiveAccount, by withActiveAccountTransaction
LockRecipient(w) ==
    LET u == Recipient[cur[w]] IN
    /\ pc[w] = "begin" /\ Free(u, w)
    /\ IF u \in active
         THEN /\ held' = [held EXCEPT ![w] = {u}]
              /\ pc' = [pc EXCEPT ![w] = "read"]
              /\ UNCHANGED local
         ELSE EndTransaction(w, "inactive")
    /\ UNCHANGED <<jobRows, world, history, faults, acts>>

StillSending(j) == status[j] = "sending"

\* The SELECT ... FOR UPDATE OF j and what follows from it.
ReadJob(w) ==
    LET j == cur[w] IN
    /\ pc[w] = "read" /\ Free(j, w)
    /\ \/ /\ ~StillSending(j)
          /\ EndTransaction(w, "pick")
          /\ UNCHANGED status
       \/ /\ StillSending(j) /\ target[j] # "shown"
          /\ status' = [status EXCEPT ![j] = "failed"]
          /\ EndTransaction(w, "pick")
       \/ /\ StillSending(j) /\ target[j] = "shown"
          /\ held' = [held EXCEPT ![w] = @ \cup {j}]
          /\ pc' = [pc EXCEPT ![w] = "lock"]
          /\ UNCHANGED <<status, local>>
    /\ UNCHANGED <<due, fresh, attempts, world, history, faults, acts>>

LockParty(w) ==
    LET left == NextParty(cur[w], held[w]) IN
    /\ pc[w] = "lock"
    /\ \E u \in left :
          /\ \A x \in left : u <= x
          /\ Free(u, w)
          /\ IF u \in active
               THEN /\ held' = [held EXCEPT ![w] = @ \cup {u}]
                    /\ UNCHANGED <<pc, local>>
               ELSE EndTransaction(w, "inactive")
    /\ UNCHANGED <<jobRows, world, history, faults, acts>>

ListDevices(w) ==
    /\ pc[w] = "lock" /\ NextParty(cur[w], held[w]) = {}
    /\ pc' = [pc EXCEPT ![w] = "send"]
    /\ todo' = [todo EXCEPT ![w] = devices[Recipient[cur[w]]]]
    /\ UNCHANGED <<jobRows, world, batch, cur, got, revoked, held, history, faults, acts>>

Send(w, d) ==
    /\ pc[w] = "send" /\ d \in todo[w]
    /\ todo' = [todo EXCEPT ![w] = @ \ {d}]
    /\ got' = [got EXCEPT ![w] = TRUE]
    /\ pushes' = [pushes EXCEPT ![cur[w]][d] = Min({@ + 1, 2})]
    /\ UNCHANGED <<jobRows, world, pc, batch, cur, revoked, held, faults, acts>>

\* The provider does not know the token any more: revokeNotificationDevice, same transaction.
SendToInvalid(w, d) ==
    /\ Act
    /\ pc[w] = "send" /\ d \in todo[w]
    /\ todo' = [todo EXCEPT ![w] = @ \ {d}]
    /\ revoked' = [revoked EXCEPT ![w] = @ \cup {d}]
    /\ UNCHANGED <<jobRows, world, pc, batch, cur, got, held, history, faults>>

\* Mutants of MarksSent: sent, whether or not a device took it; sent only if all of them did.
MarksSentAlways(w) == TRUE
MarksSentByAll(w) == got[w] /\ revoked[w] = {}

MarksSent(w) == got[w]

EndDelivery(w) ==
    /\ pc[w] = "send" /\ todo[w] = {}
    /\ status' = IF MarksSent(w) THEN [status EXCEPT ![cur[w]] = "sent"] ELSE status
    /\ devices' = [devices EXCEPT ![Recipient[cur[w]]] = @ \ revoked[w]]
    /\ EndTransaction(w, IF MarksSent(w) THEN "pick" ELSE "retry")
    /\ UNCHANGED <<due, fresh, attempts, active, target, history, faults, acts>>

\* The UPDATE after an InactiveAccountError: by id alone.
FailInactive(w) ==
    /\ pc[w] = "inactive" /\ Free(cur[w], w)
    /\ status' = [status EXCEPT ![cur[w]] = IF @ = "gone" THEN @ ELSE "failed"]
    /\ EndTransaction(w, "pick")
    /\ UNCHANGED <<due, fresh, attempts, world, history, faults, acts>>

\* schedulePushRetry: by id alone; attempts is the claim's copy, and no statement changes it.
ScheduleRetry(w) ==
    LET j == cur[w] IN
    /\ pc[w] = "retry" /\ Free(j, w)
    /\ IF status[j] = "gone"
         THEN UNCHANGED <<status, due>>
         ELSE /\ status' = [status EXCEPT ![j] = IF attempts[j] < MaxAttempts THEN "pending" ELSE "failed"]
              /\ due' = [due EXCEPT ![j] = FALSE]
    /\ EndTransaction(w, "pick")
    /\ UNCHANGED <<fresh, attempts, world, history, faults, acts>>

-----------------------------------------------------------------------------
(* Failures *)

InTransaction == {"begin", "read", "lock", "send"}

\* The provider or a statement throws: ROLLBACK, the revocations with it.
Throw(w) ==
    /\ pc[w] \in InTransaction
    /\ faults < MaxFaults
    /\ faults' = faults + 1
    /\ EndTransaction(w, "retry")
    /\ UNCHANGED <<jobRows, world, history, acts>>

\* The row a worker waits for, when another holds it.
Awaits(w) ==
    CASE pc[w] = "begin" -> {Recipient[cur[w]]}
      [] pc[w] = "read"  -> {cur[w]}
      [] pc[w] = "lock" /\ NextParty(cur[w], held[w]) # {} -> {Min(NextParty(cur[w], held[w]))}
      [] OTHER -> {}

Deadlocked(S) == \A w \in S : \E v \in S \ {w} : Awaits(w) \cap held[v] # {}

\* PostgreSQL finds the deadlock and aborts one of its transactions.
Abort(w) ==
    /\ \E S \in SUBSET Workers : w \in S /\ Deadlocked(S)
    /\ EndTransaction(w, "retry")
    /\ UNCHANGED <<jobRows, world, history, faults, acts>>

\* The process dies, or schedulePushRetry throws out of the loop.
Crash(w) ==
    /\ pc[w] # "idle"
    /\ faults < MaxFaults
    /\ faults' = faults + 1
    /\ pc' = [pc EXCEPT ![w] = "idle"]
    /\ batch' = [batch EXCEPT ![w] = {}]
    /\ cur' = [cur EXCEPT ![w] = None]
    /\ todo' = [todo EXCEPT ![w] = {}]
    /\ got' = [got EXCEPT ![w] = FALSE]
    /\ revoked' = [revoked EXCEPT ![w] = {}]
    /\ held' = [held EXCEPT ![w] = {}]
    /\ UNCHANGED <<jobRows, world, history, acts>>

-----------------------------------------------------------------------------
(* The specification *)

WorkerStep(w) ==
    \/ \E j \in Jobs : Pick(w, j)
    \/ EndBatch(w)
    \/ LockRecipient(w)
    \/ ReadJob(w)
    \/ LockParty(w)
    \/ ListDevices(w)
    \/ \E d \in Devices : Send(w, d)
    \/ EndDelivery(w)
    \/ FailInactive(w)
    \/ ScheduleRetry(w)
    \/ Abort(w)

ClaimOf(j) == \E w \in Workers, S \in SUBSET Jobs : j \in S /\ Claim(w, S)

UserStep ==
    \/ \E j \in Jobs : Enqueue(j) \/ Hide(j) \/ Remove(j) \/ Purge(j)
    \/ \E u \in Users : Close(u) \/ \E d \in Devices : Register(u, d) \/ Revoke(u, d)

Next ==
    \/ UserStep
    \/ \E j \in Jobs : RetryDelayElapses(j) \/ LeaseExpires(j) \/ SlowWorker(j)
    \/ \E w \in Workers : \/ WorkerStep(w) \/ Throw(w) \/ Crash(w)
                          \/ \E S \in SUBSET Jobs : Claim(w, S)
                          \/ \E d \in Devices : SendToInvalid(w, d)

Spec == Init /\ [][Next]_vars

\* Time passes, a live worker goes on, PostgreSQL gives the row a dead transaction leaves to
\* whoever has waited for it, and the loop of the container claims again and again, the oldest
\* jobs first.
Fairness ==
    /\ \A j \in Jobs : WF_vars(RetryDelayElapses(j)) /\ WF_vars(LeaseExpires(j)) /\ SF_vars(ClaimOf(j))
    /\ \A w \in Workers : WF_vars(WorkerStep(w)) /\ SF_vars(LockParty(w))

FairSpec == Spec /\ Fairness

-----------------------------------------------------------------------------
(* Properties *)

JobsOK ==
    /\ status   \in [Jobs -> {"none", "pending", "sending", "sent", "failed", "gone"}]
    /\ due      \in [Jobs -> BOOLEAN]
    /\ fresh    \in [Jobs -> BOOLEAN]
    /\ attempts \in [Jobs -> Nat]

WorldOK ==
    /\ active  \subseteq Users
    /\ devices \in [Users -> SUBSET Devices]
    /\ target  \in [Jobs -> {"shown", "deleted", "removed"}]

WorkersOK ==
    /\ pc      \in [Workers -> {"idle", "pick", "begin", "read", "lock", "send", "inactive", "retry"}]
    /\ batch   \in [Workers -> SUBSET Jobs]
    /\ cur     \in [Workers -> Jobs \cup {None}]
    /\ todo    \in [Workers -> SUBSET Devices]
    /\ got     \in [Workers -> BOOLEAN]
    /\ revoked \in [Workers -> SUBSET Devices]
    /\ held    \in [Workers -> SUBSET (Users \cup Jobs)]

TypeOK ==
    /\ JobsOK
    /\ WorldOK
    /\ WorkersOK
    /\ pushes \in [Jobs -> [Devices -> 0 .. 2]]
    /\ faults \in 0 .. MaxFaults
    /\ acts \in 0 .. MaxActs

\* The row locks: no row has two holders, a transaction holds what its point in the code says,
\* and what a holder checked when it took a row is still so.
LocksOK ==
    \A w \in Workers :
        LET j == cur[w] IN
        /\ \A v \in Workers \ {w} : held[v] \cap held[w] = {}
        /\ pc[w] \in {"idle", "pick"} <=> j = None
        /\ pc[w] \notin {"read", "lock", "send"} => held[w] = {}
        /\ pc[w] \in {"read", "lock", "send"} => Recipient[j] \in held[w]
        /\ pc[w] \in {"lock", "send"} => j \in held[w] /\ status[j] = "sending"
        /\ pc[w] = "send" => Parties[j] \subseteq held[w]
        /\ held[w] \cap Users \subseteq active

\* The heart of the inductive invariant the proofs rest on.
LockInv == TypeOK /\ LocksOK

\* While a worker calls the provider, what made the call right still holds: the job is to be
\* sent, every account that takes part is active, the devices are registered, and a target of
\* the recipient's own has not been deleted by the recipient - although all of it was read some
\* steps before.  What others remove (Remove) may be gone by then: the code does not lock it.
NoStalePush ==
    \A w \in Workers : pc[w] = "send" =>
        LET j == cur[w] IN
        /\ status[j] = "sending"
        /\ {Recipient[j]} \cup Parties[j] \subseteq active
        /\ todo[w] \cup revoked[w] \subseteq devices[Recipient[j]]
        /\ Owner[j] = Recipient[j] => target[j] # "deleted"

\* As long as no worker dies, fails or is slow, every device gets the push of a notification
\* at most once, however many workers run.
OncePerDevice ==
    faults = 0 => \A j \in Jobs, d \in Devices : pushes[j][d] <= 1

\* A job counts as sent only if some device took the push.
SentMeansReceived ==
    \A j \in Jobs : status[j] = "sent" => \E d \in Devices : pushes[j][d] > 0

\* No job stays in the queue for ever: if the recipients keep a device each, every job is
\* delivered, given up or purged, through crashes, deadlocks and takeovers.
Drained ==
    (\A j \in Jobs : <>[](devices[Recipient[j]] # {}))
        => \A j \in Jobs : <>[](status[j] \in {"none", "sent", "failed", "gone"})
=============================================================================
