------------------------ MODULE DeletionAcceptance ------------------------
(***************************************************************************)
(* How the deletion of an account is accepted, and how the acceptance      *)
(* outlives the database:                                                  *)
(*   modules/account-deletion/account-deletion.service.ts, .repository.ts, *)
(*   .routes.ts, .acceptance-protocol.ts, .journal.ts, .restore.ts         *)
(*   jobs/reapply-account-deletions.ts                                     *)
(* with what administrators do to accounts meanwhile:                      *)
(*   modules/admin/admin.users.repository.ts, admin.repository.ts,         *)
(*   db/bootstrap-superadmin.ts (all under services/api/src)               *)
(*                                                                         *)
(* An acceptance holds, in one transaction, the row of its permission,     *)
(* then the advisory lock of superadmin changes and the users row, while   *)
(* it writes to a journal kept in another database.  Administrators' own   *)
(* transactions are short: one action each, enabled when the locks they    *)
(* take are free.  So is the verification that prepares an operation.  The *)
(* two take their locks in opposite orders, and PostgreSQL aborts one of a *)
(* circle: an abort is Fail.                                               *)
(*                                                                         *)
(* An operation is known by its id, a UUID that fixes its user.  The       *)
(* instant accepted_at, which the journal hashes into the id of an intent, *)
(* is known by the request that took it: no two requests take the same.    *)
(***************************************************************************)
EXTENDS Naturals, FiniteSets

CONSTANTS
    Users,
    Ops,         \* ids of deletion operations
    UserOf,      \* [operation -> user]
    Requests,    \* DELETE /auth/me requests, each sent once
    None,
    UseJournal,  \* ACCOUNT_DELETION_JOURNAL_ENABLED
    MaxActs,     \* bound on what administrators do
    MaxRestores  \* bound on how often the database is lost

ASSUME UsersAssumption      == IsFiniteSet(Users)
ASSUME UserOfAssumption     == UserOf \in [Ops -> Users]
ASSUME NoneAssumption       == None \notin Requests \cup Ops
ASSUME UseJournalAssumption == UseJournal \in BOOLEAN
ASSUME BoundsAssumption     == MaxActs \in Nat /\ MaxRestores \in Nat

VARIABLES
    \* the application's database
    status,      \* users.status, "erased" once the row is gone
    superadmins, \* users whose role is superadmin
    state,       \* operations: "none" without a row, "not_started", "accepted" or "completed"
    acceptedAt,  \* accepted_at of an operation, None before
    permitted,   \* operations that have their permissions
    \* the journal's database
    prepared,    \* its entries, as <<operation, acceptedAt>>
    accepted,
    \* processes
    used,        \* operation ids already drawn
    pc,          \* where a request stands
    target,      \* the operation of a request
    admitted,    \* superadmins with a request past its preHandler; moderators do no more
    phase,       \* "open", "restoring" or "reapplying": no traffic but in the first
    todo,        \* entries that the restore has read and not applied
    backup,      \* a backup of the application's database
    \* history and bounds
    committed,   \* operations whose acceptance was committed
    confirmed,   \* operations for which a client got its answer
    acts,
    restores

rows     == <<status, superadmins, state, acceptedAt, permitted>>
journal  == <<prepared, accepted>>
requests == <<pc, target>>
recovery == <<phase, todo, backup, restores>>
history  == <<committed, confirmed>>
vars     == <<rows, journal, used, requests, admitted, recovery, history, acts>>

Database == [status |-> status, superadmins |-> superadmins,
             state |-> state, acceptedAt |-> acceptedAt, permitted |-> permitted]

Init ==
    /\ status = [u \in Users |-> "active"]
    /\ superadmins \in (SUBSET Users) \ {{}}
    /\ state = [o \in Ops |-> "none"]
    /\ acceptedAt = [o \in Ops |-> None]
    /\ permitted = {}
    /\ prepared = {} /\ accepted = {}
    /\ used = {}
    /\ pc = [r \in Requests |-> "idle"]
    /\ target = [r \in Requests |-> None]
    /\ admitted = {}
    /\ phase = "open" /\ todo = {}
    /\ backup = Database
    /\ committed = {} /\ confirmed = {}
    /\ acts = 0 /\ restores = 0

-----------------------------------------------------------------------------
(* Locks.                                                                  *)

\* Requests whose transaction holds the advisory lock and the users row of its account.
Closing == {r \in Requests : pc[r] \in {"prepare", "commit"}}

\* pg_advisory_xact_lock of lockSuperadminMutation.
MutexFree == Closing = {}

RowFree(u) == \A r \in Closing : UserOf[target[r]] # u

\* The row of the permission is locked from the SELECT ... FOR UPDATE on.
TokenFree(o) == \A r \in Requests :
    pc[r] \in {"account", "prepare", "commit"} => target[r] # o

Exists(u) == status[u] # "erased"
Closed(u) == status[u] \in {"deleted", "erased"}
Recorded(o) == state[o] \in {"accepted", "completed"}

\* What both guards of the last superadmin count: status <> 'deleted' AND deleted_at IS NULL.
AllSuperadmins     == superadmins
CountedSuperadmins == {u \in superadmins : ~Closed(u)}

-----------------------------------------------------------------------------
(* The journal.                                                            *)

Entries == prepared \cup accepted

\* insert refuses a second intent of an operation.
PrepareAny(o, i) == TRUE
CanPrepare(o, i) == \A e \in Entries : e[1] = o => e[2] = i

\* What readInventory checks before it returns the entries.
InventorySound ==
    /\ accepted \subseteq prepared
    /\ \A a \in accepted : \A e \in Entries : e[1] = a[1] => e[2] = a[2]

\* readAll refuses a journal with an intent nobody accepted.
ReadsPartly == InventorySound
ReadsAll    == InventorySound /\ \A p \in prepared : \E a \in accepted : a[1] = p[1]

\* acceptDeletionInJournal: writePrepared, then writeAccepted, whose own checks follow.
WritePreparedOnly(o) ==
    /\ CanPrepare(o, acceptedAt[o])
    /\ prepared' = prepared \cup {<<o, acceptedAt[o]>>}
    /\ accepted' = accepted
WriteAccepted(o) ==
    /\ CanPrepare(o, acceptedAt[o])
    /\ prepared' = prepared \cup {<<o, acceptedAt[o]>>}
    /\ accepted' = accepted \cup {<<o, acceptedAt[o]>>}

-----------------------------------------------------------------------------
(* Verification and acceptance.                                            *)

\* prepareDeletionOperation.  The credentials were checked before its transaction began.
\* An operation that was accepted is returned (409); one that was not makes room.
Verify(o) ==
    LET mine == {p \in Ops : UserOf[p] = UserOf[o]} IN
    /\ phase = "open"
    /\ o \notin used
    /\ Exists(UserOf[o]) /\ RowFree(UserOf[o])
    /\ \A p \in mine : ~Recorded(p) /\ TokenFree(p)
    /\ state' = [p \in Ops |-> IF p = o THEN "not_started"
                               ELSE IF p \in mine THEN "none" ELSE state[p]]
    /\ permitted' = (permitted \ mine) \cup {o}
    /\ used' = used \cup {o}
    /\ UNCHANGED <<status, superadmins, acceptedAt, journal, requests, admitted,
                   recovery, history, acts>>

\* PREPARED_RETENTION_SQL.  That the tokens expired before needs no step of its own: all it
\* takes away are requests that need not come.
Forget(o) ==
    /\ phase = "open"
    /\ state[o] = "not_started" /\ TokenFree(o)
    /\ state' = [state EXCEPT ![o] = "none"]
    /\ permitted' = permitted \ {o}
    /\ UNCHANGED <<status, superadmins, acceptedAt, journal, used, requests, admitted,
                   recovery, history, acts>>

\* acceptAccountDeletion up to the replay branch: an operation accepted before is only confirmed.
Begin(r, o) ==
    /\ phase = "open" /\ pc[r] = "idle"
    /\ o \in permitted /\ state[o] # "none" /\ TokenFree(o)
    /\ pc' = [pc EXCEPT ![r] = IF state[o] = "not_started" THEN "account" ELSE "confirm"]
    /\ target' = [target EXCEPT ![r] = o]
    /\ UNCHANGED <<rows, journal, used, admitted, recovery, history, acts>>

\* lockSuperadminMutation, the users row, the count; without a journal COMMIT is next.
LockAccount(r) ==
    LET u == UserOf[target[r]] IN
    /\ pc[r] = "account"
    /\ MutexFree /\ RowFree(u)
    /\ ~Closed(u)
    /\ u \in superadmins => Cardinality(CountedSuperadmins) > 1
    /\ pc' = [pc EXCEPT ![r] = IF UseJournal THEN "prepare" ELSE "commit"]
    /\ UNCHANGED <<rows, journal, used, target, admitted, recovery, history, acts>>

\* writePrepared, before COMMIT.
Prepare(r) ==
    /\ pc[r] = "prepare"
    /\ CanPrepare(target[r], r)
    /\ prepared' = prepared \cup {<<target[r], r>>}
    /\ pc' = [pc EXCEPT ![r] = "commit"]
    /\ UNCHANGED <<rows, accepted, used, target, admitted, recovery, history, acts>>

\* COMMIT: the operation, the closed account and the work of the deletion at once.
\* The API may not hear of it.
Commit(r, heard) ==
    LET o == target[r] IN
    /\ pc[r] = "commit"
    /\ state' = [state EXCEPT ![o] = "accepted"]
    /\ acceptedAt' = [acceptedAt EXCEPT ![o] = r]
    /\ status' = [status EXCEPT ![UserOf[o]] = "deleted"]
    /\ committed' = committed \cup {o}
    /\ pc' = [pc EXCEPT ![r] = IF heard THEN "confirm" ELSE "done"]
    /\ UNCHANGED <<superadmins, permitted, journal, used, target, admitted, recovery, confirmed,
                   acts>>

\* writeAccepted and the answer 202, of an acceptance and of a replay.
Confirm(r) ==
    /\ pc[r] = "confirm"
    /\ IF UseJournal THEN WriteAccepted(target[r]) ELSE UNCHANGED journal
    /\ confirmed' = confirmed \cup {target[r]}
    /\ pc' = [pc EXCEPT ![r] = "done"]
    /\ UNCHANGED <<rows, used, target, admitted, recovery, committed, acts>>

\* A refusal, an unreachable journal, a lost connection, a crash of the API: what was
\* not committed is rolled back, and what the journal took stays there.
Fail(r) ==
    /\ pc[r] \notin {"idle", "done"}
    /\ pc' = [pc EXCEPT ![r] = "done"]
    /\ UNCHANGED <<rows, journal, used, target, admitted, recovery, history, acts>>

\* GET status of an accepted operation, which confirms it to the journal first.
Status(o) ==
    /\ phase = "open" /\ o \in permitted /\ Recorded(o)
    /\ IF UseJournal THEN WriteAccepted(o) ELSE UNCHANGED journal
    /\ confirmed' = confirmed \cup {o}
    /\ UNCHANGED <<rows, used, requests, admitted, recovery, committed, acts>>

\* The deletion worker (module DeletionWorker): its last step deletes the users row ...
DeleteUser(o) ==
    /\ phase = "open" /\ state[o] = "accepted"
    /\ Exists(UserOf[o]) /\ RowFree(UserOf[o])
    /\ status' = [status EXCEPT ![UserOf[o]] = "erased"]
    /\ superadmins' = superadmins \ {UserOf[o]}
    /\ UNCHANGED <<state, acceptedAt, permitted, journal, used, requests, admitted, recovery,
                   history, acts>>

\* ... and once every step is over the operation is completed.
Complete(o) ==
    /\ phase = "open" /\ state[o] = "accepted"
    /\ ~Exists(UserOf[o])
    /\ state' = [state EXCEPT ![o] = "completed"]
    /\ UNCHANGED <<status, superadmins, acceptedAt, permitted, journal, used, requests, admitted,
                   recovery, history, acts>>

-----------------------------------------------------------------------------
(* Administrators.                                                         *)

\* The preHandler: the actor is active and a superadmin.  Nothing checks it again.
Admit(a) ==
    /\ phase = "open" /\ acts < MaxActs
    /\ a \in superadmins /\ status[a] = "active"
    /\ admitted' = admitted \cup {a}
    /\ UNCHANGED <<rows, journal, used, requests, recovery, history, acts>>

\* A request of a about t, both of whose rows it locks.
Acts(a, t) ==
    /\ phase = "open" /\ acts < MaxActs
    /\ a \in admitted /\ a # t
    /\ Exists(a) /\ RowFree(a) /\ Exists(t) /\ RowFree(t)
    /\ admitted' = admitted \ {a}
    /\ acts' = acts + 1
    /\ UNCHANGED <<state, acceptedAt, permitted, journal, used, requests, recovery, history>>

\* blockUser; its rows must not be closed.
Block(a, t) ==
    /\ Acts(a, t) /\ ~Closed(a)
    /\ status[t] = "active" /\ t \notin superadmins
    /\ status' = [status EXCEPT ![t] = "blocked"]
    /\ UNCHANGED superadmins

Unblock(a, t) ==
    /\ Acts(a, t)
    /\ status[t] = "blocked" /\ t \notin superadmins
    /\ status' = [status EXCEPT ![t] = "active"]
    /\ UNCHANGED superadmins

DeleteAdminUser(a, t) ==
    /\ Acts(a, t) /\ MutexFree
    /\ t \in superadmins => Cardinality(CountedSuperadmins) > 1
    /\ ~Closed(t)
    /\ status' = [status EXCEPT ![t] = "deleted"]
    /\ UNCHANGED superadmins

\* changeUserRole; a blocked account is not refused.
Promote(a, t) ==
    /\ Acts(a, t) /\ MutexFree
    /\ ~Closed(t) /\ t \notin superadmins
    /\ superadmins' = superadmins \cup {t}
    /\ UNCHANGED status

Demote(a, t) ==
    /\ Acts(a, t) /\ MutexFree
    /\ ~Closed(t) /\ t \in superadmins
    /\ Cardinality(CountedSuperadmins) > 1
    /\ superadmins' = superadmins \ {t}
    /\ UNCHANGED status

\* bootstrap-superadmin, under a lock of its own: here only active accounts count.
Bootstrap(u) ==
    /\ phase = "open"
    /\ status[u] = "active" /\ RowFree(u)
    /\ \A v \in superadmins : status[v] # "active"
    /\ superadmins' = superadmins \cup {u}
    /\ UNCHANGED <<status, state, acceptedAt, permitted, journal, used, requests, admitted,
                   recovery, history, acts>>

-----------------------------------------------------------------------------
(* Recovery.                                                               *)

\* reconcileAccountDeletionJournal, for one operation the database has.
Reconcile(o) ==
    /\ phase = "open" /\ UseJournal
    /\ InventorySound
    /\ Recorded(o)
    /\ WriteAccepted(o)
    /\ UNCHANGED <<rows, used, requests, admitted, recovery, history, acts>>

TakeBackup ==
    /\ phase = "open" /\ restores < MaxRestores
    /\ backup' = Database
    /\ UNCHANGED <<rows, journal, used, requests, admitted, phase, todo, restores,
                   history, acts>>

\* The database is lost and its backup is restored, with the API and the worker stopped.
Restore ==
    /\ restores < MaxRestores
    /\ restores' = restores + 1
    /\ status' = backup.status /\ superadmins' = backup.superadmins
    /\ state' = backup.state /\ acceptedAt' = backup.acceptedAt
    /\ permitted' = backup.permitted
    /\ pc' = [r \in Requests |-> IF pc[r] = "idle" THEN "idle" ELSE "done"]
    /\ admitted' = {}
    /\ phase' = IF UseJournal THEN "restoring" ELSE "open"
    /\ todo' = {}
    /\ UNCHANGED <<journal, used, target, backup, history, acts>>

\* account-deletion:journal-reapply reads the whole journal or stops.
ReadJournal ==
    /\ phase = "restoring"
    /\ ReadsAll
    /\ \A e, f \in accepted : UserOf[e[1]] = UserOf[f[1]] => e[1] = f[1]
    /\ phase' = "reapplying"
    /\ todo' = accepted
    /\ UNCHANGED <<rows, journal, used, requests, admitted, backup, restores, history, acts>>

\* reapplyAcceptedDeletions, for one entry in one transaction.  It restores no permission.
Reapply(e) ==
    LET o == e[1]
        u == UserOf[o] IN
    /\ phase = "reapplying"
    /\ todo' = todo \ {e}
    /\ IF state[o] = "completed" /\ ~Exists(u)
       THEN UNCHANGED <<status, state, acceptedAt>>
       ELSE /\ state' = [state EXCEPT ![o] = "accepted"]
            /\ acceptedAt' = [acceptedAt EXCEPT ![o] = e[2]]
            /\ status' = IF Exists(u) THEN [status EXCEPT ![u] = "deleted"] ELSE status
    /\ UNCHANGED <<superadmins, permitted, journal, used, requests, admitted, phase, backup,
                   restores, history, acts>>

\* The job fails half-way and is run again from the start.
FailReapply ==
    /\ phase = "reapplying"
    /\ phase' = "restoring" /\ todo' = {}
    /\ UNCHANGED <<rows, journal, used, requests, admitted, backup, restores, history, acts>>

\* Everything was reapplied: the API and the worker are started.
Reopen ==
    /\ phase = "reapplying" /\ todo = {}
    /\ phase' = "open"
    /\ UNCHANGED <<rows, journal, used, requests, admitted, todo, backup, restores,
                   history, acts>>

OperationStep == \E o \in Ops :
    Verify(o) \/ Forget(o) \/ Status(o) \/ DeleteUser(o) \/ Complete(o) \/ Reconcile(o)

RequestStep == \E r \in Requests :
    \/ \E o \in Ops : Begin(r, o)
    \/ LockAccount(r) \/ Prepare(r) \/ Confirm(r) \/ Fail(r)
    \/ \E heard \in BOOLEAN : Commit(r, heard)

AdministratorStep == \E a \in Users :
    \/ Admit(a) \/ Bootstrap(a)
    \/ \E t \in Users : \/ Block(a, t) \/ Unblock(a, t) \/ DeleteAdminUser(a, t)
                        \/ Promote(a, t) \/ Demote(a, t)

RecoveryStep ==
    \/ TakeBackup \/ Restore \/ ReadJournal \/ FailReapply \/ Reopen
    \/ \E e \in todo : Reapply(e)

Next == OperationStep \/ RequestStep \/ AdministratorStep \/ RecoveryStep

Spec == Init /\ [][Next]_vars

-----------------------------------------------------------------------------
(* Properties.                                                             *)

\* Types, and what the control points say.
TypeOK ==
    /\ status \in [Users -> {"active", "blocked", "deleted", "erased"}]
    /\ superadmins \subseteq Users
    /\ state \in [Ops -> {"none", "not_started", "accepted", "completed"}]
    /\ acceptedAt \in [Ops -> Requests \cup {None}]
    /\ permitted \subseteq Ops
    /\ prepared \subseteq Ops \X Requests /\ accepted \subseteq Ops \X Requests
    /\ used \subseteq Ops
    /\ pc \in [Requests -> {"idle", "account", "prepare", "commit", "confirm", "done"}]
    /\ target \in [Requests -> Ops \cup {None}]
    /\ \A r \in Requests : pc[r] # "idle" => target[r] \in Ops
    /\ admitted \subseteq Users
    /\ phase \in {"open", "restoring", "reapplying"}
    /\ todo \subseteq Ops \X Requests
    /\ backup \in [status : [Users -> {"active", "blocked", "deleted", "erased"}],
                   superadmins : SUBSET Users,
                   state : [Ops -> {"none", "not_started", "accepted", "completed"}],
                   acceptedAt : [Ops -> Requests \cup {None}],
                   permitted : SUBSET Ops]
    /\ committed \subseteq Ops /\ confirmed \subseteq Ops
    /\ acts \in 0 .. MaxActs /\ restores \in 0 .. MaxRestores

\* An operation has one intent in the journal; entries are prepared, accepted and then reapplied.
EntriesAgree ==
    /\ \A e, f \in Entries : e[1] = f[1] => e[2] = f[2]
    /\ accepted \subseteq prepared
    /\ todo \subseteq accepted

\* Nothing is accepted, now or in the backup, that the journal was not told of before.
PreparedFirst ==
    UseJournal =>
        /\ \A r \in Requests : pc[r] = "commit"  => <<target[r], r>> \in prepared
        /\ \A r \in Requests : pc[r] = "confirm" => Recorded(target[r])
        /\ \A o \in Ops : Recorded(o) => <<o, acceptedAt[o]>> \in prepared
        /\ \A o \in Ops : backup.state[o] \in {"accepted", "completed"}
                               => <<o, backup.acceptedAt[o]>> \in prepared
        /\ \A o \in committed : \E e \in prepared : e[1] = o

\* The restore has applied an acceptance or has yet to.
ClosuresKept ==
    UseJournal => \A o \in committed :
        \/ phase = "restoring"
        \/ phase = "reapplying" /\ \E e \in todo : e[1] = o
        \/ Recorded(o) /\ Closed(UserOf[o])

\* One account is being closed at a time, and another superadmin stays.
OneCloses == \A r, s \in Closing : r = s
Remains(u) == u \in superadmins /\ ~Closed(u) /\ RowFree(u)
OthersRemain ==
    restores = 0 =>
        /\ phase = "open"
        /\ \A o \in Ops : Recorded(o) => Closed(UserOf[o])
        /\ \E u \in Users : Remains(u)

\* No false 202: what a client was told is in the journal, signed off by both entries.
ConfirmedIsJournaled ==
    UseJournal => \A o \in confirmed : \E a \in accepted : a[1] = o /\ a \in prepared

\* The inductive invariant that DeletionAcceptanceProofs rests on.
IndInv ==
    /\ TypeOK
    /\ EntriesAgree
    /\ PreparedFirst
    /\ ClosuresKept
    /\ OneCloses
    /\ OthersRemain
    /\ ConfirmedIsJournaled

\* An acceptance survives the loss of the database: whenever there is traffic, every
\* operation that was ever committed is there and its account is closed, whichever
\* step the API died at and however old the backup was (acceptance-protocol.ts,
\* "restore old backup does not resurrect account").
ClosureSurvives ==
    UseJournal /\ phase = "open" =>
        \A o \in committed : Recorded(o) /\ Closed(UserOf[o])

\* Whatever fails and is tried again, the journal stays readable but for intents that nobody
\* accepted, and agrees with the database on the instant of every acceptance: neither
\* readInventory nor reconcileAccountDeletionJournal ever meets a conflict.
JournalAgrees ==
    /\ InventorySound
    /\ UseJournal /\ phase = "open" =>
           \A o \in Ops : Recorded(o) => \A e \in Entries : e[1] = o => e[2] = acceptedAt[o]

\* As long as no backup is restored, one superadmin is not deleted, whoever deletes
\* themselves, deletes others or changes roles at the same time (AC-14).
SomeSuperadmin == restores = 0 => \E u \in superadmins : ~Closed(u)
=============================================================================
