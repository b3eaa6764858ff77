--------------------- MODULE DeletionAcceptanceProofs ---------------------
(***************************************************************************)
(* That DeletionAcceptance keeps IndInv, for any users, operations,        *)
(* requests and bounds, with and without the journal, and what follows     *)
(* from it: an acceptance survives the loss of the database, no client is  *)
(* told of an acceptance that the journal lacks, the journal and the       *)
(* database agree, and one superadmin is left.                             *)
(***************************************************************************)
EXTENDS DeletionAcceptance, FiniteSetTheorems, TLAPS

USE UserOfAssumption, NoneAssumption, UseJournalAssumption, BoundsAssumption

-----------------------------------------------------------------------------
(* Types.                                                                  *)

LEMMA TypeInit == Init => TypeOK
BY DEF Init, TypeOK, Database

\* What a request does changes no more than the rows of its operation and its account.
LEMMA TypeOfRequests ==
    ASSUME TypeOK, PreparedFirst, NEW r \in Requests,
           \/ \E o \in Ops : Begin(r, o)
           \/ LockAccount(r) \/ Prepare(r) \/ Confirm(r) \/ Fail(r)
           \/ \E heard \in BOOLEAN : Commit(r, heard)
    PROVE  TypeOK'
<1>1. CASE \E o \in Ops : Begin(r, o)
  BY <1>1 DEF TypeOK, Begin, rows, journal, recovery, history
<1>2. CASE LockAccount(r)
  BY <1>2 DEF TypeOK, LockAccount, rows, journal, recovery, history
<1>3. CASE Prepare(r)
  BY <1>3 DEF TypeOK, Prepare, rows, journal, recovery, history
<1>4. CASE \E heard \in BOOLEAN : Commit(r, heard)
  BY <1>4 DEF TypeOK, Commit, rows, journal, recovery, history
<1>5. CASE Confirm(r)
  <2>1. target[r] \in Ops
    BY <1>5 DEF TypeOK, Confirm
  <2>2. UseJournal => <<target[r], acceptedAt[target[r]]>> \in prepared
    BY <1>5, <2>1 DEF Confirm, PreparedFirst
  <2> QED
    BY <1>5, <2>1, <2>2 DEF TypeOK, Confirm, WriteAccepted, rows, journal, recovery, history
<1>6. CASE Fail(r)
  BY <1>6 DEF TypeOK, Fail, rows, journal, recovery, history
<1> QED BY <1>1, <1>2, <1>3, <1>4, <1>5, <1>6

LEMMA TypeOfOperations ==
    ASSUME TypeOK, PreparedFirst, NEW o \in Ops,
           Verify(o) \/ Forget(o) \/ Status(o) \/ DeleteUser(o) \/ Complete(o) \/ Reconcile(o)
    PROVE  TypeOK'
<1>1. CASE Verify(o)
  BY <1>1 DEF TypeOK, Verify, rows, journal, requests, recovery, history
<1>2. CASE Forget(o)
  BY <1>2 DEF TypeOK, Forget, rows, journal, requests, recovery, history
<1>3. CASE Status(o)
  <2>1. UseJournal => <<o, acceptedAt[o]>> \in prepared
    BY <1>3 DEF Status, PreparedFirst
  <2> QED
    BY <1>3, <2>1 DEF TypeOK, Status, WriteAccepted, rows, journal, requests, recovery
<1>4. CASE Complete(o)
  BY <1>4 DEF TypeOK, Complete, rows, journal, requests, recovery, history
<1>5. CASE DeleteUser(o)
  BY <1>5 DEF TypeOK, DeleteUser, rows, journal, requests, recovery, history
<1>6. CASE Reconcile(o)
  <2>1. UseJournal => <<o, acceptedAt[o]>> \in prepared
    BY <1>6 DEF Reconcile, PreparedFirst
  <2> QED
    BY <1>6, <2>1 DEF TypeOK, Reconcile, WriteAccepted, rows, journal, requests, recovery, history
<1> QED BY <1>1, <1>2, <1>3, <1>4, <1>5, <1>6

LEMMA TypeOfAdministrators ==
    ASSUME TypeOK, NEW a \in Users, NEW t \in Users,
           \/ Admit(a) \/ Bootstrap(a) \/ Block(a, t) \/ Unblock(a, t)
           \/ DeleteAdminUser(a, t) \/ Promote(a, t) \/ Demote(a, t)
    PROVE  TypeOK'
<1> USE DEF TypeOK, rows, journal, requests, recovery, history
<1>1. CASE Admit(a)
  BY <1>1 DEF Admit
<1>2. CASE Bootstrap(a)
  BY <1>2 DEF Bootstrap
<1>3. CASE Block(a, t)
  BY <1>3 DEF Block, Acts
<1>4. CASE Unblock(a, t)
  BY <1>4 DEF Unblock, Acts
<1>5. CASE DeleteAdminUser(a, t)
  BY <1>5 DEF DeleteAdminUser, Acts
<1>6. CASE Promote(a, t)
  BY <1>6 DEF Promote, Acts
<1>7. CASE Demote(a, t)
  BY <1>7 DEF Demote, Acts
<1> QED BY <1>1, <1>2, <1>3, <1>4, <1>5, <1>6, <1>7

LEMMA TypeOfRecovery ==
    ASSUME TypeOK, TakeBackup \/ Restore \/ ReadJournal \/ FailReapply \/ Reopen
                   \/ \E e \in todo : Reapply(e)
    PROVE  TypeOK'
<1> USE DEF TypeOK, rows, journal, requests, history
<1>1. CASE TakeBackup
  BY <1>1 DEF TakeBackup, Database
<1>2. CASE Restore
  BY <1>2 DEF Restore
<1>3. CASE ReadJournal
  BY <1>3 DEF ReadJournal
<1>4. CASE FailReapply
  BY <1>4 DEF FailReapply
<1>5. CASE Reopen
  BY <1>5 DEF Reopen
<1>6. CASE \E e \in todo : Reapply(e)
  BY <1>6 DEF Reapply
<1> QED BY <1>1, <1>2, <1>3, <1>4, <1>5, <1>6

LEMMA TypeStep ==
    ASSUME TypeOK, PreparedFirst, [Next]_vars
    PROVE  TypeOK'
<1>1. CASE UNCHANGED vars
  BY <1>1 DEF TypeOK, vars, rows, journal, requests, recovery, history
<1>2. CASE OperationStep
  BY <1>2, TypeOfOperations DEF OperationStep
<1>3. CASE RequestStep
  BY <1>3, TypeOfRequests DEF RequestStep
<1>4. CASE AdministratorStep
  BY <1>4, TypeOfAdministrators DEF AdministratorStep
<1>5. CASE RecoveryStep
  BY <1>5, TypeOfRecovery DEF RecoveryStep
<1> QED BY <1>1, <1>2, <1>3, <1>4, <1>5 DEF Next

-----------------------------------------------------------------------------
(* The journal only grows, by entries that agree with the ones it has.     *)

Adds(o, i) ==
    /\ CanPrepare(o, i)
    /\ prepared' = prepared \cup {<<o, i>>}
    /\ \/ accepted' = accepted
       \/ accepted' = accepted \cup {<<o, i>>}

LEMMA JournalSteps ==
    ASSUME TypeOK, [Next]_vars
    PROVE  \/ UNCHANGED journal
           \/ todo' = todo /\ \E o \in Ops, i \in Requests \cup {None} : Adds(o, i)
<1>1. CASE UNCHANGED vars
  BY <1>1 DEF vars
<1>2. ASSUME NEW o \in Ops, Status(o) \/ Reconcile(o)
      PROVE  UNCHANGED journal \/ (todo' = todo /\ Adds(o, acceptedAt[o]))
  BY <1>2 DEF Status, Reconcile, WriteAccepted, Adds, recovery
<1>3. ASSUME NEW r \in Requests, Prepare(r)
      PROVE  todo' = todo /\ Adds(target[r], r)
  BY <1>3 DEF Prepare, Adds, recovery
<1>4. ASSUME NEW r \in Requests, Confirm(r)
      PROVE  UNCHANGED journal \/ (todo' = todo /\ Adds(target[r], acceptedAt[target[r]]))
  BY <1>4 DEF Confirm, WriteAccepted, Adds, recovery
<1>5. ASSUME NEW r \in Requests, Prepare(r) \/ Confirm(r)
      PROVE  target[r] \in Ops
  BY <1>5 DEF Prepare, Confirm, TypeOK
<1>6. \A o \in Ops : acceptedAt[o] \in Requests \cup {None}
  BY DEF TypeOK
<1>7. ASSUME NEW o \in Ops, Verify(o) \/ Forget(o) \/ DeleteUser(o) \/ Complete(o)
      PROVE  UNCHANGED journal
  BY <1>7 DEF Verify, Forget, DeleteUser, Complete
<1>8. ASSUME NEW r \in Requests,
             \/ \E o \in Ops : Begin(r, o)
             \/ LockAccount(r) \/ Fail(r)
             \/ \E heard \in BOOLEAN : Commit(r, heard)
      PROVE  UNCHANGED journal
  BY <1>8 DEF Begin, LockAccount, Commit, Fail
<1>9. ASSUME NEW a \in Users, NEW t \in Users,
             \/ Admit(a) \/ Bootstrap(a) \/ Block(a, t) \/ Unblock(a, t)
             \/ DeleteAdminUser(a, t) \/ Promote(a, t) \/ Demote(a, t)
      PROVE  UNCHANGED journal
  BY <1>9 DEF Admit, Bootstrap, Block, Unblock, DeleteAdminUser, Promote, Demote, Acts
<1>10. ASSUME TakeBackup \/ Restore \/ ReadJournal \/ FailReapply \/ Reopen
              \/ \E e \in todo : Reapply(e)
       PROVE  UNCHANGED journal
  BY <1>10 DEF TakeBackup, Restore, ReadJournal, FailReapply, Reopen, Reapply
<1>11. CASE OperationStep
  BY <1>11, <1>2, <1>6, <1>7 DEF OperationStep
<1>12. CASE RequestStep
  BY <1>12, <1>3, <1>4, <1>5, <1>6, <1>8 DEF RequestStep
<1>13. CASE AdministratorStep
  BY <1>13, <1>9 DEF AdministratorStep
<1>14. CASE RecoveryStep
  BY <1>14, <1>10 DEF RecoveryStep
<1> QED BY <1>1, <1>11, <1>12, <1>13, <1>14 DEF Next

LEMMA JournalGrows ==
    ASSUME TypeOK, [Next]_vars
    PROVE  prepared \subseteq prepared' /\ accepted \subseteq accepted'
BY JournalSteps DEF journal, Adds

LEMMA EntriesStep ==
    ASSUME TypeOK, EntriesAgree, [Next]_vars
    PROVE  EntriesAgree'
<1>1. CASE UNCHANGED journal
  <2>1. todo' \subseteq accepted
    <3>1. todo' \subseteq todo \/ todo' = accepted
      BY DEF Next, OperationStep, RequestStep, AdministratorStep, RecoveryStep, vars, Verify,
             Forget, Status, DeleteUser, Complete, Reconcile, Begin, LockAccount, Prepare, Commit,
             Confirm, Fail, Admit, Bootstrap, Acts, Block, Unblock, DeleteAdminUser,
             Promote, Demote, TakeBackup, Restore, ReadJournal, FailReapply, Reopen, Reapply,
             recovery
    <3> QED BY <3>1 DEF EntriesAgree
  <2> QED BY <1>1, <2>1 DEF EntriesAgree, Entries, journal
<1>2. ASSUME NEW o \in Ops, NEW i \in Requests \cup {None}, Adds(o, i), todo' = todo
      PROVE  EntriesAgree'
  <2>1. Entries' = Entries \cup {<<o, i>>}
    BY <1>2 DEF Adds, Entries, EntriesAgree
  <2>2. \A e \in Entries : e[1] = o => e[2] = i
    BY <1>2 DEF Adds, CanPrepare
  <2>3. \A e, f \in Entries' : e[1] = f[1] => e[2] = f[2]
    BY <2>1, <2>2 DEF EntriesAgree
  <2>4. accepted' \subseteq prepared' /\ todo' \subseteq accepted'
    BY <1>2 DEF Adds, EntriesAgree
  <2> QED BY <2>3, <2>4 DEF EntriesAgree
<1> QED BY <1>1, <1>2, JournalSteps

-----------------------------------------------------------------------------
(* Nothing is accepted that the journal was not told of before.            *)

LEMMA PreparedStep ==
    ASSUME TypeOK, EntriesAgree, PreparedFirst, [Next]_vars
    PROVE  PreparedFirst'
<1> SUFFICES ASSUME UseJournal PROVE PreparedFirst'
  BY DEF PreparedFirst
<1>0. prepared \subseteq prepared'
  BY JournalGrows
<1>a. /\ \A r \in Requests : pc[r] = "commit"  => <<target[r], r>> \in prepared
      /\ \A r \in Requests : pc[r] = "confirm" => Recorded(target[r])
      /\ \A o \in Ops : Recorded(o) => <<o, acceptedAt[o]>> \in prepared
      /\ \A o \in Ops : backup.state[o] \in {"accepted", "completed"}
                           => <<o, backup.acceptedAt[o]>> \in prepared
      /\ \A o \in committed : \E e \in prepared : e[1] = o
  BY DEF PreparedFirst
<1> USE DEF Recorded
<1>1. CASE UNCHANGED vars
  BY <1>1, <1>a DEF PreparedFirst, vars, rows, journal, requests, recovery, history
<1>2. CASE OperationStep
  <2> PICK o \in Ops : \/ Verify(o) \/ Forget(o) \/ Status(o)
                       \/ DeleteUser(o) \/ Complete(o) \/ Reconcile(o)
    BY <1>2 DEF OperationStep
  <2>1. /\ UNCHANGED <<acceptedAt, pc, target, backup, committed>>
        /\ \A p \in Ops : Recorded(p)' <=> Recorded(p)
    <3>1. CASE Verify(o)
      BY <3>1 DEF Verify, TypeOK, requests, recovery, history
    <3>2. CASE Forget(o)
      BY <3>2 DEF Forget, TypeOK, requests, recovery, history
    <3>3. CASE Complete(o)
      BY <3>3 DEF Complete, TypeOK, requests, recovery, history
    <3>4. CASE Status(o) \/ Reconcile(o) \/ DeleteUser(o)
      BY <3>4 DEF Status, Reconcile, DeleteUser, rows, requests, recovery, history
    <3> QED BY <3>1, <3>2, <3>3, <3>4
  <2>2. \A r \in Requests : pc[r] = "confirm" => target[r] \in Ops
    BY DEF TypeOK
  <2> HIDE DEF Recorded
  <2> QED BY <1>0, <1>a, <2>1, <2>2 DEF PreparedFirst
<1>3. CASE RequestStep
  <2> PICK r \in Requests : \/ \E o \in Ops : Begin(r, o)
                            \/ LockAccount(r) \/ Prepare(r) \/ Confirm(r) \/ Fail(r)
                            \/ \E heard \in BOOLEAN : Commit(r, heard)
    BY <1>3 DEF RequestStep
  <2>0. target[r] \in Ops \/ \E o \in Ops : Begin(r, o)
    BY DEF TypeOK, LockAccount, Prepare, Confirm, Fail, Commit
  <2>1. CASE \E o \in Ops : Begin(r, o)
    <3> PICK o \in Ops : Begin(r, o)
      BY <2>1
    <3>1. UNCHANGED <<state, acceptedAt, prepared, backup, committed>>
      BY DEF Begin, rows, journal, recovery, history
    <3>2. /\ pc' = [pc EXCEPT ![r] = IF state[o] = "not_started" THEN "account" ELSE "confirm"]
          /\ target' = [target EXCEPT ![r] = o]
          /\ state[o] # "none"
      BY DEF Begin
    <3> QED BY <1>a, <3>1, <3>2 DEF PreparedFirst, TypeOK
  <2>2. CASE LockAccount(r) \/ Confirm(r) \/ Fail(r)
    <3>1. /\ UNCHANGED <<state, acceptedAt, target, backup, committed>>
          /\ \A s \in Requests : pc'[s] = pc[s] \/ pc'[s] \in {"prepare", "done"}
      BY <2>2 DEF LockAccount, Confirm, Fail, TypeOK, rows, recovery, history
    <3> QED BY <1>0, <1>a, <3>1 DEF PreparedFirst
  <2>3. CASE Prepare(r)
    BY <2>0, <2>3, <1>a DEF Prepare, PreparedFirst, TypeOK, rows, recovery, history
  <2>4. CASE \E heard \in BOOLEAN : Commit(r, heard)
    <3> PICK heard \in BOOLEAN : Commit(r, heard)
      BY <2>4
    <3>1. target[r] \in Ops /\ <<target[r], r>> \in prepared
      BY <2>0, <1>a DEF Commit, Begin
    <3>2. UNCHANGED <<prepared, target, backup>>
      BY DEF Commit, journal, recovery
    <3>3. /\ state' = [state EXCEPT ![target[r]] = "accepted"]
          /\ acceptedAt' = [acceptedAt EXCEPT ![target[r]] = r]
          /\ committed' = committed \cup {target[r]}
          /\ pc[r] = "commit"
          /\ pc' = [pc EXCEPT ![r] = IF heard THEN "confirm" ELSE "done"]
      BY DEF Commit
    <3>4. \A s \in Requests : pc[s] \in {"commit", "confirm"} => target[s] \in Ops
      BY DEF TypeOK
    <3> QED BY <1>a, <3>1, <3>2, <3>3, <3>4 DEF PreparedFirst, TypeOK
  <2> QED BY <2>1, <2>2, <2>3, <2>4
<1>4. CASE AdministratorStep
  <2>1. UNCHANGED <<state, acceptedAt, pc, target, backup, committed>>
    BY <1>4 DEF AdministratorStep, Admit, Bootstrap, Acts, Block, Unblock, DeleteAdminUser,
                Promote, Demote, rows, requests, recovery, history
  <2> QED BY <1>0, <1>a, <2>1 DEF PreparedFirst
<1>5. CASE RecoveryStep
  <2>1. CASE TakeBackup
    BY <2>1, <1>a DEF TakeBackup, Database, PreparedFirst, rows, journal, requests, history
  <2>2. CASE Restore
    BY <2>2, <1>a DEF Restore, PreparedFirst, journal, history
  <2>3. CASE ReadJournal \/ FailReapply \/ Reopen
    BY <2>3, <1>a DEF ReadJournal, FailReapply, Reopen, PreparedFirst, rows, journal, requests,
                      history
  <2>4. CASE \E e \in todo : Reapply(e)
    <3> PICK e \in todo : Reapply(e)
      BY <2>4
    <3>1. e \in prepared /\ e = <<e[1], e[2]>> /\ e[1] \in Ops
      BY DEF EntriesAgree, TypeOK
    <3>2. UNCHANGED <<prepared, pc, target, backup, committed>>
      BY DEF Reapply, journal, requests, history
    <3>3. CASE UNCHANGED <<status, state, acceptedAt>>
      BY <1>a, <3>2, <3>3 DEF PreparedFirst
    <3>4. CASE /\ state' = [state EXCEPT ![e[1]] = "accepted"]
               /\ acceptedAt' = [acceptedAt EXCEPT ![e[1]] = e[2]]
      <4>1. \A s \in Requests : pc[s] \in {"commit", "confirm"} => target[s] \in Ops
        BY DEF TypeOK
      <4> QED BY <1>a, <3>1, <3>2, <3>4, <4>1 DEF PreparedFirst, TypeOK
    <3> QED BY <3>3, <3>4 DEF Reapply
  <2> QED BY <1>5, <2>1, <2>2, <2>3, <2>4 DEF RecoveryStep
<1> QED BY <1>1, <1>2, <1>3, <1>4, <1>5 DEF Next

-----------------------------------------------------------------------------
(* Acceptances and closed accounts last, but for the loss of the database. *)

LEMMA Lasting ==
    ASSUME TypeOK, [Next]_vars, ~Restore
    PROVE  /\ \A o \in Ops : Recorded(o) => Recorded(o)'
           /\ \A u \in Users : Closed(u) => Closed(u)'
<1> USE DEF TypeOK, Recorded, Closed
<1>1. CASE UNCHANGED vars
  BY <1>1 DEF vars, rows
<1>2. CASE OperationStep
  <2> PICK o \in Ops : \/ Verify(o) \/ Forget(o) \/ Status(o)
                       \/ DeleteUser(o) \/ Complete(o) \/ Reconcile(o)
    BY <1>2 DEF OperationStep
  <2>1. CASE Verify(o)
    BY <2>1 DEF Verify
  <2>2. CASE Forget(o)
    BY <2>2 DEF Forget
  <2>3. CASE DeleteUser(o) \/ Complete(o)
    BY <2>3 DEF DeleteUser, Complete
  <2>4. CASE Status(o) \/ Reconcile(o)
    BY <2>4 DEF Status, Reconcile, rows
  <2> QED BY <2>1, <2>2, <2>3, <2>4
<1>3. CASE RequestStep
  <2> PICK r \in Requests : \/ \E o \in Ops : Begin(r, o)
                            \/ LockAccount(r) \/ Prepare(r) \/ Confirm(r) \/ Fail(r)
                            \/ \E heard \in BOOLEAN : Commit(r, heard)
    BY <1>3 DEF RequestStep
  <2>1. CASE \E heard \in BOOLEAN : Commit(r, heard)
    BY <2>1 DEF Commit
  <2>2. CASE ~\E heard \in BOOLEAN : Commit(r, heard)
    BY <2>2 DEF Begin, LockAccount, Prepare, Confirm, Fail, rows
  <2> QED BY <2>1, <2>2
<1>4. CASE AdministratorStep
  <2> PICK a \in Users, t \in Users :
            \/ Admit(a) \/ Bootstrap(a) \/ Block(a, t) \/ Unblock(a, t)
            \/ DeleteAdminUser(a, t) \/ Promote(a, t) \/ Demote(a, t)
    BY <1>4 DEF AdministratorStep
  <2> QED BY DEF Admit, Bootstrap, Acts, Block, Unblock, DeleteAdminUser, Promote, Demote, rows
<1>5. CASE RecoveryStep
  <2>1. CASE \E e \in todo : Reapply(e)
    BY <2>1 DEF Reapply
  <2>2. CASE TakeBackup \/ ReadJournal \/ FailReapply \/ Reopen
    BY <2>2 DEF TakeBackup, ReadJournal, FailReapply, Reopen, rows
  <2> QED BY <1>5, <2>1, <2>2 DEF RecoveryStep
<1> QED BY <1>1, <1>2, <1>3, <1>4, <1>5 DEF Next

LEMMA ClosuresStep ==
    ASSUME TypeOK, EntriesAgree, PreparedFirst, ClosuresKept, [Next]_vars
    PROVE  ClosuresKept'
<1> SUFFICES ASSUME UseJournal PROVE ClosuresKept'
  BY DEF ClosuresKept
<1> DEFINE Kept(o) == Recorded(o) /\ Closed(UserOf[o])
<1>a. \A o \in committed : o \in Ops /\ UserOf[o] \in Users
  BY DEF TypeOK
<1>b. \A o \in committed : \/ phase = "restoring"
                           \/ phase = "reapplying" /\ \E e \in todo : e[1] = o
                           \/ Kept(o)
  BY DEF ClosuresKept
<1>c. ~Restore => \A o \in committed : Kept(o) => Kept(o)'
  BY <1>a, Lasting
<1>1. ASSUME UNCHANGED <<phase, todo, committed>>, ~Restore
      PROVE  ClosuresKept'
  BY <1>1, <1>b, <1>c DEF ClosuresKept
<1>2. CASE UNCHANGED vars
  <2>1. UNCHANGED <<phase, todo, committed, status, state>>
    BY <1>2 DEF vars, recovery, history, rows
  <2> QED BY <2>1, <1>b DEF ClosuresKept, Recorded, Closed
<1>3. CASE OperationStep \/ AdministratorStep
  <2>1. UNCHANGED <<phase, todo, committed, restores>>
    BY <1>3 DEF OperationStep, Verify, Forget, Status, DeleteUser, Complete, Reconcile,
                AdministratorStep, Admit, Bootstrap, Acts, Block, Unblock, DeleteAdminUser,
                Promote, Demote, recovery, history
  <2>2. ~Restore
    BY <2>1 DEF Restore, TypeOK
  <2> QED BY <1>1, <2>1, <2>2
<1>4. CASE RequestStep
  <2> PICK r \in Requests : \/ \E o \in Ops : Begin(r, o)
                            \/ LockAccount(r) \/ Prepare(r) \/ Confirm(r) \/ Fail(r)
                            \/ \E heard \in BOOLEAN : Commit(r, heard)
    BY <1>4 DEF RequestStep
  <2>1. UNCHANGED <<phase, todo, restores>>
    BY DEF Begin, LockAccount, Prepare, Confirm, Fail, Commit, recovery
  <2>2. ~Restore
    BY <2>1 DEF Restore, TypeOK
  <2>3. CASE \E heard \in BOOLEAN : Commit(r, heard)
    <3> PICK o \in Ops : o = target[r]
      BY <2>3 DEF Commit, TypeOK
    <3>1. /\ committed' = committed \cup {o}
          /\ state' = [state EXCEPT ![o] = "accepted"]
          /\ status' = [status EXCEPT ![UserOf[o]] = "deleted"]
      BY <2>3 DEF Commit
    <3>2. Kept(o)'
      BY <3>1 DEF TypeOK, Recorded, Closed
    <3> HIDE DEF Kept
    <3>3. \A q \in committed' : \/ phase' = "restoring"
                                \/ phase' = "reapplying" /\ \E e \in todo' : e[1] = q
                                \/ Kept(q)'
      BY <1>b, <1>c, <2>1, <2>2, <3>1, <3>2
    <3> QED BY <3>3 DEF ClosuresKept, Kept
  <2>4. CASE ~\E heard \in BOOLEAN : Commit(r, heard)
    <3>1. UNCHANGED committed
      BY <2>4 DEF Begin, LockAccount, Prepare, Confirm, Fail, history
    <3> QED BY <1>1, <2>1, <2>2, <3>1
  <2> QED BY <2>3, <2>4
<1>5. CASE TakeBackup
  BY <1>5, <1>b DEF TakeBackup, ClosuresKept, Recorded, Closed, rows, history
<1>6. CASE Restore
  BY <1>6 DEF Restore, ClosuresKept
<1>7. CASE ReadJournal
  <2>1. \A o \in committed : \E e \in accepted : e[1] = o
    BY <1>7 DEF ReadJournal, ReadsAll, PreparedFirst
  <2> QED BY <1>7, <2>1 DEF ReadJournal, ClosuresKept, history
<1>8. CASE FailReapply
  BY <1>8 DEF FailReapply, ClosuresKept
<1>9. CASE Reopen
  BY <1>9, <1>b DEF Reopen, ClosuresKept, Recorded, Closed, rows, history
<1>10. CASE \E e \in todo : Reapply(e)
  <2> PICK e \in todo : Reapply(e)
    BY <1>10
  <2>1. /\ phase = "reapplying" /\ todo' = todo \ {e}
        /\ UNCHANGED <<phase, committed, restores>>
    BY DEF Reapply, history
  <2>2. ~Restore
    BY <2>1 DEF Restore, TypeOK
  <2>3. e[1] \in Ops /\ UserOf[e[1]] \in Users
    BY DEF TypeOK
  <2>4. Kept(e[1])'
    BY <2>3 DEF Reapply, Exists, Recorded, Closed, TypeOK
  <2> HIDE DEF Kept
  <2>5. \A o \in committed' : (\E f \in todo' : f[1] = o) \/ Kept(o)'
    BY <1>b, <1>c, <2>1, <2>2, <2>4
  <2> QED BY <2>1, <2>5 DEF ClosuresKept, Kept
<1> QED BY <1>2, <1>3, <1>4, <1>5, <1>6, <1>7, <1>8, <1>9, <1>10 DEF Next, RecoveryStep

-----------------------------------------------------------------------------
(* One account is closed at a time, and another superadmin stays.          *)

\* A request comes to hold its account only by LockAccount.
LEMMA ClosingStep ==
    ASSUME TypeOK, [Next]_vars, NEW s \in Closing'
    PROVE  (s \in Closing /\ target'[s] = target[s]) \/ LockAccount(s)
<1> USE DEF Closing
<1>1. CASE UNCHANGED <<pc, target>>
  BY <1>1
<1>2. CASE RequestStep
  <2> PICK r \in Requests : \/ \E o \in Ops : Begin(r, o)
                            \/ LockAccount(r) \/ Prepare(r) \/ Confirm(r) \/ Fail(r)
                            \/ \E heard \in BOOLEAN : Commit(r, heard)
    BY <1>2 DEF RequestStep
  <2>1. CASE \E o \in Ops : Begin(r, o)
    BY <2>1 DEF Begin, TypeOK
  <2>2. CASE LockAccount(r)
    BY <2>2 DEF LockAccount, TypeOK
  <2>3. CASE Prepare(r) \/ Confirm(r) \/ Fail(r) \/ \E heard \in BOOLEAN : Commit(r, heard)
    BY <2>3 DEF Prepare, Confirm, Fail, Commit, TypeOK
  <2> QED BY <2>1, <2>2, <2>3
<1>3. CASE Restore
  BY <1>3 DEF Restore
<1>4. CASE OperationStep \/ AdministratorStep \/ (RecoveryStep /\ ~Restore)
  <2>1. UNCHANGED <<pc, target>>
    BY <1>4 DEF OperationStep, Verify, Forget, Status, DeleteUser, Complete, Reconcile,
                AdministratorStep, Admit, Bootstrap, Acts, Block, Unblock, DeleteAdminUser, Promote,
                Demote,
                RecoveryStep, TakeBackup, ReadJournal, FailReapply, Reopen, Reapply, requests
  <2> QED BY <1>1, <2>1
<1> QED BY <1>1, <1>2, <1>3, <1>4 DEF Next, vars, requests

LEMMA OneClosesStep ==
    ASSUME TypeOK, OneCloses, [Next]_vars
    PROVE  OneCloses'
<1> SUFFICES ASSUME NEW r \in Closing', NEW s \in Closing' PROVE r = s
  BY DEF OneCloses
<1>1. CASE r \in Closing /\ s \in Closing
  BY <1>1 DEF OneCloses
<1>2. CASE LockAccount(r) /\ LockAccount(s)
  BY <1>2 DEF LockAccount, TypeOK, Closing
<1>3. LockAccount(r) \/ LockAccount(s) => Closing = {}
  BY DEF LockAccount, MutexFree
<1> QED BY <1>1, <1>2, <1>3, ClosingStep

\* What the guard of the last superadmin buys.
LEMMA AnotherCounted ==
    ASSUME Cardinality(CountedSuperadmins) > 1, NEW t
    PROVE  \E v \in superadmins : v # t /\ ~Closed(v)
<1> SUFFICES ASSUME \A v \in superadmins : v = t \/ Closed(v) PROVE FALSE
  OBVIOUS
<1>1. CountedSuperadmins \subseteq {t}
  BY DEF CountedSuperadmins
<1>2. IsFiniteSet({t}) /\ Cardinality({t}) = 1
  BY FS_Singleton
<1>3. Cardinality(CountedSuperadmins) \in Nat /\ Cardinality(CountedSuperadmins) <= 1
  BY <1>1, <1>2, FS_Subset, FS_CardinalityType
<1> QED BY <1>3

LEMMA OthersRemainStep ==
    ASSUME TypeOK, OneCloses, OthersRemain, [Next]_vars
    PROVE  OthersRemain'
<1> SUFFICES ASSUME restores' = 0 PROVE OthersRemain'
  BY DEF OthersRemain
<1>0. ~Restore
  BY DEF Restore, TypeOK
<1>1. restores' = restores
  BY <1>0 DEF Next, vars, OperationStep, Verify, Forget, Status, DeleteUser, Complete, Reconcile,
              RequestStep, Begin, LockAccount, Prepare, Commit, Confirm, Fail,
              AdministratorStep, Admit, Bootstrap, Acts, Block, Unblock, DeleteAdminUser,
              Promote, Demote, RecoveryStep, TakeBackup, ReadJournal, FailReapply, Reopen,
              Reapply, recovery
<1>2. /\ phase = "open"
      /\ \A o \in Ops : Recorded(o) => Closed(UserOf[o])
      /\ \E u \in Users : Remains(u)
  BY <1>1 DEF OthersRemain
<1>3. phase' = "open"
  BY <1>0, <1>2 DEF Next, vars, OperationStep, Verify, Forget, Status, DeleteUser, Complete,
              Reconcile,
              RequestStep, Begin, LockAccount, Prepare, Commit, Confirm, Fail,
              AdministratorStep, Admit, Bootstrap, Acts, Block, Unblock, DeleteAdminUser,
              Promote, Demote, RecoveryStep, TakeBackup, ReadJournal, FailReapply, Reopen,
              Reapply, recovery
<1>4. \A p \in Ops : Recorded(p)' => Recorded(p) \/ Closed(UserOf[p])'
  <2>1. CASE UNCHANGED state
    BY <2>1 DEF Recorded
  <2>2. ASSUME NEW o \in Ops, Verify(o) \/ Forget(o) \/ Complete(o)
        PROVE  \A p \in Ops : Recorded(p)' => Recorded(p)
    BY <2>2 DEF Verify, Forget, Complete, Recorded, TypeOK
  <2>3. ASSUME NEW r \in Requests, NEW heard \in BOOLEAN, Commit(r, heard)
        PROVE  \A p \in Ops : Recorded(p)' => Recorded(p) \/ Closed(UserOf[p])'
    <3> PICK o \in Ops : o = target[r]
      BY <2>3 DEF Commit, TypeOK
    <3> QED BY <2>3 DEF Commit, Closed, Recorded, TypeOK
  <2>4. \/ UNCHANGED state
        \/ \E o \in Ops : Verify(o) \/ Forget(o) \/ Complete(o)
        \/ \E r \in Requests, heard \in BOOLEAN : Commit(r, heard)
    BY <1>0, <1>2 DEF Next, vars, OperationStep, Status, DeleteUser, Reconcile,
                RequestStep, Begin, LockAccount, Prepare, Confirm, Fail,
                AdministratorStep, Admit, Bootstrap, Acts, Block, Unblock, DeleteAdminUser,
                Promote, Demote, RecoveryStep, TakeBackup, ReadJournal, FailReapply, Reopen,
                Reapply, rows
  <2> QED BY <2>1, <2>2, <2>3, <2>4
<1>5. \A p \in Ops : Recorded(p)' => Closed(UserOf[p])'
  BY <1>0, <1>2, <1>4, Lasting
<1>6. PICK u \in Users : Remains(u)
  BY <1>2
<1>7. ASSUME NEW v \in Users, v \in superadmins', ~Closed(v)',
             \A s \in Closing' : UserOf[target'[s]] # v
      PROVE  OthersRemain'
  BY <1>3, <1>5, <1>7 DEF OthersRemain, Remains, RowFree
<1>8. ASSUME NEW r \in Requests, LockAccount(r)
      PROVE  OthersRemain'
  <2>1. /\ Closing' = {r}
        /\ UNCHANGED <<superadmins, status, target>>
    BY <1>8 DEF LockAccount, MutexFree, Closing, TypeOK, rows
  <2>2. PICK v \in superadmins : v # UserOf[target[r]] /\ ~Closed(v)
    BY <1>6, <1>8, AnotherCounted DEF LockAccount, Remains
  <2>3. v \in Users
    BY DEF TypeOK
  <2> QED BY <1>7, <2>1, <2>2, <2>3 DEF Closed
<1>9. SUFFICES ASSUME \A r \in Requests : ~LockAccount(r)
               PROVE  OthersRemain'
  BY <1>8
<1>10. ASSUME NEW v \in Users, RowFree(v)
       PROVE  \A s \in Closing' : UserOf[target'[s]] # v
  BY <1>9, <1>10, ClosingStep DEF RowFree, Closing
<1>11. ASSUME NEW v \in Users, MutexFree
       PROVE  RowFree(v)
  BY <1>11 DEF MutexFree, RowFree
<1>12. ASSUME NEW t, Cardinality(CountedSuperadmins) > 1, MutexFree,
              \A v \in superadmins : v # t /\ ~Closed(v) => v \in superadmins' /\ ~Closed(v)'
       PROVE  OthersRemain'
  <2>1. PICK v \in superadmins : v # t /\ ~Closed(v)
    BY <1>12, AnotherCounted
  <2>2. v \in Users
    BY DEF TypeOK
  <2> QED BY <1>7, <1>10, <1>11, <1>12, <2>1, <2>2
<1>13. ASSUME u \in superadmins', ~Closed(u)'
       PROVE  OthersRemain'
  BY <1>6, <1>7, <1>10, <1>13 DEF Remains
<1>14. CASE UNCHANGED <<superadmins, status>>
  BY <1>6, <1>13, <1>14 DEF Remains, Closed
<1>15. CASE OperationStep
  <2> PICK o \in Ops : \/ Verify(o) \/ Forget(o) \/ Status(o)
                       \/ DeleteUser(o) \/ Complete(o) \/ Reconcile(o)
    BY <1>15 DEF OperationStep
  <2>1. CASE DeleteUser(o)
    <3>1. u # UserOf[o]
      BY <1>2, <1>6, <2>1 DEF DeleteUser, Recorded, Remains
    <3> QED BY <1>6, <1>13, <2>1, <3>1 DEF DeleteUser, Remains, Closed, TypeOK
  <2>2. CASE ~DeleteUser(o)
    BY <1>14, <2>2 DEF Verify, Forget, Status, Complete, Reconcile, rows
  <2> QED BY <2>1, <2>2
<1>16. CASE RequestStep
  <2> PICK r \in Requests : \/ \E o \in Ops : Begin(r, o)
                            \/ LockAccount(r) \/ Prepare(r) \/ Confirm(r) \/ Fail(r)
                            \/ \E heard \in BOOLEAN : Commit(r, heard)
    BY <1>16 DEF RequestStep
  <2>1. CASE \E heard \in BOOLEAN : Commit(r, heard)
    <3>1. u # UserOf[target[r]]
      BY <1>6, <2>1 DEF Commit, Closing, Remains, RowFree
    <3> QED BY <1>6, <1>13, <2>1, <3>1 DEF Commit, Remains, Closed, TypeOK
  <2>2. CASE ~\E heard \in BOOLEAN : Commit(r, heard)
    BY <1>9, <1>14, <2>2 DEF Begin, Prepare, Confirm, Fail, rows
  <2> QED BY <2>1, <2>2
<1>17. CASE AdministratorStep
  <2> PICK a \in Users, t \in Users :
            \/ Admit(a) \/ Bootstrap(a) \/ Block(a, t) \/ Unblock(a, t)
            \/ DeleteAdminUser(a, t) \/ Promote(a, t) \/ Demote(a, t)
    BY <1>17 DEF AdministratorStep
  <2>1. CASE Admit(a)
    BY <1>14, <2>1 DEF Admit, rows
  <2>2. CASE Bootstrap(a) \/ Promote(a, t)
    BY <1>6, <1>13, <2>2 DEF Bootstrap, Promote, Remains, Closed
  <2>3. CASE Block(a, t) \/ Unblock(a, t)
    BY <1>6, <1>13, <2>3 DEF Block, Unblock, Remains, Closed, TypeOK
  <2>4. CASE DeleteAdminUser(a, t)
    <3>1. CASE t \in superadmins
      BY <1>12, <2>4, <3>1 DEF DeleteAdminUser, Closed, TypeOK
    <3>2. CASE t \notin superadmins
      BY <1>6, <1>13, <2>4, <3>2 DEF DeleteAdminUser, Remains, Closed, TypeOK
    <3> QED BY <3>1, <3>2
  <2>5. CASE Demote(a, t)
    BY <1>12, <2>5 DEF Demote, Closed
  <2> QED BY <2>1, <2>2, <2>3, <2>4, <2>5
<1>18. CASE RecoveryStep
  BY <1>0, <1>2, <1>14, <1>18 DEF RecoveryStep, TakeBackup, ReadJournal, FailReapply, Reopen,
                                  Reapply, rows
<1> QED BY <1>14, <1>15, <1>16, <1>17, <1>18 DEF Next, vars, rows

-----------------------------------------------------------------------------
(* What a client was told.                                                 *)

LEMMA ConfirmedStep ==
    ASSUME TypeOK, ConfirmedIsJournaled, [Next]_vars
    PROVE  ConfirmedIsJournaled'
<1> SUFFICES ASSUME UseJournal PROVE ConfirmedIsJournaled'
  BY DEF ConfirmedIsJournaled
<1> DEFINE InJournal(o) == \E a \in accepted : a[1] = o /\ a \in prepared
<1>1. \A o \in confirmed : InJournal(o)'
  BY JournalGrows DEF ConfirmedIsJournaled
<1>2. ASSUME NEW o, WriteAccepted(o)
      PROVE  InJournal(o)'
  BY <1>2 DEF WriteAccepted
<1>3. \/ UNCHANGED confirmed
      \/ \E o \in Ops : confirmed' = confirmed \cup {o} /\ WriteAccepted(o)
      \/ \E r \in Requests : confirmed' = confirmed \cup {target[r]} /\ WriteAccepted(target[r])
  BY DEF Next, vars, OperationStep, Verify, Forget, Status, DeleteUser, Complete, Reconcile,
         RequestStep, Begin, LockAccount, Prepare, Commit, Confirm, Fail,
         AdministratorStep, Admit, Bootstrap, Acts, Block, Unblock, DeleteAdminUser,
         Promote, Demote, RecoveryStep, TakeBackup, Restore, ReadJournal, FailReapply, Reopen,
         Reapply, history
<1>4. \A o \in confirmed' : InJournal(o)'
  <2> HIDE DEF InJournal
  <2> QED BY <1>1, <1>2, <1>3
<1> QED BY <1>4 DEF ConfirmedIsJournaled

-----------------------------------------------------------------------------
(* The theorems.                                                           *)

LEMMA Initially == Init => IndInv
<1> SUFFICES ASSUME Init PROVE IndInv
  OBVIOUS
<1>1. TypeOK
  BY TypeInit
<1>2. EntriesAgree
  BY DEF Init, EntriesAgree, Entries
<1>3. PreparedFirst
  BY DEF Init, PreparedFirst, Recorded, Database
<1>4. ClosuresKept /\ ConfirmedIsJournaled
  BY DEF Init, ClosuresKept, ConfirmedIsJournaled
<1>5. Closing = {}
  BY DEF Init, Closing
<1>6. OneCloses
  BY <1>5 DEF OneCloses
<1>7. OthersRemain
  BY <1>5 DEF Init, OthersRemain, Recorded, Remains, Closed, RowFree
<1> QED BY <1>1, <1>2, <1>3, <1>4, <1>6, <1>7 DEF IndInv

\* The journal and the database, requests, administrators and restores keep IndInv.
THEOREM Invariant == Spec => []IndInv
<1>1. ASSUME IndInv, [Next]_vars PROVE IndInv'
  BY <1>1, TypeStep, EntriesStep, PreparedStep, ClosuresStep, OneClosesStep,
     OthersRemainStep, ConfirmedStep DEF IndInv
<1> QED BY <1>1, Initially, PTL DEF Spec

\* After the loss of the database no accepted deletion is forgotten, however old the
\* backup was, once there is traffic again (restore.ts, acceptance-protocol.ts).
THEOREM AcceptanceSurvives == Spec => []ClosureSurvives
<1>1. IndInv => ClosureSurvives
  BY DEF IndInv, ClosuresKept, ClosureSurvives
<1> QED BY <1>1, Invariant, PTL

\* No client gets 202 for a deletion that the journal does not hold (acceptAccountDeletion).
THEOREM NoFalseAnswer == Spec => []ConfirmedIsJournaled
<1>1. IndInv => ConfirmedIsJournaled
  BY DEF IndInv
<1> QED BY <1>1, Invariant, PTL

\* The journal can always be read and never contradicts the database
\* (readInventory, reconcileAccountDeletionJournal).
THEOREM StoresAgree == Spec => []JournalAgrees
<1>1. ASSUME IndInv PROVE JournalAgrees
  <2>1. InventorySound
    BY <1>1 DEF IndInv, EntriesAgree, InventorySound, Entries
  <2>2. ASSUME UseJournal, NEW o \in Ops, Recorded(o), NEW e \in Entries, e[1] = o
        PROVE  e[2] = acceptedAt[o]
    <3>1. <<o, acceptedAt[o]>> \in Entries
      BY <1>1, <2>2 DEF IndInv, PreparedFirst, Entries
    <3> QED BY <1>1, <2>2, <3>1 DEF IndInv, EntriesAgree
  <2> QED BY <2>1, <2>2 DEF JournalAgrees
<1> QED BY <1>1, Invariant, PTL

\* As long as no backup is restored, deletions and role changes leave one superadmin that is
\* not deleted (lockSuperadminMutation and the two counts under it).
THEOREM OneSuperadminStays == Spec => []SomeSuperadmin
<1>1. IndInv => SomeSuperadmin
  BY DEF IndInv, OthersRemain, Remains, SomeSuperadmin
<1> QED BY <1>1, Invariant, PTL
=============================================================================
