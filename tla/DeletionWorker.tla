--------------------------- MODULE DeletionWorker ---------------------------
(***************************************************************************)
(* The durable worker of account deletion:                                 *)
(*   services/api/src/modules/account-deletion/account-deletion.worker.ts  *)
(* with the accepting UPDATE of account-deletion.repository.ts, the gate   *)
(* of account-deletion.completion.ts and the loop of                       *)
(* jobs/run-account-deletion-worker.ts.                                    *)
(*                                                                         *)
(* Several worker processes share the rows of account_deletion_operations  *)
(* and account_deletion_steps.  A worker claims a batch of operations      *)
(* under a lease, then drives every claimed operation through its ordered  *)
(* steps, one handler call at a time.  Every database statement is one     *)
(* action, so a crash, a stolen lease or another worker's statement can    *)
(* fall between any two of them.                                           *)
(*                                                                         *)
(* Time is abstracted to what the statements compare: a lease is live or   *)
(* expired, an operation is due (available_at <= now) or not.  The test    *)
(* "lease_until > $4" of the fenced statements is dropped: $4 is the       *)
(* instant of the claim, so it holds for whoever still owns the lease.     *)
(*                                                                         *)
(* Left out: an upload that fails after the account was closed sets the    *)
(* media and completion steps back to pending, from outside the worker     *)
(* (poll-images.service.ts).  AccountMedia has that, with its own worker.  *)
(***************************************************************************)
EXTENDS Naturals, FiniteSets

CONSTANTS
    Ops,         \* accepted deletion requests (rows of account_deletion_operations)
    Workers,     \* worker processes
    Tokens,      \* lease owner ids: randomUUID() per batch, recycled once nobody knows them
    None,        \* SQL NULL / no value
    NumSteps,    \* length of DELETION_STEP_ORDER (7 in the code)
    BatchLimit,  \* LIMIT of the claim (100 in the code)
    MaxFaults    \* bound: crashes, failed statements, stalls and unfinished handler calls

ASSUME NumStepsAssumption   == NumSteps \in Nat \ {0}
ASSUME BatchLimitAssumption == BatchLimit \in Nat \ {0}
ASSUME MaxFaultsAssumption  == MaxFaults \in Nat
ASSUME NoneAssumption       == None \notin Ops \cup Tokens

Steps == 1 .. NumSteps
Last  == NumSteps                      \* 'completion'

OpStatus   == {"not_started", "pending", "processing", "retrying", "completed"}
StepStatus == {"pending", "processing", "retrying", "completed"}
Control    == {"idle", "pick", "next", "mark", "run", "verify", "recheck", "reportDone",
               "reportMore", "clear", "yield", "complete", "catch", "reschedule"}
Running    == {"run", "verify", "recheck"}   \* inside runStepWithLeaseRenewal

VARIABLES
    status,     \* account_deletion_operations.status
    owner,      \* .lease_owner
    lease,      \* .lease_until: "none", "live" or "expired"
    due,        \* .available_at <= now
    alarm,      \* .retry_started_at IS NOT NULL
    step,       \* account_deletion_steps.status, by operation and position
    userGone,   \* the users row has been deleted
    pc,         \* where processDeletionBatch stands
    token,      \* its lease owner id
    waiting,    \* claimed operations of the batch not looked at yet
    cur,        \* the operation of the current iteration
    active,     \* the step nextStep returned; 0 when activeStep is null
    lost,       \* renewalFailure of runStepWithLeaseRenewal
    renewals,   \* renewLease calls sent and not answered: <<operation, owner id>>
    faults      \* faults so far, at most MaxFaults

rows  == <<status, owner, lease, due, alarm>>
data  == <<step, userGone>>
procs == <<pc, token, waiting, cur, active, lost>>
vars  == <<rows, data, procs, renewals, faults>>

Init ==
    /\ status   = [o \in Ops |-> "not_started"]
    /\ owner    = [o \in Ops |-> None]
    /\ lease    = [o \in Ops |-> "none"]
    /\ due      = [o \in Ops |-> FALSE]
    /\ alarm    = [o \in Ops |-> FALSE]
    /\ step     = [o \in Ops |-> [s \in Steps |-> "pending"]]
    /\ userGone = [o \in Ops |-> FALSE]
    /\ pc       = [w \in Workers |-> "idle"]
    /\ token    = [w \in Workers |-> None]
    /\ waiting  = [w \in Workers |-> {}]
    /\ cur      = [w \in Workers |-> None]
    /\ active   = [w \in Workers |-> 0]
    /\ lost     = [w \in Workers |-> FALSE]
    /\ renewals = {}
    /\ faults   = 0

-----------------------------------------------------------------------------
(* Reading the rows *)

\* Mutant of Holds: any worker passes while somebody processes the operation.
HoldsWithoutOwner(w, o) == status[o] = "processing"

\* The fence of every statement of a batch: lease_owner = $3 AND status = 'processing'.
Holds(w, o) == owner[o] = token[w] /\ status[o] = "processing"

\* Mutants of Claimable: an abandoned operation is never claimed again; a completed operation
\* is not left out.
ClaimableUnlessProcessing(o) == status[o] \in {"pending", "retrying"} /\ due[o] /\ lease[o] # "live"
ClaimableWhenCompleted(o) == status[o] # "not_started" /\ due[o] /\ lease[o] # "live"

Claimable(o) ==
    /\ status[o] \in {"pending", "processing", "retrying"}
    /\ due[o]
    /\ lease[o] # "live"

Completed(o) == {s \in Steps : step[o][s] = "completed"}

\* Mutant of NextStep: no ORDER BY.
NextStepUnordered(o, s) == s \in Steps \ Completed(o)

\* nextStep: the first step by position whose row is not completed.
NextStep(o, s) ==
    /\ s \in Steps \ Completed(o)
    /\ \A t \in Steps \ Completed(o) : s <= t

\* Mutant of FreshToken: an id that no row carries may still be another batch's.
FreshTokenForRows(u) == \A o \in Ops : owner[o] # u

\* randomUUID(): an id no row, no batch and no call on its way carries.
FreshToken(u) ==
    /\ \A o \in Ops : owner[o] # u
    /\ \A w \in Workers : token[w] # u
    /\ \A r \in renewals : r[2] # u

-----------------------------------------------------------------------------
(* The requests and the clock *)

\* acceptDeletionOperation: the step rows are inserted in the same transaction.
Accept(o) ==
    /\ status[o] = "not_started"
    /\ status' = [status EXCEPT ![o] = "pending"]
    /\ due' = [due EXCEPT ![o] = TRUE]
    /\ UNCHANGED <<owner, lease, alarm, data, procs, renewals, faults>>

\* The retry delay of an operation has run out.
DelayElapses(o) ==
    /\ status[o] = "retrying" /\ ~due[o]
    /\ due' = [due EXCEPT ![o] = TRUE]
    /\ UNCHANGED <<status, owner, lease, alarm, data, procs, renewals, faults>>

\* A live batch has reached o, or is about to pick it: its lease is fresh or being renewed.
Tended(o) ==
    \E w \in Workers :
        /\ owner[o] = token[w]
        /\ cur[w] = o \/ (pc[w] = "pick" /\ o \in waiting[w])

\* The 120 seconds of a lease run out with nobody to renew it: its batch died, or o waits
\* behind another operation of the batch.
LeaseExpires(o) ==
    /\ lease[o] = "live" /\ ~Tended(o)
    /\ lease' = [lease EXCEPT ![o] = "expired"]
    /\ UNCHANGED <<status, owner, due, alarm, data, procs, renewals, faults>>

\* They run out although o is being worked on: the process has stalled.
Stall(o) ==
    /\ lease[o] = "live" /\ Tended(o)
    /\ faults < MaxFaults
    /\ faults' = faults + 1
    /\ lease' = [lease EXCEPT ![o] = "expired"]
    /\ UNCHANGED <<status, owner, due, alarm, data, procs, renewals>>

-----------------------------------------------------------------------------
(* The batch *)

\* claimDeletionOperations: one transaction; SKIP LOCKED leaves out rows a concurrent
\* statement has locked, so any non-empty set of claimable rows up to the limit.
Claim(w, S, u) ==
    /\ pc[w] = "idle"
    /\ S # {}
    /\ Cardinality(S) <= BatchLimit
    /\ \A o \in S : Claimable(o)
    /\ FreshToken(u)
    /\ status' = [o \in Ops |-> IF o \in S THEN "processing" ELSE status[o]]
    /\ owner'  = [o \in Ops |-> IF o \in S THEN u ELSE owner[o]]
    /\ lease'  = [o \in Ops |-> IF o \in S THEN "live" ELSE lease[o]]
    /\ pc'      = [pc EXCEPT ![w] = "pick"]
    /\ token'   = [token EXCEPT ![w] = u]
    /\ waiting' = [waiting EXCEPT ![w] = S]
    /\ UNCHANGED <<due, alarm, data, cur, active, lost, renewals, faults>>

\* "for (const operation of claimed)": the rows come back in no particular order.
PickOperation(w, o) ==
    /\ pc[w] = "pick"
    /\ o \in waiting[w]
    /\ pc' = [pc EXCEPT ![w] = "next"]
    /\ waiting' = [waiting EXCEPT ![w] = @ \ {o}]
    /\ cur' = [cur EXCEPT ![w] = o]
    /\ active' = [active EXCEPT ![w] = 0]
    /\ UNCHANGED <<rows, data, token, lost, renewals, faults>>

\* The batch is through (or thrown out of): the process loops to the next claim.
Idle(w) ==
    /\ pc' = [pc EXCEPT ![w] = "idle"]
    /\ token' = [token EXCEPT ![w] = None]
    /\ waiting' = [waiting EXCEPT ![w] = {}]
    /\ cur' = [cur EXCEPT ![w] = None]
    /\ active' = [active EXCEPT ![w] = 0]
    /\ lost' = [lost EXCEPT ![w] = FALSE]

EndBatch(w) ==
    /\ pc[w] = "pick"
    /\ waiting[w] = {}
    /\ Idle(w)
    /\ UNCHANGED <<rows, data, renewals, faults>>

\* The iteration of the current operation ends; the loop goes on with the next one.
Leave(w) ==
    /\ pc' = [pc EXCEPT ![w] = "pick"]
    /\ cur' = [cur EXCEPT ![w] = None]
    /\ active' = [active EXCEPT ![w] = 0]
    /\ UNCHANGED <<token, waiting, lost>>

Goto(w, label) ==
    /\ pc' = [pc EXCEPT ![w] = label]
    /\ UNCHANGED <<token, waiting, cur, active, lost>>

-----------------------------------------------------------------------------
(* The steps of one operation *)

\* nextStep answers with a step: it becomes activeStep.
FindStep(w, s) ==
    /\ pc[w] = "next"
    /\ NextStep(cur[w], s)
    /\ pc' = [pc EXCEPT ![w] = "mark"]
    /\ active' = [active EXCEPT ![w] = s]
    /\ UNCHANGED <<rows, data, token, waiting, cur, lost, renewals, faults>>

\* nextStep answers null: with every step row present, allStepsCompleted agrees.
FindNoStep(w) ==
    /\ pc[w] = "next"
    /\ Completed(cur[w]) = Steps
    /\ Goto(w, "complete")
    /\ UNCHANGED <<rows, data, renewals, faults>>

SetStep(o, s, to) == step' = [step EXCEPT ![o][s] = to]

\* Mutant of Writable: without "status <> 'completed'".
WritableAnyStatus(w) == Holds(w, cur[w])

\* A fenced UPDATE of the active step: no row when it is completed or the lease is lost,
\* and then the code throws lease_lost.
Writable(w) ==
    /\ Holds(w, cur[w])
    /\ step[cur[w]][active[w]] # "completed"

MarkStepProcessing(w) ==
    /\ pc[w] = "mark"
    /\ \/ /\ Writable(w)
          /\ SetStep(cur[w], active[w], "processing")
          /\ pc' = [pc EXCEPT ![w] = "run"]
       \/ /\ ~Writable(w)
          /\ pc' = [pc EXCEPT ![w] = "catch"]
          /\ UNCHANGED step
    /\ UNCHANGED <<rows, userGone, token, waiting, cur, active, lost, renewals, faults>>

\* The interval timer fires while the handler runs: the call is not awaited.
SendRenewal(w) ==
    /\ pc[w] \in Running
    /\ <<cur[w], token[w]>> \notin renewals
    /\ renewals' = renewals \cup {<<cur[w], token[w]>>}
    /\ UNCHANGED <<rows, data, procs, faults>>

\* renewLease reaches the database, at any later moment.  A handler that runs under that
\* owner id hears that it failed; one sent by an earlier handler call of the same batch counts
\* too, which only brings forward the lease_lost of the next fenced statement.
Hears(w, o, u) == pc[w] \in Running /\ cur[w] = o /\ token[w] = u

ApplyRenewal(o, u) ==
    /\ <<o, u>> \in renewals
    /\ renewals' = renewals \ {<<o, u>>}
    /\ \/ /\ owner[o] = u /\ status[o] = "processing"
          /\ lease' = [lease EXCEPT ![o] = "live"]
          /\ UNCHANGED lost
       \/ /\ ~(owner[o] = u /\ status[o] = "processing")
          /\ lost' = [w \in Workers |-> lost[w] \/ Hears(w, o, u)]
          /\ UNCHANGED lease
    /\ UNCHANGED <<status, owner, due, alarm, data, pc, token, waiting, cur, active, faults>>

\* A handler answers; a failed renewal turns the answer into an exception.
Report(w, label) ==
    /\ pc' = [pc EXCEPT ![w] = IF lost[w] THEN "catch" ELSE label]
    /\ lost' = [lost EXCEPT ![w] = FALSE]
    /\ UNCHANGED <<token, waiting, cur, active>>

\* The six cleanup handlers, abstracted to their answer.  They are not fenced: they
\* run on after the lease is lost.
HandlerDone(w) ==
    /\ pc[w] = "run" /\ active[w] # Last
    /\ Report(w, "reportDone")
    /\ UNCHANGED <<rows, data, renewals, faults>>

\* Mutant of HandlerMore: remainders found, and reported as done.
HandlerMoreAsDone(w) ==
    /\ pc[w] \in {"verify", "recheck"} \/ (pc[w] = "run" /\ active[w] # Last)
    /\ faults < MaxFaults
    /\ faults' = faults + 1
    /\ Report(w, "reportDone")
    /\ UNCHANGED <<rows, data, renewals>>

\* { done: false }: the handler did one bounded portion of its work, or found remainders.
HandlerMore(w) ==
    /\ \/ pc[w] = "run" /\ active[w] # Last
       \/ pc[w] \in {"verify", "recheck"}
    /\ faults < MaxFaults
    /\ faults' = faults + 1
    /\ Report(w, "reportMore")
    /\ UNCHANGED <<rows, data, renewals>>

\* arePreviousStepsComplete
PreviousStepsComplete(o) ==
    /\ \A s \in Steps \ {Last} : step[o][s] = "completed"
    /\ step[o][Last] = "processing"

\* verifyAndCompleteDeletion up to the checks of media and remainders.
VerifyGate(w) ==
    /\ pc[w] = "run" /\ active[w] = Last
    /\ \/ /\ status[cur[w]] = "completed"
          /\ Report(w, "reportDone")
       \/ /\ status[cur[w]] = "processing" /\ PreviousStepsComplete(cur[w])
          /\ Goto(w, "verify")
       \/ /\ status[cur[w]] # "completed"
          /\ ~(status[cur[w]] = "processing" /\ PreviousStepsComplete(cur[w]))
          /\ Report(w, "reportMore")
    /\ UNCHANGED <<rows, data, renewals, faults>>

\* hasDatabaseRemainders finds none: deleteUser.
DeleteUser(w) ==
    /\ pc[w] = "verify"
    /\ userGone' = [userGone EXCEPT ![cur[w]] = TRUE]
    /\ Goto(w, "recheck")
    /\ UNCHANGED <<rows, step, renewals, faults>>

\* hasPostDeleteRemainders finds none either; the targets are removed.
PostCheck(w) ==
    /\ pc[w] = "recheck"
    /\ Report(w, "reportDone")
    /\ UNCHANGED <<rows, data, renewals, faults>>

\* markStepCompleted, first statement.
MarkStepCompleted(w) ==
    /\ pc[w] = "reportDone"
    /\ \/ /\ Writable(w)
          /\ SetStep(cur[w], active[w], "completed")
          /\ Goto(w, "clear")
       \/ /\ ~Writable(w)
          /\ Goto(w, "catch")
          /\ UNCHANGED step
    /\ UNCHANGED <<rows, userGone, renewals, faults>>

\* markStepCompleted, second statement, in a transaction of its own.
ClearRetryStart(w) ==
    /\ pc[w] = "clear"
    /\ alarm' = [alarm EXCEPT ![cur[w]] = @ /\ ~Holds(w, cur[w])]
    /\ pc' = [pc EXCEPT ![w] = "next"]
    /\ active' = [active EXCEPT ![w] = 0]
    /\ UNCHANGED <<status, owner, lease, due, data, token, waiting, cur, lost, renewals, faults>>

MarkStepPending(w) ==
    /\ pc[w] = "reportMore"
    /\ \/ /\ Writable(w)
          /\ SetStep(cur[w], active[w], "pending")
          /\ pc' = [pc EXCEPT ![w] = "yield"]
          /\ active' = [active EXCEPT ![w] = 0]
       \/ /\ ~Writable(w)
          /\ pc' = [pc EXCEPT ![w] = "catch"]
          /\ UNCHANGED <<step, active>>
    /\ UNCHANGED <<rows, userGone, token, waiting, cur, lost, renewals, faults>>

YieldOperation(w) ==
    LET o == cur[w] IN
    /\ pc[w] = "yield"
    /\ IF Holds(w, o)
         THEN /\ status' = [status EXCEPT ![o] = "pending"]
              /\ owner' = [owner EXCEPT ![o] = None]
              /\ lease' = [lease EXCEPT ![o] = "none"]
              /\ due' = [due EXCEPT ![o] = TRUE]
         ELSE UNCHANGED <<status, owner, lease, due>>
    /\ Leave(w)
    /\ UNCHANGED <<alarm, data, renewals, faults>>

\* completeOperation; no row means completion_blocked.
CompleteOperation(w) ==
    LET o == cur[w] IN
    /\ pc[w] = "complete"
    /\ \/ /\ Holds(w, o)
          /\ Completed(o) = Steps
          /\ status' = [status EXCEPT ![o] = "completed"]
          /\ owner' = [owner EXCEPT ![o] = None]
          /\ lease' = [lease EXCEPT ![o] = "none"]
          /\ alarm' = [alarm EXCEPT ![o] = FALSE]
          /\ Leave(w)
       \/ /\ ~(Holds(w, o) /\ Completed(o) = Steps)
          /\ Goto(w, "catch")
          /\ UNCHANGED <<status, owner, lease, alarm>>
    /\ UNCHANGED <<due, data, renewals, faults>>

-----------------------------------------------------------------------------
(* Failures *)

\* markStepRetrying, when a step is active.
MarkStepRetrying(w) ==
    /\ pc[w] = "catch"
    /\ IF active[w] # 0 /\ Writable(w)
         THEN SetStep(cur[w], active[w], "retrying")
         ELSE UNCHANGED step
    /\ Goto(w, "reschedule")
    /\ UNCHANGED <<rows, userGone, renewals, faults>>

RetryOperation(w) ==
    LET o == cur[w] IN
    /\ pc[w] = "reschedule"
    /\ IF Holds(w, o)
         THEN /\ status' = [status EXCEPT ![o] = "retrying"]
              /\ owner' = [owner EXCEPT ![o] = None]
              /\ lease' = [lease EXCEPT ![o] = "none"]
              /\ due' = [due EXCEPT ![o] = FALSE]
              /\ alarm' = [alarm EXCEPT ![o] = TRUE]
         ELSE UNCHANGED rows
    /\ Leave(w)
    /\ UNCHANGED <<data, renewals, faults>>

\* A statement or a handler throws inside the try block.
Throw(w) ==
    /\ pc[w] \in {"next", "mark", "run", "verify", "reportDone", "reportMore",
                  "clear", "yield", "complete", "recheck"}
    /\ faults < MaxFaults
    /\ faults' = faults + 1
    /\ pc' = [pc EXCEPT ![w] = "catch"]
    /\ lost' = [lost EXCEPT ![w] = FALSE]
    /\ UNCHANGED <<rows, data, token, waiting, cur, active, renewals>>

\* The process dies, or a statement of the catch block throws out of processDeletionBatch:
\* the rows keep their leases.
Crash(w) ==
    /\ pc[w] # "idle"
    /\ faults < MaxFaults
    /\ faults' = faults + 1
    /\ Idle(w)
    /\ UNCHANGED <<rows, data, renewals>>

\* A renewal is lost on its way.
LoseRenewal(o, u) ==
    /\ <<o, u>> \in renewals
    /\ faults < MaxFaults
    /\ faults' = faults + 1
    /\ renewals' = renewals \ {<<o, u>>}
    /\ lost' = [w \in Workers |-> lost[w] \/ Hears(w, o, u)]
    /\ UNCHANGED <<rows, data, pc, token, waiting, cur, active>>

-----------------------------------------------------------------------------
(* The specification *)

\* What a live worker does by itself, faults apart.
WorkerStep(w) ==
    \/ \E o \in Ops : PickOperation(w, o)
    \/ EndBatch(w)
    \/ \E s \in Steps : FindStep(w, s)
    \/ FindNoStep(w)
    \/ MarkStepProcessing(w)
    \/ HandlerDone(w)
    \/ VerifyGate(w)
    \/ DeleteUser(w)
    \/ PostCheck(w)
    \/ MarkStepCompleted(w)
    \/ ClearRetryStart(w)
    \/ MarkStepPending(w)
    \/ YieldOperation(w)
    \/ CompleteOperation(w)
    \/ MarkStepRetrying(w)
    \/ RetryOperation(w)

ClaimOf(o) ==
    \E w \in Workers, S \in SUBSET Ops, u \in Tokens : o \in S /\ Claim(w, S, u)

Next ==
    \/ \E o \in Ops : Accept(o) \/ DelayElapses(o) \/ LeaseExpires(o) \/ Stall(o)
    \/ \E w \in Workers, S \in SUBSET Ops, u \in Tokens : Claim(w, S, u)
    \/ \E w \in Workers : WorkerStep(w) \/ SendRenewal(w) \/ HandlerMore(w)
                            \/ Throw(w) \/ Crash(w)
    \/ \E o \in Ops, u \in Tokens : ApplyRenewal(o, u) \/ LoseRenewal(o, u)

Spec == Init /\ [][Next]_vars

\* Time passes, a live process goes on with its batch, a call that was sent arrives, and the
\* loop claims every second: an operation that is claimable again and again is claimed,
\* since the claim takes the rows longest available first.
Fairness ==
    /\ \A o \in Ops : /\ WF_vars(DelayElapses(o))
                      /\ WF_vars(LeaseExpires(o))
                      /\ SF_vars(ClaimOf(o))
                      /\ \A u \in Tokens : WF_vars(ApplyRenewal(o, u))
    /\ \A w \in Workers : WF_vars(WorkerStep(w))

FairSpec == Spec /\ Fairness

-----------------------------------------------------------------------------
(* Properties *)

RowsOK ==
    /\ status \in [Ops -> OpStatus]
    /\ owner  \in [Ops -> Tokens \cup {None}]
    /\ lease  \in [Ops -> {"none", "live", "expired"}]
    /\ due    \in [Ops -> BOOLEAN]
    /\ alarm  \in [Ops -> BOOLEAN]

DataOK ==
    /\ step     \in [Ops -> [Steps -> StepStatus]]
    /\ userGone \in [Ops -> BOOLEAN]

ProcsOK ==
    /\ pc      \in [Workers -> Control]
    /\ token   \in [Workers -> Tokens \cup {None}]
    /\ waiting \in [Workers -> SUBSET Ops]
    /\ cur     \in [Workers -> Ops \cup {None}]
    /\ active  \in [Workers -> 0 .. NumSteps]
    /\ lost    \in [Workers -> BOOLEAN]

TypeOK ==
    /\ RowsOK
    /\ DataOK
    /\ ProcsOK
    /\ renewals \subseteq Ops \X Tokens
    /\ faults \in 0 .. MaxFaults

\* The points of the loop at which activeStep is set and belongs to cur.
AtStep == {"mark", "run", "verify", "recheck", "reportDone", "reportMore", "clear"}

\* Where a process stands agrees with what it carries, and an owner id names one batch.
ControlShape ==
    \A w \in Workers :
        /\ cur[w] \in Ops <=> pc[w] \notin {"idle", "pick"}
        /\ token[w] = None <=> pc[w] = "idle"
        /\ pc[w] \in AtStep => active[w] \in Steps
        /\ pc[w] \in {"verify", "recheck"} => active[w] = Last
        /\ \A v \in Workers : token[v] = token[w] /\ token[w] # None => v = w
        /\ \A o \in Ops : o = cur[w] \/ o \in waiting[w] => status[o] # "not_started"

\* The end of an operation, seen from its rows and from whoever works on its last step.
CompletionShape ==
    /\ \A w \in Workers :
          pc[w] = "recheck" \/ (pc[w] = "reportDone" /\ active[w] = Last) => userGone[cur[w]]
    /\ \A o \in Ops : Last \in Completed(o) => userGone[o]

\* Cleanup runs in the order of DELETION_STEP_ORDER: no step is recorded as completed while
\* an earlier one is not, whatever worker recorded it.
StepsInOrder ==
    \A o \in Ops : \A s \in Completed(o), t \in Steps : t < s => t \in Completed(o)

\* Handlers are not fenced and outlive their lease; still, whoever runs a step of an
\* operation runs it after every earlier step is over, and the users row is deleted only when
\* the six cleanup steps are.
HandlersAfterPredecessors ==
    /\ \A w \in Workers : pc[w] \in AtStep =>
         \A t \in 1 .. active[w] - 1 : t \in Completed(cur[w])
    /\ \A o \in Ops : userGone[o] => Steps \ {Last} \subseteq Completed(o)

\* An operation is reported completed only when every step is, the users row is gone, and
\* nothing of the lease or of the retry alarm is left behind.
CompletedMeansErased ==
    \A o \in Ops : status[o] = "completed" =>
        /\ Completed(o) = Steps
        /\ userGone[o]
        /\ owner[o] = None /\ lease[o] = "none" /\ ~alarm[o]

\* The inductive invariant the safety proofs rest on.
IndInv ==
    /\ TypeOK
    /\ ControlShape
    /\ StepsInOrder
    /\ HandlersAfterPredecessors
    /\ CompletionShape
    /\ CompletedMeansErased

\* Two batches never pass the fence of one operation at the same time.
OneWriter ==
    \A v, w \in Workers, o \in Ops :
        cur[v] = o /\ cur[w] = o /\ Holds(v, o) /\ Holds(w, o) => v = w

\* A batch that lost its lease changes nothing any more, however many statements it still
\* sends; the deletion of the users row is the one effect that is not fenced.
StaleBatchHarmless ==
    [][\A w \in Workers, o \in Ops :
          pc'[w] # pc[w] /\ pc[w] # "idle" /\ cur[w] = o /\ owner[o] # token[w] =>
             UNCHANGED <<status[o], owner[o], lease[o], due[o], alarm[o], step[o]>>]_vars

\* A completed operation stays as it is: no late statement, renewal or claim touches it.
CompletedIsFinal ==
    [][\A o \in Ops :
          status[o] = "completed" =>
             UNCHANGED <<status[o], owner[o], lease[o], due[o], alarm[o], step[o],
                         userGone[o]>>]_vars

-----------------------------------------------------------------------------
(* The contract it implements *)

Phase(o) ==
    CASE status[o] = "not_started" -> "requested"
      [] status[o] = "completed"   -> "completed"
      [] OTHER                     -> "accepted"

Contract == INSTANCE DeletionContract WITH
    phase  <- [o \in Ops |-> Phase(o)],
    over   <- [o \in Ops |-> Completed(o)],
    erased <- userGone

\* Seen from outside, the workers together do no more than the contract allows.
ImplementsContract == Contract!Spec

\* And they keep its promise to serve whoever is accepted: "The durable worker completes the
\* existing seven cleanup steps and removes the user row" (account-deletion-operations.md).
ServesEveryRequest == Contract!FairSpec
=============================================================================
