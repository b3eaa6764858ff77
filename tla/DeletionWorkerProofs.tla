------------------------ MODULE DeletionWorkerProofs ------------------------
(***************************************************************************)
(* Theorems about DeletionWorker, for any number of operations, workers,   *)
(* owner ids, steps and faults.                                            *)
(***************************************************************************)
EXTENDS DeletionWorker, TLAPS

(* A write of a status into one step row keeps the table in its type. *)
LEMMA SetStepType ==
  ASSUME TypeOK, NEW o \in Ops, NEW s \in Steps, NEW to \in StepStatus, SetStep(o, s, to)
  PROVE  step' \in [Ops -> [Steps -> StepStatus]]
  BY DEF TypeOK, DataOK, SetStep

(* A step keeps every variable in its type. *)
LEMMA TypeStep == TypeOK /\ ControlShape /\ [Next]_vars => TypeOK'
<1>. USE NumStepsAssumption, MaxFaultsAssumption, NoneAssumption
<1>. SUFFICES ASSUME TypeOK, ControlShape, [Next]_vars PROVE TypeOK'
  OBVIOUS
<1>. USE DEF TypeOK, RowsOK, DataOK, ProcsOK, ControlShape, AtStep, rows, data, procs,
             OpStatus, StepStatus, Control, Steps, Last
<1>1. ASSUME NEW o \in Ops, Accept(o) PROVE TypeOK'
  BY <1>1 DEF Accept
<1>2. ASSUME NEW o \in Ops, DelayElapses(o) PROVE TypeOK'
  BY <1>2 DEF DelayElapses
<1>3. ASSUME NEW o \in Ops, LeaseExpires(o) PROVE TypeOK'
  BY <1>3 DEF LeaseExpires
<1>4. ASSUME NEW o \in Ops, Stall(o) PROVE TypeOK'
  BY <1>4 DEF Stall
<1>5. ASSUME NEW w \in Workers, NEW S \in SUBSET Ops, NEW u \in Tokens, Claim(w, S, u) PROVE TypeOK'
  BY <1>5 DEF Claim
<1>6. ASSUME NEW w \in Workers, NEW o \in Ops, PickOperation(w, o) PROVE TypeOK'
  BY <1>6 DEF PickOperation
<1>7. ASSUME NEW w \in Workers, EndBatch(w) PROVE TypeOK'
  BY <1>7 DEF EndBatch, Idle
<1>8. ASSUME NEW w \in Workers, NEW s \in Steps, FindStep(w, s) PROVE TypeOK'
  BY <1>8 DEF FindStep, NextStep
<1>9. ASSUME NEW w \in Workers, FindNoStep(w) PROVE TypeOK'
  BY <1>9 DEF FindNoStep, Goto
<1>10. ASSUME NEW w \in Workers, MarkStepProcessing(w) PROVE TypeOK'
  <2>1. cur[w] \in Ops /\ active[w] \in Steps
    BY <1>10 DEF MarkStepProcessing
  <2>2. CASE Writable(w)
    BY <1>10, <2>1, <2>2, SetStepType DEF MarkStepProcessing
  <2>3. CASE ~Writable(w)
    BY <1>10, <2>1, <2>3 DEF MarkStepProcessing
  <2>. QED
    BY <2>2, <2>3
<1>11. ASSUME NEW w \in Workers, HandlerDone(w) PROVE TypeOK'
  BY <1>11 DEF HandlerDone, Report
<1>12. ASSUME NEW w \in Workers, VerifyGate(w) PROVE TypeOK'
  BY <1>12 DEF VerifyGate, Report, Goto
<1>13. ASSUME NEW w \in Workers, DeleteUser(w) PROVE TypeOK'
  BY <1>13 DEF DeleteUser, Goto
<1>28. ASSUME NEW w \in Workers, PostCheck(w) PROVE TypeOK'
  BY <1>28 DEF PostCheck, Report
<1>14. ASSUME NEW w \in Workers, MarkStepCompleted(w) PROVE TypeOK'
  <2>1. cur[w] \in Ops /\ active[w] \in Steps
    BY <1>14 DEF MarkStepCompleted
  <2>2. CASE Writable(w)
    BY <1>14, <2>1, <2>2, SetStepType DEF MarkStepCompleted, Goto
  <2>3. CASE ~Writable(w)
    BY <1>14, <2>1, <2>3 DEF MarkStepCompleted, Goto
  <2>. QED
    BY <2>2, <2>3
<1>15. ASSUME NEW w \in Workers, ClearRetryStart(w) PROVE TypeOK'
  <2>1. alarm' \in [Ops -> BOOLEAN]
    BY <1>15 DEF ClearRetryStart
  <2>. QED
    BY <1>15, <2>1 DEF ClearRetryStart
<1>16. ASSUME NEW w \in Workers, MarkStepPending(w) PROVE TypeOK'
  <2>1. cur[w] \in Ops /\ active[w] \in Steps
    BY <1>16 DEF MarkStepPending
  <2>2. DataOK'
    BY <1>16, <2>1, SetStepType DEF MarkStepPending
  <2>3. CASE Writable(w)
    <3>1. active' \in [Workers -> 0 .. NumSteps] /\ pc' \in [Workers -> Control]
      <4>1. active' = [active EXCEPT ![w] = 0] /\ pc' = [pc EXCEPT ![w] = "yield"]
        BY <1>16, <2>3 DEF MarkStepPending
      <4>. QED
        BY <4>1
    <3>. QED
      BY <1>16, <2>2, <3>1 DEF MarkStepPending
  <2>4. CASE ~Writable(w)
    <3>1. ProcsOK'
      BY <1>16, <2>4 DEF MarkStepPending
    <3>. QED
      BY <1>16, <2>2, <3>1 DEF MarkStepPending
  <2>. QED
    BY <2>3, <2>4
<1>17. ASSUME NEW w \in Workers, YieldOperation(w) PROVE TypeOK'
  <2>1. RowsOK'
    <3>1. CASE Holds(w, cur[w])
      BY <1>17, <3>1 DEF YieldOperation
    <3>2. CASE ~Holds(w, cur[w])
      BY <1>17, <3>2 DEF YieldOperation
    <3>. QED
      BY <3>1, <3>2
  <2>2. ProcsOK'
    BY <1>17 DEF YieldOperation, Leave
  <2>. QED
    BY <1>17, <2>1, <2>2 DEF YieldOperation
<1>18. ASSUME NEW w \in Workers, CompleteOperation(w) PROVE TypeOK'
  <2>1. CASE Holds(w, cur[w]) /\ Completed(cur[w]) = Steps
    <3>1. /\ status' = [status EXCEPT ![cur[w]] = "completed"]
          /\ owner' = [owner EXCEPT ![cur[w]] = None]
          /\ lease' = [lease EXCEPT ![cur[w]] = "none"]
          /\ alarm' = [alarm EXCEPT ![cur[w]] = FALSE]
          /\ due' = due
      BY <1>18, <2>1 DEF CompleteOperation
    <3>2. Leave(w)
      BY <1>18, <2>1 DEF CompleteOperation
    <3>3. RowsOK'
      BY <3>1
    <3>4. ProcsOK'
      BY <3>2 DEF Leave
    <3>. QED
      BY <1>18, <3>3, <3>4 DEF CompleteOperation
  <2>2. CASE ~(Holds(w, cur[w]) /\ Completed(cur[w]) = Steps)
    <3>1. RowsOK'
      BY <1>18, <2>2 DEF CompleteOperation
    <3>2. ProcsOK'
      BY <1>18, <2>2 DEF CompleteOperation, Goto
    <3>. QED
      BY <1>18, <3>1, <3>2 DEF CompleteOperation
  <2>. QED
    BY <2>1, <2>2
<1>19. ASSUME NEW w \in Workers, MarkStepRetrying(w) PROVE TypeOK'
  <2>1. cur[w] \in Ops
    BY <1>19 DEF MarkStepRetrying
  <2>2. CASE active[w] # 0 /\ Writable(w)
    <3>1. active[w] \in Steps /\ SetStep(cur[w], active[w], "retrying")
      BY <1>19, <2>2 DEF MarkStepRetrying
    <3>. QED
      BY <1>19, <2>1, <3>1, SetStepType DEF MarkStepRetrying, Goto
  <2>3. CASE ~(active[w] # 0 /\ Writable(w))
    BY <1>19, <2>3 DEF MarkStepRetrying, Goto
  <2>. QED
    BY <2>2, <2>3
<1>20. ASSUME NEW w \in Workers, RetryOperation(w) PROVE TypeOK'
  <2>1. RowsOK'
    <3>1. CASE Holds(w, cur[w])
      BY <1>20, <3>1 DEF RetryOperation
    <3>2. CASE ~Holds(w, cur[w])
      BY <1>20, <3>2 DEF RetryOperation
    <3>. QED
      BY <3>1, <3>2
  <2>2. ProcsOK'
    BY <1>20 DEF RetryOperation, Leave
  <2>. QED
    BY <1>20, <2>1, <2>2 DEF RetryOperation
<1>21. ASSUME NEW w \in Workers, SendRenewal(w) PROVE TypeOK'
  BY <1>21 DEF SendRenewal, Running
<1>22. ASSUME NEW w \in Workers, HandlerMore(w) PROVE TypeOK'
  BY <1>22 DEF HandlerMore, Report
<1>23. ASSUME NEW w \in Workers, Throw(w) PROVE TypeOK'
  BY <1>23 DEF Throw
<1>24. ASSUME NEW w \in Workers, Crash(w) PROVE TypeOK'
  BY <1>24 DEF Crash, Idle
<1>25. ASSUME NEW o \in Ops, NEW u \in Tokens, ApplyRenewal(o, u) PROVE TypeOK'
  <2>1. CASE UNCHANGED lost
    BY <1>25, <2>1 DEF ApplyRenewal
  <2>2. CASE lost' = [w \in Workers |-> lost[w] \/ Hears(w, o, u)]
    <3>1. lost' \in [Workers -> BOOLEAN]
      BY <2>2, Zenon
    <3>. QED
      BY <1>25, <3>1 DEF ApplyRenewal
  <2>. QED
    BY <1>25, <2>1, <2>2 DEF ApplyRenewal
<1>26. ASSUME NEW o \in Ops, NEW u \in Tokens, LoseRenewal(o, u) PROVE TypeOK'
  BY <1>26 DEF LoseRenewal, Hears
<1>27. CASE UNCHANGED vars
  BY <1>27 DEF vars
<1>. QED
  BY <1>1, <1>2, <1>3, <1>4, <1>5, <1>6, <1>7, <1>8, <1>9, <1>10, <1>11, <1>12, <1>13, <1>28, <1>14, <1>15, <1>16, <1>17, <1>18, <1>19, <1>20, <1>21, <1>22, <1>23, <1>24, <1>25, <1>26, <1>27 DEF Next, WorkerStep

(* A step keeps control and data of every process in agreement, and owner ids apart. *)
LEMMA ShapeStep == TypeOK /\ ControlShape /\ [Next]_vars => ControlShape'
<1>. USE NumStepsAssumption, NoneAssumption
<1>. SUFFICES ASSUME TypeOK, ControlShape, [Next]_vars PROVE ControlShape'
  OBVIOUS
<1>. USE DEF TypeOK, RowsOK, DataOK, ProcsOK, ControlShape, AtStep, rows, data, procs, Steps, Last
<1>1. ASSUME NEW o \in Ops, Accept(o) PROVE ControlShape'
  BY <1>1 DEF Accept
<1>2. ASSUME NEW o \in Ops, DelayElapses(o) PROVE ControlShape'
  BY <1>2 DEF DelayElapses
<1>3. ASSUME NEW o \in Ops, LeaseExpires(o) PROVE ControlShape'
  BY <1>3 DEF LeaseExpires
<1>4. ASSUME NEW o \in Ops, Stall(o) PROVE ControlShape'
  BY <1>4 DEF Stall
<1>5. ASSUME NEW w \in Workers, NEW S \in SUBSET Ops, NEW u \in Tokens, Claim(w, S, u) PROVE ControlShape'
  BY <1>5 DEF Claim, FreshToken
<1>6. ASSUME NEW w \in Workers, NEW o \in Ops, PickOperation(w, o) PROVE ControlShape'
  BY <1>6 DEF PickOperation
<1>7. ASSUME NEW w \in Workers, EndBatch(w) PROVE ControlShape'
  BY <1>7 DEF EndBatch, Idle
<1>8. ASSUME NEW w \in Workers, NEW s \in Steps, FindStep(w, s) PROVE ControlShape'
  BY <1>8 DEF FindStep, NextStep
<1>9. ASSUME NEW w \in Workers, FindNoStep(w) PROVE ControlShape'
  BY <1>9 DEF FindNoStep, Goto
<1>10. ASSUME NEW w \in Workers, MarkStepProcessing(w) PROVE ControlShape'
  BY <1>10 DEF MarkStepProcessing, SetStep, Writable, Holds
<1>11. ASSUME NEW w \in Workers, HandlerDone(w) PROVE ControlShape'
  BY <1>11 DEF HandlerDone, Report
<1>12. ASSUME NEW w \in Workers, VerifyGate(w) PROVE ControlShape'
  BY <1>12 DEF VerifyGate, Report, Goto
<1>13. ASSUME NEW w \in Workers, DeleteUser(w) PROVE ControlShape'
  BY <1>13 DEF DeleteUser, Goto
<1>28. ASSUME NEW w \in Workers, PostCheck(w) PROVE ControlShape'
  BY <1>28 DEF PostCheck, Report
<1>14. ASSUME NEW w \in Workers, MarkStepCompleted(w) PROVE ControlShape'
  BY <1>14 DEF MarkStepCompleted, SetStep, Writable, Holds, Goto
<1>15. ASSUME NEW w \in Workers, ClearRetryStart(w) PROVE ControlShape'
  BY <1>15 DEF ClearRetryStart, Holds
<1>16. ASSUME NEW w \in Workers, MarkStepPending(w) PROVE ControlShape'
  BY <1>16 DEF MarkStepPending, SetStep, Writable, Holds
<1>17. ASSUME NEW w \in Workers, YieldOperation(w) PROVE ControlShape'
  BY <1>17 DEF YieldOperation, Leave, Holds
<1>18. ASSUME NEW w \in Workers, CompleteOperation(w) PROVE ControlShape'
  <2>1. CASE Holds(w, cur[w]) /\ Completed(cur[w]) = Steps
    BY <1>18, <2>1 DEF CompleteOperation, Leave
  <2>2. CASE ~(Holds(w, cur[w]) /\ Completed(cur[w]) = Steps)
    BY <1>18, <2>2 DEF CompleteOperation, Goto
  <2>. QED
    BY <2>1, <2>2
<1>19. ASSUME NEW w \in Workers, MarkStepRetrying(w) PROVE ControlShape'
  BY <1>19 DEF MarkStepRetrying, SetStep, Writable, Holds, Goto
<1>20. ASSUME NEW w \in Workers, RetryOperation(w) PROVE ControlShape'
  BY <1>20 DEF RetryOperation, Leave, Holds
<1>21. ASSUME NEW w \in Workers, SendRenewal(w) PROVE ControlShape'
  BY <1>21 DEF SendRenewal, Running
<1>22. ASSUME NEW w \in Workers, HandlerMore(w) PROVE ControlShape'
  BY <1>22 DEF HandlerMore, Report
<1>23. ASSUME NEW w \in Workers, Throw(w) PROVE ControlShape'
  BY <1>23 DEF Throw
<1>24. ASSUME NEW w \in Workers, Crash(w) PROVE ControlShape'
  BY <1>24 DEF Crash, Idle
<1>25. ASSUME NEW o \in Ops, NEW u \in Tokens, ApplyRenewal(o, u) PROVE ControlShape'
  BY <1>25 DEF ApplyRenewal, Hears
<1>26. ASSUME NEW o \in Ops, NEW u \in Tokens, LoseRenewal(o, u) PROVE ControlShape'
  BY <1>26 DEF LoseRenewal, Hears
<1>27. CASE UNCHANGED vars
  BY <1>27 DEF vars
<1>. QED
  BY <1>1, <1>2, <1>3, <1>4, <1>5, <1>6, <1>7, <1>8, <1>9, <1>10, <1>11, <1>12, <1>13, <1>28, <1>14, <1>15, <1>16, <1>17, <1>18, <1>19, <1>20, <1>21, <1>22, <1>23, <1>24, <1>25, <1>26, <1>27 DEF Next, WorkerStep

(* What a write into a step row that is not completed does to the completed steps. *)
LEMMA SetStepCompleted ==
  ASSUME TypeOK, NEW o \in Ops, NEW s \in Steps, NEW to \in StepStatus, SetStep(o, s, to),
         step[o][s] # "completed"
  PROVE  \A c \in Ops : Completed(c)' = IF c = o /\ to = "completed" THEN Completed(c) \cup {s}
                                                                   ELSE Completed(c)
  <1>1. \A c \in Ops, t \in Steps : step'[c][t] = IF c = o /\ t = s THEN to ELSE step[c][t]
    BY DEF TypeOK, DataOK, SetStep
  <1>. QED
    BY <1>1 DEF Completed

(* The statements that start, put back or reschedule a step leave the completed ones alone. *)
LEMMA QuietWrites ==
  ASSUME IndInv, NEW w \in Workers,
         MarkStepProcessing(w) \/ MarkStepPending(w) \/ MarkStepRetrying(w)
  PROVE  \A c \in Ops : Completed(c)' = Completed(c)
  <1>. DEFINE to == CASE pc[w] = "mark" -> "processing"
                      [] pc[w] = "reportMore" -> "pending"
                      [] OTHER -> "retrying"
  <1>1. TypeOK /\ ControlShape
    BY DEF IndInv
  <1>2. cur[w] \in Ops
    BY <1>1 DEF ControlShape, MarkStepProcessing, MarkStepPending, MarkStepRetrying
  <1>3. CASE step' = step
    BY <1>3 DEF Completed
  <1>4. CASE step' # step
    <2>1. /\ Writable(w) /\ active[w] # 0
          /\ SetStep(cur[w], active[w], to)
      <3>1. CASE MarkStepProcessing(w)
        BY <1>1, <1>4, <3>1, NumStepsAssumption
           DEF MarkStepProcessing, ControlShape, AtStep, Steps
      <3>2. CASE MarkStepPending(w)
        BY <1>1, <1>4, <3>2, NumStepsAssumption DEF MarkStepPending, ControlShape, AtStep, Steps
      <3>3. CASE MarkStepRetrying(w)
        BY <1>4, <3>3 DEF MarkStepRetrying
      <3>. QED
        BY <3>1, <3>2, <3>3
    <2>2. active[w] \in Steps
      BY <1>1, <2>1, NumStepsAssumption DEF TypeOK, ProcsOK, Steps
    <2>3. step[cur[w]][active[w]] # "completed"
      BY <2>1 DEF Writable
    <2>4. to \in StepStatus /\ to # "completed"
      BY DEF StepStatus
    <2>. HIDE DEF to
    <2>. QED
      BY <1>1, <1>2, <2>1, <2>2, <2>3, <2>4, SetStepCompleted
  <1>. QED
    BY <1>3, <1>4

(* markStepCompleted adds the active step, or nothing when its fence fails. *)
LEMMA CompletingWrite ==
  ASSUME IndInv, NEW w \in Workers, MarkStepCompleted(w)
  PROVE  /\ cur[w] \in Ops /\ active[w] \in Steps
         /\ \/ /\ Writable(w)
               /\ \A c \in Ops : Completed(c)' =
                    IF c = cur[w] THEN Completed(c) \cup {active[w]} ELSE Completed(c)
            \/ \A c \in Ops : Completed(c)' = Completed(c)
  <1>1. TypeOK /\ ControlShape
    BY DEF IndInv
  <1>2. cur[w] \in Ops /\ active[w] \in Steps
    BY <1>1 DEF ControlShape, AtStep, MarkStepCompleted
  <1>3. CASE Writable(w)
    <2>1. SetStep(cur[w], active[w], "completed") /\ step[cur[w]][active[w]] # "completed"
      BY <1>3 DEF MarkStepCompleted, Writable
    <2>. QED
      BY <1>1, <1>2, <1>3, <2>1, SetStepCompleted DEF StepStatus
  <1>4. CASE ~Writable(w)
    BY <1>2, <1>4 DEF MarkStepCompleted, Completed
  <1>. QED
    BY <1>2, <1>3, <1>4

(* A completed step stays completed. *)
LEMMA Monotone ==
  ASSUME IndInv, [Next]_vars
  PROVE  \A c \in Ops : Completed(c) \subseteq Completed(c)'
  <1>1. CASE \E w \in Workers :
                MarkStepProcessing(w) \/ MarkStepPending(w) \/ MarkStepRetrying(w)
    BY <1>1, QuietWrites
  <1>2. CASE \E w \in Workers : MarkStepCompleted(w)
    BY <1>2, CompletingWrite
  <1>3. CASE step' = step
    BY <1>3 DEF Completed
  <1>. QED
    BY <1>1, <1>2, <1>3
       DEF Next, WorkerStep, vars, data, Accept, DelayElapses, LeaseExpires, Stall, Claim,
           PickOperation, EndBatch, FindStep, FindNoStep, HandlerDone, VerifyGate, DeleteUser, PostCheck,
           ClearRetryStart, YieldOperation, CompleteOperation, RetryOperation, SendRenewal,
           HandlerMore, Throw, Crash, ApplyRenewal, LoseRenewal

(* A step keeps the cleanup in order and the deletion of the users row last. *)
LEMMA OrderStep == IndInv /\ [Next]_vars => HandlersAfterPredecessors'
<1>. USE NumStepsAssumption, NoneAssumption
<1>. SUFFICES ASSUME IndInv, [Next]_vars PROVE HandlersAfterPredecessors'
  OBVIOUS
<1>0. \A o \in Ops : Completed(o) \subseteq Completed(o)'
  BY Monotone
<1>. USE DEF IndInv, TypeOK, RowsOK, DataOK, ProcsOK, ControlShape, AtStep, HandlersAfterPredecessors, rows, data, procs, Steps, Last
<1>1. ASSUME NEW o \in Ops, Accept(o) PROVE HandlersAfterPredecessors'
  BY <1>1, <1>0 DEF Accept
<1>2. ASSUME NEW o \in Ops, DelayElapses(o) PROVE HandlersAfterPredecessors'
  BY <1>2, <1>0 DEF DelayElapses
<1>3. ASSUME NEW o \in Ops, LeaseExpires(o) PROVE HandlersAfterPredecessors'
  BY <1>3, <1>0 DEF LeaseExpires
<1>4. ASSUME NEW o \in Ops, Stall(o) PROVE HandlersAfterPredecessors'
  BY <1>4, <1>0 DEF Stall
<1>5. ASSUME NEW w \in Workers, NEW S \in SUBSET Ops, NEW u \in Tokens, Claim(w, S, u) PROVE HandlersAfterPredecessors'
  BY <1>5, <1>0 DEF Claim
<1>6. ASSUME NEW w \in Workers, NEW o \in Ops, PickOperation(w, o) PROVE HandlersAfterPredecessors'
  BY <1>6, <1>0 DEF PickOperation
<1>7. ASSUME NEW w \in Workers, EndBatch(w) PROVE HandlersAfterPredecessors'
  BY <1>7, <1>0 DEF EndBatch, Idle
<1>8. ASSUME NEW w \in Workers, NEW s \in Steps, FindStep(w, s) PROVE HandlersAfterPredecessors'
  <2>1. cur[w] \in Ops /\ \A t \in 1 .. s - 1 : t \in Completed(cur[w])
    <3>1. cur[w] \in Ops /\ NextStep(cur[w], s)
      BY <1>8 DEF FindStep
    <3>2. ASSUME NEW t \in 1 .. s - 1 PROVE t \in Steps /\ ~(s <= t)
      OBVIOUS
    <3>. QED
      BY <3>1, <3>2 DEF NextStep
  <2>2. UNCHANGED <<cur, step, userGone>>
    BY <1>8 DEF FindStep
  <2>3. \A o : Completed(o)' = Completed(o)
    BY <2>2 DEF Completed
  <2>4. ASSUME NEW v \in Workers, pc'[v] \in AtStep, NEW t \in 1 .. active'[v] - 1
        PROVE  t \in Completed(cur[v])
    <3>1. CASE v = w
      BY <1>8, <2>1, <2>4, <3>1 DEF FindStep
    <3>2. CASE v # w
      BY <1>8, <2>4, <3>2 DEF FindStep
    <3>. QED
      BY <3>1, <3>2
  <2>. QED
    BY <2>2, <2>3, <2>4
<1>9. ASSUME NEW w \in Workers, FindNoStep(w) PROVE HandlersAfterPredecessors'
  BY <1>9, <1>0 DEF FindNoStep, Goto
<1>10. ASSUME NEW w \in Workers, MarkStepProcessing(w) PROVE HandlersAfterPredecessors'
  <2>1. UNCHANGED <<cur, active, userGone>>
    BY <1>10 DEF MarkStepProcessing
  <2>2. ASSUME NEW v \in Workers, pc'[v] \in AtStep PROVE pc[v] \in AtStep
    BY <1>10, <2>2 DEF MarkStepProcessing
  <2>. QED
    BY <1>0, <2>1, <2>2
<1>11. ASSUME NEW w \in Workers, HandlerDone(w) PROVE HandlersAfterPredecessors'
  BY <1>11, <1>0 DEF HandlerDone, Report
<1>12. ASSUME NEW w \in Workers, VerifyGate(w) PROVE HandlersAfterPredecessors'
  <2>1. UNCHANGED <<cur, active, userGone>>
    BY <1>12 DEF VerifyGate, Report, Goto
  <2>2. ASSUME NEW v \in Workers, pc'[v] \in AtStep PROVE pc[v] \in AtStep
    BY <1>12, <2>2 DEF VerifyGate, Report, Goto
  <2>. QED
    BY <1>0, <2>1, <2>2
<1>13. ASSUME NEW w \in Workers, DeleteUser(w) PROVE HandlersAfterPredecessors'
  <2>1. cur[w] \in Ops /\ Steps \ {Last} \subseteq Completed(cur[w])
    <3>1. pc[w] = "verify" /\ active[w] = Last /\ cur[w] \in Ops
      BY <1>13 DEF DeleteUser
    <3>2. \A t \in 1 .. Last - 1 : t \in Completed(cur[w])
      BY <3>1
    <3>. QED
      BY <3>1, <3>2
  <2>2. UNCHANGED <<cur, step, active>> /\ userGone' = [userGone EXCEPT ![cur[w]] = TRUE]
    BY <1>13 DEF DeleteUser, Goto
  <2>3. \A o : Completed(o)' = Completed(o)
    BY <2>2 DEF Completed
  <2>4. ASSUME NEW v \in Workers, pc'[v] \in AtStep
        PROVE  \A t \in 1 .. active[v] - 1 : t \in Completed(cur[v])
    BY <1>13, <2>4 DEF DeleteUser, Goto
  <2>5. \A o \in Ops : userGone'[o] => Steps \ {Last} \subseteq Completed(o)
    BY <2>1, <2>2
  <2>. QED
    BY <2>2, <2>3, <2>4, <2>5
<1>28. ASSUME NEW w \in Workers, PostCheck(w) PROVE HandlersAfterPredecessors'
  BY <1>28, <1>0 DEF PostCheck, Report
<1>14. ASSUME NEW w \in Workers, MarkStepCompleted(w) PROVE HandlersAfterPredecessors'
  BY <1>14, <1>0 DEF MarkStepCompleted, SetStep, Writable, Holds, Goto
<1>15. ASSUME NEW w \in Workers, ClearRetryStart(w) PROVE HandlersAfterPredecessors'
  BY <1>15, <1>0 DEF ClearRetryStart, Holds
<1>16. ASSUME NEW w \in Workers, MarkStepPending(w) PROVE HandlersAfterPredecessors'
  <2>1. \A o \in Ops : Completed(o)' = Completed(o)
    BY <1>16, QuietWrites
  <2>2. UNCHANGED <<cur, userGone>>
    BY <1>16 DEF MarkStepPending
  <2>3. ASSUME NEW v \in Workers, pc'[v] \in AtStep
        PROVE  cur[v] \in Ops /\ \A t \in 1 .. active'[v] - 1 : t \in Completed(cur[v])
    BY <1>16, <2>3 DEF MarkStepPending
  <2>. QED
    BY <2>1, <2>2, <2>3
<1>17. ASSUME NEW w \in Workers, YieldOperation(w) PROVE HandlersAfterPredecessors'
  BY <1>17, <1>0 DEF YieldOperation, Leave, Holds
<1>18. ASSUME NEW w \in Workers, CompleteOperation(w) PROVE HandlersAfterPredecessors'
  <2>1. UNCHANGED <<step, userGone>>
    BY <1>18 DEF CompleteOperation
  <2>2. \A o : Completed(o)' = Completed(o)
    BY <2>1 DEF Completed
  <2>3. ASSUME NEW v \in Workers, pc'[v] \in AtStep
        PROVE  pc[v] \in AtStep /\ cur'[v] = cur[v] /\ active'[v] = active[v]
    BY <1>18, <2>3 DEF CompleteOperation, Leave, Goto
  <2>4. ASSUME NEW v \in Workers, pc[v] \in AtStep
        PROVE  \A t \in 1 .. active[v] - 1 : t \in Completed(cur[v])
    BY <2>4
  <2>. QED
    BY <2>1, <2>2, <2>3, <2>4
<1>19. ASSUME NEW w \in Workers, MarkStepRetrying(w) PROVE HandlersAfterPredecessors'
  BY <1>19, <1>0 DEF MarkStepRetrying, SetStep, Writable, Holds, Goto
<1>20. ASSUME NEW w \in Workers, RetryOperation(w) PROVE HandlersAfterPredecessors'
  BY <1>20, <1>0 DEF RetryOperation, Leave, Holds
<1>21. ASSUME NEW w \in Workers, SendRenewal(w) PROVE HandlersAfterPredecessors'
  BY <1>21, <1>0 DEF SendRenewal
<1>22. ASSUME NEW w \in Workers, HandlerMore(w) PROVE HandlersAfterPredecessors'
  BY <1>22, <1>0 DEF HandlerMore, Report
<1>23. ASSUME NEW w \in Workers, Throw(w) PROVE HandlersAfterPredecessors'
  BY <1>23, <1>0 DEF Throw
<1>24. ASSUME NEW w \in Workers, Crash(w) PROVE HandlersAfterPredecessors'
  BY <1>24, <1>0 DEF Crash, Idle
<1>25. ASSUME NEW o \in Ops, NEW u \in Tokens, ApplyRenewal(o, u) PROVE HandlersAfterPredecessors'
  BY <1>25, <1>0 DEF ApplyRenewal, Hears
<1>26. ASSUME NEW o \in Ops, NEW u \in Tokens, LoseRenewal(o, u) PROVE HandlersAfterPredecessors'
  BY <1>26, <1>0 DEF LoseRenewal, Hears
<1>27. CASE UNCHANGED vars
  BY <1>27, <1>0 DEF vars
<1>. QED
  BY <1>1, <1>2, <1>3, <1>4, <1>5, <1>6, <1>7, <1>8, <1>9, <1>10, <1>11, <1>12, <1>13, <1>28, <1>14, <1>15, <1>16, <1>17, <1>18, <1>19, <1>20, <1>21, <1>22, <1>23, <1>24, <1>25, <1>26, <1>27 DEF Next, WorkerStep

(* The last step is over only after the users row has gone. *)
LEMMA CompletionStep == IndInv /\ [Next]_vars => CompletionShape'
<1>. USE NumStepsAssumption, NoneAssumption
<1>. SUFFICES ASSUME IndInv, [Next]_vars PROVE CompletionShape'
  OBVIOUS
<1>. USE DEF IndInv, TypeOK, RowsOK, DataOK, ProcsOK, ControlShape, AtStep, CompletionShape, rows, data, procs, Steps, Last
<1>1. ASSUME NEW o \in Ops, Accept(o) PROVE CompletionShape'
  BY <1>1 DEF Accept, Completed
<1>2. ASSUME NEW o \in Ops, DelayElapses(o) PROVE CompletionShape'
  BY <1>2 DEF DelayElapses, Completed
<1>3. ASSUME NEW o \in Ops, LeaseExpires(o) PROVE CompletionShape'
  BY <1>3 DEF LeaseExpires, Completed
<1>4. ASSUME NEW o \in Ops, Stall(o) PROVE CompletionShape'
  BY <1>4 DEF Stall, Completed
<1>5. ASSUME NEW w \in Workers, NEW S \in SUBSET Ops, NEW u \in Tokens, Claim(w, S, u) PROVE CompletionShape'
  BY <1>5 DEF Claim, Completed
<1>6. ASSUME NEW w \in Workers, NEW o \in Ops, PickOperation(w, o) PROVE CompletionShape'
  BY <1>6 DEF PickOperation, Completed
<1>7. ASSUME NEW w \in Workers, EndBatch(w) PROVE CompletionShape'
  BY <1>7 DEF EndBatch, Idle, Completed
<1>8. ASSUME NEW w \in Workers, NEW s \in Steps, FindStep(w, s) PROVE CompletionShape'
  BY <1>8 DEF FindStep, NextStep, Completed
<1>9. ASSUME NEW w \in Workers, FindNoStep(w) PROVE CompletionShape'
  BY <1>9 DEF FindNoStep, Goto, Completed
<1>10. ASSUME NEW w \in Workers, MarkStepProcessing(w) PROVE CompletionShape'
  <2>1. \A o \in Ops : Completed(o)' = Completed(o)
    BY <1>10, QuietWrites
  <2>2. UNCHANGED <<cur, userGone>>
    BY <1>10 DEF MarkStepProcessing, Completed
  <2>3. ASSUME NEW v \in Workers, pc'[v] \in {"reportDone", "recheck"} PROVE pc'[v] = pc[v] /\ active'[v] = active[v]
    BY <1>10, <2>3 DEF MarkStepProcessing
  <2>. QED
    BY <2>1, <2>2, <2>3
<1>11. ASSUME NEW w \in Workers, HandlerDone(w) PROVE CompletionShape'
  BY <1>11 DEF HandlerDone, Report, Completed
<1>12. ASSUME NEW w \in Workers, VerifyGate(w) PROVE CompletionShape'
  BY <1>12 DEF VerifyGate, Report, Goto, CompletedMeansErased, Completed
<1>13. ASSUME NEW w \in Workers, DeleteUser(w) PROVE CompletionShape'
  BY <1>13 DEF DeleteUser, Goto, Completed
<1>28. ASSUME NEW w \in Workers, PostCheck(w) PROVE CompletionShape'
  BY <1>28 DEF PostCheck, Report, Completed
<1>14. ASSUME NEW w \in Workers, MarkStepCompleted(w) PROVE CompletionShape'
  <2>1. active[w] = Last => userGone[cur[w]]
    BY <1>14 DEF MarkStepCompleted, Completed
  <2>2. UNCHANGED <<cur, userGone, active>>
    BY <1>14 DEF MarkStepCompleted, Goto, Completed
  <2>3. ASSUME NEW v \in Workers, pc'[v] \in {"reportDone", "recheck"} PROVE pc'[v] = pc[v]
    BY <1>14, <2>3 DEF MarkStepCompleted, Goto
  <2>0. /\ cur[w] \in Ops /\ active[w] \in Steps
        /\ \/ \A c \in Ops : Completed(c)' =
                 IF c = cur[w] THEN Completed(c) \cup {active[w]} ELSE Completed(c)
           \/ \A c \in Ops : Completed(c)' = Completed(c)
    BY <1>14, CompletingWrite
  <2>4. \A o \in Ops : Last \in Completed(o)' => userGone[o]
    BY <2>1, <2>0
  <2>. QED
    BY <2>2, <2>3, <2>4
<1>15. ASSUME NEW w \in Workers, ClearRetryStart(w) PROVE CompletionShape'
  BY <1>15 DEF ClearRetryStart, Holds, Completed
<1>16. ASSUME NEW w \in Workers, MarkStepPending(w) PROVE CompletionShape'
  <2>1. \A o \in Ops : Completed(o)' = Completed(o)
    BY <1>16, QuietWrites
  <2>2. UNCHANGED <<cur, userGone>>
    BY <1>16 DEF MarkStepPending, Completed
  <2>3. ASSUME NEW v \in Workers, pc'[v] \in {"reportDone", "recheck"} PROVE pc'[v] = pc[v] /\ active'[v] = active[v]
    BY <1>16, <2>3 DEF MarkStepPending
  <2>. QED
    BY <2>1, <2>2, <2>3
<1>17. ASSUME NEW w \in Workers, YieldOperation(w) PROVE CompletionShape'
  BY <1>17 DEF YieldOperation, Leave, Holds, Completed
<1>18. ASSUME NEW w \in Workers, CompleteOperation(w) PROVE CompletionShape'
  BY <1>18 DEF CompleteOperation, Leave, Goto, Holds, Completed
<1>19. ASSUME NEW w \in Workers, MarkStepRetrying(w) PROVE CompletionShape'
  <2>1. \A o \in Ops : Completed(o)' = Completed(o)
    BY <1>19, QuietWrites
  <2>2. UNCHANGED <<cur, userGone>>
    BY <1>19 DEF MarkStepRetrying, Goto, Completed
  <2>3. ASSUME NEW v \in Workers, pc'[v] \in {"reportDone", "recheck"} PROVE pc'[v] = pc[v] /\ active'[v] = active[v]
    BY <1>19, <2>3 DEF MarkStepRetrying, Goto
  <2>. QED
    BY <2>1, <2>2, <2>3
<1>20. ASSUME NEW w \in Workers, RetryOperation(w) PROVE CompletionShape'
  BY <1>20 DEF RetryOperation, Leave, Holds, Completed
<1>21. ASSUME NEW w \in Workers, SendRenewal(w) PROVE CompletionShape'
  BY <1>21 DEF SendRenewal, Completed
<1>22. ASSUME NEW w \in Workers, HandlerMore(w) PROVE CompletionShape'
  BY <1>22 DEF HandlerMore, Report, Completed
<1>23. ASSUME NEW w \in Workers, Throw(w) PROVE CompletionShape'
  BY <1>23 DEF Throw, Completed
<1>24. ASSUME NEW w \in Workers, Crash(w) PROVE CompletionShape'
  BY <1>24 DEF Crash, Idle, Completed
<1>25. ASSUME NEW o \in Ops, NEW u \in Tokens, ApplyRenewal(o, u) PROVE CompletionShape'
  BY <1>25 DEF ApplyRenewal, Hears, Completed
<1>26. ASSUME NEW o \in Ops, NEW u \in Tokens, LoseRenewal(o, u) PROVE CompletionShape'
  BY <1>26 DEF LoseRenewal, Hears, Completed
<1>27. CASE UNCHANGED vars
  BY <1>27 DEF vars, Completed
<1>. QED
  BY <1>1, <1>2, <1>3, <1>4, <1>5, <1>6, <1>7, <1>8, <1>9, <1>10, <1>11, <1>12, <1>13, <1>28, <1>14, <1>15, <1>16, <1>17, <1>18, <1>19, <1>20, <1>21, <1>22, <1>23, <1>24, <1>25, <1>26, <1>27 DEF Next, WorkerStep

(* The completed steps stay a prefix of the order. *)
LEMMA PrefixStep == IndInv /\ [Next]_vars => StepsInOrder'
<1>. USE NumStepsAssumption, NoneAssumption
<1>. SUFFICES ASSUME IndInv, [Next]_vars PROVE StepsInOrder'
  OBVIOUS
<1>. USE DEF IndInv, TypeOK, RowsOK, DataOK, ProcsOK, ControlShape, AtStep, StepsInOrder, HandlersAfterPredecessors, rows, data, procs, Steps, Last
<1>1. ASSUME NEW o \in Ops, Accept(o) PROVE StepsInOrder'
  BY <1>1 DEF Accept, Completed
<1>2. ASSUME NEW o \in Ops, DelayElapses(o) PROVE StepsInOrder'
  BY <1>2 DEF DelayElapses, Completed
<1>3. ASSUME NEW o \in Ops, LeaseExpires(o) PROVE StepsInOrder'
  BY <1>3 DEF LeaseExpires, Completed
<1>4. ASSUME NEW o \in Ops, Stall(o) PROVE StepsInOrder'
  BY <1>4 DEF Stall, Completed
<1>5. ASSUME NEW w \in Workers, NEW S \in SUBSET Ops, NEW u \in Tokens, Claim(w, S, u) PROVE StepsInOrder'
  BY <1>5 DEF Claim, Completed
<1>6. ASSUME NEW w \in Workers, NEW o \in Ops, PickOperation(w, o) PROVE StepsInOrder'
  BY <1>6 DEF PickOperation, Completed
<1>7. ASSUME NEW w \in Workers, EndBatch(w) PROVE StepsInOrder'
  BY <1>7 DEF EndBatch, Idle, Completed
<1>8. ASSUME NEW w \in Workers, NEW s \in Steps, FindStep(w, s) PROVE StepsInOrder'
  BY <1>8 DEF FindStep, NextStep, Completed
<1>9. ASSUME NEW w \in Workers, FindNoStep(w) PROVE StepsInOrder'
  BY <1>9 DEF FindNoStep, Goto, Completed
<1>10. ASSUME NEW w \in Workers, MarkStepProcessing(w) PROVE StepsInOrder'
  <2>1. \A o \in Ops : Completed(o)' = Completed(o)
    BY <1>10, QuietWrites
  <2>. QED
    BY <2>1
<1>11. ASSUME NEW w \in Workers, HandlerDone(w) PROVE StepsInOrder'
  BY <1>11 DEF HandlerDone, Report, Completed
<1>12. ASSUME NEW w \in Workers, VerifyGate(w) PROVE StepsInOrder'
  BY <1>12 DEF VerifyGate, Report, Goto, Completed
<1>13. ASSUME NEW w \in Workers, DeleteUser(w) PROVE StepsInOrder'
  BY <1>13 DEF DeleteUser, Goto, Completed
<1>28. ASSUME NEW w \in Workers, PostCheck(w) PROVE StepsInOrder'
  BY <1>28 DEF PostCheck, Report, Completed
<1>14. ASSUME NEW w \in Workers, MarkStepCompleted(w) PROVE StepsInOrder'
  <2>1. \A t \in 1 .. active[w] - 1 : t \in Completed(cur[w])
    BY <1>14 DEF MarkStepCompleted
  <2>0. /\ cur[w] \in Ops /\ active[w] \in Steps
        /\ \/ \A c \in Ops : Completed(c)' =
                 IF c = cur[w] THEN Completed(c) \cup {active[w]} ELSE Completed(c)
           \/ \A c \in Ops : Completed(c)' = Completed(c)
    BY <1>14, CompletingWrite
  <2>2. ASSUME NEW o \in Ops, NEW s \in Completed(o)', NEW t \in Steps, t < s
        PROVE  t \in Completed(o)'
    <3>1. CASE s \in Completed(o)
      <4>1. t \in Completed(o)
        BY <2>2, <3>1
      <4>. QED
        BY <2>0, <4>1
    <3>2. CASE s \notin Completed(o)
      <4>1. o = cur[w] /\ s = active[w]
        BY <2>0, <2>2, <3>2
      <4>2. t \in 1 .. active[w] - 1
        BY <2>0, <2>2, <4>1
      <4>. QED
        BY <2>1, <2>0, <4>1, <4>2
    <3>. QED
      BY <3>1, <3>2
  <2>. QED
    BY <2>2
<1>15. ASSUME NEW w \in Workers, ClearRetryStart(w) PROVE StepsInOrder'
  BY <1>15 DEF ClearRetryStart, Holds, Completed
<1>16. ASSUME NEW w \in Workers, MarkStepPending(w) PROVE StepsInOrder'
  <2>1. \A o \in Ops : Completed(o)' = Completed(o)
    BY <1>16, QuietWrites
  <2>. QED
    BY <2>1
<1>17. ASSUME NEW w \in Workers, YieldOperation(w) PROVE StepsInOrder'
  BY <1>17 DEF YieldOperation, Leave, Holds, Completed
<1>18. ASSUME NEW w \in Workers, CompleteOperation(w) PROVE StepsInOrder'
  BY <1>18 DEF CompleteOperation, Leave, Goto, Holds, Completed
<1>19. ASSUME NEW w \in Workers, MarkStepRetrying(w) PROVE StepsInOrder'
  <2>1. \A o \in Ops : Completed(o)' = Completed(o)
    BY <1>19, QuietWrites
  <2>. QED
    BY <2>1
<1>20. ASSUME NEW w \in Workers, RetryOperation(w) PROVE StepsInOrder'
  BY <1>20 DEF RetryOperation, Leave, Holds, Completed
<1>21. ASSUME NEW w \in Workers, SendRenewal(w) PROVE StepsInOrder'
  BY <1>21 DEF SendRenewal, Completed
<1>22. ASSUME NEW w \in Workers, HandlerMore(w) PROVE StepsInOrder'
  BY <1>22 DEF HandlerMore, Report, Completed
<1>23. ASSUME NEW w \in Workers, Throw(w) PROVE StepsInOrder'
  BY <1>23 DEF Throw, Completed
<1>24. ASSUME NEW w \in Workers, Crash(w) PROVE StepsInOrder'
  BY <1>24 DEF Crash, Idle, Completed
<1>25. ASSUME NEW o \in Ops, NEW u \in Tokens, ApplyRenewal(o, u) PROVE StepsInOrder'
  BY <1>25 DEF ApplyRenewal, Hears, Completed
<1>26. ASSUME NEW o \in Ops, NEW u \in Tokens, LoseRenewal(o, u) PROVE StepsInOrder'
  BY <1>26 DEF LoseRenewal, Hears, Completed
<1>27. CASE UNCHANGED vars
  BY <1>27 DEF vars, Completed
<1>. QED
  BY <1>1, <1>2, <1>3, <1>4, <1>5, <1>6, <1>7, <1>8, <1>9, <1>10, <1>11, <1>12, <1>13, <1>28, <1>14, <1>15, <1>16, <1>17, <1>18, <1>19, <1>20, <1>21, <1>22, <1>23, <1>24, <1>25, <1>26, <1>27 DEF Next, WorkerStep

(* A completed operation stays completed in full. *)
LEMMA ErasedStep == IndInv /\ [Next]_vars => CompletedMeansErased'
<1>. USE NumStepsAssumption, NoneAssumption
<1>. SUFFICES ASSUME IndInv, [Next]_vars PROVE CompletedMeansErased'
  OBVIOUS
<1>. USE DEF IndInv, TypeOK, RowsOK, DataOK, ProcsOK, ControlShape, AtStep, CompletedMeansErased, CompletionShape, rows, data, procs, Steps, Last
<1>1. ASSUME NEW o \in Ops, Accept(o) PROVE CompletedMeansErased'
  BY <1>1 DEF Accept, Completed
<1>2. ASSUME NEW o \in Ops, DelayElapses(o) PROVE CompletedMeansErased'
  BY <1>2 DEF DelayElapses, Completed
<1>3. ASSUME NEW o \in Ops, LeaseExpires(o) PROVE CompletedMeansErased'
  BY <1>3 DEF LeaseExpires, Completed
<1>4. ASSUME NEW o \in Ops, Stall(o) PROVE CompletedMeansErased'
  BY <1>4 DEF Stall, Completed
<1>5. ASSUME NEW w \in Workers, NEW S \in SUBSET Ops, NEW u \in Tokens, Claim(w, S, u) PROVE CompletedMeansErased'
  BY <1>5 DEF Claim, Completed, Claimable
<1>6. ASSUME NEW w \in Workers, NEW o \in Ops, PickOperation(w, o) PROVE CompletedMeansErased'
  BY <1>6 DEF PickOperation, Completed
<1>7. ASSUME NEW w \in Workers, EndBatch(w) PROVE CompletedMeansErased'
  BY <1>7 DEF EndBatch, Idle, Completed
<1>8. ASSUME NEW w \in Workers, NEW s \in Steps, FindStep(w, s) PROVE CompletedMeansErased'
  BY <1>8 DEF FindStep, NextStep, Completed
<1>9. ASSUME NEW w \in Workers, FindNoStep(w) PROVE CompletedMeansErased'
  BY <1>9 DEF FindNoStep, Goto, Completed
<1>10. ASSUME NEW w \in Workers, MarkStepProcessing(w) PROVE CompletedMeansErased'
  <2>1. \A o \in Ops : Completed(o)' = Completed(o)
    BY <1>10, QuietWrites
  <2>2. UNCHANGED <<rows, userGone>>
    BY <1>10 DEF MarkStepProcessing
  <2>. QED
    BY <2>1, <2>2
<1>11. ASSUME NEW w \in Workers, HandlerDone(w) PROVE CompletedMeansErased'
  BY <1>11 DEF HandlerDone, Report, Completed
<1>12. ASSUME NEW w \in Workers, VerifyGate(w) PROVE CompletedMeansErased'
  BY <1>12 DEF VerifyGate, Report, Goto, Completed
<1>13. ASSUME NEW w \in Workers, DeleteUser(w) PROVE CompletedMeansErased'
  BY <1>13 DEF DeleteUser, Goto, Completed
<1>28. ASSUME NEW w \in Workers, PostCheck(w) PROVE CompletedMeansErased'
  BY <1>28 DEF PostCheck, Report, Completed
<1>14. ASSUME NEW w \in Workers, MarkStepCompleted(w) PROVE CompletedMeansErased'
  <2>1. UNCHANGED <<rows, userGone>>
    BY <1>14 DEF MarkStepCompleted
  <2>0. /\ cur[w] \in Ops /\ active[w] \in Steps
        /\ \/ \A c \in Ops : Completed(c)' =
                 IF c = cur[w] THEN Completed(c) \cup {active[w]} ELSE Completed(c)
           \/ \A c \in Ops : Completed(c)' = Completed(c)
    BY <1>14, CompletingWrite
  <2>2. \A o \in Ops : Completed(o) \subseteq Steps
    BY DEF Completed
  <2>3. \A o \in Ops : Completed(o) \subseteq Completed(o)' /\ Completed(o)' \subseteq Steps
    BY <2>0, <2>2
  <2>. QED
    BY <2>1, <2>3
<1>15. ASSUME NEW w \in Workers, ClearRetryStart(w) PROVE CompletedMeansErased'
  BY <1>15 DEF ClearRetryStart, Holds, Completed
<1>16. ASSUME NEW w \in Workers, MarkStepPending(w) PROVE CompletedMeansErased'
  <2>1. \A o \in Ops : Completed(o)' = Completed(o)
    BY <1>16, QuietWrites
  <2>2. UNCHANGED <<rows, userGone>>
    BY <1>16 DEF MarkStepPending
  <2>. QED
    BY <2>1, <2>2
<1>17. ASSUME NEW w \in Workers, YieldOperation(w) PROVE CompletedMeansErased'
  BY <1>17 DEF YieldOperation, Leave, Holds, Completed
<1>18. ASSUME NEW w \in Workers, CompleteOperation(w) PROVE CompletedMeansErased'
  <2>1. UNCHANGED <<step, userGone>> /\ cur[w] \in Ops
    BY <1>18 DEF CompleteOperation
  <2>2. \A o : Completed(o)' = Completed(o)
    BY <2>1 DEF Completed
  <2>3. CASE Holds(w, cur[w]) /\ Completed(cur[w]) = Steps
    <3>1. userGone[cur[w]]
      BY <2>1, <2>3
    <3>2. /\ status' = [status EXCEPT ![cur[w]] = "completed"]
          /\ owner' = [owner EXCEPT ![cur[w]] = None]
          /\ lease' = [lease EXCEPT ![cur[w]] = "none"]
          /\ alarm' = [alarm EXCEPT ![cur[w]] = FALSE]
      BY <1>18, <2>3 DEF CompleteOperation
    <3>. QED
      BY <2>1, <2>2, <2>3, <3>1, <3>2
  <2>4. CASE ~(Holds(w, cur[w]) /\ Completed(cur[w]) = Steps)
    <3>1. UNCHANGED <<status, owner, lease, alarm>>
      BY <1>18, <2>4 DEF CompleteOperation
    <3>. QED
      BY <2>1, <2>2, <3>1
  <2>. QED
    BY <2>3, <2>4
<1>19. ASSUME NEW w \in Workers, MarkStepRetrying(w) PROVE CompletedMeansErased'
  <2>1. \A o \in Ops : Completed(o)' = Completed(o)
    BY <1>19, QuietWrites
  <2>2. UNCHANGED <<rows, userGone>>
    BY <1>19 DEF MarkStepRetrying
  <2>. QED
    BY <2>1, <2>2
<1>20. ASSUME NEW w \in Workers, RetryOperation(w) PROVE CompletedMeansErased'
  BY <1>20 DEF RetryOperation, Leave, Holds, Completed
<1>21. ASSUME NEW w \in Workers, SendRenewal(w) PROVE CompletedMeansErased'
  BY <1>21 DEF SendRenewal, Completed
<1>22. ASSUME NEW w \in Workers, HandlerMore(w) PROVE CompletedMeansErased'
  BY <1>22 DEF HandlerMore, Report, Completed
<1>23. ASSUME NEW w \in Workers, Throw(w) PROVE CompletedMeansErased'
  BY <1>23 DEF Throw, Completed
<1>24. ASSUME NEW w \in Workers, Crash(w) PROVE CompletedMeansErased'
  BY <1>24 DEF Crash, Idle, Completed
<1>25. ASSUME NEW o \in Ops, NEW u \in Tokens, ApplyRenewal(o, u) PROVE CompletedMeansErased'
  BY <1>25 DEF ApplyRenewal, Hears, Completed
<1>26. ASSUME NEW o \in Ops, NEW u \in Tokens, LoseRenewal(o, u) PROVE CompletedMeansErased'
  BY <1>26 DEF LoseRenewal, Hears, Completed
<1>27. CASE UNCHANGED vars
  BY <1>27 DEF vars, Completed
<1>. QED
  BY <1>1, <1>2, <1>3, <1>4, <1>5, <1>6, <1>7, <1>8, <1>9, <1>10, <1>11, <1>12, <1>13, <1>28, <1>14, <1>15, <1>16, <1>17, <1>18, <1>19, <1>20, <1>21, <1>22, <1>23, <1>24, <1>25, <1>26, <1>27 DEF Next, WorkerStep

(* The inductive invariant holds of every reachable state. *)
THEOREM Invariant == Spec => []IndInv
<1>1. Init => IndInv
  <2>. SUFFICES ASSUME Init PROVE IndInv
    OBVIOUS
  <2>. USE NumStepsAssumption, MaxFaultsAssumption, NoneAssumption DEF Init, Steps
  <2>1. TypeOK
    BY DEF TypeOK, RowsOK, DataOK, ProcsOK, OpStatus, StepStatus, Control
  <2>2. ControlShape
    BY DEF ControlShape, AtStep
  <2>3. \A o \in Ops : Completed(o) = {}
    BY DEF Completed
  <2>4. StepsInOrder /\ HandlersAfterPredecessors /\ CompletionShape /\ CompletedMeansErased
    BY <2>3 DEF StepsInOrder, HandlersAfterPredecessors, CompletionShape,
                CompletedMeansErased, AtStep
  <2>. QED
    BY <2>1, <2>2, <2>4 DEF IndInv
<1>2. IndInv /\ [Next]_vars => IndInv'
  <2>1. IndInv => TypeOK /\ ControlShape
    BY DEF IndInv
  <2>. QED
    BY <2>1, TypeStep, ShapeStep, PrefixStep, OrderStep, CompletionStep, ErasedStep DEF IndInv
<1>. QED
  BY <1>1, <1>2, PTL DEF Spec

(* Every variable stays in its type. *)
THEOREM TypeCorrect == Spec => []TypeOK
<1>1. IndInv => TypeOK
  BY DEF IndInv
<1>. QED
  BY <1>1, Invariant, PTL

(* No step of an operation is over before all the earlier ones are. *)
THEOREM CleanupInOrder == Spec => []StepsInOrder
<1>1. IndInv => StepsInOrder
  BY DEF IndInv
<1>. QED
  BY <1>1, Invariant, PTL

(* A handler runs, under a lease or after losing it, only when the earlier steps are over;
   the users row is deleted only when the cleanup is. *)
THEOREM UserDeletedLast == Spec => []HandlersAfterPredecessors
<1>1. IndInv => HandlersAfterPredecessors
  BY DEF IndInv
<1>. QED
  BY <1>1, Invariant, PTL

(* An operation is reported completed only when every step is over and the user is gone. *)
THEOREM CompletedIsErased == Spec => []CompletedMeansErased
<1>1. IndInv => CompletedMeansErased
  BY DEF IndInv
<1>. QED
  BY <1>1, Invariant, PTL

(* At most one batch passes the fence of an operation. *)
THEOREM AtMostOneWriter == Spec => []OneWriter
<1>1. IndInv => OneWriter
  <2>. SUFFICES ASSUME IndInv, NEW v \in Workers, NEW w \in Workers, NEW o \in Ops,
                       cur[v] = o, cur[w] = o, Holds(v, o), Holds(w, o)
                PROVE  v = w
    BY DEF OneWriter
  <2>1. ControlShape
    BY DEF IndInv
  <2>2. token[v] = token[w]
    BY DEF Holds
  <2>3. token[w] # None
    BY <2>1 DEF ControlShape
  <2>. QED
    BY <2>1, <2>2, <2>3 DEF ControlShape
<1>. QED
  BY <1>1, Invariant, PTL

-----------------------------------------------------------------------------
(* The contract *)

(* Phases, completed steps and deleted users all as they were: the contract stutters. *)
LEMMA Stutter ==
  ASSUME \A o \in Ops : Phase(o)' = Phase(o), \A o \in Ops : Completed(o)' = Completed(o),
         userGone' = userGone
  PROVE  UNCHANGED Contract!vars
  BY DEF Contract!vars

(* The contract's accept. *)
LEMMA AcceptRefines ==
  ASSUME IndInv, NEW o \in Ops, Accept(o)
  PROVE  Contract!Accept(o)
  <1>1. status \in [Ops -> OpStatus]
    BY DEF IndInv, TypeOK, RowsOK
  <1>2. UNCHANGED <<step, userGone>> /\ status' = [status EXCEPT ![o] = "pending"]
    BY DEF Accept, data
  <1>3. \A c \in Ops : Phase(c)' = IF c = o THEN "accepted" ELSE Phase(c)
    BY <1>1, <1>2 DEF Phase
  <1>4. Phase(o) = "requested"
    BY DEF Accept, Phase
  <1>5. \A c : Completed(c)' = Completed(c)
    BY <1>2 DEF Completed
  <1>. QED
    BY <1>2, <1>3, <1>4, <1>5 DEF Contract!Accept

(* A step recorded as completed is the contract's next step. *)
LEMMA StepRefines ==
  ASSUME IndInv, NEW w \in Workers, MarkStepCompleted(w)
  PROVE  [Contract!Next]_(Contract!vars)
  <1>1. UNCHANGED <<status, userGone>>
    BY DEF MarkStepCompleted, rows
  <1>2. \A c \in Ops : Phase(c)' = Phase(c)
    BY <1>1 DEF Phase
  <1>3. CASE \A c \in Ops : Completed(c)' = Completed(c)
    BY <1>1, <1>2, <1>3, Stutter
  <1>4. CASE /\ cur[w] \in Ops /\ active[w] \in Steps /\ Writable(w)
             /\ \A c \in Ops : Completed(c)' =
                  IF c = cur[w] THEN Completed(c) \cup {active[w]} ELSE Completed(c)
    <2>1. Phase(cur[w]) = "accepted"
      BY <1>4 DEF Writable, Holds, Phase
    <2>2. active[w] \notin Completed(cur[w])
      BY <1>4 DEF Writable, Completed
    <2>3. 1 .. active[w] - 1 \subseteq Completed(cur[w])
      BY DEF IndInv, HandlersAfterPredecessors, AtStep, MarkStepCompleted
    <2>4. active[w] = NumSteps => userGone[cur[w]]
      BY DEF IndInv, CompletionShape, MarkStepCompleted, Last
    <2>5. Contract!FinishStep(cur[w], active[w])
      BY <1>1, <1>2, <1>4, <2>1, <2>2, <2>3, <2>4 DEF Contract!FinishStep
    <2>. QED
      BY <1>4, <2>5 DEF Contract!Next, Contract!Work, Contract!Steps, Steps
  <1>. QED
    BY <1>3, <1>4, CompletingWrite

(* The users row goes when the contract lets it go. *)
LEMMA EraseRefines ==
  ASSUME IndInv, NEW w \in Workers, DeleteUser(w)
  PROVE  [Contract!Next]_(Contract!vars)
  <1>1. TypeOK /\ ControlShape /\ HandlersAfterPredecessors /\ CompletionShape /\ CompletedMeansErased
    BY DEF IndInv
  <1>2. cur[w] \in Ops /\ active[w] = Last
    BY <1>1 DEF ControlShape, DeleteUser
  <1>3. 1 .. NumSteps - 1 \subseteq Completed(cur[w])
    BY <1>1, <1>2 DEF HandlersAfterPredecessors, AtStep, DeleteUser, Last
  <1>4. UNCHANGED <<status, step>> /\ userGone' = [userGone EXCEPT ![cur[w]] = TRUE]
    BY DEF DeleteUser, rows
  <1>5. /\ \A c \in Ops : Phase(c)' = Phase(c)
        /\ \A c \in Ops : Completed(c)' = Completed(c)
    BY <1>4 DEF Phase, Completed
  <1>6. CASE userGone[cur[w]]
    <2>1. userGone' = userGone
      BY <1>1, <1>2, <1>4, <1>6 DEF TypeOK, DataOK
    <2>. QED
      BY <1>5, <2>1, Stutter
  <1>7. CASE ~userGone[cur[w]]
    <2>1. status[cur[w]] # "completed"
      BY <1>1, <1>2, <1>7 DEF CompletedMeansErased
    <2>2. status[cur[w]] # "not_started"
      BY <1>1, <1>2 DEF ControlShape
    <2>3. Phase(cur[w]) = "accepted"
      BY <2>1, <2>2 DEF Phase
    <2>4. Contract!Erase(cur[w])
      BY <1>2, <1>3, <1>4, <1>5, <2>3 DEF Contract!Erase
    <2>. QED
      BY <1>2, <2>4 DEF Contract!Next, Contract!Work
  <1>. QED
    BY <1>6, <1>7

(* The end of an operation is the contract's. *)
LEMMA FinishRefines ==
  ASSUME IndInv, NEW w \in Workers, CompleteOperation(w)
  PROVE  [Contract!Next]_(Contract!vars)
  <1>1. TypeOK /\ ControlShape
    BY DEF IndInv
  <1>2. cur[w] \in Ops
    BY <1>1 DEF ControlShape, CompleteOperation
  <1>3. UNCHANGED <<step, userGone>>
    BY DEF CompleteOperation, data
  <1>4. \A c \in Ops : Completed(c)' = Completed(c)
    BY <1>3 DEF Completed
  <1>5. CASE Holds(w, cur[w]) /\ Completed(cur[w]) = Steps
    <2>1. status' = [status EXCEPT ![cur[w]] = "completed"]
      BY <1>5 DEF CompleteOperation
    <2>2. \A c \in Ops : Phase(c)' = IF c = cur[w] THEN "completed" ELSE Phase(c)
      BY <1>1, <1>2, <2>1 DEF Phase, TypeOK, RowsOK
    <2>3. Phase(cur[w]) = "accepted"
      BY <1>5 DEF Holds, Phase
    <2>4. Contract!Finish(cur[w])
      BY <1>2, <1>3, <1>4, <1>5, <2>2, <2>3 DEF Contract!Finish, Contract!Steps, Steps
    <2>. QED
      BY <1>2, <2>4 DEF Contract!Next, Contract!Work
  <1>6. CASE ~(Holds(w, cur[w]) /\ Completed(cur[w]) = Steps)
    <2>1. status' = status
      BY <1>6 DEF CompleteOperation
    <2>2. \A c \in Ops : Phase(c)' = Phase(c)
      BY <2>1 DEF Phase
    <2>. QED
      BY <1>3, <1>4, <2>2, Stutter
  <1>. QED
    BY <1>5, <1>6

(* A status of an accepted operation changes among the ones the contract does not see. *)
LEMMA HiddenStatus ==
  ASSUME UNCHANGED <<step, userGone>>, status \in [Ops -> OpStatus],
         \A o \in Ops : status'[o] # status[o] =>
             /\ status[o] \in {"pending", "processing", "retrying"}
             /\ status'[o] \in {"pending", "processing", "retrying"}
  PROVE  UNCHANGED Contract!vars
  <1>1. \A o \in Ops : Phase(o)' = Phase(o)
    BY DEF Phase
  <1>2. \A o \in Ops : Completed(o)' = Completed(o)
    BY DEF Completed
  <1>. QED
    BY <1>1, <1>2, Stutter

(* Seen from outside, the workers do no more than the contract allows: steps in order, the
   user deleted before the last one is over, and completed for good after that. *)
THEOREM Refinement == Spec => ImplementsContract
<1>1. Init => Contract!Init
  BY DEF Init, Contract!Init, Phase, Completed
<1>2. IndInv /\ [Next]_vars => [Contract!Next]_(Contract!vars)
  <2>. SUFFICES ASSUME IndInv, [Next]_vars PROVE [Contract!Next]_(Contract!vars)
    OBVIOUS
  <2>1. status \in [Ops -> OpStatus] /\ \A w \in Workers : cur[w] \in Ops \cup {None}
    BY DEF IndInv, TypeOK, RowsOK, ProcsOK
  <2>2. CASE \E o \in Ops : Accept(o)
    BY <2>2, AcceptRefines DEF Contract!Next
  <2>3. CASE \E w \in Workers, S \in SUBSET Ops, u \in Tokens : Claim(w, S, u)
    BY <2>1, <2>3, HiddenStatus DEF Claim, Claimable, data
  <2>4. CASE \E w \in Workers : MarkStepCompleted(w)
    BY <2>4, StepRefines
  <2>5. CASE \E w \in Workers : DeleteUser(w)
    BY <2>5, EraseRefines
  <2>6. CASE \E w \in Workers : CompleteOperation(w)
    BY <2>6, FinishRefines
  <2>7. CASE \E w \in Workers : YieldOperation(w)
    BY <2>1, <2>7, HiddenStatus DEF YieldOperation, Holds, data
  <2>8. CASE \E w \in Workers : RetryOperation(w)
    BY <2>1, <2>8, HiddenStatus DEF RetryOperation, Holds, data, rows
  <2>9. CASE \E w \in Workers :
                MarkStepProcessing(w) \/ MarkStepPending(w) \/ MarkStepRetrying(w)
    <3>1. UNCHANGED <<status, userGone>>
      BY <2>9 DEF MarkStepProcessing, MarkStepPending, MarkStepRetrying, rows
    <3>2. \A o \in Ops : Phase(o)' = Phase(o)
      BY <3>1 DEF Phase
    <3>. QED
      BY <2>9, <3>1, <3>2, QuietWrites, Stutter
  <2>10. CASE UNCHANGED <<status, step, userGone>>
    BY <2>1, <2>10, HiddenStatus
  <2>. QED
    BY <2>2, <2>3, <2>4, <2>5, <2>6, <2>7, <2>8, <2>9, <2>10
       DEF Next, WorkerStep, vars, rows, data, DelayElapses, LeaseExpires, Stall,
           PickOperation, EndBatch, FindStep, FindNoStep, HandlerDone, VerifyGate, PostCheck,
           ClearRetryStart, SendRenewal, HandlerMore, Throw, Crash, ApplyRenewal, LoseRenewal
<1>. QED
  BY <1>1, <1>2, Invariant, PTL DEF Spec, ImplementsContract, Contract!Spec

-----------------------------------------------------------------------------
(* The fence *)

(* Only a batch that holds the lease writes step rows. *)
LEMMA StepRowsFenced ==
  ASSUME IndInv, [Next]_vars, NEW o \in Ops, step'[o] # step[o]
  PROVE  \E w \in Workers : cur[w] = o /\ Holds(w, o) /\ pc[w] \in {"mark", "reportDone", "reportMore", "catch"}
  <1>. USE DEF SetStep, Writable
  <1>1. step \in [Ops -> [Steps -> StepStatus]]
    BY DEF IndInv, TypeOK, DataOK
  <1>2. CASE \E w \in Workers : MarkStepProcessing(w)
    BY <1>1, <1>2 DEF MarkStepProcessing
  <1>3. CASE \E w \in Workers : MarkStepCompleted(w)
    BY <1>1, <1>3 DEF MarkStepCompleted
  <1>4. CASE \E w \in Workers : MarkStepPending(w)
    BY <1>1, <1>4 DEF MarkStepPending
  <1>5. CASE \E w \in Workers : MarkStepRetrying(w)
    BY <1>1, <1>5 DEF MarkStepRetrying
  <1>. QED
    BY <1>2, <1>3, <1>4, <1>5
       DEF Next, WorkerStep, vars, data, Accept, DelayElapses, LeaseExpires, Stall, Claim,
           PickOperation, EndBatch, FindStep, FindNoStep, HandlerDone, VerifyGate, DeleteUser, PostCheck,
           ClearRetryStart, YieldOperation, CompleteOperation, RetryOperation, SendRenewal,
           HandlerMore, Throw, Crash, ApplyRenewal, LoseRenewal

(* A completed operation is left alone by every statement, renewal and claim. *)
THEOREM CompletedStays == Spec => CompletedIsFinal
<1>1. IndInv /\ [Next]_vars =>
        \A o \in Ops : status[o] = "completed" =>
           UNCHANGED <<status[o], owner[o], lease[o], due[o], alarm[o], step[o], userGone[o]>>
  <2>. SUFFICES ASSUME IndInv, [Next]_vars, NEW o \in Ops, status[o] = "completed"
                PROVE  UNCHANGED <<status[o], owner[o], lease[o], due[o], alarm[o], step[o], userGone[o]>>
    OBVIOUS
  <2>1. TypeOK /\ userGone[o] /\ owner[o] = None /\ lease[o] = "none" /\ ~alarm[o]
    BY DEF IndInv, CompletedMeansErased
  <2>2. UNCHANGED step[o]
    BY StepRowsFenced DEF Holds
  <2>. USE <2>1 DEF TypeOK, RowsOK, DataOK, rows, data
  <2>3. UNCHANGED userGone[o]
    BY DEF Next, WorkerStep, vars, Accept, DelayElapses, LeaseExpires, Stall, Claim,
           PickOperation, EndBatch, FindStep, FindNoStep, HandlerDone, VerifyGate, DeleteUser, PostCheck,
           ClearRetryStart, YieldOperation, CompleteOperation, RetryOperation, SendRenewal,
           HandlerMore, Throw, Crash, ApplyRenewal, LoseRenewal, MarkStepProcessing,
           MarkStepCompleted, MarkStepPending, MarkStepRetrying
  <2>4. UNCHANGED <<status[o], owner[o], lease[o], due[o], alarm[o]>>
    <3>1. CASE \E c \in Ops : Accept(c) \/ DelayElapses(c) \/ LeaseExpires(c) \/ Stall(c)
      BY <3>1 DEF Accept, DelayElapses, LeaseExpires, Stall
    <3>2. CASE \E w \in Workers, S \in SUBSET Ops, u \in Tokens : Claim(w, S, u)
      <4>1. PICK w \in Workers, S \in SUBSET Ops, u \in Tokens : Claim(w, S, u)
        BY <3>2
      <4>2. o \notin S
        BY <4>1 DEF Claim, Claimable
      <4>. QED
        BY <4>1, <4>2 DEF Claim
    <3>3. CASE \E w \in Workers : ClearRetryStart(w)
      BY <3>3 DEF ClearRetryStart
    <3>4. CASE \E w \in Workers : YieldOperation(w) \/ RetryOperation(w)
      BY <3>4 DEF YieldOperation, RetryOperation, Holds
    <3>5. CASE \E w \in Workers : CompleteOperation(w)
      BY <3>5 DEF CompleteOperation, Holds
    <3>6. CASE \E c \in Ops, u \in Tokens : ApplyRenewal(c, u)
      BY <3>6 DEF ApplyRenewal
    <3>7. CASE UNCHANGED rows
      BY <3>7
    <3>. QED
      BY <3>1, <3>2, <3>3, <3>4, <3>5, <3>6, <3>7
         DEF Next, WorkerStep, vars, PickOperation, EndBatch, FindStep, FindNoStep,
             HandlerDone, VerifyGate, DeleteUser, PostCheck, SendRenewal, HandlerMore, Throw, Crash,
             LoseRenewal, MarkStepProcessing, MarkStepCompleted, MarkStepPending, MarkStepRetrying
  <2>. QED
    BY <2>2, <2>3, <2>4
<1>. QED
  BY <1>1, Invariant, PTL DEF Spec, CompletedIsFinal

(* A batch that lost its lease changes no row any more. *)
THEOREM StaleBatchIsHarmless == Spec => StaleBatchHarmless
<1>1. IndInv /\ [Next]_vars =>
        \A w \in Workers, o \in Ops :
          pc'[w] # pc[w] /\ pc[w] # "idle" /\ cur[w] = o /\ owner[o] # token[w] =>
             UNCHANGED <<status[o], owner[o], lease[o], due[o], alarm[o], step[o]>>
  <2>. SUFFICES ASSUME IndInv, [Next]_vars, NEW w \in Workers, NEW o \in Ops,
                       pc'[w] # pc[w], pc[w] # "idle", cur[w] = o, owner[o] # token[w]
                PROVE  UNCHANGED <<status[o], owner[o], lease[o], due[o], alarm[o], step[o]>>
    OBVIOUS
  <2>1. TypeOK /\ ~Holds(w, o)
    BY DEF IndInv, Holds
  <2>. USE <2>1 DEF TypeOK, RowsOK, ProcsOK, DataOK, rows, data, procs
  <2>2. CASE \E v \in Workers : v # w /\ pc'[w] # pc[w] /\
               (WorkerStep(v) \/ SendRenewal(v) \/ HandlerMore(v) \/ Throw(v) \/ Crash(v))
    BY <2>2 DEF WorkerStep, PickOperation, EndBatch, Idle, FindStep, FindNoStep, Goto, Leave, Report,
           HandlerDone, VerifyGate, DeleteUser, PostCheck, ClearRetryStart, YieldOperation, CompleteOperation,
           RetryOperation, SendRenewal, HandlerMore, Throw, Crash, MarkStepProcessing,
           MarkStepCompleted, MarkStepPending, MarkStepRetrying
  <2>3. CASE WorkerStep(w) \/ SendRenewal(w) \/ HandlerMore(w) \/ Throw(w) \/ Crash(w)
    <3>1. CASE ClearRetryStart(w) \/ YieldOperation(w) \/ RetryOperation(w) \/ CompleteOperation(w)
      BY <3>1 DEF ClearRetryStart, YieldOperation, RetryOperation, CompleteOperation
    <3>2. CASE MarkStepProcessing(w) \/ MarkStepCompleted(w) \/ MarkStepPending(w) \/ MarkStepRetrying(w)
      BY <3>2 DEF MarkStepProcessing, MarkStepCompleted, MarkStepPending, MarkStepRetrying, Writable
    <3>3. CASE UNCHANGED <<rows, step>>
      BY <3>3
    <3>. QED
      BY <2>3, <3>1, <3>2, <3>3
         DEF WorkerStep, PickOperation, EndBatch, FindStep, FindNoStep, HandlerDone, VerifyGate,
             DeleteUser, PostCheck, SendRenewal, HandlerMore, Throw, Crash
  <2>4. CASE \E v \in Workers, S \in SUBSET Ops, u \in Tokens : Claim(v, S, u)
    <3>1. PICK v \in Workers, S \in SUBSET Ops, u \in Tokens : Claim(v, S, u)
      BY <2>4
    <3>. QED
      BY <3>1 DEF Claim
  <2>5. CASE UNCHANGED pc
    BY <2>5
  <2>. QED
    BY <2>2, <2>3, <2>4, <2>5
       DEF Next, vars, Accept, DelayElapses, LeaseExpires, Stall, ApplyRenewal, LoseRenewal
<1>. QED
  BY <1>1, Invariant, PTL DEF Spec, StaleBatchHarmless
=============================================================================
