---------------------------- MODULE PushJobsProofs ----------------------------
(***************************************************************************)
(* What the row locks of the push worker give: while the provider is       *)
(* called, everything that was read before it still holds, but for what    *)
(* others than the recipient remove; nothing is called sent that no device *)
(* took; and as long as no worker fails or is slow, no device gets a push  *)
(* twice.  For any users, jobs, devices and workers.                       *)
(***************************************************************************)
EXTENDS PushJobs, TLAPS

(* What a delivery has gathered lives and dies with its transaction.       *)
Gathered ==
    \A w \in Workers :
        /\ \A i \in held[w] \cap Jobs : pc[w] \in {"lock", "send"} /\ i = cur[w]
        /\ pc[w] # "send" => todo[w] = {} /\ revoked[w] = {} /\ ~got[w]
        /\ pc[w] \in {"lock", "send"} => (Owner[cur[w]] = Recipient[cur[w]] => target[cur[w]] # "deleted")
        /\ pc[w] = "send" => todo[w] \cup revoked[w] \subseteq devices[Recipient[cur[w]]]
        /\ got[w] => \E d \in Devices : pushes[cur[w]][d] > 0

Safe == LockInv /\ Gathered /\ SentMeansReceived

-----------------------------------------------------------------------------
(* One worker at a time *)

(* LocksOK and Gathered, for one worker.                                   *)
Stands(w) ==
    LET j == cur[w] IN
    /\ pc[w] \in {"idle", "pick"} <=> j = None
    /\ pc[w] \notin {"read", "lock", "send"} => held[w] = {}
    /\ pc[w] \in {"read", "lock", "send"} => Recipient[j] \in held[w]
    /\ pc[w] \in {"lock", "send"} => j \in held[w] /\ status[j] = "sending"
    /\ pc[w] = "send" => Parties[j] \subseteq held[w]
    /\ held[w] \cap Users \subseteq active
    /\ \A i \in held[w] \cap Jobs : pc[w] \in {"lock", "send"} /\ i = j
    /\ pc[w] # "send" => todo[w] = {} /\ revoked[w] = {} /\ ~got[w]
    /\ pc[w] \in {"lock", "send"} => (Owner[j] = Recipient[j] => target[j] # "deleted")
    /\ pc[w] = "send" => todo[w] \cup revoked[w] \subseteq devices[Recipient[j]]
    /\ got[w] => \E d \in Devices : pushes[j][d] > 0

Disjoint == \A v, w \in Workers : v # w => held[v] \cap held[w] = {}

LEMMA SafeParts ==
    Safe <=> TypeOK /\ Disjoint /\ (\A w \in Workers : Stands(w)) /\ SentMeansReceived
BY DEF Safe, LockInv, LocksOK, Gathered, Stands, Disjoint

LEMMA SafePartsNext ==
    Safe' <=> TypeOK' /\ Disjoint' /\ (\A w \in Workers : Stands(w)') /\ SentMeansReceived'
BY DEF Safe, LockInv, LocksOK, Gathered, Stands, Disjoint

LEMMA WorkerTypes ==
    ASSUME Safe, NEW w \in Workers
    PROVE  /\ pc[w] \notin {"idle", "pick"} => /\ cur[w] \in Jobs /\ Recipient[cur[w]] \in Users
                                               /\ Parties[cur[w]] \subseteq Users
                                               /\ Owner[cur[w]] \in Users
           /\ Users \cap Jobs = {} /\ None \notin Jobs
<1>1. cur[w] \in Jobs \cup {None}
  BY SafeParts DEF TypeOK, WorkersOK
<1>2. pc[w] \notin {"idle", "pick"} => cur[w] # None
  BY SafeParts DEF Stands
<1> QED BY <1>1, <1>2, JobsAssumption, UsersAssumption, NoneAssumption

(* A worker that does not move keeps standing where it does, when nothing  *)
(* that its locks protect changes.                                         *)
Same(w) ==
    /\ pc'[w] = pc[w] /\ cur'[w] = cur[w] /\ todo'[w] = todo[w] /\ got'[w] = got[w]
    /\ revoked'[w] = revoked[w] /\ held'[w] = held[w]

Respected(w) ==
    /\ \A j \in held[w] \cap Jobs : status'[j] = status[j]
    /\ held[w] \cap active \subseteq active'
    /\ \A j \in Jobs : Owner[j] \in held[w] /\ target[j] # "deleted" => target'[j] # "deleted"
    /\ \A u \in held[w] \cap Users : devices[u] \subseteq devices'[u]
    /\ \A j \in Jobs, d \in Devices : pushes[j][d] > 0 => pushes'[j][d] > 0

LEMMA KeepsStanding ==
    ASSUME Safe, NEW w \in Workers, Same(w), Respected(w)
    PROVE  Stands(w)'
<1>1. Stands(w)
  BY SafeParts
<1>2. CASE pc[w] \in {"idle", "pick"}
  BY <1>1, <1>2 DEF Stands, Same
<1>3. CASE pc[w] \notin {"idle", "pick"}
  <2>1. /\ cur[w] \in Jobs /\ Recipient[cur[w]] \in Users /\ Parties[cur[w]] \subseteq Users
        /\ Owner[cur[w]] \in Users
    BY <1>3, WorkerTypes
  <2> QED BY <1>1, <1>3, <2>1 DEF Stands, Same, Respected
<1> QED BY <1>2, <1>3

(* A row is locked only when nobody else holds it. *)
LEMMA StillDisjoint ==
    ASSUME Safe, NEW w \in Workers, \A v \in Workers \ {w} : held'[v] = held[v],
           NEW row, Free(row, w), held'[w] \subseteq held[w] \cup {row}
    PROVE  Disjoint'
BY SafeParts DEF Disjoint, Free

LEMMA EndsDisjoint ==
    ASSUME Safe, NEW w \in Workers, \A v \in Workers \ {w} : held'[v] = held[v],
           held'[w] \subseteq held[w]
    PROVE  Disjoint'
BY SafeParts DEF Disjoint

(* The end of a transaction.                                               *)
LEMMA Ending ==
    ASSUME WorkersOK, NEW w \in Workers, NEW label \in {"pick", "inactive", "retry"},
           EndTransaction(w, label)
    PROVE  /\ WorkersOK'
           /\ pc'[w] = label /\ held'[w] = {} /\ todo'[w] = {} /\ revoked'[w] = {} /\ ~got'[w]
           /\ cur'[w] = IF label = "pick" THEN None ELSE cur[w]
           /\ batch' = batch
           /\ \A v \in Workers \ {w} : Same(v)
<1>1. WorkersOK'
  BY DEF WorkersOK, EndTransaction
<1>2. /\ pc'[w] = label /\ held'[w] = {} /\ todo'[w] = {} /\ revoked'[w] = {}
      /\ cur'[w] = IF label = "pick" THEN None ELSE cur[w]
      /\ batch' = batch
  BY DEF WorkersOK, EndTransaction
<1>3. ~got'[w]
  BY DEF WorkersOK, EndTransaction
<1>4. \A v \in Workers \ {w} : Same(v)
  BY DEF WorkersOK, EndTransaction, Same
<1> QED BY <1>1, <1>2, <1>3, <1>4

LEMMA EndedStands ==
    ASSUME Safe, NEW w \in Workers, NEW label \in {"pick", "inactive", "retry"},
           EndTransaction(w, label), pc[w] \notin {"idle", "pick"}
    PROVE  Stands(w)' /\ Disjoint'
<1>1. WorkersOK
  BY SafeParts DEF TypeOK
<1>2. cur[w] # None
  BY SafeParts DEF Stands
<1>3. /\ pc'[w] = label /\ held'[w] = {} /\ todo'[w] = {} /\ revoked'[w] = {} /\ ~got'[w]
      /\ cur'[w] = (IF label = "pick" THEN None ELSE cur[w])
      /\ \A v \in Workers \ {w} : held'[v] = held[v]
  BY <1>1, Ending DEF Same
<1> QED BY <1>2, <1>3, EndsDisjoint DEF Stands

LEMMA MinOfTwo == \A n \in 0..2 : Min({n + 1, 2}) = IF n = 0 THEN 1 ELSE 2
<1> SUFFICES ASSUME NEW n \in 0..2 PROVE Min({n + 1, 2}) = IF n = 0 THEN 1 ELSE 2
  OBVIOUS
<1>1. CASE n = 0
  BY <1>1 DEF Min
<1>2. CASE n \in 1..2
  BY <1>2 DEF Min
<1> QED BY <1>1, <1>2

-----------------------------------------------------------------------------
(* The users and the clock *)

(* Steps that leave the workers alone: what they change is theirs, or a    *)
(* row that is not locked.                                                 *)
LEMMA BystanderKeeps ==
    ASSUME Safe, TypeOK', UNCHANGED <<pc, local, held, history>>,
           \A w \in Workers : Respected(w),
           \A j \in Jobs : status'[j] = "sent" => status[j] = "sent"
    PROVE  Safe'
<1>1. \A w \in Workers : Same(w)
  BY DEF Same, local
<1>2. \A w \in Workers : Stands(w)'
  BY <1>1, KeepsStanding
<1>3. Disjoint'
  BY SafeParts DEF Disjoint
<1>4. SentMeansReceived'
  BY SafeParts DEF SentMeansReceived, history
<1> QED BY <1>2, <1>3, <1>4, SafePartsNext

(* An account with a row that a worker holds is not disturbed. *)
LEMMA UserKeeps ==
    ASSUME Safe, UserStep
    PROVE  Safe'
<1> USE SafeParts, BoundsAssumption
<1>1. ASSUME NEW j \in Jobs, Enqueue(j) PROVE Safe'
  <2>1. TypeOK' /\ UNCHANGED <<pc, local, held, history, world>>
    BY <1>1 DEF Enqueue, TypeOK, JobsOK, WorldOK, WorkersOK, local, history, world
  <2>2. \A w \in Workers : Respected(w)
    <3>1. ASSUME NEW w \in Workers PROVE j \notin held[w]
      BY <1>1 DEF Enqueue, Stands
    <3> QED BY <2>1, <3>1, <1>1 DEF Enqueue, Respected, world, history, TypeOK, JobsOK
  <2> QED BY <2>1, <2>2, <1>1, BystanderKeeps DEF Enqueue, TypeOK, JobsOK
<1>2. ASSUME NEW j \in Jobs, Hide(j) PROVE Safe'
  <2>1. TypeOK' /\ UNCHANGED <<pc, local, held, history, status, active, devices>>
    BY <1>2 DEF Hide, Act, TypeOK, JobsOK, WorldOK, WorkersOK, local, history, jobRows
  <2>2. \A w \in Workers : Respected(w)
    BY <2>1, <1>2 DEF Hide, Unlocked, Respected, history, TypeOK, WorldOK
  <2> QED BY <2>1, <2>2, BystanderKeeps
<1>3. ASSUME NEW j \in Jobs, Purge(j) PROVE Safe'
  <2>1. TypeOK' /\ UNCHANGED <<pc, local, held, history, active, target>>
    BY <1>3 DEF Purge, TypeOK, JobsOK, WorldOK, WorkersOK, local, history
  <2>2. \A w \in Workers : Respected(w)
    <3>1. ASSUME NEW w \in Workers, NEW u \in held[w] \cap Users PROVE devices'[u] = devices[u]
      BY <3>1, <1>3 DEF Stands, Purge
    <3> QED BY <2>1, <3>1, <1>3 DEF Purge, Unlocked, Respected, history, TypeOK, JobsOK
  <2> QED BY <2>1, <2>2, <1>3, BystanderKeeps DEF Purge, TypeOK, JobsOK
<1>4. ASSUME NEW u \in Users, Close(u) PROVE Safe'
  <2>1. TypeOK' /\ UNCHANGED <<pc, local, held, history, status, devices, target>>
    BY <1>4 DEF Close, Act, TypeOK, JobsOK, WorldOK, WorkersOK, local, history, jobRows
  <2>2. \A w \in Workers : Respected(w)
    BY <2>1, <1>4 DEF Close, Unlocked, Respected, history
  <2> QED BY <2>1, <2>2, BystanderKeeps
<1>5. ASSUME NEW u \in Users, NEW d \in Devices, Register(u, d) PROVE Safe'
  <2>1. TypeOK' /\ UNCHANGED <<pc, local, held, history, status, active, target>>
    BY <1>5 DEF Register, Act, TypeOK, JobsOK, WorldOK, WorkersOK, local, history, jobRows
  <2>2. \A w \in Workers : Respected(w)
    BY <2>1, <1>5 DEF Register, Respected, history, TypeOK, WorldOK
  <2> QED BY <2>1, <2>2, BystanderKeeps
<1>6. ASSUME NEW u \in Users, NEW d \in Devices, Revoke(u, d) PROVE Safe'
  <2>1. TypeOK' /\ UNCHANGED <<pc, local, held, history, status, active, target>>
    BY <1>6 DEF Revoke, Act, TypeOK, JobsOK, WorldOK, WorkersOK, local, history, jobRows
  <2>2. \A w \in Workers : Respected(w)
    BY <2>1, <1>6 DEF Revoke, Unlocked, Respected, history, TypeOK, WorldOK
  <2> QED BY <2>1, <2>2, BystanderKeeps
<1>7. ASSUME NEW j \in Jobs, Remove(j) PROVE Safe'
  <2>1. TypeOK' /\ UNCHANGED <<pc, local, held, history, status, active, devices>>
    BY <1>7 DEF Remove, Act, TypeOK, JobsOK, WorldOK, WorkersOK, local, history, jobRows
  <2>2. \A w \in Workers : Respected(w)
    BY <2>1, <1>7 DEF Remove, Respected, history, TypeOK, WorldOK
  <2> QED BY <2>1, <2>2, BystanderKeeps
<1> QED BY <1>1, <1>2, <1>3, <1>4, <1>5, <1>6, <1>7 DEF UserStep

LEMMA ClockKeeps ==
    ASSUME Safe, NEW j \in Jobs, RetryDelayElapses(j) \/ LeaseExpires(j) \/ SlowWorker(j)
    PROVE  Safe'
<1> USE SafeParts, BoundsAssumption
<1>1. UNCHANGED <<pc, local, held, history, status, attempts, world, acts>>
  BY DEF RetryDelayElapses, LeaseExpires, SlowWorker, local, history, world
<1>2. due' \in [Jobs -> BOOLEAN] /\ fresh' \in [Jobs -> BOOLEAN]
  BY DEF RetryDelayElapses, LeaseExpires, SlowWorker, TypeOK, JobsOK
<1>3. faults' \in 0 .. MaxFaults
  BY DEF RetryDelayElapses, LeaseExpires, SlowWorker, TypeOK
<1>4. TypeOK'
  BY <1>1, <1>2, <1>3 DEF TypeOK, JobsOK, WorldOK, WorkersOK, local, history, world
<1>5. \A w \in Workers : Respected(w)
  BY <1>1 DEF Respected, world, history
<1> QED BY <1>1, <1>4, <1>5, BystanderKeeps

-----------------------------------------------------------------------------
(* The workers *)

(* What the others hold is theirs: it is enough to look at the one worker  *)
(* that moves.                                                             *)
LEMMA MoverKeeps ==
    ASSUME Safe, TypeOK', NEW w \in Workers, Stands(w)', Disjoint', SentMeansReceived',
           \A v \in Workers \ {w} : Same(v) /\ Respected(v)
    PROVE  Safe'
<1>1. \A v \in Workers \ {w} : Stands(v)'
  BY KeepsStanding
<1> QED BY <1>1, SafePartsNext

(* ... which the steps that take a row establish together. *)
OthersStay(w) == \A v \in Workers \ {w} : Same(v) /\ Respected(v)

LEMMA ClaimKeeps ==
    ASSUME Safe, NEW w \in Workers, NEW S \in SUBSET Jobs, Claim(w, S)
    PROVE  Safe'
<1> USE SafeParts
<1>1. UNCHANGED <<due, attempts, world, cur, todo, got, revoked, held, history, faults, acts>>
  BY DEF Claim
<1>2. /\ status' \in [Jobs -> {"none", "pending", "sending", "sent", "failed", "gone"}]
      /\ \A j \in Jobs : status'[j] = IF j \in S THEN "sending" ELSE status[j]
  BY DEF Claim, TypeOK, JobsOK
<1>3. fresh' \in [Jobs -> BOOLEAN]
  BY DEF Claim
<1>4. /\ pc' = [pc EXCEPT ![w] = "pick"] /\ batch' = [batch EXCEPT ![w] = S] /\ pc[w] = "idle"
  BY DEF Claim
<1>5. TypeOK'
  BY <1>1, <1>2, <1>3, <1>4 DEF TypeOK, JobsOK, WorldOK, WorkersOK, world, history
<1>6. \A v \in Workers \ {w} : Same(v)
  BY <1>1, <1>4 DEF Same, TypeOK, WorkersOK
<1>7. \A v \in Workers : Respected(v)
  BY <1>1, <1>2 DEF Claim, Unlocked, Respected, world, history
<1>8. pc'[w] = "pick"
  BY <1>4 DEF TypeOK, WorkersOK
<1>9. Stands(w)'
  BY <1>1, <1>4, <1>8 DEF Stands
<1>10. Disjoint' /\ SentMeansReceived'
  BY <1>1, <1>2 DEF Disjoint, SentMeansReceived, history
<1> QED BY <1>5, <1>6, <1>7, <1>9, <1>10, MoverKeeps

LEMMA PickKeeps ==
    ASSUME Safe, NEW w \in Workers, NEW j \in Jobs, Pick(w, j)
    PROVE  Safe'
<1> USE SafeParts
<1>1. UNCHANGED <<jobRows, world, todo, got, revoked, held, history, faults, acts>>
  BY DEF Pick
<1>2. /\ pc' = [pc EXCEPT ![w] = "begin"] /\ batch' = [batch EXCEPT ![w] = @ \ {j}]
      /\ cur' = [cur EXCEPT ![w] = j] /\ pc[w] = "pick"
  BY DEF Pick
<1>3. TypeOK'
  BY <1>1, <1>2 DEF TypeOK, JobsOK, WorldOK, WorkersOK, jobRows, world, history
<1>4. \A v \in Workers \ {w} : Same(v)
  BY <1>1, <1>2 DEF Same, TypeOK, WorkersOK
<1>5. \A v \in Workers : Respected(v)
  BY <1>1 DEF Respected, jobRows, world, history
<1>6. pc'[w] = "begin" /\ cur'[w] = j
  BY <1>2 DEF TypeOK, WorkersOK
<1>7. Stands(w)'
  BY <1>1, <1>2, <1>6, NoneAssumption DEF Stands
<1>8. Disjoint' /\ SentMeansReceived'
  BY <1>1 DEF Disjoint, SentMeansReceived, jobRows, history
<1> QED BY <1>3, <1>4, <1>5, <1>7, <1>8, MoverKeeps

LEMMA EndBatchKeeps ==
    ASSUME Safe, NEW w \in Workers, EndBatch(w)
    PROVE  Safe'
<1> USE SafeParts
<1>1. UNCHANGED <<jobRows, world, local, held, history, faults, acts>>
  BY DEF EndBatch
<1>2. pc' = [pc EXCEPT ![w] = "idle"] /\ pc[w] = "pick"
  BY DEF EndBatch
<1>3. TypeOK'
  BY <1>1, <1>2 DEF TypeOK, JobsOK, WorldOK, WorkersOK, jobRows, world, local, history
<1>4. \A v \in Workers \ {w} : Same(v)
  BY <1>1, <1>2 DEF Same, TypeOK, WorkersOK, local
<1>5. \A v \in Workers : Respected(v)
  BY <1>1 DEF Respected, jobRows, world, history
<1>6. pc'[w] = "idle"
  BY <1>2 DEF TypeOK, WorkersOK
<1>7. Stands(w)'
  BY <1>1, <1>2, <1>6 DEF Stands, local
<1>8. Disjoint' /\ SentMeansReceived'
  BY <1>1 DEF Disjoint, SentMeansReceived, jobRows, history
<1> QED BY <1>3, <1>4, <1>5, <1>7, <1>8, MoverKeeps

(* A transaction ends, and what it wrote is fit to be seen. *)
LEMMA EndKeeps ==
    ASSUME Safe, NEW w \in Workers, NEW label \in {"pick", "inactive", "retry"},
           EndTransaction(w, label), pc[w] \notin {"idle", "pick"},
           JobsOK', WorldOK', UNCHANGED history, faults' \in 0 .. MaxFaults, acts' \in 0 .. MaxActs,
           \A v \in Workers \ {w} : Respected(v), SentMeansReceived'
    PROVE  Safe'
<1>1. WorkersOK' /\ \A v \in Workers \ {w} : Same(v)
  BY SafeParts, Ending DEF TypeOK
<1>2. TypeOK'
  BY SafeParts, <1>1 DEF TypeOK, history
<1> QED BY <1>1, <1>2, EndedStands, MoverKeeps

(* A transaction ends without having written anything. *)
LEMMA EndsInVain ==
    ASSUME Safe, NEW w \in Workers, NEW label \in {"pick", "inactive", "retry"},
           EndTransaction(w, label), pc[w] \notin {"idle", "pick"},
           UNCHANGED <<jobRows, world, history, acts>>, faults' \in 0 .. MaxFaults
    PROVE  Safe'
<1> USE SafeParts
<1>1. JobsOK' /\ WorldOK' /\ acts' \in 0 .. MaxActs
  BY DEF TypeOK, JobsOK, WorldOK, jobRows, world
<1>2. \A v \in Workers : Respected(v)
  BY DEF Respected, jobRows, world, history
<1>3. SentMeansReceived'
  BY DEF SentMeansReceived, jobRows, history
<1> QED BY <1>1, <1>2, <1>3, EndKeeps

(* A transaction goes on and takes a row, or none. *)
LEMMA GoesOn ==
    ASSUME Safe, NEW w \in Workers, NEW row \in Users \cup Jobs, Free(row, w),
           NEW label \in {"read", "lock"}, pc' = [pc EXCEPT ![w] = label],
           \/ held' = [held EXCEPT ![w] = {row}]
           \/ held' = [held EXCEPT ![w] = @ \cup {row}],
           UNCHANGED <<jobRows, world, local, history, faults, acts>>,
           pc[w] # "send",
           held[w] = {} \/ held' = [held EXCEPT ![w] = @ \cup {row}]
    PROVE  /\ TypeOK' /\ Disjoint' /\ SentMeansReceived'
           /\ OthersStay(w)
           /\ pc'[w] = label /\ held'[w] = held[w] \cup {row}
<1> USE SafeParts
<1>1. pc'[w] = label /\ held'[w] = held[w] \cup {row}
  BY DEF TypeOK, WorkersOK
<1>2. WorkersOK'
  BY DEF TypeOK, WorkersOK, local
<1>3. TypeOK'
  BY <1>2 DEF TypeOK, JobsOK, WorldOK, jobRows, world, history
<1>4. \A v \in Workers \ {w} : Same(v) /\ held'[v] = held[v]
  BY DEF Same, TypeOK, WorkersOK, local
<1>5. \A v \in Workers : Respected(v)
  BY DEF Respected, jobRows, world, history
<1>6. Disjoint'
  BY <1>1, <1>4, StillDisjoint
<1>7. SentMeansReceived'
  BY DEF SentMeansReceived, jobRows, history
<1> QED BY <1>1, <1>3, <1>4, <1>5, <1>6, <1>7 DEF OthersStay

LEMMA LockRecipientKeeps ==
    ASSUME Safe, NEW w \in Workers, LockRecipient(w)
    PROVE  Safe'
<1> USE SafeParts
<1> DEFINE u == Recipient[cur[w]]
<1>1. pc[w] = "begin" /\ Free(u, w) /\ UNCHANGED <<jobRows, world, history, faults, acts>>
  BY DEF LockRecipient
<1>2. u \in Users /\ cur[w] \in Jobs
  BY <1>1, WorkerTypes
<1>3. CASE u \notin active
  BY <1>1, <1>3, EndsInVain DEF LockRecipient, TypeOK
<1>4. CASE u \in active
  <2>1. /\ held' = [held EXCEPT ![w] = {u}] /\ pc' = [pc EXCEPT ![w] = "read"] /\ UNCHANGED local
    BY <1>4 DEF LockRecipient
  <2>2. held[w] = {}
    BY <1>1 DEF Stands
  <2>3. /\ TypeOK' /\ Disjoint' /\ SentMeansReceived' /\ OthersStay(w)
        /\ pc'[w] = "read" /\ held'[w] = {u}
    BY <1>1, <1>2, <2>1, <2>2, GoesOn
  <2>4. Stands(w)'
    BY <1>1, <1>2, <1>4, <2>1, <2>3, UsersAssumption, NoneAssumption
       DEF Stands, local, world, jobRows, history
  <2> QED BY <2>3, <2>4, MoverKeeps DEF OthersStay
<1> QED BY <1>3, <1>4

LEMMA ReadJobKeeps ==
    ASSUME Safe, NEW w \in Workers, ReadJob(w)
    PROVE  Safe'
<1> USE SafeParts
<1> DEFINE j == cur[w]
<1>1. /\ pc[w] = "read" /\ Free(j, w)
      /\ UNCHANGED <<due, fresh, attempts, world, history, faults, acts>>
  BY DEF ReadJob
<1>2. j \in Jobs
  BY <1>1, WorkerTypes
<1>3. CASE ~StillSending(j)
  <2>1. EndTransaction(w, "pick") /\ UNCHANGED status
    BY <1>3 DEF ReadJob
  <2> QED BY <1>1, <2>1, EndsInVain DEF jobRows, TypeOK
<1>4. CASE StillSending(j) /\ target[j] # "shown"
  <2>1. EndTransaction(w, "pick") /\ status' = [status EXCEPT ![j] = "failed"]
    BY <1>4 DEF ReadJob
  <2>2. JobsOK' /\ WorldOK' /\ faults' \in 0 .. MaxFaults /\ acts' \in 0 .. MaxActs
    BY <1>1, <2>1 DEF TypeOK, JobsOK, WorldOK, world
  <2>3. \A v \in Workers \ {w} : Respected(v)
    BY <1>1, <2>1 DEF Free, Respected, TypeOK, JobsOK, world, history
  <2>4. SentMeansReceived'
    BY <1>1, <2>1 DEF SentMeansReceived, TypeOK, JobsOK, history
  <2> QED BY <1>1, <2>1, <2>2, <2>3, <2>4, EndKeeps
<1>5. CASE StillSending(j) /\ target[j] = "shown"
  <2>1. /\ held' = [held EXCEPT ![w] = @ \cup {j}] /\ pc' = [pc EXCEPT ![w] = "lock"]
        /\ UNCHANGED <<status, local>>
    BY <1>5 DEF ReadJob
  <2>2. /\ TypeOK' /\ Disjoint' /\ SentMeansReceived' /\ OthersStay(w)
        /\ pc'[w] = "lock" /\ held'[w] = held[w] \cup {j}
    BY <1>1, <1>2, <2>1, GoesOn DEF jobRows
  <2>3. Stands(w)'
    BY <1>1, <1>2, <1>5, <2>1, <2>2, UsersAssumption, NoneAssumption
       DEF Stands, StillSending, local, world, history
  <2> QED BY <2>2, <2>3, MoverKeeps DEF OthersStay
<1> QED BY <1>3, <1>4, <1>5

LEMMA LockPartyKeeps ==
    ASSUME Safe, NEW w \in Workers, LockParty(w)
    PROVE  Safe'
<1> USE SafeParts
<1>1. pc[w] = "lock" /\ UNCHANGED <<jobRows, world, history, faults, acts>>
  BY DEF LockParty
<1>2. cur[w] \in Jobs /\ Parties[cur[w]] \subseteq Users
  BY <1>1, WorkerTypes
<1>3. PICK u \in NextParty(cur[w], held[w]) :
        /\ Free(u, w)
        /\ IF u \in active
             THEN held' = [held EXCEPT ![w] = @ \cup {u}] /\ UNCHANGED <<pc, local>>
             ELSE EndTransaction(w, "inactive")
  BY DEF LockParty
<1>4. u \in Users
  BY <1>2 DEF NextParty
<1>5. CASE u \notin active
  BY <1>1, <1>3, <1>5, EndsInVain DEF TypeOK
<1>6. CASE u \in active
  <2>1. held' = [held EXCEPT ![w] = @ \cup {u}] /\ UNCHANGED <<pc, local>>
    BY <1>3, <1>6
  <2>2. pc' = [pc EXCEPT ![w] = "lock"]
    BY <1>1, <2>1 DEF TypeOK, WorkersOK
  <2>3. /\ TypeOK' /\ Disjoint' /\ SentMeansReceived' /\ OthersStay(w)
        /\ pc'[w] = "lock" /\ held'[w] = held[w] \cup {u}
    BY <1>1, <1>3, <1>4, <2>1, <2>2, GoesOn
  <2>4. Stands(w)'
    BY <1>1, <1>2, <1>4, <1>6, <2>1, <2>3, UsersAssumption, NoneAssumption
       DEF Stands, local, world, jobRows, history
  <2> QED BY <2>3, <2>4, MoverKeeps DEF OthersStay
<1> QED BY <1>5, <1>6

LEMMA ListDevicesKeeps ==
    ASSUME Safe, NEW w \in Workers, ListDevices(w)
    PROVE  Safe'
<1> USE SafeParts
<1>1. /\ pc[w] = "lock" /\ NextParty(cur[w], held[w]) = {} /\ pc' = [pc EXCEPT ![w] = "send"]
      /\ todo' = [todo EXCEPT ![w] = devices[Recipient[cur[w]]]]
      /\ UNCHANGED <<jobRows, world, batch, cur, got, revoked, held, history, faults, acts>>
  BY DEF ListDevices
<1>2. cur[w] \in Jobs /\ Recipient[cur[w]] \in Users
  BY <1>1, WorkerTypes
<1>3. todo' \in [Workers -> SUBSET Devices] /\ todo'[w] = devices[Recipient[cur[w]]]
  BY <1>1, <1>2 DEF TypeOK, WorkersOK, WorldOK
<1>4. TypeOK'
  BY <1>1, <1>3 DEF TypeOK, JobsOK, WorldOK, WorkersOK, jobRows, world, history
<1>5. \A v \in Workers \ {w} : Same(v)
  BY <1>1 DEF Same, TypeOK, WorkersOK
<1>6. \A v \in Workers : Respected(v)
  BY <1>1 DEF Respected, jobRows, world, history
<1>7. pc'[w] = "send" /\ Parties[cur[w]] \subseteq held[w]
  BY <1>1 DEF TypeOK, WorkersOK, NextParty
<1>8. revoked[w] = {} /\ ~got[w]
  BY <1>1 DEF Stands
<1>9. Stands(w)'
  BY <1>1, <1>3, <1>7, <1>8, <1>2, NoneAssumption DEF Stands, jobRows, world
<1>10. Disjoint' /\ SentMeansReceived'
  BY <1>1 DEF Disjoint, SentMeansReceived, jobRows, history
<1> QED BY <1>4, <1>5, <1>6, <1>9, <1>10, MoverKeeps

(* What the provider takes is counted, and never forgotten. *)
LEMMA SendCounts ==
    ASSUME TypeOK, NEW w \in Workers, NEW d \in Devices, cur[w] \in Jobs, Send(w, d)
    PROVE  /\ pushes' \in [Jobs -> [Devices -> 0 .. 2]]
           /\ \A j \in Jobs, e \in Devices :
                 pushes'[j][e] = IF j = cur[w] /\ e = d
                                   THEN IF pushes[j][e] = 0 THEN 1 ELSE 2
                                   ELSE pushes[j][e]
<1>1. pushes' = [pushes EXCEPT ![cur[w]][d] = Min({@ + 1, 2})]
  BY DEF Send
<1>2. pushes[cur[w]][d] \in 0 .. 2
  BY DEF TypeOK
<1>3. Min({pushes[cur[w]][d] + 1, 2}) = IF pushes[cur[w]][d] = 0 THEN 1 ELSE 2
  BY <1>2, MinOfTwo
<1>4. pushes' = [pushes EXCEPT ![cur[w]][d] = IF pushes[cur[w]][d] = 0 THEN 1 ELSE 2]
  BY <1>1, <1>3
<1> QED BY <1>4 DEF TypeOK

LEMMA SendKeeps ==
    ASSUME Safe, NEW w \in Workers, NEW d \in Devices, Send(w, d)
    PROVE  Safe'
<1> USE SafeParts
<1>1. /\ pc[w] = "send" /\ d \in todo[w]
      /\ todo' = [todo EXCEPT ![w] = @ \ {d}] /\ got' = [got EXCEPT ![w] = TRUE]
      /\ UNCHANGED <<jobRows, world, pc, batch, cur, revoked, held, faults, acts>>
  BY DEF Send
<1>2. cur[w] \in Jobs /\ Recipient[cur[w]] \in Users
  BY <1>1, WorkerTypes
<1>3. /\ pushes' \in [Jobs -> [Devices -> 0 .. 2]]
      /\ \A j \in Jobs, e \in Devices : pushes[j][e] > 0 => pushes'[j][e] > 0
      /\ pushes'[cur[w]][d] > 0
  BY <1>2, SendCounts DEF TypeOK
<1>4. TypeOK'
  BY <1>1, <1>3 DEF TypeOK, JobsOK, WorldOK, WorkersOK, jobRows, world
<1>5. \A v \in Workers \ {w} : Same(v)
  BY <1>1 DEF Same, TypeOK, WorkersOK
<1>6. \A v \in Workers : Respected(v)
  BY <1>1, <1>3 DEF Respected, jobRows, world
<1>7. todo'[w] \subseteq todo[w]
  BY <1>1 DEF TypeOK, WorkersOK
<1>8. Stands(w)'
  BY <1>1, <1>3, <1>7, <1>2, NoneAssumption DEF Stands, jobRows, world
<1>9. Disjoint' /\ SentMeansReceived'
  BY <1>1, <1>3 DEF Disjoint, SentMeansReceived, jobRows
<1> QED BY <1>4, <1>5, <1>6, <1>8, <1>9, MoverKeeps

LEMMA SendToInvalidKeeps ==
    ASSUME Safe, NEW w \in Workers, NEW d \in Devices, SendToInvalid(w, d)
    PROVE  Safe'
<1> USE SafeParts, BoundsAssumption
<1>1. /\ pc[w] = "send" /\ d \in todo[w] /\ Act
      /\ todo' = [todo EXCEPT ![w] = @ \ {d}] /\ revoked' = [revoked EXCEPT ![w] = @ \cup {d}]
      /\ UNCHANGED <<jobRows, world, pc, batch, cur, got, held, history, faults>>
  BY DEF SendToInvalid
<1>2. cur[w] \in Jobs /\ Recipient[cur[w]] \in Users
  BY <1>1, WorkerTypes
<1>3. acts' \in 0 .. MaxActs
  BY <1>1 DEF Act, TypeOK
<1>4. TypeOK'
  BY <1>1, <1>3 DEF TypeOK, JobsOK, WorldOK, WorkersOK, jobRows, world, history
<1>5. \A v \in Workers \ {w} : Same(v)
  BY <1>1 DEF Same, TypeOK, WorkersOK
<1>6. \A v \in Workers : Respected(v)
  BY <1>1 DEF Respected, jobRows, world, history
<1>7. todo'[w] \cup revoked'[w] = todo[w] \cup revoked[w]
  BY <1>1 DEF TypeOK, WorkersOK
<1>8. Stands(w)'
  BY <1>1, <1>7, <1>2, NoneAssumption DEF Stands, jobRows, world, history
<1>9. Disjoint' /\ SentMeansReceived'
  BY <1>1 DEF Disjoint, SentMeansReceived, jobRows, history
<1> QED BY <1>4, <1>5, <1>6, <1>8, <1>9, MoverKeeps

LEMMA EndDeliveryKeeps ==
    ASSUME Safe, NEW w \in Workers, EndDelivery(w)
    PROVE  Safe'
<1> USE SafeParts
<1>1. /\ pc[w] = "send"
      /\ status' = IF got[w] THEN [status EXCEPT ![cur[w]] = "sent"] ELSE status
      /\ devices' = [devices EXCEPT ![Recipient[cur[w]]] = @ \ revoked[w]]
      /\ UNCHANGED <<due, fresh, attempts, active, target, history, faults, acts>>
  BY DEF EndDelivery, MarksSent
<1>2. EndTransaction(w, IF got[w] THEN "pick" ELSE "retry")
  BY DEF EndDelivery, MarksSent
<1>3. /\ cur[w] \in Jobs /\ Recipient[cur[w]] \in Users
      /\ cur[w] \in held[w] /\ Recipient[cur[w]] \in held[w]
  BY <1>1, WorkerTypes DEF Stands
<1>4. JobsOK' /\ WorldOK' /\ faults' \in 0 .. MaxFaults /\ acts' \in 0 .. MaxActs
  BY <1>1 DEF TypeOK, JobsOK, WorldOK
<1>5. \A v \in Workers \ {w} : Respected(v)
  BY <1>1, <1>3 DEF Disjoint, Respected, TypeOK, JobsOK, WorldOK, history
<1>6. SentMeansReceived'
  BY <1>1, <1>3 DEF Stands, SentMeansReceived, TypeOK, JobsOK, history
<1>7. UNCHANGED history
  BY <1>1
<1>8. CASE got[w]
  BY <1>1, <1>2, <1>4, <1>5, <1>6, <1>7, <1>8, EndKeeps
<1>9. CASE ~got[w]
  BY <1>1, <1>2, <1>4, <1>5, <1>6, <1>7, <1>9, EndKeeps
<1> QED BY <1>8, <1>9

LEMMA GivingUpKeeps ==
    ASSUME Safe, NEW w \in Workers, FailInactive(w) \/ ScheduleRetry(w)
    PROVE  Safe'
<1> USE SafeParts
<1> DEFINE j == cur[w]
<1>1. /\ pc[w] \in {"inactive", "retry"} /\ Free(j, w)
      /\ UNCHANGED <<fresh, attempts, world, history, faults, acts>>
  BY DEF FailInactive, ScheduleRetry
<1>2. EndTransaction(w, "pick")
  BY DEF FailInactive, ScheduleRetry
<1>3. j \in Jobs
  BY <1>1, WorkerTypes
<1>4. /\ status' \in [Jobs -> {"none", "pending", "sending", "sent", "failed", "gone"}]
      /\ \A i \in Jobs : status'[i] = "sent" => status[i] = "sent"
      /\ \A i \in Jobs \ {j} : status'[i] = status[i]
      /\ due' \in [Jobs -> BOOLEAN]
  BY <1>3 DEF FailInactive, ScheduleRetry, TypeOK, JobsOK
<1>5. JobsOK' /\ WorldOK' /\ faults' \in 0 .. MaxFaults /\ acts' \in 0 .. MaxActs
  BY <1>1, <1>4 DEF TypeOK, JobsOK, WorldOK, world
<1>6. \A v \in Workers \ {w} : Respected(v)
  BY <1>1, <1>4 DEF Free, Respected, world, history
<1>7. SentMeansReceived'
  BY <1>1, <1>4 DEF SentMeansReceived, history
<1> QED BY <1>1, <1>2, <1>5, <1>6, <1>7, EndKeeps

LEMMA FailureKeeps ==
    ASSUME Safe, NEW w \in Workers, Throw(w) \/ Abort(w) \/ Crash(w)
    PROVE  Safe'
<1> USE SafeParts, BoundsAssumption
<1>1. CASE Throw(w)
  <2>1. pc[w] \notin {"idle", "pick"} /\ faults' \in 0 .. MaxFaults
    BY <1>1 DEF Throw, InTransaction, TypeOK
  <2> QED BY <1>1, <2>1, EndsInVain DEF Throw
<1>2. CASE Abort(w)
  <2>1. Awaits(w) # {}
    BY <1>2 DEF Abort, Deadlocked
  <2>2. pc[w] \notin {"idle", "pick"}
    BY <2>1 DEF Awaits
  <2>3. EndTransaction(w, "retry") /\ UNCHANGED <<jobRows, world, history, faults, acts>>
    BY <1>2 DEF Abort
  <2> QED BY <2>2, <2>3, EndsInVain DEF TypeOK
<1>3. CASE Crash(w)
  <2>1. UNCHANGED <<jobRows, world, history, acts>> /\ faults' \in 0 .. MaxFaults
    BY <1>3 DEF Crash, TypeOK
  <2>2. /\ pc' = [pc EXCEPT ![w] = "idle"] /\ batch' = [batch EXCEPT ![w] = {}]
        /\ cur' = [cur EXCEPT ![w] = None] /\ todo' = [todo EXCEPT ![w] = {}]
        /\ revoked' = [revoked EXCEPT ![w] = {}] /\ held' = [held EXCEPT ![w] = {}]
    BY <1>3 DEF Crash
  <2>3. got' \in [Workers -> BOOLEAN] /\ ~got'[w] /\ \A v \in Workers \ {w} : got'[v] = got[v]
    BY <1>3 DEF Crash, TypeOK, WorkersOK
  <2>4. TypeOK'
    BY <2>1, <2>2, <2>3 DEF TypeOK, JobsOK, WorldOK, WorkersOK, jobRows, world, history
  <2>5. \A v \in Workers \ {w} : Same(v)
    BY <2>2, <2>3 DEF Same, TypeOK, WorkersOK
  <2>6. \A v \in Workers : Respected(v)
    BY <2>1 DEF Respected, jobRows, world, history
  <2>7. /\ pc'[w] = "idle" /\ cur'[w] = None /\ todo'[w] = {} /\ revoked'[w] = {}
        /\ held'[w] = {}
    BY <2>2 DEF TypeOK, WorkersOK
  <2>8. Stands(w)'
    BY <2>3, <2>7 DEF Stands
  <2>9. Disjoint'
    BY <2>5, <2>7, EndsDisjoint DEF Same
  <2>10. SentMeansReceived'
    BY <2>1 DEF SentMeansReceived, jobRows, history
  <2> QED BY <2>4, <2>5, <2>6, <2>8, <2>9, <2>10, MoverKeeps
<1> QED BY <1>1, <1>2, <1>3

LEMMA InitSafe == Init => Safe
<1> SUFFICES ASSUME Init PROVE Safe
  OBVIOUS
<1>1. TypeOK
  BY MaxAttemptsAssumption, UsersAssumption, DevicesAssumption, BoundsAssumption
     DEF Init, TypeOK, JobsOK, WorldOK, WorkersOK
<1>2. Disjoint /\ (\A w \in Workers : Stands(w)) /\ SentMeansReceived
  BY DEF Init, Disjoint, Stands, SentMeansReceived
<1> QED BY <1>1, <1>2, SafeParts

LEMMA StepSafe == Safe /\ [Next]_vars => Safe'
<1> SUFFICES ASSUME Safe, [Next]_vars PROVE Safe'
  OBVIOUS
<1>1. CASE UserStep
  BY <1>1, UserKeeps
<1>2. ASSUME NEW j \in Jobs, RetryDelayElapses(j) \/ LeaseExpires(j) \/ SlowWorker(j)
      PROVE  Safe'
  BY <1>2, ClockKeeps
<1>3. ASSUME NEW w \in Workers, WorkerStep(w) PROVE Safe'
  BY <1>3, PickKeeps, EndBatchKeeps, LockRecipientKeeps, ReadJobKeeps, LockPartyKeeps,
     ListDevicesKeeps, SendKeeps, EndDeliveryKeeps, GivingUpKeeps, FailureKeeps
     DEF WorkerStep
<1>4. ASSUME NEW w \in Workers, Throw(w) \/ Crash(w) PROVE Safe'
  BY <1>4, FailureKeeps
<1>5. ASSUME NEW w \in Workers, NEW S \in SUBSET Jobs, Claim(w, S) PROVE Safe'
  BY <1>5, ClaimKeeps
<1>6. ASSUME NEW w \in Workers, NEW d \in Devices, SendToInvalid(w, d) PROVE Safe'
  BY <1>6, SendToInvalidKeeps
<1>7. CASE UNCHANGED vars
  <2>1. UNCHANGED <<pc, local, held, history, jobRows, world, faults, acts>>
    BY <1>7 DEF vars
  <2>2. TypeOK'
    BY SafeParts, <2>1
       DEF TypeOK, JobsOK, WorldOK, WorkersOK, jobRows, world, local, history
  <2>3. \A w \in Workers : Respected(w)
    BY <2>1 DEF Respected, jobRows, world, history
  <2> QED BY <2>1, <2>2, <2>3, BystanderKeeps DEF jobRows
<1> QED BY <1>1, <1>2, <1>3, <1>4, <1>5, <1>6, <1>7 DEF Next

-----------------------------------------------------------------------------
(* Without failures *)

(* The jobs a worker answers for. *)
Hand(w) == batch[w] \cup ({cur[w]} \cap Jobs)

(* Every job is in one hand, whose claim is good until the job is done or  *)
(* purged.                                                                 *)
AloneOnJobs ==
    /\ \A w \in Workers : cur[w] \notin batch[w]
    /\ \A v, w \in Workers : v # w => Hand(v) \cap Hand(w) = {}

LeaseHeld ==
    \A w \in Workers : \A j \in Hand(w) :
        status[j] = "gone" \/ (status[j] = "sending" /\ fresh[j])

(* A push belongs to a delivery under way or to a job that is done with.   *)
PushedOnce ==
    /\ \A j \in Jobs, d \in Devices : pushes[j][d] <= 1
    /\ \A j \in Jobs, d \in Devices : pushes[j][d] > 0 =>
            \/ status[j] \in {"sent", "gone"}
            \/ \E w \in Workers : cur[w] = j /\ got[w]
    /\ \A w \in Workers : pc[w] = "send" => \A d \in todo[w] : pushes[cur[w]][d] = 0

Orderly == AloneOnJobs /\ LeaseHeld /\ PushedOnce

(* The inductive invariant. *)
IInv == Safe /\ (faults = 0 => Orderly)

(* A step that claims nothing and sends nothing: hands get smaller, what   *)
(* they hold stays as it is, and a delivery that has pushed goes on or is  *)
(* recorded.                                                               *)
LEMMA QuietStep ==
    ASSUME Safe, Orderly, UNCHANGED history,
           \A v \in Workers : batch'[v] = batch[v] /\ cur'[v] \in {cur[v], None},
           \A v \in Workers : \A j \in Hand(v)' :
                status'[j] = "gone" \/ (status'[j] = status[j] /\ fresh'[j] = fresh[j]),
           \A j \in Jobs : status[j] \in {"sent", "gone"} => status'[j] \in {"sent", "gone"},
           \A v \in Workers : got[v] =>
                (cur'[v] = cur[v] /\ got'[v]) \/ status'[cur[v]] \in {"sent", "gone"},
           \A v \in Workers : pc'[v] = "send" =>
                pc[v] = "send" /\ todo'[v] \subseteq todo[v] /\ cur'[v] = cur[v]
    PROVE  Orderly'
<1>1. \A v \in Workers : Hand(v)' \subseteq Hand(v)
  BY NoneAssumption DEF Hand
<1>2. AloneOnJobs'
  <2>1. \A v \in Workers : cur'[v] \notin batch'[v]
    BY NoneAssumption, SafeParts DEF Orderly, AloneOnJobs, TypeOK, WorkersOK
  <2>2. \A v, w \in Workers : v # w => Hand(v)' \cap Hand(w)' = {}
    BY <1>1 DEF Orderly, AloneOnJobs
  <2> QED BY <2>1, <2>2 DEF AloneOnJobs
<1>3. LeaseHeld'
  BY <1>1 DEF Orderly, LeaseHeld
<1>4. PushedOnce'
  <2>1. UNCHANGED pushes
    BY DEF history
  <2>2. ASSUME NEW j \in Jobs, NEW d \in Devices, pushes[j][d] > 0
        PROVE  \/ status'[j] \in {"sent", "gone"}
               \/ \E w \in Workers : cur'[w] = j /\ got'[w]
    BY <2>2 DEF Orderly, PushedOnce
  <2>3. \A w \in Workers : pc'[w] = "send" => \A d \in todo'[w] : pushes[cur'[w]][d] = 0
    BY DEF Orderly, PushedOnce
  <2> QED BY <2>1, <2>2, <2>3 DEF Orderly, PushedOnce
<1> QED BY <1>2, <1>3, <1>4 DEF Orderly

LEMMA BystanderOrderly ==
    ASSUME Safe, Orderly, UNCHANGED <<pc, local, history>>,
           \A j \in Jobs : \/ status'[j] = "gone"
                           \/ status'[j] = status[j]
                           \/ status[j] = "none",
           \A j \in Jobs : fresh'[j] = fresh[j] \/ \A v \in Workers : j \notin Hand(v)
    PROVE  Orderly'
<1>1. \A v \in Workers : Hand(v)' = Hand(v) /\ Hand(v) \subseteq Jobs
  BY SafeParts DEF Hand, local, TypeOK, WorkersOK
<1>2. \A v \in Workers : \A j \in Hand(v)' :
          status'[j] = "gone" \/ (status'[j] = status[j] /\ fresh'[j] = fresh[j])
  BY <1>1 DEF Orderly, LeaseHeld
<1>3. \A j \in Jobs : status[j] \in {"sent", "gone"} => status'[j] \in {"sent", "gone"}
  OBVIOUS
<1>4. \A v \in Workers : batch'[v] = batch[v] /\ cur'[v] = cur[v] /\ got'[v] = got[v]
                         /\ todo'[v] = todo[v] /\ pc'[v] = pc[v]
  BY DEF local
<1>5. \A v \in Workers : got[v] =>
                (cur'[v] = cur[v] /\ got'[v]) \/ status'[cur[v]] \in {"sent", "gone"}
  BY <1>4, Zenon
<1>6. \A v \in Workers : pc'[v] = "send" =>
                pc[v] = "send" /\ todo'[v] \subseteq todo[v] /\ cur'[v] = cur[v]
  BY <1>4
<1> QED BY <1>2, <1>3, <1>4, <1>5, <1>6, QuietStep

LEMMA UserOrderly ==
    ASSUME Safe, Orderly, UserStep
    PROVE  Orderly'
<1> USE SafeParts
<1>1. UNCHANGED <<pc, local, history, fresh>>
  BY DEF UserStep, Enqueue, Hide, Remove, Purge, Close, Register, Revoke, Act, jobRows
<1>2. \A j \in Jobs : status'[j] = "gone" \/ status'[j] = status[j] \/ status[j] = "none"
  BY DEF UserStep, Enqueue, Hide, Remove, Purge, Close, Register, Revoke, Act, jobRows, TypeOK, JobsOK
<1> QED BY <1>1, <1>2, BystanderOrderly

LEMMA ClockOrderly ==
    ASSUME Safe, Orderly, NEW j \in Jobs, RetryDelayElapses(j) \/ LeaseExpires(j)
    PROVE  Orderly'
<1> USE SafeParts
<1>1. UNCHANGED <<pc, local, history, status>>
  BY DEF RetryDelayElapses, LeaseExpires
<1>2. \A i \in Jobs : fresh'[i] = fresh[i] \/ \A v \in Workers : i \notin Hand(v)
  BY DEF RetryDelayElapses, LeaseExpires, Tended, Hand, TypeOK, JobsOK
<1> QED BY <1>1, <1>2, BystanderOrderly

(* The end of a transaction, for the job at hand. *)
LEMMA EndOrderly ==
    ASSUME Safe, Orderly, NEW w \in Workers, NEW label \in {"pick", "inactive", "retry"},
           EndTransaction(w, label), pc[w] \notin {"idle", "pick"}, UNCHANGED <<fresh, history>>,
           got[w] => status'[cur[w]] = "sent",
           label # "pick" => status' = status,
           \A j \in Jobs : j # cur[w] => status'[j] = status[j],
           status[cur[w]] \in {"sent", "gone"} => status'[cur[w]] \in {"sent", "gone"}
    PROVE  Orderly'
<1> USE SafeParts
<1>1. cur[w] \in Jobs
  BY WorkerTypes
<1>2. /\ pc'[w] = label /\ todo'[w] = {} /\ ~got'[w] /\ batch' = batch
      /\ cur'[w] = (IF label = "pick" THEN None ELSE cur[w])
      /\ \A v \in Workers \ {w} : Same(v)
  BY Ending DEF TypeOK
<1>3. \A v \in Workers : batch'[v] = batch[v] /\ cur'[v] \in {cur[v], None}
  BY <1>2 DEF Same
<1>4. \A v \in Workers : \A j \in Hand(v)' :
          status'[j] = "gone" \/ (status'[j] = status[j] /\ fresh'[j] = fresh[j])
  <2>1. ASSUME NEW v \in Workers, NEW j \in Hand(v)', label = "pick"
        PROVE  j \in Jobs /\ j # cur[w]
    <3>1. CASE v = w
      BY <2>1, <1>2, <3>1, NoneAssumption DEF Hand, Orderly, AloneOnJobs, TypeOK, WorkersOK
    <3>2. CASE v # w
      <4>1. j \in Hand(v)
        BY <2>1, <1>2, <3>2 DEF Hand, Same
      <4>2. cur[w] \in Hand(w)
        BY <1>1 DEF Hand
      <4>3. j \in Jobs
        BY <4>1 DEF Hand, TypeOK, WorkersOK
      <4> QED BY <3>2, <4>1, <4>2, <4>3 DEF Orderly, AloneOnJobs
    <3> QED BY <3>1, <3>2
  <2>2. CASE label = "pick"
    BY <2>1, <2>2
  <2>3. CASE label # "pick"
    BY <2>3
  <2> QED BY <2>2, <2>3
<1>5. \A j \in Jobs : status[j] \in {"sent", "gone"} => status'[j] \in {"sent", "gone"}
  OBVIOUS
<1>6. \A v \in Workers : got[v] =>
          (cur'[v] = cur[v] /\ got'[v]) \/ status'[cur[v]] \in {"sent", "gone"}
  <2>1. ASSUME NEW v \in Workers, got[v], v # w PROVE cur'[v] = cur[v] /\ got'[v]
    <3>1. Same(v)
      BY <1>2, <2>1
    <3>2. cur'[v] = cur[v] /\ got'[v] = got[v]
      BY <3>1 DEF Same
    <3> QED BY <2>1, <3>2
  <2>2. got[w] => status'[cur[w]] \in {"sent", "gone"}
    OBVIOUS
  <2> QED BY <2>1, <2>2
<1>7. \A v \in Workers : pc'[v] = "send" =>
          pc[v] = "send" /\ todo'[v] \subseteq todo[v] /\ cur'[v] = cur[v]
  BY <1>2 DEF Same
<1> QED BY <1>3, <1>4, <1>5, <1>6, <1>7, QuietStep

(* A transaction goes on, or the batch is through. *)
LEMMA GoesOnOrderly ==
    ASSUME Safe, Orderly, NEW w \in Workers, UNCHANGED <<jobRows, local, history>>,
           \A v \in Workers : pc'[v] = "send" => pc[v] = "send"
    PROVE  Orderly'
<1>1. \A v \in Workers : batch'[v] = batch[v] /\ cur'[v] = cur[v] /\ todo'[v] = todo[v]
  BY DEF local
<1>2. \A v \in Workers : \A j \in Hand(v)' : status'[j] = status[j] /\ fresh'[j] = fresh[j]
  BY DEF jobRows
<1>3. \A v \in Workers : got[v] =>
          (cur'[v] = cur[v] /\ got'[v]) \/ status'[cur[v]] \in {"sent", "gone"}
  <2>1. UNCHANGED got
    BY DEF local
  <2> QED BY <2>1, <1>1, Zenon
<1> QED BY <1>1, <1>2, <1>3, QuietStep DEF jobRows

LEMMA PickOrderly ==
    ASSUME Safe, Orderly, NEW w \in Workers, NEW j \in Jobs, Pick(w, j)
    PROVE  Orderly'
<1> USE SafeParts
<1>1. /\ pc[w] = "pick" /\ j \in batch[w]
      /\ pc' = [pc EXCEPT ![w] = "begin"] /\ batch' = [batch EXCEPT ![w] = @ \ {j}]
      /\ cur' = [cur EXCEPT ![w] = j]
      /\ UNCHANGED <<status, fresh, todo, got, pushes>>
  BY DEF Pick, jobRows, history
<1>2. cur[w] = None /\ ~got[w]
  BY <1>1 DEF Stands
<1>3. /\ batch'[w] = batch[w] \ {j} /\ cur'[w] = j /\ pc'[w] = "begin"
      /\ \A v \in Workers \ {w} : batch'[v] = batch[v] /\ cur'[v] = cur[v] /\ pc'[v] = pc[v]
  BY <1>1 DEF TypeOK, WorkersOK
<1>4. \A v \in Workers : Hand(v)' = Hand(v)
  BY <1>1, <1>2, <1>3, NoneAssumption DEF Hand, TypeOK, WorkersOK
<1>5. AloneOnJobs'
  BY <1>3, <1>4 DEF Orderly, AloneOnJobs
<1>6. LeaseHeld'
  BY <1>1, <1>4 DEF Orderly, LeaseHeld
<1>7. PushedOnce'
  <2>1. ASSUME NEW i \in Jobs, NEW v \in Workers, cur[v] = i, got[v] PROVE cur'[v] = i /\ got'[v]
    <3>1. v # w
      BY <1>2, <2>1
    <3>2. cur'[v] = i
      BY <1>3, <2>1, <3>1
    <3> QED BY <3>2, <2>1, <1>1, Zenon
  <2>2. \A i \in Jobs, d \in Devices : pushes'[i][d] > 0 =>
            \/ status'[i] \in {"sent", "gone"}
            \/ \E v \in Workers : cur'[v] = i /\ got'[v]
    BY <1>1, <2>1 DEF Orderly, PushedOnce
  <2>3. \A v \in Workers : pc'[v] = "send" => \A d \in todo'[v] : pushes'[cur'[v]][d] = 0
    BY <1>1, <1>3 DEF Orderly, PushedOnce
  <2> QED BY <1>1, <2>2, <2>3 DEF Orderly, PushedOnce
<1> QED BY <1>5, <1>6, <1>7 DEF Orderly

LEMMA ClaimOrderly ==
    ASSUME Safe, Orderly, NEW w \in Workers, NEW S \in SUBSET Jobs, Claim(w, S)
    PROVE  Orderly'
<1> USE SafeParts
<1>1. UNCHANGED <<cur, todo, got, pushes>>
  BY DEF Claim, history
<1>2. /\ pc[w] = "idle"
      /\ \A j \in S : \/ status[j] = "pending"
                      \/ status[j] = "sending" /\ ~fresh[j]
      /\ \A j \in Jobs : status'[j] = IF j \in S THEN "sending" ELSE status[j]
      /\ \A j \in Jobs : fresh'[j] = (j \in S \/ fresh[j])
  BY DEF Claim, Claimable
<1>3. cur[w] = None
  BY <1>2 DEF Stands
<1>4. /\ batch'[w] = S /\ pc'[w] = "pick"
      /\ \A v \in Workers \ {w} : batch'[v] = batch[v] /\ pc'[v] = pc[v]
  BY DEF Claim, TypeOK, WorkersOK
<1>5. \A v \in Workers : \A j \in Hand(v) : j \in Jobs /\ j \notin S
  BY <1>2 DEF Orderly, LeaseHeld, Hand, TypeOK, WorkersOK
<1>6. Hand(w)' = S /\ \A v \in Workers \ {w} : Hand(v)' = Hand(v)
  BY <1>1, <1>3, <1>4, NoneAssumption DEF Hand
<1>7. AloneOnJobs'
  <2>1. \A v \in Workers : cur'[v] \notin batch'[v]
    BY <1>1, <1>3, <1>4, NoneAssumption DEF Orderly, AloneOnJobs
  <2>2. \A u, v \in Workers : u # v => Hand(u)' \cap Hand(v)' = {}
    BY <1>5, <1>6 DEF Orderly, AloneOnJobs
  <2> QED BY <2>1, <2>2 DEF AloneOnJobs
<1>8. LeaseHeld'
  <2>1. ASSUME NEW j \in S PROVE status'[j] = "sending" /\ fresh'[j]
    BY <1>2
  <2>2. ASSUME NEW v \in Workers \ {w}, NEW j \in Hand(v)
        PROVE  status'[j] = "gone" \/ (status'[j] = "sending" /\ fresh'[j])
    <3>1. j \in Jobs /\ j \notin S
      BY <1>5
    <3>2. status[j] = "gone" \/ (status[j] = "sending" /\ fresh[j])
      BY DEF Orderly, LeaseHeld
    <3>3. status'[j] = status[j] /\ fresh'[j] = fresh[j]
      BY <3>1, <1>2 DEF TypeOK, JobsOK
    <3> QED BY <3>2, <3>3, Zenon
  <2> QED BY <1>6, <2>1, <2>2 DEF LeaseHeld
<1>9. PushedOnce'
  <2>1. \A j \in Jobs, d \in Devices : pushes'[j][d] > 0 =>
            \/ status'[j] \in {"sent", "gone"}
            \/ \E v \in Workers : cur'[v] = j /\ got'[v]
    BY <1>1, <1>2 DEF Orderly, PushedOnce
  <2>2. \A v \in Workers : pc'[v] = "send" => \A d \in todo'[v] : pushes'[cur'[v]][d] = 0
    BY <1>1, <1>4 DEF Orderly, PushedOnce
  <2> QED BY <1>1, <2>1, <2>2 DEF Orderly, PushedOnce
<1> QED BY <1>7, <1>8, <1>9 DEF Orderly

LEMMA ListDevicesOrderly ==
    ASSUME Safe, Orderly, NEW w \in Workers, ListDevices(w)
    PROVE  Orderly'
<1> USE SafeParts
<1>1. /\ pc[w] = "lock" /\ pc' = [pc EXCEPT ![w] = "send"]
      /\ todo' = [todo EXCEPT ![w] = devices[Recipient[cur[w]]]]
      /\ UNCHANGED <<status, fresh, batch, cur, got, pushes>>
  BY DEF ListDevices, jobRows, history
<1>2. cur[w] \in Jobs /\ status[cur[w]] = "sending" /\ ~got[w]
  BY <1>1, WorkerTypes DEF Stands
<1>3. \A v \in Workers : Hand(v)' = Hand(v)
  BY <1>1 DEF Hand
<1>4. AloneOnJobs'
  BY <1>1, <1>3 DEF Orderly, AloneOnJobs
<1>5. LeaseHeld'
  BY <1>1, <1>3 DEF Orderly, LeaseHeld
<1>6. ASSUME NEW v \in Workers, cur[v] = cur[w], got[v] PROVE FALSE
  <2>1. v # w
    BY <1>2, <1>6
  <2>2. cur[w] \in Hand(v) /\ cur[w] \in Hand(w)
    BY <1>2, <1>6 DEF Hand
  <2> QED BY <2>1, <2>2 DEF Orderly, AloneOnJobs
<1>7. ASSUME NEW d \in Devices PROVE pushes[cur[w]][d] = 0
  <2>1. ~(pushes[cur[w]][d] > 0)
    BY <1>2, <1>6 DEF Orderly, PushedOnce
  <2> QED BY <1>2, <2>1 DEF TypeOK
<1>8. \A v \in Workers : pc'[v] = "send" => \A d \in todo'[v] : pushes[cur[v]][d] = 0
  <2>1. ASSUME NEW v \in Workers \ {w}, pc'[v] = "send", NEW d \in todo'[v]
        PROVE  pushes[cur[v]][d] = 0
    BY <1>1, <2>1 DEF Orderly, PushedOnce, TypeOK, WorkersOK
  <2>2. \A d \in todo'[w] : d \in Devices
    BY <1>1, <1>2, WorkerTypes DEF TypeOK, WorkersOK, WorldOK
  <2> QED BY <1>7, <2>1, <2>2
<1>9. PushedOnce'
  <2>1. \A j \in Jobs, d \in Devices : pushes'[j][d] > 0 =>
            \/ status'[j] \in {"sent", "gone"}
            \/ \E v \in Workers : cur'[v] = j /\ got'[v]
    BY <1>1, Zenon DEF Orderly, PushedOnce
  <2> QED BY <1>1, <1>8, <2>1 DEF Orderly, PushedOnce
<1> QED BY <1>4, <1>5, <1>9 DEF Orderly

LEMMA SendOrderly ==
    ASSUME Safe, Orderly, NEW w \in Workers, NEW d \in Devices, Send(w, d)
    PROVE  Orderly'
<1> USE SafeParts
<1>1. /\ pc[w] = "send" /\ d \in todo[w] /\ todo' = [todo EXCEPT ![w] = @ \ {d}]
      /\ got' = [got EXCEPT ![w] = TRUE]
      /\ UNCHANGED <<status, fresh, pc, batch, cur>>
  BY DEF Send, jobRows
<1>2. cur[w] \in Jobs /\ pushes[cur[w]][d] = 0
  BY <1>1, WorkerTypes DEF Orderly, PushedOnce
<1>3. \A j \in Jobs, e \in Devices :
          pushes'[j][e] = IF j = cur[w] /\ e = d THEN 1 ELSE pushes[j][e]
  BY <1>2, SendCounts
<1>4. \A v \in Workers : Hand(v)' = Hand(v)
  BY <1>1 DEF Hand
<1>5. AloneOnJobs'
  BY <1>1, <1>4 DEF Orderly, AloneOnJobs
<1>6. LeaseHeld'
  BY <1>1, <1>4 DEF Orderly, LeaseHeld
<1>7. got'[w]
  BY <1>1 DEF TypeOK, WorkersOK
<1>8. \A v \in Workers : got[v] => got'[v]
  BY <1>1 DEF TypeOK, WorkersOK
<1>9. \A j \in Jobs, e \in Devices : pushes'[j][e] > 0 =>
          \/ status'[j] \in {"sent", "gone"}
          \/ \E v \in Workers : cur'[v] = j /\ got'[v]
  BY <1>1, <1>3, <1>7, <1>8 DEF Orderly, PushedOnce
<1>10. ASSUME NEW v \in Workers, pc'[v] = "send", NEW e \in todo'[v]
       PROVE  pushes'[cur'[v]][e] = 0
  <2>1. cur[v] \in Jobs /\ todo[v] \subseteq Devices /\ pc[v] = "send"
    BY <1>1, <1>10, WorkerTypes DEF TypeOK, WorkersOK
  <2>2. e \in todo[v] /\ (v = w => e # d)
    BY <1>1, <1>10 DEF TypeOK, WorkersOK
  <2>3. v # w => cur[v] # cur[w]
    BY <1>2, <2>1 DEF Orderly, AloneOnJobs, Hand
  <2>4. pushes[cur[v]][e] = 0
    BY <2>1, <2>2 DEF Orderly, PushedOnce
  <2> QED BY <1>1, <1>3, <2>1, <2>2, <2>3, <2>4
<1>11. PushedOnce'
  <2>1. \A j \in Jobs, e \in Devices : pushes'[j][e] <= 1
    BY <1>3 DEF Orderly, PushedOnce
  <2> QED BY <1>9, <1>10, <2>1 DEF PushedOnce
<1> QED BY <1>5, <1>6, <1>11 DEF Orderly

(* The remaining steps of a worker that does not fail. *)
LEMMA DeliveryOrderly ==
    ASSUME Safe, Orderly, NEW w \in Workers,
           \/ LockRecipient(w) \/ ReadJob(w) \/ LockParty(w) \/ EndDelivery(w)
           \/ FailInactive(w) \/ ScheduleRetry(w) \/ Abort(w)
    PROVE  Orderly'
<1> USE SafeParts
<1>1. pc[w] # "send" => ~got[w]
  BY DEF Stands
<1>2. CASE LockRecipient(w)
  <2>1. pc[w] = "begin" /\ UNCHANGED <<jobRows, history>>
    BY <1>2 DEF LockRecipient
  <2>2. CASE EndTransaction(w, "inactive")
    BY <1>1, <2>1, <2>2, EndOrderly DEF jobRows
  <2>3. CASE pc' = [pc EXCEPT ![w] = "read"] /\ UNCHANGED local
    <3>1. \A v \in Workers : pc'[v] = "send" => pc[v] = "send"
      BY <2>3 DEF TypeOK, WorkersOK
    <3> QED BY <2>1, <2>3, <3>1, GoesOnOrderly
  <2> QED BY <1>2, <2>2, <2>3 DEF LockRecipient
<1>3. CASE ReadJob(w)
  <2>1. /\ pc[w] = "read" /\ cur[w] \in Jobs /\ UNCHANGED <<due, fresh, attempts, history>>
    BY <1>3, WorkerTypes DEF ReadJob
  <2>2. CASE UNCHANGED <<status, local>> /\ pc' = [pc EXCEPT ![w] = "lock"]
    <3>1. \A v \in Workers : pc'[v] = "send" => pc[v] = "send"
      BY <2>2 DEF TypeOK, WorkersOK
    <3> QED BY <2>1, <2>2, <3>1, GoesOnOrderly DEF jobRows
  <2>3. CASE EndTransaction(w, "pick") /\ UNCHANGED status
    BY <1>1, <2>1, <2>3, EndOrderly
  <2>4. CASE /\ EndTransaction(w, "pick") /\ status[cur[w]] = "sending"
             /\ status' = [status EXCEPT ![cur[w]] = "failed"]
    <3>1. \A j \in Jobs : j # cur[w] => status'[j] = status[j]
      BY <2>4 DEF TypeOK, JobsOK
    <3> QED BY <1>1, <2>1, <2>4, <3>1, EndOrderly
  <2> QED BY <1>3, <2>2, <2>3, <2>4 DEF ReadJob, StillSending
<1>4. CASE LockParty(w)
  <2>1. pc[w] = "lock" /\ UNCHANGED <<jobRows, history>>
    BY <1>4 DEF LockParty
  <2>2. CASE EndTransaction(w, "inactive")
    BY <1>1, <2>1, <2>2, EndOrderly DEF jobRows
  <2>3. CASE UNCHANGED <<pc, local>>
    BY <2>1, <2>3, GoesOnOrderly
  <2> QED BY <1>4, <2>2, <2>3 DEF LockParty
<1>5. CASE EndDelivery(w)
  <2>1. /\ pc[w] = "send" /\ cur[w] \in Jobs /\ UNCHANGED <<fresh, history>>
    BY <1>5, WorkerTypes DEF EndDelivery
  <2>2. CASE got[w]
    <3>1. EndTransaction(w, "pick") /\ status' = [status EXCEPT ![cur[w]] = "sent"]
      BY <1>5, <2>2 DEF EndDelivery, MarksSent
    <3>2. status'[cur[w]] = "sent" /\ \A j \in Jobs : j # cur[w] => status'[j] = status[j]
      BY <2>1, <3>1 DEF TypeOK, JobsOK
    <3> QED BY <2>1, <3>1, <3>2, EndOrderly
  <2>3. CASE ~got[w]
    <3>1. EndTransaction(w, "retry") /\ status' = status
      BY <1>5, <2>3 DEF EndDelivery, MarksSent
    <3> QED BY <2>1, <2>3, <3>1, EndOrderly
  <2> QED BY <2>2, <2>3
<1>6. CASE FailInactive(w) \/ ScheduleRetry(w)
  <2>1. /\ pc[w] \in {"inactive", "retry"} /\ cur[w] \in Jobs /\ UNCHANGED <<fresh, history>>
        /\ EndTransaction(w, "pick")
    BY <1>6, WorkerTypes DEF FailInactive, ScheduleRetry
  <2>2. \A j \in Jobs : j # cur[w] => status'[j] = status[j]
    BY <1>6, <2>1 DEF FailInactive, ScheduleRetry, TypeOK, JobsOK
  <2>3. status[cur[w]] \in {"sending", "gone"}
    BY <2>1 DEF Orderly, LeaseHeld, Hand
  <2>4. status[cur[w]] \in {"sent", "gone"} => status'[cur[w]] \in {"sent", "gone"}
    BY <1>6, <2>1, <2>3 DEF FailInactive, ScheduleRetry, TypeOK, JobsOK
  <2> QED BY <1>1, <2>1, <2>2, <2>4, EndOrderly
<1>7. CASE Abort(w)
  <2>1. pc[w] \in {"begin", "read", "lock"}
    BY <1>7 DEF Abort, Deadlocked, Awaits
  <2>2. EndTransaction(w, "retry") /\ UNCHANGED <<jobRows, history>>
    BY <1>7 DEF Abort
  <2> QED BY <1>1, <2>1, <2>2, EndOrderly DEF jobRows
<1> QED BY <1>2, <1>3, <1>4, <1>5, <1>6, <1>7

LEMMA StepOrderly ==
    ASSUME Safe, Orderly, faults = 0, [Next]_vars, faults' = 0
    PROVE  Orderly'
<1>1. CASE UserStep
  BY <1>1, UserOrderly
<1>2. ASSUME NEW j \in Jobs, RetryDelayElapses(j) \/ LeaseExpires(j) \/ SlowWorker(j)
      PROVE  Orderly'
  BY <1>2, ClockOrderly DEF SlowWorker
<1>3. ASSUME NEW w \in Workers, WorkerStep(w) PROVE Orderly'
  <2>1. CASE EndBatch(w)
    <3>1. UNCHANGED <<jobRows, local, history>> /\ pc' = [pc EXCEPT ![w] = "idle"]
      BY <2>1 DEF EndBatch
    <3>2. \A v \in Workers : pc'[v] = "send" => pc[v] = "send"
      BY <3>1, SafeParts DEF TypeOK, WorkersOK
    <3> QED BY <3>1, <3>2, GoesOnOrderly
  <2> QED BY <1>3, <2>1, PickOrderly, ListDevicesOrderly, SendOrderly, DeliveryOrderly
          DEF WorkerStep
<1>4. ASSUME NEW w \in Workers, Throw(w) \/ Crash(w) PROVE FALSE
  BY <1>4 DEF Throw, Crash
<1>5. ASSUME NEW w \in Workers, NEW S \in SUBSET Jobs, Claim(w, S) PROVE Orderly'
  BY <1>5, ClaimOrderly
<1>6. ASSUME NEW w \in Workers, NEW d \in Devices, SendToInvalid(w, d) PROVE Orderly'
  <2>1. UNCHANGED <<jobRows, pc, batch, cur, got, history>> /\ todo' = [todo EXCEPT ![w] = @ \ {d}]
    BY <1>6 DEF SendToInvalid
  <2>2. \A v \in Workers : batch'[v] = batch[v] /\ cur'[v] = cur[v] /\ pc'[v] = pc[v]
                           /\ todo'[v] \subseteq todo[v]
    BY <2>1, SafeParts DEF TypeOK, WorkersOK
  <2>3. \A v \in Workers : got[v] =>
            (cur'[v] = cur[v] /\ got'[v]) \/ status'[cur[v]] \in {"sent", "gone"}
    BY <2>1, Zenon
  <2> QED BY <2>1, <2>2, <2>3, QuietStep DEF jobRows
<1>7. CASE UNCHANGED vars
  BY <1>7, BystanderOrderly DEF vars, jobRows
<1> QED BY <1>1, <1>2, <1>3, <1>4, <1>5, <1>6, <1>7 DEF Next

-----------------------------------------------------------------------------
(* The theorems *)

LEMMA InitIInv == Init => IInv
<1> SUFFICES ASSUME Init PROVE Orderly
  BY InitSafe DEF IInv
<1> QED BY NoneAssumption
        DEF Init, Orderly, AloneOnJobs, LeaseHeld, PushedOnce, Hand

LEMMA StepIInv == IInv /\ [Next]_vars => IInv'
<1> SUFFICES ASSUME IInv, [Next]_vars PROVE IInv'
  OBVIOUS
<1>1. Safe'
  BY StepSafe DEF IInv
<1>2. ASSUME faults' = 0 PROVE faults = 0
  <2>1. faults \in Nat
    BY SafeParts, BoundsAssumption DEF IInv, TypeOK
  <2>2. CASE UserStep
    BY <1>2, <2>2 DEF UserStep, Enqueue, Hide, Remove, Purge, Close, Register, Revoke, Act
  <2>3. ASSUME NEW j \in Jobs, RetryDelayElapses(j) \/ LeaseExpires(j) \/ SlowWorker(j)
        PROVE  faults = 0
    BY <1>2, <2>1, <2>3 DEF RetryDelayElapses, LeaseExpires, SlowWorker
  <2>4. ASSUME NEW w \in Workers, WorkerStep(w) PROVE faults = 0
    BY <1>2, <2>4 DEF WorkerStep, Pick, EndBatch, LockRecipient, ReadJob, LockParty, ListDevices,
                      Send, EndDelivery, FailInactive, ScheduleRetry, Abort
  <2>5. ASSUME NEW w \in Workers, Throw(w) \/ Crash(w) PROVE faults = 0
    BY <1>2, <2>1, <2>5 DEF Throw, Crash
  <2>6. ASSUME NEW w \in Workers, NEW S \in SUBSET Jobs, Claim(w, S) PROVE faults = 0
    BY <1>2, <2>6 DEF Claim
  <2>7. ASSUME NEW w \in Workers, NEW d \in Devices, SendToInvalid(w, d) PROVE faults = 0
    BY <1>2, <2>7 DEF SendToInvalid
  <2>8. CASE UNCHANGED vars
    BY <1>2, <2>8 DEF vars
  <2> QED BY <2>2, <2>3, <2>4, <2>5, <2>6, <2>7, <2>8 DEF Next
<1> QED BY <1>1, <1>2, StepOrderly DEF IInv

(* The inductive invariant: the row locks are held as the code takes them, *)
(* what they protect stays, and without failures every claimed job is in   *)
(* one worker's hand.                                                      *)
THEOREM Invariant == Spec => []IInv
<1>1. Init => IInv
  BY InitIInv
<1>2. IInv /\ [Next]_vars => IInv'
  BY StepIInv
<1> QED BY <1>1, <1>2, PTL DEF Spec

(* deliverClaimedPushJob: during the calls of the provider the job, the    *)
(* accounts and the devices are still what they were when they were read,  *)
(* and the recipient has not deleted the target.                           *)
THEOREM LocksCoverTheCall == Spec => []NoStalePush
<1>1. IInv => NoStalePush
  <2> SUFFICES ASSUME IInv, NEW w \in Workers, pc[w] = "send"
               PROVE  /\ status[cur[w]] = "sending"
                      /\ {Recipient[cur[w]]} \cup Parties[cur[w]] \subseteq active
                      /\ todo[w] \cup revoked[w] \subseteq devices[Recipient[cur[w]]]
                      /\ Owner[cur[w]] = Recipient[cur[w]] => target[cur[w]] # "deleted"
    BY DEF NoStalePush
  <2> QED BY SafeParts, WorkerTypes DEF IInv, Stands
<1> QED BY <1>1, Invariant, PTL

(* The UPDATE to 'sent' at the end of deliverClaimedPushJob: only if some  *)
(* device took the push.                                                   *)
THEOREM SentWasReceived == Spec => []SentMeansReceived
<1>1. IInv => SentMeansReceived
  BY DEF IInv, Safe
<1> QED BY <1>1, Invariant, PTL

(* claimPushJobs and the lease: while no worker fails or outlives its      *)
(* lease, no device gets the push of a notification twice.                 *)
THEOREM NothingTwice == Spec => []OncePerDevice
<1>1. IInv => OncePerDevice
  BY DEF IInv, Orderly, PushedOnce, OncePerDevice
<1> QED BY <1>1, Invariant, PTL
===============================================================================
