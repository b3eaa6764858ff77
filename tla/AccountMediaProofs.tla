--------------------------- MODULE AccountMediaProofs ---------------------------
(***************************************************************************)
(* Proofs about AccountMedia: that what the account shows stays readable,  *)
(* and that a completed deletion leaves no object.  Both rest on the lock  *)
(* of the row of the account, which every upload holds while the store     *)
(* takes the object and the acceptance of the deletion needs for itself.   *)
(***************************************************************************)
EXTENDS AccountMedia, TLAPS

Places == {"idle", "locked", "uploaded", "named", "cleanup", "enqueue", "hidden", "over"}
Entries == [key : Keys, version : Nat \cup {None}]
WorkerPlaces == {"idle", "next", "list", "note", "known", "content", "purge", "delete",
                 "mark", "gate", "verify", "user", "clear"}

BucketTypes ==
    /\ versioned \in BOOLEAN
    /\ stored \subseteq Entries
    /\ marks \in [Keys -> Nat]

RequestTypes ==
    /\ account \in {"active", "closed", "gone"}
    /\ polls \in [Images -> {"none", "live", "unheard", "hidden"}]
    /\ avatar \in Avatars \cup {None}
    /\ at \in [Keys -> Places]
    /\ former \in [Avatars -> Avatars \cup {None}]
    /\ eraser \in [at : {"idle", "locked", "erased", "over", "dead"},
                   key : Avatars \cup {None}]
    /\ old \subseteq Keys
    /\ job \in [at : {"idle", "read"}, named : SUBSET Keys]

WorkTypes ==
    /\ operation \in {"none", "pending", "processing", "completed"}
    /\ lease \in [owner : Workers \cup {None}, lasts : BOOLEAN]
    /\ finished \subseteq Steps
    /\ manifest \in [todo : SUBSET Entries, kept : SUBSET Entries]
    /\ pc \in [Workers -> WorkerPlaces]
    /\ got \in [Workers -> SUBSET Entries]
    /\ refs \in [Workers -> SUBSET Keys]

(* The types of the variables, those only that the proofs need. *)
TypeOK == BucketTypes /\ RequestTypes /\ WorkTypes

(* What the lock of the account means: whoever is in the part of a request *)
(* that needs it has it, nobody has it once the deletion is accepted, and  *)
(* no worker moves before.                                                 *)
Locked ==
    /\ holder # None => account = "active"
    /\ \A k \in Keys : at[k] = "locked" => holder = k
    /\ \A k \in Avatars : at[k] \in {"uploaded", "named"} => holder = k
    /\ eraser.at \in {"locked", "erased"} =>
           holder = "eraser" /\ eraser.key = avatar /\ avatar # None
    /\ account = "active" =>
           operation = "none" /\ finished = {} /\ \A w \in Workers : pc[w] = "idle"

(* Where the upload of a key is when a row names it, or when it is old. *)
Placed ==
    /\ \A k \in Images : at[k] # "named" /\ (polls[k] = "live" => at[k] = "over")
    /\ \A k \in Images : Unheard(k) => at[k] \in {"cleanup", "enqueue", "over"}
    /\ \A k \in Avatars : at[k] \notin {"cleanup", "enqueue", "hidden"}
    /\ avatar # None => at[avatar] \in {"named", "over"}
    /\ \A a \in Avatars : at[a] \in {"locked", "uploaded"} => former[a] = avatar
    /\ \A a \in Avatars : at[a] = "named" => avatar = a
    /\ \A a \in Avatars : former[a] # None => at[former[a]] = "over"
    /\ \A k \in old : at[k] \in {"over", "hidden"}
    /\ job.at = "read" => \A k \in old : Owned(k) => k \in job.named

(* A key has no marker before a row can have named it. *)
Fresh ==
    account = "active" =>
        \A k \in Keys :
            /\ at[k] \in {"idle", "locked", "uploaded", "named"} => ~Marked(k)
            /\ at[k] = "uploaded" => Object(k) \in stored

(* Nothing is left but what was given up. *)
Empty == \A k \in Keys : Object(k) \in stored => GivenUp(k)

InManifest(k) == \E e \in manifest.todo \cup manifest.kept : e.key = k

(* The completion goes past its check of the bucket only when that is      *)
(* empty, and the check cannot miss an object outside the prefixes: a row, *)
(* the manifest or a request still knows its key.                          *)
Leaving ==
    /\ \A w \in Workers : pc[w] \in {"user", "clear"} => Empty
    /\ "completion" \in finished \/ operation = "completed" => Empty
    /\ \A k \in Legacy : at[k] = "over"
    /\ \A k \in Legacy : Object(k) \in stored =>
           \/ GivenUp(k) \/ avatar = k \/ InManifest(k)
           \/ \E a \in Avatars : former[a] = k /\ at[a] = "named"

Inv == TypeOK /\ Locked /\ Placed /\ Fresh /\ ReferencedKept /\ Leaving
-----------------------------------------------------------------------------
(* The bucket *)

(* A step that adds no object, and one that does nothing to the key k. *)
AddsNothing == \A k \in Keys : Object(k) \in stored' => Object(k) \in stored
Spares(k) == /\ Object(k) \in stored => Object(k) \in stored'
             /\ Marked(k)' => Marked(k)

(* Remove takes objects away, or adds markers, for the keys it is given. *)
LEMMA RemoveKeepsTypes ==
    ASSUME TypeOK, NEW S \in SUBSET Entries, Remove(S)
    PROVE  BucketTypes'
<1> DEFINE named == {e.key : e \in {d \in S : d.version = None}}
<1>1. named \subseteq Keys
  BY DEF Entries
<1>2. marks' \in [Keys -> Nat]
  BY DEF Remove, TypeOK, BucketTypes
<1>3. \A k \in named : [key |-> k, version |-> marks'[k]] \in Entries
  BY <1>1, <1>2 DEF Entries
<1>4. stored' \subseteq stored \cup {[key |-> k, version |-> marks'[k]] : k \in named}
  BY DEF Remove
<1>5. stored' \subseteq Entries /\ versioned' \in BOOLEAN
  BY <1>3, <1>4 DEF TypeOK, BucketTypes, Remove
<1> QED
  BY <1>2, <1>5 DEF BucketTypes

LEMMA RemoveAddsNothing ==
    ASSUME TypeOK, NEW S \in SUBSET Entries, Remove(S)
    PROVE  AddsNothing
<1> DEFINE named == {e.key : e \in {d \in S : d.version = None}}
<1>1. named \subseteq Keys
  BY DEF Entries
<1>2. CASE versioned
  <2>1. \A k \in named : marks'[k] = marks[k] + 1 /\ marks[k] \in Nat
    BY <1>1, <1>2 DEF Remove, TypeOK, BucketTypes
  <2>2. \A k \in named : marks'[k] # 0
    BY <2>1
  <2>3. \A k \in Keys : Object(k) \notin {[key |-> j, version |-> marks'[j]] : j \in named}
    BY <2>2 DEF Object
  <2>4. stored' = (stored \ S) \cup {[key |-> k, version |-> marks'[k]] : k \in named}
    BY <1>2 DEF Remove
  <2> QED
    BY <2>3, <2>4 DEF AddsNothing
<1>3. CASE ~versioned
  BY <1>3 DEF Remove, AddsNothing
<1> QED
  BY <1>2, <1>3

LEMMA RemoveSpares ==
    ASSUME TypeOK, NEW S \in SUBSET Entries, Remove(S),
           NEW k \in Keys, \A e \in S : e.key # k
    PROVE  Spares(k)
<1> DEFINE named == {e.key : e \in {d \in S : d.version = None}}
<1>1. k \notin named
  OBVIOUS
<1>2. Object(k) \notin S
  BY DEF Object
<1>3. Object(k) \notin {Object(j) : j \in named}
  BY <1>1 DEF Object
<1>4. ASSUME Object(k) \in stored
      PROVE  Object(k) \in stored'
  BY <1>2, <1>3, <1>4 DEF Remove
<1>5. ASSUME Marked(k)'
      PROVE  Marked(k)
  <2>1. PICK m \in Markers : [key |-> k, version |-> m] \in stored'
    BY <1>5 DEF Marked
  <2>2. [key |-> k, version |-> m] \notin
            {[key |-> j, version |-> marks'[j]] : j \in named}
    BY <1>1
  <2>3. [key |-> k, version |-> m] \in stored
    BY <2>1, <2>2 DEF Remove
  <2> QED
    BY <2>3 DEF Marked
<1> QED
  BY <1>4, <1>5 DEF Spares

LEMMA ByKeyTypes ==
    ASSUME NEW S \in SUBSET Keys
    PROVE  /\ ByKey(S) \in SUBSET Entries
           /\ \A e \in ByKey(S) : e.key \in S
BY DEF ByKey, Entries

(* What a deletion by key does. *)
LEMMA RemoveByKey ==
    ASSUME TypeOK, NEW S \in SUBSET Keys, Remove(ByKey(S))
    PROVE  BucketTypes' /\ AddsNothing /\ \A k \in Keys \ S : Spares(k)
<1>1. ByKey(S) \in SUBSET Entries /\ \A e \in ByKey(S) : e.key \in S
  BY ByKeyTypes
<1>2. BucketTypes' /\ AddsNothing
  BY <1>1, RemoveKeepsTypes, RemoveAddsNothing
<1>3. ASSUME NEW k \in Keys \ S
      PROVE  Spares(k)
  BY <1>1, RemoveSpares
<1> QED
  BY <1>2, <1>3

LEMMA UnchangedBucket ==
    ASSUME TypeOK, UNCHANGED bucket
    PROVE  BucketTypes' /\ AddsNothing /\ \A k \in Keys : Spares(k)
<1>1. BucketTypes'
  BY DEF bucket, TypeOK, BucketTypes
<1>2. AddsNothing /\ \A k \in Keys : Spares(k)
  BY DEF bucket, AddsNothing, Spares, Marked
<1> QED
  BY <1>1, <1>2

LEMMA PutSpares ==
    ASSUME TypeOK, NEW k \in Keys, Put(k)
    PROVE  /\ BucketTypes' /\ Object(k) \in stored'
           /\ \A j \in Keys : Spares(j)
           /\ \A j \in Keys \ {k} : Object(j) \in stored' => Object(j) \in stored
<1>1. Object(k) \in Entries
  BY DEF Object, Entries
<1>2. BucketTypes' /\ Object(k) \in stored'
  BY <1>1 DEF Put, TypeOK, BucketTypes
<1>3. ASSUME NEW j \in Keys, NEW m \in Markers,
             [key |-> j, version |-> m] \in stored'
      PROVE  [key |-> j, version |-> m] \in stored
  <2>1. m # 0
    BY MediaAssumption DEF Markers
  <2>2. [key |-> j, version |-> m] # Object(k)
    BY <2>1 DEF Object
  <2> QED
    BY <1>3, <2>2 DEF Put
<1>4. \A j \in Keys : Spares(j)
  BY <1>3 DEF Put, Spares, Marked
<1>5. ASSUME NEW j \in Keys \ {k}, Object(j) \in stored'
      PROVE  Object(j) \in stored
  BY <1>5 DEF Put, Object
<1> QED
  BY <1>2, <1>4, <1>5

-----------------------------------------------------------------------------
(* Types *)

LEMMA InitTypes == Init => TypeOK
<1> SUFFICES ASSUME Init PROVE TypeOK
  OBVIOUS
<1>1. BucketTypes
  BY MediaAssumption DEF Init, BucketTypes, Object, Entries, Keys
<1>2. RequestTypes
  BY MediaAssumption DEF Init, RequestTypes, Places
<1>3. WorkTypes
  BY DEF Init, WorkTypes, WorkerPlaces
<1> QED
  BY <1>1, <1>2, <1>3 DEF TypeOK

(* The steps of a request, of the jobs, and of the operation. *)
RequestStep ==
    \/ \E k \in Images : BeginImage(k) \/ HidePoll(k)
    \/ \E k \in Avatars : BeginAvatar(k)
    \/ \E k \in Keys : Upload(k) \/ Crash(k)
    \/ BeginErase \/ Erase \/ CrashErase
JobStep == Age \/ Collect
WorkStep == LeaseEnds \/ LeaseLapses \/ \E w \in Workers : Work(w) \/ Dies(w)

LEMMA KindsOfSteps == Next => RequestStep \/ JobStep \/ AcceptDeletion \/ WorkStep
BY DEF Next, RequestStep, JobStep, WorkStep

(* A request leaves the jobs and the workers alone, and the operation as   *)
(* well unless a cleanup that failed is queued.                            *)
LEMMA RequestFrame ==
    ASSUME RequestStep
    PROVE  /\ UNCHANGED <<account, jobs, workers>>
           /\ UNCHANGED op \/ \E k \in Keys : Enqueue(k)
<1>1. ASSUME NEW k \in Images, BeginImage(k) \/ HidePoll(k)
      PROVE  UNCHANGED <<account, jobs, workers, op>>
  BY <1>1 DEF BeginImage, HidePoll, rows
<1>2. ASSUME NEW k \in Avatars, BeginAvatar(k)
      PROVE  UNCHANGED <<account, jobs, workers, op>>
  BY <1>2 DEF BeginAvatar, rows
<1>3. ASSUME NEW k \in Keys, Upload(k)
      PROVE  UNCHANGED <<account, jobs, workers>> /\ (UNCHANGED op \/ Enqueue(k))
  BY <1>3 DEF Upload, PutImage, PutFails, CreatePoll, CreateFails, CleanUp, CleanUpFails,
              Enqueue, DropImage, PutAvatar, NameAvatar, NameFails, DropFormer, rows
<1>4. ASSUME NEW k \in Keys, Crash(k)
      PROVE  UNCHANGED <<account, jobs, workers, op>>
  BY <1>4 DEF Crash, rows
<1>5. ASSUME BeginErase \/ Erase \/ CrashErase
      PROVE  UNCHANGED <<account, jobs, workers, op>>
  BY <1>5 DEF BeginErase, Erase, EraseObject, ClearAvatar, CrashErase, rows
<1> QED
  BY <1>1, <1>2, <1>3, <1>4, <1>5 DEF RequestStep

(* A worker leaves the requests and the jobs alone. *)
LEMMA WorkFrame ==
    ASSUME WorkStep
    PROVE  /\ UNCHANGED <<requests, jobs>>
           /\ account' = account \/ account' = "gone"
           /\ avatar' = avatar \/ avatar' = None
           /\ polls' = polls \/ polls' = [k \in Images |-> "none"]
<1>1. ASSUME LeaseEnds \/ LeaseLapses
      PROVE  UNCHANGED <<requests, jobs, account, avatar, polls>>
  BY <1>1 DEF LeaseEnds, LeaseLapses, rows
<1>2. ASSUME NEW w \in Workers, Work(w)
      PROVE  /\ UNCHANGED <<requests, jobs>>
             /\ account' = account \/ account' = "gone"
             /\ avatar' = avatar \/ avatar' = None
             /\ polls' = polls \/ polls' = [k \in Images |-> "none"]
  BY <1>2 DEF Work, ClaimOperation, RunNext, EraseRows, ListPrefixes, NoteVersions,
              NoteKnown, ClaimManifest, DeleteVersions, DeleteFails, MarkCompleted,
              Gate, VerifyEmpty, DeleteUser, RemoveManifest, rows
<1>3. ASSUME NEW w \in Workers, Dies(w)
      PROVE  UNCHANGED <<requests, jobs, account, avatar, polls>>
  BY <1>3 DEF Dies, rows
<1> QED
  BY <1>1, <1>2, <1>3 DEF WorkStep

LEMMA MovesTypes ==
    ASSUME RequestTypes, NEW k \in Keys, NEW from, NEW to \in Places, Moves(k, from, to)
    PROVE  /\ at' \in [Keys -> Places] /\ at[k] = from /\ at'[k] = to
           /\ \A j \in Keys \ {k} : at'[j] = at[j]
BY DEF Moves, RequestTypes

LEMMA RequestTypesKept ==
    ASSUME TypeOK, Next
    PROVE  RequestTypes'
<1> USE DEF TypeOK
<1>1. ASSUME NEW k \in Images, BeginImage(k)
      PROVE  RequestTypes'
  <2>1. at' \in [Keys -> Places]
    BY <1>1, MovesTypes DEF BeginImage, Keys, Places
  <2> QED
    BY <1>1, <2>1 DEF BeginImage, RequestTypes, rows, jobs
<1>2. ASSUME NEW k \in Images, HidePoll(k)
      PROVE  RequestTypes'
  <2>1. at' \in [Keys -> Places]
    BY <1>2, MovesTypes DEF HidePoll, Keys, Places
  <2> QED
    BY <1>2, <2>1 DEF HidePoll, RequestTypes, jobs
<1>3. ASSUME NEW k \in Avatars, BeginAvatar(k)
      PROVE  RequestTypes'
  <2>1. at' \in [Keys -> Places]
    BY <1>3, MovesTypes DEF BeginAvatar, Keys, Places
  <2> QED
    BY <1>3, <2>1 DEF BeginAvatar, RequestTypes, rows, jobs
<1>4. ASSUME NEW k \in Keys, Upload(k)
      PROVE  RequestTypes'
  <2>1. at' \in [Keys -> Places]
    BY <1>4, MovesTypes DEF Upload, PutImage, PutFails, CreatePoll, CreateFails, CleanUp,
         CleanUpFails, Enqueue, DropImage, PutAvatar, NameAvatar, NameFails, DropFormer,
         Places
  <2>2. /\ account' = account /\ eraser' = eraser /\ UNCHANGED jobs
        /\ avatar' = avatar \/ (k \in Avatars /\ avatar' = k)
        /\ polls' = polls \/ \E p \in {"live", "unheard"} : polls' = [polls EXCEPT ![k] = p]
        /\ former' = former \/ ReplacesNone(k)
    BY <1>4 DEF Upload, PutImage, PutFails, CreatePoll, CreateFails, CleanUp, CleanUpFails,
         Enqueue, DropImage, PutAvatar, NameAvatar, NameFails, DropFormer, rows
  <2> QED
    BY <2>1, <2>2 DEF RequestTypes, ReplacesNone, jobs
<1>5. ASSUME NEW k \in Keys, Crash(k)
      PROVE  RequestTypes'
  <2>1. at' \in [Keys -> Places]
    BY <1>5 DEF Crash, RequestTypes, Places
  <2> QED
    BY <1>5, <2>1 DEF Crash, RequestTypes, ReplacesNone, rows, jobs
<1>6. ASSUME BeginErase
      PROVE  RequestTypes'
  BY <1>6 DEF BeginErase, RequestTypes, rows, jobs
<1>7. ASSUME Erase \/ CrashErase
      PROVE  RequestTypes'
  BY <1>7 DEF Erase, EraseObject, ClearAvatar, CrashErase, RequestTypes, rows, jobs
<1>8. ASSUME JobStep
      PROVE  RequestTypes'
  BY <1>8 DEF JobStep, Age, Collect, ReadReferences, CollectOrphans, RequestTypes,
              rows, requests
<1>9. ASSUME AcceptDeletion
      PROVE  RequestTypes'
  BY <1>9 DEF AcceptDeletion, RequestTypes, requests, jobs
<1>10. ASSUME WorkStep
      PROVE  RequestTypes'
  BY <1>10, WorkFrame DEF RequestTypes, requests, jobs
<1> QED
  BY <1>1, <1>2, <1>3, <1>4, <1>5, <1>6, <1>7, <1>8, <1>9, <1>10, KindsOfSteps DEF RequestStep

(* What the steps do to the bucket. *)
LEMMA RequestBucket ==
    ASSUME TypeOK, Locked, RequestStep
    PROVE  \/ UNCHANGED bucket
           \/ \E k \in Keys : Put(k) /\ at[k] = "locked"
           \/ \E k \in Keys : Remove(ByKey({k}))
<1>1. ASSUME NEW k \in Keys, Upload(k)
      PROVE  \/ UNCHANGED bucket
             \/ Put(k) /\ at[k] = "locked"
             \/ \E j \in Keys : Remove(ByKey({j}))
  <2>1. CASE DropFormer(k)
    <3>1. former[k] \in Keys \cup {None}
      BY <2>1 DEF DropFormer, TypeOK, RequestTypes, Keys
    <3> QED
      BY <2>1, <3>1 DEF DropFormer
  <2> QED
    BY <1>1, <2>1 DEF Upload, PutImage, PutFails, CreatePoll, CreateFails, CleanUp,
         CleanUpFails, Enqueue, DropImage, PutAvatar, NameAvatar, NameFails, Moves
<1>2. ASSUME Erase
      PROVE  UNCHANGED bucket \/ \E k \in Keys : Remove(ByKey({k}))
  <2>1. eraser.at = "locked" => eraser.key \in Keys
    BY DEF Locked, TypeOK, RequestTypes, Keys
  <2> QED
    BY <1>2, <2>1 DEF Erase, EraseObject, ClearAvatar
<1>3. ASSUME ~Erase, \A k \in Keys : ~Upload(k)
      PROVE  UNCHANGED bucket
  BY <1>3 DEF RequestStep, BeginImage, HidePoll, BeginAvatar, Crash, BeginErase, CrashErase
<1> QED
  BY <1>1, <1>2, <1>3

LEMMA JobBucket ==
    ASSUME JobStep
    PROVE  UNCHANGED bucket \/ \E S \in SUBSET Orphans : Remove(ByKey(S))
BY DEF JobStep, Age, Collect, ReadReferences, CollectOrphans

LEMMA WorkBucket ==
    ASSUME TypeOK, WorkStep
    PROVE  UNCHANGED bucket \/ \E S \in SUBSET Entries : Remove(S)
<1>1. ASSUME NEW w \in Workers, Work(w)
      PROVE  UNCHANGED bucket \/ \E S \in SUBSET Entries : Remove(S)
  <2>1. got[w] \in SUBSET Entries
    BY DEF TypeOK, WorkTypes
  <2> QED
    BY <1>1, <2>1 DEF Work, ClaimOperation, RunNext, EraseRows, ListPrefixes, NoteVersions,
        NoteKnown, ClaimManifest, DeleteVersions, DeleteFails, MarkCompleted,
        Gate, VerifyEmpty, DeleteUser, RemoveManifest
<1>2. ASSUME NEW w \in Workers, Dies(w)
      PROVE  UNCHANGED bucket
  BY <1>2 DEF Dies
<1>3. ASSUME LeaseEnds \/ LeaseLapses
      PROVE  UNCHANGED bucket
  BY <1>3 DEF LeaseEnds, LeaseLapses
<1> QED
  BY <1>1, <1>2, <1>3 DEF WorkStep

(* Only the upload of a key that is locked puts an object. *)
LEMMA WhoAdds ==
    ASSUME TypeOK, Locked, Next
    PROVE  /\ BucketTypes'
           /\ account # "active" => AddsNothing
           /\ AddsNothing \/ (RequestStep /\ \E k \in Keys : at[k] = "locked" /\ Put(k))
<1>1. CASE RequestStep
  <2>1. CASE UNCHANGED bucket
    BY <2>1, UnchangedBucket
  <2>2. ASSUME NEW k \in Keys, Put(k), at[k] = "locked"
        PROVE  BucketTypes' /\ account = "active"
    <3>1. BucketTypes'
      BY <2>2, PutSpares
    <3>2. k # None
      BY MediaAssumption
    <3> QED
      BY <2>2, <3>1, <3>2 DEF Locked
  <2>3. ASSUME NEW k \in Keys, Remove(ByKey({k}))
        PROVE  BucketTypes' /\ AddsNothing
    BY <2>3, RemoveByKey
  <2> QED
    BY <1>1, <2>1, <2>2, <2>3, RequestBucket
<1>2. CASE JobStep
  <2>1. CASE UNCHANGED bucket
    BY <2>1, UnchangedBucket
  <2>2. ASSUME NEW S \in SUBSET Orphans, Remove(ByKey(S))
        PROVE  BucketTypes' /\ AddsNothing
    <3>1. S \in SUBSET Keys
      BY DEF Orphans
    <3> QED
      BY <2>2, <3>1, RemoveByKey
  <2> QED
    BY <1>2, <2>1, <2>2, JobBucket
<1>3. CASE AcceptDeletion
  <2>1. UNCHANGED bucket
    BY <1>3 DEF AcceptDeletion
  <2> QED
    BY <2>1, UnchangedBucket
<1>4. CASE WorkStep
  <2>1. CASE UNCHANGED bucket
    BY <2>1, UnchangedBucket
  <2>2. ASSUME NEW S \in SUBSET Entries, Remove(S)
        PROVE  BucketTypes' /\ AddsNothing
    BY <2>2, RemoveKeepsTypes, RemoveAddsNothing
  <2> QED
    BY <1>4, <2>1, <2>2, WorkBucket
<1> QED
  BY <1>1, <1>2, <1>3, <1>4, KindsOfSteps

-----------------------------------------------------------------------------
(* The types of the operation *)

LEMMA NotedTypes ==
    ASSUME WorkTypes, NEW S \in SUBSET Entries, Noted(S)
    PROVE  manifest' \in [todo : SUBSET Entries, kept : SUBSET Entries]
BY DEF Noted, WorkTypes

LEMMA GotoTypes ==
    ASSUME WorkTypes, NEW w \in Workers, NEW place \in WorkerPlaces, Goto(w, place)
    PROVE  pc' \in [Workers -> WorkerPlaces]
BY DEF Goto, WorkTypes

LEMMA NextStep ==
    ASSUME finished \subseteq Steps, finished # Steps
    PROVE  Next1 \in Steps \ finished
<1> DEFINE First(i) == /\ StepOrder[i] \notin finished
                       /\ \A j \in 1..(i - 1) : StepOrder[j] \in finished
<1>1. StepOrder[1] \in finished /\ StepOrder[2] \in finished /\ StepOrder[3] \in finished
        => First(4)
  BY DEF Steps
<1>2. StepOrder[1] \in finished /\ StepOrder[2] \in finished /\ StepOrder[3] \notin finished
        => First(3)
  OBVIOUS
<1>3. StepOrder[1] \in finished /\ StepOrder[2] \notin finished => First(2)
  OBVIOUS
<1>4. StepOrder[1] \notin finished => First(1)
  OBVIOUS
<1>5. \E i \in 1..4 : First(i)
  BY <1>1, <1>2, <1>3, <1>4
<1>6. PICK i \in 1..4 : Next1 = StepOrder[i] /\ First(i)
  BY <1>5 DEF Next1
<1> QED
  BY <1>6 DEF Steps

LEMMA ReportedTypes ==
    ASSUME WorkTypes, NEW w \in Workers, NEW s \in Steps, Reported(w, s)
    PROVE  /\ finished' \subseteq Steps /\ pc' \in [Workers -> WorkerPlaces]
           /\ UNCHANGED <<operation, lease>>
<1>1. \E place \in WorkerPlaces : Goto(w, place)
  BY DEF Reported, WorkerPlaces
<1> QED
  BY <1>1, GotoTypes DEF Reported, WorkTypes

LEMMA YieldsTypes ==
    ASSUME WorkTypes, NEW w \in Workers, Yields(w)
    PROVE  /\ operation' \in {"none", "pending", "processing", "completed"}
           /\ operation' = operation \/ operation' = "pending"
           /\ lease' \in [owner : Workers \cup {None}, lasts : BOOLEAN]
           /\ pc' \in [Workers -> WorkerPlaces] /\ UNCHANGED finished
<1>1. Goto(w, "idle") /\ "idle" \in WorkerPlaces
  BY DEF Yields, WorkerPlaces
<1>2. pc' \in [Workers -> WorkerPlaces]
  BY <1>1, GotoTypes
<1>3. lease' \in [owner : Workers \cup {None}, lasts : BOOLEAN]
  <2>1. lease' = lease \/ lease' = [owner |-> None, lasts |-> FALSE]
    BY DEF Yields, Free
  <2>2. [owner |-> None, lasts |-> FALSE] \in [owner : Workers \cup {None}, lasts : BOOLEAN]
    OBVIOUS
  <2> QED
    BY <2>1, <2>2 DEF WorkTypes
<1>4. operation' = operation \/ operation' = "pending"
  BY DEF Yields
<1> QED
  BY <1>2, <1>3, <1>4 DEF Yields, WorkTypes

LEMMA WorkTypesKept ==
    ASSUME TypeOK, Next
    PROVE  WorkTypes'
<1> USE DEF TypeOK
<1> DEFINE Operations == {"none", "pending", "processing", "completed"}
           Leases == [owner : Workers \cup {None}, lasts : BOOLEAN]
           Manifests == [todo : SUBSET Entries, kept : SUBSET Entries]
           Pcs == [Workers -> WorkerPlaces]
           Gots == [Workers -> SUBSET Entries]
           Refs == [Workers -> SUBSET Keys]
<1>0. /\ operation \in Operations /\ lease \in Leases /\ finished \subseteq Steps
      /\ manifest \in Manifests /\ pc \in Pcs /\ got \in Gots /\ refs \in Refs
  BY DEF WorkTypes
<1>1. /\ [owner |-> None, lasts |-> FALSE] \in Leases
      /\ \A w \in Workers : [owner |-> w, lasts |-> TRUE] \in Leases
  OBVIOUS
<1>2. ASSUME NEW S \in SUBSET Entries, Noted(S)
      PROVE  manifest' \in Manifests
  BY <1>2, NotedTypes
<1>3. ASSUME NEW w \in Workers, NEW place \in WorkerPlaces, Goto(w, place)
      PROVE  pc' \in Pcs
  BY <1>3, GotoTypes
<1>4. ASSUME NEW w \in Workers, NEW s \in Steps, Reported(w, s)
      PROVE  /\ finished' \subseteq Steps /\ pc' \in Pcs
             /\ operation' \in Operations /\ lease' \in Leases
  BY <1>0, <1>4, ReportedTypes
<1>5. ASSUME NEW w \in Workers, Yields(w)
      PROVE  /\ finished' \subseteq Steps /\ pc' \in Pcs
             /\ operation' \in Operations /\ lease' \in Leases
  BY <1>0, <1>5, YieldsTypes
<1>6. "discovery" \in Steps /\ "content" \in Steps /\ "media" \in Steps /\ "completion" \in Steps
  BY DEF Steps, StepOrder
<1>7. \A S \in SUBSET Keys : ByKey(S) \in SUBSET Entries
  BY ByKeyTypes
<1>8. \A S \in SUBSET Keys : Listed(S) \in SUBSET Entries
  BY DEF Listed, BucketTypes
<1>9. PollImages \in SUBSET Keys /\ {avatar} \ {None} \in SUBSET Keys
  BY DEF PollImages, Keys, RequestTypes
<1> HIDE DEF Operations, Leases, Manifests, Pcs, Gots, Refs
<1>10. ASSUME operation' \in Operations, lease' \in Leases, finished' \subseteq Steps,
              manifest' \in Manifests, pc' \in Pcs, got' \in Gots, refs' \in Refs
       PROVE  WorkTypes'
  BY <1>10 DEF WorkTypes, Operations, Leases, Manifests, Pcs, Gots, Refs
<1>11. ASSUME UNCHANGED <<op, workers>>
       PROVE  WorkTypes'
  BY <1>0, <1>10, <1>11 DEF op, workers
<1>12. CASE RequestStep
  <2>1. CASE UNCHANGED op
    BY <1>11, <1>12, <2>1, RequestFrame
  <2>2. ASSUME NEW k \in Keys, Enqueue(k)
        PROVE  WorkTypes'
    <3>1. UNCHANGED workers
      BY <2>2 DEF Enqueue
    <3>2. CASE UNCHANGED op
      BY <1>11, <3>1, <3>2
    <3>3. CASE ~UNCHANGED op
      <4>1. /\ operation' = "pending" /\ lease' = [owner |-> None, lasts |-> FALSE]
            /\ finished' = finished \ {"media", "completion"}
            /\ manifest' = [todo |-> manifest.todo \cup ByKey({k}),
                            kept |-> manifest.kept \ ByKey({k})]
        BY <1>0, <2>2, <3>3 DEF Enqueue, Manifests
      <4>2. manifest' \in Manifests
        BY <1>0, <1>7, <4>1 DEF Manifests
      <4> QED
        BY <1>0, <1>1, <1>10, <3>1, <4>1, <4>2 DEF workers, Operations
    <3> QED
      BY <3>2, <3>3
  <2> QED
    BY <1>12, <2>1, <2>2, RequestFrame
<1>13. CASE JobStep
  BY <1>11, <1>13 DEF JobStep, Age, Collect, ReadReferences, CollectOrphans
<1>14. CASE AcceptDeletion
  <2>1. manifest' \in Manifests
    BY <1>2, <1>7, <1>9, <1>14 DEF AcceptDeletion
  <2> QED
    BY <1>0, <1>10, <1>14, <2>1 DEF AcceptDeletion, workers, Operations
<1>15. CASE LeaseEnds \/ LeaseLapses
  <2>1. lease' \in Leases
    BY <1>0, <1>15 DEF LeaseEnds, LeaseLapses, Leases
  <2> QED
    BY <1>0, <1>10, <1>15, <2>1 DEF LeaseEnds, LeaseLapses, workers
<1>16. ASSUME NEW w \in Workers, Dies(w)
       PROVE  WorkTypes'
  BY <1>0, <1>3, <1>10, <1>16 DEF Dies, op, WorkerPlaces
<1>17. ASSUME NEW w \in Workers, Work(w)
       PROVE  WorkTypes'
  <2>1. CASE ClaimOperation(w)
    <3>1. lease' \in Leases
      BY <1>1, <2>1 DEF ClaimOperation
    <3> QED
      BY <1>0, <1>3, <1>10, <2>1, <3>1 DEF ClaimOperation, WorkerPlaces, Operations
  <2>2. CASE RunNext(w)
    <3>1. operation' \in Operations /\ lease' \in Leases
      BY <1>0, <1>1, <2>2 DEF RunNext, Free, Operations
    <3>2. finished # Steps => Next1 \in Steps
      BY <1>0, NextStep
    <3>3. finished # Steps => Next1 \in {"discovery", "content", "media", "completion"}
      BY <3>2 DEF Steps, StepOrder
    <3>4. \E place \in WorkerPlaces : Goto(w, place)
      BY <2>2, <3>3 DEF RunNext, WorkerPlaces
    <3>5. pc' \in Pcs
      BY <1>3, <3>4
    <3> QED
      BY <1>0, <1>10, <2>2, <3>1, <3>5 DEF RunNext
  <2>3. CASE EraseRows(w)
    BY <1>0, <1>2, <1>4, <1>6, <1>7, <1>9, <1>10, <2>3 DEF EraseRows
  <2>4. CASE ListPrefixes(w)
    <3>1. Listed(Keys \ Legacy) \in SUBSET Entries
      BY <1>8
    <3>2. got' \in Gots /\ refs' \in Refs
      BY <1>0, <1>9, <2>4, <3>1 DEF ListPrefixes, Gots, Refs
    <3> QED
      BY <1>0, <1>3, <1>10, <2>4, <3>2 DEF ListPrefixes, op, WorkerPlaces
  <2>5. CASE NoteVersions(w)
    <3>1. got[w] \in SUBSET Entries
      BY <1>0 DEF Gots
    <3> QED
      BY <1>0, <1>2, <1>3, <1>10, <2>5, <3>1 DEF NoteVersions, WorkerPlaces
  <2>6. CASE NoteKnown(w)
    <3>1. \A S : Listed(Legacy \cap S) \in SUBSET Entries
      BY <1>8, MediaAssumption DEF Keys
    <3>2. manifest' \in Manifests
      BY <1>2, <2>6, <3>1 DEF NoteKnown
    <3>3. got' \in Gots /\ refs' \in Refs
      BY <1>0, <2>6 DEF NoteKnown, Gots, Refs
    <3>4. /\ finished' \subseteq Steps /\ pc' \in Pcs
          /\ operation' \in Operations /\ lease' \in Leases
      BY <1>0, <1>3, <1>4, <1>6, <2>6 DEF NoteKnown, WorkerPlaces
    <3> QED
      BY <1>10, <3>2, <3>3, <3>4
  <2>7. CASE ClaimManifest(w)
    <3>1. got' \in Gots
      BY <1>0, <2>7 DEF ClaimManifest, Gots, Manifests
    <3>2. /\ finished' \subseteq Steps /\ pc' \in Pcs
          /\ operation' \in Operations /\ lease' \in Leases
      BY <1>0, <1>3, <1>4, <1>6, <2>7 DEF ClaimManifest, WorkerPlaces
    <3> QED
      BY <1>0, <1>10, <2>7, <3>1, <3>2 DEF ClaimManifest
  <2>8. CASE DeleteVersions(w)
    BY <1>0, <1>3, <1>10, <2>8 DEF DeleteVersions, op, WorkerPlaces
  <2>9. CASE DeleteFails(w)
    <3>1. manifest' \in Manifests
      BY <1>0, <2>9 DEF DeleteFails, Manifests, Gots
    <3>2. got' \in Gots
      BY <1>0, <2>9 DEF DeleteFails, Gots
    <3> QED
      BY <1>0, <1>5, <1>10, <2>9, <3>1, <3>2 DEF DeleteFails
  <2>10. CASE MarkCompleted(w)
    <3>1. manifest' \in Manifests
      BY <1>0, <2>10 DEF MarkCompleted, Manifests, Gots
    <3>2. got' \in Gots
      BY <1>0, <2>10 DEF MarkCompleted, Gots
    <3> QED
      BY <1>0, <1>5, <1>10, <2>10, <3>1, <3>2 DEF MarkCompleted
  <2>11. CASE Gate(w)
    <3>1. /\ finished' \subseteq Steps /\ pc' \in Pcs
          /\ operation' \in Operations /\ lease' \in Leases
      <4>1. "list" \in WorkerPlaces
        BY DEF WorkerPlaces
      <4> QED
        BY <1>0, <1>4, <1>5, <1>6, <2>11, <4>1 DEF Gate, Pcs
    <3> QED
      BY <1>0, <1>10, <2>11, <3>1 DEF Gate
  <2>12. CASE VerifyEmpty(w)
    BY <1>0, <1>3, <1>5, <1>10, <2>12 DEF VerifyEmpty, WorkerPlaces
  <2>13. CASE DeleteUser(w)
    BY <1>0, <1>3, <1>5, <1>10, <2>13 DEF DeleteUser, WorkerPlaces
  <2>14. CASE RemoveManifest(w)
    <3>1. [todo |-> {}, kept |-> {}] \in Manifests
      BY DEF Manifests
    <3> QED
      BY <1>0, <1>4, <1>5, <1>6, <1>10, <2>14, <3>1 DEF RemoveManifest
  <2> QED
    BY <1>17, <2>1, <2>2, <2>3, <2>4, <2>5, <2>6, <2>7, <2>8, <2>9, <2>10, <2>11, <2>12,
       <2>13, <2>14 DEF Work
<1> QED
  BY <1>12, <1>13, <1>14, <1>15, <1>16, <1>17, KindsOfSteps DEF WorkStep

-----------------------------------------------------------------------------
(* The lock of the account *)

LEMMA WorkClosed ==
    ASSUME Locked, NEW w \in Workers, Work(w) \/ Dies(w)
    PROVE  account # "active"
<1>1. pc[w] # "idle" \/ operation \in {"pending", "processing"}
  BY DEF Work, Dies, ClaimOperation, RunNext, EraseRows, ListPrefixes, NoteVersions,
         NoteKnown, ClaimManifest, DeleteVersions, DeleteFails, MarkCompleted,
         Gate, VerifyEmpty, DeleteUser, RemoveManifest
<1> QED
  BY <1>1 DEF Locked

(* The parts of Locked that speak of requests, and the one about workers. *)
Holding ==
    /\ holder # None => account = "active"
    /\ \A k \in Keys : at[k] = "locked" => holder = k
    /\ \A k \in Avatars : at[k] \in {"uploaded", "named"} => holder = k
    /\ eraser.at \in {"locked", "erased"} =>
           holder = "eraser" /\ eraser.key = avatar /\ avatar # None
Idle == account = "active" =>
            operation = "none" /\ finished = {} /\ \A w \in Workers : pc[w] = "idle"

LEMMA TwoParts == Locked <=> Holding /\ Idle
BY DEF Locked, Holding, Idle

LEMMA HoldingKept ==
    ASSUME TypeOK, Holding, Idle, Next
    PROVE  Holding'
<1> USE MediaAssumption DEF Holding
<1>0. RequestTypes /\ Locked
  BY TwoParts DEF TypeOK
<1>1. ASSUME NEW k \in Images, BeginImage(k)
      PROVE  Holding'
  <2>1. /\ account' = account /\ account = "active" /\ holder = None /\ holder' = k
        /\ avatar' = avatar /\ eraser' = eraser
    BY <1>1 DEF BeginImage, Lock, rows
  <2>2. at'[k] = "locked" /\ k \notin Avatars /\ \A j \in Keys \ {k} : at'[j] = at[j]
    BY <1>0, <1>1, MovesTypes DEF BeginImage, Keys, Places
  <2>3. eraser.at \notin {"locked", "erased"}
    BY <2>1
  <2> QED
    BY <2>1, <2>2, <2>3 DEF Keys
<1>2. ASSUME NEW k \in Images, HidePoll(k)
      PROVE  Holding'
  <2>1. UNCHANGED <<account, avatar, holder, eraser>>
    BY <1>2 DEF HidePoll
  <2>2. at'[k] = "hidden" /\ \A j \in Keys \ {k} : at'[j] = at[j]
    BY <1>0, <1>2, MovesTypes DEF HidePoll, Keys, Places
  <2> QED
    BY <2>1, <2>2 DEF Keys
<1>3. ASSUME NEW k \in Avatars, BeginAvatar(k)
      PROVE  Holding'
  <2>1. /\ account' = account /\ account = "active" /\ holder = None /\ holder' = k
        /\ avatar' = avatar /\ eraser' = eraser
    BY <1>3 DEF BeginAvatar, Lock, rows
  <2>2. at'[k] = "locked" /\ \A j \in Keys \ {k} : at'[j] = at[j]
    BY <1>0, <1>3, MovesTypes DEF BeginAvatar, Keys, Places
  <2>3. eraser.at \notin {"locked", "erased"}
    BY <2>1
  <2> QED
    BY <2>1, <2>2, <2>3 DEF Keys
<1>4. ASSUME NEW k \in Keys, Upload(k) \/ Crash(k)
      PROVE  Holding'
  <2>1. /\ account' = account /\ eraser' = eraser
        /\ \A j \in Keys \ {k} : at'[j] = at[j]
    BY <1>0, <1>4 DEF Upload, Crash, Moves, PutImage, PutFails, CreatePoll, CreateFails,
         CleanUp, CleanUpFails, Enqueue, DropImage, PutAvatar, NameAvatar, NameFails,
         DropFormer, rows, RequestTypes
  <2>2. /\ at'[k] # "locked"
        /\ k \in Avatars /\ at'[k] \in {"uploaded", "named"} =>
               holder' = holder /\ at[k] \in {"locked", "uploaded"}
    BY <1>0, <1>4 DEF Upload, Crash, Moves, PutImage, PutFails, CreatePoll, CreateFails,
         CleanUp, CleanUpFails, Enqueue, DropImage, PutAvatar, NameAvatar, NameFails,
         DropFormer, rows, RequestTypes
  <2>3. holder' = holder \/ (holder = k /\ holder' = None)
    BY <1>4 DEF Upload, Crash, PutImage, PutFails, CreatePoll, CreateFails,
         CleanUp, CleanUpFails, Enqueue, DropImage, PutAvatar, NameAvatar, NameFails,
         DropFormer, Released
  <2>4. avatar' = avatar \/ holder = k
    BY <1>4 DEF Upload, Crash, PutImage, PutFails, CreatePoll, CreateFails,
         CleanUp, CleanUpFails, Enqueue, DropImage, PutAvatar, NameAvatar, NameFails,
         DropFormer, rows, Moves
  <2>5. holder = k => eraser.at \notin {"locked", "erased"} /\ k # None
    OBVIOUS
  <2>6. \A j \in Keys : at'[j] = "locked" => holder' = j
    BY <2>1, <2>2, <2>3
  <2>7. \A j \in Avatars : at'[j] \in {"uploaded", "named"} => holder' = j
    BY <2>1, <2>2, <2>3 DEF Keys
  <2>8. holder' # None => account' = "active"
    BY <2>1, <2>3
  <2>9. eraser'.at \in {"locked", "erased"} =>
            holder' = "eraser" /\ eraser'.key = avatar' /\ avatar' # None
    BY <2>1, <2>3, <2>4, <2>5
  <2> QED
    BY <2>6, <2>7, <2>8, <2>9
<1>5. ASSUME BeginErase \/ Erase \/ CrashErase
      PROVE  Holding'
  <2>1. account' = account /\ at' = at
    BY <1>5 DEF BeginErase, Erase, EraseObject, ClearAvatar, CrashErase, rows
  <2>2. CASE BeginErase
    <3>1. /\ holder = None /\ holder' = "eraser" /\ account = "active"
          /\ avatar' = avatar /\ avatar # None /\ eraser'.key = avatar
      BY <2>2 DEF BeginErase, Lock, rows
    <3> QED
      BY <2>1, <3>1 DEF Keys
  <2>3. CASE Erase \/ CrashErase
    <3>1. /\ holder = "eraser"
          /\ \/ holder' = None /\ eraser'.at \in {"over", "dead"}
             \/ UNCHANGED <<holder, avatar>> /\ eraser'.key = eraser.key
      BY <1>0, <2>3 DEF Erase, EraseObject, ClearAvatar, CrashErase, rows, RequestTypes
    <3>2. eraser.at \in {"locked", "erased"}
      BY <2>3 DEF Erase, EraseObject, ClearAvatar, CrashErase
    <3>3. \A k \in Keys : at[k] # "locked"
      BY <3>1
    <3>4. \A k \in Avatars : at[k] \notin {"uploaded", "named"}
      BY <3>1 DEF Keys
    <3> QED
      BY <2>1, <3>1, <3>2, <3>3, <3>4
  <2> QED
    BY <1>5, <2>2, <2>3
<1>6. CASE JobStep
  BY <1>6 DEF JobStep, Age, Collect, ReadReferences, CollectOrphans, rows, requests
<1>7. CASE AcceptDeletion
  <2>1. /\ holder = None /\ UNCHANGED requests /\ avatar' = avatar
    BY <1>7 DEF AcceptDeletion
  <2> QED
    BY <2>1 DEF requests
<1>8. CASE WorkStep
  <2>1. UNCHANGED requests
    BY <1>8, WorkFrame
  <2>2. CASE UNCHANGED <<account, avatar>>
    BY <2>1, <2>2 DEF requests
  <2>3. CASE ~UNCHANGED <<account, avatar>>
    <3>1. \E w \in Workers : Work(w) \/ Dies(w)
      BY <1>8, <2>3 DEF WorkStep, LeaseEnds, LeaseLapses, rows
    <3>2. account # "active"
      BY <1>0, <3>1, WorkClosed
    <3> QED
      BY <2>1, <3>2 DEF requests
  <2> QED
    BY <2>2, <2>3
<1> QED
  BY <1>1, <1>2, <1>3, <1>4, <1>5, <1>6, <1>7, <1>8, KindsOfSteps DEF RequestStep

LEMMA IdleKept ==
    ASSUME TypeOK, Holding, Idle, Next
    PROVE  Idle'
<1>1. CASE RequestStep
  <2>1. CASE UNCHANGED op
    BY <1>1, <2>1, RequestFrame DEF Idle, op, workers
  <2>2. ASSUME NEW k \in Keys, Enqueue(k)
        PROVE  Idle'
    BY <2>2 DEF Enqueue, Idle, op, rows, workers
  <2> QED
    BY <1>1, <2>1, <2>2, RequestFrame
<1>2. CASE JobStep
  BY <1>2 DEF JobStep, Age, Collect, ReadReferences, CollectOrphans, Idle, op, rows, workers
<1>3. CASE AcceptDeletion
  BY <1>3 DEF AcceptDeletion, Idle
<1>4. CASE LeaseEnds \/ LeaseLapses
  BY <1>4 DEF LeaseEnds, LeaseLapses, Idle, rows, workers
<1>5. ASSUME NEW w \in Workers, Work(w) \/ Dies(w)
      PROVE  Idle'
  <2>1. account # "active"
    BY <1>5, TwoParts, WorkClosed
  <2>2. account' # "active"
    BY <1>5, <2>1, WorkFrame DEF WorkStep
  <2> QED
    BY <2>2 DEF Idle
<1> QED
  BY <1>1, <1>2, <1>3, <1>4, <1>5, KindsOfSteps DEF WorkStep

-----------------------------------------------------------------------------
(* Where the uploads are *)

LEMMA PlacedKept ==
    ASSUME TypeOK, Locked, Placed, Next
    PROVE  Placed'
<1> USE MediaAssumption DEF Placed
<1>0. RequestTypes /\ Images \cap Avatars = {} /\ Keys = Images \cup Avatars /\ None \notin Keys
  BY DEF TypeOK, Keys
<1>1. ASSUME NEW k \in Images, BeginImage(k)
      PROVE  Placed'
  <2>1. UNCHANGED <<polls, avatar, former, old, job>>
    BY <1>1 DEF BeginImage, rows, jobs
  <2>2. at[k] = "idle" /\ at'[k] = "locked" /\ \A j \in Keys \ {k} : at'[j] = at[j]
    BY <1>0, <1>1, MovesTypes DEF BeginImage, Places
  <2> QED
    BY <1>0, <2>1, <2>2 DEF Owned, Live, Unheard, RequestTypes
<1>2. ASSUME NEW k \in Images, HidePoll(k)
      PROVE  Placed'
  <2>1. UNCHANGED <<avatar, former, old, job>> /\ polls' = [polls EXCEPT ![k] = "hidden"]
    BY <1>2 DEF HidePoll, jobs
  <2>2. at[k] = "over" /\ at'[k] = "hidden" /\ \A j \in Keys \ {k} : at'[j] = at[j]
    BY <1>0, <1>2, MovesTypes DEF HidePoll, Places
  <2> QED
    BY <1>0, <2>1, <2>2 DEF Owned, Live, Unheard, RequestTypes
<1>3. ASSUME NEW k \in Avatars, BeginAvatar(k)
      PROVE  Placed'
  <2>1. UNCHANGED <<polls, avatar, old, job>> /\ former' = [former EXCEPT ![k] = avatar]
    BY <1>3 DEF BeginAvatar, rows, jobs
  <2>2. at[k] = "idle" /\ at'[k] = "locked" /\ \A j \in Keys \ {k} : at'[j] = at[j]
    BY <1>0, <1>3, MovesTypes DEF BeginAvatar, Places
  <2>3. holder = None
    BY <1>3 DEF BeginAvatar, Lock
  <2>4. \A a \in Avatars : at[a] \notin {"locked", "uploaded", "named"}
    BY <1>0, <2>3 DEF Locked
  <2>5. avatar # None => at[avatar] = "over"
    BY <1>0, <2>4 DEF RequestTypes
  <2> QED
    BY <1>0, <2>1, <2>2, <2>4, <2>5 DEF Owned, Live, Unheard, RequestTypes
<1>4. ASSUME NEW k \in Images, Upload(k) \/ Crash(k)
      PROVE  Placed'
  <2>1. /\ UNCHANGED <<avatar, old, job>>
        /\ \A a \in Avatars : former'[a] = former[a]
        /\ \A j \in Images \ {k} : polls'[j] = polls[j]
    BY <1>0, <1>4 DEF Upload, Crash, PutImage, PutFails, CreatePoll, CreateFails, CleanUp,
         CleanUpFails, Enqueue, DropImage, PutAvatar, NameAvatar, NameFails, DropFormer,
         rows, jobs, ReplacesNone, RequestTypes
  <2>2. \A j \in Keys \ {k} : at'[j] = at[j]
    BY <1>0, <1>4 DEF Upload, Crash, Moves, PutImage, PutFails, CreatePoll, CreateFails,
         CleanUp, CleanUpFails, Enqueue, DropImage, PutAvatar, NameAvatar, NameFails,
         DropFormer, RequestTypes
  <2>3. /\ at'[k] # "named"
        /\ at[k] \in {"over", "hidden"} => at'[k] = "over" /\ polls'[k] = polls[k]
        /\ \/ at'[k] = "over" /\ (polls'[k] = polls[k] \/ polls'[k] = "live")
           \/ polls'[k] = polls[k] /\ at[k] \notin {"cleanup", "enqueue", "over"}
           \/ polls'[k] = polls[k] /\ at'[k] = "enqueue"
           \/ at[k] = "uploaded" /\ at'[k] = "cleanup" /\ polls'[k] \in {polls[k], "unheard"}
    BY <1>0, <1>4 DEF Upload, Crash, Moves, PutImage, PutFails, CreatePoll, CreateFails,
         CleanUp, CleanUpFails, Enqueue, DropImage, PutAvatar, NameAvatar, NameFails,
         DropFormer, rows, RequestTypes
  <2>4. \A j \in Images :
            /\ at'[j] # "named" /\ (polls'[j] = "live" => at'[j] = "over")
            /\ Unheard(j)' => at'[j] \in {"cleanup", "enqueue", "over"}
    BY <1>0, <2>1, <2>2, <2>3 DEF Unheard
  <2>5. \A a \in Avatars : at'[a] = at[a]
    BY <1>0, <2>2
  <2>6. avatar' # None => at'[avatar'] \in {"named", "over"}
    BY <1>0, <2>1, <2>5 DEF RequestTypes
  <2>7. \A a \in Avatars : former'[a] # None => at'[former'[a]] = "over"
    BY <1>0, <2>1, <2>5 DEF RequestTypes
  <2>8. \A j \in old' : at'[j] \in {"over", "hidden"}
    BY <1>0, <2>1, <2>2, <2>3 DEF RequestTypes
  <2>9. job'.at = "read" => \A j \in old' : Owned(j)' => j \in job'.named
    BY <1>0, <2>1, <2>2, <2>3 DEF Owned, Live, Unheard, RequestTypes
  <2> QED
    BY <2>1, <2>4, <2>5, <2>6, <2>7, <2>8, <2>9
<1>5. ASSUME NEW k \in Avatars, Upload(k) \/ Crash(k)
      PROVE  Placed'
  <2>1. UNCHANGED <<polls, old, job>>
    BY <1>0, <1>5 DEF Upload, Crash, PutImage, PutFails, CreatePoll, CreateFails, CleanUp,
         CleanUpFails, Enqueue, DropImage, PutAvatar, NameAvatar, NameFails, DropFormer,
         rows, jobs, Moves
  <2>2. \A j \in Keys \ {k} : at'[j] = at[j]
    BY <1>0, <1>5 DEF Upload, Crash, Moves, PutImage, PutFails, CreatePoll, CreateFails,
         CleanUp, CleanUpFails, Enqueue, DropImage, PutAvatar, NameAvatar, NameFails,
         DropFormer, RequestTypes
  <2>3. \/ at[k] = "locked" /\ at'[k] = "uploaded" /\ UNCHANGED <<avatar, former>>
        \/ at[k] = "uploaded" /\ at'[k] = "named" /\ avatar' = k /\ former' = former
        \/ at[k] = "named" /\ at'[k] = "over" /\ UNCHANGED <<avatar, former>>
        \/ at[k] \notin {"named", "over", "hidden"} /\ at'[k] = "over" /\ avatar' = avatar
           /\ ReplacesNone(k)
    BY <1>0, <1>5 DEF Upload, Crash, Moves, PutImage, PutFails, CreatePoll, CreateFails,
         CleanUp, CleanUpFails, Enqueue, DropImage, PutAvatar, NameAvatar, NameFails,
         DropFormer, rows, RequestTypes
  <2>4. \A j \in Images : at'[j] = at[j] /\ polls'[j] = polls[j]
    BY <1>0, <2>1, <2>2
  <2>5. at[k] \in {"locked", "uploaded", "named"} =>
            \A a \in Avatars \ {k} : at[a] \notin {"locked", "uploaded", "named"}
    BY <1>0 DEF Locked
  <2>6. CASE at[k] = "uploaded" /\ at'[k] = "named" /\ avatar' = k /\ former' = former
    <3>1. k \notin old /\ \A a \in Avatars : former[a] # k
      BY <1>0, <2>6
    <3>2. \A j \in old : j # k
      BY <3>1
    <3>3. job'.at = "read" => \A j \in old' : Owned(j)' => j \in job'.named
      BY <1>0, <2>1, <2>6, <3>2 DEF Owned, Live, Unheard
    <3>4. \A a \in Avatars : former'[a] # None => at'[former'[a]] = "over"
      BY <1>0, <2>2, <2>6, <3>1 DEF RequestTypes
    <3> QED
      BY <1>0, <2>1, <2>2, <2>4, <2>5, <2>6, <3>2, <3>3, <3>4 DEF RequestTypes, Unheard
  <2>7. CASE at'[k] # "named" /\ avatar' = avatar
    <3>1. \A a \in Avatars \ {k} : former'[a] = former[a]
      BY <2>3, <2>7 DEF ReplacesNone
    <3>2. former'[k] = former[k] \/ former'[k] = None
      BY <2>3, <2>7 DEF ReplacesNone
    <3>3. at'[k] = "uploaded" => former'[k] = former[k] /\ at[k] = "locked"
      BY <2>3, <2>7
    <3>4. at[k] \in {"named", "over"} => at'[k] = "over"
      BY <2>3, <2>7
    <3>5. at[k] # "over" /\ at'[k] \in {"uploaded", "over"}
      BY <2>3, <2>7
    <3>6. job'.at = "read" => \A j \in old' : Owned(j)' => j \in job'.named
      BY <2>1, <2>7 DEF Owned, Live, Unheard
    <3>7. \A a \in Avatars : former'[a] # None => at'[former'[a]] = "over"
      BY <1>0, <2>2, <3>1, <3>2, <3>5 DEF RequestTypes
    <3>8. \A j \in old' : at'[j] \in {"over", "hidden"}
      BY <1>0, <2>1, <2>2, <3>5 DEF RequestTypes
    <3>9. avatar' # None => at'[avatar'] \in {"named", "over"}
      BY <1>0, <2>2, <2>7, <3>4 DEF RequestTypes
    <3>10. \A a \in Avatars : at'[a] \in {"locked", "uploaded"} => former'[a] = avatar'
      BY <1>0, <2>2, <2>7, <3>1, <3>3, <3>5
    <3>11. \A a \in Avatars : at'[a] = "named" => avatar' = a
      BY <1>0, <2>2, <2>7
    <3>12. \A a \in Avatars : at'[a] \notin {"cleanup", "enqueue", "hidden"}
      BY <1>0, <2>2, <3>5
    <3>13. \A j \in Images : Unheard(j)' => at'[j] \in {"cleanup", "enqueue", "over"}
      BY <2>4 DEF Unheard
    <3> QED
      BY <2>4, <3>6, <3>7, <3>8, <3>9, <3>10, <3>11, <3>12, <3>13
  <2> QED
    BY <2>3, <2>6, <2>7
<1>6. CASE BeginErase \/ Erase \/ CrashErase
  <2>1. UNCHANGED <<polls, at, former, old, job>>
    BY <1>6 DEF BeginErase, Erase, EraseObject, ClearAvatar, CrashErase, rows, jobs
  <2>2. avatar' = avatar \/ (avatar' = None /\ holder = "eraser")
    BY <1>6 DEF BeginErase, Erase, EraseObject, ClearAvatar, CrashErase, rows, Locked
  <2>3. CASE avatar' = avatar
    BY <2>1, <2>3 DEF Owned, Live, Unheard
  <2>4. CASE avatar' = None /\ holder = "eraser"
    <3>1. \A a \in Avatars : at[a] \notin {"locked", "uploaded", "named"}
      BY <1>0, <2>4 DEF Locked
    <3> QED
      BY <1>0, <2>1, <2>4, <3>1 DEF Owned, Live, Unheard, RequestTypes
  <2> QED
    BY <2>2, <2>3, <2>4
<1>7. CASE JobStep
  <2>1. UNCHANGED <<polls, avatar, at, former>>
    BY <1>7 DEF JobStep, Age, Collect, ReadReferences, CollectOrphans, rows, requests
  <2>2. CASE Age
    BY <1>0, <2>1, <2>2 DEF Age, Unheard
  <2>3. CASE ReadReferences
    BY <1>0, <2>1, <2>3 DEF ReadReferences, Owned, Live, Unheard, RequestTypes
  <2>4. CASE CollectOrphans
    BY <1>0, <2>1, <2>4 DEF CollectOrphans, Unheard
  <2> QED
    BY <1>7, <2>2, <2>3, <2>4 DEF JobStep, Collect
<1>8. CASE AcceptDeletion
  BY <1>8 DEF AcceptDeletion, requests, jobs, Owned, Live, Unheard
<1>9. CASE WorkStep
  <2>1. UNCHANGED <<at, former, old, job>>
    BY <1>9, WorkFrame DEF requests, jobs
  <2>2. /\ avatar' = avatar \/ avatar' = None
        /\ polls' = polls \/ polls' = [k \in Images |-> "none"]
    BY <1>9, WorkFrame
  <2>3. avatar' = avatar \/ account # "active"
    BY <1>9, WorkClosed DEF WorkStep, LeaseEnds, LeaseLapses, rows
  <2>4. avatar' = avatar \/ \A a \in Avatars : at[a] \notin {"locked", "uploaded", "named"}
    BY <1>0, <2>3 DEF Locked
  <2>5. \A k \in Keys : Owned(k)' => Owned(k)
    BY <1>0, <2>2 DEF Owned, Live, Unheard
  <2>6. \A k \in Images : /\ polls'[k] = "live" => polls[k] = "live"
                          /\ Unheard(k)' => Unheard(k)
    BY <2>2 DEF Unheard
  <2>7. avatar' # None => at'[avatar'] \in {"named", "over"}
    BY <2>1, <2>2
  <2>8. \A a \in Avatars : at'[a] \in {"locked", "uploaded"} => former'[a] = avatar'
    BY <2>1, <2>4
  <2>9. \A a \in Avatars : at'[a] = "named" => avatar' = a
    BY <2>1, <2>4
  <2>10. job'.at = "read" => \A k \in old' : Owned(k)' => k \in job'.named
    BY <1>0, <2>1, <2>5 DEF RequestTypes
  <2> QED
    BY <1>0, <2>1, <2>6, <2>7, <2>8, <2>9, <2>10
<1> QED
  BY <1>0, <1>1, <1>2, <1>3, <1>4, <1>5, <1>6, <1>7, <1>8, <1>9, KindsOfSteps
     DEF RequestStep

-----------------------------------------------------------------------------
(* What rows name can be read *)

(* The exceptions of ReferencedKept. *)
Excused(k) ==
    \/ eraser.key = k /\ eraser.at \in {"erased", "dead"}
    \/ k \in Images /\ Unheard(k)

(* A request removes only an object that no row names afterwards, or one   *)
(* of the exceptions.                                                      *)
LEMMA RequestRemoves ==
    ASSUME TypeOK, Locked, Placed, RequestStep
    PROVE  \/ UNCHANGED bucket
           \/ \E k \in Keys : Put(k) /\ at[k] = "locked"
           \/ \E k \in Keys :
                  /\ Remove(ByKey({k})) /\ at[k] \in {"cleanup", "hidden", "over"}
                  /\ Owned(k)' => Excused(k)'
<1> USE MediaAssumption
<1> DEFINE Ok(k) == /\ Remove(ByKey({k})) /\ at[k] \in {"cleanup", "hidden", "over"}
                    /\ Owned(k)' => Excused(k)'
<1>0. RequestTypes /\ Images \cap Avatars = {} /\ Keys = Images \cup Avatars /\ None \notin Keys
  BY DEF TypeOK, Keys
<1>1. ASSUME NEW k \in Keys, CleanUp(k) \/ CleanUpFails(k) \/ DropImage(k)
      PROVE  UNCHANGED bucket \/ Ok(k)
  <2>1. at[k] \in {"cleanup", "hidden"} /\ UNCHANGED <<polls, avatar>>
    BY <1>1 DEF CleanUp, CleanUpFails, DropImage, Moves, rows
  <2>2. k \notin Avatars
    BY <2>1 DEF Placed
  <2>3. avatar # k /\ polls[k] # "live"
    BY <1>0, <2>1, <2>2 DEF Placed, RequestTypes
  <2>4. Owned(k)' => Excused(k)'
    BY <2>1, <2>3 DEF Owned, Live, Unheard, Excused
  <2> QED
    BY <1>1, <2>1, <2>4 DEF CleanUp, CleanUpFails, DropImage
<1>2. ASSUME NEW k \in Keys, DropFormer(k)
      PROVE  UNCHANGED bucket \/ \E j \in Keys : Ok(j)
  <2>1. CASE former[k] = None
    BY <1>2, <2>1 DEF DropFormer
  <2>2. CASE former[k] # None
    <3>1. k \in Avatars /\ at[k] = "named" /\ avatar = k /\ UNCHANGED <<polls, avatar>>
      BY <1>2 DEF DropFormer, Moves, rows, Placed
    <3>2. PICK j \in Avatars : j = former[k] /\ at[j] = "over"
      BY <2>2, <3>1, <1>0 DEF Placed, RequestTypes
    <3>3. ~Owned(j)'
      BY <1>0, <3>1, <3>2 DEF Owned
    <3>4. UNCHANGED bucket \/ Remove(ByKey({j}))
      BY <1>2, <3>2 DEF DropFormer
    <3> QED
      BY <1>0, <3>2, <3>3, <3>4
  <2> QED
    BY <2>1, <2>2
<1>3. ASSUME EraseObject
      PROVE  UNCHANGED bucket \/ \E j \in Keys : Ok(j)
  <2>1. /\ eraser.key = avatar /\ avatar \in Keys /\ holder = "eraser"
        /\ "eraser" \notin Keys
    BY <1>0, <1>3 DEF EraseObject, Locked, RequestTypes
  <2>2. at[avatar] = "over"
    BY <1>0, <2>1 DEF Placed, Locked, RequestTypes
  <2>3. \/ UNCHANGED bucket
        \/ Remove(ByKey({avatar})) /\ eraser'.key = avatar /\ eraser'.at = "erased"
    BY <1>0, <1>3, <2>1 DEF EraseObject, RequestTypes
  <2> QED
    BY <2>1, <2>2, <2>3 DEF Excused
<1>4. ASSUME ~EraseObject,
             \A k \in Keys : ~(CleanUp(k) \/ CleanUpFails(k) \/ DropImage(k) \/ DropFormer(k))
      PROVE  UNCHANGED bucket \/ \E k \in Keys : Put(k) /\ at[k] = "locked"
  BY <1>4 DEF RequestStep, BeginImage, HidePoll, BeginAvatar, Crash, BeginErase, CrashErase,
         Upload, PutImage, PutFails, CreatePoll, CreateFails, Enqueue, PutAvatar,
         NameAvatar, NameFails, Moves, Erase, ClearAvatar
<1> QED
  BY <1>1, <1>2, <1>3, <1>4

LEMMA JobRemoves ==
    ASSUME TypeOK, Locked, Placed, JobStep
    PROVE  \/ UNCHANGED bucket
           \/ \E S \in SUBSET Keys :
                  /\ Remove(ByKey(S))
                  /\ \A k \in S : at[k] \in {"hidden", "over"} /\ ~Owned(k)
<1>1. \A k \in Orphans : job.at = "read" => at[k] \in {"hidden", "over"} /\ ~Owned(k)
  BY DEF Orphans, Placed
<1>2. Orphans \in SUBSET Keys
  BY DEF Orphans
<1>3. CASE CollectOrphans
  BY <1>1, <1>2, <1>3 DEF CollectOrphans
<1>4. CASE ~CollectOrphans
  BY <1>4 DEF JobStep, Age, Collect, ReadReferences
<1> QED
  BY <1>3, <1>4

(* The keys that a step spares while the account is active. *)
LEMMA Spared ==
    ASSUME TypeOK, Locked, Placed, Next, account = "active"
    PROVE  /\ \A k \in Keys : at[k] \in {"idle", "locked", "uploaded", "named"} => Spares(k)
           /\ \A k \in Keys : Owned(k)' /\ Owned(k) =>
                  Spares(k) \/ Excused(k)'
<1>1. CASE UNCHANGED bucket
  BY <1>1, UnchangedBucket
<1>2. CASE RequestStep
  <2>1. ASSUME NEW j \in Keys, Put(j)
        PROVE  \A k \in Keys : Spares(k)
    BY <2>1, PutSpares
  <2>2. ASSUME NEW j \in Keys, Remove(ByKey({j})), at[j] \in {"cleanup", "hidden", "over"},
               Owned(j)' => Excused(j)'
        PROVE  /\ \A k \in Keys :
                      at[k] \in {"idle", "locked", "uploaded", "named"} => Spares(k)
               /\ \A k \in Keys : Owned(k)' => Spares(k) \/ Excused(k)'
    <3>1. \A k \in Keys \ {j} : Spares(k)
      BY <2>2, RemoveByKey
    <3> QED
      BY <2>2, <3>1
  <2> QED
    BY <1>1, <1>2, <2>1, <2>2, RequestRemoves
<1>3. CASE JobStep
  <2>1. ASSUME NEW S \in SUBSET Keys, Remove(ByKey(S)),
               \A k \in S : at[k] \in {"hidden", "over"} /\ ~Owned(k)
        PROVE  /\ \A k \in Keys :
                      at[k] \in {"idle", "locked", "uploaded", "named"} => Spares(k)
               /\ \A k \in Keys : Owned(k) => Spares(k)
    BY <2>1, RemoveByKey
  <2> QED
    BY <1>1, <1>3, <2>1, JobRemoves
<1>4. CASE AcceptDeletion
  BY <1>1, <1>4 DEF AcceptDeletion
<1>5. CASE WorkStep
  BY <1>1, <1>5, WorkClosed DEF WorkStep, LeaseEnds, LeaseLapses
<1> QED
  BY <1>2, <1>3, <1>4, <1>5, KindsOfSteps

(* Uploads only go forward. *)
LEMMA Forward ==
    ASSUME TypeOK, Next, NEW k \in Keys
    PROVE  /\ at'[k] \in {"idle", "locked", "uploaded", "named"} =>
                  at[k] \in {"idle", "locked", "uploaded", "named"}
           /\ at'[k] = "uploaded" =>
                  at[k] = "uploaded" \/ (at[k] = "locked" /\ Put(k))
<1>0. RequestTypes
  BY DEF TypeOK
<1>1. CASE RequestStep
  <2>1. ASSUME NEW j \in Keys, Upload(j)
        PROVE  /\ at'[k] \in {"idle", "locked", "uploaded", "named"} =>
                      at[k] \in {"idle", "locked", "uploaded", "named"}
               /\ at'[k] = "uploaded" =>
                      at[k] = "uploaded" \/ (at[k] = "locked" /\ Put(k))
    BY <1>0, <2>1 DEF Upload, PutImage, PutFails, CreatePoll, CreateFails, CleanUpFails,
         CleanUp, DropImage, DropFormer, Enqueue, PutAvatar, NameAvatar, NameFails, Moves,
         RequestTypes
  <2>2. ASSUME NEW j \in Keys, BeginImage(j) \/ HidePoll(j) \/ BeginAvatar(j) \/ Crash(j)
        PROVE  /\ at'[k] \in {"idle", "locked", "uploaded", "named"} =>
                      at[k] \in {"idle", "locked", "uploaded", "named"}
               /\ at'[k] = "uploaded" => at[k] = "uploaded"
    BY <1>0, <2>2 DEF BeginImage, HidePoll, BeginAvatar, Crash, Moves, RequestTypes
  <2>3. CASE BeginErase \/ Erase \/ CrashErase
    BY <2>3 DEF BeginErase, Erase, EraseObject, ClearAvatar, CrashErase
  <2> QED
    BY <1>1, <2>1, <2>2, <2>3 DEF RequestStep, Keys
<1>2. CASE JobStep \/ AcceptDeletion \/ WorkStep
  BY <1>2, WorkFrame DEF JobStep, Age, Collect, ReadReferences, CollectOrphans,
         AcceptDeletion, requests
<1> QED
  BY <1>1, <1>2, KindsOfSteps

LEMMA OnlyClosed ==
    ASSUME Next, account' = "active"
    PROVE  account = "active" /\ (RequestStep \/ JobStep \/ WorkStep)
BY KindsOfSteps, RequestFrame, WorkFrame DEF JobStep, Age, Collect, ReadReferences,
   CollectOrphans, rows, AcceptDeletion

LEMMA FreshKept ==
    ASSUME TypeOK, Locked, Placed, Fresh, Next
    PROVE  Fresh'
<1> SUFFICES ASSUME account' = "active", NEW k \in Keys
             PROVE  /\ at'[k] \in {"idle", "locked", "uploaded", "named"} => ~Marked(k)'
                    /\ at'[k] = "uploaded" => Object(k) \in stored'
  BY DEF Fresh
<1>1. account = "active"
  BY OnlyClosed
<1>2. at[k] \in {"idle", "locked", "uploaded", "named"} => Spares(k)
  BY <1>1, Spared
<1>3. Put(k) => Object(k) \in stored'
  BY PutSpares
<1> QED
  BY <1>1, <1>2, <1>3, Forward DEF Fresh, Spares

(* A row names an object only once it is there. *)
LEMMA OwnedAfter ==
    ASSUME TypeOK, Locked, Next, account' = "active", NEW k \in Keys, Owned(k)'
    PROVE  \/ Owned(k) \/ Excused(k)'
           \/ at[k] = "uploaded" /\ at'[k] \in {"named", "over"} /\ UNCHANGED bucket
<1>0. RequestTypes /\ None \notin Keys
  BY MediaAssumption DEF TypeOK
<1>1. ASSUME NEW j \in Keys, Upload(j)
      PROVE  \/ Owned(k) \/ Excused(k)'
             \/ at[k] = "uploaded" /\ at'[k] \in {"named", "over"} /\ UNCHANGED bucket
  <2>1. CASE UNCHANGED <<polls, avatar>>
    BY <2>1 DEF Owned, Live, Unheard
  <2>2. CASE CreatePoll(j)
    BY <1>0, <2>2 DEF CreatePoll, Moves, RequestTypes, Owned, Live, Unheard
  <2>3. CASE CreateFails(j)
    <3>1. avatar' = avatar /\ (polls' = polls \/ polls' = [polls EXCEPT ![j] = "unheard"])
      BY <2>3 DEF CreateFails
    <3> QED
      BY <1>0, <3>1 DEF RequestTypes, Owned, Live, Unheard, Excused
  <2>4. CASE NameAvatar(j)
    BY <1>0, <2>4 DEF NameAvatar, Moves, RequestTypes, Owned, Live, Unheard
  <2> QED
    BY <1>1, <2>1, <2>2, <2>3, <2>4 DEF Upload, PutImage, PutFails, CleanUpFails, CleanUp,
       DropImage, DropFormer, Enqueue, PutAvatar, NameFails, rows
<1>2. ASSUME NEW j \in Keys, BeginImage(j) \/ HidePoll(j) \/ BeginAvatar(j) \/ Crash(j)
      PROVE  Owned(k)
  BY <1>0, <1>2 DEF BeginImage, HidePoll, BeginAvatar, Crash, RequestTypes, Owned, Live,
     Unheard, rows
<1>3. CASE BeginErase \/ Erase \/ CrashErase
  <2>1. polls' = polls /\ avatar' \in {avatar, None}
    BY <1>3 DEF BeginErase, Erase, EraseObject, ClearAvatar, CrashErase, rows
  <2> QED
    BY <1>0, <2>1 DEF Owned, Live, Unheard
<1>4. CASE JobStep
  BY <1>4 DEF JobStep, Age, Collect, ReadReferences, CollectOrphans, Owned, Live, Unheard,
     rows
<1>5. CASE WorkStep
  BY <1>0, <1>5, WorkFrame DEF Owned, Live, Unheard
<1> QED
  BY <1>1, <1>2, <1>3, <1>4, <1>5, OnlyClosed DEF RequestStep, Keys

(* While its row stays, an avatar that is being deleted stays so. *)
LEMMA ErasingAfter ==
    ASSUME TypeOK, Locked, Next, NEW k \in Keys, Owned(k)',
           eraser.key = k, eraser.at \in {"erased", "dead"}
    PROVE  eraser'.key = k /\ eraser'.at \in {"erased", "dead"}
<1>0. RequestTypes
  BY DEF TypeOK
<1>1. ASSUME NEW j \in Keys, Upload(j) \/ BeginImage(j) \/ HidePoll(j) \/ BeginAvatar(j)
                             \/ Crash(j)
      PROVE  eraser' = eraser
  BY <1>1 DEF BeginImage, HidePoll, BeginAvatar, Crash, Upload, PutImage, PutFails,
         CreatePoll, CreateFails, CleanUpFails, CleanUp, DropImage, DropFormer, Enqueue,
         PutAvatar, NameAvatar, NameFails
<1>2. CASE ClearAvatar
  <2>1. k \in Avatars /\ k \notin Images /\ avatar' = None
    BY <1>0, <1>2, MediaAssumption DEF RequestTypes, ClearAvatar
  <2> QED
    BY <2>1, MediaAssumption DEF Owned
<1>3. CASE BeginErase \/ EraseObject \/ CrashErase
  BY <1>0, <1>3 DEF BeginErase, EraseObject, CrashErase, RequestTypes
<1>4. CASE JobStep \/ AcceptDeletion \/ WorkStep
  BY <1>4, WorkFrame DEF JobStep, Age, Collect, ReadReferences, CollectOrphans,
     AcceptDeletion, requests
<1> QED
  BY <1>1, <1>2, <1>3, <1>4, KindsOfSteps DEF RequestStep, Erase, Keys

(* While its row stays, a poll whose creation was reported as failed stays *)
(* such a one.                                                             *)
LEMMA UnheardAfter ==
    ASSUME TypeOK, Placed, Next, NEW k \in Images, Unheard(k), Live(k)'
    PROVE  Unheard(k)'
<1>0. RequestTypes /\ at[k] # "uploaded"
  BY DEF TypeOK, Placed
<1>1. ASSUME NEW j \in Keys, Upload(j)
      PROVE  polls'[k] = polls[k] \/ at[k] = "uploaded"
  BY <1>0, <1>1 DEF Upload, PutImage, PutFails, CreatePoll, CreateFails, CleanUpFails,
     CleanUp, DropImage, DropFormer, Enqueue, PutAvatar, NameAvatar, NameFails, Moves,
     RequestTypes, rows
<1>2. ASSUME NEW j \in Keys, BeginImage(j) \/ HidePoll(j) \/ BeginAvatar(j) \/ Crash(j)
      PROVE  polls'[k] \in {polls[k], "hidden"}
  BY <1>0, <1>2 DEF BeginImage, HidePoll, BeginAvatar, Crash, RequestTypes, rows
<1>3. CASE BeginErase \/ Erase \/ CrashErase
  BY <1>3 DEF BeginErase, Erase, EraseObject, ClearAvatar, CrashErase, rows, Unheard
<1>4. CASE JobStep \/ AcceptDeletion \/ WorkStep
  BY <1>4, WorkFrame DEF JobStep, Age, Collect, ReadReferences, CollectOrphans,
     AcceptDeletion, rows, Live, Unheard
<1> QED
  BY <1>0, <1>1, <1>2, <1>3, <1>4, KindsOfSteps DEF RequestStep, Keys, Live, Unheard

LEMMA ReferencedKeptKept ==
    ASSUME TypeOK, Locked, Placed, Fresh, ReferencedKept, Next
    PROVE  ReferencedKept'
<1> SUFFICES ASSUME account' = "active", NEW k \in Keys, Owned(k)'
             PROVE  Readable(k)' \/ Excused(k)'
  BY DEF ReferencedKept, Excused
<1>1. account = "active"
  BY OnlyClosed
<1>2. CASE at[k] = "uploaded" /\ at'[k] \in {"named", "over"} /\ UNCHANGED bucket
  <2>1. Readable(k)
    BY <1>1, <1>2 DEF Fresh, Readable
  <2> QED
    BY <1>2, <2>1 DEF Readable, Marked, bucket
<1>3. CASE Owned(k)
  <2>1. Readable(k) \/ Excused(k)
    BY <1>1, <1>3 DEF ReferencedKept, Excused
  <2>2. Spares(k) \/ Excused(k)'
    BY <1>1, <1>3, Spared
  <2>3. Excused(k) => Excused(k)'
    <3>1. RequestTypes' /\ Images \cap Avatars = {} /\ None \notin Keys
      BY RequestTypesKept, MediaAssumption
    <3>2. k \in Images => Live(k)'
      BY <3>1 DEF Owned, RequestTypes
    <3> QED
      BY <3>2, ErasingAfter, UnheardAfter DEF Excused
  <2> QED
    BY <2>1, <2>2, <2>3 DEF Spares, Readable
<1> QED
  BY <1>2, <1>3, OwnedAfter

-----------------------------------------------------------------------------
(* What a deletion leaves *)

(* An avatar that was named is not uploaded once more. *)
LEMMA NamedAfter ==
    ASSUME TypeOK, Next, NEW a \in Avatars, at[a] \in {"named", "over"}
    PROVE  /\ former'[a] = former[a] /\ at'[a] \in {"named", "over"}
           /\ at[a] = "over" => at'[a] = "over"
<1> DEFINE Kept == /\ former'[a] = former[a] /\ at'[a] \in {"named", "over"}
                   /\ at[a] = "over" => at'[a] = "over"
<1>0. RequestTypes /\ a \in Keys /\ a \notin Images
  BY MediaAssumption DEF TypeOK, Keys
<1>1. ASSUME NEW k \in Keys, Upload(k)
      PROVE  Kept
  <2>1. /\ at' = [at EXCEPT ![k] = at'[k]]
        /\ at[k] = "named" => at'[k] = "over" /\ former' = former
        /\ at[k] = "over" => k \in Images /\ former' = former
        /\ former' = former \/ ReplacesNone(k)
    BY <1>0, <1>1 DEF Upload, PutImage, PutFails, CreatePoll, CreateFails, CleanUpFails,
         CleanUp, DropImage, DropFormer, Enqueue, PutAvatar, NameAvatar, NameFails, Moves,
         RequestTypes
  <2> QED
    BY <1>0, <2>1 DEF RequestTypes, ReplacesNone
<1>2. ASSUME NEW k \in Keys, Crash(k)
      PROVE  Kept
  BY <1>0, <1>2 DEF Crash, ReplacesNone, RequestTypes
<1>3. ASSUME NEW k \in Images, BeginImage(k) \/ HidePoll(k)
      PROVE  Kept
  BY <1>0, <1>3 DEF BeginImage, HidePoll, Moves, RequestTypes
<1>4. ASSUME NEW k \in Avatars, BeginAvatar(k)
      PROVE  Kept
  BY <1>0, <1>4 DEF BeginAvatar, Moves, RequestTypes
<1>5. CASE BeginErase \/ Erase \/ CrashErase
  BY <1>5 DEF BeginErase, Erase, EraseObject, ClearAvatar, CrashErase
<1>6. CASE JobStep \/ AcceptDeletion \/ WorkStep
  BY <1>6, WorkFrame DEF JobStep, Age, Collect, ReadReferences, CollectOrphans,
     AcceptDeletion, requests
<1> QED
  BY <1>1, <1>2, <1>3, <1>4, <1>5, <1>6, KindsOfSteps DEF RequestStep

LEMMA EraserAfter ==
    ASSUME TypeOK, Next, eraser.at = "over"
    PROVE  eraser' = eraser
<1>1. CASE RequestStep
  BY <1>1 DEF RequestStep, BeginImage, HidePoll, BeginAvatar, Crash, BeginErase, CrashErase,
         Upload, PutImage, PutFails, CreatePoll, CreateFails, CleanUpFails, CleanUp,
         DropImage, DropFormer, Enqueue, PutAvatar, NameAvatar, NameFails, Erase,
         EraseObject, ClearAvatar
<1>2. CASE JobStep \/ AcceptDeletion \/ WorkStep
  BY <1>2, WorkFrame DEF JobStep, Age, Collect, ReadReferences, CollectOrphans,
     AcceptDeletion, requests
<1> QED
  BY <1>1, <1>2, KindsOfSteps

LEMMA GivenUpKept ==
    ASSUME TypeOK, Next, NEW k \in Keys, GivenUp(k)
    PROVE  GivenUp(k)'
BY NamedAfter, EraserAfter DEF GivenUp

LEMMA EmptyKept ==
    ASSUME TypeOK, Locked, Next, account # "active", Empty
    PROVE  Empty'
BY WhoAdds, GivenUpKept DEF Empty, AddsNothing

LEMMA AvatarAfter ==
    ASSUME TypeOK, Next
    PROVE  \/ avatar' = avatar
           \/ \E a \in Avatars : NameAvatar(a)
           \/ ClearAvatar
           \/ \E w \in Workers : DeleteUser(w)
<1>1. CASE RequestStep
  BY <1>1 DEF RequestStep, BeginImage, HidePoll, BeginAvatar, Crash, BeginErase, CrashErase,
         Upload, PutImage, PutFails, CreatePoll, CreateFails, CleanUpFails, CleanUp,
         DropImage, DropFormer, Enqueue, PutAvatar, NameAvatar, NameFails, Erase,
         EraseObject, rows
<1>2. CASE JobStep \/ AcceptDeletion
  BY <1>2 DEF JobStep, Age, Collect, ReadReferences, CollectOrphans, AcceptDeletion, rows
<1>3. CASE WorkStep
  BY <1>3 DEF WorkStep, LeaseEnds, LeaseLapses, Dies, Work, ClaimOperation, RunNext,
         EraseRows, ListPrefixes, NoteVersions, NoteKnown, ClaimManifest, DeleteVersions,
         DeleteFails, MarkCompleted, Gate, VerifyEmpty, RemoveManifest, rows
<1> QED
  BY <1>1, <1>2, <1>3, KindsOfSteps

(* A key stays in the manifest until the completion removes that. *)
LEMMA ManifestAfter ==
    ASSUME TypeOK, Next, NEW k \in Keys, InManifest(k)
    PROVE  InManifest(k)' \/ \E w \in Workers : RemoveManifest(w)
<1>0. PICK e \in manifest.todo \cup manifest.kept : e.key = k
  BY DEF InManifest
<1>1. ASSUME manifest' = manifest
      PROVE  InManifest(k)'
  BY <1>1 DEF InManifest
<1>2. ASSUME NEW S, Noted(S)
      PROVE  InManifest(k)'
  <2>1. e \in manifest'.todo \cup manifest'.kept
    BY <1>0, <1>2 DEF Noted, TypeOK, WorkTypes
  <2> QED
    BY <1>0, <2>1 DEF InManifest
<1>3. CASE RequestStep
  <2>1. ASSUME NEW j \in Keys, Enqueue(j)
        PROVE  InManifest(k)'
    <3>1. CASE manifest' = [manifest EXCEPT !.todo = @ \cup ByKey({j}),
                                            !.kept = @ \ ByKey({j})]
      <4>1. e \in manifest'.todo \cup manifest'.kept
        BY <1>0, <3>1 DEF TypeOK, WorkTypes
      <4> QED
        BY <1>0, <4>1 DEF InManifest
    <3> QED
      BY <1>1, <2>1, <3>1 DEF Enqueue, op
  <2> QED
    BY <1>1, <1>3, <2>1, RequestFrame DEF op
<1>4. CASE JobStep \/ AcceptDeletion
  BY <1>1, <1>2, <1>4 DEF JobStep, Age, Collect, ReadReferences, CollectOrphans,
     AcceptDeletion, op
<1>5. ASSUME NEW w \in Workers, Work(w)
      PROVE  InManifest(k)' \/ RemoveManifest(w)
  <2>1. CASE DeleteFails(w)
    <3>1. e \in manifest'.todo \cup manifest'.kept
      BY <1>0, <2>1 DEF DeleteFails
    <3> QED
      BY <1>0, <3>1 DEF InManifest
  <2>2. CASE MarkCompleted(w)
    <3>1. e \in manifest'.todo \cup manifest'.kept
      BY <1>0, <2>2 DEF MarkCompleted
    <3> QED
      BY <1>0, <3>1 DEF InManifest
  <2>3. CASE EraseRows(w) \/ NoteVersions(w) \/ NoteKnown(w)
    BY <1>2, <2>3 DEF EraseRows, NoteVersions, NoteKnown
  <2>4. CASE \/ ClaimOperation(w) \/ RunNext(w) \/ ListPrefixes(w) \/ ClaimManifest(w)
             \/ DeleteVersions(w) \/ Gate(w) \/ VerifyEmpty(w) \/ DeleteUser(w)
    BY <1>1, <2>4 DEF ClaimOperation, RunNext, ListPrefixes, ClaimManifest, DeleteVersions,
       Gate, VerifyEmpty, DeleteUser, op
  <2> QED
    BY <1>5, <2>1, <2>2, <2>3, <2>4 DEF Work
<1>6. CASE LeaseEnds \/ LeaseLapses \/ \E w \in Workers : Dies(w)
  BY <1>1, <1>6 DEF LeaseEnds, LeaseLapses, Dies, op
<1> QED
  BY <1>3, <1>4, <1>5, <1>6, KindsOfSteps DEF WorkStep

(* The parts of Leaving. *)
Past ==
    /\ \A w \in Workers : pc[w] \in {"user", "clear"} => Empty
    /\ "completion" \in finished \/ operation = "completed" => Empty
Known(k) ==
    \/ GivenUp(k) \/ avatar = k \/ InManifest(k)
    \/ \E a \in Avatars : former[a] = k /\ at[a] = "named"

(* An object outside the prefixes is known until it is given up. *)
LEMMA KnownKept ==
    ASSUME TypeOK, Locked, Placed, Past, Next, NEW k \in Legacy,
           Object(k) \in stored, Known(k)
    PROVE  Known(k)'
<1>0. k \in Keys /\ k \in Avatars /\ k # None
  BY MediaAssumption DEF Keys
<1>1. CASE Empty
  BY <1>0, <1>1, GivenUpKept DEF Empty, Known
<1>2. CASE GivenUp(k)
  BY <1>0, <1>2, GivenUpKept DEF Known
<1>3. ASSUME NEW a \in Avatars, former[a] = k, at[a] = "named"
      PROVE  Known(k)'
  <2>1. former'[a] = k /\ at'[a] \in {"named", "over"}
    BY <1>3, NamedAfter
  <2> QED
    BY <2>1, MediaAssumption DEF Known, GivenUp
<1>4. CASE avatar = k
  <2>1. CASE avatar' = avatar
    BY <1>4, <2>1 DEF Known
  <2>2. ASSUME NEW a \in Avatars, NameAvatar(a)
        PROVE  Known(k)'
    <3>1. former[a] = k /\ at'[a] = "named" /\ former' = former
      BY <1>4, <2>2 DEF NameAvatar, Moves, Placed, TypeOK, RequestTypes, Keys
    <3> QED
      BY <3>1 DEF Known
  <2>3. CASE ClearAvatar
    <3>1. eraser'.key = k /\ eraser'.at = "over"
      BY <1>4, <2>3 DEF ClearAvatar, Locked, TypeOK, RequestTypes
    <3> QED
      BY <3>1 DEF Known, GivenUp
  <2>4. ASSUME NEW w \in Workers, DeleteUser(w)
        PROVE  Known(k)'
    BY <1>1, <2>4 DEF DeleteUser, Past
  <2> QED
    BY <2>1, <2>2, <2>3, <2>4, AvatarAfter
<1>5. CASE InManifest(k)
  <2>1. CASE InManifest(k)'
    BY <2>1 DEF Known
  <2>2. ASSUME NEW w \in Workers, RemoveManifest(w)
        PROVE  Known(k)'
    BY <1>1, <2>2 DEF RemoveManifest, Past
  <2> QED
    BY <1>0, <1>5, <2>1, <2>2, ManifestAfter
<1> QED
  BY <1>2, <1>3, <1>4, <1>5 DEF Known

(* When the completion finds nothing left, nothing is. *)
LEMMA NothingLeft ==
    ASSUME TypeOK, Locked, Leaving, account # "active", Left = {}
    PROVE  Empty
<1> SUFFICES ASSUME NEW k \in Keys, Object(k) \in stored
             PROVE  GivenUp(k)
  BY DEF Empty
<1> DEFINE known == {avatar} \cup {e.key : e \in manifest.todo \cup manifest.kept}
<1>1. k \notin (Keys \ Legacy) \cup (Legacy \cap known)
  BY DEF Left, Listed, Object
<1>2. k \in Legacy /\ avatar # k /\ ~InManifest(k)
  BY <1>1 DEF InManifest
<1>3. holder = None /\ \A a \in Avatars : at[a] # "named"
  BY MediaAssumption DEF Locked, Keys
<1> QED
  BY <1>2, <1>3 DEF Leaving

LEMMA LeavingParts ==
    Leaving <=> /\ Past
                /\ \A k \in Legacy : at[k] = "over"
                /\ \A k \in Legacy : Object(k) \in stored => Known(k)
BY DEF Leaving, Past, Known

LEMMA KnownAllKept ==
    ASSUME TypeOK, Locked, Placed, Leaving, Next
    PROVE  /\ \A k \in Legacy : at'[k] = "over"
           /\ \A k \in Legacy : Object(k) \in stored' => Known(k)'
<1> SUFFICES ASSUME NEW k \in Legacy
             PROVE  at'[k] = "over" /\ (Object(k) \in stored' => Known(k)')
  OBVIOUS
<1>1. k \in Avatars /\ k \in Keys /\ at[k] = "over"
  BY MediaAssumption DEF Keys, Leaving
<1>2. at'[k] = "over"
  BY <1>1, NamedAfter
<1>3. Object(k) \in stored' => Object(k) \in stored
  <2>1. ASSUME NEW j \in Keys, at[j] = "locked", Put(j)
        PROVE  Object(k) \in stored' => Object(k) \in stored
    BY <1>1, <2>1, PutSpares
  <2> QED
    BY <1>1, <2>1, WhoAdds DEF AddsNothing
<1> QED
  BY <1>2, <1>3, KnownKept, LeavingParts

(* What brings the completion past its checks. *)
LEMMA PastAfter ==
    ASSUME TypeOK, Next, account # "active"
    PROVE  /\ \A w \in Workers : pc'[w] \in {"user", "clear"} =>
                  pc[w] \in {"user", "clear"} \/ (pc[w] = "verify" /\ Left = {})
           /\ "completion" \in finished' =>
                  \/ "completion" \in finished \/ operation = "completed"
                  \/ \E w \in Workers : pc[w] = "clear"
           /\ operation' = "completed" =>
                  operation = "completed" \/ "completion" \in finished
<1> DEFINE Pc == \A w \in Workers : pc'[w] \in {"user", "clear"} =>
                     pc[w] \in {"user", "clear"} \/ (pc[w] = "verify" /\ Left = {})
           Fin == "completion" \in finished' =>
                     \/ "completion" \in finished \/ operation = "completed"
                     \/ \E w \in Workers : pc[w] = "clear"
           Op == operation' = "completed" =>
                     operation = "completed" \/ "completion" \in finished
<1>0. WorkTypes
  BY DEF TypeOK
<1>1. CASE UNCHANGED <<op, workers>>
  BY <1>1 DEF op, workers
<1>2. CASE RequestStep
  <2>1. ASSUME NEW k \in Keys, Enqueue(k)
        PROVE  Pc /\ Fin /\ Op
    BY <2>1 DEF Enqueue, op, workers
  <2> QED
    BY <1>1, <1>2, <2>1, RequestFrame
<1>3. CASE JobStep
  BY <1>1, <1>3 DEF JobStep, Age, Collect, ReadReferences, CollectOrphans
<1>4. CASE AcceptDeletion
  BY <1>4 DEF AcceptDeletion
<1>5. CASE LeaseEnds \/ LeaseLapses
  BY <1>5 DEF LeaseEnds, LeaseLapses, workers
<1>6. ASSUME NEW w \in Workers, NEW place \in WorkerPlaces \ {"user", "clear"},
             Goto(w, place)
      PROVE  Pc
  BY <1>0, <1>6 DEF Goto, WorkTypes
<1>7. ASSUME NEW w \in Workers, Yields(w)
      PROVE  Pc /\ Fin /\ Op
  BY <1>6, <1>7 DEF Yields, WorkerPlaces
<1>8. ASSUME NEW w \in Workers, NEW s \in Steps, Reported(w, s),
             s = "completion" => operation = "completed" \/ pc[w] = "clear"
      PROVE  Pc /\ Fin /\ Op
  <2>1. Pc
    BY <1>6, <1>8 DEF Reported, WorkerPlaces
  <2> QED
    BY <1>8, <2>1 DEF Reported
<1>9. /\ "discovery" \in Steps /\ "content" \in Steps /\ "media" \in Steps
      /\ "completion" \in Steps
  BY DEF Steps, StepOrder
<1> HIDE DEF Pc
<1>10. ASSUME NEW w \in Workers, Dies(w)
       PROVE  Pc /\ Fin /\ Op
  BY <1>6, <1>10 DEF Dies, op, WorkerPlaces
<1>11. ASSUME NEW w \in Workers, Work(w)
       PROVE  Pc /\ Fin /\ Op
  <2>1. CASE ClaimOperation(w)
    BY <1>6, <2>1 DEF ClaimOperation, WorkerPlaces
  <2>2. CASE RunNext(w)
    <3>1. finished # Steps => Next1 \in {"discovery", "content", "media", "completion"}
      BY <1>0, NextStep DEF WorkTypes, Steps, StepOrder
    <3>2. \E place \in WorkerPlaces \ {"user", "clear"} : Goto(w, place)
      BY <2>2, <3>1 DEF RunNext, WorkerPlaces
    <3>3. Op
      BY <1>9, <2>2 DEF RunNext
    <3> QED
      BY <1>6, <2>2, <3>2, <3>3 DEF RunNext
  <2>3. CASE EraseRows(w)
    BY <1>8, <1>9, <2>3 DEF EraseRows
  <2>4. CASE ListPrefixes(w)
    BY <1>6, <2>4 DEF ListPrefixes, op, WorkerPlaces
  <2>5. CASE NoteVersions(w)
    BY <1>6, <2>5 DEF NoteVersions, WorkerPlaces
  <2>6. CASE NoteKnown(w)
    BY <1>6, <1>8, <1>9, <2>6 DEF NoteKnown, WorkerPlaces
  <2>7. CASE ClaimManifest(w)
    BY <1>6, <1>8, <1>9, <2>7 DEF ClaimManifest, WorkerPlaces
  <2>8. CASE DeleteVersions(w)
    BY <1>6, <2>8 DEF DeleteVersions, op, WorkerPlaces
  <2>9. CASE DeleteFails(w) \/ MarkCompleted(w)
    BY <1>7, <2>9 DEF DeleteFails, MarkCompleted
  <2>10. CASE Gate(w)
    <3>1. CASE pc' = [pc EXCEPT ![w] = "list"] /\ UNCHANGED <<operation, finished>>
      BY <1>0, <3>1 DEF WorkTypes, Pc
    <3> QED
      BY <1>7, <1>8, <1>9, <2>10, <3>1 DEF Gate
  <2>11. CASE VerifyEmpty(w)
    <3>1. CASE Left = {} /\ Goto(w, "user") /\ UNCHANGED <<operation, finished>>
      <4>1. pc[w] = "verify"
        BY <2>11 DEF VerifyEmpty
      <4> QED
        BY <1>0, <3>1, <4>1 DEF WorkTypes, Goto, Pc
    <3> QED
      BY <1>7, <2>11, <3>1 DEF VerifyEmpty
  <2>12. CASE DeleteUser(w)
    <3>1. CASE Goto(w, "clear") /\ UNCHANGED <<operation, finished>>
      <4>1. pc[w] = "user"
        BY <2>12 DEF DeleteUser
      <4> QED
        BY <1>0, <3>1, <4>1 DEF WorkTypes, Goto, Pc
    <3> QED
      BY <1>7, <2>12, <3>1 DEF DeleteUser
  <2>13. CASE RemoveManifest(w)
    BY <1>7, <1>8, <1>9, <2>13 DEF RemoveManifest
  <2> QED
    BY <1>11, <2>1, <2>2, <2>3, <2>4, <2>5, <2>6, <2>7, <2>8, <2>9, <2>10, <2>11, <2>12,
       <2>13 DEF Work
<1> QED
  BY <1>2, <1>3, <1>4, <1>5, <1>10, <1>11, KindsOfSteps DEF WorkStep, Pc

LEMMA PastKept ==
    ASSUME TypeOK, Locked, Leaving, Next
    PROVE  Past'
<1>1. CASE account = "active"
  <2>1. operation = "none" /\ finished = {} /\ \A w \in Workers : pc[w] = "idle"
    BY <1>1 DEF Locked
  <2>2. CASE AcceptDeletion
    BY <2>1, <2>2 DEF AcceptDeletion, workers, Past
  <2>3. CASE ~AcceptDeletion
    <3>1. account' = "active"
      BY <1>1, <2>3, KindsOfSteps, RequestFrame, WorkClosed DEF JobStep, Age, Collect,
         ReadReferences, CollectOrphans, WorkStep, LeaseEnds, LeaseLapses, rows
    <3>2. Idle'
      BY IdleKept, TwoParts
    <3> QED
      BY <3>1, <3>2 DEF Idle, Past
  <2> QED
    BY <2>2, <2>3
<1>2. CASE account # "active"
  <2>1. Empty => Empty'
    BY <1>2, EmptyKept
  <2>2. Left = {} => Empty
    BY <1>2, NothingLeft
  <2> QED
    BY <1>2, <2>1, <2>2, PastAfter DEF Leaving, Past
<1> QED
  BY <1>1, <1>2

-----------------------------------------------------------------------------
(* The theorems *)

LEMMA InitInv == Init => Inv
<1> SUFFICES ASSUME Init PROVE Inv
  OBVIOUS
<1> USE MediaAssumption
<1>1. TypeOK
  BY InitTypes
<1>2. Locked
  BY DEF Init, Locked, Keys
<1>3. Placed
  BY DEF Init, Placed, Keys, Unheard
<1>4. \A k \in Keys : ~Marked(k)
  <2>1. \A e \in stored : e.version = 0
    BY DEF Init, Object
  <2>2. \A m \in Markers : m # 0
    BY DEF Markers
  <2> QED
    BY <2>1, <2>2 DEF Marked
<1>5. Fresh
  BY <1>4 DEF Init, Fresh
<1>6. ReferencedKept
  BY <1>4 DEF Init, ReferencedKept, Owned, Live, Unheard, Readable, Keys
<1>7. Leaving
  BY DEF Init, Leaving, Keys
<1> QED
  BY <1>1, <1>2, <1>3, <1>5, <1>6, <1>7 DEF Inv

LEMMA InvKept ==
    ASSUME Inv, [Next]_vars
    PROVE  Inv'
<1> USE DEF Inv
<1>1. CASE Next
  <2>1. TypeOK'
    BY <1>1, WhoAdds, RequestTypesKept, WorkTypesKept DEF TypeOK
  <2>2. Locked'
    BY <1>1, TwoParts, HoldingKept, IdleKept DEF Locked, Holding, Idle
  <2>3. Leaving'
    BY <1>1, PastKept, KnownAllKept DEF Leaving, Past, Known
  <2> QED
    BY <1>1, <2>1, <2>2, <2>3, PlacedKept, FreshKept, ReferencedKeptKept
<1>2. CASE UNCHANGED vars
  BY <1>2 DEF vars, bucket, rows, requests, jobs, op, workers, TypeOK, BucketTypes,
     RequestTypes, WorkTypes, Locked, Placed, Fresh, ReferencedKept, Leaving, Empty,
     GivenUp, InManifest, Owned, Live, Unheard, Readable, Marked
<1> QED
  BY <1>1, <1>2

(* Every state satisfies the inductive invariant. *)
THEOREM MediaInvariant == Spec => []Inv
<1>1. Init => Inv
  BY InitInv
<1>2. Inv /\ [Next]_vars => Inv'
  BY InvKept
<1> QED
  BY <1>1, <1>2, PTL DEF Spec

(* An object that a row of an active account names can be read, but for an *)
(* avatar that its user is having deleted and the image of a poll whose    *)
(* COMMIT took effect with an error for an answer: the uploads name an     *)
(* object only once the store has it, and neither a former avatar's        *)
(* removal, nor the cleanup after a creation that did fail, nor the        *)
(* collection of orphans takes one that a row names.                       *)
THEOREM NamedStaysReadable == Spec => []ReferencedKept
<1>1. Inv => ReferencedKept
  BY DEF Inv
<1> QED
  BY <1>1, MediaInvariant, PTL

(* A completed deletion has left no object but an avatar outside the       *)
(* prefix that was given up before, for any number of uploads, workers and *)
(* faults: the acceptance waits for the lock that uploads hold, and the    *)
(* completion lists the bucket after that.                                 *)
THEOREM CompletedLeavesNothing == Spec => []Erased
<1>1. Inv => Erased
  BY DEF Inv, Leaving, Empty, Erased
<1> QED
  BY <1>1, MediaInvariant, PTL
===============================================================================
