------------------------------ MODULE AccountMedia ------------------------------
(***************************************************************************)
(* The stored objects of one account, from upload to erasure:              *)
(*   modules/polls/polls.routes.ts (POST /polls), poll-images.service.ts   *)
(*   modules/profiles/avatars.service.ts, avatars.cleanup.ts               *)
(*   jobs/cleanup-poll-image-objects.ts                                    *)
(*   modules/account-deletion/account-deletion.media.ts, .completion.ts    *)
(*   config/storage.ts                                                     *)
(*                                                                         *)
(* The database names an object by its key, and the store keeps the        *)
(* objects; nothing makes the two change together.  An upload writes the   *)
(* object first, while it locks the row of the account, and the row that   *)
(* names it afterwards.  Objects that no row names are collected after a   *)
(* day.  The deletion of the account lists the versions under its prefixes *)
(* into a manifest and removes them, while uploads that came too late      *)
(* clean up after themselves.                                              *)
(*                                                                         *)
(* A bucket with versions keeps an object that is deleted by its key, and  *)
(* adds a marker; only the deletion of a version removes it.               *)
(*                                                                         *)
(* The worker's own steps are DeletionWorker's; here they are the leases   *)
(* and four steps, the rows of the account being erased in one.  Left      *)
(* out: the images themselves, pages of a listing, retry delays, renewal   *)
(* of a lease (a lease that ends here is one that was not renewed).        *)
(***************************************************************************)
EXTENDS Naturals, FiniteSets, Sequences

CONSTANTS
    Images,      \* keys of poll images, poll-images/{user}/..., each for one upload
    Avatars,     \* keys of avatars, avatars/{user}/..., each for one upload
    Legacy,      \* the keys among Avatars that are under avatars/, not under avatars/{user}/
    FirstAvatar, \* the avatar before the first request, or None
    Workers,
    None,
    Versioning,  \* the kinds of bucket: a subset of BOOLEAN
    MaxUploads,  \* bounds the uploads, images together with the erasure of an avatar
    MaxFaults,   \* bounds failed calls, crashes and leases that end early
    MaxMarkers   \* bounds the markers of a key

Keys == Images \cup Avatars
Markers == 1..MaxMarkers  \* version 0 is the object
StepOrder == <<"discovery", "content", "media", "completion">>
Steps == {StepOrder[i] : i \in 1..4}

ASSUME MediaAssumption ==
    /\ Images \cap Avatars = {}
    /\ FirstAvatar \in Avatars \cup {None}
    /\ Legacy \subseteq Avatars \cap {FirstAvatar}  \* new ones are under avatars/{user}/
    /\ None \notin Keys \cup Workers \cup {"eraser"}
    /\ "eraser" \notin Keys
    /\ Versioning \subseteq BOOLEAN /\ Versioning # {}
    /\ {MaxUploads, MaxFaults, MaxMarkers} \subseteq Nat

VARIABLES
    versioned,  \* the bucket keeps versions
    stored,     \* versions and markers in the bucket
    marks,      \* by key, markers there have been
    account,    \* users.status: "active", "closed" once its deletion is accepted, or "gone"
    holder,     \* the request that locks the users row, None without one
    polls,      \* by image, the poll that names it: "none", "live", "hidden", or "unheard",
                \* live as well, but its COMMIT was reported as an error
    avatar,     \* profiles.avatar_object_key
    at,         \* by key, where its upload is
    former,     \* by avatar, the one it replaces or replaced, None when it does not
    eraser,     \* DELETE /profiles/me/avatar: where it is and the key, None when it failed
    old,        \* keys whose objects are older than the grace period
    job,        \* the cleanup jobs: where they are and the keys they found referenced
    operation,  \* "none", "pending", "processing" or "completed"
    lease,      \* of the operation: its owner and whether it lasts
    finished,   \* steps that are completed
    manifest,   \* its entries: to delete, and completed
    pc,         \* by worker, where it is
    closing,    \* by worker, whether it is in the completion step
    got,        \* by worker, the entries it has in hand
    refs,       \* by worker, the keys it found referenced
    faults

bucket == <<versioned, stored, marks>>
rows == <<account, polls, avatar>>
requests == <<holder, at, former, eraser>>
jobs == <<old, job>>
op == <<operation, lease, finished, manifest>>
workers == <<pc, closing, got, refs>>
vars == <<bucket, rows, requests, jobs, op, workers, faults>>

Fault == faults < MaxFaults /\ faults' = faults + 1

-----------------------------------------------------------------------------
(* The bucket *)

Object(k) == [key |-> k, version |-> 0]
Marked(k) == \E m \in Markers : [key |-> k, version |-> m] \in stored
Readable(k) == Object(k) \in stored /\ ~Marked(k)

(* PutObject and the deletion of a version of its own are sets of entries; *)
(* a deletion by key, S, follows the kind of the bucket.                   *)
ByKey(S) == [key : S, version : {None}]
Remove(S) ==
    LET named == {e.key : e \in {d \in S : d.version = None}}
    IN  /\ marks' = [k \in Keys |-> marks[k] + (IF versioned /\ k \in named THEN 1 ELSE 0)]
        /\ \A k \in Keys : marks'[k] <= MaxMarkers
        /\ stored' = IF versioned
                     THEN (stored \ S) \cup {[key |-> k, version |-> marks'[k]] : k \in named}
                     ELSE (stored \ S) \ {Object(k) : k \in named}
        /\ UNCHANGED versioned

Put(k) == stored' = stored \cup {Object(k)} /\ UNCHANGED <<versioned, marks>>

-----------------------------------------------------------------------------
(* POST /polls with an image *)

Moves(k, from, to) == at[k] = from /\ at' = [at EXCEPT ![k] = to]

Begun(S) == {k \in S \ {FirstAvatar} : at[k] # "idle"}
AnotherImage ==
    Cardinality(Begun(Keys)) + (IF eraser.at = "idle" THEN 0 ELSE 1) < MaxUploads

(* withActiveAccountTransaction *)
Lock(k) == account = "active" /\ holder = None /\ holder' = k

\* Mutant of BeginImage: the account is not locked.
BeginImageUnlocked(k) ==
    /\ k \in Images /\ AnotherImage /\ Moves(k, "idle", "locked")
    /\ account = "active" /\ holder' = holder
    /\ UNCHANGED <<bucket, rows, former, eraser, jobs, op, workers, faults>>

BeginImage(k) ==
    /\ k \in Images /\ AnotherImage /\ Moves(k, "idle", "locked")
    /\ Lock(k)
    /\ UNCHANGED <<bucket, rows, former, eraser, jobs, op, workers, faults>>

Released(k) == holder' = IF holder = k THEN None ELSE holder
ReplacesNone(k) == former' = [a \in Avatars |-> IF a = k THEN None ELSE former[a]]

(* processPollImage: the object is there, the transaction ends *)
PutImage(k) ==
    /\ k \in Images /\ Moves(k, "locked", "uploaded")
    /\ Put(k)
    /\ Released(k)
    /\ UNCHANGED <<rows, former, eraser, jobs, op, workers, faults>>

(* the store answers with an error; it may have the object all the same *)
PutFails(k) ==
    /\ Moves(k, "locked", "over")
    /\ Fault
    /\ Put(k) \/ UNCHANGED bucket
    /\ Released(k) /\ ReplacesNone(k)
    /\ UNCHANGED <<rows, eraser, jobs, op, workers>>

(* createPollRecord *)
CreatePoll(k) ==
    /\ k \in Images /\ Moves(k, "uploaded", "over")
    /\ account = "active" /\ holder = None
    /\ polls' = [polls EXCEPT ![k] = "live"]
    /\ UNCHANGED <<bucket, account, avatar, holder, former, eraser, jobs, op, workers, faults>>

(* COMMIT may have taken effect although its answer is an error *)
CreateFails(k) ==
    /\ k \in Images /\ Moves(k, "uploaded", "cleanup")
    /\ \/ account # "active" /\ UNCHANGED <<polls, faults>>
       \/ Fault /\ UNCHANGED polls
       \/ /\ Fault /\ account = "active" /\ holder = None
          /\ polls' = [polls EXCEPT ![k] = "unheard"]
    /\ UNCHANGED <<bucket, account, avatar, holder, former, eraser, jobs, op, workers>>

(* cleanupUploadedPollImage *)
CleanUp(k) ==
    /\ Moves(k, "cleanup", "over")
    /\ Remove(ByKey({k}))
    /\ UNCHANGED <<rows, holder, former, eraser, jobs, op, workers, faults>>

(* the store answers with an error; the object may be gone all the same *)
CleanUpFails(k) ==
    /\ Moves(k, "cleanup", "enqueue")
    /\ Fault
    /\ Remove(ByKey({k})) \/ UNCHANGED bucket
    /\ UNCHANGED <<rows, holder, former, eraser, jobs, op, workers>>

(* enqueuePollImageForAccountDeletion reopens the operation, a completed   *)
(* one too; without one the object is left to the cleanup job.             *)
Enqueue(k) ==
    /\ Moves(k, "enqueue", "over")
    /\ IF operation = "none" THEN UNCHANGED op
       ELSE /\ operation' = "pending"
            /\ lease' = [owner |-> None, lasts |-> FALSE]
            /\ finished' = finished \ {"media", "completion"}
            /\ manifest' = [manifest EXCEPT !.todo = @ \cup ByKey({k}), !.kept = @ \ ByKey({k})]
    /\ UNCHANGED <<bucket, rows, holder, former, eraser, jobs, workers, faults>>

Unheard(k) == polls[k] = "unheard"
Live(k) == polls[k] = "live" \/ Unheard(k)

(* deletePoll, once the request that created the poll is over: the poll is *)
(* hidden, and then its image goes or stays.                               *)
HidePoll(k) ==
    /\ Live(k) /\ account = "active" /\ holder = None
    /\ Moves(k, "over", "hidden")
    /\ polls' = [polls EXCEPT ![k] = "hidden"]
    /\ UNCHANGED <<bucket, account, avatar, holder, former, eraser, jobs, op, workers, faults>>

DropImage(k) ==
    /\ Moves(k, "hidden", "over")
    /\ \/ Remove(ByKey({k})) /\ UNCHANGED faults
       \/ Fault /\ UNCHANGED bucket
    /\ UNCHANGED <<rows, holder, former, eraser, jobs, op, workers>>

-----------------------------------------------------------------------------
(* POST and DELETE /profiles/me/avatar.  The transaction that locks the    *)
(* account spans the whole request; the profile is written through another *)
(* connection and stays when that transaction rolls back.  A statement or  *)
(* a call that takes effect and is answered by an error ends the request   *)
(* as a crash right after it does.                                         *)

BeginAvatar(k) ==
    /\ k \in Avatars /\ Cardinality(Begun(Keys)) < MaxUploads /\ Moves(k, "idle", "locked")
    /\ Lock(k)
    /\ former' = [former EXCEPT ![k] = avatar]
    /\ UNCHANGED <<bucket, rows, eraser, jobs, op, workers, faults>>

PutAvatar(k) ==
    /\ k \in Avatars /\ Moves(k, "locked", "uploaded")
    /\ Put(k)
    /\ UNCHANGED <<rows, holder, former, eraser, jobs, op, workers, faults>>

\* Mutant of NameAvatar: the former object goes first.
NameAvatarLate(k) ==
    /\ k \in Avatars /\ Moves(k, "uploaded", "named")
    /\ former[k] # None => Remove(ByKey({former[k]}))
    /\ former[k] = None => UNCHANGED bucket
    /\ avatar' = IF former[k] = None THEN k ELSE avatar
    /\ UNCHANGED <<account, polls, holder, former, eraser, jobs, op, workers, faults>>

(* updateAvatarObjectKey *)
NameAvatar(k) ==
    /\ k \in Avatars /\ Moves(k, "uploaded", "named")
    /\ avatar' = k
    /\ UNCHANGED <<bucket, account, polls, holder, former, eraser, jobs, op, workers, faults>>

NameFails(k) ==
    /\ k \in Avatars /\ Moves(k, "uploaded", "over")
    /\ Fault
    /\ Released(k) /\ ReplacesNone(k)
    /\ UNCHANGED <<bucket, rows, eraser, jobs, op, workers>>

(* the former object goes, or its deletion fails and it stays *)
DropFormer(k) ==
    /\ k \in Avatars /\ Moves(k, "named", "over")
    /\ Released(k)
    /\ \/ former[k] = None /\ UNCHANGED <<bucket, faults>>
       \/ former[k] # None /\ Remove(ByKey({former[k]})) /\ UNCHANGED faults
       \/ former[k] # None /\ Fault /\ UNCHANGED bucket
    /\ UNCHANGED <<rows, former, eraser, jobs, op, workers>>

BeginErase ==
    /\ eraser.at = "idle" /\ avatar # None
    /\ Cardinality(Begun(Images)) < MaxUploads
    /\ Lock("eraser")
    /\ eraser' = [at |-> "locked", key |-> avatar]
    /\ UNCHANGED <<bucket, rows, at, former, jobs, op, workers, faults>>

EraseObject ==
    /\ eraser.at = "locked"
    /\ \/ /\ Remove(ByKey({eraser.key}))
          /\ eraser' = [eraser EXCEPT !.at = "erased"]
          /\ UNCHANGED <<holder, faults>>
       \/ /\ Fault
          /\ eraser' = [at |-> "over", key |-> None]
          /\ holder' = None
          /\ UNCHANGED bucket
    /\ UNCHANGED <<rows, at, former, jobs, op, workers>>

(* clearAvatarObjectKey *)
ClearAvatar ==
    /\ eraser.at = "erased"
    /\ eraser' = [eraser EXCEPT !.at = "over"]
    /\ holder' = None
    /\ avatar' = None
    /\ UNCHANGED <<bucket, account, polls, at, former, jobs, op, workers, faults>>

(* The process of an upload dies; the database lets go of the account.  A  *)
(* call to the store that is on its way took effect or never will.         *)
Crash(k) ==
    /\ at[k] \notin {"idle", "over"}
    /\ Fault
    /\ at' = [at EXCEPT ![k] = "over"]
    /\ Released(k)
    /\ IF at[k] = "named" THEN UNCHANGED former ELSE ReplacesNone(k)
    /\ UNCHANGED <<bucket, rows, eraser, jobs, op, workers>>

CrashErase ==
    /\ eraser.at \in {"locked", "erased"}
    /\ Fault
    /\ eraser' = [at |-> "dead", key |-> IF eraser.at = "erased" THEN eraser.key ELSE None]
    /\ holder' = None
    /\ UNCHANGED <<bucket, rows, at, former, jobs, op, workers>>

-----------------------------------------------------------------------------
(* cleanupOrphanedPollImages and cleanupOrphanedAvatars, which are alike:  *)
(* the keys that rows name are read first, then the bucket is listed.      *)

(* readReferencedPollImageKeys, readReferencedAvatarKeys *)
Owned(k) == avatar = k \/ (k \in Images /\ Live(k))

(* a day passes; no request and no pass of a job takes that long *)
Age ==
    /\ job.at = "idle" /\ old # {k \in Keys : at[k] = "over"}
    /\ old' = {k \in Keys : at[k] = "over"}
    /\ UNCHANGED <<bucket, rows, requests, job, op, workers, faults>>

ReadReferences ==
    /\ job.at = "idle"
    /\ job' = [at |-> "read", named |-> {k \in Keys : Owned(k)}]
    /\ UNCHANGED <<bucket, rows, requests, old, op, workers, faults>>

\* Mutant of Orphans: young objects too.
OrphansOfAnyAge == {k \in Keys : Readable(k) /\ k \notin job.named}

(* selectOrphanedPollImageKeys, selectOrphanedAvatarKeys *)
Orphans == {k \in Keys : Readable(k) /\ k \notin job.named /\ k \in old}

CollectOrphans ==
    /\ job.at = "read"
    /\ \/ Remove(ByKey(Orphans)) /\ UNCHANGED faults
       \/ Fault /\ \E S \in SUBSET Orphans : Remove(ByKey(S))
    /\ job' = [at |-> "idle", named |-> {}]
    /\ UNCHANGED <<rows, requests, old, op, workers>>

-----------------------------------------------------------------------------
(* The operation and its workers *)

(* ON CONFLICT DO NOTHING *)
Noted(S) == manifest' = [manifest EXCEPT !.todo = @ \cup (S \ manifest.kept)]
PollImages == {k \in Images : polls[k] # "none"}

(* the acceptance locks the account as uploads do; snapshotDeletionWork    *)
AcceptDeletion ==
    /\ account = "active" /\ holder = None
    /\ account' = "closed"
    /\ operation' = "pending"
    /\ Noted(ByKey(PollImages \cup ({avatar} \ {None})))
    /\ UNCHANGED <<bucket, polls, avatar, requests, jobs, lease, finished, workers, faults>>

Holds(w) == operation = "processing" /\ lease.owner = w /\ lease.lasts
Goto(w, place) ==
    /\ pc' = [pc EXCEPT ![w] = place]
    /\ closing' = [closing EXCEPT ![w] = @ /\ place \notin {"idle", "next"}]
Free == lease' = [owner |-> None, lasts |-> FALSE]

\* Mutant of ClaimOperation: an operation whose worker died is passed over.
ClaimOperationPending(w) ==
    /\ pc[w] = "idle" /\ operation = "pending"
    /\ operation' = "processing"
    /\ lease' = [owner |-> w, lasts |-> TRUE]
    /\ Goto(w, "next")
    /\ UNCHANGED <<bucket, rows, requests, jobs, finished, manifest, got, refs, faults>>

ClaimOperation(w) ==
    /\ pc[w] = "idle"
    /\ operation \in {"pending", "processing"} /\ ~lease.lasts
    /\ operation' = "processing"
    /\ lease' = [owner |-> w, lasts |-> TRUE]
    /\ Goto(w, "next")
    /\ UNCHANGED <<bucket, rows, requests, jobs, finished, manifest, got, refs, faults>>

LeaseEnds ==
    /\ lease.lasts /\ Fault
    /\ lease' = [lease EXCEPT !.lasts = FALSE]
    /\ UNCHANGED <<bucket, rows, requests, jobs, operation, finished, manifest, workers>>

(* nobody renews the lease of a worker that died *)
LeaseLapses ==
    /\ lease.lasts /\ pc[lease.owner] = "idle"
    /\ lease' = [lease EXCEPT !.lasts = FALSE]
    /\ UNCHANGED <<bucket, rows, requests, jobs, operation, finished, manifest, workers, faults>>

Next1 == StepOrder[CHOOSE i \in 1..4 : /\ StepOrder[i] \notin finished
                                       /\ \A j \in 1..(i - 1) : StepOrder[j] \in finished]

(* nextStep and markStepProcessing, or completeOperation *)
RunNext(w) ==
    /\ pc[w] = "next"
    /\ IF ~Holds(w) THEN Goto(w, "idle") /\ UNCHANGED <<operation, lease>>
       ELSE IF finished = Steps
       THEN operation' = "completed" /\ Free /\ Goto(w, "idle")
       ELSE /\ Goto(w, CASE Next1 = "discovery"  -> "list"
                         [] Next1 = "content"    -> "content"
                         [] Next1 = "media"      -> "purge"
                         [] Next1 = "completion" -> "gate")
            /\ UNCHANGED <<operation, lease>>
    /\ UNCHANGED <<bucket, rows, requests, jobs, finished, manifest, got, refs, faults>>

(* markStepCompleted: the handler was the one of step s *)
Reported(w, s) ==
    /\ finished' = IF Holds(w) /\ s \notin finished THEN finished \cup {s} ELSE finished
    /\ Goto(w, IF Holds(w) /\ s \notin finished THEN "next" ELSE "idle")
    /\ UNCHANGED <<operation, lease>>

(* { done: false }, or an error that is tried again later *)
Yields(w) ==
    /\ Goto(w, "idle")
    /\ IF Holds(w) THEN operation' = "pending" /\ Free ELSE UNCHANGED <<operation, lease>>
    /\ UNCHANGED finished

Dies(w) ==
    /\ pc[w] # "idle"
    /\ Fault
    /\ Goto(w, "idle")
    /\ UNCHANGED <<bucket, rows, requests, jobs, op, got, refs>>

(* the handlers of the steps between discovery and media *)
EraseRows(w) ==
    /\ pc[w] = "content"
    /\ polls' = [k \in Images |-> "none"]
    /\ Noted(ByKey(PollImages))
    /\ Reported(w, "content")
    /\ UNCHANGED <<bucket, account, avatar, requests, jobs, got, refs, faults>>

-----------------------------------------------------------------------------
(* discoverAccountMedia, as a step and as part of the completion *)

Listed(S) == {v \in stored : v.key \in S}

(* getReferencedKeys, and listObjectVersions of the two prefixes *)
ListPrefixes(w) ==
    /\ pc[w] = "list"
    /\ refs' = [refs EXCEPT ![w] = PollImages \cup ({avatar} \ {None})]
    /\ got' = [got EXCEPT ![w] = Listed(Keys \ Legacy)]
    /\ Goto(w, "note")
    /\ UNCHANGED <<bucket, rows, requests, jobs, op, faults>>

(* addManifest *)
NoteVersions(w) ==
    /\ pc[w] = "note"
    /\ Noted(got[w])
    /\ Goto(w, "known")
    /\ UNCHANGED <<bucket, rows, requests, jobs, operation, lease, finished, got, refs, faults>>

(* listExactKeyVersions of the keys outside the prefixes that rows or the  *)
(* manifest name, and addManifest                                          *)
NoteKnown(w) ==
    /\ pc[w] = "known"
    /\ LET known == refs[w] \cup {e.key : e \in manifest.todo \cup manifest.kept}
       IN  Noted(Listed(Legacy \cap known))
    /\ got' = [got EXCEPT ![w] = {}]
    /\ refs' = [refs EXCEPT ![w] = {}]
    /\ IF ~closing[w] THEN Reported(w, "discovery")
       ELSE Goto(w, "purge") /\ UNCHANGED <<operation, lease, finished>>
    /\ UNCHANGED <<bucket, rows, requests, jobs, faults>>

-----------------------------------------------------------------------------
(* purgeAccountMedia, as a step and as part of the completion *)

(* claimManifest keeps nobody else from the entries *)
ClaimManifest(w) ==
    /\ pc[w] = "purge"
    /\ got' = [got EXCEPT ![w] = manifest.todo]
    /\ IF manifest.todo # {}
       THEN Goto(w, "delete") /\ UNCHANGED <<operation, lease, finished>>
       ELSE IF ~closing[w] THEN Reported(w, "media")
       ELSE Goto(w, "verify") /\ UNCHANGED <<operation, lease, finished>>
    /\ UNCHANGED <<bucket, rows, requests, jobs, manifest, refs, faults>>

DeleteVersions(w) ==
    /\ pc[w] = "delete"
    /\ Remove(got[w])
    /\ Goto(w, "mark")
    /\ UNCHANGED <<rows, requests, jobs, op, got, refs, faults>>

(* some of them, and an error: markManifestRetrying *)
DeleteFails(w) ==
    /\ pc[w] = "delete"
    /\ Fault
    /\ \E S \in SUBSET got[w] : Remove(S)
    /\ manifest' = LET present == manifest.todo \cup manifest.kept
                   IN  [todo |-> manifest.todo \cup (got[w] \cap present),
                        kept |-> manifest.kept \ got[w]]
    /\ got' = [got EXCEPT ![w] = {}]
    /\ Yields(w)
    /\ UNCHANGED <<rows, requests, jobs, refs>>

(* markManifestCompleted, of rows that are still there *)
MarkCompleted(w) ==
    /\ pc[w] = "mark"
    /\ manifest' = [todo |-> manifest.todo \ got[w],
                    kept |-> manifest.kept \cup (manifest.todo \cap got[w])]
    /\ got' = [got EXCEPT ![w] = {}]
    /\ Yields(w)
    /\ UNCHANGED <<bucket, rows, requests, jobs, refs, faults>>

-----------------------------------------------------------------------------
(* verifyAndCompleteDeletion *)

Gate(w) ==
    /\ pc[w] = "gate"
    /\ IF operation = "completed" THEN Reported(w, "completion")
       ELSE IF operation = "processing" /\ Steps \ {"completion"} \subseteq finished
       THEN /\ pc' = [pc EXCEPT ![w] = "list"]
            /\ closing' = [closing EXCEPT ![w] = TRUE]
            /\ UNCHANGED <<operation, lease, finished>>
       ELSE Yields(w)
    /\ UNCHANGED <<bucket, rows, requests, jobs, manifest, got, refs, faults>>

(* what verifyAccountMediaEmpty lists *)
Left == LET known == {avatar} \cup {e.key : e \in manifest.todo \cup manifest.kept}
        IN  Listed((Keys \ Legacy) \cup (Legacy \cap known))

VerifyEmpty(w) ==
    /\ pc[w] = "verify"
    /\ IF manifest.todo # {} \/ Left # {} THEN Yields(w)
       ELSE Goto(w, "user") /\ UNCHANGED <<operation, lease, finished>>
    /\ UNCHANGED <<bucket, rows, requests, jobs, manifest, got, refs, faults>>

(* hasDatabaseRemainders, which asks for the manifest, too, and deleteUser, *)
(* which takes the profile along                                           *)
DeleteUser(w) ==
    /\ pc[w] = "user"
    /\ IF manifest.todo # {} THEN Yields(w) /\ UNCHANGED <<account, avatar>>
       ELSE /\ account' = "gone" /\ avatar' = None
            /\ Goto(w, "clear")
            /\ UNCHANGED <<operation, lease, finished>>
    /\ UNCHANGED <<bucket, polls, requests, jobs, manifest, got, refs, faults>>

(* hasPostDeleteRemainders asks for the manifest once more *)
RemoveManifest(w) ==
    /\ pc[w] = "clear"
    /\ IF manifest.todo # {} THEN Yields(w) /\ UNCHANGED manifest
       ELSE /\ manifest' = [todo |-> {}, kept |-> {}]
            /\ Reported(w, "completion")
    /\ UNCHANGED <<bucket, rows, requests, jobs, got, refs, faults>>

-----------------------------------------------------------------------------
Init ==
    /\ versioned \in Versioning
    /\ stored = {Object(k) : k \in {FirstAvatar} \ {None}}
    /\ marks = [k \in Keys |-> 0]
    /\ account = "active"
    /\ holder = None
    /\ polls = [k \in Images |-> "none"]
    /\ avatar = FirstAvatar
    /\ at = [k \in Keys |-> IF k = FirstAvatar THEN "over" ELSE "idle"]
    /\ former = [k \in Avatars |-> None]
    /\ eraser = [at |-> "idle", key |-> None]
    /\ old = {}
    /\ job = [at |-> "idle", named |-> {}]
    /\ operation = "none"
    /\ lease = [owner |-> None, lasts |-> FALSE]
    /\ finished = {}
    /\ manifest = [todo |-> {}, kept |-> {}]
    /\ pc = [w \in Workers |-> "idle"]
    /\ closing = [w \in Workers |-> FALSE]
    /\ got = [w \in Workers |-> {}]
    /\ refs = [w \in Workers |-> {}]
    /\ faults = 0

Upload(k) ==
    \/ PutImage(k) \/ PutFails(k) \/ CreatePoll(k) \/ CreateFails(k)
    \/ CleanUp(k) \/ CleanUpFails(k) \/ Enqueue(k) \/ DropImage(k)
    \/ PutAvatar(k) \/ NameAvatar(k) \/ NameFails(k) \/ DropFormer(k)

Erase == EraseObject \/ ClearAvatar

Collect == ReadReferences \/ CollectOrphans

Work(w) ==
    \/ ClaimOperation(w) \/ RunNext(w) \/ EraseRows(w)
    \/ ListPrefixes(w) \/ NoteVersions(w) \/ NoteKnown(w)
    \/ ClaimManifest(w) \/ DeleteVersions(w) \/ DeleteFails(w) \/ MarkCompleted(w)
    \/ Gate(w) \/ VerifyEmpty(w) \/ DeleteUser(w) \/ RemoveManifest(w)

Next ==
    \/ \E k \in Images : BeginImage(k) \/ HidePoll(k)
    \/ \E k \in Avatars : BeginAvatar(k)
    \/ \E k \in Keys : Upload(k) \/ Crash(k)
    \/ BeginErase \/ Erase \/ CrashErase
    \/ Age \/ Collect
    \/ AcceptDeletion \/ LeaseEnds \/ LeaseLapses
    \/ \E w \in Workers : Work(w) \/ Dies(w)

Spec == Init /\ [][Next]_vars

(* Requests run to their end unless they crash, the cleanup jobs and the   *)
(* workers are started again and again, and days pass.                     *)
FairSpec ==
    /\ Spec
    /\ \A k \in Keys : WF_vars(Upload(k))
    /\ SF_vars(Age) /\ WF_vars(Erase) /\ WF_vars(Collect) /\ WF_vars(LeaseLapses)
    /\ \A w \in Workers : WF_vars(Work(w))

-----------------------------------------------------------------------------
(* an avatar outside the prefix that was deleted or replaced *)
GivenUp(k) ==
    /\ k \in Legacy
    /\ \/ eraser.key = k /\ eraser.at = "over"
       \/ \E a \in Avatars : former[a] = k /\ at[a] = "over"

(* A deletion that is reported as completed has left no object of the      *)
(* account: no upload that raced it, no worker that lost its lease and no  *)
(* failed cleanup leaves one behind, but for an avatar outside the prefix  *)
(* of its user which was replaced or deleted before.                       *)
Erased ==
    operation = "completed" => \A k \in Keys : Object(k) \in stored => GivenUp(k)

(* What the account shows can be read, whatever the uploads, their         *)
(* cleanups and the collection of orphans do at the same time.  There are  *)
(* two exceptions: an avatar that its user is having deleted, and the      *)
(* image of a poll whose COMMIT took effect but was answered by an error,  *)
(* which the route takes for a poll that does not exist.                   *)
ReferencedKept ==
    account = "active" =>
        \A k \in Keys : Owned(k) =>
            \/ Readable(k)
            \/ eraser.key = k /\ eraser.at \in {"erased", "dead"}
            \/ k \in Images /\ Unheard(k)

(* In the end every object that can be read is one the account shows, and  *)
(* a deletion that was accepted is completed: whatever failed or crashed   *)
(* on the way, some later pass finds what it left.                         *)
CleansUp ==
    <>[](/\ operation \in {"none", "completed"}
         /\ \A k \in Keys : Readable(k) => Owned(k))
===============================================================================
