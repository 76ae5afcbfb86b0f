---------------------------- MODULE TutorRecords ----------------------------
(***************************************************************************)
(* The files of one tutor - avatar and qualification documents - in object *)
(* storage, the rows that refer to them, the cleanup intents that remember *)
(* objects nobody refers to, and the two caches on the tutor's profile:    *)
(* the verification status and the rating.                                 *)
(*                                                                         *)
(* Storage and the database share no transaction.  A request to storage    *)
(* whose answer did not come may still arrive, and a transaction whose     *)
(* client lost its connection may still commit.  A transaction is one step *)
(* where it only waits for locks, and several where it goes on holding     *)
(* them: while storage removes an object and between computing a cache and *)
(* committing it.  Times are whether an intent is due; object paths are    *)
(* random, so each is used once.  The average of a rating is a function of *)
(* the reviews it was computed from, so the cache is that set.             *)
(***************************************************************************)
EXTENDS Naturals, FiniteSets

CONSTANTS
    Avatars,     \* object paths of avatars
    Documents,   \* object paths of qualification documents
    TypeOf,      \* the type each document is uploaded as
    Bookings,    \* completed bookings with this tutor
    Workers,     \* requests and recovery runs at the same time
    MaxUploads,  \* bound: uploads
    Nil

Paths == Avatars \cup Documents

ASSUME RecordsAssumption ==
    /\ Avatars \cap Documents = {}
    /\ Nil \notin Paths \cup Bookings
    /\ MaxUploads \in Nat

VARIABLES
    avatar,    \* User.avatarObjectPath
    document,  \* TutorDocument rows, by object path
    intent,    \* StorageCleanupIntent rows; NEW paths are not drawn yet
    stored,    \* objects in storage
    wire,      \* requests to storage nobody waits for any more
    hanging,   \* finalizations whose client lost the connection
    late,      \* history: paths whose upload was under way when they came due
    profile,   \* the caches on the TutorProfile row
    reviewed,  \* bookings with a review
    job        \* what each worker is in the middle of

vars == <<avatar, document, intent, stored, wire, hanging, late, profile, reviewed, job>>
rows == <<avatar, document, profile, reviewed>>
remote == <<stored, wire>>

Reviewed == {"VERIFIED", "REJECTED"}
DocumentStatus == {"NONE", "PENDING"} \cup Reviewed
Verification == {"UNVERIFIED", "PENDING", "VERIFIED", "REJECTED"}

\* p or b is what the job is about; result is what it is about to commit.
Job == [op : {"idle", "put", "finalize", "clean", "remove", "drop", "review", "rate"},
        p : Paths \cup {Nil}, b : Bookings \cup {Nil}, status : DocumentStatus,
        level : Verification, rated : SUBSET Bookings]
Idle == [op |-> "idle", p |-> Nil, b |-> Nil, status |-> "NONE",
         level |-> "UNVERIFIED", rated |-> {}]

TypeOK ==
    /\ avatar \in Avatars \cup {Nil}
    /\ document \in [Documents -> DocumentStatus]
    /\ intent \in [Paths -> {"NEW", "NONE", "GRACE", "DUE"}]
    /\ stored \subseteq Paths
    /\ wire \in [put : SUBSET Paths, remove : SUBSET Paths]
    /\ hanging \subseteq Paths
    /\ late \subseteq Paths
    /\ profile \in [verification : Verification, rated : SUBSET Bookings]
    /\ reviewed \subseteq Bookings
    /\ job \in [Workers -> Job]

Init ==
    /\ avatar = Nil
    /\ document = [d \in Documents |-> "NONE"]
    /\ intent = [p \in Paths |-> "NEW"]
    /\ stored = {}
    /\ wire = [put |-> {}, remove |-> {}]
    /\ hanging = {} /\ late = {}
    /\ profile = [verification |-> "UNVERIFIED", rated |-> {}]
    /\ reviewed = {}
    /\ job = [w \in Workers |-> Idle]

\* deriveTutorVerificationStatus, of all documents of the tutor.
Derive(docs) ==
    LET has(status) == \E d \in Documents : docs[d] = status IN
    IF has("VERIFIED") THEN "VERIFIED"
    ELSE IF has("PENDING") THEN "PENDING"
    ELSE IF has("REJECTED") THEN "REJECTED" ELSE "UNVERIFIED"

Referenced(p) == p = avatar \/ (p \in Documents /\ document[p] # "NONE")
HasIntent(p) == intent[p] \in {"GRACE", "DUE"}
PendingLike(d) == \E e \in Documents : TypeOf[e] = TypeOf[d] /\ document[e] = "PENDING"

\* Row locks: of an intent, of the user and of the tutor's profile.
Claimed(p) == p \in hanging \/ \E w \in Workers : job[w].op \in {"remove", "drop"} /\ job[w].p = p
UserFree == hanging \cap Avatars = {}
TutorFree == hanging \cap Documents = {} /\ \A w \in Workers : job[w].op \notin {"review", "rate"}

Begin(w, j) == job[w] = Idle /\ job' = [job EXCEPT ![w] = j]
Become(w, op) == job' = [job EXCEPT ![w].op = op]
Finish(w) == job' = [job EXCEPT ![w] = Idle]

-----------------------------------------------------------------------------
(* Uploads *)

\* The intent is written before anything is sent to storage.
UploadBegin(w, p) ==
    /\ intent[p] = "NEW" /\ Cardinality({q \in Paths : intent[q] # "NEW"}) < MaxUploads
    /\ p \in Documents => ~PendingLike(p)
    /\ Begin(w, [Idle EXCEPT !.op = "put", !.p = p])
    /\ intent' = [intent EXCEPT ![p] = "GRACE"]
    /\ UNCHANGED <<rows, remote, hanging, late>>

UploadDone(w) ==
    /\ job[w].op = "put"
    /\ stored' = stored \cup {job[w].p}
    /\ Become(w, "finalize")
    /\ UNCHANGED <<rows, intent, wire, hanging, late>>

\* Mutation of UploadLost: the upload failed, so its intent is dropped.
UploadLostForgetting(w) ==
    /\ job[w].op = "put"
    /\ wire' = [wire EXCEPT !.put = @ \cup {job[w].p}]
    /\ intent' = [intent EXCEPT ![job[w].p] = "NONE"]
    /\ Finish(w)
    /\ UNCHANGED <<rows, stored, hanging, late>>

\* An error, a timeout or a crash: the object may still come to be stored.
UploadLost(w) ==
    /\ job[w].op = "put"
    /\ wire' = [wire EXCEPT !.put = @ \cup {job[w].p}]
    /\ Finish(w)
    /\ UNCHANGED <<rows, intent, stored, hanging, late>>

\* What the finalizing transaction of p writes.  A former avatar is queued.
SaveAvatar(p) ==
    /\ avatar' = p
    /\ intent' = [q \in Paths |-> IF q = p THEN "NONE" ELSE IF q = avatar THEN "DUE" ELSE intent[q]]
    /\ UNCHANGED <<document, profile, reviewed>>

SaveDocument(p) ==
    /\ document' = [document EXCEPT ![p] = "PENDING"]
    /\ profile' = [profile EXCEPT !.verification = Derive(document')]
    /\ intent' = [intent EXCEPT ![p] = "NONE"]
    /\ UNCHANGED <<avatar, reviewed>>

Save(p) == IF p \in Avatars THEN SaveAvatar(p) ELSE SaveDocument(p)

\* The transaction waits for the owner's row and for the intent.
MayFinalize(w) ==
    /\ job[w].op = "finalize"
    /\ ~Claimed(job[w].p)
    /\ IF job[w].p \in Avatars THEN UserFree ELSE TutorFree

FinalizeAvatar(w) ==
    LET p == job[w].p IN
    /\ MayFinalize(w) /\ p \in Avatars
    /\ IF HasIntent(p) THEN SaveAvatar(p) ELSE UNCHANGED <<rows, intent>>
    /\ Finish(w)
    /\ UNCHANGED <<remote, hanging, late>>

\* Mutation of FinalizeDocument: no unique index over pending documents.
FinalizeDocumentTwice(w) ==
    LET p == job[w].p IN
    /\ MayFinalize(w) /\ p \in Documents
    /\ IF HasIntent(p)
       THEN SaveDocument(p) /\ Finish(w)
       ELSE Become(w, "clean") /\ UNCHANGED <<rows, intent>>
    /\ UNCHANGED <<remote, hanging, late>>

\* One pending document of a type: the insert of another fails.  A failed
\* transaction is followed by an attempt to clean up at once.
FinalizeDocument(w) ==
    LET p == job[w].p IN
    /\ MayFinalize(w) /\ p \in Documents
    /\ IF HasIntent(p) /\ ~PendingLike(p)
       THEN SaveDocument(p) /\ Finish(w)
       ELSE Become(w, "clean") /\ UNCHANGED <<rows, intent>>
    /\ UNCHANGED <<remote, hanging, late>>

\* Any other failure of that transaction, as of the ownership check.
FinalizeRefused(w) ==
    /\ job[w].op = "finalize" /\ job[w].p \in Documents
    /\ Become(w, "clean")
    /\ UNCHANGED <<rows, intent, remote, hanging, late>>

\* The connection is lost before the commit is acknowledged.
FinalizeLost(w) ==
    LET p == job[w].p IN
    /\ MayFinalize(w) /\ HasIntent(p)
    /\ p \in Documents => ~PendingLike(p)
    /\ hanging' = hanging \cup {p}
    /\ IF p \in Documents THEN Become(w, "clean") ELSE Finish(w)
    /\ UNCHANGED <<rows, intent, remote, late>>

\* The server commits or rolls back what hangs.
Resolve(p) ==
    /\ p \in hanging
    /\ Save(p) \/ UNCHANGED <<rows, intent>>
    /\ hanging' = hanging \ {p}
    /\ UNCHANGED <<remote, late, job>>

\* remove of AvatarsService.
RemoveAvatar ==
    /\ UserFree /\ avatar # Nil
    /\ avatar' = Nil
    /\ intent' = [intent EXCEPT ![avatar] = "DUE"]
    /\ UNCHANGED <<document, profile, reviewed, remote, hanging, late, job>>

-----------------------------------------------------------------------------
(* Cleanup *)

\* Mutation of Claim: rows locked by others are taken too.
ClaimLocked(w, p) ==
    /\ HasIntent(p)
    /\ job' = [job EXCEPT ![w] =
           [Idle EXCEPT !.op = IF Referenced(p) THEN "drop" ELSE "remove", !.p = p]]
    /\ UNCHANGED <<rows, intent, remote, hanging, late>>

\* The intent is locked unless somebody else holds it, and references to the
\* object are looked for under that lock.
Claim(w, p) ==
    /\ HasIntent(p) /\ ~Claimed(p)
    /\ job' = [job EXCEPT ![w] =
           [Idle EXCEPT !.op = IF Referenced(p) THEN "drop" ELSE "remove", !.p = p]]
    /\ UNCHANGED <<rows, intent, remote, hanging, late>>

\* recoverPending, after an avatar changed or run by an operator.
Recover(w, p) == job[w] = Idle /\ intent[p] = "DUE" /\ Claim(w, p)

\* cleanup(target), after a document could not be saved.
CleanTarget(w) == job[w].op = "clean" /\ Claim(w, job[w].p)

CleanNothing(w) ==
    /\ job[w].op = "clean"
    /\ ~HasIntent(job[w].p) \/ Claimed(job[w].p)
    /\ Finish(w)
    /\ UNCHANGED <<rows, intent, remote, hanging, late>>

RemoveDone(w) ==
    /\ job[w].op = "remove"
    /\ stored' = stored \ {job[w].p}
    /\ Become(w, "drop")
    /\ UNCHANGED <<rows, intent, wire, hanging, late>>

CleanCommit(w) ==
    /\ job[w].op = "drop"
    /\ intent' = [intent EXCEPT ![job[w].p] = "NONE"]
    /\ Finish(w)
    /\ UNCHANGED <<rows, remote, hanging, late>>

\* The removal failed, took longer than the transaction may, or its commit
\* failed: the intent stays and is tried again later.
CleanFail(w) ==
    /\ job[w].op \in {"remove", "drop"}
    /\ wire' = IF job[w].op = "remove" THEN [wire EXCEPT !.remove = @ \cup {job[w].p}] ELSE wire
    /\ intent' = [intent EXCEPT ![job[w].p] = "GRACE"]
    /\ Finish(w)
    /\ UNCHANGED <<rows, stored, hanging, late>>

\* A request nobody waits for any more takes effect after all.
Arrive(p) ==
    /\ \/ /\ p \in wire.put
          /\ stored' = stored \cup {p}
          /\ wire' = [wire EXCEPT !.put = @ \ {p}]
       \/ /\ p \in wire.remove
          /\ stored' = stored \ {p}
          /\ wire' = [wire EXCEPT !.remove = @ \ {p}]
    /\ UNCHANGED <<rows, intent, hanging, late, job>>

Uploading(p) ==
    \/ p \in wire.put
    \/ \E w \in Workers : job[w].op \in {"put", "finalize"} /\ job[w].p = p

\* nextAttemptAt passes.
ComeDue(p) ==
    /\ intent[p] = "GRACE"
    /\ intent' = [intent EXCEPT ![p] = "DUE"]
    /\ late' = IF Uploading(p) THEN late \cup {p} ELSE late
    /\ UNCHANGED <<rows, remote, hanging, job>>

\* The process stops between two of its steps, or a transaction fails for
\* good: what was not committed is rolled back.
Crash(w) ==
    /\ job[w].op \in {"finalize", "clean", "review", "rate"}
    /\ Finish(w)
    /\ UNCHANGED <<rows, intent, remote, hanging, late>>

-----------------------------------------------------------------------------
(* The caches on the profile *)

\* Mutation of ReviewDocument: the profile is not locked.
ReviewDocumentUnlocked(w, d, status) ==
    /\ document[d] = "PENDING"
    /\ Begin(w, [Idle EXCEPT !.op = "review", !.p = d, !.status = status,
                             !.level = Derive([document EXCEPT ![d] = status])])
    /\ UNCHANGED <<rows, intent, remote, hanging, late>>

\* review locks the profile, decides the document if it is still pending, and
\* derives the status from all documents.
ReviewDocument(w, d, status) ==
    /\ TutorFree
    /\ document[d] = "PENDING"
    /\ Begin(w, [Idle EXCEPT !.op = "review", !.p = d, !.status = status,
                             !.level = Derive([document EXCEPT ![d] = status])])
    /\ UNCHANGED <<rows, intent, remote, hanging, late>>

ReviewCommit(w) ==
    /\ job[w].op = "review"
    /\ document' = [document EXCEPT ![job[w].p] = job[w].status]
    /\ profile' = [profile EXCEPT !.verification = job[w].level]
    /\ Finish(w)
    /\ UNCHANGED <<avatar, reviewed, intent, remote, hanging, late>>

\* create of ReviewsService: locks the booking and the profile, inserts the
\* one review of the booking and aggregates all of them.
RateTutor(w, b) ==
    /\ TutorFree
    /\ b \notin reviewed
    /\ Begin(w, [Idle EXCEPT !.op = "rate", !.b = b, !.rated = reviewed \cup {b}])
    /\ UNCHANGED <<rows, intent, remote, hanging, late>>

\* reconcileTutorReviewRatings: the same for no new review.
Reconcile(w) ==
    /\ TutorFree
    /\ Begin(w, [Idle EXCEPT !.op = "rate", !.rated = reviewed])
    /\ UNCHANGED <<rows, intent, remote, hanging, late>>

\* Mutation of RateCommit: a reconciliation inserts a review as well.
RateCommitBlank(w) ==
    /\ job[w].op = "rate"
    /\ reviewed' = reviewed \cup {job[w].b}
    /\ profile' = [profile EXCEPT !.rated = job[w].rated]
    /\ Finish(w)
    /\ UNCHANGED <<avatar, document, intent, remote, hanging, late>>

RateCommit(w) ==
    /\ job[w].op = "rate"
    /\ reviewed' = reviewed \cup ({job[w].b} \ {Nil})
    /\ profile' = [profile EXCEPT !.rated = job[w].rated]
    /\ Finish(w)
    /\ UNCHANGED <<avatar, document, intent, remote, hanging, late>>

-----------------------------------------------------------------------------
Uploads(w) ==
    \/ \E p \in Paths : UploadBegin(w, p)
    \/ UploadDone(w) \/ UploadLost(w)
    \/ FinalizeAvatar(w) \/ FinalizeDocument(w) \/ FinalizeRefused(w) \/ FinalizeLost(w)

Cleans(w) ==
    \/ \E p \in Paths : Recover(w, p)
    \/ CleanTarget(w) \/ CleanNothing(w) \/ RemoveDone(w) \/ CleanCommit(w) \/ CleanFail(w)

Caches(w) ==
    \/ \E d \in Documents, status \in Reviewed : ReviewDocument(w, d, status)
    \/ \E b \in Bookings : RateTutor(w, b)
    \/ Reconcile(w) \/ ReviewCommit(w) \/ RateCommit(w)

Next ==
    \/ \E w \in Workers : Uploads(w) \/ Cleans(w) \/ Caches(w) \/ Crash(w)
    \/ \E p \in Paths : Resolve(p) \/ Arrive(p) \/ ComeDue(p)
    \/ RemoveAvatar

Spec == Init /\ [][Next]_vars

-----------------------------------------------------------------------------
\* A file that a row refers to is in storage, unless its upload took longer
\* than the grace period: no cleanup removes a file whose commit it could not
\* see yet (storage-cleanup.service.ts, cleanup; apps/api/README.md:566).
NoMissingFile == \A p \in Paths : Referenced(p) => p \in stored \cup late

\* A stored file that no row refers to is remembered by an intent, unless its
\* upload took longer than the grace period: lost answers, crashes and
\* replaced avatars leave no garbage behind that recovery would not find
\* (avatars.service.ts and qualification-documents.service.ts, upload).
NothingForgotten ==
    \A p \in stored \ late : ~Referenced(p) => HasIntent(p)

\* A tutor has one document of a type in review at most, although the check
\* for it precedes the upload (qualification-documents.service.ts, upload).
OnePendingDocument ==
    \A d, e \in Documents :
        /\ TypeOf[d] = TypeOf[e]
        /\ document[d] = "PENDING" /\ document[e] = "PENDING"
        => d = e

\* The verification status and the rating on the profile are those of the
\* documents and reviews committed, whoever reviews or uploads at the same
\* time (updateTutorVerification; refreshLockedTutorReviewRating).
CachesAreCurrent ==
    /\ profile.verification = Derive(document)
    /\ profile.rated = reviewed
=============================================================================
