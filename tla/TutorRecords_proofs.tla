------------------------ MODULE TutorRecords_proofs -------------------------
(***************************************************************************)
(* Proofs about the records of a tutor, for any number of files, bookings  *)
(* and workers: types, that no file is missing or forgotten, that one      *)
(* document of a type is in review, and that both caches are current.      *)
(*                                                                         *)
(* A property of a file is not inductive, as it depends on what workers,   *)
(* late requests and hanging transactions may still do to the file.        *)
(* PathFine says, for one path, which of them can be there together; a     *)
(* path whose upload came due while it was under way is exempt.  JobsFine  *)
(* and OneLock say what the holder of the tutor's row relies on.           *)
(***************************************************************************)
EXTENDS TutorRecords, TLAPS

\* Some worker is in the middle of one of these steps for p.
On(p, ops) == \E w \in Workers : job[w].op \in ops /\ job[w].p = p

UploadOps == {"put", "finalize"}
CleanOps == {"clean", "remove", "drop"}
PathOps == UploadOps \cup CleanOps

\* A path that is not drawn yet is nowhere.
UnusedFine(p) ==
    intent[p] = "NEW" => /\ p \notin stored \cup late \cup hanging \cup wire.put \cup wire.remove
                         /\ ~Referenced(p)
                         /\ ~On(p, PathOps)

\* While a path that is not late is uploaded nobody else deals with it.
UploadFine(p) ==
    /\ On(p, UploadOps) => /\ intent[p] = "GRACE" /\ ~Referenced(p)
                           /\ p \notin hanging \cup wire.put \cup wire.remove
                           /\ ~On(p, CleanOps)
    /\ On(p, {"finalize"}) => p \in stored
    /\ p \in wire.put => /\ intent[p] = "GRACE" /\ ~Referenced(p)
                         /\ p \notin hanging
                         /\ ~On(p, CleanOps)

\* A transaction that hangs keeps its intent and its object.
HangingFine(p) ==
    p \in hanging => /\ HasIntent(p) /\ ~Referenced(p)
                     /\ p \in stored \ wire.remove
                     /\ ~On(p, {"remove", "drop"})

\* A file that is referred to is stored, and nothing removes it.
FileFine(p) ==
    Referenced(p) => /\ intent[p] = "NONE"
                     /\ p \in stored \ wire.remove
                     /\ ~On(p, {"remove", "drop"})

\* What is left over is remembered until it is gone.
GarbageFine(p) ==
    /\ p \in stored /\ ~Referenced(p) => HasIntent(p)
    /\ On(p, {"drop"}) => p \notin stored

PathFine(p) ==
    /\ UnusedFine(p)
    /\ p \notin late => UploadFine(p) /\ HangingFine(p) /\ FileFine(p) /\ GarbageFine(p)

PathsFine == \A p \in Paths : PathFine(p)

OneUploader ==
    \A v, w \in Workers :
        job[v].op \in UploadOps /\ job[w].op \in UploadOps /\ job[v].p = job[w].p => v = w

\* The worker that holds the profile knows what it is about to commit.
HasLock(w) == job[w].op \in {"review", "rate"}
JobFine(w) ==
    /\ job[w].op \in PathOps => job[w].p \in Paths
    /\ HasLock(w) => hanging \cap Documents = {}
    /\ job[w].op = "review" =>
           /\ job[w].p \in Documents /\ job[w].status \in Reviewed
           /\ document[job[w].p] = "PENDING"
           /\ job[w].level = Derive([document EXCEPT ![job[w].p] = job[w].status])
    /\ job[w].op = "rate" => job[w].rated = reviewed \cup ({job[w].b} \ {Nil})

JobsFine == \A w \in Workers : JobFine(w)

\* Nobody else holds it, and a transaction that hangs may still insert.
OneLock ==
    /\ \A v, w \in Workers : HasLock(v) /\ HasLock(w) => v = w
    /\ \A d, e \in hanging \cap Documents : d = e
    /\ \A d \in hanging \cap Documents : ~PendingLike(d)

RowsFine == JobsFine /\ OneLock /\ OnePendingDocument /\ CachesAreCurrent

RecordsInv == TypeOK /\ OneUploader /\ PathsFine /\ RowsFine

-----------------------------------------------------------------------------
(* What a step does to the jobs *)

Others(w) == \A v \in Workers \ {w} : job'[v] = job[v]

LEMMA IdleType == Idle \in Job
BY DEF Idle, Job, DocumentStatus, Verification

LEMMA BeginJob ==
    ASSUME TypeOK, NEW w \in Workers, NEW j \in Job, Begin(w, j)
    PROVE  /\ job' \in [Workers -> Job] /\ Others(w)
           /\ job'[w] = j /\ job[w] = Idle
BY DEF TypeOK, Begin, Others

LEMMA BecomeJob ==
    ASSUME TypeOK, NEW w \in Workers, NEW op, Become(w, op),
           op \in {"finalize", "clean", "drop"}
    PROVE  /\ job' \in [Workers -> Job] /\ Others(w)
           /\ job'[w].op = op /\ job'[w].p = job[w].p
<1>1. [job[w] EXCEPT !.op = op] \in Job
  BY DEF TypeOK, Job
<1>2. job' = [job EXCEPT ![w] = [job[w] EXCEPT !.op = op]]
  BY DEF Become
<1>3. job[w] \in Job
  BY DEF TypeOK
<1> QED  BY <1>1, <1>2, <1>3 DEF TypeOK, Others, Job

LEMMA FinishJob ==
    ASSUME TypeOK, NEW w \in Workers, Finish(w)
    PROVE  /\ job' \in [Workers -> Job] /\ Others(w) /\ job'[w] = Idle
BY IdleType DEF TypeOK, Finish, Others

LEMMA ClaimJob ==
    ASSUME TypeOK, NEW w \in Workers, NEW p \in Paths, Claim(w, p)
    PROVE  /\ job' \in [Workers -> Job] /\ Others(w) /\ job'[w].p = p
           /\ job'[w].op = IF Referenced(p) THEN "drop" ELSE "remove"
<1> DEFINE op == IF Referenced(p) THEN "drop" ELSE "remove"
<1>1. [Idle EXCEPT !.op = op, !.p = p] \in Job
  BY IdleType DEF Idle, Job
<1> QED  BY <1>1 DEF TypeOK, Claim, Others, Idle

-----------------------------------------------------------------------------
(* Types *)

LEMMA InitType == Init => TypeOK
BY IdleType DEF Init, TypeOK, DocumentStatus, Verification

LEMMA DeriveType == ASSUME NEW docs PROVE Derive(docs) \in Verification
BY DEF Derive, Verification

LEMMA SaveType ==
    ASSUME TypeOK, NEW p \in Paths, Save(p)
    PROVE  /\ avatar' \in Avatars \cup {Nil}
           /\ document' \in [Documents -> DocumentStatus]
           /\ intent' \in [Paths -> {"NEW", "NONE", "GRACE", "DUE"}]
           /\ profile' \in [verification : Verification, rated : SUBSET Bookings]
           /\ reviewed' \subseteq Bookings
<1>1. CASE p \in Avatars
  BY <1>1 DEF Save, SaveAvatar, TypeOK
<1>2. CASE p \notin Avatars
  <2>1. p \in Documents
    BY <1>2 DEF Paths
  <2>2. PICK level \in Verification : level = Derive(document')
    BY DeriveType
  <2>3. profile' = [profile EXCEPT !.verification = level]
    BY <1>2, <2>2 DEF Save, SaveDocument
  <2> QED  BY <1>2, <2>1, <2>3 DEF Save, SaveDocument, TypeOK, DocumentStatus
<1> QED  BY <1>1, <1>2

LEMMA UploadType ==
    ASSUME TypeOK, NEW w \in Workers, JobsFine, Uploads(w)
    PROVE  TypeOK'
<1> USE DEF TypeOK
<1>1. ASSUME NEW p \in Paths, UploadBegin(w, p) PROVE TypeOK'
  <2>1. [Idle EXCEPT !.op = "put", !.p = p] \in Job
    BY IdleType DEF Idle, Job
  <2> QED  BY <1>1, <2>1, BeginJob DEF UploadBegin, rows, remote
<1>2. CASE UploadDone(w)
  <2>1. job[w].p \in Paths /\ job' \in [Workers -> Job]
    BY <1>2, BecomeJob DEF UploadDone, JobsFine, JobFine, PathOps, UploadOps
  <2> QED  BY <1>2, <2>1 DEF UploadDone, rows
<1>3. CASE UploadLost(w)
  <2>1. job[w].p \in Paths /\ job' \in [Workers -> Job]
    BY <1>3, FinishJob DEF UploadLost, JobsFine, JobFine, PathOps, UploadOps
  <2> QED  BY <1>3, <2>1 DEF UploadLost, rows
<1>4. CASE FinalizeAvatar(w)
  <2>1. job[w].p \in Paths /\ job' \in [Workers -> Job]
    BY <1>4, FinishJob DEF FinalizeAvatar, MayFinalize, JobsFine, JobFine, PathOps, UploadOps
  <2>2. CASE HasIntent(job[w].p)
    <3>1. Save(job[w].p)
      BY <1>4, <2>2 DEF FinalizeAvatar, Save
    <3> QED  BY <1>4, <2>1, <3>1, SaveType DEF FinalizeAvatar, remote
  <2>3. CASE ~HasIntent(job[w].p)
    BY <1>4, <2>1, <2>3 DEF FinalizeAvatar, remote, rows
  <2> QED  BY <2>2, <2>3
<1>5. CASE FinalizeDocument(w)
  <2>1. job[w].p \in Paths
    BY <1>5 DEF FinalizeDocument, MayFinalize, JobsFine, JobFine, PathOps, UploadOps
  <2>2. CASE HasIntent(job[w].p) /\ ~PendingLike(job[w].p)
    <3>1. Save(job[w].p)
      BY <1>5, <2>2, RecordsAssumption DEF FinalizeDocument, Save
    <3> QED  BY <1>5, <2>1, <2>2, <3>1, SaveType, FinishJob DEF FinalizeDocument, remote
  <2>3. CASE ~(HasIntent(job[w].p) /\ ~PendingLike(job[w].p))
    <3>1. job' \in [Workers -> Job]
      BY <1>5, <2>3, BecomeJob DEF FinalizeDocument
    <3> QED  BY <1>5, <2>3, <3>1 DEF FinalizeDocument, remote, rows
  <2> QED  BY <2>2, <2>3
<1>6. CASE FinalizeRefused(w)
  <2>1. job' \in [Workers -> Job]
    BY <1>6, BecomeJob DEF FinalizeRefused
  <2> QED  BY <1>6, <2>1 DEF FinalizeRefused, rows, remote
<1>7. CASE FinalizeLost(w)
  <2>1. job[w].p \in Paths
    BY <1>7 DEF FinalizeLost, MayFinalize, JobsFine, JobFine, PathOps, UploadOps
  <2>2. job' \in [Workers -> Job]
    BY <1>7, BecomeJob, FinishJob DEF FinalizeLost
  <2> QED  BY <1>7, <2>1, <2>2 DEF FinalizeLost, rows, remote
<1> QED
  BY <1>1, <1>2, <1>3, <1>4, <1>5, <1>6, <1>7 DEF Uploads

LEMMA CleanType ==
    ASSUME TypeOK, NEW w \in Workers, JobsFine, Cleans(w)
    PROVE  TypeOK'
<1> USE DEF TypeOK
<1>1. ASSUME NEW p \in Paths, Claim(w, p) PROVE TypeOK'
  <2>1. job' \in [Workers -> Job]
    BY <1>1, ClaimJob
  <2> QED  BY <1>1, <2>1 DEF Claim, rows, remote
<1>2. CASE CleanTarget(w)
  BY <1>1, <1>2 DEF CleanTarget, JobsFine, JobFine, PathOps, CleanOps
<1>3. CASE CleanNothing(w)
  BY <1>3, FinishJob DEF CleanNothing, rows, remote
<1>4. CASE RemoveDone(w)
  <2>1. job' \in [Workers -> Job]
    BY <1>4, BecomeJob DEF RemoveDone
  <2> QED  BY <1>4, <2>1 DEF RemoveDone, rows
<1>5. CASE CleanCommit(w)
  BY <1>5, FinishJob DEF CleanCommit, rows, remote
<1>6. CASE CleanFail(w)
  <2>1. job[w].p \in Paths
    BY <1>6 DEF CleanFail, JobsFine, JobFine, PathOps, CleanOps
  <2>2. wire' \in [put : SUBSET Paths, remove : SUBSET Paths]
    BY <1>6, <2>1 DEF CleanFail
  <2> QED  BY <1>6, <2>2, FinishJob DEF CleanFail, rows
<1> QED
  BY <1>1, <1>2, <1>3, <1>4, <1>5, <1>6 DEF Cleans, Recover

LEMMA CacheType ==
    ASSUME TypeOK, NEW w \in Workers, JobsFine, Caches(w)
    PROVE  TypeOK'
<1> USE DEF TypeOK
<1>1. ASSUME NEW d \in Documents, NEW status \in Reviewed, ReviewDocument(w, d, status)
      PROVE  TypeOK'
  <2>1. PICK level \in Verification : level = Derive([document EXCEPT ![d] = status])
    BY DeriveType
  <2>2. [Idle EXCEPT !.op = "review", !.p = d, !.status = status, !.level = level] \in Job
    BY DEF Idle, Job, Paths, DocumentStatus
  <2> QED  BY <1>1, <2>1, <2>2, BeginJob DEF ReviewDocument, rows, remote
<1>2. ASSUME NEW b \in Bookings, RateTutor(w, b) PROVE TypeOK'
  <2>1. PICK s \in SUBSET Bookings : s = reviewed \cup {b}
    OBVIOUS
  <2>2. [Idle EXCEPT !.op = "rate", !.b = b, !.rated = s] \in Job
    BY IdleType DEF Idle, Job
  <2> QED  BY <1>2, <2>1, <2>2, BeginJob DEF RateTutor, rows, remote
<1>3. CASE Reconcile(w)
  <2>1. [Idle EXCEPT !.op = "rate", !.rated = reviewed] \in Job
    BY IdleType DEF Idle, Job
  <2> QED  BY <1>3, <2>1, BeginJob DEF Reconcile, rows, remote
<1>4. CASE ReviewCommit(w)
  <2>1. job[w].p \in Documents /\ job[w].status \in DocumentStatus /\ job[w].level \in Verification
    BY <1>4 DEF ReviewCommit, JobsFine, JobFine, Job
  <2> QED  BY <1>4, <2>1, FinishJob DEF ReviewCommit, remote
<1>5. CASE RateCommit(w)
  <2>1. job[w].b \in Bookings \cup {Nil} /\ job[w].rated \subseteq Bookings
    BY DEF Job
  <2> QED  BY <1>5, <2>1, FinishJob DEF RateCommit, remote
<1> QED
  BY <1>1, <1>2, <1>3, <1>4, <1>5 DEF Caches

LEMMA NextType ==
    ASSUME TypeOK, JobsFine, [Next]_vars
    PROVE  TypeOK'
<1>1. ASSUME NEW w \in Workers, Crash(w) PROVE TypeOK'
  BY <1>1, FinishJob DEF TypeOK, Crash, rows, remote
<1>2. ASSUME NEW p \in Paths, Resolve(p) PROVE TypeOK'
  <2>1. CASE Save(p)
    BY <1>2, <2>1, SaveType DEF TypeOK, Resolve, remote
  <2>2. CASE UNCHANGED <<rows, intent>>
    BY <1>2, <2>2 DEF TypeOK, Resolve, remote, rows
  <2> QED  BY <1>2, <2>1, <2>2 DEF Resolve
<1>3. ASSUME NEW p \in Paths, Arrive(p) PROVE TypeOK'
  BY <1>3 DEF TypeOK, Arrive, rows
<1>4. ASSUME NEW p \in Paths, ComeDue(p) PROVE TypeOK'
  BY <1>4 DEF TypeOK, ComeDue, rows, remote
<1>5. CASE RemoveAvatar
  BY <1>5 DEF TypeOK, RemoveAvatar, remote
<1>6. CASE UNCHANGED vars
  BY <1>6 DEF TypeOK, vars
<1> QED
  BY <1>1, <1>2, <1>3, <1>4, <1>5, <1>6, UploadType, CleanType, CacheType DEF Next

-----------------------------------------------------------------------------
(* Files: a step disturbs the path it is about, and leaves the others *)

\* Nothing is done to p by this step but giving up what was under way.
Kept(p) ==
    /\ intent'[p] = intent[p]
    /\ p \in stored' <=> p \in stored
    /\ p \in late' <=> p \in late
    /\ Referenced(p)' <=> Referenced(p)
    /\ p \in hanging' => p \in hanging
    /\ p \in wire'.put => p \in wire.put
    /\ p \in wire'.remove => p \in wire.remove
    /\ \A v \in Workers :
           job'[v].op \in PathOps /\ job'[v].p = p => job[v].op = job'[v].op /\ job[v].p = p

LEMMA PathKept ==
    ASSUME NEW p \in Paths, PathFine(p), Kept(p)
    PROVE  PathFine(p)'
<1> USE DEF PathFine, On, PathOps, UploadOps, CleanOps, Kept, HasIntent
<1>1. UnusedFine(p)'
  BY DEF UnusedFine
<1>2. ASSUME p \notin late' PROVE UploadFine(p)'
  BY <1>2 DEF UploadFine
<1>3. ASSUME p \notin late' PROVE HangingFine(p)'
  BY <1>3 DEF HangingFine
<1>4. ASSUME p \notin late' PROVE FileFine(p)'
  BY <1>4 DEF FileFine
<1>5. ASSUME p \notin late' PROVE GarbageFine(p)'
  BY <1>5 DEF GarbageFine
<1> QED  BY <1>1, <1>2, <1>3, <1>4, <1>5

LEMMA AllKept ==
    ASSUME PathsFine, \A p \in Paths : Kept(p)
    PROVE  PathsFine'
BY PathKept DEF PathsFine

LEMMA OthersKept ==
    ASSUME PathsFine, NEW p \in Paths, PathFine(p)', \A q \in Paths \ {p} : Kept(q)
    PROVE  PathsFine'
BY PathKept DEF PathsFine

\* A path that a worker deals with is drawn.
LEMMA DrawnPath ==
    ASSUME PathsFine, NEW w \in Workers, NEW p \in Paths,
           job[w].op \in PathOps, job[w].p = p
    PROVE  intent[p] # "NEW"
BY DEF PathsFine, PathFine, UnusedFine, On

\* What is known of a path that is uploaded and not late.
LEMMA UploadedPath ==
    ASSUME PathsFine, OneUploader, NEW w \in Workers, NEW p \in Paths \ late,
           job[w].op \in UploadOps, job[w].p = p
    PROVE  /\ intent[p] = "GRACE" /\ ~Referenced(p)
           /\ p \notin hanging \cup wire.put \cup wire.remove
           /\ \A v \in Workers \ {w} : job[v].op \in PathOps => job[v].p # p
           /\ job[w].op = "finalize" => p \in stored
BY DEF PathsFine, PathFine, UploadFine, OneUploader, On, PathOps, UploadOps, CleanOps

\* What is known of a path that is removed and not late.
LEMMA RemovedPath ==
    ASSUME PathsFine, NEW w \in Workers, NEW p \in Paths \ late,
           job[w].op \in {"remove", "drop"}, job[w].p = p
    PROVE  /\ ~Referenced(p) /\ p \notin hanging \cup wire.put
           /\ \A v \in Workers : job[v].op \in UploadOps => job[v].p # p
           /\ job[w].op = "drop" => p \notin stored
BY DEF PathsFine, PathFine, UploadFine, HangingFine, FileFine, GarbageFine, On, UploadOps, CleanOps

\* What is known of a file that is referred to and not late.
LEMMA ReferencedPath ==
    ASSUME PathsFine, NEW p \in Paths \ late, Referenced(p)
    PROVE  /\ intent[p] = "NONE" /\ p \in stored
           /\ p \notin hanging \cup wire.put \cup wire.remove
           /\ \A v \in Workers : job[v].op \in {"put", "finalize", "remove", "drop"} => job[v].p # p
BY DEF PathsFine, PathFine, UploadFine, HangingFine, FileFine, On, UploadOps, CleanOps

LEMMA UploadSteps ==
    ASSUME TypeOK, OneUploader, PathsFine, JobsFine, NEW w \in Workers,
           \/ \E p \in Paths : UploadBegin(w, p)
           \/ UploadDone(w) \/ UploadLost(w)
    PROVE  PathsFine'
<1> USE DEF Referenced, rows, remote
<1>1. ASSUME NEW p \in Paths, UploadBegin(w, p) PROVE PathsFine'
  <2>1. [Idle EXCEPT !.op = "put", !.p = p] \in Job
    BY <1>1, IdleType DEF Idle, Job
  <2>2. Others(w) /\ job'[w].op = "put" /\ job'[w].p = p /\ job[w] = Idle
    BY <1>1, <2>1, BeginJob DEF UploadBegin, Idle
  <2>3. intent'[p] = "GRACE" /\ UnusedFine(p) /\ intent[p] = "NEW"
    BY <1>1 DEF UploadBegin, TypeOK, PathsFine, PathFine
  <2>4. PathFine(p)'
    BY <1>1, <2>2, <2>3 DEF UploadBegin, Others, PathFine, UnusedFine, UploadFine, HangingFine,
       FileFine, GarbageFine, On, PathOps, UploadOps, CleanOps, HasIntent
  <2>5. ASSUME NEW q \in Paths \ {p} PROVE Kept(q)
    BY <1>1, <2>2, <2>5 DEF UploadBegin, Others, Kept, TypeOK
  <2> QED  BY <2>4, <2>5, OthersKept
<1>2. CASE UploadDone(w)
  <2>1. PICK p \in Paths : p = job[w].p
    BY <1>2 DEF UploadDone, JobsFine, JobFine, PathOps, UploadOps
  <2>2. Others(w) /\ job'[w].op = "finalize" /\ job'[w].p = p
    BY <1>2, <2>1, BecomeJob DEF UploadDone
  <2>3. intent[p] # "NEW"
    BY <1>2, <2>1, DrawnPath DEF UploadDone, PathOps, UploadOps
  <2>4. PathFine(p)'
    BY <1>2, <2>1, <2>2, <2>3, UploadedPath DEF UploadDone, Others, PathFine, UnusedFine,
       UploadFine, HangingFine, FileFine, GarbageFine, On, PathOps, UploadOps, CleanOps, HasIntent
  <2>5. ASSUME NEW q \in Paths \ {p} PROVE Kept(q)
    BY <1>2, <2>1, <2>2 DEF UploadDone, Others, Kept
  <2> QED  BY <2>4, <2>5, OthersKept
<1>3. CASE UploadLost(w)
  <2>1. PICK p \in Paths : p = job[w].p
    BY <1>3 DEF UploadLost, JobsFine, JobFine, PathOps, UploadOps
  <2>2. Others(w) /\ job'[w] = Idle
    BY <1>3, FinishJob DEF UploadLost
  <2>3. intent[p] # "NEW"
    BY <1>3, <2>1, DrawnPath DEF UploadLost, PathOps, UploadOps
  <2>4. wire'.put = wire.put \cup {p} /\ wire'.remove = wire.remove
    BY <1>3, <2>1 DEF UploadLost, TypeOK
  <2>5. PathFine(p)'
    BY <1>3, <2>1, <2>2, <2>3, <2>4, UploadedPath DEF UploadLost, Others, PathFine, UnusedFine, Idle,
       UploadFine, HangingFine, FileFine, GarbageFine, On, PathOps, UploadOps, CleanOps, HasIntent,
       PathsFine
  <2>6. ASSUME NEW q \in Paths \ {p} PROVE Kept(q)
    BY <1>3, <2>2, <2>4 DEF UploadLost, Others, Kept, Idle, PathOps, UploadOps, CleanOps
  <2> QED  BY <2>5, <2>6, OthersKept
<1> QED  BY <1>1, <1>2, <1>3

\* The jobs a step only gives up.
GivenUp ==
    \A v \in Workers : job'[v].op \in PathOps => job'[v].op = job[v].op /\ job'[v].p = job[v].p

\* An avatar that is replaced or removed is queued.
LEMMA FormerAvatar ==
    ASSUME PathsFine, NEW q \in Paths, q = avatar, avatar' # q, q \notin Documents,
           intent'[q] = "DUE", UNCHANGED <<stored, wire, late>>, GivenUp,
           q \in hanging' => q \in hanging
    PROVE  PathFine(q)'
<1>1. Referenced(q) /\ ~Referenced(q)'
  BY DEF Referenced
<1>2. CASE q \in late
  BY <1>2 DEF PathFine, UnusedFine
<1>3. CASE q \notin late
  BY <1>1, <1>3, ReferencedPath DEF PathFine, UnusedFine, UploadFine, HangingFine, FileFine,
     GarbageFine, On, PathOps, UploadOps, CleanOps, HasIntent, GivenUp
<1> QED  BY <1>2, <1>3

\* Saving a file whose object is there and nobody is after.
LEMMA SavePaths ==
    ASSUME TypeOK, PathsFine, NEW p \in Paths, Save(p), UNCHANGED <<stored, wire, late>>,
           GivenUp, hanging' \subseteq hanging, p \notin hanging', intent[p] # "NEW",
           p \notin late =>
               /\ p \in stored /\ p \notin wire.put \cup wire.remove /\ ~Referenced(p)
               /\ \A v \in Workers :
                      job'[v].op \in {"put", "finalize", "remove", "drop"} => job'[v].p # p
    PROVE  PathsFine'
<1>1. intent'[p] = "NONE" /\ Referenced(p)'
  BY RecordsAssumption DEF Save, SaveAvatar, SaveDocument, TypeOK, Paths, Referenced
<1>2. PathFine(p)'
  <2>1. CASE p \in late
    BY <1>1, <2>1 DEF PathFine, UnusedFine
  <2>2. CASE p \notin late
    BY <1>1, <2>2 DEF PathFine, UnusedFine, UploadFine, HangingFine, FileFine,
       GarbageFine, On, PathOps, UploadOps, CleanOps, HasIntent
  <2> QED  BY <2>1, <2>2
<1>3. ASSUME NEW q \in Paths \ {p} PROVE PathFine(q)'
  <2>1. CASE q = avatar /\ p \in Avatars
    <3>1. q \in Avatars /\ avatar' # q /\ intent'[q] = "DUE"
      BY <1>3, <2>1, RecordsAssumption DEF Save, SaveAvatar, TypeOK, Paths
    <3> QED  BY <1>3, <2>1, <3>1, FormerAvatar, RecordsAssumption
  <2>2. CASE ~(q = avatar /\ p \in Avatars)
    <3>1. intent'[q] = intent[q]
      BY <1>3, <2>2 DEF Save, SaveAvatar, SaveDocument, TypeOK
    <3>2. Referenced(q)' <=> Referenced(q)
      BY <1>3, <2>2 DEF Save, SaveAvatar, SaveDocument, TypeOK, Referenced
    <3>3. Kept(q)
      BY <1>3, <3>1, <3>2 DEF Kept, GivenUp
    <3> QED  BY <1>3, <3>3, PathKept DEF PathsFine
  <2> QED  BY <2>1, <2>2
<1> QED  BY <1>2, <1>3 DEF PathsFine

\* What the transaction of a finished upload finds.
LEMMA FinalizedPath ==
    ASSUME TypeOK, OneUploader, PathsFine, JobsFine, NEW w \in Workers, job[w].op = "finalize"
    PROVE  \E p \in Paths :
               /\ p = job[w].p /\ intent[p] # "NEW"
               /\ p \notin late =>
                      /\ intent[p] = "GRACE" /\ ~Referenced(p) /\ p \in stored
                      /\ p \notin hanging \cup wire.put \cup wire.remove
                      /\ \A v \in Workers \ {w} : job[v].op \in PathOps => job[v].p # p
<1>1. PICK p \in Paths : p = job[w].p
  BY DEF JobsFine, JobFine, PathOps, UploadOps
<1> QED  BY <1>1, DrawnPath, UploadedPath DEF PathOps, UploadOps

LEMMA FinalizeSave ==
    ASSUME TypeOK, OneUploader, PathsFine, JobsFine, NEW w \in Workers, job[w].op = "finalize",
           Save(job[w].p), ~Claimed(job[w].p), Finish(w), UNCHANGED <<stored, wire, hanging, late>>
    PROVE  PathsFine'
<1>1. PICK p \in Paths :
          /\ p = job[w].p /\ intent[p] # "NEW"
          /\ p \notin late =>
                 /\ intent[p] = "GRACE" /\ ~Referenced(p) /\ p \in stored
                 /\ p \notin hanging \cup wire.put \cup wire.remove
                 /\ \A v \in Workers \ {w} : job[v].op \in PathOps => job[v].p # p
  BY FinalizedPath
<1>2. Others(w) /\ job'[w] = Idle
  BY FinishJob
<1>3. GivenUp
  BY <1>2 DEF GivenUp, Others, Idle, PathOps, UploadOps, CleanOps
<1>4. \A v \in Workers :
          p \notin late => (job'[v].op \in {"put", "finalize", "remove", "drop"} => job'[v].p # p)
  BY <1>1, <1>2 DEF Others, Idle, PathOps, UploadOps, CleanOps
<1>5. p \notin hanging
  BY <1>1 DEF Claimed
<1> QED  BY <1>1, <1>3, <1>4, <1>5, SavePaths

\* A finished upload that is not saved is cleaned up at once.
LEMMA FinalizeClean ==
    ASSUME TypeOK, OneUploader, PathsFine, JobsFine, NEW w \in Workers, job[w].op = "finalize",
           Become(w, "clean"), UNCHANGED <<rows, intent, stored, wire, hanging, late>>
    PROVE  PathsFine'
<1> USE DEF Referenced, rows
<1>1. PICK p \in Paths :
          /\ p = job[w].p /\ intent[p] # "NEW"
          /\ p \notin late =>
                 /\ intent[p] = "GRACE" /\ ~Referenced(p) /\ p \in stored
                 /\ p \notin hanging \cup wire.put \cup wire.remove
                 /\ \A v \in Workers \ {w} : job[v].op \in PathOps => job[v].p # p
  BY FinalizedPath
<1>2. Others(w) /\ job'[w].op = "clean" /\ job'[w].p = p
  BY <1>1, BecomeJob
<1>3. PathFine(p)'
  BY <1>1, <1>2 DEF Others, PathFine, UnusedFine, UploadFine, HangingFine, FileFine,
     GarbageFine, On, PathOps, UploadOps, CleanOps, HasIntent
<1>4. ASSUME NEW q \in Paths \ {p} PROVE Kept(q)
  BY <1>1, <1>2, <1>4 DEF Others, Kept
<1> QED  BY <1>3, <1>4, OthersKept

LEMMA FinalizeLeave ==
    ASSUME TypeOK, OneUploader, PathsFine, JobsFine, NEW w \in Workers, FinalizeLost(w)
    PROVE  PathsFine'
<1> USE DEF Referenced, rows, remote
<1>1. PICK p \in Paths :
          /\ p = job[w].p /\ intent[p] # "NEW"
          /\ p \notin late =>
                 /\ intent[p] = "GRACE" /\ ~Referenced(p) /\ p \in stored
                 /\ p \notin hanging \cup wire.put \cup wire.remove
                 /\ \A v \in Workers \ {w} : job[v].op \in PathOps => job[v].p # p
  BY FinalizedPath DEF FinalizeLost, MayFinalize
<1>2. Others(w) /\ (job'[w] = Idle \/ (job'[w].op = "clean" /\ job'[w].p = p))
  BY <1>1, FinishJob, BecomeJob DEF FinalizeLost
<1>3. PathFine(p)'
  BY <1>1, <1>2 DEF FinalizeLost, Others, Idle, PathFine, UnusedFine, UploadFine, HangingFine,
     FileFine, GarbageFine, On, PathOps, UploadOps, CleanOps, HasIntent
<1>4. ASSUME NEW q \in Paths \ {p} PROVE Kept(q)
  BY <1>1, <1>2, <1>4 DEF FinalizeLost, Others, Kept, Idle, PathOps, UploadOps, CleanOps
<1> QED  BY <1>3, <1>4, OthersKept

LEMMA UploadPaths ==
    ASSUME TypeOK, OneUploader, PathsFine, JobsFine, NEW w \in Workers, Uploads(w)
    PROVE  PathsFine'
<1>1. CASE FinalizeAvatar(w)
  <2>1. CASE HasIntent(job[w].p)
    <3>1. Save(job[w].p) /\ ~Claimed(job[w].p) /\ job[w].op = "finalize"
      BY <1>1, <2>1 DEF FinalizeAvatar, MayFinalize, Save
    <3> QED  BY <1>1, <3>1, FinalizeSave DEF FinalizeAvatar, remote
  <2>2. CASE ~HasIntent(job[w].p)
    <3>1. \A p \in Paths : Kept(p)
      BY <1>1, <2>2, FinishJob DEF FinalizeAvatar, Kept, Others, Idle, PathOps, UploadOps, CleanOps,
         rows, remote, Referenced
    <3> QED  BY <3>1, AllKept
  <2> QED  BY <2>1, <2>2
<1>2. CASE FinalizeDocument(w)
  <2>1. CASE HasIntent(job[w].p) /\ ~PendingLike(job[w].p)
    <3>1. Save(job[w].p) /\ ~Claimed(job[w].p) /\ job[w].op = "finalize"
      BY <1>2, <2>1, RecordsAssumption DEF FinalizeDocument, MayFinalize, Save
    <3> QED  BY <1>2, <2>1, <3>1, FinalizeSave DEF FinalizeDocument, remote
  <2>2. CASE ~(HasIntent(job[w].p) /\ ~PendingLike(job[w].p))
    BY <1>2, <2>2, FinalizeClean DEF FinalizeDocument, MayFinalize, remote
  <2> QED  BY <2>1, <2>2
<1>3. CASE FinalizeRefused(w)
  BY <1>3, FinalizeClean DEF FinalizeRefused, remote
<1> QED  BY <1>1, <1>2, <1>3, FinalizeLeave, UploadSteps DEF Uploads

\* An intent is claimed for a path that nobody uploads.
LEMMA ClaimPath ==
    ASSUME TypeOK, PathsFine, NEW w \in Workers, NEW p \in Paths, Claim(w, p),
           job[w].op \in PathOps => job[w].p = p,
           p \notin late => p \notin wire.put /\ ~On(p, UploadOps)
    PROVE  PathsFine'
<1> USE DEF Referenced, rows, remote
<1>1. Others(w) /\ job'[w].p = p /\ job'[w].op = IF Referenced(p) THEN "drop" ELSE "remove"
  BY ClaimJob
<1>2. PathFine(p)'
  <2>1. CASE p \in late
    BY <2>1 DEF Claim, HasIntent, PathFine, UnusedFine
  <2>2. CASE p \notin late
    <3>1. ~Referenced(p) /\ HasIntent(p)
      BY <2>2 DEF Claim, HasIntent, PathsFine, PathFine, FileFine
    <3>2. p \notin hanging /\ \A v \in Workers : job[v].op \in {"remove", "drop"} => job[v].p # p
      BY DEF Claim, Claimed
    <3> QED
      BY <1>1, <2>2, <3>1, <3>2 DEF Claim, Others, PathFine, UnusedFine, UploadFine, HangingFine,
         FileFine, GarbageFine, On, PathOps, UploadOps, CleanOps, HasIntent
  <2> QED  BY <2>1, <2>2
<1>3. ASSUME NEW q \in Paths \ {p} PROVE Kept(q)
  BY <1>1, <1>3 DEF Claim, Others, Kept
<1> QED  BY <1>2, <1>3, OthersKept

\* A step about a removal, whatever it does to the object and the intent.
LEMMA RemovalSteps ==
    ASSUME TypeOK, OneUploader, PathsFine, JobsFine, NEW w \in Workers,
           RemoveDone(w) \/ CleanCommit(w) \/ CleanFail(w)
    PROVE  PathsFine'
<1> USE DEF Referenced, rows, remote
<1>1. PICK p \in Paths : p = job[w].p
  BY DEF RemoveDone, CleanCommit, CleanFail, JobsFine, JobFine, PathOps, CleanOps
<1>2. intent[p] # "NEW"
  BY <1>1, DrawnPath DEF RemoveDone, CleanCommit, CleanFail, PathOps, CleanOps
<1>3. p \notin late =>
          /\ ~Referenced(p) /\ p \notin hanging \cup wire.put
          /\ \A v \in Workers : job[v].op \in UploadOps => job[v].p # p
          /\ job[w].op = "drop" => p \notin stored
  BY <1>1, RemovedPath DEF RemoveDone, CleanCommit, CleanFail
<1>4. p \notin late => GarbageFine(p)
  BY DEF PathsFine, PathFine
<1>5. CASE RemoveDone(w)
  <2>1. Others(w) /\ job'[w].op = "drop" /\ job'[w].p = p
    BY <1>1, <1>5, BecomeJob DEF RemoveDone
  <2>2. PathFine(p)'
    BY <1>1, <1>2, <1>3, <1>5, <2>1 DEF RemoveDone, Others, PathFine, UnusedFine, UploadFine,
       HangingFine, FileFine, GarbageFine, On, PathOps, UploadOps, CleanOps, HasIntent
  <2>3. ASSUME NEW q \in Paths \ {p} PROVE Kept(q)
    BY <1>1, <1>5, <2>1, <2>3 DEF RemoveDone, Others, Kept
  <2> QED  BY <2>2, <2>3, OthersKept
<1>6. CASE CleanCommit(w)
  <2>1. Others(w) /\ job'[w] = Idle
    BY <1>6, FinishJob DEF CleanCommit
  <2>2. intent'[p] = "NONE" /\ \A q \in Paths \ {p} : intent'[q] = intent[q]
    BY <1>1, <1>6 DEF CleanCommit, TypeOK
  <2>3. PathFine(p)'
    BY <1>1, <1>3, <1>6, <2>1, <2>2 DEF CleanCommit, Others, Idle, PathFine, UnusedFine, UploadFine,
       HangingFine, FileFine, GarbageFine, On, PathOps, UploadOps, CleanOps, HasIntent
  <2>4. ASSUME NEW q \in Paths \ {p} PROVE Kept(q)
    BY <1>1, <1>6, <2>1, <2>2, <2>4 DEF CleanCommit, Others, Idle, Kept, PathOps, UploadOps, CleanOps
  <2> QED  BY <2>3, <2>4, OthersKept
<1>7. CASE CleanFail(w)
  <2>1. Others(w) /\ job'[w] = Idle
    BY <1>7, FinishJob DEF CleanFail
  <2>2. intent'[p] = "GRACE" /\ \A q \in Paths \ {p} : intent'[q] = intent[q]
    BY <1>1, <1>7 DEF CleanFail, TypeOK
  <2>3. wire'.put = wire.put /\ wire'.remove \subseteq wire.remove \cup {p}
    BY <1>1, <1>7 DEF CleanFail, TypeOK
  <2>4. PathFine(p)'
    BY <1>1, <1>3, <1>4, <1>7, <2>1, <2>2, <2>3 DEF CleanFail, Others, Idle, PathFine, UnusedFine,
       UploadFine, HangingFine, FileFine, GarbageFine, On, PathOps, UploadOps, CleanOps, HasIntent
  <2>5. ASSUME NEW q \in Paths \ {p} PROVE Kept(q)
    BY <1>1, <1>7, <2>1, <2>2, <2>3, <2>5 DEF CleanFail, Others, Idle, Kept, PathOps, UploadOps, CleanOps
  <2> QED  BY <2>4, <2>5, OthersKept
<1> QED  BY <1>5, <1>6, <1>7

LEMMA CleanPaths ==
    ASSUME TypeOK, OneUploader, PathsFine, JobsFine, NEW w \in Workers, Cleans(w)
    PROVE  PathsFine'
<1>1. ASSUME NEW p \in Paths, Recover(w, p) PROVE PathsFine'
  <2>1. p \notin late => p \notin wire.put /\ ~On(p, UploadOps)
    BY <1>1 DEF Recover, PathsFine, PathFine, UploadFine
  <2>2. job[w].op \notin PathOps
    BY <1>1 DEF Recover, Idle, PathOps, UploadOps, CleanOps
  <2> QED  BY <1>1, <2>1, <2>2, ClaimPath DEF Recover
<1>2. CASE CleanTarget(w)
  <2>1. PICK p \in Paths : p = job[w].p
    BY <1>2 DEF CleanTarget, JobsFine, JobFine, PathOps, CleanOps
  <2>2. On(p, CleanOps)
    BY <1>2, <2>1 DEF CleanTarget, On, CleanOps
  <2>3. p \notin late => p \notin wire.put /\ ~On(p, UploadOps)
    BY <2>2 DEF PathsFine, PathFine, UploadFine
  <2> QED  BY <1>2, <2>1, <2>3, ClaimPath DEF CleanTarget
<1>3. CASE CleanNothing(w)
  <2>1. \A p \in Paths : Kept(p)
    BY <1>3, FinishJob DEF CleanNothing, Kept, Others, Idle, PathOps, UploadOps, CleanOps,
       rows, remote, Referenced
  <2> QED  BY <2>1, AllKept
<1> QED  BY <1>1, <1>2, <1>3, RemovalSteps DEF Cleans

LEMMA CacheJobs ==
    ASSUME TypeOK, NEW w \in Workers, Caches(w)
    PROVE  Others(w) /\ job'[w].op \notin PathOps
<1>1. ASSUME NEW d \in Documents, NEW status \in Reviewed, ReviewDocument(w, d, status)
      PROVE  Others(w) /\ job'[w].op = "review"
  <2>1. PICK level \in Verification : level = Derive([document EXCEPT ![d] = status])
    BY DeriveType
  <2>2. [Idle EXCEPT !.op = "review", !.p = d, !.status = status, !.level = level] \in Job
    BY IdleType DEF Idle, Job, Paths, DocumentStatus
  <2> QED  BY <1>1, <2>1, <2>2, BeginJob DEF ReviewDocument, Idle
<1>2. ASSUME NEW b \in Bookings, RateTutor(w, b)
      PROVE  Others(w) /\ job'[w].op = "rate"
  <2>1. PICK s \in SUBSET Bookings : s = reviewed \cup {b}
    BY DEF TypeOK
  <2>2. [Idle EXCEPT !.op = "rate", !.b = b, !.rated = s] \in Job
    BY IdleType DEF Idle, Job
  <2> QED  BY <1>2, <2>1, <2>2, BeginJob DEF RateTutor, Idle
<1>3. ASSUME Reconcile(w) PROVE Others(w) /\ job'[w].op = "rate"
  <2>1. [Idle EXCEPT !.op = "rate", !.rated = reviewed] \in Job
    BY IdleType DEF Idle, Job, TypeOK
  <2> QED  BY <1>3, <2>1, BeginJob DEF Reconcile, Idle
<1>4. ASSUME ReviewCommit(w) \/ RateCommit(w) PROVE Others(w) /\ job'[w].op = "idle"
  BY <1>4, FinishJob DEF ReviewCommit, RateCommit, Idle
<1> QED
  BY <1>1, <1>2, <1>3, <1>4 DEF Caches, PathOps, UploadOps, CleanOps

\* Reviews and ratings do not touch files.
LEMMA CachePaths ==
    ASSUME TypeOK, PathsFine, JobsFine, NEW w \in Workers, Caches(w)
    PROVE  PathsFine'
<1>1. /\ Others(w) /\ job'[w].op \notin PathOps
      /\ UNCHANGED <<avatar, intent, stored, wire, hanging, late>>
  BY CacheJobs DEF Caches, ReviewDocument, RateTutor, Reconcile, ReviewCommit, RateCommit,
     rows, remote
<1>2. \A d \in Documents : document'[d] # "NONE" <=> document[d] # "NONE"
  <2>1. CASE ReviewCommit(w)
    BY <2>1 DEF ReviewCommit, JobsFine, JobFine, Reviewed, TypeOK
  <2>2. CASE ~ReviewCommit(w)
    BY <2>2 DEF Caches, ReviewDocument, RateTutor, Reconcile, RateCommit, rows
  <2> QED  BY <2>1, <2>2
<1>3. ASSUME NEW p \in Paths PROVE Kept(p)
  BY <1>1, <1>2 DEF Kept, Others, Referenced
<1> QED  BY <1>3, AllKept

LEMMA ResolvePaths ==
    ASSUME TypeOK, PathsFine, NEW p \in Paths, Resolve(p)
    PROVE  PathsFine'
<1> USE DEF Resolve, remote
<1>1. intent[p] # "NEW"
  BY DEF PathsFine, PathFine, UnusedFine
<1>2. hanging' \subseteq hanging /\ p \notin hanging'
  OBVIOUS
<1>3. CASE Save(p)
  <2>1. GivenUp
    BY DEF GivenUp
  <2>2. p \notin late =>
            /\ p \in stored /\ p \notin wire.put \cup wire.remove /\ ~Referenced(p)
            /\ \A v \in Workers :
                   job'[v].op \in {"put", "finalize", "remove", "drop"} => job'[v].p # p
    BY DEF PathsFine, PathFine, UploadFine, HangingFine, On, UploadOps
  <2> QED  BY <1>1, <1>2, <1>3, <2>1, <2>2, SavePaths
<1>4. CASE UNCHANGED <<rows, intent>>
  <2>1. \A q \in Paths : Kept(q)
    BY <1>2, <1>4 DEF Kept, rows, Referenced
  <2> QED  BY <2>1, AllKept
<1> QED  BY <1>3, <1>4

LEMMA ArrivePaths ==
    ASSUME TypeOK, PathsFine, NEW p \in Paths, Arrive(p)
    PROVE  PathsFine'
<1> USE DEF Referenced, rows
<1>1. PathFine(p) /\ UNCHANGED <<avatar, document, intent, hanging, late, job>>
  BY DEF PathsFine, Arrive
<1>2. CASE p \in wire.put /\ stored' = stored \cup {p} /\ wire' = [wire EXCEPT !.put = @ \ {p}]
  <2>1. wire'.put = wire.put \ {p} /\ wire'.remove = wire.remove
    BY <1>2 DEF TypeOK
  <2>2. PathFine(p)'
    BY <1>1, <1>2, <2>1 DEF PathFine, UnusedFine, UploadFine, HangingFine, FileFine, GarbageFine,
       On, PathOps, UploadOps, CleanOps, HasIntent
  <2>3. ASSUME NEW q \in Paths \ {p} PROVE Kept(q)
    BY <1>1, <1>2, <2>1, <2>3 DEF Kept
  <2> QED  BY <2>2, <2>3, OthersKept
<1>3. CASE p \in wire.remove /\ stored' = stored \ {p} /\ wire' = [wire EXCEPT !.remove = @ \ {p}]
  <2>1. wire'.put = wire.put /\ wire'.remove = wire.remove \ {p}
    BY <1>3 DEF TypeOK
  <2>2. PathFine(p)'
    BY <1>1, <1>3, <2>1 DEF PathFine, UnusedFine, UploadFine, HangingFine, FileFine, GarbageFine,
       On, PathOps, UploadOps, CleanOps, HasIntent
  <2>3. ASSUME NEW q \in Paths \ {p} PROVE Kept(q)
    BY <1>1, <1>3, <2>1, <2>3 DEF Kept
  <2> QED  BY <2>2, <2>3, OthersKept
<1> QED  BY <1>2, <1>3 DEF Arrive

LEMMA ComeDuePaths ==
    ASSUME TypeOK, PathsFine, NEW p \in Paths, ComeDue(p)
    PROVE  PathsFine'
<1> USE DEF Referenced, rows, remote, ComeDue
<1>1. PathFine(p) /\ intent[p] = "GRACE" /\ intent'[p] = "DUE"
  BY DEF PathsFine, TypeOK
<1>2. PathFine(p)'
  <2>1. CASE p \in late'
    BY <1>1, <2>1 DEF PathFine, UnusedFine
  <2>2. CASE p \notin late'
    BY <1>1, <2>2 DEF Uploading, PathFine, UnusedFine, UploadFine, HangingFine, FileFine,
       GarbageFine, On, UploadOps, CleanOps, HasIntent
  <2> QED  BY <2>1, <2>2
<1>3. ASSUME NEW q \in Paths \ {p} PROVE Kept(q)
  BY <1>3 DEF Kept, TypeOK
<1> QED  BY <1>2, <1>3, OthersKept

LEMMA RemoveAvatarPaths ==
    ASSUME TypeOK, PathsFine, RemoveAvatar
    PROVE  PathsFine'
<1> USE DEF RemoveAvatar, remote
<1>1. PICK p \in Avatars : p = avatar
  BY DEF TypeOK
<1>2. p \in Paths /\ p \notin Documents /\ avatar' # p /\ intent'[p] = "DUE" /\ GivenUp
  BY <1>1, RecordsAssumption DEF Paths, TypeOK, GivenUp
<1>3. PathFine(p)'
  BY <1>1, <1>2, FormerAvatar
<1>4. ASSUME NEW q \in Paths \ {p} PROVE Kept(q)
  BY <1>1, <1>4, RecordsAssumption DEF Kept, TypeOK, Referenced
<1> QED  BY <1>2, <1>3, <1>4, OthersKept

LEMMA NextPaths ==
    ASSUME TypeOK, OneUploader, PathsFine, JobsFine, [Next]_vars
    PROVE  PathsFine'
<1>1. ASSUME NEW w \in Workers, Crash(w) PROVE PathsFine'
  <2>1. \A p \in Paths : Kept(p)
    BY <1>1, FinishJob DEF Crash, Kept, Others, Idle, PathOps, UploadOps, CleanOps,
       rows, remote, Referenced
  <2> QED  BY <2>1, AllKept
<1>2. CASE UNCHANGED vars
  <2>1. \A p \in Paths : Kept(p)
    BY <1>2 DEF vars, Kept, Referenced
  <2> QED  BY <2>1, AllKept
<1> QED
  BY <1>1, <1>2, UploadPaths, CleanPaths, CachePaths, ResolvePaths, ArrivePaths, ComeDuePaths,
     RemoveAvatarPaths DEF Next

-----------------------------------------------------------------------------
(* Uploaders *)

\* A path is drawn for one upload.
LEMMA NextUploader ==
    ASSUME TypeOK, OneUploader, PathsFine, JobsFine, [Next]_vars
    PROVE  OneUploader'
<1>1. ASSUME NEW w \in Workers, NEW p \in Paths, UploadBegin(w, p) PROVE OneUploader'
  <2>1. [Idle EXCEPT !.op = "put", !.p = p] \in Job
    BY <1>1, IdleType DEF Idle, Job
  <2>2. Others(w) /\ job'[w].p = p
    BY <1>1, <2>1, BeginJob DEF UploadBegin, Idle
  <2>3. \A v \in Workers : job[v].op \in UploadOps => job[v].p # p
    BY <1>1 DEF UploadBegin, PathsFine, PathFine, UnusedFine, On, PathOps
  <2> QED  BY <2>2, <2>3 DEF Others, OneUploader
<1>2. ASSUME \A v \in Workers : job'[v].op \in UploadOps =>
                                    job[v].op \in UploadOps /\ job[v].p = job'[v].p
      PROVE  OneUploader'
  BY <1>2 DEF OneUploader
<1>3. ASSUME NEW w \in Workers, Uploads(w) PROVE OneUploader'
  <2>1. ASSUME ~\E p \in Paths : UploadBegin(w, p)
        PROVE  \A v \in Workers : job'[v].op \in UploadOps =>
                                      job[v].op \in UploadOps /\ job[v].p = job'[v].p
    <3>1. Others(w) /\ job[w].op \in UploadOps /\ (job'[w] = Idle \/ job'[w].p = job[w].p)
      BY <1>3, <2>1, BecomeJob, FinishJob DEF Uploads, UploadDone, UploadLost, FinalizeAvatar,
         FinalizeDocument, FinalizeRefused, FinalizeLost, MayFinalize, UploadOps
    <3> QED  BY <3>1 DEF Others, Idle, UploadOps
  <2> QED  BY <1>1, <1>2, <2>1
<1>4. ASSUME NEW w \in Workers, Cleans(w) PROVE OneUploader'
  <2>1. ASSUME NEW p \in Paths, Claim(w, p) PROVE Others(w) /\ job'[w].op \notin UploadOps
    BY <2>1, ClaimJob DEF UploadOps
  <2>2. ASSUME CleanTarget(w) PROVE Others(w) /\ job'[w].op \notin UploadOps
    BY <2>1, <2>2 DEF CleanTarget, JobsFine, JobFine, PathOps, CleanOps
  <2>3. Others(w) /\ job'[w].op \notin UploadOps
    BY <1>4, <2>1, <2>2, BecomeJob, FinishJob DEF Cleans, Recover, CleanNothing, RemoveDone,
       CleanCommit, CleanFail, Idle, UploadOps
  <2> QED  BY <1>2, <2>3 DEF Others
<1>5. ASSUME NEW w \in Workers, Caches(w) PROVE OneUploader'
  BY <1>2, <1>5, CacheJobs DEF Others, PathOps
<1>6. ASSUME NEW w \in Workers, Crash(w) PROVE OneUploader'
  BY <1>2, <1>6, FinishJob DEF Crash, Others, Idle, UploadOps
<1>7. ASSUME UNCHANGED job PROVE OneUploader'
  BY <1>2, <1>7
<1> QED
  BY <1>3, <1>4, <1>5, <1>6, <1>7 DEF Next, Resolve, Arrive, ComeDue, RemoveAvatar, vars

-----------------------------------------------------------------------------
(* Rows and the workers that hold them *)

\* The jobs of this step are old ones, or do not hold the tutor's row.
Quiet ==
    \A v \in Workers :
        \/ job'[v] = job[v]
        \/ job'[v].op \notin {"review", "rate"} /\ (job'[v].op \in PathOps => job'[v].p \in Paths)

LEMMA RowsKept ==
    ASSUME RowsFine, UNCHANGED <<document, profile, reviewed>>, Quiet,
           hanging' \cap Documents \subseteq hanging
    PROVE  RowsFine'
<1> USE DEF RowsFine
<1>1. JobsFine'
  <2>1. ASSUME NEW v \in Workers PROVE JobFine(v)'
    <3>1. CASE job'[v] = job[v]
      BY <3>1 DEF JobsFine, JobFine, HasLock, Derive
    <3>2. CASE job'[v] # job[v]
      BY <3>2 DEF Quiet, JobFine, HasLock
    <3> QED  BY <3>1, <3>2
  <2> QED  BY <2>1 DEF JobsFine
<1>2. OneLock'
  BY DEF OneLock, HasLock, Quiet, PendingLike
<1>3. OnePendingDocument'
  BY DEF OnePendingDocument
<1>4. CachesAreCurrent'
  BY DEF CachesAreCurrent, Derive
<1> QED  BY <1>1, <1>2, <1>3, <1>4

\* Inserting a document that has no rival, with the tutor's row locked.
LEMMA RowsSaved ==
    ASSUME TypeOK, RowsFine, NEW d \in Documents, SaveDocument(d), ~PendingLike(d), Quiet,
           \A v \in Workers : ~HasLock(v), hanging' \cap Documents = {}
    PROVE  RowsFine'
<1>1. document' = [document EXCEPT ![d] = "PENDING"]
  BY DEF SaveDocument
<1>2. JobsFine'
  BY DEF RowsFine, JobsFine, JobFine, HasLock, Quiet
<1>3. OneLock'
  BY DEF OneLock, HasLock, Quiet
<1>4. OnePendingDocument'
  BY <1>1 DEF RowsFine, OnePendingDocument, PendingLike, TypeOK
<1>5. CachesAreCurrent'
  <2>1. PICK level : level = Derive(document')
    OBVIOUS
  <2>2. profile'.verification = level /\ profile'.rated = profile.rated
    BY <2>1 DEF SaveDocument, TypeOK
  <2> QED  BY <2>1, <2>2 DEF SaveDocument, RowsFine, CachesAreCurrent
<1> QED  BY <1>2, <1>3, <1>4, <1>5 DEF RowsFine

LEMMA UploadQuiet ==
    ASSUME TypeOK, JobsFine, NEW w \in Workers, Uploads(w)
    PROVE  Quiet
<1>1. ASSUME NEW p \in Paths, UploadBegin(w, p) PROVE Quiet
  <2>1. [Idle EXCEPT !.op = "put", !.p = p] \in Job
    BY <1>1, IdleType DEF Idle, Job
  <2>2. Others(w) /\ job'[w].op = "put" /\ job'[w].p = p
    BY <1>1, <2>1, BeginJob DEF UploadBegin, Idle
  <2> QED  BY <2>2 DEF Others, Quiet
<1>2. CASE ~\E p \in Paths : UploadBegin(w, p)
  <2>1. job[w].op \in UploadOps
    BY <1>2 DEF Uploads, UploadDone, UploadLost, FinalizeAvatar,
       FinalizeDocument, FinalizeRefused, FinalizeLost, MayFinalize, UploadOps
  <2>2. Others(w) /\ (job'[w] = Idle \/ (job'[w].op \in {"finalize", "clean"} /\ job'[w].p = job[w].p))
    BY <1>2, BecomeJob, FinishJob DEF Uploads, UploadDone, UploadLost, FinalizeAvatar,
       FinalizeDocument, FinalizeRefused, FinalizeLost
  <2>3. job[w].p \in Paths
    BY <2>1 DEF JobsFine, JobFine, PathOps
  <2> QED  BY <2>2, <2>3 DEF Others, Idle, Quiet, PathOps, UploadOps, CleanOps
<1> QED  BY <1>1, <1>2

LEMMA CleanQuiet ==
    ASSUME TypeOK, JobsFine, NEW w \in Workers, Cleans(w)
    PROVE  Quiet
<1>1. ASSUME NEW p \in Paths, Claim(w, p) PROVE Quiet
  BY <1>1, ClaimJob DEF Others, Quiet
<1>2. CASE CleanTarget(w)
  BY <1>1, <1>2 DEF CleanTarget, JobsFine, JobFine, PathOps, CleanOps
<1>3. CASE RemoveDone(w)
  <2>1. Others(w) /\ job'[w].op = "drop" /\ job'[w].p = job[w].p
    BY <1>3, BecomeJob DEF RemoveDone
  <2>2. job[w].p \in Paths
    BY <1>3 DEF RemoveDone, JobsFine, JobFine, PathOps, CleanOps
  <2> QED  BY <2>1, <2>2 DEF Others, Quiet
<1>4. ASSUME Finish(w) PROVE Quiet
  BY <1>4, FinishJob DEF Others, Quiet, Idle, PathOps, UploadOps, CleanOps
<1> QED
  BY <1>1, <1>2, <1>3, <1>4 DEF Cleans, Recover, CleanNothing, CleanCommit, CleanFail

LEMMA UploadRows ==
    ASSUME TypeOK, RowsFine, NEW w \in Workers, Uploads(w)
    PROVE  RowsFine'
<1>1. Quiet
  BY UploadQuiet DEF RowsFine
<1>2. CASE FinalizeDocument(w) /\ HasIntent(job[w].p) /\ ~PendingLike(job[w].p)
  <2>1. PICK d \in Documents : d = job[w].p
    BY <1>2 DEF FinalizeDocument
  <2>2. d \notin Avatars
    BY RecordsAssumption
  <2>3. SaveDocument(d) /\ ~PendingLike(d)
    BY <1>2, <2>1 DEF FinalizeDocument
  <2>4. (\A v \in Workers : ~HasLock(v)) /\ hanging' \cap Documents = {}
    BY <1>2, <2>1, <2>2 DEF FinalizeDocument, MayFinalize, TutorFree, HasLock
  <2> QED  BY <1>1, <2>3, <2>4, RowsSaved
<1>3. CASE FinalizeLost(w)
  <2>1. PICK p : p = job[w].p
    OBVIOUS
  <2>2. hanging' = hanging \cup {p} /\ UNCHANGED <<document, profile, reviewed>>
    BY <1>3, <2>1 DEF FinalizeLost, rows
  <2>3. CASE p \notin Documents
    BY <1>1, <2>2, <2>3, RowsKept
  <2>4. CASE p \in Documents
    <3>1. p \notin Avatars
      BY <2>4, RecordsAssumption
    <3>2. (\A v \in Workers : ~HasLock(v)) /\ hanging \cap Documents = {} /\ ~PendingLike(p)
      BY <1>3, <2>1, <2>4, <3>1 DEF FinalizeLost, MayFinalize, TutorFree, HasLock
    <3>3. hanging' \cap Documents = {p}
      BY <2>2, <2>4, <3>2
    <3>4. \A v \in Workers : ~HasLock(v)'
      BY <1>1, <3>2 DEF HasLock, Quiet
    <3>5. JobsFine'
      BY <1>1, <3>4 DEF RowsFine, JobsFine, JobFine, HasLock, Quiet
    <3>6. OneLock'
      BY <2>2, <3>2, <3>3, <3>4 DEF OneLock, PendingLike
    <3>7. OnePendingDocument' /\ CachesAreCurrent'
      BY <2>2 DEF RowsFine, OnePendingDocument, CachesAreCurrent, Derive
    <3> QED  BY <3>5, <3>6, <3>7 DEF RowsFine
  <2> QED  BY <2>3, <2>4
<1>4. CASE /\ ~FinalizeLost(w)
           /\ ~(FinalizeDocument(w) /\ HasIntent(job[w].p) /\ ~PendingLike(job[w].p))
  <2>1. UNCHANGED <<document, profile, reviewed, hanging>>
    BY <1>4 DEF Uploads, UploadBegin, UploadDone, UploadLost, FinalizeAvatar, SaveAvatar,
       FinalizeDocument, FinalizeRefused, rows
  <2> QED  BY <1>1, <2>1, RowsKept
<1> QED  BY <1>2, <1>3, <1>4

LEMMA CacheRows ==
    ASSUME TypeOK, RowsFine, NEW w \in Workers, Caches(w)
    PROVE  RowsFine'
<1> USE DEF RowsFine
\* Taking the tutor's row.
<1>1. ASSUME TutorFree, UNCHANGED <<rows, hanging>>, Others(w), job[w] = Idle, JobFine(w)'
      PROVE  RowsFine'
  <2>1. hanging' \cap Documents = {} /\ \A v \in Workers \ {w} : ~HasLock(v)'
    BY <1>1 DEF TutorFree, HasLock, Others
  <2>2. ASSUME NEW v \in Workers \ {w} PROVE JobFine(v)'
    BY <1>1, <2>1, <2>2 DEF JobsFine, JobFine, HasLock, Others, rows, Derive
  <2>3. JobsFine'
    BY <1>1, <2>2 DEF JobsFine
  <2>4. OneLock'
    BY <2>1 DEF OneLock
  <2>5. OnePendingDocument' /\ CachesAreCurrent'
    BY <1>1 DEF rows, OnePendingDocument, CachesAreCurrent, Derive
  <2> QED  BY <2>3, <2>4, <2>5
\* Releasing it.
<1>2. ASSUME HasLock(w), Finish(w), UNCHANGED hanging
      PROVE  JobsFine' /\ OneLock' /\ hanging \cap Documents = {}
  <2>1. Others(w) /\ job'[w] = Idle /\ hanging \cap Documents = {}
    BY <1>2, FinishJob DEF JobsFine, JobFine
  <2>2. \A v \in Workers : ~HasLock(v)'
    BY <1>2, <2>1 DEF HasLock, OneLock, Others, Idle
  <2>3. ASSUME NEW v \in Workers, job'[v].op \in PathOps PROVE job'[v].p \in Paths
    <3>1. job'[v] = job[v]
      BY <2>1, <2>3 DEF Others, Idle, PathOps, UploadOps, CleanOps
    <3> QED  BY <2>3, <3>1 DEF JobsFine, JobFine
  <2>4. JobsFine'
    BY <2>2, <2>3 DEF JobsFine, JobFine, HasLock
  <2> QED  BY <1>2, <2>1, <2>2, <2>4 DEF OneLock
<1>3. ASSUME NEW d \in Documents, NEW status \in Reviewed, ReviewDocument(w, d, status)
      PROVE  RowsFine'
  <2>1. PICK level \in Verification : level = Derive([document EXCEPT ![d] = status])
    BY DeriveType
  <2>2. [Idle EXCEPT !.op = "review", !.p = d, !.status = status, !.level = level] \in Job
    BY IdleType DEF Idle, Job, Paths, DocumentStatus
  <2>3. /\ Others(w) /\ job[w] = Idle
        /\ job'[w].op = "review" /\ job'[w].p = d /\ job'[w].status = status /\ job'[w].level = level
    BY <1>3, <2>1, <2>2, BeginJob DEF ReviewDocument, Idle
  <2>4. JobFine(w)'
    BY <1>3, <2>1, <2>3 DEF ReviewDocument, TutorFree, rows, JobFine, HasLock, PathOps, UploadOps, CleanOps
  <2> QED  BY <1>1, <1>3, <2>3, <2>4 DEF ReviewDocument
<1>4. ASSUME NEW b \in Bookings, RateTutor(w, b) PROVE RowsFine'
  <2>1. PICK s \in SUBSET Bookings : s = reviewed \cup {b}
    BY DEF TypeOK
  <2>2. [Idle EXCEPT !.op = "rate", !.b = b, !.rated = s] \in Job
    BY IdleType DEF Idle, Job
  <2>3. /\ Others(w) /\ job[w] = Idle
        /\ job'[w] = [Idle EXCEPT !.op = "rate", !.b = b, !.rated = s]
    BY <1>4, <2>1, <2>2, BeginJob DEF RateTutor
  <2>4. job'[w].op = "rate" /\ job'[w].b = b /\ job'[w].rated = s
    BY <2>3 DEF Idle
  <2>5. JobFine(w)'
    BY <1>4, <2>1, <2>4, RecordsAssumption DEF RateTutor, TutorFree, rows, JobFine, HasLock,
       PathOps, UploadOps, CleanOps
  <2> QED  BY <1>1, <1>4, <2>3, <2>5 DEF RateTutor
<1>5. CASE Reconcile(w)
  <2>1. [Idle EXCEPT !.op = "rate", !.rated = reviewed] \in Job
    BY IdleType DEF Idle, Job, TypeOK
  <2>2. Others(w) /\ job[w] = Idle /\ job'[w].op = "rate" /\ job'[w].b = Nil /\ job'[w].rated = reviewed
    BY <1>5, <2>1, BeginJob DEF Reconcile, Idle
  <2>3. JobFine(w)'
    BY <1>5, <2>2 DEF Reconcile, TutorFree, rows, JobFine, HasLock, PathOps, UploadOps, CleanOps
  <2> QED  BY <1>1, <1>5, <2>2, <2>3 DEF Reconcile
<1>6. CASE ReviewCommit(w)
  <2>1. PICK d \in Documents : d = job[w].p
    BY <1>6 DEF ReviewCommit, JobsFine, JobFine
  <2>2. PICK status \in Reviewed : status = job[w].status
    BY <1>6 DEF ReviewCommit, JobsFine, JobFine
  <2>3. PICK level \in Verification : level = job[w].level
    BY DEF TypeOK, Job
  <2>4. /\ d = job[w].p /\ status = job[w].status /\ level = job[w].level
        /\ level = Derive([document EXCEPT ![d] = status])
    BY <1>6, <2>1, <2>2, <2>3 DEF ReviewCommit, JobsFine, JobFine
  <2>5. /\ document' = [document EXCEPT ![d] = status] /\ profile'.verification = level
        /\ profile'.rated = profile.rated /\ reviewed' = reviewed
    BY <1>6, <2>4 DEF ReviewCommit, TypeOK
  <2>6. JobsFine' /\ OneLock'
    BY <1>2, <1>6 DEF ReviewCommit, HasLock
  <2>7. OnePendingDocument'
    BY <2>4, <2>5 DEF OnePendingDocument, TypeOK, Reviewed
  <2>8. CachesAreCurrent'
    BY <2>4, <2>5 DEF CachesAreCurrent
  <2> QED  BY <2>6, <2>7, <2>8
<1>7. CASE RateCommit(w)
  <2>1. job[w].rated = reviewed'
    BY <1>7 DEF RateCommit, JobsFine, JobFine
  <2>2. profile'.rated = reviewed' /\ profile'.verification = profile.verification /\ document' = document
    BY <1>7, <2>1 DEF RateCommit, TypeOK
  <2>3. JobsFine' /\ OneLock'
    BY <1>2, <1>7 DEF RateCommit, HasLock
  <2>4. OnePendingDocument' /\ CachesAreCurrent'
    BY <2>2 DEF OnePendingDocument, CachesAreCurrent, Derive
  <2> QED  BY <2>3, <2>4
<1> QED  BY <1>3, <1>4, <1>5, <1>6, <1>7 DEF Caches

LEMMA NextRows ==
    ASSUME TypeOK, RowsFine, [Next]_vars
    PROVE  RowsFine'
<1>1. ASSUME NEW w \in Workers, Cleans(w) PROVE RowsFine'
  <2>1. Quiet
    BY <1>1, CleanQuiet DEF RowsFine
  <2>2. UNCHANGED <<document, profile, reviewed, hanging>>
    BY <1>1 DEF Cleans, Recover, CleanTarget, Claim, CleanNothing, RemoveDone, CleanCommit,
       CleanFail, rows
  <2> QED  BY <2>1, <2>2, RowsKept
<1>2. ASSUME NEW w \in Workers, Crash(w) PROVE RowsFine'
  <2>1. Quiet
    BY <1>2, FinishJob DEF Crash, Quiet, Others, Idle, PathOps, UploadOps, CleanOps
  <2> QED  BY <1>2, <2>1, RowsKept DEF Crash, rows
<1>3. ASSUME NEW p \in Paths, Resolve(p) PROVE RowsFine'
  <2>1. Quiet /\ hanging' \subseteq hanging
    BY <1>3 DEF Resolve, Quiet
  <2>2. CASE SaveDocument(p) /\ p \in Documents
    <3>1. ~PendingLike(p) /\ hanging' \cap Documents = {}
      BY <1>3, <2>2 DEF Resolve, RowsFine, OneLock
    <3>2. \A v \in Workers : ~HasLock(v)
      BY <1>3, <2>2 DEF Resolve, RowsFine, JobsFine, JobFine
    <3> QED  BY <2>1, <2>2, <3>1, <3>2, RowsSaved
  <2>3. CASE ~(SaveDocument(p) /\ p \in Documents)
    <3>1. UNCHANGED <<document, profile, reviewed>>
      BY <1>3, <2>3 DEF Resolve, Save, SaveAvatar, rows, Paths
    <3> QED  BY <2>1, <3>1, RowsKept
  <2> QED  BY <2>2, <2>3
<1>4. CASE UNCHANGED <<document, profile, reviewed, hanging, job>>
  <2>1. Quiet
    BY <1>4 DEF Quiet
  <2> QED  BY <1>4, <2>1, RowsKept
<1>5. CASE (\E p \in Paths : Arrive(p) \/ ComeDue(p)) \/ RemoveAvatar \/ UNCHANGED vars
  BY <1>4, <1>5 DEF Arrive, ComeDue, RemoveAvatar, rows, vars
<1> QED  BY <1>1, <1>2, <1>3, <1>5, UploadRows, CacheRows DEF Next

-----------------------------------------------------------------------------
(* Theorems *)

LEMMA InitRecords == Init => RecordsInv
<1> SUFFICES ASSUME Init PROVE RecordsInv
  OBVIOUS
<1> USE DEF Init
<1>1. TypeOK
  BY InitType
<1>2. OneUploader
  BY DEF OneUploader, Idle, UploadOps
<1>3. PathsFine
  BY RecordsAssumption DEF PathsFine, PathFine, UnusedFine, UploadFine, HangingFine, FileFine,
     GarbageFine, On, Idle, PathOps, UploadOps, CleanOps, Referenced, HasIntent, Paths
<1>4. JobsFine
  BY DEF JobsFine, JobFine, HasLock, Idle, PathOps, UploadOps, CleanOps
<1>5. OneLock
  BY DEF OneLock, HasLock, Idle
<1>6. OnePendingDocument /\ CachesAreCurrent
  BY DEF OnePendingDocument, CachesAreCurrent, Derive
<1> QED  BY <1>1, <1>2, <1>3, <1>4, <1>5, <1>6 DEF RecordsInv, RowsFine

LEMMA NextRecords == RecordsInv /\ [Next]_vars => RecordsInv'
BY NextType, NextUploader, NextPaths, NextRows DEF RecordsInv, RowsFine

LEMMA RecordsAlways == Spec => []RecordsInv
BY InitRecords, NextRecords, PTL DEF Spec

\* All variables keep their types, above all the jobs and the requests that
\* are still on their way to storage.
THEOREM RecordsTypes == Spec => []TypeOK
<1>1. RecordsInv => TypeOK
  BY DEF RecordsInv
<1> QED  BY <1>1, RecordsAlways, PTL

\* A file that a row refers to is in storage, unless its upload came due while
\* it was under way (storage-cleanup.service.ts, cleanup).
THEOREM NoFileMissing == Spec => []NoMissingFile
<1>1. RecordsInv => NoMissingFile
  BY DEF RecordsInv, PathsFine, PathFine, FileFine, NoMissingFile
<1> QED  BY <1>1, RecordsAlways, PTL

\* A stored file that no row refers to has an intent, unless its upload came
\* due while it was under way (upload of both services).
THEOREM NothingIsForgotten == Spec => []NothingForgotten
<1>1. RecordsInv => NothingForgotten
  BY DEF RecordsInv, TypeOK, PathsFine, PathFine, GarbageFine, NothingForgotten
<1> QED  BY <1>1, RecordsAlways, PTL

\* One document of a type is in review at most (qualification-documents.service.ts,
\* upload, and the index over pending documents).
THEOREM OnePendingAlways == Spec => []OnePendingDocument
<1>1. RecordsInv => OnePendingDocument
  BY DEF RecordsInv, RowsFine
<1> QED  BY <1>1, RecordsAlways, PTL

\* The caches on the profile are what the committed documents and reviews give
\* (updateTutorVerification; refreshLockedTutorReviewRating).
THEOREM CachesStayCurrent == Spec => []CachesAreCurrent
<1>1. RecordsInv => CachesAreCurrent
  BY DEF RecordsInv, RowsFine
<1> QED  BY <1>1, RecordsAlways, PTL

=============================================================================
