---------------------------- MODULE ProfileUpload ----------------------------
(***************************************************************************)
(* The profile-photo upload pipeline: the profile_uploads rows in          *)
(* PostgreSQL, the staging and final objects in R2, concurrent             *)
(* finalizeUpload calls in the API processes, the cleanup jobs of the      *)
(* maintenance worker, replaceProfile, and the upload part of              *)
(* anonymizeDeletedAccount.                                                *)
(*                                                                         *)
(* One action is one database statement or transaction, or one object      *)
(* store call: the points between which the awaits of the code let other   *)
(* requests and the worker run.  `now' is read once per request (or once   *)
(* per maintenance cycle) and used, possibly stale, in every statement.    *)
(***************************************************************************)
EXTENDS Integers, Sequences, FiniteSets

CONSTANTS
    Users,            \* account ids
    Uploads,          \* upload ids (randomUUID)
    Owner,            \* Owner[u]: the account an upload id is created for
    Images,           \* contents that pass validation and decoding
    Garbage,          \* a stored content that fails validation or decoding
    LegacyPhotos,     \* photo rows older than uploads (uploadId IS NULL)
    Finalizers,       \* concurrent finalizeUpload requests
    None,             \* SQL NULL / no object
    UploadTtl,        \* UPLOAD_URL_TTL_MS
    FinalizeLease,    \* FINALIZE_LEASE_MS
    CleanupLease,     \* CLEANUP_LEASE_MS
    RetryDelays,      \* 30 s * 2^(n-1) up to the 1 h cap, as a sequence
    MaxActive,        \* MAX_ACTIVE_UPLOADS_PER_USER
    MaxRecent,        \* MAX_UPLOAD_CREATES_PER_WINDOW
    CreateWindow,     \* UPLOAD_CREATE_WINDOW_MS
    MaxPhotos,        \* PROFILE_PHOTO_MAX_COUNT
    Grace,            \* DELETION_GRACE_DAYS
    BatchLimit,       \* rows per cleanup batch
    MaxLag,           \* bound: how old a captured `now' may be when it is used
    MaxTime,          \* bound: no request starts after this time
    MaxFaults,        \* bound: failed object deletions and lost cleanup jobs
    MaxJobs           \* bound: cleanup jobs in flight

ASSUME ConstantsOK ==
    /\ Owner \in [Uploads -> Users]
    /\ None \notin Images
    /\ Garbage \notin Images /\ Garbage # None
    /\ Uploads \cap LegacyPhotos = {}
    /\ MaxLag \in Nat /\ MaxTime \in Nat /\ MaxFaults \in Nat /\ MaxJobs \in Nat

ASSUME TimesOK ==
    /\ None \notin Int
    /\ UploadTtl \in Nat \ {0} /\ FinalizeLease \in Nat \ {0}
    /\ CleanupLease \in Nat \ {0} /\ CreateWindow \in Nat /\ Grace \in Nat
    /\ RetryDelays \in Seq(Nat) /\ RetryDelays # << >>

VARIABLES
    clock,      \* wall clock, shared by all processes
    row,        \* profile_uploads
    staging,    \* staging objects in R2, by upload id
    finals,     \* final objects in R2: the key is upload id and content hash
    photos,     \* user_profile_photos: what each account's profile shows
    hidden,     \* users.hiddenAt; deletion is due Grace later
    deleted,    \* accounts with users.deletedAt set
    fin,        \* local state of the finalizeUpload requests
    jobs,       \* cleanup jobs in flight in the maintenance worker
    faults,     \* faults injected so far (bounded by MaxFaults)
    late,       \* history: final objects whose last PUT outlived its lease
    restaged    \* history: staging objects put after their row was settled

hist == <<late, restaged>>
vars == <<clock, row, staging, finals, photos, hidden, deleted, fin, jobs, faults, hist>>

Open == {"pending", "processing"}
Statuses == Open \cup {"verified", "failed"}
Time == Int \cup {None}

RowType ==
    [status : Statuses \cup {"absent"}, expiresAt : Int,
     procLease : Time, cleanLease : Time, finalKey : Images \cup {None},
     pendingDel : BOOLEAN, finalDel : BOOLEAN, stagingDel : BOOLEAN, attempts : Nat]

Idle == [pc |-> "idle", u |-> None, now |-> 0, lease |-> 0, key |-> None]

FinType ==
    {Idle} \cup
    [pc : {"claim", "read", "fail", "release", "prepare", "put",
           "verify", "unstage", "unstaged"},
     u : Uploads, now : Int, lease : Int, key : Images \cup {None}]

\* todo: the deletion is in flight; ok, err: how it ended.
JobType ==
    [u : Uploads, now : Int, lease : Int, attempts : Nat \ {0},
     key : Images \cup {None}, stagingReq : BOOLEAN, finalReq : BOOLEAN,
     stagingRes : {"todo", "ok", "err"}, finalRes : {"todo", "ok", "err"}]

\* The row, request and job state have the types of the schema and the locals.
TypeOK ==
    /\ clock \in Nat
    /\ row \in [Uploads -> RowType]
    /\ staging \in [Uploads -> Images \cup {Garbage, None}]
    /\ finals \subseteq Uploads \X Images
    /\ photos \in [Users -> SUBSET (Uploads \cup LegacyPhotos)]
    /\ hidden \in [Users -> Time]
    /\ deleted \subseteq Users
    /\ fin \in [Finalizers -> FinType]
    /\ jobs \subseteq JobType
    /\ faults \in Nat
    /\ late \subseteq Uploads \X Images
    /\ restaged \subseteq Uploads

Absent ==
    [status |-> "absent", expiresAt |-> 0, procLease |-> None, cleanLease |-> None,
     finalKey |-> None, pendingDel |-> FALSE, finalDel |-> FALSE,
     stagingDel |-> FALSE, attempts |-> 0]

Init ==
    /\ clock = 0
    /\ row = [u \in Uploads |-> Absent]
    /\ staging = [u \in Uploads |-> None]
    /\ finals = {}
    /\ photos \in [Users -> SUBSET LegacyPhotos]
    /\ \A a, b \in Users : a # b => photos[a] \cap photos[b] = {}
    /\ hidden = [user \in Users |-> None]
    /\ deleted = {}
    /\ fin = [p \in Finalizers |-> Idle]
    /\ jobs = {}
    /\ faults = 0
    /\ late = {}
    /\ restaged = {}

-----------------------------------------------------------------------------
(* Time *)

\* A deadline of some row is still ahead.
Waiting(u) ==
    LET r == row[u]
    IN  \/ r.status \in Open /\ r.expiresAt > clock
        \/ r.procLease # None /\ r.procLease > clock
        \/ r.cleanLease # None /\ r.cleanLease > clock

\* Time runs past MaxTime while a row waits for a deadline and no job is in
\* flight, so that the bound never hides the retry the row is waiting for.
Tick ==
    /\ \/ clock < MaxTime
       \/ /\ jobs = {}
          /\ \E u \in Uploads : Waiting(u)
    /\ clock' = clock + 1
    /\ UNCHANGED <<row, staging, finals, photos, hidden, deleted, fin, jobs, faults, hist>>

\* The values a `now' captured by a request or a cycle may have when used.
Captured == (IF clock > MaxLag THEN clock - MaxLag ELSE 0) .. clock

\* JwtAccessTokenStrategy.validate, when the request began.
AuthenticatedAt(user, now) ==
    /\ hidden[user] # None => hidden[user] >= now
    /\ user \notin deleted

-----------------------------------------------------------------------------
(* createUpload and the client's presigned PUT *)

CreatedAt(u) == row[u].expiresAt - UploadTtl

OwnedBy(user) == {u \in Uploads : Owner[u] = user /\ row[u].status # "absent"}

ActiveAt(user, now) ==
    {u \in OwnedBy(user) : row[u].status \in Open /\ row[u].expiresAt > now}

CreatedSince(user, cutoff) == {u \in OwnedBy(user) : CreatedAt(u) >= cutoff}

WithinQuota(user, now) ==
    LET recent == CreatedSince(user, now - CreateWindow)
    IN  /\ Cardinality(ActiveAt(user, now) \cap recent) < MaxActive
        /\ Cardinality(recent) < MaxRecent

Pending(expiresAt) == [Absent EXCEPT !.status = "pending", !.expiresAt = expiresAt]

createUpload(u, now) ==
    /\ clock < MaxTime
    /\ row[u].status = "absent"
    /\ AuthenticatedAt(Owner[u], now)
    /\ WithinQuota(Owner[u], now)
    /\ row' = [row EXCEPT ![u] = Pending(now + UploadTtl)]
    /\ UNCHANGED <<clock, staging, finals, photos, hidden, deleted, fin, jobs, faults, hist>>

\* The presigned URL accepts any number of PUTs of any content until it
\* expires; it does not know the row.
ClientPut(u, c) ==
    /\ row[u].status # "absent"
    /\ clock < row[u].expiresAt
    /\ staging' = [staging EXCEPT ![u] = c]
    /\ restaged' = IF row[u].status \in Open THEN restaged ELSE restaged \cup {u}
    /\ UNCHANGED <<clock, row, finals, photos, hidden, deleted, fin, jobs, faults, late>>

-----------------------------------------------------------------------------
(* finalizeUpload *)

At(f, pc) == [f EXCEPT !.pc = pc]
Goto(p, pc) == fin' = [fin EXCEPT ![p] = At(fin[p], pc)]

\* An UPDATE of the row the request works on.
Update(p, r) == row' = [row EXCEPT ![fin[p].u] = r]

\* The request ends: its result is returned or its error thrown.
Done(p) == fin' = [fin EXCEPT ![p] = Idle]

Request(u, now) ==
    [pc |-> "claim", u |-> u, now |-> now, lease |-> now + FinalizeLease, key |-> None]

finalizeUpload(p, u) ==
    /\ clock < MaxTime
    /\ fin[p].pc = "idle"
    /\ row[u].status # "absent"
    /\ hidden[Owner[u]] = None
    /\ fin' = [fin EXCEPT ![p] = Request(u, clock)]
    /\ UNCHANGED <<clock, row, staging, finals, photos, hidden, deleted, jobs, faults, hist>>

Lapsed(lease, now) == lease # None => lease <= now

Busy(r, now) == r.status = "processing" /\ ~ Lapsed(r.procLease, now)

Failed(r) == [r EXCEPT !.status = "failed", !.procLease = None]

\* A key recorded by an earlier attempt keeps cleanup away for this one too.
Claimed(r, lease) ==
    [r EXCEPT !.status = "processing", !.procLease = lease,
              !.cleanLease = IF r.pendingDel THEN lease ELSE r.cleanLease]

claimFinalize(p) ==
    LET r == row[fin[p].u]
        now == fin[p].now
    IN
    /\ fin[p].pc = "claim"
    /\ \/ /\ r.status \in {"verified", "failed"}
          /\ Done(p)
          /\ row' = row
       \/ /\ r.status \in Open
          /\ r.expiresAt <= now
          /\ Done(p)
          /\ Update(p, Failed(r))
       \/ /\ r.status \in Open
          /\ r.expiresAt > now
          /\ Busy(r, now)
          /\ Done(p)
          /\ row' = row
       \/ /\ r.status \in Open
          /\ r.expiresAt > now
          /\ ~ Busy(r, now)
          /\ Goto(p, "read")
          /\ Update(p, Claimed(r, fin[p].lease))
    /\ UNCHANGED <<clock, staging, finals, photos, hidden, deleted, jobs, faults, hist>>

WithKey(f, c) == [f EXCEPT !.pc = "prepare", !.key = c]

\* readStagingObject and normalizeProfileImage.  A missing object, a changed
\* ETag or a transport error is retryable; a wrong size or type or an
\* undecodable image is not.  The final key is the hash of the content.
readStagingObject(p) ==
    LET c == staging[fin[p].u]
    IN
    /\ fin[p].pc = "read"
    /\ \/ c \in Images /\ fin' = [fin EXCEPT ![p] = WithKey(fin[p], c)]
       \/ c = Garbage /\ Goto(p, "fail")
       \/ Goto(p, "release")
    /\ UNCHANGED <<clock, row, staging, finals, photos, hidden, deleted, jobs, faults, hist>>

\* The fence of every statement after the claim.
HoldsLease(p) ==
    LET r == row[fin[p].u]
    IN  r.status = "processing" /\ r.procLease = fin[p].lease

markFailed(p) ==
    /\ fin[p].pc = "fail"
    /\ IF HoldsLease(p) THEN Update(p, Failed(row[fin[p].u])) ELSE row' = row
    /\ Done(p)
    /\ UNCHANGED <<clock, staging, finals, photos, hidden, deleted, jobs, faults, hist>>

Released(r) == [r EXCEPT !.status = "pending", !.procLease = None]

\* Mutant: the release forgets the fence on status and lease.
releaseUnfenced(p) ==
    /\ fin[p].pc = "release"
    /\ Update(p, Released(row[fin[p].u]))
    /\ Done(p)
    /\ UNCHANGED <<clock, staging, finals, photos, hidden, deleted, jobs, faults, hist>>

releaseFinalizeLease(p) ==
    /\ fin[p].pc = "release"
    /\ IF HoldsLease(p) THEN Update(p, Released(row[fin[p].u])) ELSE row' = row
    /\ Done(p)
    /\ UNCHANGED <<clock, staging, finals, photos, hidden, deleted, jobs, faults, hist>>

\* Mutant: a retry with another content overwrites the recorded key.
CanPrepareAnyKey(p) ==
    LET r == row[fin[p].u]
    IN  HoldsLease(p) /\ ~ r.finalDel

CanPrepare(p) ==
    LET r == row[fin[p].u]
    IN  HoldsLease(p) /\ r.finalKey \in {None, fin[p].key} /\ ~ r.finalDel

Prepared(r, key, lease) ==
    [r EXCEPT !.finalKey = key, !.pendingDel = TRUE, !.finalDel = FALSE,
              !.cleanLease = lease]

\* Records the key, as due for deletion, before the object is written.
prepareFinalObject(p) ==
    /\ fin[p].pc = "prepare"
    /\ \/ /\ CanPrepare(p)
          /\ Update(p, Prepared(row[fin[p].u], fin[p].key, fin[p].lease))
          /\ Goto(p, "put")
       \/ /\ ~ CanPrepare(p)
          /\ row' = row
          /\ Done(p)
    /\ UNCHANGED <<clock, staging, finals, photos, hidden, deleted, jobs, faults, hist>>

\* The PUT has no deadline and may outlive the lease.  One reported as failed
\* may still have stored the object.
putFinalObject(p) ==
    LET obj == <<fin[p].u, fin[p].key>>
    IN
    /\ fin[p].pc = "put"
    /\ \/ /\ finals' = finals \cup {obj}
          /\ late' = IF clock < fin[p].lease THEN late \ {obj} ELSE late \cup {obj}
          /\ Goto(p, "verify") \/ Goto(p, "release")
       \/ /\ UNCHANGED <<finals, late>>
          /\ Goto(p, "release")
    /\ UNCHANGED <<clock, row, staging, photos, hidden, deleted, jobs, faults, restaged>>

\* Mutant: verification forgets the fence on status and lease.
CanVerifyUnfenced(p) ==
    LET r == row[fin[p].u]
    IN  r.finalKey = fin[p].key /\ r.pendingDel

CanVerify(p) ==
    LET r == row[fin[p].u]
    IN  HoldsLease(p) /\ r.finalKey = fin[p].key /\ r.pendingDel

Verified(r) ==
    [r EXCEPT !.status = "verified", !.procLease = None, !.cleanLease = None,
              !.pendingDel = FALSE, !.finalDel = FALSE]

markVerified(p) ==
    LET r == row[fin[p].u]
        existing == r.status = "verified" /\ r.finalKey = fin[p].key
    IN
    /\ fin[p].pc = "verify"
    /\ \/ /\ CanVerify(p)
          /\ Update(p, Verified(r))
          /\ Goto(p, "unstage")
       \/ /\ ~ CanVerify(p)
          /\ row' = row
          /\ IF existing THEN Goto(p, "unstage") ELSE Done(p)
    /\ UNCHANGED <<clock, staging, finals, photos, hidden, deleted, jobs, faults, hist>>

deleteStagingObject(p) ==
    /\ fin[p].pc = "unstage"
    /\ \/ /\ staging' = [staging EXCEPT ![fin[p].u] = None]
          /\ restaged' = restaged \ {fin[p].u}
          /\ Goto(p, "unstaged")
       \/ /\ UNCHANGED <<staging, restaged>>
          /\ Done(p)
    /\ UNCHANGED <<clock, row, finals, photos, hidden, deleted, jobs, faults, late>>

Unstaged(r) == [r EXCEPT !.stagingDel = TRUE, !.cleanLease = None]

\* Fenced by nothing but the id: it also drops a cleanup lease of the worker.
markStagingDeleted(p) ==
    /\ fin[p].pc = "unstaged"
    /\ Update(p, Unstaged(row[fin[p].u]))
    /\ Done(p)
    /\ UNCHANGED <<clock, staging, finals, photos, hidden, deleted, jobs, faults, hist>>

\* The API process dies, or a statement fails after it may have committed:
\* the request ends with no compensation.
FinalizeCrash(p) ==
    /\ fin[p].pc # "idle"
    /\ Done(p)
    /\ UNCHANGED <<clock, row, staging, finals, photos, hidden, deleted, jobs, faults, hist>>

FinalizeStep(p) ==
    \/ claimFinalize(p) \/ readStagingObject(p) \/ markFailed(p)
    \/ releaseFinalizeLease(p) \/ prepareFinalObject(p) \/ putFinalObject(p)
    \/ markVerified(p) \/ deleteStagingObject(p) \/ markStagingDeleted(p)

-----------------------------------------------------------------------------
(* cleanupExpiredStagingBatch *)

\* Mutant: a row left in processing by a crash is never due.
StagingDueUnlessProcessing(r, now) ==
    /\ ~ r.stagingDel
    /\ \/ r.status \in {"failed", "verified"}
       \/ r.status = "pending" /\ r.expiresAt <= now

StagingDue(r, now) ==
    /\ ~ r.stagingDel
    /\ \/ r.status \in {"failed", "verified"}
       \/ r.status = "pending" /\ r.expiresAt <= now
       \/ /\ r.status = "processing" /\ r.expiresAt <= now
          /\ r.procLease # None /\ r.procLease <= now

\* Mutant: the final object is deleted with the staging object or never.
FinalDueWithStaging(r) == r.pendingDel /\ ~ r.finalDel /\ ~ r.stagingDel

FinalDue(r) == r.pendingDel /\ ~ r.finalDel

cleanupDue(r, now) ==
    /\ r.status # "absent"
    /\ Lapsed(r.cleanLease, now)
    /\ StagingDue(r, now) \/ FinalDue(r)

\* Mutant: the attempt counter goes down.
CountDown(r) == r.attempts - 1

NextAttempt(r) == r.attempts + 1

CleanupJob(u, now) ==
    LET r == row[u]
    IN  [u |-> u, now |-> now, lease |-> now + CleanupLease,
         attempts |-> NextAttempt(r), key |-> r.finalKey,
         stagingReq |-> ~ r.stagingDel, finalReq |-> FinalDue(r),
         stagingRes |-> IF r.stagingDel THEN "ok" ELSE "todo",
         finalRes |-> IF FinalDue(r) /\ r.finalKey # None THEN "todo" ELSE "ok"]

CleanupClaimed(r, now) ==
    [r EXCEPT !.status = IF r.status \in Open THEN "failed" ELSE r.status,
              !.procLease = None,
              !.cleanLease = now + CleanupLease,
              !.attempts = NextAttempt(r)]

\* SKIP LOCKED may pass over any due row another transaction holds.
claimCleanupBatch(batch, now) ==
    /\ batch # {}
    /\ Cardinality(batch) <= BatchLimit
    /\ Cardinality(jobs) + Cardinality(batch) <= MaxJobs
    /\ \A u \in batch : cleanupDue(row[u], now)
    /\ row' = [u \in Uploads |->
                 IF u \notin batch THEN row[u]
                 ELSE CleanupClaimed(row[u], now)]
    /\ jobs' = jobs \cup {CleanupJob(u, now) : u \in batch}
    /\ UNCHANGED <<clock, staging, finals, photos, hidden, deleted, fin, faults, hist>>

WithStaging(j, res) == [j EXCEPT !.stagingRes = res]
WithFinal(j, res) == [j EXCEPT !.finalRes = res]
Replace(j, k) == jobs' = (jobs \ {j}) \cup {k}

Fault == faults < MaxFaults /\ faults' = faults + 1

\* The two deletions of a job run concurrently (Promise.all).
deleteStaging(j) ==
    /\ j.stagingRes = "todo"
    /\ \/ /\ staging' = [staging EXCEPT ![j.u] = None]
          /\ restaged' = restaged \ {j.u}
          /\ Replace(j, WithStaging(j, "ok"))
          /\ faults' = faults
       \/ /\ Fault
          /\ UNCHANGED <<staging, restaged>>
          /\ Replace(j, WithStaging(j, "err"))
    /\ UNCHANGED <<clock, row, finals, photos, hidden, deleted, fin, late>>

deleteFinal(j) ==
    /\ j.finalRes = "todo"
    /\ \/ /\ finals' = finals \ {<<j.u, j.key>>}
          /\ late' = late \ {<<j.u, j.key>>}
          /\ Replace(j, WithFinal(j, "ok"))
          /\ faults' = faults
       \/ /\ Fault
          /\ UNCHANGED <<finals, late>>
          /\ Replace(j, WithFinal(j, "err"))
    /\ UNCHANGED <<clock, row, staging, photos, hidden, deleted, fin, restaged>>

cleanupRetryDelay(attempt) ==
    RetryDelays[IF attempt < Len(RetryDelays) THEN attempt ELSE Len(RetryDelays)]

CleanupFenced(j) == row[j.u].cleanLease = j.lease

\* Mutant: a final deletion nobody requested is recorded as done.
FinalDoneUnasked(j) == j.finalRes = "ok"

FinalDone(j) == j.finalReq /\ j.finalRes = "ok"

Cleaned(r, j) ==
    LET completed == j.stagingRes = "ok" /\ j.finalRes = "ok"
    IN  [r EXCEPT
           !.stagingDel = IF j.stagingReq /\ j.stagingRes = "ok" THEN TRUE ELSE r.stagingDel,
           !.finalDel = IF FinalDone(j) THEN TRUE ELSE r.finalDel,
           !.finalKey = IF FinalDone(j) THEN None ELSE r.finalKey,
           !.cleanLease = IF completed THEN None
                          ELSE j.now + cleanupRetryDelay(j.attempts)]

applyCleanupResult(j) ==
    /\ j.stagingRes # "todo" /\ j.finalRes # "todo"
    /\ row' = IF CleanupFenced(j)
              THEN [row EXCEPT ![j.u] = Cleaned(row[j.u], j)]
              ELSE row
    /\ jobs' = jobs \ {j}
    /\ UNCHANGED <<clock, staging, finals, photos, hidden, deleted, fin, faults, hist>>

\* The worker dies, or the apply statement fails: the lease has to lapse.
CleanupCrash(j) ==
    /\ Fault
    /\ jobs' = jobs \ {j}
    /\ UNCHANGED <<clock, row, staging, finals, photos, hidden, deleted, fin, hist>>

CleanupStep(j) == deleteStaging(j) \/ deleteFinal(j) \/ applyCleanupResult(j)

-----------------------------------------------------------------------------
(* Profile and account *)

\* Mutant: a recorded key is taken for a verified upload.
PreparedOf(user) == {u \in Uploads : Owner[u] = user /\ row[u].finalKey # None}

VerifiedOf(user) == {u \in Uploads : Owner[u] = user /\ row[u].status = "verified"}

\* FOR SHARE on the uploads makes the check and the insert one step.
replaceProfile(user, shown) ==
    /\ shown # {}
    /\ Cardinality(shown) <= MaxPhotos
    /\ shown \subseteq VerifiedOf(user) \cup (photos[user] \cap LegacyPhotos)
    /\ photos' = [photos EXCEPT ![user] = shown]
    /\ UNCHANGED <<clock, row, staging, finals, hidden, deleted, fin, jobs, faults, hist>>

AnonymizedRow(r) ==
    [r EXCEPT !.status = "failed", !.procLease = None,
              !.cleanLease = IF r.status = "processing" /\ r.finalKey # None
                             THEN r.procLease ELSE None,
              !.attempts = 0,
              !.pendingDel = IF r.finalKey # None /\ ~ r.finalDel THEN TRUE ELSE r.pendingDel]

\* beginAccountDeletion and restoreIfWithinGrace, as far as they gate requests.
scheduleDeletion(user) ==
    /\ clock < MaxTime
    /\ hidden[user] = None
    /\ hidden' = [hidden EXCEPT ![user] = clock]
    /\ UNCHANGED <<clock, row, staging, finals, photos, deleted, fin, jobs, faults, hist>>

DeletionDue(user) == hidden[user] # None /\ hidden[user] + Grace <= clock

restoreScheduledDeletion(user) ==
    /\ hidden[user] # None
    /\ ~ DeletionDue(user)
    /\ hidden' = [hidden EXCEPT ![user] = None]
    /\ UNCHANGED <<clock, row, staging, finals, photos, deleted, fin, jobs, faults, hist>>

\* The part of the transaction that concerns uploads and photos; the
\* deletion lease and the other tables belong to the account component.
anonymizeDeletedAccount(user) ==
    /\ DeletionDue(user)
    /\ user \notin deleted
    /\ deleted' = deleted \cup {user}
    /\ row' = [u \in Uploads |->
                 IF u \in OwnedBy(user) THEN AnonymizedRow(row[u]) ELSE row[u]]
    /\ photos' = [photos EXCEPT ![user] = {}]
    /\ UNCHANGED <<clock, staging, finals, hidden, fin, jobs, faults, hist>>

-----------------------------------------------------------------------------
Next ==
    \/ Tick
    \/ \E u \in Uploads, now \in Captured : createUpload(u, now)
    \/ \E u \in Uploads, c \in Images \cup {Garbage} : ClientPut(u, c)
    \/ \E p \in Finalizers, u \in Uploads : finalizeUpload(p, u)
    \/ \E p \in Finalizers : FinalizeStep(p) \/ FinalizeCrash(p)
    \/ \E batch \in SUBSET Uploads, now \in Captured : claimCleanupBatch(batch, now)
    \/ \E j \in jobs : CleanupStep(j) \/ CleanupCrash(j)
    \/ \E user \in Users, shown \in SUBSET (Uploads \cup LegacyPhotos) : replaceProfile(user, shown)
    \/ \E user \in Users : scheduleDeletion(user) \/ restoreScheduledDeletion(user)
    \/ \E user \in Users : anonymizeDeletedAccount(user)

\* Time passes; the worker runs a cycle every minute, so a due row is claimed
\* and the jobs of a batch run to their end.  Nothing is assumed of clients
\* or of finalizers.
Fairness ==
    /\ WF_vars(Tick)
    /\ \A u \in Uploads :
         WF_vars(\E batch \in SUBSET Uploads :
                   u \in batch /\ claimCleanupBatch(batch, clock))
    /\ WF_vars(\E j \in jobs : CleanupStep(j))

Spec == Init /\ [][Next]_vars
FairSpec == Spec /\ Fairness

-----------------------------------------------------------------------------
(* Properties *)

\* The CHECK constraints of migrations 0014 and 0015b, which would abort the
\* statement that breaks them: a verified row names its final object, and
\* final-deletion marks only appear in the combinations the worker expects.
\* At risk from the cleanup result of an earlier batch applied to a row that
\* another request has meanwhile changed.
DatabaseChecks ==
    \A u \in Uploads :
      LET r == row[u]
      IN  /\ r.status = "verified" => r.finalKey # None
          /\ \/ ~ r.pendingDel /\ ~ r.finalDel
             \/ r.pendingDel /\ (r.finalKey # None \/ r.finalDel)

\* A verified upload's object is in R2: no cleanup job, however late, removes
\* the object of a row that some finalizer managed to verify, and no
\* finalizer verifies a row after its object was removed.
VerifiedObjectStored ==
    \A u \in Uploads :
      row[u].status = "verified" => <<u, row[u].finalKey>> \in finals

\* Every upload a profile shows belongs to that account and is still
\* verified, so the public URL stored in user_profile_photos is served.
PhotosServed ==
    \A user \in Users : \A u \in photos[user] \cap Uploads :
      /\ Owner[u] = user
      /\ row[u].status = "verified"
      /\ <<u, row[u].finalKey>> \in finals

\* The stored final objects whose last PUT ended within its finalize lease.
Prompt == finals \ late

\* Every final object in R2 is named by its row, so cleanup can find it,
\* except one whose PUT outlived its finalize lease (the client sets no
\* deadline): the key is recorded before the PUT, kept while that lease runs,
\* not overwritten by a retry with another content, and not dropped by a
\* cleanup that overlaps with the PUT.
FinalObjectTracked ==
    \A obj \in Prompt : row[obj[1]].finalKey = obj[2]

\* Every opened upload is settled, by a finalizer or, once it has expired, by
\* the worker, whatever crashes.
EventuallySettled ==
    \A u \in Uploads :
      row[u].status \in Open ~> row[u].status \in {"verified", "failed"}

\* The row says that both objects are gone, and they are: except a staging
\* object the client put, with a URL not yet expired, after the row was
\* settled, and a final object whose PUT outlived its lease.  Nothing looks
\* for those two again.
Reclaimed(u) ==
    /\ row[u].stagingDel
    /\ row[u].finalKey = None
    /\ staging[u] = None \/ u \in restaged
    /\ \A i \in Images : <<u, i>> \notin Prompt

\* A failed upload is eventually reclaimed, and stays so, although deletions
\* fail, jobs are lost, leases are taken over and requests go on.
EventuallyReclaimed ==
    \A u \in Uploads : row[u].status = "failed" ~> []Reclaimed(u)

\* The pipeline implements the life cycle it promises: rows settle once, only
\* an account deletion revokes a verified upload, profiles show verified ones.
Lifecycle == INSTANCE UploadLifecycle WITH
    state <- [u \in Uploads |-> IF row[u].status \in Open THEN "open" ELSE row[u].status],
    shown <- photos,
    gone <- deleted

ImplementsLifecycle == Lifecycle!LSpec

-----------------------------------------------------------------------------
(* The inductive strengthening of the safety properties *)

\* A job that deletes a final object works on a failed row that still records
\* the deletion: claiming it failed the row, and nothing reopens one.
JobsOnFailedRows ==
    \A j \in jobs :
      /\ j.finalRes = "todo" => j.finalReq
      /\ j.finalReq => row[j.u].status = "failed" /\ row[j.u].pendingDel

\* A finalizer past its PUT may rely on the object as long as the row has not
\* failed under it.
WrittenBeforeVerify ==
    \A p \in Finalizers :
      /\ fin[p].pc \in {"prepare", "put", "verify"} => fin[p].key \in Images
      /\ fin[p].pc = "verify" /\ row[fin[p].u].status # "failed"
           => <<fin[p].u, fin[p].key>> \in finals

\* A verified row has nothing queued for deletion.
VerifiedSettled ==
    \A u \in Uploads :
      row[u].status = "verified" =>
        /\ row[u].finalKey \in Images
        /\ ~ row[u].pendingDel /\ ~ row[u].finalDel
        /\ <<u, row[u].finalKey>> \in finals

PhotosVerified ==
    \A user \in Users : \A u \in photos[user] \cap Uploads :
      Owner[u] = user /\ row[u].status = "verified"

DeletedAccountsEmpty ==
    \A user \in deleted :
      /\ photos[user] = {}
      /\ \A u \in Uploads : Owner[u] = user => row[u].status \in {"absent", "failed"}

\* Inductive: together these conjuncts are preserved by every step, and imply
\* DatabaseChecks, VerifiedObjectStored and PhotosServed.
SafetyInv ==
    /\ TypeOK
    /\ DatabaseChecks
    /\ JobsOnFailedRows
    /\ WrittenBeforeVerify
    /\ VerifiedSettled
    /\ PhotosVerified
    /\ DeletedAccountsEmpty
=============================================================================
