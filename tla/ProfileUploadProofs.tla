------------------------- MODULE ProfileUploadProofs -------------------------
(***************************************************************************)
(* Proofs about ProfileUpload, for every number of accounts, uploads,      *)
(* finalizers and jobs and every value of the time constants.              *)
(*                                                                         *)
(* Each UPDATE of a row is an operator on one record; the first lemmas say *)
(* what it leaves alone and what it sets, and the proofs about steps cite  *)
(* those facts instead of expanding records.                               *)
(***************************************************************************)
EXTENDS ProfileUpload, TLAPS

-----------------------------------------------------------------------------
(* What the row updates do *)

\* The columns the safety argument is about.
SameFinal(r, s) ==
    /\ s.finalKey = r.finalKey
    /\ s.pendingDel = r.pendingDel
    /\ s.finalDel = r.finalDel

LEMMA FailedRow ==
  ASSUME NEW r \in RowType
  PROVE  Failed(r) \in RowType /\ Failed(r).status = "failed" /\ SameFinal(r, Failed(r))
  BY DEF RowType, Failed, SameFinal, Time, Statuses, Open

LEMMA ReleasedRow ==
  ASSUME NEW r \in RowType
  PROVE  /\ Released(r) \in RowType
         /\ Released(r).status = "pending" /\ SameFinal(r, Released(r))
  BY DEF RowType, Released, SameFinal, Time, Statuses, Open

LEMMA ClaimedRow ==
  ASSUME NEW r \in RowType, NEW l \in Int
  PROVE  /\ Claimed(r, l) \in RowType
         /\ Claimed(r, l).status = "processing" /\ SameFinal(r, Claimed(r, l))
  BY DEF RowType, Claimed, SameFinal, Time, Statuses, Open

LEMMA PreparedRow ==
  ASSUME NEW r \in RowType, NEW l \in Int, NEW k \in Images
  PROVE  /\ Prepared(r, k, l) \in RowType
         /\ Prepared(r, k, l).status = r.status
         /\ Prepared(r, k, l).finalKey = k
         /\ Prepared(r, k, l).pendingDel = TRUE
         /\ Prepared(r, k, l).finalDel = FALSE
  BY DEF RowType, Prepared, Time, Statuses, Open

LEMMA VerifiedRow ==
  ASSUME NEW r \in RowType
  PROVE  /\ Verified(r) \in RowType
         /\ Verified(r).status = "verified"
         /\ Verified(r).finalKey = r.finalKey
         /\ Verified(r).pendingDel = FALSE
         /\ Verified(r).finalDel = FALSE
  BY DEF RowType, Verified, Time, Statuses, Open

LEMMA UnstagedRow ==
  ASSUME NEW r \in RowType
  PROVE  /\ Unstaged(r) \in RowType
         /\ Unstaged(r).status = r.status /\ SameFinal(r, Unstaged(r))
  BY DEF RowType, Unstaged, SameFinal, Time, Statuses, Open

LEMMA PendingRow ==
  ASSUME NEW t \in Int
  PROVE  /\ Pending(t) \in RowType
         /\ Pending(t).status = "pending"
         /\ Pending(t).pendingDel = FALSE
         /\ Pending(t).finalDel = FALSE
  BY DEF RowType, Pending, Absent, Time, Statuses, Open

LEMMA CleanupClaimedRow ==
  ASSUME NEW r \in RowType, NEW now \in Int
  PROVE  /\ CleanupClaimed(r, now) \in RowType
         /\ r.status \in Open => CleanupClaimed(r, now).status = "failed"
         /\ r.status \notin Open => CleanupClaimed(r, now).status = r.status
         /\ SameFinal(r, CleanupClaimed(r, now))
<1>1. now + CleanupLease \in Int /\ NextAttempt(r) \in Nat
  BY TimesOK DEF RowType, NextAttempt
<1> QED
  BY <1>1 DEF RowType, CleanupClaimed, SameFinal, Time, Statuses, Open

LEMMA DelayType == \A n \in Nat \ {0} : cleanupRetryDelay(n) \in Nat
  BY TimesOK DEF cleanupRetryDelay

LEMMA CleanedRow ==
  ASSUME NEW r \in RowType, NEW j \in JobType
  PROVE  /\ Cleaned(r, j) \in RowType
         /\ Cleaned(r, j).status = r.status
         /\ Cleaned(r, j).pendingDel = r.pendingDel
         /\ FinalDone(j) => Cleaned(r, j).finalDel = TRUE
         /\ ~ FinalDone(j) => SameFinal(r, Cleaned(r, j))
<1>1. j.now + cleanupRetryDelay(j.attempts) \in Int
  BY DelayType DEF JobType
<1> QED
  BY <1>1 DEF RowType, Cleaned, SameFinal, Time, Statuses, Open

LEMMA AnonymizedRowFacts ==
  ASSUME NEW r \in RowType
  PROVE  /\ AnonymizedRow(r) \in RowType
         /\ AnonymizedRow(r).status = "failed"
         /\ AnonymizedRow(r).finalKey = r.finalKey
         /\ AnonymizedRow(r).finalDel = r.finalDel
         /\ r.finalKey # None /\ ~ r.finalDel => AnonymizedRow(r).pendingDel = TRUE
         /\ r.finalKey = None \/ r.finalDel => AnonymizedRow(r).pendingDel = r.pendingDel
  BY DEF RowType, AnonymizedRow, Time, Statuses, Open

-----------------------------------------------------------------------------
(* What the updates of a request's and a job's locals do *)

Active == {"claim", "read", "fail", "release", "prepare", "put",
           "verify", "unstage", "unstaged"}

LEMMA FinFacts ==
  ASSUME NEW f \in FinType
  PROVE  /\ f.pc # "idle" => f.u \in Uploads
         /\ f.now \in Int /\ f.lease \in Int /\ f.key \in Images \cup {None}
  BY DEF FinType, Idle

LEMMA AtFacts ==
  ASSUME NEW f \in FinType, f.pc # "idle", NEW pc \in Active
  PROVE  /\ At(f, pc) \in FinType
         /\ At(f, pc).pc = pc
         /\ At(f, pc).u = f.u /\ At(f, pc).key = f.key /\ At(f, pc).lease = f.lease
  BY DEF FinType, Idle, At, Active

LEMMA WithKeyFacts ==
  ASSUME NEW f \in FinType, f.pc # "idle", NEW k \in Images
  PROVE  /\ WithKey(f, k) \in FinType
         /\ WithKey(f, k).pc = "prepare"
         /\ WithKey(f, k).u = f.u /\ WithKey(f, k).key = k /\ WithKey(f, k).lease = f.lease
<1>1. f \in [pc : Active, u : Uploads, now : Int, lease : Int, key : Images \cup {None}]
  BY DEF FinType, Idle, Active
<1>2. WithKey(f, k) \in [pc : Active, u : Uploads, now : Int, lease : Int, key : Images \cup {None}]
  BY <1>1 DEF WithKey, Active
<1>3. /\ WithKey(f, k).pc = "prepare"
      /\ WithKey(f, k).u = f.u /\ WithKey(f, k).key = k /\ WithKey(f, k).lease = f.lease
  BY <1>1 DEF WithKey
<1> QED
  BY <1>2, <1>3 DEF FinType, Active

LEMMA RequestFacts ==
  ASSUME NEW u \in Uploads, NEW t \in Int
  PROVE  Request(u, t) \in FinType /\ Request(u, t).pc = "claim"
<1>1. t + FinalizeLease \in Int
  BY TimesOK
<1> QED
  BY <1>1 DEF FinType, Request

LEMMA IdleFacts == Idle \in FinType /\ Idle.pc = "idle"
  BY DEF FinType, Idle

LEMMA JobResult ==
  ASSUME NEW j \in JobType, NEW res \in {"ok", "err"}
  PROVE  /\ WithStaging(j, res) \in JobType
         /\ WithStaging(j, res).u = j.u
         /\ WithStaging(j, res).finalReq = j.finalReq
         /\ WithStaging(j, res).finalRes = j.finalRes
         /\ WithFinal(j, res) \in JobType
         /\ WithFinal(j, res).u = j.u
         /\ WithFinal(j, res).finalReq = j.finalReq
         /\ WithFinal(j, res).finalRes = res
  BY DEF JobType, WithStaging, WithFinal

LEMMA NewJob ==
  ASSUME TypeOK, NEW u \in Uploads, NEW now \in Int
  PROVE  /\ CleanupJob(u, now) \in JobType
         /\ CleanupJob(u, now).u = u
         /\ CleanupJob(u, now).finalReq <=> FinalDue(row[u])
         /\ CleanupJob(u, now).finalRes = "todo" => FinalDue(row[u])
<1>1. now + CleanupLease \in Int
  BY TimesOK
<1>2. /\ NextAttempt(row[u]) \in Nat \ {0}
      /\ row[u].finalKey \in Images \cup {None}
      /\ row[u].stagingDel \in BOOLEAN
  BY DEF TypeOK, RowType, NextAttempt
<1>3. FinalDue(row[u]) \in BOOLEAN /\ (~ row[u].stagingDel) \in BOOLEAN
  BY DEF TypeOK, RowType, FinalDue
<1> HIDE DEF NextAttempt, FinalDue
<1> QED
  BY <1>1, <1>2, <1>3 DEF JobType, CleanupJob

-----------------------------------------------------------------------------
(* Type correctness *)

LEMMA InitType == Init => TypeOK
  BY ConstantsOK, TimesOK DEF Init, TypeOK, RowType, FinType, JobType, Absent, Idle,
     Time, Statuses, Open

LEMMA CapturedType == TypeOK => \A t \in Captured : t \in Int /\ t <= clock /\ t >= 0
  BY ConstantsOK DEF TypeOK, Captured

\* The row a request works on, and its locals.
LEMMA FinRow ==
  ASSUME TypeOK, NEW p \in Finalizers, fin[p].pc # "idle"
  PROVE  /\ fin[p] \in FinType /\ fin[p].u \in Uploads
         /\ fin[p].lease \in Int /\ fin[p].key \in Images \cup {None}
         /\ row[fin[p].u] \in RowType
<1>1. fin[p] \in FinType
  BY DEF TypeOK
<1> QED
  BY <1>1, FinFacts DEF TypeOK

LEMMA TypeFinalize ==
  ASSUME TypeOK, WrittenBeforeVerify, NEW p \in Finalizers,
         FinalizeStep(p) \/ FinalizeCrash(p)
  PROVE  TypeOK'
<1>0. fin[p].pc # "idle"
  BY DEF FinalizeStep, FinalizeCrash, claimFinalize, readStagingObject, markFailed,
     releaseFinalizeLease, prepareFinalObject, putFinalObject, markVerified,
     deleteStagingObject, markStagingDeleted
<1> DEFINE f == fin[p]
           r == row[f.u]
<1>a. f \in FinType /\ f.u \in Uploads /\ f.lease \in Int /\ r \in RowType
  BY <1>0, FinRow
<1>b. \A pc \in Active : At(f, pc) \in FinType
  BY <1>0, <1>a, AtFacts
<1>c. Idle \in FinType
  BY IdleFacts
<1>d. \A s \in RowType : Update(p, s) => row' \in [Uploads -> RowType]
  BY <1>a DEF Update, TypeOK
<1>e. \A pc \in Active : Goto(p, pc) => fin' \in [Finalizers -> FinType]
  BY <1>b DEF Goto, TypeOK
<1>f. Done(p) => fin' \in [Finalizers -> FinType]
  BY <1>c DEF Done, TypeOK
<1>1. CASE claimFinalize(p)
  BY <1>1, <1>a, <1>d, <1>e, <1>f, FailedRow, ClaimedRow DEF hist, claimFinalize, TypeOK, Active
<1>2. CASE readStagingObject(p)
  <2>1. \A c \in Images : WithKey(f, c) \in FinType
    BY <1>0, <1>a, WithKeyFacts
  <2> QED
    BY <1>2, <1>e, <2>1 DEF hist, readStagingObject, TypeOK, Active
<1>3. CASE markFailed(p)
  BY <1>3, <1>a, <1>d, <1>f, FailedRow DEF hist, markFailed, TypeOK
<1>4. CASE releaseFinalizeLease(p)
  BY <1>4, <1>a, <1>d, <1>f, ReleasedRow DEF hist, releaseFinalizeLease, TypeOK
<1>5. CASE prepareFinalObject(p)
  <2>1. f.key \in Images
    BY <1>5 DEF prepareFinalObject, WrittenBeforeVerify
  <2> QED
    BY <1>5, <1>a, <1>d, <1>e, <1>f, <2>1, PreparedRow DEF hist, prepareFinalObject, TypeOK, Active
<1>6. CASE putFinalObject(p)
  <2>1. f.key \in Images
    BY <1>6 DEF putFinalObject, WrittenBeforeVerify
  <2> QED
    BY <1>6, <1>a, <1>e, <2>1 DEF putFinalObject, TypeOK, Active
<1>7. CASE markVerified(p)
  BY <1>7, <1>a, <1>d, <1>e, <1>f, VerifiedRow DEF hist, markVerified, TypeOK, Active
<1>8. CASE deleteStagingObject(p)
  BY <1>8, <1>a, <1>e, <1>f DEF deleteStagingObject, TypeOK, Active
<1>9. CASE markStagingDeleted(p)
  BY <1>9, <1>a, <1>d, <1>f, UnstagedRow DEF hist, markStagingDeleted, TypeOK
<1>10. CASE FinalizeCrash(p)
  BY <1>10, <1>f DEF hist, FinalizeCrash, TypeOK
<1> QED
  BY <1>1, <1>2, <1>3, <1>4, <1>5, <1>6, <1>7, <1>8, <1>9, <1>10 DEF FinalizeStep

-----------------------------------------------------------------------------
(* The safety invariant *)

\* The constraints on one row, and what an update of the row of u may do to it
\* without disturbing the other conjuncts.
RowChecks(s) ==
    \/ ~ s.pendingDel /\ ~ s.finalDel
    \/ s.pendingDel /\ (s.finalKey # None \/ s.finalDel)

Sound(u, s) ==
    /\ RowChecks(s)
    /\ row[u].status = "failed" => s.status = "failed" /\ (row[u].pendingDel => s.pendingDel)
    /\ row[u].status = "verified" => s.status = "verified"
    /\ s.status = "verified" => /\ s.finalKey \in Images
                               /\ ~ s.pendingDel /\ ~ s.finalDel
                               /\ <<u, s.finalKey>> \in finals
    /\ Owner[u] \in deleted => s.status \in {"absent", "failed"}

\* Locals that assert nothing about a stored object.
Fresh(g) ==
    /\ g.pc \in {"prepare", "put"} => g.key \in Images
    /\ g.pc # "verify"

LEMMA SoundSame ==
  ASSUME SafetyInv, NEW u \in Uploads
  PROVE  Sound(u, row[u])
  BY ConstantsOK DEF SafetyInv, TypeOK, Sound, RowChecks, DatabaseChecks, VerifiedSettled,
     DeletedAccountsEmpty

LEMMA RowsPreserve ==
  ASSUME SafetyInv, TypeOK',
         \A u \in Uploads : Sound(u, row'[u]),
         UNCHANGED <<finals, photos, deleted>>
  PROVE  /\ DatabaseChecks' /\ VerifiedSettled' /\ PhotosVerified' /\ DeletedAccountsEmpty'
         /\ jobs' \subseteq jobs => JobsOnFailedRows'
         /\ (\A q \in Finalizers : fin'[q] = fin[q] \/ Fresh(fin'[q])) => WrittenBeforeVerify'
<1>1. DatabaseChecks'
  BY ConstantsOK DEF DatabaseChecks, Sound, RowChecks
<1>2. VerifiedSettled'
  BY DEF VerifiedSettled, Sound
<1>3. PhotosVerified'
  BY DEF SafetyInv, PhotosVerified, Sound
<1>4. DeletedAccountsEmpty'
  BY DEF SafetyInv, DeletedAccountsEmpty, Sound
<1>5. ASSUME jobs' \subseteq jobs PROVE JobsOnFailedRows'
  <2> SUFFICES ASSUME NEW j \in jobs'
               PROVE  /\ j.finalRes = "todo" => j.finalReq
                      /\ j.finalReq => row'[j.u].status = "failed" /\ row'[j.u].pendingDel
    BY DEF JobsOnFailedRows
  <2>1. j \in jobs /\ j.u \in Uploads
    BY <1>5 DEF SafetyInv, TypeOK, JobType
  <2> QED
    BY <2>1 DEF SafetyInv, JobsOnFailedRows, Sound
<1>6. ASSUME \A q \in Finalizers : fin'[q] = fin[q] \/ Fresh(fin'[q]) PROVE WrittenBeforeVerify'
  <2> SUFFICES ASSUME NEW q \in Finalizers
               PROVE  /\ fin'[q].pc \in {"prepare", "put", "verify"} => fin'[q].key \in Images
                      /\ fin'[q].pc = "verify" /\ row'[fin'[q].u].status # "failed"
                           => <<fin'[q].u, fin'[q].key>> \in finals
    BY DEF WrittenBeforeVerify
  <2>1. CASE Fresh(fin'[q])
    BY <2>1 DEF Fresh
  <2>2. CASE fin'[q] = fin[q]
    <3>1. fin[q].pc = "verify" => fin[q].u \in Uploads
      BY FinFacts DEF SafetyInv, TypeOK
    <3> QED
      BY <2>2, <3>1 DEF SafetyInv, WrittenBeforeVerify, Sound
  <2> QED
    BY <1>6, <2>1, <2>2
<1> QED
  BY <1>1, <1>2, <1>3, <1>4, <1>5, <1>6

\* A request that updates its row soundly and moves on.
LEMMA FinalizePreserves ==
  ASSUME SafetyInv, TypeOK', NEW p \in Finalizers, fin[p].pc # "idle",
         NEW s, Sound(fin[p].u, s), Update(p, s) \/ row' = row,
         NEW g, fin' = [fin EXCEPT ![p] = g], Fresh(g),
         UNCHANGED <<finals, photos, deleted, jobs>>
  PROVE  SafetyInv'
<1>1. fin[p].u \in Uploads
  BY FinRow DEF SafetyInv
<1>2. \A u \in Uploads : Sound(u, row'[u])
  BY <1>1, SoundSame DEF Update, SafetyInv, TypeOK
<1>3. \A q \in Finalizers : fin'[q] = fin[q] \/ Fresh(fin'[q])
  BY DEF SafetyInv, TypeOK
<1> QED
  BY <1>2, <1>3, RowsPreserve DEF SafetyInv

LEMMA SafetyFinalize ==
  ASSUME SafetyInv, NEW p \in Finalizers, FinalizeStep(p) \/ FinalizeCrash(p)
  PROVE  SafetyInv'
<1>0. fin[p].pc # "idle"
  BY DEF FinalizeStep, FinalizeCrash, claimFinalize, readStagingObject, markFailed,
     releaseFinalizeLease, prepareFinalObject, putFinalObject, markVerified,
     deleteStagingObject, markStagingDeleted
<1>t. TypeOK'
  BY TypeFinalize DEF SafetyInv
<1> DEFINE f == fin[p]
           r == row[f.u]
<1>a. f \in FinType /\ f.u \in Uploads /\ f.lease \in Int /\ r \in RowType
  BY <1>0, FinRow DEF SafetyInv
<1>b. Sound(f.u, r)
  BY <1>a, SoundSame
<1>c. /\ Done(p) => fin' = [fin EXCEPT ![p] = Idle]
      /\ \A pc \in Active : Goto(p, pc) => fin' = [fin EXCEPT ![p] = At(f, pc)]
  BY DEF Done, Goto
<1>d. Fresh(Idle)
  BY IdleFacts DEF Fresh
<1>e. \A pc \in Active \ {"prepare", "put", "verify"} : Fresh(At(f, pc))
  BY <1>0, <1>a, AtFacts DEF Fresh
<1>1. CASE claimFinalize(p)
  <2>1. r.status \in Open => Sound(f.u, Failed(r))
    BY <1>a, <1>b, FailedRow DEF Sound, RowChecks, SameFinal, Open
  <2>3. r.status \in Open => Sound(f.u, Claimed(r, f.lease))
    BY <1>a, <1>b, ClaimedRow DEF Sound, RowChecks, SameFinal, Open
  <2>2. \E x, g : /\ Sound(f.u, x) /\ (Update(p, x) \/ row' = row)
                  /\ fin' = [fin EXCEPT ![p] = g] /\ Fresh(g)
    BY <1>1, <1>b, <1>c, <1>d, <1>e, <2>1, <2>3 DEF claimFinalize, Active
  <2> QED
    BY <1>0, <1>1, <1>t, <2>2, FinalizePreserves DEF claimFinalize
<1>2. CASE readStagingObject(p)
  <2>1. \A c \in Images : Fresh(WithKey(f, c))
    BY <1>0, <1>a, WithKeyFacts DEF Fresh
  <2>2. \E g : fin' = [fin EXCEPT ![p] = g] /\ Fresh(g)
    BY <1>2, <1>c, <1>e, <2>1 DEF readStagingObject, Active
  <2> QED
    BY <1>0, <1>2, <1>b, <1>t, <2>2, FinalizePreserves DEF readStagingObject
<1>3. CASE markFailed(p)
  <2>1. HoldsLease(p) => Sound(f.u, Failed(r))
    BY <1>a, <1>b, FailedRow DEF Sound, RowChecks, SameFinal, HoldsLease
  <2>2. \E x : Sound(f.u, x) /\ (Update(p, x) \/ row' = row)
    BY <1>3, <1>b, <2>1 DEF markFailed
  <2> QED
    BY <1>0, <1>3, <1>c, <1>d, <1>t, <2>2, FinalizePreserves DEF markFailed
<1>4. CASE releaseFinalizeLease(p)
  <2>1. HoldsLease(p) => Sound(f.u, Released(r))
    BY <1>a, <1>b, ReleasedRow DEF Sound, RowChecks, SameFinal, HoldsLease
  <2>2. \E x : Sound(f.u, x) /\ (Update(p, x) \/ row' = row)
    BY <1>4, <1>b, <2>1 DEF releaseFinalizeLease
  <2> QED
    BY <1>0, <1>4, <1>c, <1>d, <1>t, <2>2, FinalizePreserves DEF releaseFinalizeLease
<1>5. CASE prepareFinalObject(p)
  <2>1. f.key \in Images
    BY <1>5 DEF prepareFinalObject, SafetyInv, WrittenBeforeVerify
  <2>2. HoldsLease(p) => Sound(f.u, Prepared(r, f.key, f.lease))
    BY <1>a, <1>b, <2>1, PreparedRow, ConstantsOK DEF Sound, RowChecks, HoldsLease
  <2>3. Fresh(At(f, "put"))
    BY <1>0, <1>a, <2>1, AtFacts DEF Fresh, Active
  <2>4. \E x, g : /\ Sound(f.u, x) /\ (Update(p, x) \/ row' = row)
                  /\ fin' = [fin EXCEPT ![p] = g] /\ Fresh(g)
    BY <1>5, <1>b, <1>c, <1>d, <2>2, <2>3 DEF prepareFinalObject, CanPrepare, Active
  <2> QED
    BY <1>0, <1>5, <1>t, <2>4, FinalizePreserves DEF prepareFinalObject
<1>6. CASE putFinalObject(p)
  <2>1. f.key \in Images
    BY <1>6 DEF putFinalObject, SafetyInv, WrittenBeforeVerify
  <2>2. /\ finals \subseteq finals'
        /\ fin' = [fin EXCEPT ![p] = At(f, "verify")] => <<f.u, f.key>> \in finals'
        /\ \/ fin' = [fin EXCEPT ![p] = At(f, "verify")]
           \/ fin' = [fin EXCEPT ![p] = At(f, "release")]
        /\ UNCHANGED <<row, photos, deleted, jobs>>
    <3>1. At(f, "verify") # At(f, "release")
      BY <1>0, <1>a, AtFacts DEF Active
    <3>2. [fin EXCEPT ![p] = At(f, "verify")] # [fin EXCEPT ![p] = At(f, "release")]
      BY <3>1 DEF SafetyInv, TypeOK
    <3> QED
      BY <1>6, <1>c, <3>2 DEF putFinalObject, Active
  <2>3. WrittenBeforeVerify'
    <3>1. /\ At(f, "verify").u = f.u /\ At(f, "verify").key = f.key
          /\ At(f, "release").pc = "release"
      BY <1>0, <1>a, AtFacts DEF Active
    <3>2. \A q \in Finalizers : q # p => fin'[q] = fin[q]
      BY <2>2 DEF SafetyInv, TypeOK
    <3>3. fin'[p] = At(f, "release") \/ (fin'[p] = At(f, "verify") /\ <<f.u, f.key>> \in finals')
      BY <2>2 DEF SafetyInv, TypeOK
    <3> QED
      BY <2>1, <2>2, <3>1, <3>2, <3>3 DEF SafetyInv, WrittenBeforeVerify
  <2>4. VerifiedSettled'
    BY <2>2 DEF SafetyInv, VerifiedSettled
  <2> QED
    BY <1>t, <2>2, <2>3, <2>4 DEF SafetyInv, DatabaseChecks, JobsOnFailedRows, PhotosVerified,
       DeletedAccountsEmpty
<1>7. CASE markVerified(p)
  <2>1. f.pc = "verify"
    BY <1>7 DEF markVerified
  <2>2. CanVerify(p) => Sound(f.u, Verified(r))
    <3> SUFFICES ASSUME CanVerify(p) PROVE Sound(f.u, Verified(r))
      OBVIOUS
    <3>1. r.status = "processing" /\ r.finalKey = f.key
      BY DEF CanVerify, HoldsLease
    <3>2. f.key \in Images /\ <<f.u, f.key>> \in finals
      BY <2>1, <3>1 DEF SafetyInv, WrittenBeforeVerify
    <3>3. Owner[f.u] \notin deleted
      BY <1>b, <3>1 DEF Sound
    <3> QED
      BY <1>a, <3>1, <3>2, <3>3, VerifiedRow DEF Sound, RowChecks
  <2>3. \E x, g : /\ Sound(f.u, x) /\ (Update(p, x) \/ row' = row)
                  /\ fin' = [fin EXCEPT ![p] = g] /\ Fresh(g)
    BY <1>7, <1>b, <1>c, <1>d, <1>e, <2>2 DEF markVerified, Active
  <2> QED
    BY <1>0, <1>7, <1>t, <2>3, FinalizePreserves DEF markVerified
<1>8. CASE deleteStagingObject(p)
  <2>1. \E g : fin' = [fin EXCEPT ![p] = g] /\ Fresh(g)
    BY <1>8, <1>c, <1>d, <1>e DEF deleteStagingObject, Active
  <2> QED
    BY <1>0, <1>8, <1>b, <1>t, <2>1, FinalizePreserves DEF deleteStagingObject
<1>9. CASE markStagingDeleted(p)
  <2>1. Sound(f.u, Unstaged(r))
    BY <1>a, <1>b, UnstagedRow DEF Sound, RowChecks, SameFinal
  <2> QED
    BY <1>0, <1>9, <1>c, <1>d, <1>t, <2>1, FinalizePreserves DEF markStagingDeleted
<1>10. CASE FinalizeCrash(p)
  BY <1>0, <1>10, <1>b, <1>c, <1>d, <1>t, FinalizePreserves DEF FinalizeCrash
<1> QED
  BY <1>1, <1>2, <1>3, <1>4, <1>5, <1>6, <1>7, <1>8, <1>9, <1>10 DEF FinalizeStep

LEMMA SafetyClaimCleanup ==
  ASSUME SafetyInv, NEW batch \in SUBSET Uploads, NEW now \in Captured,
         claimCleanupBatch(batch, now)
  PROVE  SafetyInv'
<1>0. now \in Int
  BY CapturedType DEF SafetyInv
<1>1. \A u \in Uploads : row[u] \in RowType
  BY DEF SafetyInv, TypeOK
<1>2. \A u \in batch : CleanupJob(u, now) \in JobType
  BY <1>0, NewJob DEF SafetyInv
<1>3. \A u \in Uploads : row'[u] = IF u \in batch THEN CleanupClaimed(row[u], now) ELSE row[u]
  BY DEF claimCleanupBatch
<1>t. TypeOK'
  <2>1. row' \in [Uploads -> RowType]
    BY <1>0, <1>1, CleanupClaimedRow DEF claimCleanupBatch
  <2>2. jobs' \subseteq JobType
    BY <1>2 DEF claimCleanupBatch, SafetyInv, TypeOK
  <2> QED
    BY <2>1, <2>2 DEF hist, claimCleanupBatch, SafetyInv, TypeOK
<1>4. \A u \in Uploads : Sound(u, row'[u])
  <2> SUFFICES ASSUME NEW u \in Uploads PROVE Sound(u, row'[u])
    OBVIOUS
  <2>1. Sound(u, row[u])
    BY SoundSame
  <2>2. CASE u \in batch
    <3>1. row[u].status \in Open => row'[u].status = "failed"
      BY <1>0, <1>1, <1>3, <2>2, CleanupClaimedRow
    <3>2. row[u].status \notin Open => row'[u].status = row[u].status
      BY <1>0, <1>1, <1>3, <2>2, CleanupClaimedRow
    <3>3. SameFinal(row[u], row'[u])
      BY <1>0, <1>1, <1>3, <2>2, CleanupClaimedRow
    <3> QED
      BY <2>1, <3>1, <3>2, <3>3 DEF Sound, RowChecks, SameFinal, Open
  <2> QED
    BY <1>3, <2>1, <2>2
<1>5. JobsOnFailedRows'
  <2> SUFFICES ASSUME NEW j \in jobs'
               PROVE  /\ j.finalRes = "todo" => j.finalReq
                      /\ j.finalReq => row'[j.u].status = "failed" /\ row'[j.u].pendingDel
    BY DEF JobsOnFailedRows
  <2>1. CASE j \in jobs
    <3>1. j.u \in Uploads
      BY <2>1 DEF SafetyInv, TypeOK, JobType
    <3> QED
      BY <1>4, <2>1, <3>1 DEF SafetyInv, JobsOnFailedRows, Sound
  <2>2. CASE j \notin jobs
    <3>1. PICK u \in batch : j = CleanupJob(u, now)
      BY <2>2 DEF claimCleanupBatch
    <3>2. /\ j.u = u
          /\ j.finalReq <=> FinalDue(row[u])
          /\ j.finalRes = "todo" => FinalDue(row[u])
      BY <1>0, <3>1, NewJob DEF SafetyInv
    <3>3. FinalDue(row[u]) => row[u].status # "verified" /\ row[u].pendingDel
      BY DEF FinalDue, SafetyInv, VerifiedSettled
    <3>4. row[u].status # "absent"
      BY DEF claimCleanupBatch, cleanupDue
    <3>5. row[u].status \in Open \cup {"verified", "failed"}
      BY <1>1, <3>4 DEF RowType, Statuses
    <3>6. row[u].status # "verified" => row'[u].status = "failed"
      BY <1>0, <1>1, <1>3, <3>5, CleanupClaimedRow DEF Open
    <3>7. row'[u].pendingDel = row[u].pendingDel
      BY <1>0, <1>1, <1>3, CleanupClaimedRow DEF SameFinal
    <3> QED
      BY <3>2, <3>3, <3>6, <3>7
  <2> QED
    BY <2>1, <2>2
<1>6. UNCHANGED <<finals, photos, deleted, fin>>
  BY DEF claimCleanupBatch
<1> QED
  BY <1>t, <1>4, <1>5, <1>6, RowsPreserve DEF SafetyInv

LEMMA SafetyCleanup ==
  ASSUME SafetyInv, NEW j \in jobs, CleanupStep(j) \/ CleanupCrash(j)
  PROVE  SafetyInv'
<1>0. j \in JobType /\ j.u \in Uploads /\ row[j.u] \in RowType
  BY DEF SafetyInv, TypeOK, JobType
<1>f. Fault => faults' \in Nat
  BY DEF Fault, SafetyInv, TypeOK
<1>1. CASE deleteStaging(j)
  <2>1. PICK res \in {"ok", "err"} : jobs' = (jobs \ {j}) \cup {WithStaging(j, res)}
    BY <1>1 DEF deleteStaging, Replace
  <2>2. TypeOK'
    BY <1>0, <1>1, <1>f, <2>1, JobResult DEF deleteStaging, SafetyInv, TypeOK
  <2>3. JobsOnFailedRows'
    BY <1>0, <1>1, <2>1, JobResult DEF deleteStaging, SafetyInv, JobsOnFailedRows
  <2> QED
    BY <1>1, <2>2, <2>3 DEF deleteStaging, SafetyInv, DatabaseChecks, WrittenBeforeVerify,
       VerifiedSettled, PhotosVerified, DeletedAccountsEmpty
<1>2. CASE deleteFinal(j)
  <2>1. PICK res \in {"ok", "err"} : jobs' = (jobs \ {j}) \cup {WithFinal(j, res)}
    BY <1>2 DEF deleteFinal, Replace
  <2>2. row[j.u].status = "failed"
    BY <1>2 DEF deleteFinal, SafetyInv, JobsOnFailedRows
  <2>3. TypeOK'
    BY <1>0, <1>2, <1>f, <2>1, JobResult DEF deleteFinal, SafetyInv, TypeOK
  <2>4. JobsOnFailedRows'
    BY <1>0, <1>2, <2>1, JobResult DEF deleteFinal, SafetyInv, JobsOnFailedRows
  <2>5. \A obj \in finals : row[obj[1]].status # "failed" => obj \in finals'
    BY <1>2, <2>2 DEF deleteFinal
  <2>6. WrittenBeforeVerify'
    BY <1>2, <2>5 DEF deleteFinal, SafetyInv, WrittenBeforeVerify
  <2>7. VerifiedSettled'
    BY <1>2, <2>5 DEF deleteFinal, SafetyInv, VerifiedSettled
  <2> QED
    BY <1>2, <2>3, <2>4, <2>6, <2>7 DEF deleteFinal, SafetyInv, DatabaseChecks,
       PhotosVerified, DeletedAccountsEmpty
<1>3. CASE applyCleanupResult(j)
  <2>1. Cleaned(row[j.u], j) \in RowType
    BY <1>0, CleanedRow
  <2>2. TypeOK'
    BY <1>0, <1>3, <2>1 DEF hist, applyCleanupResult, SafetyInv, TypeOK
  <2>3. Sound(j.u, Cleaned(row[j.u], j))
    <3> DEFINE c == Cleaned(row[j.u], j)
    <3>1. Sound(j.u, row[j.u])
      BY <1>0, SoundSame
    <3>2. c.status = row[j.u].status /\ c.pendingDel = row[j.u].pendingDel
      BY <1>0, CleanedRow
    <3>3. CASE FinalDone(j)
      <4>1. row[j.u].status = "failed" /\ row[j.u].pendingDel
        BY <3>3 DEF FinalDone, SafetyInv, JobsOnFailedRows
      <4>2. c.finalDel = TRUE
        BY <1>0, <3>3, CleanedRow
      <4> QED
        BY <3>1, <3>2, <4>1, <4>2 DEF Sound, RowChecks
    <3>4. CASE ~ FinalDone(j)
      <4>1. SameFinal(row[j.u], c)
        BY <1>0, <3>4, CleanedRow
      <4> QED
        BY <3>1, <3>2, <4>1 DEF Sound, RowChecks, SameFinal
    <3> QED
      BY <3>3, <3>4
  <2>4. \A u \in Uploads : Sound(u, row'[u])
    BY <1>0, <1>3, <2>3, SoundSame DEF applyCleanupResult, SafetyInv, TypeOK
  <2>5. jobs' \subseteq jobs /\ UNCHANGED <<finals, photos, deleted, fin>>
    BY <1>3 DEF applyCleanupResult
  <2> QED
    BY <2>2, <2>4, <2>5, RowsPreserve DEF SafetyInv
<1>4. CASE CleanupCrash(j)
  BY <1>4, <1>f DEF hist, CleanupCrash, SafetyInv, TypeOK, DatabaseChecks, JobsOnFailedRows,
     WrittenBeforeVerify, VerifiedSettled, PhotosVerified, DeletedAccountsEmpty
<1> QED
  BY <1>1, <1>2, <1>3, <1>4 DEF CleanupStep

LEMMA SafetyAccount ==
  ASSUME SafetyInv, NEW user \in Users, anonymizeDeletedAccount(user)
  PROVE  SafetyInv'
<1>1. \A u \in Uploads : row[u] \in RowType
  BY DEF SafetyInv, TypeOK
<1>2. \A u \in Uploads :
        row'[u] = IF u \in OwnedBy(user) THEN AnonymizedRow(row[u]) ELSE row[u]
  BY DEF anonymizeDeletedAccount
<1>0. \A u \in OwnedBy(user) : row'[u].status = "failed"
  <2> SUFFICES ASSUME NEW u \in OwnedBy(user) PROVE row'[u].status = "failed"
    OBVIOUS
  <2>1. u \in Uploads
    BY DEF OwnedBy
  <2>2. row'[u] = AnonymizedRow(row[u])
    BY <1>2, <2>1
  <2>3. row[u] \in RowType
    BY <1>1, <2>1
  <2> QED
    BY <2>2, <2>3, AnonymizedRowFacts
<1>3. \A u \in Uploads : Owner[u] = user => row'[u].status \in {"absent", "failed"}
  BY <1>0, <1>2 DEF OwnedBy
<1>4. \A u \in Uploads : Owner[u] # user => row'[u] = row[u]
  BY <1>2 DEF OwnedBy
<1>5. \A u \in Uploads : row[u].status = "failed" => row'[u].status = "failed"
  BY <1>0, <1>2
<1>6. \A u \in Uploads : row[u].pendingDel => row'[u].pendingDel
  BY <1>1, <1>2, AnonymizedRowFacts
<1>t. TypeOK'
  <2>1. row' \in [Uploads -> RowType]
    BY <1>1, AnonymizedRowFacts DEF anonymizeDeletedAccount
  <2> QED
    BY <2>1 DEF hist, anonymizeDeletedAccount, SafetyInv, TypeOK
<1>7. DatabaseChecks'
  <2> SUFFICES ASSUME NEW u \in Uploads
               PROVE  /\ row'[u].status = "verified" => row'[u].finalKey # None
                      /\ RowChecks(row'[u])
    BY DEF DatabaseChecks, RowChecks
  <2>1. RowChecks(row[u]) /\ (row[u].status = "verified" => row[u].finalKey # None)
    BY DEF SafetyInv, DatabaseChecks, RowChecks
  <2>2. CASE u \in OwnedBy(user)
    <3>1. row'[u] = AnonymizedRow(row[u])
      BY <1>2, <2>2
    <3>2. row[u].finalDel \in BOOLEAN /\ row[u].pendingDel \in BOOLEAN
      BY <1>1 DEF RowType
    <3> QED
      BY <1>1, <2>1, <3>1, <3>2, AnonymizedRowFacts DEF RowChecks
  <2> QED
    BY <1>2, <2>1, <2>2
<1>8. JobsOnFailedRows'
  <2>1. jobs' = jobs /\ \A j \in jobs : j.u \in Uploads
    BY DEF anonymizeDeletedAccount, SafetyInv, TypeOK, JobType
  <2> QED
    BY <1>5, <1>6, <2>1 DEF SafetyInv, JobsOnFailedRows
<1>9. WrittenBeforeVerify'
  <2>1. fin' = fin /\ finals' = finals
    BY DEF anonymizeDeletedAccount
  <2>2. \A p \in Finalizers : fin[p].pc = "verify" => fin[p].u \in Uploads
    BY FinFacts DEF SafetyInv, TypeOK
  <2> QED
    BY <1>5, <2>1, <2>2 DEF SafetyInv, WrittenBeforeVerify
<1>10. VerifiedSettled'
  <2>1. finals' = finals
    BY DEF anonymizeDeletedAccount
  <2>2. \A u \in Uploads : row'[u].status = "verified" => row'[u] = row[u]
    BY <1>3, <1>4
  <2> QED
    BY <2>1, <2>2 DEF SafetyInv, VerifiedSettled
<1>11. \A other \in Users : photos'[other] = IF other = user THEN {} ELSE photos[other]
  BY DEF anonymizeDeletedAccount, SafetyInv, TypeOK
<1>12. PhotosVerified'
  BY <1>4, <1>11 DEF SafetyInv, PhotosVerified
<1>13. DeletedAccountsEmpty'
  <2>1. deleted' = deleted \cup {user} /\ deleted \subseteq Users
    BY DEF anonymizeDeletedAccount, SafetyInv, TypeOK
  <2> QED
    BY <1>3, <1>4, <1>11, <2>1 DEF SafetyInv, DeletedAccountsEmpty
<1> QED
  BY <1>t, <1>7, <1>8, <1>9, <1>10, <1>12, <1>13 DEF SafetyInv

LEMMA SafetyRequests ==
  ASSUME SafetyInv,
         \/ Tick
         \/ \E u \in Uploads, now \in Captured : createUpload(u, now)
         \/ \E u \in Uploads, c \in Images \cup {Garbage} : ClientPut(u, c)
         \/ \E p \in Finalizers, u \in Uploads : finalizeUpload(p, u)
         \/ \E user \in Users : scheduleDeletion(user) \/ restoreScheduledDeletion(user)
         \/ UNCHANGED vars
  PROVE  SafetyInv'
<1> USE DEF SafetyInv
<1>1. CASE Tick
  BY <1>1 DEF hist, Tick, TypeOK, DatabaseChecks, JobsOnFailedRows, WrittenBeforeVerify,
     VerifiedSettled, PhotosVerified, DeletedAccountsEmpty
<1>2. ASSUME NEW u \in Uploads, NEW now \in Captured, createUpload(u, now) PROVE SafetyInv'
  <2>1. now + UploadTtl \in Int
    BY TimesOK, CapturedType
  <2>2. Pending(now + UploadTtl) \in RowType
    BY <2>1, PendingRow
  <2>3. TypeOK'
    BY <1>2, <2>2 DEF hist, createUpload, TypeOK
  <2>4. Sound(u, Pending(now + UploadTtl))
    BY <1>2, <2>1, PendingRow DEF createUpload, AuthenticatedAt, Sound, RowChecks
  <2>5. \A v \in Uploads : Sound(v, row'[v])
    BY <1>2, <2>4, SoundSame DEF createUpload, TypeOK
  <2>6. UNCHANGED <<finals, photos, deleted, fin, jobs>>
    BY <1>2 DEF createUpload
  <2> QED
    BY <2>3, <2>5, <2>6, RowsPreserve
<1>3. ASSUME NEW u \in Uploads, NEW c \in Images \cup {Garbage}, ClientPut(u, c) PROVE SafetyInv'
  BY <1>3 DEF ClientPut, TypeOK, DatabaseChecks, JobsOnFailedRows, WrittenBeforeVerify,
     VerifiedSettled, PhotosVerified, DeletedAccountsEmpty
<1>4. ASSUME NEW p \in Finalizers, NEW u \in Uploads, finalizeUpload(p, u) PROVE SafetyInv'
  <2>1. Request(u, clock) \in FinType /\ Fresh(Request(u, clock))
    BY RequestFacts DEF TypeOK, Fresh
  <2>2. TypeOK'
    BY <1>4, <2>1 DEF hist, finalizeUpload, TypeOK
  <2>3. \A v \in Uploads : Sound(v, row'[v])
    BY <1>4, SoundSame DEF finalizeUpload
  <2>4. \A q \in Finalizers : fin'[q] = fin[q] \/ Fresh(fin'[q])
    BY <1>4, <2>1 DEF finalizeUpload, TypeOK
  <2>5. UNCHANGED <<finals, photos, deleted, jobs>>
    BY <1>4 DEF finalizeUpload
  <2> QED
    BY <2>2, <2>3, <2>4, <2>5, RowsPreserve
<1>5. ASSUME NEW user \in Users, scheduleDeletion(user) \/ restoreScheduledDeletion(user)
      PROVE  SafetyInv'
  BY <1>5 DEF hist, scheduleDeletion, restoreScheduledDeletion, TypeOK, Time, DatabaseChecks,
     JobsOnFailedRows, WrittenBeforeVerify, VerifiedSettled, PhotosVerified, DeletedAccountsEmpty
<1>6. CASE UNCHANGED vars
  BY <1>6 DEF hist, vars, TypeOK, DatabaseChecks, JobsOnFailedRows, WrittenBeforeVerify,
     VerifiedSettled, PhotosVerified, DeletedAccountsEmpty
<1> QED
  BY <1>1, <1>2, <1>3, <1>4, <1>5, <1>6

LEMMA SafetyProfile ==
  ASSUME SafetyInv, NEW user \in Users, NEW shown \in SUBSET (Uploads \cup LegacyPhotos),
         replaceProfile(user, shown)
  PROVE  SafetyInv' /\ user \notin deleted
<1>1. user \notin deleted
  BY DEF replaceProfile, VerifiedOf, SafetyInv, DeletedAccountsEmpty
<1>2. \A other \in Users : photos'[other] = IF other = user THEN shown ELSE photos[other]
  BY DEF replaceProfile, SafetyInv, TypeOK
<1>3. PhotosVerified'
  <2>1. \A u \in shown \cap Uploads : Owner[u] = user /\ row[u].status = "verified"
    BY ConstantsOK DEF replaceProfile, VerifiedOf
  <2> QED
    BY <1>2, <2>1 DEF replaceProfile, SafetyInv, PhotosVerified
<1>4. DeletedAccountsEmpty'
  BY <1>1, <1>2 DEF replaceProfile, SafetyInv, TypeOK, DeletedAccountsEmpty
<1> QED
  BY <1>1, <1>3, <1>4 DEF hist, replaceProfile, SafetyInv, TypeOK, DatabaseChecks, JobsOnFailedRows,
     WrittenBeforeVerify, VerifiedSettled

LEMMA SafetyInit == Init => SafetyInv
<1> SUFFICES ASSUME Init PROVE SafetyInv
  OBVIOUS
<1>1. TypeOK
  BY InitType
<1>2. \A u \in Uploads : row[u].status = "absent" /\ ~ row[u].pendingDel /\ ~ row[u].finalDel
  BY DEF Init, Absent
<1>3. \A p \in Finalizers : fin[p].pc = "idle"
  BY DEF Init, Idle
<1>4. \A user \in Users : photos[user] \cap Uploads = {}
  BY ConstantsOK DEF Init
<1> QED
  BY <1>1, <1>2, <1>3, <1>4 DEF Init, SafetyInv, DatabaseChecks, JobsOnFailedRows,
     WrittenBeforeVerify, VerifiedSettled, PhotosVerified, DeletedAccountsEmpty

LEMMA SafetyNext == SafetyInv /\ [Next]_vars => SafetyInv'
  BY SafetyRequests, SafetyFinalize, SafetyClaimCleanup, SafetyCleanup, SafetyProfile,
     SafetyAccount DEF Next

LEMMA SafetyAlways == Spec => []SafetyInv
  BY SafetyInit, SafetyNext, PTL DEF Spec

\* Type correctness of the pipeline.
THEOREM TypeCorrect == Spec => []TypeOK
<1>1. SafetyInv => TypeOK
  BY DEF SafetyInv
<1> QED
  BY <1>1, SafetyAlways, PTL

\* No statement of the pipeline is ever aborted by the CHECK constraints of
\* migrations 0014 and 0015b.
THEOREM ChecksNeverFire == Spec => []DatabaseChecks
<1>1. SafetyInv => DatabaseChecks
  BY DEF SafetyInv
<1> QED
  BY <1>1, SafetyAlways, PTL

\* The object of a verified upload is in R2, whatever the interleaving of
\* finalizers and cleanup jobs and however late their calls.
THEOREM VerifiedStored == Spec => []VerifiedObjectStored
<1>1. SafetyInv => VerifiedObjectStored
  BY DEF SafetyInv, VerifiedSettled, VerifiedObjectStored
<1> QED
  BY <1>1, SafetyAlways, PTL

\* Every upload shown in a profile belongs to it, is verified and is stored.
THEOREM ProfilesServed == Spec => []PhotosServed
<1>1. SafetyInv => PhotosServed
  BY DEF SafetyInv, PhotosVerified, VerifiedSettled, PhotosServed
<1> QED
  BY <1>1, SafetyAlways, PTL

-----------------------------------------------------------------------------
(* Refinement of UploadLifecycle *)

LifeState(st) == IF st \in Open THEN "open" ELSE st

LEMMA LifecycleInit == Init => Lifecycle!LInit
  BY DEF Init, Absent, Lifecycle!LInit, Open

\* Steps that leave every row's life-cycle state, the photos and the accounts
\* alone are stuttering steps.
LEMMA LifecycleStutter ==
  ASSUME \A u \in Uploads : LifeState(row'[u].status) = LifeState(row[u].status),
         UNCHANGED <<photos, deleted>>
  PROVE  UNCHANGED Lifecycle!lvars
  BY DEF Lifecycle!lvars, LifeState

\* Failing a set of open rows is Expire.
LEMMA LifecycleExpire ==
  ASSUME NEW us \in SUBSET Uploads,
         \A u \in us : row[u].status \in Open /\ row'[u].status = "failed",
         \A u \in Uploads \ us : LifeState(row'[u].status) = LifeState(row[u].status),
         UNCHANGED <<photos, deleted>>
  PROVE  Lifecycle!Expire(us)
  BY DEF Lifecycle!Expire, LifeState, Open

LEMMA LifecycleNext ==
  ASSUME SafetyInv, [Next]_vars
  PROVE  [Lifecycle!LNext]_(Lifecycle!lvars)
<1>t. row \in [Uploads -> RowType] /\ deleted \subseteq Users
  BY DEF SafetyInv, TypeOK
<1>1. CASE \/ UNCHANGED vars \/ Tick
           \/ \E u \in Uploads, c \in Images \cup {Garbage} : ClientPut(u, c)
           \/ \E p \in Finalizers, u \in Uploads : finalizeUpload(p, u)
           \/ \E user \in Users : scheduleDeletion(user) \/ restoreScheduledDeletion(user)
  <2>1. UNCHANGED <<row, photos, deleted>>
    BY <1>1 DEF vars, Tick, ClientPut, finalizeUpload, scheduleDeletion, restoreScheduledDeletion
  <2> QED
    BY <2>1, LifecycleStutter
<1>2. ASSUME NEW u \in Uploads, NEW now \in Captured, createUpload(u, now)
      PROVE  Lifecycle!OpenUpload(u)
  <2>1. now + UploadTtl \in Int
    BY TimesOK, CapturedType DEF SafetyInv
  <2>2. Pending(now + UploadTtl).status = "pending"
    BY <2>1, PendingRow
  <2> QED
    BY <1>2, <1>t, <2>2 DEF createUpload, AuthenticatedAt, Lifecycle!OpenUpload, Open
<1>3. ASSUME NEW p \in Finalizers, FinalizeStep(p) \/ FinalizeCrash(p)
      PROVE  [Lifecycle!LNext]_(Lifecycle!lvars)
  <2>0. fin[p].pc # "idle"
    BY <1>3 DEF FinalizeStep, FinalizeCrash, claimFinalize, readStagingObject, markFailed,
       releaseFinalizeLease, prepareFinalObject, putFinalObject, markVerified,
       deleteStagingObject, markStagingDeleted
  <2>v. fin[p].u \in Uploads /\ row[fin[p].u] \in RowType /\ fin[p].lease \in Int
    BY <2>0, FinRow DEF SafetyInv
  <2>p. PICK u \in Uploads : u = fin[p].u
    BY <2>v
  <2> DEFINE r == row[u]
  <2>a. u \in Uploads /\ r \in RowType /\ fin[p].lease \in Int
    BY <2>v, <2>p
  <2>u. UNCHANGED <<photos, deleted>>
    BY <1>3 DEF FinalizeStep, FinalizeCrash, claimFinalize, readStagingObject, markFailed,
       releaseFinalizeLease, prepareFinalObject, putFinalObject, markVerified,
       deleteStagingObject, markStagingDeleted
  <2>s. ASSUME \/ row' = row
               \/ \E s : Update(p, s) /\ LifeState(s.status) = LifeState(r.status)
        PROVE  UNCHANGED Lifecycle!lvars
    BY <1>t, <2>a, <2>p, <2>u, <2>s, LifecycleStutter DEF Update
  <2>f. ASSUME r.status \in Open, Update(p, Failed(r)) PROVE Lifecycle!Expire({u})
    <3>1. Failed(r).status = "failed"
      BY <2>a, FailedRow
    <3>2. row'[u] = Failed(r) /\ \A v \in Uploads \ {u} : row'[v] = row[v]
      BY <1>t, <2>a, <2>p, <2>f DEF Update
    <3>3. \A v \in Uploads \ {u} : LifeState(row'[v].status) = LifeState(row[v].status)
      BY <3>2
    <3>4. \A v \in {u} : row[v].status \in Open /\ row'[v].status = "failed"
      BY <2>f, <3>1, <3>2
    <3>5. {u} \in SUBSET Uploads
      BY <2>a
    <3> HIDE DEF r
    <3> QED
      BY <3>3, <3>4, <3>5, <2>u, LifecycleExpire
  <2>g. Lifecycle!Expire({u}) => Lifecycle!LNext
    <3>1. {u} \in SUBSET Uploads
      BY <2>a
    <3> QED
      BY <3>1 DEF Lifecycle!LNext
  <2>1. CASE claimFinalize(p)
    <3>1. Claimed(r, fin[p].lease).status = "processing"
      BY <2>a, ClaimedRow
    <3>2. \/ row' = row
          \/ r.status \in Open /\ Update(p, Failed(r))
          \/ r.status \in Open /\ Update(p, Claimed(r, fin[p].lease))
      BY <2>1, <2>p DEF claimFinalize
    <3>3. r.status \in Open => LifeState(Claimed(r, fin[p].lease).status) = LifeState(r.status)
      BY <3>1 DEF LifeState, Open
    <3> HIDE DEF r
    <3> QED
      BY <3>2, <3>3, <2>s, <2>f, <2>g
  <2>2. CASE readStagingObject(p) \/ putFinalObject(p) \/ deleteStagingObject(p) \/ FinalizeCrash(p)
    BY <2>2, <2>s DEF readStagingObject, putFinalObject, deleteStagingObject, FinalizeCrash
  <2>3. CASE markFailed(p)
    <3>1. row' = row \/ (r.status \in Open /\ Update(p, Failed(r)))
      BY <2>3, <2>p DEF markFailed, HoldsLease, Open
    <3> HIDE DEF r
    <3> QED
      BY <3>1, <2>s, <2>f, <2>g
  <2>4. CASE releaseFinalizeLease(p)
    <3>1. Released(r).status = "pending"
      BY <2>a, ReleasedRow
    <3> QED
      BY <2>4, <2>p, <2>s, <3>1 DEF releaseFinalizeLease, HoldsLease, LifeState, Open
  <2>5. CASE prepareFinalObject(p)
    <3>1. fin[p].key \in Images
      BY <2>5 DEF prepareFinalObject, SafetyInv, WrittenBeforeVerify
    <3>2. Prepared(r, fin[p].key, fin[p].lease).status = r.status
      BY <2>a, <3>1, PreparedRow
    <3> QED
      BY <2>5, <2>p, <2>s, <3>2 DEF prepareFinalObject
  <2>6. CASE markVerified(p)
    <3>1. Verified(r).status = "verified"
      BY <2>a, VerifiedRow
    <3>2. CASE CanVerify(p)
      <4>1. Update(p, Verified(r)) /\ r.status = "processing"
        BY <2>6, <2>p, <3>2 DEF markVerified, CanVerify, HoldsLease
      <4>2. Lifecycle!Verify(u)
        BY <1>t, <2>a, <2>p, <2>u, <3>1, <4>1 DEF Update, Lifecycle!Verify, Open
      <4> QED
        BY <2>a, <4>2 DEF Lifecycle!LNext
    <3> QED
      BY <2>6, <2>s, <3>2 DEF markVerified
  <2>7. CASE markStagingDeleted(p)
    <3>1. Unstaged(r).status = r.status
      BY <2>a, UnstagedRow
    <3> QED
      BY <2>7, <2>p, <2>s, <3>1 DEF markStagingDeleted
  <2> QED
    BY <1>3, <2>1, <2>2, <2>3, <2>4, <2>5, <2>6, <2>7 DEF FinalizeStep
<1>4. ASSUME NEW batch \in SUBSET Uploads, NEW now \in Captured, claimCleanupBatch(batch, now)
      PROVE  Lifecycle!LNext
  <2>0. now \in Int
    BY CapturedType DEF SafetyInv
  <2>1. \A u \in Uploads : row'[u] = IF u \in batch THEN CleanupClaimed(row[u], now) ELSE row[u]
    BY <1>4 DEF claimCleanupBatch
  <2>2. \A u \in batch : row[u].status \in Open => row'[u].status = "failed"
    BY <1>t, <2>0, <2>1, CleanupClaimedRow
  <2>3. \A u \in Uploads : ~ (u \in batch /\ row[u].status \in Open)
                           => row'[u].status = row[u].status
    BY <1>t, <2>0, <2>1, CleanupClaimedRow
  <2>4. UNCHANGED <<photos, deleted>>
    BY <1>4 DEF claimCleanupBatch
  <2>5. PICK us \in SUBSET Uploads : us = {u \in batch : row[u].status \in Open}
    OBVIOUS
  <2>6. \A u \in us : row[u].status \in Open /\ row'[u].status = "failed"
    BY <2>2, <2>5
  <2>7. \A u \in Uploads \ us : LifeState(row'[u].status) = LifeState(row[u].status)
    BY <2>3, <2>5
  <2>8. Lifecycle!Expire(us)
    BY <2>4, <2>6, <2>7, LifecycleExpire
  <2> QED
    BY <2>8 DEF Lifecycle!LNext
<1>5. ASSUME NEW j \in jobs, CleanupStep(j) \/ CleanupCrash(j)
      PROVE  UNCHANGED Lifecycle!lvars
  <2>0. j \in JobType /\ j.u \in Uploads
    BY DEF SafetyInv, TypeOK, JobType
  <2>1. Cleaned(row[j.u], j).status = row[j.u].status
    BY <1>t, <2>0, CleanedRow
  <2>2. /\ \A u \in Uploads : row'[u].status = row[u].status
        /\ UNCHANGED <<photos, deleted>>
    BY <1>5, <1>t, <2>0, <2>1 DEF CleanupStep, CleanupCrash, deleteStaging, deleteFinal,
       applyCleanupResult
  <2> QED
    BY <2>2, LifecycleStutter
<1>6. ASSUME NEW user \in Users, NEW ps \in SUBSET (Uploads \cup LegacyPhotos),
             replaceProfile(user, ps)
      PROVE  Lifecycle!Show(user, ps)
  <2>1. user \notin deleted
    BY <1>6, SafetyProfile
  <2> QED
    BY <1>6, <1>t, <2>1 DEF replaceProfile, VerifiedOf, Lifecycle!Show, Open
<1>7. ASSUME NEW user \in Users, anonymizeDeletedAccount(user)
      PROVE  Lifecycle!Forget(user)
  <2>1. \A u \in Uploads :
          row'[u] = IF u \in OwnedBy(user) THEN AnonymizedRow(row[u]) ELSE row[u]
    BY <1>7 DEF anonymizeDeletedAccount
  <2>2. \A u \in Uploads : AnonymizedRow(row[u]).status = "failed"
    BY <1>t, AnonymizedRowFacts
  <2>3. \A u \in Uploads :
          LifeState(row'[u].status) = IF Owner[u] = user /\ LifeState(row[u].status) # "absent"
                                      THEN "failed" ELSE LifeState(row[u].status)
    BY <2>1, <2>2 DEF OwnedBy, LifeState, Open
  <2> QED
    BY <1>7, <2>3 DEF anonymizeDeletedAccount, Lifecycle!Forget, LifeState
<1>n2. ASSUME NEW u \in Uploads, NEW now \in Captured, createUpload(u, now)
       PROVE  Lifecycle!LNext
  BY <1>2, <1>n2 DEF Lifecycle!LNext
<1>n6. ASSUME NEW user \in Users, NEW ps \in SUBSET (Uploads \cup LegacyPhotos),
              replaceProfile(user, ps)
       PROVE  Lifecycle!LNext
  BY <1>6, <1>n6 DEF Lifecycle!LNext
<1>n7. ASSUME NEW user \in Users, anonymizeDeletedAccount(user)
       PROVE  Lifecycle!LNext
  BY <1>7, <1>n7 DEF Lifecycle!LNext
<1> QED
  BY <1>1, <1>n2, <1>3, <1>4, <1>5, <1>n6, <1>n7 DEF Next

\* The pipeline, with its leases, retries, crashes and late calls, implements
\* the life cycle: an upload is settled once, only an account deletion revokes
\* a verified one, and profiles only ever show verified uploads.
THEOREM LifecycleRefined == Spec => ImplementsLifecycle
<1>1. SafetyInv /\ [Next]_vars => [Lifecycle!LNext]_(Lifecycle!lvars)
  BY LifecycleNext
<1> QED
  BY <1>1, LifecycleInit, SafetyAlways, PTL DEF Spec, ImplementsLifecycle, Lifecycle!LSpec
-----------------------------------------------------------------------------
(* Every final object put within its lease is named by its row             *)

Working == {"read", "fail", "release", "prepare", "put", "verify"}

\* A request past its claim whose lease has not lapsed.
Live(p) == fin[p].pc \in Working /\ clock < fin[p].lease

\* A request was admitted before its account was hidden, and its lease is
\* counted from then.
LeasesTimed ==
    \A p \in Finalizers : fin[p].pc # "idle" =>
      LET since == hidden[Owner[fin[p].u]]
      IN  /\ fin[p].lease = fin[p].now + FinalizeLease
          /\ fin[p].now <= clock
          /\ since # None => fin[p].now <= since

\* A live request has the row to itself until the row fails.
LiveHolds ==
    \A p \in Finalizers : Live(p) =>
      \/ row[fin[p].u].status = "failed"
      \/ row[fin[p].u].status = "processing" /\ row[fin[p].u].procLease = fin[p].lease

LiveAlone ==
    \A p, q \in Finalizers : Live(p) /\ Live(q) /\ fin[p].u = fin[q].u => p = q

\* The key is recorded, and cleanup kept away, while its PUT may land.
PutGuarded ==
    \A p \in Finalizers : Live(p) /\ fin[p].pc = "put" =>
      LET r == row[fin[p].u]
      IN  r.finalKey = fin[p].key /\ r.cleanLease # None /\ r.cleanLease >= fin[p].lease

NoLivePut(u) == ~ \E p \in Finalizers : Live(p) /\ fin[p].pc = "put" /\ fin[p].u = u

Settled == {"verified", "failed"}
Unstaging == {"unstage", "unstaged"}

\* A job was claimed when no PUT of its upload was under way, and its row no
\* longer admits one; what it has deleted stays deleted.
JobTracked(j) ==
    /\ row[j.u].status \in Settled /\ NoLivePut(j.u)
    /\ j.finalReq => /\ row[j.u].finalKey \in {j.key, None}
                     /\ j.finalRes = "ok" => <<j.u, j.key>> \notin Prompt

JobsTrack == \A j \in jobs : JobTracked(j)

UnstagingSettled ==
    \A p \in Finalizers : fin[p].pc \in Unstaging =>
      row[fin[p].u].status \in Settled /\ NoLivePut(fin[p].u)

AbsentEmpty == \A u \in Uploads : row[u].status = "absent" => row[u].finalKey = None

\* Inductive together with SafetyInv, under a grace period at least as long
\* as the finalize lease.
TrackInv ==
    /\ LeasesTimed /\ LiveHolds /\ LiveAlone /\ PutGuarded
    /\ JobsTrack /\ UnstagingSettled /\ AbsentEmpty /\ FinalObjectTracked

\* Live requests for u other than the one that moves (movers is a set of at
\* most one request).
Others(movers, u) == {q \in Finalizers \ movers : Live(q) /\ fin[q].u = u}

\* s may replace the row of u while the other requests stay where they are.
Keeps(movers, u, s) ==
    /\ row[u].status \in Settled => s.status \in Settled
    /\ s.status = "absent" => s.finalKey = None
    /\ \A q \in Others(movers, u) :
         /\ s.status = "failed" \/ (s.status = "processing" /\ s.procLease = fin[q].lease)
         /\ fin[q].pc = "put" => s.cleanLease # None /\ s.cleanLease >= fin[q].lease
    /\ \/ s.finalKey = row[u].finalKey
       \/ /\ \A obj \in Prompt : obj[1] # u
          /\ \A q \in Others(movers, u) : fin[q].pc # "put"
          /\ s.finalKey = None \/ \A j \in jobs : j.u # u

\* g may become the state of a request whose row becomes s.
Settles(movers, g, s) ==
    /\ g.pc \in Working /\ clock < g.lease =>
         /\ Others(movers, g.u) = {}
         /\ s.status = "failed" \/ (s.status = "processing" /\ s.procLease = g.lease)
         /\ g.pc = "put" =>
              /\ s.finalKey = g.key /\ s.cleanLease # None /\ s.cleanLease >= g.lease
              /\ \A j \in jobs : j.u # g.u
              /\ \A q \in Finalizers \ movers : fin[q].pc \in Unstaging => fin[q].u # g.u
    /\ g.pc \in Unstaging =>
         s.status \in Settled /\ \A q \in Others(movers, g.u) : fin[q].pc # "put"

LEMMA TrackFrame ==
  ASSUME SafetyInv, TrackInv, TypeOK', clock' = clock,
         NEW movers \in SUBSET Finalizers, \A p, q \in movers : p = q,
         \A q \in Finalizers \ movers : fin'[q] = fin[q],
         \A u \in Uploads : Keeps(movers, u, row'[u]),
         \A p \in movers : Settles(movers, fin'[p], row'[fin'[p].u]),
         \A obj \in Prompt' : \/ obj \in Prompt
                              \/ row'[obj[1]].finalKey = obj[2] /\ \A j \in jobs : j.u # obj[1]
  PROVE  /\ LiveHolds' /\ LiveAlone' /\ PutGuarded' /\ UnstagingSettled' /\ AbsentEmpty'
         /\ FinalObjectTracked'
         /\ \A j \in jobs : JobTracked(j)'
<1>1. \A q \in Finalizers : fin[q].pc # "idle" => fin[q].u \in Uploads
  BY FinFacts DEF SafetyInv, TypeOK
<1>2. \A q \in Finalizers \ movers :
        /\ Live(q)' <=> Live(q)
        /\ Live(q) => q \in Others(movers, fin[q].u) /\ fin[q].u \in Uploads
  BY <1>1 DEF Live, Working, Others
<1>3. \A p \in movers : Live(p)' <=> fin'[p].pc \in Working /\ clock < fin'[p].lease
  BY DEF Live
<1>4. LiveHolds'
  <2> SUFFICES ASSUME NEW q \in Finalizers, Live(q)'
               PROVE  \/ row'[fin'[q].u].status = "failed"
                      \/ /\ row'[fin'[q].u].status = "processing"
                         /\ row'[fin'[q].u].procLease = fin'[q].lease
    BY DEF LiveHolds
  <2>1. CASE q \in movers
    BY <1>3, <2>1 DEF Settles
  <2>2. CASE q \notin movers
    BY <1>2, <2>2 DEF Keeps
  <2> QED
    BY <2>1, <2>2
<1>5. LiveAlone'
  <2> SUFFICES ASSUME NEW p \in Finalizers, NEW q \in Finalizers, Live(p)', Live(q)',
                      fin'[p].u = fin'[q].u
               PROVE  p = q
    BY DEF LiveAlone
  <2>1. CASE p \in movers /\ q \notin movers
    BY <1>2, <1>3, <2>1 DEF Settles
  <2>2. CASE p \notin movers /\ q \in movers
    BY <1>2, <1>3, <2>2 DEF Settles
  <2>3. CASE p \notin movers /\ q \notin movers
    BY <1>2, <2>3 DEF TrackInv, LiveAlone
  <2> QED
    BY <2>1, <2>2, <2>3
<1>6. PutGuarded'
  <2> SUFFICES ASSUME NEW q \in Finalizers, Live(q)', fin'[q].pc = "put"
               PROVE  /\ row'[fin'[q].u].finalKey = fin'[q].key
                      /\ row'[fin'[q].u].cleanLease # None
                      /\ row'[fin'[q].u].cleanLease >= fin'[q].lease
    BY DEF PutGuarded
  <2>1. CASE q \in movers
    BY <1>3, <2>1 DEF Settles
  <2>2. CASE q \notin movers
    <3>1. fin'[q] = fin[q] /\ Live(q) /\ q \in Others(movers, fin[q].u) /\ fin[q].u \in Uploads
      BY <1>2, <2>2
    <3>2. row[fin[q].u].finalKey = fin[q].key
      BY <3>1 DEF TrackInv, PutGuarded
    <3> QED
      BY <3>1, <3>2 DEF Keeps
  <2> QED
    BY <2>1, <2>2
<1>7. ASSUME NEW u, NoLivePut(u),
             \A p \in movers : Live(p)' /\ fin'[p].pc = "put" => fin'[p].u # u
      PROVE  NoLivePut(u)'
  BY <1>2, <1>7 DEF NoLivePut
<1>8. UnstagingSettled'
  <2> SUFFICES ASSUME NEW q \in Finalizers, fin'[q].pc \in Unstaging
               PROVE  row'[fin'[q].u].status \in Settled /\ NoLivePut(fin[q].u)'
    BY DEF UnstagingSettled
  <2>1. CASE q \in movers
    <3>1. /\ row'[fin'[q].u].status \in Settled
          /\ \A o \in Others(movers, fin'[q].u) : fin[o].pc # "put"
      BY <2>1 DEF Settles
    <3>2. fin'[q].pc # "put"
      BY DEF Unstaging
    <3> QED
      BY <1>2, <2>1, <3>1, <3>2 DEF NoLivePut
  <2>2. CASE q \notin movers
    <3>1. fin'[q] = fin[q] /\ fin[q].u \in Uploads
      BY <1>1, <2>2 DEF Unstaging
    <3>2. row[fin[q].u].status \in Settled /\ NoLivePut(fin[q].u)
      BY <3>1 DEF TrackInv, UnstagingSettled
    <3>3. \A p \in movers : Live(p)' /\ fin'[p].pc = "put" => fin'[p].u # fin[q].u
      BY <1>3, <2>2, <3>1 DEF Settles
    <3>4. PICK u : u = fin[q].u
      OBVIOUS
    <3>5. NoLivePut(u)'
      BY <1>7, <3>2, <3>3, <3>4
    <3> QED
      BY <3>1, <3>2, <3>4, <3>5 DEF Keeps, NoLivePut
  <2> QED
    BY <2>1, <2>2
<1>9. AbsentEmpty'
  BY DEF AbsentEmpty, Keeps
<1>10. FinalObjectTracked'
  <2> SUFFICES ASSUME NEW obj \in Prompt' PROVE row'[obj[1]].finalKey = obj[2]
    BY DEF FinalObjectTracked
  <2>1. CASE obj \in Prompt
    <3>1. obj[1] \in Uploads /\ row[obj[1]].finalKey = obj[2]
      BY <2>1 DEF Prompt, SafetyInv, TypeOK, TrackInv, FinalObjectTracked
    <3> QED
      BY <2>1, <3>1 DEF Keeps
  <2> QED
    BY <2>1
<1>11. ASSUME NEW j \in jobs PROVE JobTracked(j)'
  <2>1. j.u \in Uploads /\ JobTracked(j)
    BY DEF SafetyInv, TypeOK, JobType, TrackInv, JobsTrack
  <2>2. row'[j.u].status \in Settled
    BY <2>1 DEF Keeps, JobTracked
  <2>3. NoLivePut(j.u)'
    <3>1. \A p \in movers : Live(p)' /\ fin'[p].pc = "put" => fin'[p].u # j.u
      BY <1>3 DEF Settles
    <3> QED
      BY <1>7, <2>1, <3>1 DEF JobTracked
  <2>4. ASSUME j.finalReq
        PROVE  /\ row'[j.u].finalKey \in {j.key, None}
               /\ j.finalRes = "ok" => <<j.u, j.key>> \notin Prompt'
    <3>1. row[j.u].finalKey \in {j.key, None} /\ (j.finalRes = "ok" => <<j.u, j.key>> \notin Prompt)
      BY <2>1, <2>4 DEF JobTracked
    <3>2. row'[j.u].finalKey \in {j.key, None}
      BY <2>1, <3>1 DEF Keeps
    <3>3. <<j.u, j.key>> \in Prompt' => <<j.u, j.key>> \in Prompt
      OBVIOUS
    <3> QED
      BY <3>1, <3>2, <3>3
  <2> QED
    BY <2>2, <2>3, <2>4 DEF JobTracked
<1> QED
  BY <1>4, <1>5, <1>6, <1>8, <1>9, <1>10, <1>11

LEMMA LocalTimes ==
  ASSUME NEW f \in FinType, f.pc # "idle"
  PROVE  /\ \A pc \in Active : At(f, pc).now = f.now
         /\ \A k \in Images : WithKey(f, k).now = f.now
<1>1. f \in [pc : Active, u : Uploads, now : Int, lease : Int, key : Images \cup {None}]
  BY DEF FinType, Idle, Active
<1> QED
  BY <1>1 DEF At, WithKey

\* LeasesTimed, when time stands still and requests keep their admission.
LEMMA TimedFrame ==
  ASSUME LeasesTimed, clock' = clock, hidden' = hidden,
         \A q \in Finalizers :
           \/ fin'[q].pc = "idle"
           \/ /\ fin[q].pc # "idle" /\ fin'[q].u = fin[q].u
              /\ fin'[q].now = fin[q].now /\ fin'[q].lease = fin[q].lease
  PROVE  LeasesTimed'
  BY DEF LeasesTimed

\* Request p becomes g, and the row of its upload u becomes s.
Moves(p, u, s, g) ==
    /\ Update(p, s) \/ (row' = row /\ s = row[u])
    /\ fin' = [fin EXCEPT ![p] = g]
    /\ g.pc # "idle" => g.u = u /\ g.now = fin[p].now /\ g.lease = fin[p].lease
    /\ Keeps({p}, u, s)
    /\ Settles({p}, g, s)

\* A step that moves one request, its row and perhaps adds its object.
LEMMA TrackMove ==
  ASSUME SafetyInv, TrackInv, TypeOK', NEW p \in Finalizers, fin[p].pc # "idle",
         NEW u \in Uploads, u = fin[p].u, NEW s, NEW g, Moves(p, u, s, g),
         \/ Prompt' \subseteq Prompt
         \/ /\ Prompt' = Prompt \cup {<<u, s.finalKey>>}
            /\ \A j \in jobs : j.u # u,
         UNCHANGED <<clock, hidden, jobs>>
  PROVE  TrackInv'
<1> USE DEF Moves
<1>1. fin'[p] = g /\ \A q \in Finalizers \ {p} : fin'[q] = fin[q]
  BY DEF SafetyInv, TypeOK
<1>2. row'[u] = s /\ \A v \in Uploads \ {u} : row'[v] = row[v]
  BY DEF Update, SafetyInv, TypeOK
<1>3. LeasesTimed'
  BY <1>1, TimedFrame DEF TrackInv
<1>4. \A v \in Uploads : Keeps({p}, v, row'[v])
  <2> SUFFICES ASSUME NEW v \in Uploads \ {u} PROVE Keeps({p}, v, row[v])
    BY <1>2
  <2> QED
    BY DEF TrackInv, Keeps, Others, LiveHolds, PutGuarded, AbsentEmpty
<1>5. \A q \in {p} : Settles({p}, fin'[q], row'[fin'[q].u])
  <2>1. CASE g.pc # "idle"
    BY <1>1, <1>2, <2>1
  <2>2. CASE g.pc = "idle"
    BY <1>1, <2>2 DEF Settles, Working, Unstaging
  <2> QED
    BY <2>1, <2>2
<1>6. \A obj \in Prompt' : \/ obj \in Prompt
                           \/ row'[obj[1]].finalKey = obj[2] /\ \A j \in jobs : j.u # obj[1]
  BY <1>2
<1>7. /\ LiveHolds' /\ LiveAlone' /\ PutGuarded' /\ UnstagingSettled' /\ AbsentEmpty'
      /\ FinalObjectTracked'
      /\ \A j \in jobs : JobTracked(j)'
  <2>1. PICK m \in SUBSET Finalizers : m = {p}
    OBVIOUS
  <2>2. /\ \A a, b \in m : a = b
        /\ \A q \in Finalizers \ m : fin'[q] = fin[q]
        /\ \A v \in Uploads : Keeps(m, v, row'[v])
        /\ \A q \in m : Settles(m, fin'[q], row'[fin'[q].u])
    BY <1>1, <1>4, <1>5, <2>1
  <2>3. clock' = clock
    OBVIOUS
  <2> QED
    BY <1>6, <2>2, <2>3, TrackFrame
<1> QED
  BY <1>3, <1>7 DEF TrackInv, JobsTrack

\* A row that does not change keeps everything.
LEMMA KeepsSame ==
  ASSUME TrackInv, NEW movers, NEW u \in Uploads
  PROVE  Keeps(movers, u, row[u])
  BY DEF TrackInv, Keeps, Others, LiveHolds, PutGuarded, AbsentEmpty

\* Who holds the lease of its row is the only live request for it.
LEMMA HolderAlone ==
  ASSUME TrackInv, NEW p \in Finalizers, fin[p].pc \in Working, Live(p) \/ HoldsLease(p)
  PROVE  Others({p}, fin[p].u) = {}
<1> SUFFICES ASSUME NEW q \in Others({p}, fin[p].u) PROVE FALSE
  OBVIOUS
<1>1. q \in Finalizers /\ q # p /\ Live(q) /\ fin[q].u = fin[p].u
  BY DEF Others
<1>2. CASE Live(p)
  BY <1>1, <1>2 DEF TrackInv, LiveAlone
<1>3. CASE HoldsLease(p)
  <2>1. fin[q].lease = fin[p].lease
    BY <1>1, <1>3 DEF HoldsLease, TrackInv, LiveHolds
  <2>2. Live(p)
    BY <1>1, <2>1 DEF Live
  <2> QED
    BY <1>1, <2>2 DEF TrackInv, LiveAlone
<1> QED
  BY <1>2, <1>3

\* The local states a request can move to when its row is as before.
LEMMA SettlesSame ==
  ASSUME SafetyInv, TrackInv, NEW p \in Finalizers, fin[p].pc \in Working,
         NEW u \in Uploads, u = fin[p].u,
         NEW g, g.u = u, g.lease = fin[p].lease, g.pc \in Working \ {"put"}
  PROVE  Settles({p}, g, row[u])
<1>1. clock < g.lease => Live(p)
  BY DEF Live
<1>2. Live(p) => Others({p}, u) = {}
  BY HolderAlone
<1>3. Live(p) => \/ row[u].status = "failed"
                 \/ row[u].status = "processing" /\ row[u].procLease = g.lease
  BY DEF TrackInv, LiveHolds
<1>4. g.pc \notin Unstaging
  BY DEF Working, Unstaging
<1> QED
  BY <1>1, <1>2, <1>3, <1>4 DEF Settles

LEMMA TrackFinalize ==
  ASSUME SafetyInv, TrackInv, NEW p \in Finalizers,
         FinalizeStep(p) \/ FinalizeCrash(p)
  PROVE  TrackInv'
<1>0. fin[p].pc # "idle"
  BY DEF FinalizeStep, FinalizeCrash, claimFinalize, readStagingObject, markFailed,
     releaseFinalizeLease, prepareFinalObject, putFinalObject, markVerified,
     deleteStagingObject, markStagingDeleted
<1>t. TypeOK'
  BY TypeFinalize DEF SafetyInv
<1>a. PICK f \in FinType, u \in Uploads, r \in RowType : f = fin[p] /\ u = f.u /\ r = row[u]
  BY <1>0, FinRow DEF SafetyInv
<1>b. f.lease \in Int /\ f.now \in Int /\ f.pc # "idle"
  BY <1>0, <1>a, FinFacts
<1>c. Keeps({p}, u, r)
  BY <1>a, KeepsSame
<1>d. \A s : Settles({p}, Idle, s)
  BY IdleFacts DEF Settles, Working, Unstaging
<1>e. /\ Done(p) => fin' = [fin EXCEPT ![p] = Idle]
      /\ \A pc \in Active : Goto(p, pc) => fin' = [fin EXCEPT ![p] = At(f, pc)]
      /\ \A s : Update(p, s) => row' = [row EXCEPT ![u] = s]
  BY <1>a DEF Done, Goto, Update
<1>f. \A pc \in Active :
        At(f, pc).pc = pc /\ At(f, pc).u = u /\ At(f, pc).now = f.now /\ At(f, pc).lease = f.lease
        /\ At(f, pc).key = f.key
  BY <1>a, <1>b, AtFacts, LocalTimes
<1>g. ASSUME Done(p), NEW s, Update(p, s) \/ (row' = row /\ s = r), Keeps({p}, u, s),
             UNCHANGED <<clock, hidden, Prompt, jobs>>
      PROVE  TrackInv'
  <2>1. Moves(p, u, s, Idle)
    BY <1>a, <1>d, <1>e, <1>g, IdleFacts DEF Moves
  <2> QED
    BY <1>0, <1>a, <1>g, <1>t, <2>1, TrackMove
<1>h. ASSUME fin[p].pc \in Working, HoldsLease(p), NEW s \in RowType, SameFinal(r, s),
             s.status # "absent"
      PROVE  Keeps({p}, u, s)
  <2>1. Others({p}, u) = {}
    BY <1>a, <1>h, HolderAlone
  <2>2. r.status = "processing"
    BY <1>a, <1>h DEF HoldsLease
  <2> QED
    BY <1>a, <1>h, <2>1, <2>2 DEF Keeps, SameFinal, Settled
<1>1. CASE claimFinalize(p)
  <2>u. UNCHANGED <<clock, hidden, Prompt, jobs>>
    BY <1>1 DEF Prompt, hist, claimFinalize
  <2>1. CASE Done(p) /\ row' = row
    BY <1>c, <1>g, <2>1, <2>u
  <2>2. CASE Done(p) /\ r.status \in Open /\ Update(p, Failed(r))
    <3>1. Failed(r).status = "failed" /\ SameFinal(r, Failed(r)) /\ Failed(r).cleanLease = r.cleanLease
      BY <1>b, FailedRow DEF RowType, Failed
    <3>2. Keeps({p}, u, Failed(r))
      BY <1>a, <1>c, <3>1 DEF Keeps, SameFinal, Settled
    <3> QED
      BY <1>g, <2>2, <2>u, <3>2
  <2>3. CASE /\ r.status \in Open /\ ~ Busy(r, f.now)
             /\ Goto(p, "read") /\ Update(p, Claimed(r, f.lease))
    <3>1. PICK s \in RowType : s = Claimed(r, f.lease)
      BY <1>b, ClaimedRow
    <3>2. s.status = "processing" /\ SameFinal(r, s) /\ s.procLease = f.lease
      BY <1>b, <3>1, ClaimedRow DEF Claimed, RowType
    <3>3. Others({p}, u) = {}
      <4> SUFFICES ASSUME NEW q \in Others({p}, u) PROVE FALSE
        OBVIOUS
      <4>1. q \in Finalizers /\ Live(q) /\ fin[q].u = u
        BY DEF Others
      <4>2. r.status = "processing" /\ r.procLease = fin[q].lease
        BY <1>a, <2>3, <4>1 DEF TrackInv, LiveHolds, Open
      <4>3. r.procLease <= f.now
        BY <2>3, <4>1, <4>2, FinFacts, TimesOK DEF Busy, Lapsed, SafetyInv, TypeOK
      <4>4. f.now <= clock /\ clock < fin[q].lease
        BY <1>a, <1>b, <4>1 DEF TrackInv, LeasesTimed, Live
      <4>5. fin[q].lease \in Int /\ clock \in Int
        BY <4>1, FinFacts DEF SafetyInv, TypeOK
      <4> QED
        BY <1>b, <4>2, <4>3, <4>4, <4>5
    <3>4. Keeps({p}, u, s)
      BY <1>a, <2>3, <3>2, <3>3 DEF Keeps, SameFinal, Settled, Open
    <3>5. PICK g : g = At(f, "read")
      OBVIOUS
    <3>6. g.pc = "read" /\ g.u = u /\ g.now = f.now /\ g.lease = f.lease
      BY <1>f, <3>5 DEF Active
    <3>7. Settles({p}, g, s)
      BY <3>2, <3>3, <3>6 DEF Settles, Working, Unstaging
    <3>8. Moves(p, u, s, g)
      BY <1>a, <1>e, <2>3, <3>1, <3>4, <3>5, <3>6, <3>7 DEF Moves, Active
    <3> QED
      BY <1>0, <1>a, <1>t, <2>u, <3>8, TrackMove
  <2> QED
    BY <1>1, <1>a, <2>1, <2>2, <2>3 DEF claimFinalize
<1>2. CASE readStagingObject(p)
  <2>1. PICK g : /\ fin' = [fin EXCEPT ![p] = g]
                 /\ \/ \E c \in Images : g = WithKey(f, c)
                    \/ \E pc \in {"fail", "release"} : g = At(f, pc)
    BY <1>2, <1>a, <1>e DEF readStagingObject, Active
  <2>2. /\ g.pc \in {"prepare", "fail", "release"}
        /\ g.u = u /\ g.now = f.now /\ g.lease = f.lease
    BY <1>a, <1>b, <1>f, <2>1, WithKeyFacts, LocalTimes DEF Active
  <2>3. fin[p].pc \in Working /\ row' = row /\ UNCHANGED <<clock, hidden, Prompt, jobs>>
    BY <1>2 DEF Prompt, hist, readStagingObject, Working
  <2>4. Settles({p}, g, r)
    BY <1>a, <2>2, <2>3, SettlesSame DEF Working
  <2>5. Moves(p, u, r, g)
    BY <1>a, <1>c, <2>1, <2>2, <2>3, <2>4 DEF Moves
  <2> QED
    BY <1>0, <1>a, <1>t, <2>3, <2>5, TrackMove
<1>3. CASE markFailed(p)
  <2>1. PICK s : s = Failed(r)
    OBVIOUS
  <2>2. s \in RowType /\ SameFinal(r, s) /\ s.status # "absent"
    BY <2>1, FailedRow
  <2>3. fin[p].pc \in Working
    BY <1>3 DEF markFailed, Working
  <2>4. HoldsLease(p) => Keeps({p}, u, s)
    BY <1>h, <2>2, <2>3
  <2>5. Done(p) /\ UNCHANGED <<clock, hidden, Prompt, jobs>>
    BY <1>3 DEF Prompt, hist, markFailed
  <2>6. (HoldsLease(p) /\ Update(p, s)) \/ row' = row
    BY <1>3, <1>a, <2>1 DEF markFailed
  <2> QED
    BY <1>c, <1>g, <2>4, <2>5, <2>6
<1>4. CASE releaseFinalizeLease(p)
  <2>1. PICK s : s = Released(r)
    OBVIOUS
  <2>2. s \in RowType /\ SameFinal(r, s) /\ s.status # "absent"
    BY <2>1, ReleasedRow
  <2>3. fin[p].pc \in Working
    BY <1>4 DEF releaseFinalizeLease, Working
  <2>4. HoldsLease(p) => Keeps({p}, u, s)
    BY <1>h, <2>2, <2>3
  <2>5. Done(p) /\ UNCHANGED <<clock, hidden, Prompt, jobs>>
    BY <1>4 DEF Prompt, hist, releaseFinalizeLease
  <2>6. (HoldsLease(p) /\ Update(p, s)) \/ row' = row
    BY <1>4, <1>a, <2>1 DEF releaseFinalizeLease
  <2> QED
    BY <1>c, <1>g, <2>4, <2>5, <2>6
<1>5. CASE prepareFinalObject(p)
  <2>u. UNCHANGED <<clock, hidden, Prompt, jobs>> /\ fin[p].pc \in Working
    BY <1>5 DEF Prompt, hist, prepareFinalObject, Working
  <2>1. CASE ~ CanPrepare(p)
    BY <1>5, <1>c, <1>g, <2>1, <2>u DEF prepareFinalObject
  <2>2. CASE CanPrepare(p)
    <3>1. f.key \in Images /\ f.key # None
      BY <1>5, <1>a, ConstantsOK DEF prepareFinalObject, SafetyInv, WrittenBeforeVerify
    <3>2. PICK s \in RowType : s = Prepared(r, f.key, f.lease)
      BY <1>b, <3>1, PreparedRow
    <3>3. /\ s.status = r.status /\ s.finalKey = f.key /\ s.procLease = r.procLease
          /\ s.cleanLease = f.lease
      <4>1. s.status = r.status /\ s.finalKey = f.key
        BY <1>b, <3>1, <3>2, PreparedRow
      <4>2. s.procLease = r.procLease /\ s.cleanLease = f.lease
        BY <1>b, <3>1, <3>2 DEF Prepared, RowType
      <4> QED
        BY <4>1, <4>2
    <3>4. /\ r.status = "processing" /\ r.procLease = f.lease /\ r.finalKey \in {None, f.key}
          /\ HoldsLease(p)
      BY <1>a, <2>2 DEF CanPrepare, HoldsLease
    <3>5. Others({p}, u) = {}
      BY <1>a, <2>u, <3>4, HolderAlone
    <3>6. /\ \A j \in jobs : j.u # u
          /\ \A q \in Finalizers : fin[q].pc \in Unstaging => fin[q].u # u
      BY <1>a, <3>4 DEF TrackInv, JobsTrack, JobTracked, UnstagingSettled, Settled
    <3>7. r.finalKey = None => \A obj \in Prompt : obj[1] # u
      <4>1. \A obj \in Prompt : obj[2] # None /\ row[obj[1]].finalKey = obj[2]
        BY ConstantsOK DEF Prompt, SafetyInv, TypeOK, TrackInv, FinalObjectTracked
      <4> QED
        BY <1>a, <4>1
    <3>8. Keeps({p}, u, s)
      BY <1>a, <3>3, <3>4, <3>5, <3>6, <3>7 DEF Keeps, Settled
    <3>9. PICK g : g = At(f, "put")
      OBVIOUS
    <3>10. g.pc = "put" /\ g.u = u /\ g.now = f.now /\ g.lease = f.lease /\ g.key = f.key
      BY <1>f, <3>9 DEF Active
    <3>11. f.lease # None /\ f.lease >= f.lease
      BY <1>b, TimesOK
    <3>12. Settles({p}, g, s)
      BY <3>3, <3>4, <3>5, <3>6, <3>10, <3>11 DEF Settles, Unstaging
    <3>13. Update(p, s) /\ Goto(p, "put")
      BY <1>5, <1>a, <2>2, <3>2 DEF prepareFinalObject
    <3>14. Moves(p, u, s, g)
      BY <1>a, <1>e, <3>8, <3>9, <3>10, <3>12, <3>13 DEF Moves, Active
    <3> QED
      BY <1>0, <1>a, <1>t, <2>u, <3>14, TrackMove
  <2> QED
    BY <2>1, <2>2
<1>6. CASE putFinalObject(p)
  <2>1. PICK pc \in {"verify", "release"} : fin' = [fin EXCEPT ![p] = At(f, pc)]
    BY <1>6, <1>e DEF putFinalObject, Active
  <2>2. PICK g : g = At(f, pc)
    OBVIOUS
  <2>3. g.pc \in Working \ {"put"} /\ g.u = u /\ g.now = f.now /\ g.lease = f.lease /\ g.pc # "idle"
    BY <1>f, <2>1, <2>2 DEF Active, Working
  <2>4. fin[p].pc = "put" /\ fin[p].pc \in Working /\ row' = row /\ UNCHANGED <<clock, hidden, jobs>>
    BY <1>6 DEF putFinalObject, Working
  <2>5. Settles({p}, g, r)
    BY <1>a, <2>3, <2>4, SettlesSame
  <2>6. Moves(p, u, r, g)
    BY <1>a, <1>c, <2>1, <2>2, <2>3, <2>4, <2>5 DEF Moves
  <2>7. \/ Prompt' \subseteq Prompt
        \/ Prompt' = Prompt \cup {<<u, r.finalKey>>} /\ \A j \in jobs : j.u # u
    <3>1. CASE UNCHANGED <<finals, late>>
      BY <3>1 DEF Prompt
    <3>2. CASE clock < f.lease /\ finals' = finals \cup {<<u, f.key>>} /\ late' = late \ {<<u, f.key>>}
      <4>1. Live(p)
        BY <1>a, <2>4, <3>2 DEF Live
      <4>2. r.finalKey = f.key
        BY <1>a, <2>4, <4>1 DEF TrackInv, PutGuarded
      <4>3. \A j \in jobs : j.u # u
        BY <1>a, <2>4, <4>1 DEF TrackInv, JobsTrack, JobTracked, NoLivePut
      <4> QED
        BY <3>2, <4>2, <4>3 DEF Prompt
    <3>3. CASE ~ (clock < f.lease) /\ finals' = finals \cup {<<u, f.key>>} /\ late' = late \cup {<<u, f.key>>}
      BY <3>3 DEF Prompt
    <3> QED
      BY <1>6, <1>a, <3>1, <3>2, <3>3 DEF putFinalObject
  <2> QED
    BY <1>0, <1>a, <1>t, <2>4, <2>6, <2>7, TrackMove
<1>7. CASE markVerified(p)
  <2>u. UNCHANGED <<clock, hidden, Prompt, jobs>> /\ fin[p].pc \in Working
    BY <1>7 DEF Prompt, hist, markVerified, Working
  <2>g. PICK g : g = At(f, "unstage")
    OBVIOUS
  <2>i. g.pc = "unstage" /\ g.u = u /\ g.now = f.now /\ g.lease = f.lease
    BY <1>f, <2>g DEF Active
  <2>1. CASE CanVerify(p)
    <3>1. PICK s \in RowType : s = Verified(r)
      BY VerifiedRow
    <3>2. s.status = "verified" /\ s.finalKey = r.finalKey
      BY <3>1, VerifiedRow
    <3>3. Others({p}, u) = {} /\ r.status = "processing"
      BY <1>a, <2>1, <2>u, HolderAlone DEF CanVerify, HoldsLease
    <3>4. Keeps({p}, u, s) /\ Settles({p}, g, s)
      BY <1>a, <2>i, <3>2, <3>3 DEF Keeps, Settles, Settled, Working
    <3>5. Update(p, s) /\ Goto(p, "unstage")
      BY <1>7, <1>a, <2>1, <3>1 DEF markVerified
    <3>6. Moves(p, u, s, g)
      BY <1>a, <1>e, <2>g, <2>i, <3>4, <3>5 DEF Moves, Active
    <3> QED
      BY <1>0, <1>a, <1>t, <2>u, <3>6, TrackMove
  <2>2. CASE row' = row /\ Done(p)
    BY <1>c, <1>g, <2>2, <2>u
  <2>3. CASE row' = row /\ r.status = "verified" /\ Goto(p, "unstage")
    <3>1. Others({p}, u) = {}
      BY <1>a, <2>3 DEF Others, TrackInv, LiveHolds
    <3>2. Settles({p}, g, r)
      BY <2>3, <2>i, <3>1 DEF Settles, Settled, Working
    <3>3. Moves(p, u, r, g)
      BY <1>a, <1>c, <1>e, <2>3, <2>g, <2>i, <3>2 DEF Moves, Active
    <3> QED
      BY <1>0, <1>a, <1>t, <2>u, <3>3, TrackMove
  <2> QED
    BY <1>7, <1>a, <2>1, <2>2, <2>3 DEF markVerified
<1>8. CASE deleteStagingObject(p)
  <2>u. UNCHANGED <<clock, hidden, Prompt, jobs>> /\ fin[p].pc = "unstage" /\ row' = row
    BY <1>8 DEF Prompt, hist, deleteStagingObject
  <2>1. CASE Done(p)
    BY <1>c, <1>g, <2>1, <2>u
  <2>2. CASE Goto(p, "unstaged")
    <3>1. PICK g : g = At(f, "unstaged")
      OBVIOUS
    <3>2. g.pc = "unstaged" /\ g.u = u /\ g.now = f.now /\ g.lease = f.lease
      BY <1>f, <3>1 DEF Active
    <3>3. r.status \in Settled /\ \A q \in Others({p}, u) : fin[q].pc # "put"
      BY <1>a, <2>u DEF TrackInv, UnstagingSettled, Unstaging, NoLivePut, Others
    <3>4. Settles({p}, g, r)
      BY <3>2, <3>3 DEF Settles, Working
    <3>5. Moves(p, u, r, g)
      BY <1>a, <1>c, <1>e, <2>2, <2>u, <3>1, <3>2, <3>4 DEF Moves, Active
    <3> QED
      BY <1>0, <1>a, <1>t, <2>u, <3>5, TrackMove
  <2> QED
    BY <1>8, <2>1, <2>2 DEF deleteStagingObject
<1>9. CASE markStagingDeleted(p)
  <2>1. PICK s \in RowType : s = Unstaged(r)
    BY UnstagedRow
  <2>2. s.status = r.status /\ SameFinal(r, s) /\ s.procLease = r.procLease
    BY <1>b, <2>1, UnstagedRow DEF Unstaged, RowType
  <2>3. \A q \in Others({p}, u) : fin[q].pc # "put"
    BY <1>9, <1>a DEF markStagingDeleted, TrackInv, UnstagingSettled, Unstaging, NoLivePut, Others
  <2>4. Keeps({p}, u, s)
    BY <1>a, <1>c, <2>2, <2>3 DEF Keeps, SameFinal
  <2>5. Done(p) /\ Update(p, s) /\ UNCHANGED <<clock, hidden, Prompt, jobs>>
    BY <1>9, <1>a, <2>1 DEF Prompt, hist, markStagingDeleted
  <2> QED
    BY <1>g, <2>4, <2>5
<1>10. CASE FinalizeCrash(p)
  BY <1>10, <1>c, <1>g DEF Prompt, hist, FinalizeCrash
<1> QED
  BY <1>1, <1>2, <1>3, <1>4, <1>5, <1>6, <1>7, <1>8, <1>9, <1>10 DEF FinalizeStep

\* A step that moves no request.
LEMMA TrackStill ==
  ASSUME SafetyInv, TrackInv, TypeOK', UNCHANGED <<clock, hidden, fin>>,
         \A u \in Uploads : Keeps({}, u, row'[u]),
         Prompt' \subseteq Prompt
  PROVE  /\ LeasesTimed' /\ LiveHolds' /\ LiveAlone' /\ PutGuarded' /\ UnstagingSettled'
         /\ AbsentEmpty' /\ FinalObjectTracked'
         /\ \A j \in jobs : JobTracked(j)'
<1>1. LeasesTimed'
  BY TimedFrame DEF TrackInv
<1>2. PICK m \in SUBSET Finalizers : m = {}
  OBVIOUS
<1>3. /\ \A a, b \in m : a = b
      /\ \A q \in Finalizers \ m : fin'[q] = fin[q]
      /\ \A v \in Uploads : Keeps(m, v, row'[v])
      /\ \A q \in m : Settles(m, fin'[q], row'[fin'[q].u])
      /\ \A obj \in Prompt' : \/ obj \in Prompt
                              \/ row'[obj[1]].finalKey = obj[2] /\ \A j \in jobs : j.u # obj[1]
  BY <1>2
<1>4. clock' = clock
  OBVIOUS
<1> QED
  BY <1>1, <1>3, <1>4, TrackFrame

\* A claim finds the row's cleanup lease lapsed, which a live PUT excludes.
LEMMA TrackClaimCleanup ==
  ASSUME SafetyInv, TrackInv, NEW batch \in SUBSET Uploads, NEW now \in Captured,
         claimCleanupBatch(batch, now)
  PROVE  TrackInv'
<1>0. now \in Int /\ now <= clock /\ clock \in Int
  BY CapturedType DEF SafetyInv, TypeOK
<1>1. \A u \in Uploads : row[u] \in RowType
  BY DEF SafetyInv, TypeOK
<1>2. /\ \A u \in Uploads : row'[u] = IF u \in batch THEN CleanupClaimed(row[u], now) ELSE row[u]
      /\ jobs' = jobs \cup {CleanupJob(u, now) : u \in batch}
      /\ UNCHANGED <<clock, hidden, fin, Prompt>>
  BY DEF Prompt, hist, claimCleanupBatch
<1>t. TypeOK'
  BY SafetyClaimCleanup DEF SafetyInv
<1>3. ASSUME NEW u \in batch PROVE NoLivePut(u)
  <2> SUFFICES ASSUME NEW q \in Finalizers, Live(q), fin[q].pc = "put", fin[q].u = u PROVE FALSE
    BY DEF NoLivePut
  <2>1. row[u].cleanLease # None /\ row[u].cleanLease >= fin[q].lease
    BY DEF TrackInv, PutGuarded
  <2>2. row[u].cleanLease <= now
    BY <2>1 DEF claimCleanupBatch, cleanupDue, Lapsed
  <2>3. row[u].cleanLease \in Int /\ fin[q].lease \in Int /\ clock < fin[q].lease
    BY <1>1, <2>1, FinFacts DEF RowType, Time, SafetyInv, TypeOK, Live
  <2> QED
    BY <1>0, <2>1, <2>2, <2>3
<1>4. ASSUME NEW u \in batch
      PROVE  /\ row'[u].status = IF row[u].status \in Open THEN "failed" ELSE row[u].status
             /\ row'[u].finalKey = row[u].finalKey
             /\ row[u].status \in Open \cup Settled
  <2>1. row'[u] = CleanupClaimed(row[u], now) /\ row[u] \in RowType
    BY <1>1, <1>2
  <2>2. row[u].status # "absent"
    BY DEF claimCleanupBatch, cleanupDue
  <2>3. row[u].status \in Open \cup Settled
    BY <2>1, <2>2 DEF RowType, Statuses, Settled
  <2> QED
    BY <1>0, <2>1, <2>3, CleanupClaimedRow DEF SameFinal
<1>5. ASSUME NEW u \in Uploads PROVE Keeps({}, u, row'[u])
  <2>1. CASE u \notin batch
    BY <1>2, <2>1, KeepsSame
  <2>2. CASE u \in batch
    <3>1. \A q \in Others({}, u) : fin[q].pc # "put" /\ row[u].status \in {"failed", "processing"}
      BY <1>3, <2>2 DEF Others, NoLivePut, TrackInv, LiveHolds
    <3> QED
      BY <1>4, <2>2, <3>1 DEF Keeps, Settled, Open
  <2> QED
    BY <2>1, <2>2
<1>6. /\ LeasesTimed' /\ LiveHolds' /\ LiveAlone' /\ PutGuarded' /\ UnstagingSettled'
      /\ AbsentEmpty' /\ FinalObjectTracked'
      /\ \A j \in jobs : JobTracked(j)'
  BY <1>2, <1>5, <1>t, TrackStill
<1>7. ASSUME NEW u \in batch, NEW j, j = CleanupJob(u, now) PROVE JobTracked(j)'
  <2>1. j.u = u /\ j.key = row[u].finalKey
    BY <1>7 DEF CleanupJob
  <2>2. j.finalReq => j.finalRes = "todo"
    <3>1. FinalDue(row[u]) => row[u].finalKey # None
      BY DEF FinalDue, SafetyInv, DatabaseChecks
    <3> HIDE DEF FinalDue
    <3> QED
      BY <1>7, <3>1 DEF CleanupJob
  <2>3. row'[u].status \in Settled /\ row'[u].finalKey = row[u].finalKey
    BY <1>4 DEF Settled
  <2>4. NoLivePut(u)'
    BY <1>2, <1>3 DEF NoLivePut, Live
  <2> QED
    BY <2>1, <2>2, <2>3, <2>4 DEF JobTracked
<1>8. JobsTrack'
  BY <1>2, <1>6, <1>7 DEF JobsTrack
<1> QED
  BY <1>6, <1>8 DEF TrackInv

\* A job's row admits no PUT, so what it deletes does not come back, and the
\* key is dropped only when the object is gone.
LEMMA TrackCleanup ==
  ASSUME SafetyInv, TrackInv, NEW j \in jobs, CleanupStep(j) \/ CleanupCrash(j)
  PROVE  TrackInv'
<1>0. j \in JobType /\ j.u \in Uploads /\ row[j.u] \in RowType /\ JobTracked(j)
  BY DEF SafetyInv, TypeOK, JobType, TrackInv, JobsTrack
<1>t. TypeOK'
  BY SafetyCleanup DEF SafetyInv
<1>u. UNCHANGED <<clock, hidden, fin>> /\ Prompt' \subseteq Prompt
  BY DEF Prompt, hist, CleanupStep, CleanupCrash, deleteStaging, deleteFinal, applyCleanupResult
<1>1. CASE row' = row
  <2>1. /\ LeasesTimed' /\ LiveHolds' /\ LiveAlone' /\ PutGuarded' /\ UnstagingSettled'
        /\ AbsentEmpty' /\ FinalObjectTracked'
        /\ \A k \in jobs : JobTracked(k)'
    BY <1>1, <1>t, <1>u, KeepsSame, TrackStill
  <2>2. \/ jobs' \subseteq jobs
        \/ \E res \in {"ok", "err"} : jobs' = (jobs \ {j}) \cup {WithStaging(j, res)}
        \/ jobs' = (jobs \ {j}) \cup {WithFinal(j, "err")}
        \/ /\ jobs' = (jobs \ {j}) \cup {WithFinal(j, "ok")}
           /\ Prompt' = Prompt \ {<<j.u, j.key>>}
    BY DEF Prompt, hist, CleanupStep, CleanupCrash, deleteStaging, deleteFinal, applyCleanupResult, Replace
  <2>3. \A res \in {"ok", "err"} :
          /\ WithStaging(j, res).u = j.u /\ WithStaging(j, res).key = j.key
          /\ WithStaging(j, res).finalReq = j.finalReq /\ WithStaging(j, res).finalRes = j.finalRes
          /\ WithFinal(j, res).u = j.u /\ WithFinal(j, res).key = j.key
          /\ WithFinal(j, res).finalReq = j.finalReq /\ WithFinal(j, res).finalRes = res
    BY <1>0 DEF JobType, WithStaging, WithFinal
  <2>4. JobTracked(j)'
    BY <2>1
  <2>5. ASSUME NEW k \in jobs', k \notin jobs PROVE JobTracked(k)'
    <3>1. /\ k.u = j.u /\ k.key = j.key /\ k.finalReq = j.finalReq
          /\ k.finalRes = "ok" => j.finalRes = "ok" \/ <<j.u, j.key>> \notin Prompt'
      BY <2>2, <2>3, <2>5
    <3> QED
      BY <2>4, <3>1 DEF JobTracked, NoLivePut
  <2>6. JobsTrack'
    BY <2>1, <2>5 DEF JobsTrack
  <2> QED
    BY <2>1, <2>6 DEF TrackInv
<1>2. CASE applyCleanupResult(j) /\ row' # row
  <2>1. PICK s \in RowType : s = Cleaned(row[j.u], j)
    BY <1>0, CleanedRow
  <2>2. /\ row' = [row EXCEPT ![j.u] = s] /\ jobs' \subseteq jobs
    BY <1>2, <2>1 DEF applyCleanupResult
  <2>3. row'[j.u] = s /\ \A v \in Uploads \ {j.u} : row'[v] = row[v]
    BY <1>0, <2>2 DEF SafetyInv, TypeOK
  <2>4. /\ s.status = row[j.u].status /\ row[j.u].status \in Settled
        /\ s.procLease = row[j.u].procLease
        /\ FinalDone(j) => s.finalKey = None
        /\ ~ FinalDone(j) => s.finalKey = row[j.u].finalKey
    BY <1>0, <2>1 DEF Cleaned, RowType, JobTracked
  <2>5. \A q \in Others({}, j.u) : fin[q].pc # "put"
    BY <1>0 DEF JobTracked, NoLivePut, Others
  <2>6. FinalDone(j) => \A obj \in Prompt : obj[1] # j.u
    <3> SUFFICES ASSUME FinalDone(j), NEW obj \in Prompt, obj[1] = j.u PROVE FALSE
      OBVIOUS
    <3>1. row[j.u].finalKey \in {j.key, None} /\ <<j.u, j.key>> \notin Prompt
      BY <1>0 DEF JobTracked, FinalDone
    <3>2. row[j.u].finalKey = obj[2] /\ obj[2] # None /\ obj = <<obj[1], obj[2]>>
      BY ConstantsOK DEF Prompt, TrackInv, FinalObjectTracked, SafetyInv, TypeOK
    <3> QED
      BY <3>1, <3>2
  <2>7. Keeps({}, j.u, s)
    <3>1. Keeps({}, j.u, row[j.u])
      BY <1>0, KeepsSame
    <3> QED
      BY <2>4, <2>5, <2>6, <3>1 DEF Keeps, Settled
  <2>8. \A v \in Uploads : Keeps({}, v, row'[v])
    BY <2>3, <2>7, KeepsSame
  <2>9. /\ LeasesTimed' /\ LiveHolds' /\ LiveAlone' /\ PutGuarded' /\ UnstagingSettled'
        /\ AbsentEmpty' /\ FinalObjectTracked'
        /\ \A k \in jobs : JobTracked(k)'
    BY <1>t, <1>u, <2>8, TrackStill
  <2> QED
    BY <2>2, <2>9 DEF TrackInv, JobsTrack
<1> QED
  BY <1>1, <1>2 DEF CleanupStep, CleanupCrash, deleteStaging, deleteFinal

\* By the time an account is anonymised, every lease taken before it was
\* hidden has lapsed.
LEMMA TrackAccount ==
  ASSUME SafetyInv, TrackInv, FinalizeLease <= Grace, NEW user \in Users,
         anonymizeDeletedAccount(user)
  PROVE  TrackInv'
<1>1. \A u \in Uploads :
        row'[u] = IF u \in OwnedBy(user) THEN AnonymizedRow(row[u]) ELSE row[u]
  BY DEF anonymizeDeletedAccount
<1>2. UNCHANGED <<clock, hidden, fin, Prompt, jobs>>
  BY DEF Prompt, hist, anonymizeDeletedAccount
<1>t. TypeOK'
  BY SafetyAccount DEF SafetyInv
<1>3. ASSUME NEW u \in OwnedBy(user) PROVE Others({}, u) = {}
  <2> SUFFICES ASSUME NEW q \in Others({}, u) PROVE FALSE
    OBVIOUS
  <2>1. q \in Finalizers /\ fin[q].pc # "idle" /\ clock < fin[q].lease /\ Owner[fin[q].u] = user
    BY <1>3 DEF Others, Live, Working, OwnedBy
  <2>2. PICK f \in FinType, since \in Int : f = fin[q] /\ since = hidden[user]
    <3>1. fin[q] \in FinType /\ hidden[user] \in Time /\ hidden[user] # None
      BY <2>1 DEF SafetyInv, TypeOK, anonymizeDeletedAccount, DeletionDue
    <3> QED
      BY <3>1 DEF Time
  <2>3. since # None
    BY <2>2, TimesOK
  <2>4. f.lease = f.now + FinalizeLease /\ f.now <= since
    BY <2>1, <2>2, <2>3 DEF TrackInv, LeasesTimed
  <2>5. since + Grace <= clock
    BY <2>2 DEF anonymizeDeletedAccount, DeletionDue
  <2>6. f.now \in Int /\ clock \in Int /\ clock < f.lease
    BY <2>1, <2>2, FinFacts DEF SafetyInv, TypeOK
  <2> QED
    BY <2>2, <2>4, <2>5, <2>6, TimesOK
<1>4. ASSUME NEW u \in Uploads PROVE Keeps({}, u, row'[u])
  <2>1. CASE u \notin OwnedBy(user)
    BY <1>1, <2>1, KeepsSame
  <2>2. CASE u \in OwnedBy(user)
    <3>1. row'[u].status = "failed" /\ row'[u].finalKey = row[u].finalKey
      <4>1. row[u] \in RowType
        BY DEF SafetyInv, TypeOK
      <4>2. row'[u] = AnonymizedRow(row[u])
        BY <1>1, <2>2
      <4> QED
        BY <4>1, <4>2, AnonymizedRowFacts
    <3> QED
      BY <1>3, <2>2, <3>1 DEF Keeps, Settled
  <2> QED
    BY <2>1, <2>2
<1> QED
  BY <1>2, <1>4, <1>t, TrackStill DEF TrackInv, JobsTrack

LEMMA TrackRequests ==
  ASSUME SafetyInv, SafetyInv', TrackInv,
         \/ Tick
         \/ \E u \in Uploads, now \in Captured : createUpload(u, now)
         \/ \E u \in Uploads, c \in Images \cup {Garbage} : ClientPut(u, c)
         \/ \E p \in Finalizers, u \in Uploads : finalizeUpload(p, u)
         \/ \E user \in Users, shown \in SUBSET (Uploads \cup LegacyPhotos) : replaceProfile(user, shown)
         \/ \E user \in Users : scheduleDeletion(user) \/ restoreScheduledDeletion(user)
         \/ UNCHANGED vars
  PROVE  TrackInv'
<1>t. TypeOK /\ TypeOK'
  BY DEF SafetyInv
<1>1. CASE Tick
  <2>1. UNCHANGED <<row, Prompt, hidden, fin, jobs>> /\ clock' = clock + 1 /\ clock \in Nat
    BY <1>1, <1>t DEF Prompt, hist, Tick, TypeOK
  <2>2. \A q \in Finalizers : fin[q].lease \in Int /\ fin[q].now \in Int
    BY <1>t, FinFacts DEF TypeOK
  <2>3. \A q \in Finalizers : Live(q)' => Live(q)
    BY <2>1, <2>2 DEF Live
  <2>4. LeasesTimed'
    BY <2>1, <2>2 DEF TrackInv, LeasesTimed
  <2>5. LiveHolds' /\ LiveAlone' /\ PutGuarded'
    BY <2>1, <2>3 DEF TrackInv, LiveHolds, LiveAlone, PutGuarded
  <2>6. \A u : NoLivePut(u) => NoLivePut(u)'
    BY <2>1, <2>3 DEF NoLivePut
  <2>7. JobsTrack'
    BY <2>1, <2>6 DEF TrackInv, JobsTrack, JobTracked
  <2>8. UnstagingSettled'
    <3>1. \A p \in Finalizers : NoLivePut(fin[p].u)' <=> ~ \E q \in Finalizers :
            Live(q)' /\ fin[q].pc = "put" /\ fin[q].u = fin[p].u
      BY <2>1 DEF NoLivePut
    <3> QED
      BY <2>1, <2>3, <3>1 DEF TrackInv, UnstagingSettled, NoLivePut
  <2>9. AbsentEmpty' /\ FinalObjectTracked'
    BY <2>1 DEF TrackInv, AbsentEmpty, FinalObjectTracked
  <2> QED
    BY <2>4, <2>5, <2>7, <2>8, <2>9 DEF TrackInv
<1>2. ASSUME NEW u \in Uploads, NEW now \in Captured, createUpload(u, now) PROVE TrackInv'
  <2>1. PICK s : s = Pending(now + UploadTtl)
    OBVIOUS
  <2>2. s.status = "pending" /\ s.finalKey = None
    BY <2>1 DEF Pending, Absent
  <2>3. row' = [row EXCEPT ![u] = s] /\ row[u].status = "absent"
        /\ UNCHANGED <<clock, hidden, fin, Prompt, jobs>>
    BY <1>2, <2>1 DEF Prompt, hist, createUpload
  <2>4. row[u].finalKey = None /\ Others({}, u) = {}
    BY <2>3 DEF TrackInv, AbsentEmpty, Others, LiveHolds
  <2>5. Keeps({}, u, s)
    BY <2>2, <2>3, <2>4 DEF Keeps, Settled
  <2>6. \A v \in Uploads : Keeps({}, v, row'[v])
    BY <1>t, <2>3, <2>5, KeepsSame DEF TypeOK
  <2> QED
    BY <1>t, <2>3, <2>6, TrackStill DEF TrackInv, JobsTrack
<1>3. CASE \/ \E u \in Uploads, c \in Images \cup {Garbage} : ClientPut(u, c)
           \/ \E user \in Users, shown \in SUBSET (Uploads \cup LegacyPhotos) : replaceProfile(user, shown)
           \/ UNCHANGED vars
  <2>1. UNCHANGED <<clock, hidden, row, fin, Prompt, jobs>>
    BY <1>3 DEF Prompt, hist, ClientPut, replaceProfile, vars
  <2> QED
    BY <1>t, <2>1, KeepsSame, TrackStill DEF TrackInv, JobsTrack
<1>4. ASSUME NEW p \in Finalizers, NEW u \in Uploads, finalizeUpload(p, u) PROVE TrackInv'
  <2>1. PICK g : g = Request(u, clock)
    OBVIOUS
  <2>2. g.pc = "claim" /\ g.u = u /\ g.now = clock /\ g.lease = clock + FinalizeLease
    BY <2>1 DEF Request
  <2>3. /\ fin' = [fin EXCEPT ![p] = g] /\ hidden[Owner[u]] = None /\ fin[p].pc = "idle"
        /\ UNCHANGED <<clock, hidden, row, Prompt, jobs>>
    BY <1>4, <2>1 DEF Prompt, hist, finalizeUpload
  <2>4. fin'[p] = g /\ \A q \in Finalizers \ {p} : fin'[q] = fin[q]
    BY <1>t, <2>3 DEF TypeOK
  <2>5. clock \in Nat
    BY <1>t DEF TypeOK
  <2>6. LeasesTimed'
    BY <2>2, <2>3, <2>4, <2>5 DEF TrackInv, LeasesTimed
  <2>7. PICK m \in SUBSET Finalizers : m = {p}
    OBVIOUS
  <2>8. /\ \A a, b \in m : a = b
        /\ \A q \in Finalizers \ m : fin'[q] = fin[q]
        /\ \A v \in Uploads : Keeps(m, v, row'[v])
        /\ \A q \in m : Settles(m, fin'[q], row'[fin'[q].u])
    <3>1. \A v \in Uploads : Keeps(m, v, row'[v])
      BY <2>3, KeepsSame
    <3>2. \A s : Settles(m, g, s)
      BY <2>2 DEF Settles, Working, Unstaging
    <3> QED
      BY <2>4, <2>7, <3>1, <3>2
  <2>9. /\ LiveHolds' /\ LiveAlone' /\ PutGuarded' /\ UnstagingSettled' /\ AbsentEmpty'
        /\ FinalObjectTracked'
        /\ \A j \in jobs : JobTracked(j)'
    BY <1>t, <2>3, <2>8, TrackFrame
  <2> QED
    BY <2>3, <2>6, <2>9 DEF TrackInv, JobsTrack
<1>5. ASSUME NEW user \in Users, scheduleDeletion(user) \/ restoreScheduledDeletion(user)
      PROVE  TrackInv'
  <2>1. /\ UNCHANGED <<clock, row, fin, Prompt, jobs>>
        /\ \A v \in Users : hidden'[v] \in {hidden[v], clock, None}
    BY <1>5, <1>t DEF Prompt, hist, scheduleDeletion, restoreScheduledDeletion, TypeOK
  <2>2. \A q \in Finalizers : fin[q].pc # "idle" => Owner[fin[q].u] \in Users
    BY <1>t, FinFacts, ConstantsOK DEF TypeOK
  <2>3. LeasesTimed'
    BY <2>1, <2>2 DEF TrackInv, LeasesTimed
  <2>4. LiveHolds' /\ LiveAlone' /\ PutGuarded' /\ AbsentEmpty' /\ FinalObjectTracked'
    BY <2>1 DEF TrackInv, LiveHolds, LiveAlone, PutGuarded, AbsentEmpty, FinalObjectTracked, Live
  <2>5. JobsTrack' /\ UnstagingSettled'
    BY <2>1 DEF TrackInv, JobsTrack, JobTracked, UnstagingSettled, NoLivePut, Live
  <2> QED
    BY <2>3, <2>4, <2>5 DEF TrackInv
<1> QED
  BY <1>1, <1>2, <1>3, <1>4, <1>5

LEMMA TrackInit == Init => TrackInv
<1> SUFFICES ASSUME Init PROVE TrackInv
  OBVIOUS
<1>1. \A p \in Finalizers : fin[p].pc = "idle"
  BY DEF Init, Idle
<1>2. \A u \in Uploads : row[u].finalKey = None
  BY DEF Init, Absent
<1> QED
  BY <1>1, <1>2 DEF Prompt, hist, Init, TrackInv, LeasesTimed, LiveHolds, LiveAlone, PutGuarded, JobsTrack,
     UnstagingSettled, AbsentEmpty, FinalObjectTracked, Live, Working, Unstaging

LEMMA TrackNext ==
  ASSUME FinalizeLease <= Grace, SafetyInv, SafetyInv', TrackInv, [Next]_vars
  PROVE  TrackInv'
  BY TrackRequests, TrackFinalize, TrackClaimCleanup, TrackCleanup, TrackAccount DEF Next

\* Every final object in R2 whose PUT ended within its finalize lease is named
\* by its row, so that cleanup finds it, provided the grace period of a
\* deletion is no shorter than that lease (14 days against two minutes).
THEOREM FinalObjectsTracked ==
  ASSUME FinalizeLease <= Grace
  PROVE  Spec => []FinalObjectTracked
<1>1. SafetyInv /\ SafetyInv' /\ TrackInv /\ [Next]_vars => TrackInv'
  BY TrackNext
<1>2. TrackInv => FinalObjectTracked
  BY DEF TrackInv
<1> QED
  BY <1>1, <1>2, TrackInit, SafetyAlways, PTL DEF Spec
=============================================================================
