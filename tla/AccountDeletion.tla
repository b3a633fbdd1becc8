--------------------------- MODULE AccountDeletion ---------------------------
(***************************************************************************)
(* Scheduling, restoring and carrying out the deletion of accounts, and    *)
(* the maintenance processes that do it: every runner wakes, fixes `now',  *)
(* tries the advisory lock, runs four jobs in order and unlocks; its       *)
(* heartbeat file tells only the container.  The first job claims due      *)
(* accounts under a lease and anonymizes them one by one; the other three  *)
(* are modelled by PushOutbox and ProfileUpload and here only run or fail. *)
(*                                                                         *)
(* The lock belongs to a database session of its own.  When that session   *)
(* drops the lock is free although its runner works on, so two cycles may  *)
(* overlap: safety rests on the leases alone.  Requests are suspended at   *)
(* each await and keep the time they read before it.                       *)
(***************************************************************************)
EXTENDS Integers, Sequences, FiniteSets

CONSTANTS
    Users,
    Requests,      \* concurrent deletion and sign-in requests
    Runners,       \* maintenance processes
    Grace,         \* DELETION_GRACE_DAYS
    Lease,         \* DELETION_LEASE_MS
    BatchLimit,    \* accounts per claim
    None,          \* SQL NULL, no lock holder
    MaxTime,       \* bound: the last instant
    MaxFaults      \* bound: crashes, lost sessions and failed statements

Times == 0 .. MaxTime

ASSUME DeletionConstants ==
    /\ {Grace, Lease, BatchLimit} \subseteq Nat \ {0}
    /\ {MaxTime, MaxFaults} \subseteq Nat
    /\ None \notin Nat \cup Runners

VARIABLES
    now,
    account,      \* users: the columns deletion is about
    request,      \* requests in flight
    runner,       \* the maintenance processes
    lock,         \* the runner whose session holds the maintenance lock
    faults

vars == <<now, account, request, runner, lock, faults>>

AccountType ==
    [hidden : BOOLEAN, deleted : BOOLEAN,
     scheduledAt : Nat \cup {None}, lease : Nat \cup {None}]

Idle == [step |-> "idle"]
RequestType == {Idle} \cup [step : {"scheduling", "restoring"}, user : Users, at : Times]

JobNames == <<"account-deletion", "push-outbox", "push-receipts", "staging-cleanup">>

\* claimed: the accounts of the batch and the lease they were claimed with,
\* still to be anonymized; failed: to be released.
RunnerType ==
    [step : {"asleep", "locking", "claiming", "settling", "job", "unlocking"},
     at : Times, job : 1 .. Len(JobNames), claimed : SUBSET Users, failed : SUBSET Users]

Asleep == [step |-> "asleep", at |-> 0, job |-> 1, claimed |-> {}, failed |-> {}]
NewAccount == [hidden |-> FALSE, deleted |-> FALSE, scheduledAt |-> None, lease |-> None]

Init ==
    /\ now = 0
    /\ account = [u \in Users |-> NewAccount]
    /\ request = [r \in Requests |-> Idle]
    /\ runner = [w \in Runners |-> Asleep]
    /\ lock = None
    /\ faults = 0

Tick ==
    /\ now < MaxTime
    /\ now' = now + 1
    /\ UNCHANGED <<account, request, runner, lock, faults>>

Fault == faults < MaxFaults /\ faults' = faults + 1
-----------------------------------------------------------------------------
(* The member's requests.                                                  *)

Ask(r, step, u) ==
    /\ request[r] = Idle
    /\ request' = [request EXCEPT ![r] = [step |-> step, user |-> u, at |-> now]]
    /\ UNCHANGED <<now, account, runner, lock, faults>>

\* The access token of a hidden or deleted account is refused.
beginAccountDeletion(r, u) ==
    /\ ~ account[u].hidden /\ ~ account[u].deleted
    /\ now + Grace <= MaxTime
    /\ Ask(r, "scheduling", u)

Scheduled(a, at) == [a EXCEPT !.hidden = TRUE, !.scheduledAt = at + Grace]

\* Mutant: a repeated request starts a new grace period.
CanScheduleAgain(a) == ~ a.deleted
CanSchedule(a) == ~ a.deleted /\ a.scheduledAt = None

\* An account that is scheduled already keeps its deadline.
scheduleDeletion(r) ==
    /\ request[r].step = "scheduling"
    /\ LET u == request[r].user
       IN  account' = IF CanSchedule(account[u])
                      THEN [account EXCEPT ![u] = Scheduled(account[u], request[r].at)]
                      ELSE account
    /\ request' = [request EXCEPT ![r] = Idle]
    /\ UNCHANGED <<now, runner, lock, faults>>

\* A sign-in that found the account: the time the restore compares with is
\* read before its UPDATE gets a connection.
restoreIfWithinGrace(r, u) ==
    /\ ~ account[u].deleted
    /\ Ask(r, "restoring", u)

\* Mutant: a sign-in restores the account until it is anonymized.
CanRestoreLate(a, at) == ~ a.deleted /\ a.scheduledAt # None
CanRestore(a, at) == ~ a.deleted /\ a.scheduledAt # None /\ a.scheduledAt > at

restoreScheduledDeletion(r) ==
    /\ request[r].step = "restoring"
    /\ LET u == request[r].user
       IN  account' = IF CanRestore(account[u], request[r].at)
                      THEN [account EXCEPT ![u] = NewAccount]
                      ELSE account
    /\ request' = [request EXCEPT ![r] = Idle]
    /\ UNCHANGED <<now, runner, lock, faults>>

\* The process dies or the statement fails before it takes effect.
abandon(r) ==
    /\ request[r] # Idle
    /\ request' = [request EXCEPT ![r] = Idle]
    /\ UNCHANGED <<now, account, runner, lock, faults>>
-----------------------------------------------------------------------------
(* A maintenance cycle: runCycle inside runExclusive.                      *)

startCycle(w) ==
    /\ runner[w].step = "asleep"
    /\ runner' = [runner EXCEPT ![w] = [Asleep EXCEPT !.step = "locking", !.at = now]]
    /\ UNCHANGED <<now, account, request, lock, faults>>

\* pg_try_advisory_lock; a cycle that does not get the lock is skipped.
tryLock(w) ==
    /\ runner[w].step = "locking"
    /\ IF lock = None
       THEN lock' = w /\ runner' = [runner EXCEPT ![w].step = "claiming"]
       ELSE lock' = lock /\ runner' = [runner EXCEPT ![w] = Asleep]
    /\ UNCHANGED <<now, account, request, faults>>

\* The session that holds the lock drops; its runner does not notice.
loseSession(w) ==
    /\ lock = w
    /\ Fault
    /\ lock' = None
    /\ UNCHANGED <<now, account, request, runner>>

\* The other jobs get the same `now'; nothing here depends on it any more.
AfterJob(r) ==
    IF r.job < Len(JobNames)
    THEN [Asleep EXCEPT !.step = "job", !.job = r.job + 1]
    ELSE [Asleep EXCEPT !.step = "unlocking"]

\* Mutant: a job that throws ends the cycle.
AfterFailureStops(r) == [Asleep EXCEPT !.step = "unlocking"]

\* Every job has a try/catch of its own.
AfterFailure(r) == AfterJob(r)

Due(u, at) == account[u].scheduledAt # None /\ account[u].scheduledAt <= at

\* Mutant: a lease that lapsed is not taken over.
ClaimableUnleased(u, at) == Due(u, at) /\ ~ account[u].deleted /\ account[u].lease = None
Claimable(u, at) ==
    /\ Due(u, at) /\ ~ account[u].deleted
    /\ account[u].lease = None \/ account[u].lease <= at

\* ORDER BY deletionScheduledAt, userId LIMIT n: any order of the ids.  SKIP
\* LOCKED passes over the accounts that some other transaction has locked.
FirstDue(batch, at) ==
    \E locked \in SUBSET Users :
      LET due == {u \in Users \ locked : Claimable(u, at)}
      IN  /\ batch \subseteq due
          /\ Cardinality(batch) = BatchLimit \/ (batch = due /\ Cardinality(due) < BatchLimit)
          /\ \A u \in batch, v \in due \ batch : account[u].scheduledAt <= account[v].scheduledAt

claimDueDeletionBatch(w, batch) ==
    /\ runner[w].step = "claiming"
    /\ FirstDue(batch, runner[w].at)
    /\ account' = [u \in Users |->
                     IF u \in batch THEN [account[u] EXCEPT !.lease = runner[w].at + Lease] ELSE account[u]]
    /\ runner' = [runner EXCEPT ![w].step = "settling", ![w].claimed = batch]
    /\ UNCHANGED <<now, request, lock, faults>>

claimFails(w) ==
    /\ runner[w].step = "claiming"
    /\ Fault
    /\ runner' = [runner EXCEPT ![w] = AfterFailure(@)]
    /\ UNCHANGED <<now, account, request, lock>>

\* Mutant: whoever claimed the account may anonymize it.
CanAnonymizeOnceClaimed(u, at) == ~ account[u].deleted
CanAnonymize(u, at) ==
    /\ ~ account[u].deleted /\ Due(u, at)
    /\ account[u].lease = at + Lease
    /\ account[u].lease > at

Anonymized(a) == [a EXCEPT !.deleted = TRUE, !.scheduledAt = None, !.lease = None]

\* The jobs of a batch run side by side.  One whose claim is no longer good
\* throws, and so gives the lease back.
anonymizeDeletedAccount(w, u) ==
    /\ u \in runner[w].claimed
    /\ IF CanAnonymize(u, runner[w].at)
       THEN /\ account' = [account EXCEPT ![u] = Anonymized(account[u])]
            /\ runner' = [runner EXCEPT ![w].claimed = @ \ {u}]
       ELSE /\ runner' = [runner EXCEPT ![w].claimed = @ \ {u}, ![w].failed = @ \cup {u}]
            /\ UNCHANGED account
    /\ UNCHANGED <<now, request, lock, faults>>

anonymizeFails(w, u) ==
    /\ u \in runner[w].claimed
    /\ Fault
    /\ runner' = [runner EXCEPT ![w].claimed = @ \ {u}, ![w].failed = @ \cup {u}]
    /\ UNCHANGED <<now, account, request, lock>>

Released(a, at) == IF ~ a.deleted /\ a.lease = at + Lease THEN [a EXCEPT !.lease = None] ELSE a

releaseDeletionLease(w, u) ==
    /\ u \in runner[w].failed
    /\ account' = [account EXCEPT ![u] = Released(account[u], runner[w].at)]
    /\ runner' = [runner EXCEPT ![w].failed = @ \ {u}]
    /\ UNCHANGED <<now, request, lock, faults>>

\* What a fault leaves behind must lapse before the clock of the model stops.
Recoverable(w) == runner[w].at + Lease <= MaxTime

\* The batch throws once all of its jobs are settled.
releaseFails(w, u) ==
    /\ u \in runner[w].failed
    /\ Recoverable(w)
    /\ Fault
    /\ runner' = [runner EXCEPT ![w].failed = @ \ {u}]
    /\ UNCHANGED <<now, account, request, lock>>

batchSettled(w) ==
    /\ runner[w].step = "settling"
    /\ runner[w].claimed = {} /\ runner[w].failed = {}
    /\ runner' = [runner EXCEPT ![w] = AfterJob(@)]
    /\ UNCHANGED <<now, account, request, lock, faults>>

\* processPushOutboxBatch, processPushReceiptBatch, cleanupExpiredStagingBatch
runJob(w, succeeds) ==
    /\ runner[w].step = "job"
    /\ runner' = [runner EXCEPT ![w] = IF succeeds THEN AfterJob(@) ELSE AfterFailure(@)]
    /\ UNCHANGED <<now, account, request, lock, faults>>

unlock(w) ==
    /\ runner[w].step = "unlocking"
    /\ lock = w
    /\ lock' = None
    /\ runner' = [runner EXCEPT ![w] = Asleep]
    /\ UNCHANGED <<now, account, request, faults>>

\* Mutant: the session that could not unlock goes back to the pool.
SessionKept(w) == lock
SessionDestroyed(w) == IF lock = w THEN None ELSE lock

\* The statement fails, as it does when the session is gone: the client is
\* destroyed, and the cycle throws.
unlockFails(w) ==
    /\ runner[w].step = "unlocking"
    /\ IF lock = w THEN Fault ELSE UNCHANGED faults
    /\ lock' = SessionDestroyed(w)
    /\ runner' = [runner EXCEPT ![w] = Asleep]
    /\ UNCHANGED <<now, account, request>>

\* The process dies with its session and is started again.
crash(w) ==
    /\ runner[w].claimed \cup runner[w].failed # {} => Recoverable(w)
    /\ Fault
    /\ runner' = [runner EXCEPT ![w] = Asleep]
    /\ lock' = IF lock = w THEN None ELSE lock
    /\ UNCHANGED <<now, account, request>>
-----------------------------------------------------------------------------
MemberStep(r) ==
    \/ \E u \in Users : beginAccountDeletion(r, u) \/ restoreIfWithinGrace(r, u)
    \/ scheduleDeletion(r)
    \/ restoreScheduledDeletion(r)
    \/ abandon(r)

RunnerStep(w) ==
    \/ startCycle(w) \/ tryLock(w)
    \/ \E batch \in SUBSET Users : claimDueDeletionBatch(w, batch)
    \/ \E u \in Users : anonymizeDeletedAccount(w, u) \/ releaseDeletionLease(w, u)
    \/ batchSettled(w)
    \/ \E succeeds \in BOOLEAN : runJob(w, succeeds)
    \/ unlock(w)
    \/ lock # w /\ unlockFails(w)

RunnerFault(w) ==
    \/ loseSession(w) \/ claimFails(w) \/ crash(w)
    \/ \E u \in Users : anonymizeFails(w, u) \/ releaseFails(w, u)
    \/ lock = w /\ unlockFails(w)

Next ==
    \/ Tick
    \/ \E r \in Requests : MemberStep(r)
    \/ \E w \in Runners : RunnerStep(w) \/ RunnerFault(w)

Spec == Init /\ [][Next]_vars

\* Time passes and every process goes on: run() wakes each minute for ever,
\* and a statement of its cycle ends in a result or an error.  An account that
\* is due at one claim after the other is not locked by a stranger at every one
\* of them.  Nothing makes a member act, and faults are bounded.
FairSpec ==
    /\ Spec
    /\ WF_vars(Tick)
    /\ \A w \in Runners : WF_vars(RunnerStep(w))
    /\ \A u \in Users :
         SF_vars(\E w \in Runners, batch \in SUBSET Users :
                   u \in batch /\ claimDueDeletionBatch(w, batch))
-----------------------------------------------------------------------------
(* Properties.                                                             *)

\* The columns have the types of the schema; deletedAt and a pending
\* deadline exclude each other.
TypeOK ==
    /\ now \in Times
    /\ account \in [Users -> AccountType]
    /\ request \in [Requests -> RequestType]
    /\ runner \in [Runners -> RunnerType]
    /\ lock \in Runners \cup {None}
    /\ faults \in 0 .. MaxFaults

statusOf(a) ==
    IF a.deleted THEN "gone" ELSE IF a.scheduledAt # None THEN "leaving" ELSE "active"

Lifecycle ==
    INSTANCE AccountLifecycle WITH
      clock <- now,
      wish <- request,
      status <- [u \in Users |-> statusOf(account[u])],
      deadline <- [u \in Users |-> account[u].scheduledAt]

\* However leases lapse, cycles overlap and sign-ins race the worker: an
\* account is anonymized only after its own full grace period, never when it
\* was restored after it was claimed, comes back only by a sign-in of before
\* its deadline, and a repeated request never moves that deadline.
ImplementsAccountLifecycle == Lifecycle!LifecycleSpec

\* Every account whose deletion is pending is anonymized in the end, unless
\* its owner comes back: no crash, lapsed lease, failed statement or lost
\* lock leaves it behind.
EventuallyForgotten ==
    \A u \in Users : statusOf(account[u]) = "leaving" ~> statusOf(account[u]) # "leaving"

\* The last job of the cycle runs again and again, however often the jobs
\* before it throw and whatever becomes of the lock's sessions.
LastJobKeepsRunning == []<>(\E w \in Runners : runner[w].step = "job" /\ runner[w].job = Len(JobNames))

=============================================================================
