------------------------ MODULE AccountDeletionProofs ------------------------
(***************************************************************************)
(* Proofs about AccountDeletion, for every number of members, requests and *)
(* maintenance processes and every grace period, lease and batch size.     *)
(***************************************************************************)
EXTENDS AccountDeletion, TLAPS

\* A cycle works with a time that has passed, however long it has been
\* suspended since it read it.
CyclesPast == \A w \in Runners : runner[w].at <= now

DeletionInv == TypeOK /\ CyclesPast

-----------------------------------------------------------------------------
(* Types of the records *)

LEMMA ConstantTypes ==
  /\ Grace \in Nat \ {0} /\ Lease \in Nat \ {0} /\ MaxFaults \in Nat /\ MaxTime \in Nat
  /\ 0 \in Times /\ Times \subseteq Nat
<1>1. Grace \in Nat \ {0} /\ Lease \in Nat \ {0} /\ MaxFaults \in Nat /\ MaxTime \in Nat
  BY DeletionConstants
<1> QED
  BY <1>1 DEF Times

LEMMA JobCount == Len(JobNames) = 4
  BY DEF JobNames

LEMMA AsleepType ==
  ASSUME NEW t \in Times
  PROVE  /\ Asleep \in RunnerType /\ Asleep.at = 0
         /\ [Asleep EXCEPT !.step = "locking", !.at = t] \in RunnerType
         /\ [Asleep EXCEPT !.step = "locking", !.at = t].at = t
<1>1. 1 \in 1 .. Len(JobNames)
  BY JobCount
<1>2. Asleep \in RunnerType /\ Asleep.at = 0
  BY <1>1, ConstantTypes DEF Asleep, RunnerType
<1> QED
  BY <1>2 DEF RunnerType

LEMMA AfterJobType ==
  ASSUME NEW r \in RunnerType
  PROVE  /\ AfterJob(r) \in RunnerType /\ AfterJob(r).at = 0
         /\ AfterFailure(r) \in RunnerType /\ AfterFailure(r).at = 0
<1>1. r.job \in 1 .. 4
  BY JobCount DEF RunnerType
<1>2. r.job < 4 => r.job + 1 \in 1 .. 4
  BY <1>1
<1>3. Asleep \in RunnerType /\ Asleep.at = 0
  BY AsleepType, ConstantTypes
<1>4. AfterJob(r) \in RunnerType /\ AfterJob(r).at = 0
  BY <1>2, <1>3, JobCount DEF RunnerType, AfterJob
<1> QED
  BY <1>4 DEF AfterFailure

LEMMA SettlingType ==
  ASSUME NEW r \in RunnerType, NEW c \in SUBSET Users, NEW f \in SUBSET Users
  PROVE  /\ [r EXCEPT !.claimed = c] \in RunnerType
         /\ [r EXCEPT !.claimed = c].at = r.at
         /\ [r EXCEPT !.failed = f] \in RunnerType
         /\ [r EXCEPT !.failed = f].at = r.at
         /\ [r EXCEPT !.claimed = c, !.failed = f] \in RunnerType
         /\ [r EXCEPT !.claimed = c, !.failed = f].at = r.at
         /\ [r EXCEPT !.step = "settling", !.claimed = c] \in RunnerType
         /\ [r EXCEPT !.step = "settling", !.claimed = c].at = r.at
         /\ [r EXCEPT !.step = "claiming"] \in RunnerType
         /\ [r EXCEPT !.step = "claiming"].at = r.at
  BY DEF RunnerType

(* What the UPDATEs of an account do to its type, its status and its deadline. *)

LEMMA ScheduledFacts ==
  ASSUME NEW a \in AccountType, NEW t \in Times
  PROVE  /\ Scheduled(a, t) \in AccountType
         /\ ~ a.deleted => statusOf(Scheduled(a, t)) = "leaving"
         /\ Scheduled(a, t).scheduledAt = t + Grace
<1>1. t + Grace \in Nat /\ t + Grace # None
  BY ConstantTypes, DeletionConstants
<1> QED
  BY <1>1 DEF AccountType, Scheduled, statusOf

LEMMA LeasedFacts ==
  ASSUME NEW a \in AccountType, NEW t \in Times
  PROVE  /\ [a EXCEPT !.lease = t + Lease] \in AccountType
         /\ statusOf([a EXCEPT !.lease = t + Lease]) = statusOf(a)
         /\ [a EXCEPT !.lease = t + Lease].scheduledAt = a.scheduledAt
<1>1. t + Lease \in Nat
  BY ConstantTypes
<1> QED
  BY <1>1 DEF AccountType, statusOf

LEMMA ReleasedFacts ==
  ASSUME NEW a \in AccountType, NEW t \in Times
  PROVE  /\ Released(a, t) \in AccountType
         /\ statusOf(Released(a, t)) = statusOf(a)
         /\ Released(a, t).scheduledAt = a.scheduledAt
  BY DEF AccountType, Released, statusOf

LEMMA AnonymizedFacts ==
  ASSUME NEW a \in AccountType
  PROVE  /\ Anonymized(a) \in AccountType
         /\ statusOf(Anonymized(a)) = "gone" /\ Anonymized(a).scheduledAt = None
  BY DEF AccountType, Anonymized, statusOf

LEMMA NewAccountFacts ==
  /\ NewAccount \in AccountType
  /\ statusOf(NewAccount) = "active" /\ NewAccount.scheduledAt = None
  BY DEF AccountType, NewAccount, statusOf

LEMMA RequestFacts ==
  ASSUME NEW q \in RequestType, q.step # "idle"
  PROVE  q.user \in Users /\ q.at \in Times
  BY DEF RequestType, Idle

-----------------------------------------------------------------------------
(* The inductive invariant *)

LEMMA DeletionInit == Init => DeletionInv
<1> SUFFICES ASSUME Init PROVE DeletionInv
  OBVIOUS
<1>1. 0 \in Times /\ Asleep \in RunnerType /\ Asleep.at = 0 /\ NewAccount \in AccountType
  BY ConstantTypes, AsleepType DEF NewAccount, AccountType
<1>2. TypeOK
  BY <1>1, ConstantTypes DEF Init, TypeOK, RequestType
<1>3. CyclesPast
  BY <1>1 DEF Init, CyclesPast
<1> QED
  BY <1>2, <1>3 DEF DeletionInv

\* A step of one process: what has to be shown of its new record.
LEMMA RunnerMoves ==
  ASSUME DeletionInv, NEW w \in Runners, NEW r \in RunnerType, r.at <= now,
         runner' = [runner EXCEPT ![w] = r], UNCHANGED <<now, request>>,
         account' \in [Users -> AccountType],
         lock' \in Runners \cup {None}, faults' \in 0 .. MaxFaults
  PROVE  DeletionInv'
  BY DEF DeletionInv, TypeOK, CyclesPast

LEMMA FaultType ==
  ASSUME TypeOK, Fault PROVE faults' \in 0 .. MaxFaults
  BY DeletionConstants DEF TypeOK, Fault

LEMMA MemberKeepsInv ==
  ASSUME DeletionInv, NEW r \in Requests, MemberStep(r)
  PROVE  DeletionInv'
<1>t. TypeOK
  BY DEF DeletionInv
<1>1. ASSUME NEW u \in Users, beginAccountDeletion(r, u) \/ restoreIfWithinGrace(r, u)
      PROVE  DeletionInv'
  BY <1>1 DEF beginAccountDeletion, restoreIfWithinGrace, Ask, DeletionInv, TypeOK,
              CyclesPast, RequestType
<1>2. CASE scheduleDeletion(r)
  <2>1. request[r].user \in Users /\ request[r].at \in Times
    BY <1>2, <1>t, RequestFacts DEF scheduleDeletion, TypeOK
  <2>2. account' \in [Users -> AccountType]
    BY <1>2, <1>t, <2>1, ScheduledFacts DEF scheduleDeletion, TypeOK
  <2> QED
    BY <1>2, <2>2 DEF scheduleDeletion, DeletionInv, TypeOK, CyclesPast, RequestType
<1>3. CASE restoreScheduledDeletion(r)
  <2>1. request[r].user \in Users /\ request[r].at \in Times
    BY <1>3, <1>t, RequestFacts DEF restoreScheduledDeletion, TypeOK
  <2>2. account' \in [Users -> AccountType]
    BY <1>3, <1>t, <2>1, NewAccountFacts DEF restoreScheduledDeletion, TypeOK
  <2> QED
    BY <1>3, <2>2 DEF restoreScheduledDeletion, DeletionInv, TypeOK, CyclesPast, RequestType
<1>4. CASE abandon(r)
  BY <1>4 DEF abandon, DeletionInv, TypeOK, CyclesPast, RequestType
<1> QED
  BY <1>1, <1>2, <1>3, <1>4 DEF MemberStep

LEMMA RunnerKeepsInv ==
  ASSUME DeletionInv, NEW w \in Runners, RunnerStep(w) \/ RunnerFault(w)
  PROVE  DeletionInv'
<1>t. TypeOK
  BY DEF DeletionInv
<1>r. /\ runner[w] \in RunnerType /\ runner[w].at \in Times /\ runner[w].at <= now /\ now \in Times
      /\ runner[w].claimed \subseteq Users /\ runner[w].failed \subseteq Users
  BY DEF DeletionInv, TypeOK, CyclesPast, RunnerType
<1>a. Asleep \in RunnerType /\ Asleep.at <= now
  <2>1. now \in Nat /\ Asleep \in RunnerType /\ Asleep.at = 0
    BY <1>r, AsleepType, ConstantTypes
  <2> QED
    BY <2>1
<1>m. ASSUME NEW r, r \in RunnerType, r.at <= now, runner' = [runner EXCEPT ![w] = r],
             UNCHANGED <<now, request>>, account' \in [Users -> AccountType],
             lock' \in Runners \cup {None}, faults' \in 0 .. MaxFaults
      PROVE  DeletionInv'
  BY <1>m, RunnerMoves
<1>1. CASE startCycle(w)
  <2> DEFINE r == [Asleep EXCEPT !.step = "locking", !.at = now]
  <2>1. r \in RunnerType /\ r.at = now
    BY <1>r, <1>a DEF RunnerType
  <2>n. now <= now
    BY <1>r, ConstantTypes
  <2> HIDE DEF r
  <2>2. runner' = [runner EXCEPT ![w] = r]
    BY <1>1 DEF startCycle, r
  <2> QED
    BY <1>1, <1>t, <2>1, <2>n, <2>2, <1>m DEF startCycle, TypeOK
<1>2. CASE tryLock(w)
  <2>1. CASE lock = None
    <3>1. runner' = [runner EXCEPT ![w] = [runner[w] EXCEPT !.step = "claiming"]]
      BY <1>2, <2>1 DEF tryLock
    <3> QED
      BY <1>2, <2>1, <3>1, <1>t, <1>r, SettlingType, RunnerMoves DEF tryLock, TypeOK
  <2>2. CASE lock # None
    BY <1>2, <2>2, <1>t, <1>r, <1>a, RunnerMoves DEF tryLock, TypeOK
  <2> QED
    BY <2>1, <2>2
<1>3. ASSUME NEW batch \in SUBSET Users, claimDueDeletionBatch(w, batch) PROVE DeletionInv'
  <2>1. account' \in [Users -> AccountType]
    BY <1>3, <1>t, <1>r, LeasedFacts DEF claimDueDeletionBatch, TypeOK
  <2> DEFINE r == [runner[w] EXCEPT !.step = "settling", !.claimed = batch]
  <2>2. r \in RunnerType /\ r.at <= now
    BY <1>r, SettlingType
  <2>3. runner' = [runner EXCEPT ![w] = r]
    BY <1>3, <1>t DEF claimDueDeletionBatch, TypeOK
  <2> HIDE DEF r
  <2> QED
    BY <1>3, <1>t, <2>1, <2>2, <2>3, <1>m DEF claimDueDeletionBatch, TypeOK
<1>4. ASSUME NEW u \in Users, anonymizeDeletedAccount(w, u) PROVE DeletionInv'
  <2>1. account' \in [Users -> AccountType]
    BY <1>4, <1>t, <1>r, AnonymizedFacts DEF anonymizeDeletedAccount, TypeOK
  <2> DEFINE c == runner[w].claimed \ {u}
             f == runner[w].failed \cup {u}
  <2>2. CASE CanAnonymize(u, runner[w].at)
    <3> DEFINE r == [runner[w] EXCEPT !.claimed = c]
    <3>1. r \in RunnerType /\ r.at <= now
      BY <1>r, SettlingType
    <3>2. runner' = [runner EXCEPT ![w] = r]
      BY <1>4, <2>2, <1>t DEF anonymizeDeletedAccount, TypeOK
    <3> HIDE DEF r
    <3> QED
      BY <1>4, <1>t, <2>1, <3>1, <3>2, <1>m DEF anonymizeDeletedAccount, TypeOK
  <2>3. CASE ~ CanAnonymize(u, runner[w].at)
    <3> DEFINE r == [runner[w] EXCEPT !.claimed = c, !.failed = f]
    <3>1. r \in RunnerType /\ r.at <= now
      BY <1>r DEF RunnerType
    <3>2. runner' = [runner EXCEPT ![w] = r]
      BY <1>4, <2>3, <1>t DEF anonymizeDeletedAccount, TypeOK
    <3> HIDE DEF r
    <3> QED
      BY <1>4, <1>t, <2>1, <3>1, <3>2, <1>m DEF anonymizeDeletedAccount, TypeOK
  <2> QED
    BY <2>2, <2>3
<1>5. ASSUME NEW u \in Users, releaseDeletionLease(w, u) PROVE DeletionInv'
  <2>1. account' \in [Users -> AccountType]
    BY <1>5, <1>t, <1>r, ReleasedFacts DEF releaseDeletionLease, TypeOK
  <2>2. runner' = [runner EXCEPT ![w] = [runner[w] EXCEPT !.failed = runner[w].failed \ {u}]]
    BY <1>5, <1>t DEF releaseDeletionLease, TypeOK
  <2> QED
    BY <1>5, <1>t, <1>r, <2>1, <2>2, SettlingType, RunnerMoves DEF releaseDeletionLease, TypeOK
<1>6. CASE batchSettled(w) \/ \E succeeds \in BOOLEAN : runJob(w, succeeds)
  <2>1. PICK r \in {AfterJob(runner[w]), AfterFailure(runner[w])} : runner' = [runner EXCEPT ![w] = r]
    BY <1>6, <1>t DEF batchSettled, runJob, TypeOK
  <2>2. r \in RunnerType /\ r.at <= now
    BY <1>r, AfterJobType DEF Times
  <2>3. UNCHANGED <<now, account, request, lock, faults>>
    BY <1>6 DEF batchSettled, runJob
  <2> QED
    BY <1>t, <2>1, <2>2, <2>3, RunnerMoves DEF TypeOK
<1>7. CASE unlock(w)
  BY <1>7, <1>t, <1>a, RunnerMoves DEF unlock, TypeOK
<1>8. CASE unlockFails(w)
  <2>1. faults' \in 0 .. MaxFaults /\ lock' \in Runners \cup {None}
    BY <1>8, <1>t, FaultType DEF unlockFails, SessionDestroyed, TypeOK
  <2> QED
    BY <1>8, <1>t, <1>a, <2>1, RunnerMoves DEF unlockFails, TypeOK
<1>9. CASE loseSession(w)
  <2>1. faults' \in 0 .. MaxFaults
    BY <1>9, <1>t, FaultType DEF loseSession
  <2> QED
    BY <1>9, <2>1 DEF loseSession, DeletionInv, TypeOK, CyclesPast
<1>10. CASE claimFails(w)
  <2>1. faults' \in 0 .. MaxFaults
    BY <1>10, <1>t, FaultType DEF claimFails
  <2>2. runner' = [runner EXCEPT ![w] = AfterFailure(runner[w])]
    BY <1>10, <1>t DEF claimFails, TypeOK
  <2>3. AfterFailure(runner[w]) \in RunnerType /\ AfterFailure(runner[w]).at <= now
    BY <1>r, AfterJobType DEF Times
  <2> QED
    BY <1>10, <1>t, <2>1, <2>2, <2>3, RunnerMoves DEF claimFails, TypeOK
<1>11. CASE crash(w)
  <2>1. faults' \in 0 .. MaxFaults
    BY <1>11, <1>t, FaultType DEF crash
  <2> QED
    BY <1>11, <1>t, <1>a, <2>1, RunnerMoves DEF crash, TypeOK
<1>12. ASSUME NEW u \in Users, anonymizeFails(w, u) \/ releaseFails(w, u) PROVE DeletionInv'
  <2>1. faults' \in 0 .. MaxFaults
    BY <1>12, <1>t, FaultType DEF anonymizeFails, releaseFails
  <2>2. PICK c \in SUBSET Users, f \in SUBSET Users :
          runner' = [runner EXCEPT ![w] = [runner[w] EXCEPT !.claimed = c, !.failed = f]]
    <3>1. CASE anonymizeFails(w, u)
      <4>1. runner' = [runner EXCEPT ![w] = [runner[w] EXCEPT !.claimed = runner[w].claimed \ {u},
                                                              !.failed = runner[w].failed \cup {u}]]
        BY <3>1, <1>t DEF anonymizeFails, TypeOK
      <4> QED
        BY <4>1, <1>r
    <3>2. CASE releaseFails(w, u)
      <4>1. runner' = [runner EXCEPT ![w] = [runner[w] EXCEPT !.failed = runner[w].failed \ {u}]]
        BY <3>2, <1>t DEF releaseFails, TypeOK
      <4>2. [runner[w] EXCEPT !.failed = runner[w].failed \ {u}]
            = [runner[w] EXCEPT !.claimed = runner[w].claimed, !.failed = runner[w].failed \ {u}]
        BY <1>r DEF RunnerType
      <4> QED
        BY <4>1, <4>2, <1>r
    <3> QED
      BY <1>12, <3>1, <3>2
  <2>3. UNCHANGED <<now, account, request, lock>>
    BY <1>12 DEF anonymizeFails, releaseFails
  <2> QED
    <3>1. /\ [runner[w] EXCEPT !.claimed = c, !.failed = f] \in RunnerType
          /\ [runner[w] EXCEPT !.claimed = c, !.failed = f].at <= now
      BY <1>r, <2>2 DEF RunnerType
    <3>2. account' \in [Users -> AccountType] /\ lock' \in Runners \cup {None}
      BY <1>t, <2>3 DEF TypeOK
    <3> QED
      BY <2>1, <2>2, <2>3, <3>1, <3>2, RunnerMoves
<1> QED
  BY <1>1, <1>2, <1>3, <1>4, <1>5, <1>6, <1>7, <1>8, <1>9, <1>10, <1>11, <1>12
     DEF RunnerStep, RunnerFault

LEMMA DeletionNext == DeletionInv /\ [Next]_vars => DeletionInv'
<1> SUFFICES ASSUME DeletionInv, [Next]_vars PROVE DeletionInv'
  OBVIOUS
<1>1. CASE Tick
  <2>1. now' \in Times /\ now \in Times /\ now' = now + 1
    BY <1>1, DeletionConstants DEF Tick, Times, DeletionInv, TypeOK
  <2> QED
    BY <1>1, <2>1 DEF Tick, DeletionInv, TypeOK, CyclesPast, RunnerType, Times
<1>2. CASE UNCHANGED vars
  BY <1>2 DEF vars, DeletionInv, TypeOK, CyclesPast
<1> QED
  BY <1>1, <1>2, MemberKeepsInv, RunnerKeepsInv DEF Next

LEMMA DeletionAlways == Spec => []DeletionInv
  BY DeletionInit, DeletionNext, PTL DEF Spec

-----------------------------------------------------------------------------
(* The refinement *)

LEMMA StartsAsLifecycle == Init => Lifecycle!LifecycleInit
<1>1. statusOf(NewAccount) = "active" /\ NewAccount.scheduledAt = None
  BY DEF statusOf, NewAccount
<1> QED
  BY <1>1 DEF Init, Lifecycle!LifecycleInit, Lifecycle!NoWish, Idle

\* Steps of the maintenance processes that leave every member's status,
\* deadline and wishes alone are invisible to the member.
LEMMA Unseen ==
  ASSUME UNCHANGED <<now, request>>,
         \A u \in Users : /\ statusOf(account'[u]) = statusOf(account[u])
                         /\ account'[u].scheduledAt = account[u].scheduledAt
  PROVE  UNCHANGED Lifecycle!lifecycleVars
<1>1. [u \in Users |-> statusOf(account[u])]' = [u \in Users |-> statusOf(account[u])]
  BY DEF statusOf
<1>2. [u \in Users |-> account[u].scheduledAt]' = [u \in Users |-> account[u].scheduledAt]
  OBVIOUS
<1> QED
  BY <1>1, <1>2 DEF Lifecycle!lifecycleVars

\* Steps that change the status or the deadline of one member.
LEMMA Seen ==
  ASSUME NEW u \in Users, NEW st, NEW d,
         statusOf(account'[u]) = st, account'[u].scheduledAt = d,
         \A v \in Users \ {u} : account'[v] = account[v]
  PROVE  /\ [v \in Users |-> statusOf(account'[v])]
              = [[v \in Users |-> statusOf(account[v])] EXCEPT ![u] = st]
         /\ [v \in Users |-> account'[v].scheduledAt]
              = [[v \in Users |-> account[v].scheduledAt] EXCEPT ![u] = d]
  OBVIOUS

LEMMA MemberRefines ==
  ASSUME DeletionInv, NEW r \in Requests, MemberStep(r)
  PROVE  Lifecycle!LifecycleNext
<1>t. TypeOK
  BY DEF DeletionInv
<1>1. ASSUME NEW u \in Users, beginAccountDeletion(r, u) \/ restoreIfWithinGrace(r, u)
      PROVE  Lifecycle!Wish(r, u)
  BY <1>1 DEF beginAccountDeletion, restoreIfWithinGrace, Ask, Idle,
              Lifecycle!Wish, Lifecycle!NoWish
<1>2. ASSUME UNCHANGED <<now, account>>, request' = [request EXCEPT ![r] = Idle]
      PROVE  Lifecycle!Drop(r)
  BY <1>2 DEF Lifecycle!Drop, Lifecycle!NoWish, Idle
<1>3. ASSUME scheduleDeletion(r) PROVE Lifecycle!LifecycleNext
  <2>1. PICK u \in Users : u = request[r].user /\ request[r].at \in Times
    BY <1>3, <1>t, RequestFacts DEF scheduleDeletion, TypeOK
  <2>2. CASE CanSchedule(account[u])
    <3>1. account' = [account EXCEPT ![u] = Scheduled(account[u], request[r].at)]
      BY <1>3, <2>1, <2>2 DEF scheduleDeletion
    <3>2. /\ statusOf(account[u]) = "active"
          /\ statusOf(account'[u]) = "leaving"
          /\ account'[u].scheduledAt = request[r].at + Grace
      BY <1>t, <2>1, <2>2, <3>1, ScheduledFacts DEF CanSchedule, TypeOK, statusOf
    <3>3. \A v \in Users \ {u} : account'[v] = account[v]
      BY <1>t, <3>1 DEF TypeOK
    <3>4. Lifecycle!Leave(r, u)
      <4>1. /\ [v \in Users |-> statusOf(account[v])]'
                 = [[v \in Users |-> statusOf(account[v])] EXCEPT ![u] = "leaving"]
            /\ [v \in Users |-> account[v].scheduledAt]'
                 = [[v \in Users |-> account[v].scheduledAt] EXCEPT ![u] = request[r].at + Grace]
        BY <3>2, <3>3, Seen DEF statusOf
      <4>2. request[r].step = "scheduling" /\ now' = now /\ request' = [request EXCEPT ![r] = Idle]
        BY <1>3 DEF scheduleDeletion
      <4>3. [v \in Users |-> statusOf(account[v])][u] = statusOf(account[u])
        OBVIOUS
      <4> QED
        BY <2>1, <3>2, <4>1, <4>2, <4>3 DEF Idle, Lifecycle!Leave, Lifecycle!NoWish
    <3> QED
      BY <2>1, <3>4 DEF Lifecycle!LifecycleNext
  <2>3. CASE ~ CanSchedule(account[u])
    BY <1>2, <1>3, <2>1, <2>3 DEF scheduleDeletion, Lifecycle!LifecycleNext
  <2> QED
    BY <2>2, <2>3
<1>4. ASSUME restoreScheduledDeletion(r) PROVE Lifecycle!LifecycleNext
  <2>1. PICK u \in Users : u = request[r].user /\ request[r].at \in Times
    BY <1>4, <1>t, RequestFacts DEF restoreScheduledDeletion, TypeOK
  <2>2. CASE CanRestore(account[u], request[r].at)
    <3>1. account' = [account EXCEPT ![u] = NewAccount]
      BY <1>4, <2>1, <2>2 DEF restoreScheduledDeletion
    <3>2. /\ statusOf(account[u]) = "leaving" /\ request[r].at < account[u].scheduledAt
          /\ statusOf(account'[u]) = "active" /\ account'[u].scheduledAt = None
      <4>1. account[u].scheduledAt \in Nat /\ request[r].at \in Nat
        BY <1>t, <2>1, <2>2 DEF CanRestore, TypeOK, AccountType, Times
      <4>2. account[u] \in AccountType /\ account'[u] = NewAccount
        BY <1>t, <2>1, <3>1 DEF TypeOK
      <4> QED
        BY <4>1, <4>2, <2>1, <2>2, NewAccountFacts DEF CanRestore, statusOf
    <3>3. \A v \in Users \ {u} : account'[v] = account[v]
      BY <1>t, <3>1 DEF TypeOK
    <3>4. Lifecycle!Return(r, u)
      <4>1. /\ [v \in Users |-> statusOf(account[v])]'
                 = [[v \in Users |-> statusOf(account[v])] EXCEPT ![u] = "active"]
            /\ [v \in Users |-> account[v].scheduledAt]'
                 = [[v \in Users |-> account[v].scheduledAt] EXCEPT ![u] = None]
        BY <3>2, <3>3, Seen DEF statusOf
      <4>2. request[r].step = "restoring" /\ now' = now /\ request' = [request EXCEPT ![r] = Idle]
        BY <1>4 DEF restoreScheduledDeletion
      <4>3. [v \in Users |-> statusOf(account[v])][u] = statusOf(account[u])
        OBVIOUS
      <4> QED
        BY <2>1, <3>2, <4>1, <4>2, <4>3 DEF Idle, Lifecycle!Return, Lifecycle!NoWish
    <3> QED
      BY <2>1, <3>4 DEF Lifecycle!LifecycleNext
  <2>3. CASE ~ CanRestore(account[u], request[r].at)
    BY <1>2, <1>4, <2>1, <2>3 DEF restoreScheduledDeletion, Lifecycle!LifecycleNext
  <2> QED
    BY <2>2, <2>3
<1>5. CASE abandon(r)
  BY <1>2, <1>5 DEF abandon, Lifecycle!LifecycleNext
<1> QED
  BY <1>1, <1>3, <1>4, <1>5 DEF MemberStep, Lifecycle!LifecycleNext

\* Of all a process does the member sees only the anonymization, and that
\* re-checks the deadline against the cycle's own time.
LEMMA RunnerRefines ==
  ASSUME DeletionInv, NEW w \in Runners, RunnerStep(w) \/ RunnerFault(w)
  PROVE  [Lifecycle!LifecycleNext]_(Lifecycle!lifecycleVars)
<1>t. TypeOK /\ runner[w].at \in Times /\ runner[w].at <= now /\ now \in Times
  BY DEF DeletionInv, TypeOK, CyclesPast, RunnerType
<1>1. ASSUME NEW u \in Users, anonymizeDeletedAccount(w, u), CanAnonymize(u, runner[w].at)
      PROVE  Lifecycle!Forget(u)
  <2>1. account' = [account EXCEPT ![u] = Anonymized(account[u])]
    BY <1>1 DEF anonymizeDeletedAccount
  <2>2. account[u] \in AccountType /\ account'[u] = Anonymized(account[u])
    BY <1>t, <2>1 DEF TypeOK
  <2>3. /\ statusOf(account[u]) = "leaving" /\ account[u].scheduledAt <= now
        /\ statusOf(account'[u]) = "gone" /\ account'[u].scheduledAt = None
    <3>1. statusOf(account'[u]) = "gone" /\ account'[u].scheduledAt = None
      BY <2>2, AnonymizedFacts
    <3>2. /\ ~ account[u].deleted /\ account[u].scheduledAt # None
          /\ account[u].scheduledAt <= runner[w].at
      BY <1>1 DEF CanAnonymize, Due
    <3>3. statusOf(account[u]) = "leaving"
      BY <3>2 DEF statusOf
    <3>4. account[u].scheduledAt \in Int /\ runner[w].at \in Int /\ now \in Int
      <4>1. account[u].scheduledAt \in Nat
        BY <2>2, <3>2 DEF AccountType
      <4>2. runner[w].at \in Nat /\ now \in Nat
        BY <1>t, ConstantTypes
      <4> QED
        BY <4>1, <4>2
    <3>5. account[u].scheduledAt <= now
      BY <1>t, <3>2, <3>4
    <3> QED
      BY <3>1, <3>3, <3>5
  <2>4. \A v \in Users \ {u} : account'[v] = account[v]
    BY <1>t, <2>1 DEF TypeOK
  <2> QED
    BY <1>1, <2>3, <2>4, Seen DEF anonymizeDeletedAccount, Lifecycle!Forget, statusOf
<1>2. ASSUME NEW batch \in SUBSET Users, claimDueDeletionBatch(w, batch)
      PROVE  UNCHANGED Lifecycle!lifecycleVars
  <2>1. \A u \in Users : /\ statusOf(account'[u]) = statusOf(account[u])
                         /\ account'[u].scheduledAt = account[u].scheduledAt
    BY <1>2, <1>t, LeasedFacts DEF claimDueDeletionBatch, TypeOK
  <2> QED
    BY <1>2, <2>1, Unseen DEF claimDueDeletionBatch
<1>3. ASSUME NEW u \in Users, releaseDeletionLease(w, u)
      PROVE  UNCHANGED Lifecycle!lifecycleVars
  <2>1. \A v \in Users : /\ statusOf(account'[v]) = statusOf(account[v])
                         /\ account'[v].scheduledAt = account[v].scheduledAt
    BY <1>3, <1>t, ReleasedFacts DEF releaseDeletionLease, TypeOK
  <2> QED
    BY <1>3, <2>1, Unseen DEF releaseDeletionLease
<1>4. ASSUME UNCHANGED <<now, account, request>> PROVE UNCHANGED Lifecycle!lifecycleVars
  BY <1>4, Unseen
<1> QED
  BY <1>1, <1>2, <1>3, <1>4
     DEF RunnerStep, RunnerFault, startCycle, tryLock, anonymizeDeletedAccount, batchSettled,
         runJob, unlock, unlockFails, loseSession, claimFails, crash, anonymizeFails, releaseFails,
         Lifecycle!LifecycleNext

LEMMA NextRefines == DeletionInv /\ [Next]_vars => [Lifecycle!LifecycleNext]_(Lifecycle!lifecycleVars)
<1> SUFFICES ASSUME DeletionInv, [Next]_vars
             PROVE  [Lifecycle!LifecycleNext]_(Lifecycle!lifecycleVars)
  OBVIOUS
<1>1. CASE Tick
  BY <1>1 DEF Tick, Lifecycle!Pass, Lifecycle!LifecycleNext
<1>2. CASE UNCHANGED vars
  BY <1>2, Unseen DEF vars
<1> QED
  BY <1>1, <1>2, MemberRefines, RunnerRefines DEF Next

-----------------------------------------------------------------------------
(* Theorems *)

\* Every column, request and process keeps its type: no deadline or lease is
\* ever written that is not a time.
THEOREM DeletionTypes == Spec => []TypeOK
<1>1. DeletionInv => TypeOK
  BY DEF DeletionInv
<1> QED
  BY <1>1, DeletionAlways, PTL

\* With any number of processes whose cycles overlap, lapse and fail, a member
\* sees only AccountLifecycle: nobody is forgotten before the end of the grace
\* period or after a restore, nobody returns after the deadline, and asking
\* again never moves it.
THEOREM LifecycleKept == Spec => ImplementsAccountLifecycle
  BY StartsAsLifecycle, NextRefines, DeletionAlways, PTL
     DEF Spec, ImplementsAccountLifecycle, Lifecycle!LifecycleSpec
=============================================================================
