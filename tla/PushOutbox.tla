------------------------------ MODULE PushOutbox ------------------------------
(***************************************************************************)
(* Notifications, the push_tokens of the installations and the push_outbox *)
(* jobs that a maintenance worker hands to Expo and later checks.          *)
(*                                                                         *)
(* PostgreSQL runs the transactions at READ COMMITTED: every statement     *)
(* sees what was committed before it began.  A transaction whose row locks *)
(* keep everybody else out is one action; where its statements can be      *)
(* separated by somebody else's commit it is two actions, with the locks   *)
(* it holds in between in the state.  A transaction that would wait for a  *)
(* lock is not enabled; one that PostgreSQL aborts to break a deadlock has *)
(* no effect and is not modelled.                                          *)
(*                                                                         *)
(* Times are abstracted to `due': the deadline the job's status waits for  *)
(* (nextAttemptAt, receiptAvailableAt or leaseExpiresAt) has passed.       *)
(***************************************************************************)
EXTENDS Integers, FiniteSets

CONSTANTS
    Users,             \* account ids
    Devices,           \* installation ids
    TokenValues,       \* Expo push tokens
    TokenIds,          \* ids of push_tokens rows; bounds the registrations
    Notifications,     \* notification ids
    Recipient,         \* Recipient[n]: the account notification n is for
    None,              \* SQL NULL
    MaxSends,          \* MAX_PUSH_SEND_ATTEMPTS
    MaxReceipts,       \* MAX_PUSH_RECEIPT_ATTEMPTS
    BatchLimit,        \* rows per batch
    MaxFlights,        \* bound: claimed jobs in flight in the workers
    MaxFaults          \* bound: claims lost by a worker or overtaken

Jobs == Notifications \X TokenIds
RotationType == [value : TokenValues, moved : SUBSET Jobs]

ASSUME PushConstants ==
    /\ Recipient \in [Notifications -> Users]
    /\ None \notin TokenIds \cup TokenValues \cup RotationType
    /\ MaxSends \in Nat \ {0} /\ MaxReceipts \in Nat \ {0}
    /\ MaxFlights \in Nat /\ MaxFaults \in Nat

VARIABLES
    token,       \* push_tokens, by row id
    job,         \* push_outbox, by notification and token row
    note,        \* notifications
    keyShare,    \* token rows a createWithPushOutbox holds FOR KEY SHARE
    rotating,    \* registerPushToken between its two rewrites of the outbox
    dropping,    \* invalidatePushToken before its DELETE: token row -> job
    leaving,     \* accounts in scheduleDeletion before its DELETE
    flights,     \* claimed jobs in the workers, with Expo's answer
    faults,      \* claims lost or overtaken so far
    crossed      \* history: jobs another transaction's gap let through

vars == <<token, job, note, keyShare, rotating, dropping, leaving, flights, faults, crossed>>

Queue == {"queued", "sending"}
Receipt == {"receipt_pending", "receipt_checking"}
OpenStatuses == Queue \cup Receipt                         \* OPEN_PUSH_STATUSES
InFlightStatuses == OpenStatuses \ {"queued"}              \* IN_FLIGHT_PUSH_STATUSES
FinalStatuses == {"delivered", "failed_permanent", "exhausted", "cancelled"}

TokenType ==
    [state : {"unused", "live", "deleted"}, user : Users \cup {None},
     device : Devices \cup {None}, value : TokenValues \cup {None}]

JobType ==
    [status : OpenStatuses \cup FinalStatuses \cup {"absent"},
     tokenId : TokenIds \cup {None}, snapshot : TokenValues \cup {None},
     ticket : TokenValues \cup {None},   \* ticketId: the token Expo accepted
     sends : Nat, receipts : Nat, due : BOOLEAN]

Answers == {"ok", "again", "rejected", "unregistered"}

FlightType ==
    [job : Jobs, kind : {"send", "receipt"}, attempt : Nat,
     tokenId : TokenIds \cup {None}, to : TokenValues \cup {None},
     answer : Answers \cup {None}]

\* Rows, claims and half-done transactions have the types of the schema.
TypeOK ==
    /\ token \in [TokenIds -> TokenType]
    /\ job \in [Jobs -> JobType]
    /\ note \in [Notifications -> {"none", "unread", "read", "deleted"}]
    /\ keyShare \in [Notifications -> SUBSET TokenIds]
    /\ rotating \in [TokenIds -> RotationType \cup {None}]
    /\ dropping \in [TokenIds -> Jobs \cup {None}]
    /\ leaving \subseteq Users
    /\ flights \subseteq FlightType
    /\ faults \in Nat
    /\ crossed \subseteq Jobs

NoToken == [state |-> "unused", user |-> None, device |-> None, value |-> None]

NoJob ==
    [status |-> "absent", tokenId |-> None, snapshot |-> None, ticket |-> None,
     sends |-> 0, receipts |-> 0, due |-> FALSE]

Init ==
    /\ token = [id \in TokenIds |-> NoToken]
    /\ job = [j \in Jobs |-> NoJob]
    /\ note = [n \in Notifications |-> "none"]
    /\ keyShare = [n \in Notifications |-> {}]
    /\ rotating = [id \in TokenIds |-> None]
    /\ dropping = [id \in TokenIds |-> None]
    /\ leaving = {}
    /\ flights = {}
    /\ faults = 0
    /\ crossed = {}

-----------------------------------------------------------------------------
(* Locks and the effects transactions share *)

Live(id) == token[id].state = "live"

\* Mutant: the tokens of every account.
AllTokens(user) == {id \in TokenIds : Live(id)}

TokensOf(user) == {id \in TokenIds : Live(id) /\ token[id].user = user}

\* Nobody holds the row FOR KEY SHARE or FOR UPDATE.
Lockable(id) ==
    /\ \A n \in Notifications : id \notin keyShare[n]
    /\ rotating[id] = None

\* A job a running rotation has rewritten stays locked until it commits.
Locked(j) == \E id \in TokenIds : rotating[id] # None /\ j \in rotating[id].moved

\* Mutant: only queued jobs are cancelled with their token.
QueuedJobsOf(ids) == {j \in Jobs : job[j].tokenId \in ids /\ job[j].status = "queued"}

OpenJobsOf(ids) == {j \in Jobs : job[j].tokenId \in ids /\ job[j].status \in OpenStatuses}

Cancelled(r) == [r EXCEPT !.status = "cancelled", !.due = FALSE]

\* ON DELETE SET NULL
Orphaned(r) == [r EXCEPT !.tokenId = None]

\* Cancel the jobs `cancel' and delete the token rows `ids' in one step.
Dropped(j, cancel, ids) ==
    LET r == IF j \in cancel THEN Cancelled(job[j]) ELSE job[j]
    IN  IF r.tokenId \in ids THEN Orphaned(r) ELSE r

Deleted(r) == [NoToken EXCEPT !.state = "deleted"]

WithoutTokens(ids) == [id \in TokenIds |-> IF id \in ids THEN Deleted(token[id]) ELSE token[id]]

-----------------------------------------------------------------------------
(* createWithPushOutbox, markRead *)

\* The insert into notifications and SELECT ... FOR KEY SHARE.
notify(n, enqueuePush) ==
    /\ note[n] = "none"
    /\ \A id \in TokensOf(Recipient[n]) : rotating[id] = None
    /\ note' = [note EXCEPT ![n] = "unread"]
    /\ keyShare' = [keyShare EXCEPT ![n] = IF enqueuePush THEN TokensOf(Recipient[n]) ELSE {}]
    /\ UNCHANGED <<token, job, rotating, dropping, leaving, flights, faults, crossed>>

Queued(id) ==
    [NoJob EXCEPT !.status = "queued", !.tokenId = id, !.snapshot = token[id].value,
                  !.due = TRUE]

\* A token whose open jobs were cancelled is about to be deleted.
Doomed(id) == dropping[id] # None \/ token[id].user \in leaving

\* The insert into push_outbox and the commit.  A job for a doomed token comes
\* too late for the cancellation and loses its token row to the DELETE.
enqueue(n) ==
    /\ keyShare[n] # {}
    /\ job' = [j \in Jobs |->
                 IF j[1] = n /\ j[2] \in keyShare[n] THEN Queued(j[2]) ELSE job[j]]
    /\ keyShare' = [keyShare EXCEPT ![n] = {}]
    /\ crossed' = crossed \cup {<<n, id>> : id \in {k \in keyShare[n] : Doomed(k)}}
    /\ UNCHANGED <<token, note, rotating, dropping, leaving, flights, faults>>

markRead(n) ==
    /\ note[n] = "unread"
    /\ keyShare[n] = {}
    /\ note' = [note EXCEPT ![n] = "read"]
    /\ UNCHANGED <<token, job, keyShare, rotating, dropping, leaving, flights, faults, crossed>>

-----------------------------------------------------------------------------
(* registerPushToken, unregisterPushToken *)

DeviceToken(user, device) == {id \in TokensOf(user) : token[id].device = device}

RequestedToken(value) == {id \in TokenIds : Live(id) /\ token[id].value = value}

\* The advisory locks on the token and on the installation, then FOR UPDATE.
\* A token stored for another installation is refused (ConflictException).
Admitted(user, device, value) ==
    /\ \A id \in TokenIds : rotating[id] # None =>
         /\ rotating[id].value # value
         /\ <<token[id].user, token[id].device>> # <<user, device>>
    /\ \A id \in DeviceToken(user, device) \cup RequestedToken(value) :
         Lockable(id) /\ dropping[id] = None
    /\ \A id \in RequestedToken(value) : token[id].device = device

\* Jobs cancelled because their token row moves to another account.
TakenOver(value) == OpenJobsOf(RequestedToken(value))

Registered(user, device, value) ==
    [state |-> "live", user |-> user, device |-> device, value |-> value]

\* A new row, after the row of another account on the same installation, if
\* any, is removed with its open jobs.
registerPushToken(id, user, device, value) ==
    /\ Admitted(user, device, value)
    /\ DeviceToken(user, device) = {}
    /\ token[id].state = "unused"
    /\ job' = [j \in Jobs |-> Dropped(j, TakenOver(value), RequestedToken(value))]
    /\ token' = [WithoutTokens(RequestedToken(value)) EXCEPT
                   ![id] = Registered(user, device, value)]
    /\ UNCHANGED <<note, keyShare, rotating, dropping, leaving, flights, faults, crossed>>

\* Mutant: the queued jobs keep the old token.
NotMoved(r, value) == r

Moved(r, value) == [r EXCEPT !.snapshot = value]

QueuedOn(id) == {j \in Jobs : job[j].tokenId = id /\ job[j].status = "queued"}
InFlightOn(id) == {j \in Jobs : job[j].tokenId = id /\ job[j].status \in InFlightStatuses}

\* The installation has a row with another token: the first rewrite moves
\* its queued jobs to the new token.
rotateQueued(id, value) ==
    /\ Live(id) /\ rotating[id] = None
    /\ token[id].value # value
    /\ Admitted(token[id].user, token[id].device, value)
    /\ job' = [j \in Jobs |->
                 IF j \in QueuedOn(id) THEN Moved(job[j], value)
                 ELSE Dropped(j, TakenOver(value), RequestedToken(value))]
    /\ token' = WithoutTokens(RequestedToken(value))
    /\ rotating' = [rotating EXCEPT ![id] = [value |-> value, moved |-> QueuedOn(id)]]
    /\ UNCHANGED <<note, keyShare, dropping, leaving, flights, faults, crossed>>

Rotated(r, value) == [r EXCEPT !.value = value]

\* The second rewrite cancels what is in flight to the old token; the row
\* gets the new token and the transaction commits.
rotateInFlight(id) ==
    /\ rotating[id] # None
    /\ job' = [j \in Jobs |-> IF j \in InFlightOn(id) THEN Cancelled(job[j]) ELSE job[j]]
    /\ token' = [token EXCEPT ![id] = Rotated(token[id], rotating[id].value)]
    /\ rotating' = [rotating EXCEPT ![id] = None]
    /\ UNCHANGED <<note, keyShare, dropping, leaving, flights, faults, crossed>>

unregisterPushToken(user, device) ==
    LET ids == DeviceToken(user, device)
    IN
    /\ ids # {}
    /\ \A id \in TokenIds : Live(id) /\ token[id].device = device => Lockable(id)
    /\ \A id \in ids : dropping[id] = None
    /\ job' = [j \in Jobs |-> Dropped(j, OpenJobsOf(ids), ids)]
    /\ token' = WithoutTokens(ids)
    /\ UNCHANGED <<note, keyShare, rotating, dropping, leaving, flights, faults, crossed>>

-----------------------------------------------------------------------------
(* The account component's part: scheduleDeletion, anonymizeDeletedAccount *)

\* Cancels the open jobs of the account's tokens, which it reads unlocked.
scheduleDeletion(user) ==
    /\ user \notin leaving
    /\ \A j \in OpenJobsOf(TokensOf(user)) : ~ Locked(j)
    /\ job' = [j \in Jobs |->
                 IF j \in OpenJobsOf(TokensOf(user)) THEN Cancelled(job[j]) ELSE job[j]]
    /\ leaving' = leaving \cup {user}
    /\ UNCHANGED <<token, note, keyShare, rotating, dropping, flights, faults, crossed>>

\* Its DELETE waits for whoever holds the account's token rows.
deleteUserTokens(user) ==
    /\ user \in leaving
    /\ \A id \in TokensOf(user) : Lockable(id) /\ dropping[id] = None
    /\ job' = [j \in Jobs |-> Dropped(j, {}, TokensOf(user))]
    /\ token' = WithoutTokens(TokensOf(user))
    /\ leaving' = leaving \ {user}
    /\ UNCHANGED <<note, keyShare, rotating, dropping, flights, faults, crossed>>

\* Deletes the tokens and the notifications, whose jobs go with them
\* (ON DELETE CASCADE).
anonymizeDeletedAccount(user) ==
    /\ user \notin leaving
    /\ \A id \in TokensOf(user) : Lockable(id) /\ dropping[id] = None
    /\ \E n \in Notifications : Recipient[n] = user /\ note[n] \in {"unread", "read"}
    /\ \A n \in Notifications : Recipient[n] = user => keyShare[n] = {}
    /\ token' = WithoutTokens(TokensOf(user))
    /\ note' = [n \in Notifications |->
                  IF Recipient[n] = user /\ note[n] # "none" THEN "deleted" ELSE note[n]]
    /\ job' = [j \in Jobs |-> IF Recipient[j[1]] = user THEN NoJob ELSE job[j]]
    /\ UNCHANGED <<keyShare, rotating, dropping, leaving, flights, faults, crossed>>

-----------------------------------------------------------------------------
(* The maintenance worker *)

\* Mutant: only the attempt is compared.
FencedByAttempt(f) ==
    f.attempt = IF f.kind = "send" THEN job[f.job].sends ELSE job[f.job].receipts

\* The WHERE clause that drops the answer to an attempt no longer current.
Fenced(f) ==
    LET r == job[f.job]
    IN  IF f.kind = "send"
        THEN r.status = "sending" /\ r.sends = f.attempt
        ELSE r.status = "receipt_checking" /\ r.receipts = f.attempt

InHand(j) == \E f \in flights : f.job = j /\ Fenced(f)

Fault == faults < MaxFaults /\ faults' = faults + 1

Due(r) == [r EXCEPT !.due = TRUE]

\* The deadline a job's status waits for passes.  A lease that lapses while
\* its worker still waits for Expo is a fault of the bounded kind.
Elapse(j) ==
    /\ job[j].status \in OpenStatuses
    /\ ~ job[j].due
    /\ job' = [job EXCEPT ![j] = Due(job[j])]
    /\ IF InHand(j) THEN Fault ELSE faults' = faults
    /\ UNCHANGED <<token, note, keyShare, rotating, dropping, leaving, flights, crossed>>

\* Mutant: a lapsed lease is not taken over.
queuedDue(r) == r.status = "queued" /\ r.due

sendDue(r) == r.status \in Queue /\ r.due

receiptDue(r) == r.status \in Receipt /\ r.due

Sending(r) == [r EXCEPT !.status = "sending", !.sends = r.sends + 1, !.due = FALSE]

Checking(r) ==
    [r EXCEPT !.status = "receipt_checking", !.receipts = r.receipts + 1, !.due = FALSE]

\* What the worker keeps of a claimed row; the ticket stands for the token
\* it was issued for.
Claim(j, kind) ==
    [job |-> j, kind |-> kind, tokenId |-> job[j].tokenId,
     attempt |-> 1 + (IF kind = "send" THEN job[j].sends ELSE job[j].receipts),
     to |-> IF kind = "send" THEN job[j].snapshot ELSE job[j].ticket,
     answer |-> None]

\* FOR UPDATE SKIP LOCKED passes over the rows a rotation has rewritten.
Claimable(batch) ==
    /\ batch # {}
    /\ Cardinality(batch) <= BatchLimit
    /\ Cardinality(flights) + Cardinality(batch) <= MaxFlights
    /\ \A j \in batch : ~ Locked(j)

claimSendBatch(batch) ==
    /\ Claimable(batch)
    /\ \A j \in batch : sendDue(job[j])
    /\ job' = [j \in Jobs |-> IF j \in batch THEN Sending(job[j]) ELSE job[j]]
    /\ flights' = flights \cup {Claim(j, "send") : j \in batch}
    /\ UNCHANGED <<token, note, keyShare, rotating, dropping, leaving, faults, crossed>>

claimReceiptBatch(batch) ==
    /\ Claimable(batch)
    /\ \A j \in batch : receiptDue(job[j])
    /\ job' = [j \in Jobs |-> IF j \in batch THEN Checking(job[j]) ELSE job[j]]
    /\ flights' = flights \cup {Claim(j, "receipt") : j \in batch}
    /\ UNCHANGED <<token, note, keyShare, rotating, dropping, leaving, faults, crossed>>

Answered(f, a) == [f EXCEPT !.answer = a]

\* send, getReceipts: Expo takes the message or knows the receipt (ok), fails
\* for now, refuses, or no longer knows the token.  A failed request gives
\* every job of the batch `again'.
ExpoAnswers(f, a) ==
    /\ f.answer = None
    /\ flights' = (flights \ {f}) \cup {Answered(f, a)}
    /\ UNCHANGED <<token, job, note, keyShare, rotating, dropping, leaving, faults, crossed>>

\* Mutant: the limit is checked too late.
SendsLeftAfter(r) == r.sends <= MaxSends

SendsLeft(r) == r.sends < MaxSends

ReceiptsLeft(r) == r.receipts < MaxReceipts

Settled(r, status) == [r EXCEPT !.status = status, !.due = FALSE]

\* ticketResult, retrySendResult and sendResultValues
SendResult(r, f) ==
    CASE f.answer = "ok" -> [r EXCEPT !.status = "receipt_pending", !.ticket = f.to, !.due = FALSE]
      [] f.answer = "again" -> Settled(r, IF SendsLeft(r) THEN "queued" ELSE "exhausted")
      [] OTHER -> Settled(r, "failed_permanent")

\* receiptResult, retryReceiptResult and receiptResultValues
ReceiptResult(r, f) ==
    CASE f.answer = "ok" -> Settled(r, "delivered")
      [] f.answer = "again" -> Settled(r, IF ReceiptsLeft(r) THEN "receipt_pending" ELSE "exhausted")
      [] OTHER -> Settled(r, "failed_permanent")

Result(r, f) == IF f.kind = "send" THEN SendResult(r, f) ELSE ReceiptResult(r, f)

\* invalidatePushTokenId
Invalidates(f) == f.answer = "unregistered" /\ f.tokenId # None

\* The first rewrite of a running rotation did not see the job as queued, and
\* the second will not see it as in flight.
SlipsThrough(f) ==
    LET id == job[f.job].tokenId
    IN  /\ Fenced(f) /\ Result(job[f.job], f).status = "queued"
        /\ id # None /\ rotating[id] # None

\* The results of a batch are applied row by row.  A dropped answer, or one
\* that keeps the token:
applyResult(f) ==
    /\ f.answer # None
    /\ ~ Locked(f.job)
    /\ ~ (Fenced(f) /\ Invalidates(f))
    /\ job' = IF Fenced(f) THEN [job EXCEPT ![f.job] = Result(job[f.job], f)] ELSE job
    /\ flights' = flights \ {f}
    /\ crossed' = IF SlipsThrough(f) THEN crossed \cup {f.job} ELSE crossed
    /\ UNCHANGED <<token, note, keyShare, rotating, dropping, leaving, faults>>

\* invalidatePushToken: the job fails, the token's other open jobs are
\* cancelled, and the token is about to be deleted.
invalidatePushToken(f) ==
    /\ f.answer # None
    /\ Fenced(f) /\ Invalidates(f)
    /\ ~ Locked(f.job)
    /\ rotating[f.tokenId] = None /\ dropping[f.tokenId] = None
    /\ job' = [j \in Jobs |->
                 CASE j = f.job -> Result(job[j], f)
                   [] j # f.job /\ j \in OpenJobsOf({f.tokenId}) -> Cancelled(job[j])
                   [] OTHER -> job[j]]
    /\ dropping' = [dropping EXCEPT ![f.tokenId] = f.job]
    /\ flights' = flights \ {f}
    /\ UNCHANGED <<token, note, keyShare, rotating, leaving, faults, crossed>>

\* Its DELETE, which finds nothing when the row has gone meanwhile.
deleteInvalidToken(id) ==
    /\ dropping[id] # None
    /\ Live(id) => Lockable(id)
    /\ job' = [j \in Jobs |-> Dropped(j, {}, {id})]
    /\ token' = IF Live(id) THEN WithoutTokens({id}) ELSE token
    /\ dropping' = [dropping EXCEPT ![id] = None]
    /\ UNCHANGED <<note, keyShare, rotating, leaving, flights, faults, crossed>>

\* The worker dies with a claimed job: the lease has to lapse.
WorkerCrash(f) ==
    /\ Fault
    /\ flights' = flights \ {f}
    /\ UNCHANGED <<token, job, note, keyShare, rotating, dropping, leaving, crossed>>

-----------------------------------------------------------------------------
\* The second halves of the transactions of more than one statement.
Finish ==
    \/ \E n \in Notifications : enqueue(n)
    \/ \E id \in TokenIds : rotateInFlight(id) \/ deleteInvalidToken(id)
    \/ \E user \in Users : deleteUserTokens(user)

ClientStep ==
    \/ \E n \in Notifications : markRead(n)
    \/ \E n \in Notifications, enqueuePush \in BOOLEAN : notify(n, enqueuePush)
    \/ \E id \in TokenIds, user \in Users, device \in Devices, value \in TokenValues :
         registerPushToken(id, user, device, value)
    \/ \E id \in TokenIds, value \in TokenValues : rotateQueued(id, value)
    \/ \E user \in Users, device \in Devices : unregisterPushToken(user, device)
    \/ \E user \in Users : scheduleDeletion(user)
    \/ \E user \in Users : anonymizeDeletedAccount(user)

WorkerStep ==
    \/ \E j \in Jobs : Elapse(j)
    \/ \E batch \in SUBSET Jobs : claimSendBatch(batch)
    \/ \E batch \in SUBSET Jobs : claimReceiptBatch(batch)
    \/ \E f \in flights, a \in Answers : ExpoAnswers(f, a)
    \/ \E f \in flights : applyResult(f)
    \/ \E f \in flights : invalidatePushToken(f)
    \/ \E f \in flights : WorkerCrash(f)

Next == Finish \/ ClientStep \/ WorkerStep

\* Transactions end, time passes, and the worker's cycles claim what is due,
\* get an answer or an error from Expo, and apply it.  A job that rotations
\* keep locking is unlocked in some cycle (strong fairness): SKIP LOCKED only
\* puts it off.
Fairness ==
    /\ \A n \in Notifications : WF_vars(enqueue(n))
    /\ \A id \in TokenIds : WF_vars(rotateInFlight(id)) /\ WF_vars(deleteInvalidToken(id))
    /\ \A user \in Users : WF_vars(deleteUserTokens(user))
    /\ \A j \in Jobs :
         /\ WF_vars(Elapse(j))
         /\ SF_vars(\E batch \in SUBSET Jobs : j \in batch /\ claimSendBatch(batch))
         /\ SF_vars(\E batch \in SUBSET Jobs : j \in batch /\ claimReceiptBatch(batch))
    /\ WF_vars(\E f \in flights, a \in Answers : ExpoAnswers(f, a))
    /\ WF_vars(\E f \in flights : applyResult(f) \/ invalidatePushToken(f))

Spec == Init /\ [][Next]_vars
FairSpec == Spec /\ Fairness

-----------------------------------------------------------------------------
(* Properties *)

Open(j) == job[j].status \in OpenStatuses

\* An open job never points at a token row of another account, however the
\* device changed hands.  It has a token row and is addressed to the token
\* that row holds, through rotations, takeovers and sign-outs while workers
\* have jobs in hand, unless it slipped through a gap between two statements:
\* put back in the queue between the two rewrites of a rotation
\* (notification.repository.ts:119, :123), or inserted between the
\* cancellation of a token's jobs and the DELETE of the token (:275, :285).
JobsAddressed ==
    \A j \in Jobs : Open(j) =>
      LET id == job[j].tokenId
      IN  /\ id # None => Live(id) /\ token[id].user = Recipient[j[1]]
          /\ j \notin crossed =>
               /\ id # None
               /\ rotating[id] # None \/ job[j].snapshot = token[id].value

\* An answer that invalidates a token row concerns the token the row holds
\* now, so that no installation loses a token Expo did not refuse, unless the
\* job slipped through a gap and was sent to a token rotated away.
RefusedTokenCurrent ==
    \A f \in flights :
      Fenced(f) /\ f.answer = "unregistered" /\ f.tokenId # None /\ f.job \notin crossed
        => \/ ~ Live(f.tokenId) \/ rotating[f.tokenId] # None
           \/ token[f.tokenId].value = f.to

\* A lost or overtaken claim costs one attempt more than the limit at most:
\* neither sends nor receipt checks go on without end.
AttemptBudget ==
    \A j \in Jobs :
      /\ job[j].sends <= MaxSends + faults
      /\ job[j].receipts <= MaxReceipts + faults

\* A job whose ticket is stored is never sent again, and a finished job never
\* changes its outcome, whichever worker's answers arrive late.  (A worker
\* that dies after Expo accepted the message and before the ticket is stored
\* does leave the job to be sent again.)
NeverResent ==
    [][\A j \in Jobs :
         /\ job[j].ticket # None => job'[j].status \notin Queue
         /\ job[j].status \in FinalStatuses => job'[j].status \in {job[j].status, "absent"}]_vars

\* Every queued job gets an outcome, although Expo fails, workers crash and
\* tokens change.
EventuallyCompleted ==
    \A j \in Jobs : Open(j) ~> ~ Open(j)
=============================================================================
