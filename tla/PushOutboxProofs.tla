--------------------------- MODULE PushOutboxProofs ---------------------------
(***************************************************************************)
(* Proofs about PushOutbox, for every number of accounts, installations,   *)
(* notifications, workers and faults and every limit of attempts.          *)
(***************************************************************************)
EXTENDS PushOutbox, TLAPS

SendCap == MaxSends + faults
ReceiptCap == MaxReceipts + faults

\* Attempts that are not covered by the limit are paid for by a fault: the
\* lease of a claim can only lapse when its worker was overtaken or died.
BudgetOf(j) ==
    /\ job[j].sends <= SendCap
    /\ job[j].receipts <= ReceiptCap
    /\ job[j].status = "queued" => job[j].sends < MaxSends
    /\ job[j].status = "sending" /\ (job[j].due \/ ~ InHand(j)) => job[j].sends < SendCap
    /\ job[j].status \in Queue \cup {"receipt_pending"} => job[j].receipts < MaxReceipts
    /\ job[j].status = "receipt_checking" /\ (job[j].due \/ ~ InHand(j)) =>
         job[j].receipts < ReceiptCap

\* A ticket is there once Expo has accepted the job.
TicketOf(j) == job[j].ticket # None => job[j].status \in Receipt \cup FinalStatuses

\* Jobs are made once: none is there before the insert.
MadeOnce(n) ==
    /\ note[n] = "none" => keyShare[n] = {}
    /\ note[n] = "none" \/ keyShare[n] # {} =>
         \A id \in TokenIds : job[<<n, id>>].status = "absent"

PushInv ==
    /\ TypeOK
    /\ \A j \in Jobs : BudgetOf(j) /\ TicketOf(j)
    /\ \A n \in Notifications : MadeOnce(n)
-----------------------------------------------------------------------------
(* What holds besides, whatever falls between two statements of one        *)
(* transaction.                                                            *)

\* Rows held FOR KEY SHARE stay the recipient's until the jobs are inserted.
SharesOwned ==
    \A n \in Notifications : \A id \in keyShare[n] :
      Live(id) /\ token[id].user = Recipient[n] /\ rotating[id] = None

\* An open job that has slipped through no gap is on a row that is not about
\* to be deleted, and carries its token: the new one, in the queue, once the
\* first rewrite of a rotation has been made.
OnCourse(j) ==
    Open(j) =>
      LET id == job[j].tokenId
      IN  /\ id \in TokenIds => Live(id) /\ token[id].user = Recipient[j[1]]
          /\ j \notin crossed =>
               /\ id \in TokenIds /\ ~ Doomed(id)
               /\ rotating[id] = None => job[j].snapshot = token[id].value
               /\ rotating[id] # None /\ job[j].status = "queued" =>
                    job[j].snapshot = rotating[id].value

\* The answer to the current attempt is about the job's own address.
FlightSound(f) ==
    /\ note[f.job[1]] # "none" /\ keyShare[f.job[1]] = {}
    /\ job[f.job].status # "absent" =>
         f.attempt <= IF f.kind = "send" THEN job[f.job].sends ELSE job[f.job].receipts
    /\ Fenced(f) => /\ f.to = job[f.job].snapshot
                    /\ f.job \in crossed \/ f.tokenId = job[f.job].tokenId

\* What Expo accepted was sent to the job's address.
TicketCurrent(j) == job[j].status \in Receipt => job[j].ticket = job[j].snapshot

AddressInv ==
    /\ PushInv
    /\ SharesOwned
    /\ \A j \in Jobs : OnCourse(j)
    /\ \A f \in flights : FlightSound(f)
    /\ \A j \in Jobs : TicketCurrent(j)
-----------------------------------------------------------------------------
(* Facts about rows *)

LEMMA Constants ==
  /\ MaxSends \in Nat \ {0} /\ MaxReceipts \in Nat \ {0}
  /\ None \notin TokenIds /\ None \notin TokenValues
  /\ \A n \in Notifications : Recipient[n] \in Users
  BY PushConstants

LEMMA Caps ==
  ASSUME TypeOK
  PROVE  /\ SendCap \in Nat /\ ReceiptCap \in Nat
         /\ \A lost \in Nat : faults' = faults + lost =>
              SendCap' = SendCap + lost /\ ReceiptCap' = ReceiptCap + lost
         /\ UNCHANGED faults => SendCap' = SendCap /\ ReceiptCap' = ReceiptCap
         /\ MaxSends <= SendCap /\ MaxReceipts <= ReceiptCap
  BY Constants DEF TypeOK, SendCap, ReceiptCap

LEMMA JobFields ==
  ASSUME NEW r \in JobType
  PROVE  /\ r.status \in OpenStatuses \cup FinalStatuses \cup {"absent"}
         /\ r.tokenId \in TokenIds \cup {None} /\ r.snapshot \in TokenValues \cup {None}
         /\ r.ticket \in TokenValues \cup {None}
         /\ r.sends \in Nat /\ r.receipts \in Nat /\ r.due \in BOOLEAN
  BY DEF JobType

LEMMA NoJobType ==
  /\ NoJob \in JobType /\ NoJob.status = "absent" /\ NoJob.ticket = None
  /\ NoJob.sends = 0 /\ NoJob.receipts = 0
  BY DEF NoJob, JobType

LEMMA CancelledFacts ==
  ASSUME NEW r \in JobType
  PROVE  /\ Cancelled(r) \in JobType
         /\ Cancelled(r).status = "cancelled" /\ Cancelled(r).tokenId = r.tokenId
         /\ Cancelled(r).snapshot = r.snapshot /\ Cancelled(r).ticket = r.ticket
         /\ Cancelled(r).sends = r.sends /\ Cancelled(r).receipts = r.receipts
  BY DEF Cancelled, JobType, FinalStatuses

LEMMA OrphanedFacts ==
  ASSUME NEW r \in JobType
  PROVE  /\ Orphaned(r) \in JobType
         /\ Orphaned(r).status = r.status /\ Orphaned(r).tokenId = None
         /\ Orphaned(r).snapshot = r.snapshot /\ Orphaned(r).ticket = r.ticket
         /\ Orphaned(r).sends = r.sends /\ Orphaned(r).receipts = r.receipts
         /\ Orphaned(r).due = r.due
  BY DEF Orphaned, JobType

LEMMA MovedFacts ==
  ASSUME NEW r \in JobType, NEW value \in TokenValues
  PROVE  /\ Moved(r, value) \in JobType
         /\ Moved(r, value).status = r.status /\ Moved(r, value).tokenId = r.tokenId
         /\ Moved(r, value).snapshot = value /\ Moved(r, value).ticket = r.ticket
         /\ Moved(r, value).sends = r.sends /\ Moved(r, value).receipts = r.receipts
         /\ Moved(r, value).due = r.due
  BY DEF Moved, JobType

LEMMA DueFacts ==
  ASSUME NEW r \in JobType
  PROVE  /\ Due(r) \in JobType
         /\ Due(r).status = r.status /\ Due(r).tokenId = r.tokenId
         /\ Due(r).snapshot = r.snapshot /\ Due(r).ticket = r.ticket
         /\ Due(r).sends = r.sends /\ Due(r).receipts = r.receipts
  BY DEF Due, JobType

LEMMA SendingFacts ==
  ASSUME NEW r \in JobType
  PROVE  /\ Sending(r) \in JobType
         /\ Sending(r).status = "sending" /\ Sending(r).tokenId = r.tokenId
         /\ Sending(r).snapshot = r.snapshot /\ Sending(r).ticket = r.ticket
         /\ Sending(r).sends = r.sends + 1 /\ Sending(r).receipts = r.receipts
         /\ Sending(r).due = FALSE
<1>1. PICK n \in Nat : n = r.sends + 1
  BY JobFields
<1>2. Sending(r) = [r EXCEPT !.status = "sending", !.sends = n, !.due = FALSE]
  BY <1>1 DEF Sending
<1> QED
  BY <1>1, <1>2 DEF JobType, OpenStatuses, Queue

LEMMA CheckingFacts ==
  ASSUME NEW r \in JobType
  PROVE  /\ Checking(r) \in JobType
         /\ Checking(r).status = "receipt_checking" /\ Checking(r).tokenId = r.tokenId
         /\ Checking(r).snapshot = r.snapshot /\ Checking(r).ticket = r.ticket
         /\ Checking(r).sends = r.sends /\ Checking(r).receipts = r.receipts + 1
         /\ Checking(r).due = FALSE
<1>1. PICK n \in Nat : n = r.receipts + 1
  BY JobFields
<1>2. Checking(r) = [r EXCEPT !.status = "receipt_checking", !.receipts = n, !.due = FALSE]
  BY <1>1 DEF Checking
<1> QED
  BY <1>1, <1>2 DEF JobType, OpenStatuses, Receipt

LEMMA SettledFacts ==
  ASSUME NEW r \in JobType, NEW status \in OpenStatuses \cup FinalStatuses
  PROVE  /\ Settled(r, status) \in JobType
         /\ Settled(r, status).status = status /\ Settled(r, status).tokenId = r.tokenId
         /\ Settled(r, status).snapshot = r.snapshot /\ Settled(r, status).ticket = r.ticket
         /\ Settled(r, status).sends = r.sends /\ Settled(r, status).receipts = r.receipts
  BY DEF Settled, JobType

LEMMA QueuedFacts ==
  ASSUME TypeOK, NEW id \in TokenIds
  PROVE  /\ Queued(id) \in JobType
         /\ Queued(id).status = "queued" /\ Queued(id).tokenId = id
         /\ Queued(id).snapshot = token[id].value /\ Queued(id).ticket = None
         /\ Queued(id).sends = 0 /\ Queued(id).receipts = 0
<1>1. token[id].value \in TokenValues \cup {None}
  BY DEF TypeOK, TokenType
<1> QED
  BY <1>1 DEF Queued, NoJob, JobType, OpenStatuses, Queue

LEMMA FlightFields ==
  ASSUME NEW f \in FlightType
  PROVE  /\ f.job \in Jobs /\ f.kind \in {"send", "receipt"} /\ f.attempt \in Nat
         /\ f.tokenId \in TokenIds \cup {None} /\ f.to \in TokenValues \cup {None}
         /\ f.answer \in Answers \cup {None}
  BY DEF FlightType

\* An answer settles a job as sent, to be tried again, or for good.
LEMMA ResultFacts ==
  ASSUME NEW r \in JobType, NEW f \in FlightType
  PROVE  /\ Result(r, f) \in JobType
         /\ Result(r, f).tokenId = r.tokenId /\ Result(r, f).snapshot = r.snapshot
         /\ Result(r, f).sends = r.sends /\ Result(r, f).receipts = r.receipts
         /\ f.answer = "unregistered" => Result(r, f).status = "failed_permanent"
         /\ f.kind = "send" =>
              \/ Result(r, f).status = "receipt_pending" /\ Result(r, f).ticket = f.to
              \/ /\ Result(r, f).ticket = r.ticket
                 /\ \/ Result(r, f).status = "queued" /\ r.sends < MaxSends
                    \/ Result(r, f).status \in FinalStatuses
         /\ f.kind = "receipt" =>
              /\ Result(r, f).ticket = r.ticket
              /\ \/ Result(r, f).status = "receipt_pending" /\ r.receipts < MaxReceipts
                 \/ Result(r, f).status \in FinalStatuses
<1> DEFINE sent == [r EXCEPT !.status = "receipt_pending", !.ticket = f.to, !.due = FALSE]
<1>1. /\ sent \in JobType /\ sent.status = "receipt_pending" /\ sent.ticket = f.to
      /\ sent.tokenId = r.tokenId /\ sent.snapshot = r.snapshot
      /\ sent.sends = r.sends /\ sent.receipts = r.receipts
  BY FlightFields DEF JobType, OpenStatuses, Receipt
<1>2. /\ {"queued", "receipt_pending", "exhausted", "failed_permanent", "delivered"}
           \subseteq OpenStatuses \cup FinalStatuses
      /\ {"exhausted", "failed_permanent", "delivered"} \subseteq FinalStatuses
  BY DEF OpenStatuses, FinalStatuses, Queue, Receipt
<1>3. CASE f.kind = "send"
  <2>1. CASE f.answer = "ok"
    <3>1. Result(r, f) = sent
      BY <1>3, <2>1 DEF Result, SendResult
    <3> HIDE DEF sent
    <3> QED
      BY <1>1, <1>3, <2>1, <3>1
  <2>2. CASE f.answer # "ok"
    <3>1. PICK st \in {"queued", "exhausted", "failed_permanent"} :
            /\ Result(r, f) = Settled(r, st)
            /\ st = "queued" => r.sends < MaxSends
            /\ f.answer = "unregistered" => st = "failed_permanent"
      BY <1>3, <2>2 DEF Result, SendResult, SendsLeft
    <3>2. st \in OpenStatuses \cup FinalStatuses /\ (st # "queued" => st \in FinalStatuses)
      BY <1>2
    <3>3. /\ Result(r, f) \in JobType /\ Result(r, f).status = st
          /\ Result(r, f).tokenId = r.tokenId /\ Result(r, f).snapshot = r.snapshot
          /\ Result(r, f).sends = r.sends /\ Result(r, f).receipts = r.receipts
          /\ Result(r, f).ticket = r.ticket
      BY <3>1, <3>2, SettledFacts
    <3> QED
      BY <1>3, <3>1, <3>2, <3>3
  <2> QED
    BY <2>1, <2>2
<1>4. CASE f.kind = "receipt"
  <2>1. PICK st \in {"receipt_pending", "exhausted", "failed_permanent", "delivered"} :
          /\ Result(r, f) = Settled(r, st)
          /\ st = "receipt_pending" => r.receipts < MaxReceipts
          /\ f.answer = "unregistered" => st = "failed_permanent"
    BY <1>4 DEF Result, ReceiptResult, ReceiptsLeft
  <2>2. st \in OpenStatuses \cup FinalStatuses /\ (st # "receipt_pending" => st \in FinalStatuses)
    BY <1>2
  <2>3. /\ Result(r, f) \in JobType /\ Result(r, f).status = st
        /\ Result(r, f).tokenId = r.tokenId /\ Result(r, f).snapshot = r.snapshot
        /\ Result(r, f).sends = r.sends /\ Result(r, f).receipts = r.receipts
        /\ Result(r, f).ticket = r.ticket
    BY <2>1, <2>2, SettledFacts
  <2> QED
    BY <1>4, <2>1, <2>2, <2>3
<1> QED
  BY <1>3, <1>4, FlightFields

LEMMA TokenTypes ==
  ASSUME TypeOK
  PROVE  /\ \A ids : WithoutTokens(ids) \in [TokenIds -> TokenType]
         /\ \A ids : \A id \in TokenIds :
              WithoutTokens(ids)[id] = IF id \in ids THEN Deleted(token[id]) ELSE token[id]
         /\ \A r : Deleted(r).state = "deleted"
         /\ \A user \in Users, device \in Devices, value \in TokenValues :
              Registered(user, device, value) \in TokenType
<1>1. \A r : Deleted(r) \in TokenType /\ Deleted(r).state = "deleted"
  BY DEF Deleted, NoToken, TokenType
<1>2. \A user \in Users, device \in Devices, value \in TokenValues :
        Registered(user, device, value) \in TokenType
  BY DEF Registered, TokenType
<1> QED
  BY <1>1, <1>2 DEF WithoutTokens, TypeOK
-----------------------------------------------------------------------------
(* Steps of the clients and of the account component *)

\* What NeverResent says of one step.
NoResend ==
    \A j \in Jobs :
      /\ job[j].ticket # None => job'[j].status \notin Queue
      /\ job[j].status \in FinalStatuses => job'[j].status \in {job[j].status, "absent"}

\* A job is left as it is, save for its address, or it is cancelled.
Spared(j) ==
    /\ job'[j] \in JobType
    /\ job'[j].sends = job[j].sends /\ job'[j].receipts = job[j].receipts
    /\ job'[j].ticket = job[j].ticket
    /\ \/ job'[j].status = job[j].status /\ job'[j].due = job[j].due
       \/ job[j].status \in OpenStatuses /\ job'[j].status = "cancelled"

LEMMA Statuses ==
  /\ OpenStatuses = {"queued", "sending", "receipt_pending", "receipt_checking"}
  /\ Queue = {"queued", "sending"} /\ Receipt = {"receipt_pending", "receipt_checking"}
  /\ FinalStatuses = {"delivered", "failed_permanent", "exhausted", "cancelled"}
  BY DEF OpenStatuses, Queue, Receipt, FinalStatuses

LEMMA DroppedSpares ==
  ASSUME TypeOK, NEW j \in Jobs, NEW cancel, NEW ids,
         j \in cancel => job[j].status \in OpenStatuses,
         job'[j] = Dropped(j, cancel, ids)
  PROVE  Spared(j)
<1>1. job[j] \in JobType
  BY DEF TypeOK
<1>2. PICK r \in JobType :
        /\ r = IF j \in cancel THEN Cancelled(job[j]) ELSE job[j]
        /\ job'[j] = IF r.tokenId \in ids THEN Orphaned(r) ELSE r
  BY <1>1, CancelledFacts DEF Dropped
<1>3. /\ r.sends = job[j].sends /\ r.receipts = job[j].receipts /\ r.ticket = job[j].ticket
      /\ \/ r.status = job[j].status /\ r.due = job[j].due
         \/ job[j].status \in OpenStatuses /\ r.status = "cancelled"
  BY <1>1, <1>2, CancelledFacts
<1>4. /\ job'[j] \in JobType
      /\ job'[j].sends = r.sends /\ job'[j].receipts = r.receipts /\ job'[j].ticket = r.ticket
      /\ job'[j].status = r.status /\ job'[j].due = r.due
  BY <1>2, OrphanedFacts
<1> QED
  BY <1>3, <1>4 DEF Spared

\* What holds of a spared job after a step, and of the step.
Safe(j) ==
    /\ BudgetOf(j)' /\ TicketOf(j)'
    /\ job[j].ticket # None => job'[j].status \notin Queue
    /\ job[j].status \in FinalStatuses => job'[j].status \in {job[j].status, "absent"}

\* Its claim stays in hand, or a fault is counted for its loss.
LEMMA SparedSafe ==
  ASSUME PushInv, NEW j \in Jobs, Spared(j), NEW lost \in {0, 1}, faults' = faults + lost,
         job'[j].status = job[j].status => (InHand(j) => InHand(j)') \/ lost = 1
  PROVE  Safe(j)
<1>1. BudgetOf(j) /\ TicketOf(j) /\ job[j] \in JobType
  BY DEF PushInv, TypeOK
<1>2. TicketOf(j)'
  BY <1>1, Statuses DEF Spared, TicketOf
<1>3. PICK s \in Nat, q \in Nat :
        /\ s = job[j].sends /\ q = job[j].receipts
        /\ s = job'[j].sends /\ q = job'[j].receipts
  BY <1>1, JobFields DEF Spared
<1>4. PICK c \in Nat, d \in Nat : c = SendCap /\ d = ReceiptCap
  BY Caps DEF PushInv
<1>5. SendCap' = c + lost /\ ReceiptCap' = d + lost
  BY <1>4, Caps DEF PushInv
<1>6. s <= c /\ q <= d
  BY <1>1, <1>3, <1>4 DEF BudgetOf
<1>7. CASE job'[j].status = "cancelled"
  <2>1. BudgetOf(j)'
    BY <1>3, <1>5, <1>6, <1>7, Statuses DEF BudgetOf
  <2> QED
    BY <1>1, <1>2, <1>7, <2>1, Statuses DEF Spared, TicketOf, Safe
<1>8. CASE job'[j].status = job[j].status /\ job'[j].due = job[j].due
  <2>1. BudgetOf(j)'
    BY <1>1, <1>3, <1>4, <1>5, <1>6, <1>8 DEF BudgetOf
  <2> QED
    BY <1>1, <1>2, <1>8, <2>1, Statuses DEF TicketOf, Safe
<1> QED
  BY <1>1, <1>7, <1>8 DEF Spared

LEMMA SparedJobs ==
  ASSUME PushInv, \A j \in Jobs : Spared(j), UNCHANGED <<flights, faults>>
  PROVE  \A j \in Jobs : Safe(j)
<1> SUFFICES ASSUME NEW j \in Jobs PROVE Safe(j)
  OBVIOUS
<1>1. job'[j].status = job[j].status => (InHand(j) => InHand(j)')
  BY DEF InHand, Fenced, Spared
<1>2. faults' = faults + 0
  BY DEF PushInv, TypeOK
<1> QED
  BY <1>1, <1>2, SparedSafe

\* Jobs are spared, and nobody takes FOR KEY SHARE for jobs that exist.
LEMMA SparedKeeps ==
  ASSUME PushInv, TypeOK', \A j \in Jobs : Spared(j), UNCHANGED <<flights, faults>>,
         \A n \in Notifications :
             /\ note'[n] = "none" => note[n] = "none" /\ keyShare'[n] = {}
             /\ keyShare'[n] # {} => keyShare[n] # {} \/ note[n] = "none"
  PROVE  PushInv' /\ NoResend
<1>1. ASSUME NEW n \in Notifications PROVE MadeOnce(n)'
  <2>1. \A id \in TokenIds : <<n, id>> \in Jobs
    BY DEF Jobs
  <2>2. \A j \in Jobs : job[j].status = "absent" => job'[j].status = "absent"
    BY Statuses DEF Spared
  <2>3. MadeOnce(n)
    BY DEF PushInv
  <2> QED
    BY <2>1, <2>2, <2>3 DEF MadeOnce
<1> QED
  BY <1>1, SparedJobs DEF PushInv, Safe, NoResend

LEMMA SparedSame ==
  ASSUME TypeOK, UNCHANGED job PROVE \A j \in Jobs : Spared(j)
  BY DEF TypeOK, Spared

LEMMA NotifyKeeps ==
  ASSUME PushInv, NEW n \in Notifications,
         (\E e \in BOOLEAN : notify(n, e)) \/ markRead(n)
  PROVE  PushInv' /\ NoResend
<1>t. TypeOK
  BY DEF PushInv
<1>1. \A m \in Notifications :
        /\ note'[m] = "none" => note[m] = "none" /\ keyShare'[m] = {}
        /\ keyShare'[m] # {} => keyShare[m] # {} \/ note[m] = "none"
  BY <1>t DEF notify, markRead, TypeOK, PushInv, MadeOnce
<1>2. TypeOK'
  <2>1. TokensOf(Recipient[n]) \subseteq TokenIds
    BY DEF TokensOf
  <2> QED
    BY <1>t, <2>1 DEF notify, markRead, TypeOK
<1>3. UNCHANGED <<job, flights, faults>>
  BY DEF notify, markRead
<1> QED
  BY <1>t, <1>1, <1>2, <1>3, SparedKeeps, SparedSame

\* The insert: the jobs are new.
LEMMA EnqueueKeeps ==
  ASSUME PushInv, NEW n \in Notifications, enqueue(n)
  PROVE  PushInv' /\ NoResend
<1>t. TypeOK
  BY DEF PushInv
<1>j. \A id \in TokenIds, m \in Notifications :
        <<m, id>> \in Jobs /\ <<m, id>>[1] = m /\ <<m, id>>[2] = id
  BY DEF Jobs
<1>k. \A j \in Jobs : j[1] \in Notifications /\ j[2] \in TokenIds /\ j = <<j[1], j[2]>>
  BY DEF Jobs
<1>1. \A j \in Jobs : job'[j] = IF j[1] = n /\ j[2] \in keyShare[n] THEN Queued(j[2]) ELSE job[j]
  BY DEF enqueue
<1>2. job' \in [Jobs -> JobType]
  <2>1. \A j \in Jobs : job'[j] \in JobType
    BY <1>t, <1>k, <1>1, QueuedFacts DEF TypeOK
  <2> QED
    BY <2>1 DEF enqueue
<1>c. crossed' \subseteq Jobs
  BY <1>t, <1>j DEF enqueue, TypeOK
<1>3. TypeOK'
  BY <1>t, <1>2, <1>c DEF enqueue, TypeOK
<1>s. keyShare[n] # {} /\ UNCHANGED <<note, flights, faults>>
  BY DEF enqueue
<1>a. \A id \in TokenIds : job[<<n, id>>].status = "absent"
  BY <1>s DEF PushInv, MadeOnce
<1>4. ASSUME NEW j \in Jobs PROVE Safe(j)
  <2>0. BudgetOf(j) /\ TicketOf(j) /\ job[j] \in JobType
    BY <1>t DEF PushInv, TypeOK
  <2>1. CASE j[1] = n /\ j[2] \in keyShare[n]
    <3>1. PICK id \in TokenIds : id = j[2]
      BY <1>k
    <3>2. /\ job'[j].status = "queued" /\ job'[j].ticket = None
          /\ job'[j].sends = 0 /\ job'[j].receipts = 0
      BY <1>t, <1>1, <2>1, <3>1, QueuedFacts
    <3>3. job[j].status = "absent"
      BY <1>a, <1>k, <2>1
    <3>4. job[j].ticket = None
      BY <2>0, <3>3, Statuses DEF TicketOf
    <3>5. /\ 0 <= SendCap' /\ 0 <= ReceiptCap' /\ 0 < MaxSends /\ 0 < MaxReceipts
      BY <1>t, <1>s, Caps, Constants
    <3>6. BudgetOf(j)'
      BY <3>2, <3>5 DEF BudgetOf
    <3>7. TicketOf(j)'
      BY <3>2 DEF TicketOf
    <3> QED
      BY <3>3, <3>4, <3>6, <3>7, Statuses DEF Safe
  <2>2. CASE ~ (j[1] = n /\ j[2] \in keyShare[n])
    <3>1. job'[j] = job[j]
      BY <1>1, <2>2
    <3>2. Spared(j) /\ faults' = faults + 0
      BY <1>t, <1>s, <3>1 DEF Spared, TypeOK
    <3>3. InHand(j) => InHand(j)'
      BY <1>s, <3>1 DEF InHand, Fenced
    <3> QED
      BY <3>2, <3>3, SparedSafe
  <2> QED
    BY <2>1, <2>2
<1>5. ASSUME NEW m \in Notifications PROVE MadeOnce(m)'
  <2>1. CASE m = n
    <3>1. keyShare'[n] = {} /\ note[n] # "none"
      BY <1>t, <1>s DEF enqueue, TypeOK, PushInv, MadeOnce
    <3> QED
      BY <1>s, <2>1, <3>1 DEF MadeOnce
  <2>2. CASE m # n
    <3>1. keyShare'[m] = keyShare[m] /\ note'[m] = note[m]
      BY <1>t, <1>s, <2>2 DEF enqueue, TypeOK
    <3>2. \A id \in TokenIds : job'[<<m, id>>] = job[<<m, id>>]
      BY <1>1, <1>j, <2>2
    <3>3. MadeOnce(m)
      BY DEF PushInv
    <3> QED
      BY <3>1, <3>2, <3>3 DEF MadeOnce
  <2> QED
    BY <2>1, <2>2
<1> QED
  BY <1>3, <1>4, <1>5 DEF PushInv, NoResend, Safe

\* The transactions that cancel jobs with their token rows.
LEMMA TokenStepKeeps ==
  ASSUME PushInv, TypeOK', \A j \in Jobs : Spared(j),
         UNCHANGED <<note, keyShare, flights, faults>>
  PROVE  PushInv' /\ NoResend
  BY SparedKeeps DEF PushInv, MadeOnce

LEMMA RegisterKeeps ==
  ASSUME PushInv, NEW id \in TokenIds, NEW user \in Users, NEW device \in Devices,
         NEW value \in TokenValues, registerPushToken(id, user, device, value)
  PROVE  PushInv' /\ NoResend /\ \A j \in Jobs : Spared(j)
<1>t. TypeOK
  BY DEF PushInv
<1>1. \A j \in Jobs : Spared(j)
  <2>1. \A j \in TakenOver(value) : job[j].status \in OpenStatuses
    BY DEF TakenOver, OpenJobsOf
  <2> QED
    BY <1>t, <2>1, DroppedSpares DEF registerPushToken
<1>2. job' \in [Jobs -> JobType]
  BY <1>1 DEF registerPushToken, Spared
<1>3. token' \in [TokenIds -> TokenType]
  <2>1. WithoutTokens(RequestedToken(value)) \in [TokenIds -> TokenType]
    BY <1>t, TokenTypes
  <2>2. Registered(user, device, value) \in TokenType
    BY <1>t, TokenTypes
  <2> QED
    BY <2>1, <2>2 DEF registerPushToken
<1>4. TypeOK'
  BY <1>t, <1>2, <1>3 DEF registerPushToken, TypeOK
<1> QED
  BY <1>1, <1>4, TokenStepKeeps DEF registerPushToken

LEMMA RotateQueuedKeeps ==
  ASSUME PushInv, NEW id \in TokenIds, NEW value \in TokenValues, rotateQueued(id, value)
  PROVE  PushInv' /\ NoResend /\ \A j \in Jobs : Spared(j)
<1>t. TypeOK
  BY DEF PushInv
<1>1. ASSUME NEW j \in Jobs PROVE Spared(j)
  <2>1. TakenOver(value) \subseteq {i \in Jobs : job[i].status \in OpenStatuses}
    BY DEF TakenOver, OpenJobsOf
  <2>2. job[j] \in JobType
    BY <1>t DEF TypeOK
  <2>3. CASE j \in QueuedOn(id)
    BY <2>2, <2>3, MovedFacts DEF rotateQueued, Spared
  <2>4. CASE j \notin QueuedOn(id)
    <3>1. job'[j] = Dropped(j, TakenOver(value), RequestedToken(value))
      BY <2>4 DEF rotateQueued
    <3> QED
      BY <1>t, <2>1, <3>1, DroppedSpares
  <2> QED
    BY <2>3, <2>4
<1>2. job' \in [Jobs -> JobType]
  BY <1>1 DEF rotateQueued, Spared
<1>3. token' \in [TokenIds -> TokenType]
  BY <1>t, TokenTypes DEF rotateQueued
<1>4. rotating' \in [TokenIds -> RotationType \cup {None}]
  <2>1. [value |-> value, moved |-> QueuedOn(id)] \in RotationType
    BY DEF RotationType, QueuedOn
  <2> QED
    BY <1>t, <2>1 DEF rotateQueued, TypeOK
<1>5. TypeOK'
  BY <1>t, <1>2, <1>3, <1>4 DEF rotateQueued, TypeOK
<1> QED
  BY <1>1, <1>5, TokenStepKeeps DEF rotateQueued

LEMMA RotateInFlightKeeps ==
  ASSUME PushInv, NEW id \in TokenIds, rotateInFlight(id)
  PROVE  PushInv' /\ NoResend /\ \A j \in Jobs : Spared(j)
<1>t. TypeOK
  BY DEF PushInv
<1>1. ASSUME NEW j \in Jobs PROVE Spared(j)
  <2>1. job[j] \in JobType
    BY <1>t DEF TypeOK
  <2>2. CASE j \in InFlightOn(id)
    <3>1. job[j].status \in OpenStatuses
      BY <2>2 DEF InFlightOn, InFlightStatuses
    <3> QED
      BY <2>1, <2>2, <3>1, CancelledFacts DEF rotateInFlight, Spared
  <2>3. CASE j \notin InFlightOn(id)
    BY <2>1, <2>3 DEF rotateInFlight, Spared
  <2> QED
    BY <2>2, <2>3
<1>2. job' \in [Jobs -> JobType]
  BY <1>1 DEF rotateInFlight, Spared
<1>3. token' \in [TokenIds -> TokenType]
  <2>1. rotating[id].value \in TokenValues
    BY <1>t DEF rotateInFlight, TypeOK, RotationType
  <2>2. Rotated(token[id], rotating[id].value) \in TokenType
    BY <1>t, <2>1 DEF Rotated, TypeOK, TokenType
  <2> QED
    BY <1>t, <2>2 DEF rotateInFlight, TypeOK
<1>4. TypeOK'
  BY <1>t, <1>2, <1>3 DEF rotateInFlight, TypeOK
<1> QED
  BY <1>1, <1>4, TokenStepKeeps DEF rotateInFlight

LEMMA UnregisterKeeps ==
  ASSUME PushInv, NEW user \in Users, NEW device \in Devices, unregisterPushToken(user, device)
  PROVE  PushInv' /\ NoResend /\ \A j \in Jobs : Spared(j)
<1>t. TypeOK
  BY DEF PushInv
<1> DEFINE ids == DeviceToken(user, device)
<1>1. \A j \in Jobs : Spared(j)
  <2>1. \A j \in OpenJobsOf(ids) : job[j].status \in OpenStatuses
    BY DEF OpenJobsOf
  <2> QED
    BY <1>t, <2>1, DroppedSpares DEF unregisterPushToken
<1>2. job' \in [Jobs -> JobType]
  BY <1>1 DEF unregisterPushToken, Spared
<1>3. TypeOK'
  BY <1>t, <1>2, TokenTypes DEF unregisterPushToken, TypeOK
<1> QED
  BY <1>1, <1>3, TokenStepKeeps DEF unregisterPushToken

LEMMA ScheduleKeeps ==
  ASSUME PushInv, NEW user \in Users, scheduleDeletion(user)
  PROVE  PushInv' /\ NoResend /\ \A j \in Jobs : Spared(j)
<1>t. TypeOK
  BY DEF PushInv
<1>1. ASSUME NEW j \in Jobs PROVE Spared(j)
  <2>1. job[j] \in JobType
    BY <1>t DEF TypeOK
  <2>2. j \in OpenJobsOf(TokensOf(user)) => job[j].status \in OpenStatuses
    BY DEF OpenJobsOf
  <2> QED
    BY <2>1, <2>2, CancelledFacts DEF scheduleDeletion, Spared
<1>2. job' \in [Jobs -> JobType]
  BY <1>1 DEF scheduleDeletion, Spared
<1>3. TypeOK'
  BY <1>t, <1>2 DEF scheduleDeletion, TypeOK
<1> QED
  BY <1>1, <1>3, TokenStepKeeps DEF scheduleDeletion

LEMMA DeleteTokensKeeps ==
  ASSUME PushInv,
         (\E user \in Users : deleteUserTokens(user)) \/ (\E id \in TokenIds : deleteInvalidToken(id))
  PROVE  PushInv' /\ NoResend /\ \A j \in Jobs : Spared(j)
<1>t. TypeOK
  BY DEF PushInv
<1>1. PICK ids : job' = [j \in Jobs |-> Dropped(j, {}, ids)]
  BY DEF deleteUserTokens, deleteInvalidToken
<1>2. \A j \in Jobs : Spared(j)
  BY <1>t, <1>1, DroppedSpares
<1>3. job' \in [Jobs -> JobType]
  BY <1>1, <1>2 DEF Spared
<1>4. token' \in [TokenIds -> TokenType] /\ dropping' \in [TokenIds -> Jobs \cup {None}]
  <2>1. ASSUME NEW user \in Users, deleteUserTokens(user)
        PROVE  token' \in [TokenIds -> TokenType] /\ UNCHANGED dropping
    BY <1>t, <2>1, TokenTypes DEF deleteUserTokens
  <2>2. ASSUME NEW id \in TokenIds, deleteInvalidToken(id)
        PROVE  /\ token' \in [TokenIds -> TokenType]
               /\ dropping' \in [TokenIds -> Jobs \cup {None}]
    <3>1. token' = WithoutTokens({id}) \/ token' = token
      BY <2>2 DEF deleteInvalidToken
    <3> QED
      BY <1>t, <2>2, <3>1, TokenTypes DEF deleteInvalidToken, TypeOK
  <2> QED
    BY <1>t, <2>1, <2>2 DEF TypeOK
<1>5. /\ UNCHANGED <<note, keyShare, rotating, flights, faults, crossed>>
      /\ leaving' \subseteq leaving
  BY DEF deleteUserTokens, deleteInvalidToken
<1>6. TypeOK'
  BY <1>t, <1>3, <1>4, <1>5 DEF TypeOK
<1> QED
  BY <1>2, <1>5, <1>6, TokenStepKeeps

\* The notifications go, and their jobs with them.
LEMMA AnonymizeKeeps ==
  ASSUME PushInv, NEW user \in Users, anonymizeDeletedAccount(user)
  PROVE  PushInv' /\ NoResend
<1>t. TypeOK
  BY DEF PushInv
<1>s. UNCHANGED <<keyShare, rotating, dropping, leaving, flights, faults, crossed>>
  BY DEF anonymizeDeletedAccount
<1>1. \A j \in Jobs : job'[j] = NoJob \/ job'[j] = job[j]
  BY DEF anonymizeDeletedAccount
<1>2. job' \in [Jobs -> JobType]
  <2>1. \A j \in Jobs : job'[j] \in JobType
    BY <1>t, <1>1, NoJobType DEF TypeOK
  <2> QED
    BY <2>1 DEF anonymizeDeletedAccount
<1>3. /\ note' \in [Notifications -> {"none", "unread", "read", "deleted"}]
      /\ \A n \in Notifications : note'[n] = "none" => note[n] = "none"
  BY <1>t DEF anonymizeDeletedAccount, TypeOK
<1>4. TypeOK'
  BY <1>t, <1>s, <1>2, <1>3, TokenTypes DEF anonymizeDeletedAccount, TypeOK
<1>5. ASSUME NEW j \in Jobs PROVE Safe(j)
  <2>1. CASE job'[j] = NoJob
    <3>2. /\ 0 <= SendCap' /\ 0 <= ReceiptCap' /\ 0 < MaxSends /\ 0 < MaxReceipts
      BY <1>t, <1>s, Caps, Constants
    <3> QED
      BY <2>1, <3>2, NoJobType, Statuses DEF Safe, BudgetOf, TicketOf
  <2>2. CASE job'[j] = job[j]
    <3>1. Spared(j)
      BY <1>t, <2>2 DEF Spared, TypeOK
    <3>2. InHand(j) => InHand(j)'
      BY <1>s, <2>2 DEF InHand, Fenced
    <3>3. faults' = faults + 0
      BY <1>t, <1>s DEF TypeOK
    <3> QED
      BY <3>1, <3>2, <3>3, SparedSafe
  <2> QED
    BY <1>1, <2>1, <2>2
<1>6. ASSUME NEW n \in Notifications PROVE MadeOnce(n)'
  <2>1. MadeOnce(n)
    BY DEF PushInv
  <2>2. \A id \in TokenIds : job[<<n, id>>].status = "absent" => job'[<<n, id>>].status = "absent"
    BY <1>1, NoJobType DEF Jobs
  <2> QED
    BY <1>3, <1>s, <2>1, <2>2 DEF MadeOnce
<1> QED
  BY <1>4, <1>5, <1>6 DEF PushInv, NoResend, Safe
-----------------------------------------------------------------------------
(* Steps of the workers *)

\* They make no jobs.
LEMMA WorkerKeeps ==
  ASSUME PushInv, TypeOK', \A j \in Jobs : Safe(j), UNCHANGED <<note, keyShare>>,
         \A j \in Jobs : job[j].status = "absent" => job'[j].status = "absent"
  PROVE  PushInv' /\ NoResend
<1>1. ASSUME NEW n \in Notifications PROVE MadeOnce(n)'
  <2>1. MadeOnce(n)
    BY DEF PushInv
  <2>2. \A id \in TokenIds : job[<<n, id>>].status = "absent" => job'[<<n, id>>].status = "absent"
    BY DEF Jobs
  <2> QED
    BY <2>1, <2>2 DEF MadeOnce
<1> QED
  BY <1>1 DEF PushInv, NoResend, Safe

LEMMA ElapseKeeps ==
  ASSUME PushInv, NEW j \in Jobs, Elapse(j)
  PROVE  PushInv' /\ NoResend
<1>t. TypeOK
  BY DEF PushInv
<1>s. UNCHANGED <<token, note, keyShare, rotating, dropping, leaving, flights, crossed>>
  BY DEF Elapse
<1>f. PICK lost \in {0, 1} : faults' = faults + lost /\ (InHand(j) => lost = 1)
  BY <1>t DEF Elapse, Fault, TypeOK
<1>r. PICK r \in JobType : r = job[j]
  BY <1>t DEF TypeOK
<1>1. /\ job' \in [Jobs -> JobType]
      /\ \A i \in Jobs : job'[i] = IF i = j THEN Due(r) ELSE job[i]
  BY <1>t, <1>r, DueFacts DEF Elapse, TypeOK
<1>2. TypeOK'
  BY <1>t, <1>s, <1>f, <1>1 DEF TypeOK
<1>3. ASSUME NEW i \in Jobs, i # j PROVE Safe(i)
  <2>1. job'[i] = job[i] /\ Spared(i)
    BY <1>t, <1>1, <1>3 DEF Spared, TypeOK
  <2>2. InHand(i) => InHand(i)'
    BY <1>s, <2>1 DEF InHand, Fenced
  <2> QED
    BY <1>f, <2>1, <2>2, SparedSafe
<1>4. Safe(j)
  <2>1. /\ job'[j].status = r.status /\ job'[j].ticket = r.ticket
        /\ job'[j].sends = r.sends /\ job'[j].receipts = r.receipts
    BY <1>1, DueFacts
  <2>2. BudgetOf(j) /\ TicketOf(j)
    BY DEF PushInv
  <2>n. PICK s \in Nat, q \in Nat : s = r.sends /\ q = r.receipts
    BY JobFields
  <2>c. PICK c \in Nat, d \in Nat : c = SendCap /\ d = ReceiptCap
    BY <1>t, Caps
  <2>d. SendCap' = c + lost /\ ReceiptCap' = d + lost
    BY <1>t, <1>f, <2>c, Caps
  <2>3. s <= c /\ q <= d
    BY <1>r, <2>2, <2>n, <2>c DEF BudgetOf
  <2>4. BudgetOf(j)'
    BY <1>f, <1>r, <2>1, <2>2, <2>3, <2>n, <2>c, <2>d DEF BudgetOf
  <2> QED
    BY <1>r, <2>1, <2>2, <2>4, Statuses DEF TicketOf, Safe
<1>5. \A i \in Jobs : job[i].status = "absent" => job'[i].status = "absent"
  BY <1>1, <1>r, DueFacts
<1> QED
  BY <1>s, <1>2, <1>3, <1>4, <1>5, WorkerKeeps

\* A job that is not touched: what the worker loses of its claim is counted.
LEMMA UntouchedSafe ==
  ASSUME PushInv, NEW j \in Jobs, job'[j] = job[j], NEW lost \in {0, 1}, faults' = faults + lost,
         lost = 1 \/ \A f \in flights : f.job = j /\ Fenced(f) =>
             \E g \in flights' : g.job = j /\ g.kind = f.kind /\ g.attempt = f.attempt
  PROVE  Safe(j)
<1>1. Spared(j)
  BY DEF PushInv, TypeOK, Spared
<1>2. (InHand(j) => InHand(j)') \/ lost = 1
  BY DEF InHand, Fenced
<1> QED
  BY <1>1, <1>2, SparedSafe

LEMMA NoFault ==
  ASSUME TypeOK, UNCHANGED faults PROVE faults' = faults + 0
  BY DEF TypeOK

LEMMA ClaimFacts ==
  ASSUME TypeOK, NEW j \in Jobs, NEW kind \in {"send", "receipt"}
  PROVE  /\ Claim(j, kind) \in FlightType
         /\ Claim(j, kind).job = j /\ Claim(j, kind).kind = kind
         /\ Claim(j, kind).attempt = 1 + (IF kind = "send" THEN job[j].sends ELSE job[j].receipts)
         /\ Claim(j, kind).tokenId = job[j].tokenId
         /\ Claim(j, kind).to = IF kind = "send" THEN job[j].snapshot ELSE job[j].ticket
         /\ Claim(j, kind).answer = None
<1>1. PICK r \in JobType : r = job[j]
  BY DEF TypeOK
<1>2. /\ r.tokenId \in TokenIds \cup {None} /\ r.snapshot \in TokenValues \cup {None}
      /\ r.ticket \in TokenValues \cup {None} /\ r.sends \in Nat /\ r.receipts \in Nat
  BY JobFields
<1>3. PICK n \in Nat : n = 1 + (IF kind = "send" THEN r.sends ELSE r.receipts)
  BY <1>2
<1>4. PICK to \in TokenValues \cup {None} : to = IF kind = "send" THEN r.snapshot ELSE r.ticket
  BY <1>2
<1>5. Claim(j, kind) = [job |-> j, kind |-> kind, tokenId |-> r.tokenId, attempt |-> n,
                        to |-> to, answer |-> None]
  BY <1>1, <1>3, <1>4 DEF Claim
<1> QED
  BY <1>1, <1>2, <1>3, <1>4, <1>5 DEF FlightType

LEMMA ClaimSendKeeps ==
  ASSUME PushInv, NEW batch \in SUBSET Jobs, claimSendBatch(batch)
  PROVE  PushInv' /\ NoResend
<1>t. TypeOK
  BY DEF PushInv
<1>s. UNCHANGED <<token, note, keyShare, rotating, dropping, leaving, faults, crossed>>
  BY DEF claimSendBatch
<1>1. \A j \in Jobs : job'[j] = IF j \in batch THEN Sending(job[j]) ELSE job[j]
  BY DEF claimSendBatch
<1>2. job' \in [Jobs -> JobType]
  <2>1. \A j \in Jobs : job'[j] \in JobType
    BY <1>t, <1>1, SendingFacts DEF TypeOK
  <2> QED
    BY <2>1 DEF claimSendBatch
<1>3. flights \subseteq flights' /\ flights' \subseteq FlightType /\ \A j \in batch : Claim(j, "send") \in flights'
  BY <1>t, ClaimFacts DEF claimSendBatch, TypeOK
<1>4. TypeOK'
  BY <1>t, <1>s, <1>2, <1>3 DEF TypeOK
<1>5. ASSUME NEW j \in Jobs, j \notin batch PROVE Safe(j)
  BY <1>t, <1>s, <1>1, <1>3, <1>5, NoFault, UntouchedSafe
<1>6. ASSUME NEW j \in batch PROVE Safe(j)
  <2>r. PICK r \in JobType : r = job[j]
    BY <1>t DEF TypeOK
  <2>1. /\ job'[j].status = "sending" /\ job'[j].ticket = r.ticket /\ job'[j].due = FALSE
        /\ job'[j].sends = r.sends + 1 /\ job'[j].receipts = r.receipts
    BY <1>1, <2>r, SendingFacts
  <2>2. r.status \in Queue /\ r.due
    BY <2>r DEF claimSendBatch, sendDue
  <2>3. BudgetOf(j) /\ TicketOf(j)
    BY DEF PushInv
  <2>n. PICK s \in Nat, q \in Nat : s = r.sends /\ q = r.receipts
    BY JobFields
  <2>c. PICK c \in Nat, d \in Nat, m \in Nat :
          c = SendCap /\ d = ReceiptCap /\ m = MaxSends /\ m <= c /\ c = SendCap' /\ d = ReceiptCap'
    BY <1>t, <1>s, Caps, Constants
  <2>4. InHand(j)'
    <3>1. Claim(j, "send").attempt = 1 + s
      BY <1>t, <2>r, <2>n, ClaimFacts
    <3>2. job'[j].sends = 1 + s
      BY <2>1, <2>n
    <3> QED
      BY <1>t, <1>3, <2>1, <3>1, <3>2, ClaimFacts DEF InHand, Fenced
  <2>5. s + 1 <= c /\ q <= d /\ q < MaxReceipts
    BY <2>2, <2>3, <2>r, <2>n, <2>c, Statuses DEF BudgetOf
  <2>6. BudgetOf(j)'
    BY <2>1, <2>4, <2>5, <2>n, <2>c, Statuses DEF BudgetOf
  <2>7. r.ticket = None
    BY <2>r, <2>2, <2>3, Statuses DEF TicketOf
  <2>8. TicketOf(j)'
    BY <2>1, <2>7 DEF TicketOf
  <2> QED
    BY <2>r, <2>2, <2>6, <2>7, <2>8, Statuses DEF Safe
<1>7. \A j \in Jobs : job[j].status = "absent" => job'[j].status = "absent"
  BY <1>1, Statuses DEF claimSendBatch, sendDue
<1> QED
  BY <1>s, <1>4, <1>5, <1>6, <1>7, WorkerKeeps

LEMMA ClaimReceiptKeeps ==
  ASSUME PushInv, NEW batch \in SUBSET Jobs, claimReceiptBatch(batch)
  PROVE  PushInv' /\ NoResend
<1>t. TypeOK
  BY DEF PushInv
<1>s. UNCHANGED <<token, note, keyShare, rotating, dropping, leaving, faults, crossed>>
  BY DEF claimReceiptBatch
<1>1. \A j \in Jobs : job'[j] = IF j \in batch THEN Checking(job[j]) ELSE job[j]
  BY DEF claimReceiptBatch
<1>2. job' \in [Jobs -> JobType]
  <2>1. \A j \in Jobs : job'[j] \in JobType
    BY <1>t, <1>1, CheckingFacts DEF TypeOK
  <2> QED
    BY <2>1 DEF claimReceiptBatch
<1>3. /\ flights \subseteq flights' /\ flights' \subseteq FlightType
      /\ \A j \in batch : Claim(j, "receipt") \in flights'
  BY <1>t, ClaimFacts DEF claimReceiptBatch, TypeOK
<1>4. TypeOK'
  BY <1>t, <1>s, <1>2, <1>3 DEF TypeOK
<1>5. ASSUME NEW j \in Jobs, j \notin batch PROVE Safe(j)
  BY <1>t, <1>s, <1>1, <1>3, <1>5, NoFault, UntouchedSafe
<1>6. ASSUME NEW j \in batch PROVE Safe(j)
  <2>r. PICK r \in JobType : r = job[j]
    BY <1>t DEF TypeOK
  <2>1. /\ job'[j].status = "receipt_checking" /\ job'[j].ticket = r.ticket /\ job'[j].due = FALSE
        /\ job'[j].sends = r.sends /\ job'[j].receipts = r.receipts + 1
    BY <1>1, <2>r, CheckingFacts
  <2>2. r.status \in Receipt /\ r.due
    BY <2>r DEF claimReceiptBatch, receiptDue
  <2>3. BudgetOf(j)
    BY DEF PushInv
  <2>n. PICK s \in Nat, q \in Nat : s = r.sends /\ q = r.receipts
    BY JobFields
  <2>c. PICK c \in Nat, d \in Nat, m \in Nat :
          c = SendCap /\ d = ReceiptCap /\ m = MaxReceipts /\ m <= d /\ c = SendCap' /\ d = ReceiptCap'
    BY <1>t, <1>s, Caps, Constants
  <2>4. InHand(j)'
    <3>1. Claim(j, "receipt").attempt = 1 + q
      BY <1>t, <2>r, <2>n, ClaimFacts
    <3>2. job'[j].receipts = 1 + q
      BY <2>1, <2>n
    <3> QED
      BY <1>t, <1>3, <2>1, <3>1, <3>2, ClaimFacts DEF InHand, Fenced
  <2>5. s <= c /\ q + 1 <= d
    BY <2>2, <2>3, <2>r, <2>n, <2>c, Statuses DEF BudgetOf
  <2>6. BudgetOf(j)'
    BY <2>1, <2>4, <2>5, <2>n, <2>c, Statuses DEF BudgetOf
  <2>7. TicketOf(j)'
    BY <2>1, Statuses DEF TicketOf
  <2> QED
    BY <2>r, <2>1, <2>2, <2>6, <2>7, Statuses DEF Safe
<1>7. \A j \in Jobs : job[j].status = "absent" => job'[j].status = "absent"
  BY <1>1, Statuses DEF claimReceiptBatch, receiptDue
<1> QED
  BY <1>s, <1>4, <1>5, <1>6, <1>7, WorkerKeeps

LEMMA AnswerKeeps ==
  ASSUME PushInv, NEW f \in flights, NEW a \in Answers, ExpoAnswers(f, a)
  PROVE  PushInv' /\ NoResend
<1>t. TypeOK /\ f \in FlightType
  BY DEF PushInv, TypeOK
<1>s. UNCHANGED <<token, job, note, keyShare, rotating, dropping, leaving, faults, crossed>>
  BY DEF ExpoAnswers
<1>1. /\ Answered(f, a) \in FlightType /\ Answered(f, a).job = f.job
      /\ Answered(f, a).kind = f.kind /\ Answered(f, a).attempt = f.attempt
  BY <1>t DEF Answered, FlightType
<1>2. flights' = (flights \ {f}) \cup {Answered(f, a)}
  BY DEF ExpoAnswers
<1>3. TypeOK'
  BY <1>t, <1>s, <1>1, <1>2 DEF TypeOK
<1>4. ASSUME NEW j \in Jobs PROVE Safe(j)
  <2>1. \A g \in flights : \E h \in flights' :
          h.job = g.job /\ h.kind = g.kind /\ h.attempt = g.attempt
    BY <1>1, <1>2
  <2> QED
    BY <1>t, <1>s, <2>1, NoFault, UntouchedSafe
<1> QED
  BY <1>s, <1>3, <1>4, WorkerKeeps

LEMMA CrashKeeps ==
  ASSUME PushInv, NEW f \in flights, WorkerCrash(f)
  PROVE  PushInv' /\ NoResend
<1>t. TypeOK
  BY DEF PushInv
<1>s. /\ UNCHANGED <<token, job, note, keyShare, rotating, dropping, leaving, crossed>>
      /\ flights' = flights \ {f}
  BY DEF WorkerCrash
<1>1. faults' = faults + 1
  BY DEF WorkerCrash, Fault
<1>2. TypeOK'
  BY <1>t, <1>s, <1>1 DEF TypeOK
<1>3. ASSUME NEW j \in Jobs PROVE Safe(j)
  BY <1>s, <1>1, UntouchedSafe
<1> QED
  BY <1>s, <1>2, <1>3, WorkerKeeps

\* The job whose answer is applied while it is current.
LEMMA ResultSafe ==
  ASSUME PushInv, NEW f \in flights, Fenced(f), job'[f.job] = Result(job[f.job], f),
         UNCHANGED faults
  PROVE  Safe(f.job) /\ job[f.job].status # "absent" /\ job'[f.job] \in JobType
<1>t. TypeOK /\ f \in FlightType
  BY DEF PushInv, TypeOK
<1>j. PICK j \in Jobs : j = f.job
  BY <1>t, FlightFields
<1>r. PICK r \in JobType : r = job[j]
  BY <1>t DEF TypeOK
<1>o. PICK o \in JobType : o = Result(r, f) /\ o = job'[j]
  BY <1>t, <1>j, <1>r, ResultFacts
<1>1. BudgetOf(j) /\ TicketOf(j)
  BY DEF PushInv
<1>n. PICK s \in Nat, q \in Nat : s = r.sends /\ q = r.receipts /\ s = o.sends /\ q = o.receipts
  BY <1>t, <1>o, JobFields, ResultFacts
<1>c. PICK c \in Nat, d \in Nat : c = SendCap /\ d = ReceiptCap /\ c = SendCap' /\ d = ReceiptCap'
  BY <1>t, Caps
<1>2. s <= c /\ q <= d
  BY <1>r, <1>1, <1>n, <1>c DEF BudgetOf
<1>3. CASE f.kind = "send"
  <2>1. r.status = "sending" /\ r.ticket = None /\ q < MaxReceipts
    BY <1>3, <1>j, <1>r, <1>1, <1>n, Statuses DEF Fenced, TicketOf, BudgetOf
  <2>2. \/ o.status = "receipt_pending"
        \/ o.ticket = None /\ o.status = "queued" /\ s < MaxSends
        \/ o.ticket = None /\ o.status \in FinalStatuses
    <3>1. \/ Result(r, f).status = "receipt_pending"
          \/ /\ Result(r, f).ticket = r.ticket
             /\ \/ Result(r, f).status = "queued" /\ r.sends < MaxSends
                \/ Result(r, f).status \in FinalStatuses
      BY <1>t, <1>3, ResultFacts
    <3> QED
      BY <1>o, <1>n, <2>1, <3>1
  <2>3. BudgetOf(j)' /\ TicketOf(j)'
    BY <1>o, <1>n, <1>c, <1>2, <2>1, <2>2, Statuses DEF BudgetOf, TicketOf
  <2> QED
    BY <1>j, <1>r, <1>o, <2>1, <2>2, <2>3, Statuses DEF Safe
<1>4. CASE f.kind = "receipt"
  <2>1. r.status = "receipt_checking"
    BY <1>4, <1>j, <1>r DEF Fenced
  <2>2. \/ o.status = "receipt_pending" /\ q < MaxReceipts
        \/ o.status \in FinalStatuses
    <3>1. \/ Result(r, f).status = "receipt_pending" /\ r.receipts < MaxReceipts
          \/ Result(r, f).status \in FinalStatuses
      BY <1>t, <1>4, ResultFacts
    <3> QED
      BY <1>o, <1>n, <3>1
  <2>3. BudgetOf(j)' /\ TicketOf(j)'
    BY <1>o, <1>n, <1>c, <1>2, <2>2, Statuses DEF BudgetOf, TicketOf
  <2> QED
    BY <1>j, <1>r, <1>o, <2>1, <2>2, <2>3, Statuses DEF Safe
<1> QED
  BY <1>t, <1>3, <1>4, FlightFields

LEMMA ApplyKeeps ==
  ASSUME PushInv, NEW f \in flights, applyResult(f)
  PROVE  PushInv' /\ NoResend
<1>t. TypeOK /\ f \in FlightType
  BY DEF PushInv, TypeOK
<1>s. /\ UNCHANGED <<token, note, keyShare, rotating, dropping, leaving, faults>>
      /\ flights' = flights \ {f}
  BY DEF applyResult
<1>c. crossed' \subseteq Jobs
  BY <1>t, FlightFields DEF applyResult, TypeOK
<1>j. PICK j \in Jobs : j = f.job
  BY <1>t, FlightFields
<1>1. ASSUME NEW i \in Jobs, job'[i] = job[i], i # j \/ ~ Fenced(f) PROVE Safe(i)
  BY <1>t, <1>s, <1>j, <1>1, NoFault, UntouchedSafe
<1>2. CASE Fenced(f)
  <2>1. job' = [job EXCEPT ![j] = Result(job[j], f)]
    BY <1>2, <1>j DEF applyResult
  <2>2. job'[j] = Result(job[j], f) /\ \A i \in Jobs : i # j => job'[i] = job[i]
    BY <1>t, <2>1 DEF TypeOK
  <2>3. Safe(j) /\ job[j].status # "absent" /\ job'[j] \in JobType
    BY <1>2, <1>s, <1>j, <2>2, ResultSafe
  <2>4. \A i \in Jobs : Safe(i)
    BY <1>1, <2>2, <2>3
  <2>5. TypeOK'
    BY <1>t, <1>s, <1>c, <2>1, <2>2, <2>3 DEF TypeOK
  <2> QED
    BY <1>s, <2>2, <2>3, <2>4, <2>5, WorkerKeeps
<1>3. CASE ~ Fenced(f)
  <2>1. UNCHANGED job
    BY <1>3 DEF applyResult
  <2>2. \A i \in Jobs : Safe(i)
    BY <1>1, <1>3, <2>1
  <2>3. TypeOK'
    BY <1>t, <1>s, <1>c, <2>1 DEF TypeOK
  <2> QED
    BY <1>s, <2>1, <2>2, <2>3, WorkerKeeps
<1> QED
  BY <1>2, <1>3

LEMMA InvalidateKeeps ==
  ASSUME PushInv, NEW f \in flights, invalidatePushToken(f)
  PROVE  PushInv' /\ NoResend
<1>t. TypeOK /\ f \in FlightType
  BY DEF PushInv, TypeOK
<1>s. /\ UNCHANGED <<token, note, keyShare, rotating, leaving, faults, crossed>>
      /\ flights' = flights \ {f} /\ Fenced(f)
  BY DEF invalidatePushToken
<1>j. PICK j \in Jobs : j = f.job
  BY <1>t, FlightFields
<1>1. job'[j] = Result(job[j], f)
  BY <1>j DEF invalidatePushToken
<1>2. Safe(j) /\ job[j].status # "absent" /\ job'[j] \in JobType
  BY <1>s, <1>j, <1>1, ResultSafe
<1>3. ASSUME NEW i \in Jobs, i # j
      PROVE  Safe(i) /\ job'[i] \in JobType /\ (job[i].status = "absent" => job'[i] = job[i])
  <2>0. job[i] \in JobType
    BY <1>t DEF TypeOK
  <2>1. CASE i \in OpenJobsOf({f.tokenId})
    <3>1. job[i].status \in OpenStatuses /\ job'[i] = Cancelled(job[i])
      BY <1>j, <1>3, <2>1 DEF invalidatePushToken, OpenJobsOf
    <3>2. Spared(i) /\ job'[i].status # job[i].status
      BY <2>0, <3>1, CancelledFacts, Statuses DEF Spared
    <3> QED
      BY <1>t, <1>s, <2>0, <3>1, <3>2, NoFault, SparedSafe, Statuses DEF Spared
  <2>2. CASE i \notin OpenJobsOf({f.tokenId})
    <3>1. job'[i] = job[i]
      BY <1>j, <1>3, <2>2 DEF invalidatePushToken
    <3> QED
      BY <1>t, <1>s, <1>j, <1>3, <2>0, <3>1, NoFault, UntouchedSafe
  <2> QED
    BY <2>1, <2>2
<1>4. TypeOK'
  <2>1. job' \in [Jobs -> JobType]
    BY <1>2, <1>3 DEF invalidatePushToken
  <2>2. dropping' \in [TokenIds -> Jobs \cup {None}]
    BY <1>t, <1>j DEF invalidatePushToken, TypeOK
  <2> QED
    BY <1>t, <1>s, <2>1, <2>2 DEF TypeOK
<1> QED
  BY <1>s, <1>2, <1>3, <1>4, WorkerKeeps

-----------------------------------------------------------------------------
(* Attempts and outcomes *)

LEMMA PushInit ==
  ASSUME Init PROVE PushInv
<1>1. NoToken \in TokenType
  BY DEF NoToken, TokenType
<1>2. TypeOK
  BY <1>1, NoJobType DEF Init, TypeOK
<1>3. ASSUME NEW j \in Jobs PROVE BudgetOf(j) /\ TicketOf(j)
  <2>1. 0 <= SendCap /\ 0 <= ReceiptCap /\ 0 < MaxSends /\ 0 < MaxReceipts
    BY <1>2, Caps, Constants
  <2>2. job[j] = NoJob
    BY DEF Init
  <2> QED
    BY <2>1, <2>2, NoJobType, Statuses DEF BudgetOf, TicketOf
<1>4. \A n \in Notifications : MadeOnce(n)
  BY NoJobType DEF Init, MadeOnce, Jobs
<1> QED
  BY <1>2, <1>3, <1>4 DEF PushInv

LEMMA PushNext ==
  ASSUME PushInv, Next PROVE PushInv' /\ NoResend
<1>1. CASE Finish
  BY <1>1, EnqueueKeeps, RotateInFlightKeeps, DeleteTokensKeeps DEF Finish
<1>2. CASE ClientStep
  BY <1>2, NotifyKeeps, RegisterKeeps, RotateQueuedKeeps, UnregisterKeeps, ScheduleKeeps,
     AnonymizeKeeps DEF ClientStep
<1>3. CASE WorkerStep
  BY <1>3, ElapseKeeps, ClaimSendKeeps, ClaimReceiptKeeps, AnswerKeeps, ApplyKeeps,
     InvalidateKeeps, CrashKeeps DEF WorkerStep
<1> QED
  BY <1>1, <1>2, <1>3 DEF Next

LEMMA PushStep ==
  ASSUME PushInv, [Next]_vars PROVE PushInv' /\ NoResend
<1>1. CASE UNCHANGED vars
  <2>1. /\ UNCHANGED <<token, job, note, keyShare, rotating, dropping, leaving>>
        /\ UNCHANGED <<flights, faults, crossed>>
    BY <1>1 DEF vars
  <2>2. TypeOK'
    BY <2>1 DEF PushInv, TypeOK
  <2> QED
    BY <2>1, <2>2, SparedSame, TokenStepKeeps DEF PushInv
<1> QED
  BY <1>1, PushNext

LEMMA PushAlways == Spec => []PushInv
<1>1. PushInv /\ [Next]_vars => PushInv'
  BY PushStep
<1> QED
  BY <1>1, PushInit, PTL DEF Spec

\* Every variable keeps its type.
THEOREM PushTypes == Spec => []TypeOK
<1>1. PushInv => TypeOK
  BY DEF PushInv
<1> QED
  BY <1>1, PushAlways, PTL

\* However many workers take over each other's claims, the sends and the
\* receipt checks of a job exceed their limits by no more than the claims that
\* were lost or overtaken (claimSendBatch, claimReceiptBatch and the results).
THEOREM AttemptsBounded == Spec => []AttemptBudget
<1>1. PushInv => AttemptBudget
  BY DEF PushInv, BudgetOf, AttemptBudget, SendCap, ReceiptCap
<1> QED
  BY <1>1, PushAlways, PTL

\* A late answer never sends a job again whose ticket is stored, nor changes the
\* outcome of a finished one, whichever worker it comes from (applySendResult
\* and applyReceiptResult).
THEOREM OutcomesFinal == Spec => NeverResent
<1>1. PushInv /\ [Next]_vars => NoResend
  BY PushStep
<1>2. NoResend <=> \A j \in Jobs :
        /\ job[j].ticket # None => job'[j].status \notin Queue
        /\ job[j].status \in FinalStatuses => job'[j].status \in {job[j].status, "absent"}
  BY DEF NoResend
<1> QED
  BY <1>1, <1>2, PushAlways, PTL DEF NeverResent, Spec
-----------------------------------------------------------------------------
(* Addresses, whatever commits between two statements of a transaction *)

LEMMA TokenOf ==
  ASSUME TypeOK, NEW j \in Jobs
  PROVE  job[j] \in JobType /\ job[j].tokenId \in TokenIds \cup {None}
  BY JobFields DEF TypeOK

\* What a deletion of token rows and a cancellation of jobs leave open.
LEMMA DroppedOpen ==
  ASSUME TypeOK, NEW j \in Jobs, NEW cancel, NEW ids,
         job'[j] = Dropped(j, cancel, ids), Open(j)'
  PROVE  /\ Open(j) /\ j \notin cancel
         /\ job'[j].status = job[j].status /\ job'[j].snapshot = job[j].snapshot
         /\ IF job[j].tokenId \in ids THEN job'[j].tokenId = None ELSE job'[j] = job[j]
<1>1. job[j] \in JobType
  BY DEF TypeOK
<1>2. j \notin cancel
  <2> SUFFICES ASSUME j \in cancel PROVE FALSE
    OBVIOUS
  <2>1. PICK r \in JobType : r = Cancelled(job[j]) /\ r.status = "cancelled"
    BY <1>1, CancelledFacts
  <2>2. job'[j] = r \/ job'[j] = Orphaned(r)
    BY <2>1 DEF Dropped
  <2>3. job'[j].status = "cancelled"
    BY <2>1, <2>2, OrphanedFacts
  <2> QED
    BY <2>3, Statuses DEF Open
<1>3. job'[j] = IF job[j].tokenId \in ids THEN Orphaned(job[j]) ELSE job[j]
  BY <1>2 DEF Dropped
<1>4. job'[j].status = job[j].status /\ job'[j].snapshot = job[j].snapshot
  BY <1>1, <1>3, OrphanedFacts
<1>5. job[j].tokenId \in ids => job'[j].tokenId = None
  BY <1>1, <1>3, OrphanedFacts
<1> QED
  BY <1>2, <1>3, <1>4, <1>5 DEF Open

\* The same where the open jobs of the rows are among the cancelled ones.
LEMMA DroppedRest ==
  ASSUME TypeOK, NEW j \in Jobs, NEW cancel, NEW ids,
         j \in OpenJobsOf(ids) => j \in cancel,
         job'[j] = Dropped(j, cancel, ids), Open(j)'
  PROVE  Open(j) /\ job'[j] = job[j] /\ job[j].tokenId \notin ids
<1>1. Open(j) /\ j \notin cancel
      /\ IF job[j].tokenId \in ids THEN job'[j].tokenId = None ELSE job'[j] = job[j]
  BY DroppedOpen
<1>2. job[j].tokenId \notin ids
  BY <1>1 DEF OpenJobsOf, Open
<1> QED
  BY <1>1, <1>2

\* An open job that is left alone, with its token row.
LEMMA CourseSame ==
  ASSUME AddressInv, NEW j \in Jobs, Open(j), job'[j] = job[j], crossed \subseteq crossed',
         \A k \in TokenIds : k = job[j].tokenId =>
             /\ token'[k] = token[k] /\ rotating'[k] = rotating[k]
             /\ Doomed(k)' => Doomed(k)
  PROVE  OnCourse(j)'
<1>1. OnCourse(j)
  BY DEF AddressInv
<1>2. CASE job[j].tokenId \in TokenIds
  <2>1. PICK k \in TokenIds : k = job[j].tokenId
    BY <1>2
  <2>2. /\ token'[k] = token[k] /\ rotating'[k] = rotating[k]
        /\ Doomed(k)' => Doomed(k)
    BY <2>1
  <2> QED
    BY <1>1, <2>1, <2>2 DEF OnCourse, Live
<1>3. CASE job[j].tokenId \notin TokenIds
  BY <1>1, <1>3 DEF OnCourse
<1> QED
  BY <1>2, <1>3

\* The rows held FOR KEY SHARE are left alone.
LEMMA SharesSame ==
  ASSUME AddressInv, UNCHANGED keyShare,
         \A n \in Notifications : \A k \in keyShare[n] :
             k \in TokenIds => token'[k] = token[k] /\ rotating'[k] = rotating[k]
  PROVE  SharesOwned'
  BY DEF AddressInv, PushInv, TypeOK, SharesOwned, Live

\* In-flight jobs keep their address.
Held(j) ==
    job'[j].status \in InFlightStatuses =>
        /\ job'[j].snapshot = job[j].snapshot
        /\ j \in crossed' \/ job'[j].tokenId = job[j].tokenId

LEMMA SparedFlights ==
  ASSUME AddressInv, \A j \in Jobs : Spared(j) /\ Held(j), UNCHANGED flights,
         crossed \subseteq crossed',
         \A n \in Notifications :
             note[n] # "none" /\ keyShare[n] = {} => note'[n] # "none" /\ keyShare'[n] = {}
  PROVE  (\A f \in flights' : FlightSound(f)') /\ (\A j \in Jobs : TicketCurrent(j)')
<1>1. ASSUME NEW f \in flights PROVE FlightSound(f)'
  <2>1. PICK j \in Jobs : j = f.job /\ j[1] \in Notifications
    BY FlightFields DEF AddressInv, PushInv, TypeOK, Jobs
  <2>2. FlightSound(f) /\ Spared(j) /\ Held(j)
    BY DEF AddressInv
  <2>3. note'[j[1]] # "none" /\ keyShare'[j[1]] = {}
    BY <2>1, <2>2 DEF FlightSound
  <2>4. job'[j].status # "absent" => job[j].status # "absent"
    BY <2>2, Statuses DEF Spared
  <2>5. Fenced(f)' => /\ Fenced(f) /\ job'[j].snapshot = job[j].snapshot
                      /\ j \in crossed' \/ job'[j].tokenId = job[j].tokenId
    BY <2>1, <2>2, Statuses DEF Fenced, Spared, Held, InFlightStatuses
  <2> QED
    BY <2>1, <2>2, <2>3, <2>4, <2>5 DEF FlightSound, Spared
<1>2. ASSUME NEW j \in Jobs PROVE TicketCurrent(j)'
  <2>1. Spared(j) /\ Held(j) /\ TicketCurrent(j)
    BY DEF AddressInv
  <2> QED
    BY <2>1, Statuses DEF TicketCurrent, Spared, Held, InFlightStatuses
<1> QED
  BY <1>1, <1>2

\* The client steps: what each shows of its own.
LEMMA ClientAddress ==
  ASSUME AddressInv, PushInv', SharesOwned', UNCHANGED <<note, keyShare, flights, crossed>>,
         \A j \in Jobs : Spared(j) /\ Held(j) /\ OnCourse(j)'
  PROVE  AddressInv'
  BY SparedFlights DEF AddressInv

LEMMA AddressSame ==
  ASSUME AddressInv, UNCHANGED <<token, job, rotating, dropping, leaving, crossed>>
  PROVE  \A j \in Jobs : Spared(j) /\ Held(j) /\ OnCourse(j)'
<1>1. TypeOK /\ \A j \in Jobs : OnCourse(j)
  BY DEF AddressInv, PushInv
<1>2. \A k \in TokenIds : Doomed(k)' <=> Doomed(k)
  BY DEF Doomed
<1>3. \A j \in Jobs : OnCourse(j)'
  BY <1>1, <1>2 DEF OnCourse, Open, Live
<1> QED
  BY <1>1, <1>3, SparedSame DEF Held

LEMMA NotifyAddress ==
  ASSUME AddressInv, NEW n \in Notifications,
         (\E e \in BOOLEAN : notify(n, e)) \/ markRead(n)
  PROVE  AddressInv'
<1>t. TypeOK
  BY DEF AddressInv, PushInv
<1>s. UNCHANGED <<token, job, rotating, dropping, leaving, flights, crossed>>
  BY DEF notify, markRead
<1>1. PushInv'
  BY NotifyKeeps DEF AddressInv
<1>2. \A j \in Jobs : Spared(j) /\ Held(j) /\ OnCourse(j)'
  BY <1>s, AddressSame
<1>3. SharesOwned'
  <2>1. ASSUME NEW m \in Notifications, NEW id \in keyShare'[m]
        PROVE  Live(id) /\ token[id].user = Recipient[m] /\ rotating[id] = None
    <3>1. CASE id \in keyShare[m]
      BY <3>1 DEF AddressInv, SharesOwned
    <3>2. CASE id \notin keyShare[m]
      <4>1. /\ m = n /\ id \in TokensOf(Recipient[n])
            /\ \A k \in TokensOf(Recipient[n]) : rotating[k] = None
        BY <1>t, <2>1, <3>2 DEF notify, markRead, TypeOK
      <4> QED
        BY <4>1 DEF TokensOf
    <3> QED
      BY <3>1, <3>2
  <2> QED
    BY <1>s, <2>1 DEF SharesOwned, Live
<1>4. \A m \in Notifications :
        note[m] # "none" /\ keyShare[m] = {} => note'[m] # "none" /\ keyShare'[m] = {}
  BY <1>t DEF notify, markRead, TypeOK
<1> QED
  BY <1>s, <1>1, <1>2, <1>3, <1>4, SparedFlights DEF AddressInv

LEMMA RegisterAddress ==
  ASSUME AddressInv, NEW id \in TokenIds, NEW user \in Users,
         NEW device \in Devices, NEW value \in TokenValues, registerPushToken(id, user, device, value)
  PROVE  AddressInv'
<1>t. TypeOK /\ \A j \in Jobs : OnCourse(j)
  BY DEF AddressInv, PushInv
<1>s. UNCHANGED <<note, keyShare, rotating, dropping, leaving, flights, crossed>>
  BY DEF registerPushToken
<1>1. PushInv' /\ \A j \in Jobs : Spared(j)
  BY RegisterKeeps DEF AddressInv
<1>3. ASSUME NEW j \in Jobs, Open(j)'
      PROVE  Open(j) /\ job'[j] = job[j] /\ job[j].tokenId \notin RequestedToken(value)
  BY <1>t, <1>3, DroppedRest DEF registerPushToken, TakenOver
<1>4. \A k \in TokenIds : Live(k) /\ k \notin RequestedToken(value) => token'[k] = token[k]
  <2> SUFFICES ASSUME NEW k \in TokenIds, Live(k), k \notin RequestedToken(value)
               PROVE  token'[k] = token[k]
    OBVIOUS
  <2>1. WithoutTokens(RequestedToken(value)) \in [TokenIds -> TokenType]
    BY <1>t, TokenTypes
  <2>2. WithoutTokens(RequestedToken(value))[k] = token[k]
    BY <1>t, TokenTypes
  <2>3. k # id
    BY DEF registerPushToken, Live
  <2> QED
    BY <2>1, <2>2, <2>3 DEF registerPushToken
<1>5. ASSUME NEW j \in Jobs PROVE Held(j) /\ OnCourse(j)'
  <2>1. Held(j)
    BY <1>3 DEF Held, InFlightStatuses, Open
  <2>2. OnCourse(j)'
    <3> SUFFICES ASSUME Open(j)' PROVE OnCourse(j)'
      BY DEF OnCourse
    <3>1. Open(j) /\ job'[j] = job[j] /\ job[j].tokenId \notin RequestedToken(value)
      BY <1>3
    <3>2. \A k \in TokenIds : k = job[j].tokenId => token'[k] = token[k]
      BY <1>t, <1>4, <3>1 DEF OnCourse
    <3>3. \A k \in TokenIds : k = job[j].tokenId => (Doomed(k)' => Doomed(k))
      BY <1>s, <3>2 DEF Doomed
    <3> QED
      BY <1>s, <3>1, <3>2, <3>3, CourseSame
  <2> QED
    BY <2>1, <2>2
<1>6. SharesOwned'
  <2>1. ASSUME NEW n \in Notifications, NEW k \in keyShare[n], k \in TokenIds
        PROVE  token'[k] = token[k]
    <3>1. Live(k)
      BY DEF AddressInv, SharesOwned
    <3>2. k \notin RequestedToken(value)
      BY DEF registerPushToken, Admitted, Lockable
    <3> QED
      BY <1>4, <2>1, <3>1, <3>2
  <2> QED
    BY <1>s, <2>1, SharesSame
<1> QED
  BY <1>s, <1>1, <1>5, <1>6, ClientAddress

LEMMA RotateQueuedAddress ==
  ASSUME AddressInv, NEW id \in TokenIds, NEW value \in TokenValues, rotateQueued(id, value)
  PROVE  AddressInv'
<1>t. TypeOK /\ \A j \in Jobs : OnCourse(j)
  BY DEF AddressInv, PushInv
<1>s. UNCHANGED <<note, keyShare, dropping, leaving, flights, crossed>>
  BY DEF rotateQueued
<1>1. PushInv' /\ \A j \in Jobs : Spared(j)
  BY RotateQueuedKeeps DEF AddressInv
<1>m. ASSUME NEW j \in QueuedOn(id)
      PROVE  /\ j \in Jobs /\ job[j].tokenId = id /\ job'[j].tokenId = id
             /\ job'[j].snapshot = value /\ job'[j].status = "queued" /\ Open(j)
  <2>1. j \in Jobs /\ job[j] \in JobType /\ job[j].tokenId = id /\ job[j].status = "queued"
    BY <1>t DEF QueuedOn, TypeOK
  <2>2. job'[j] = Moved(job[j], value)
    BY <2>1 DEF rotateQueued
  <2> QED
    BY <2>1, <2>2, MovedFacts, Statuses DEF Open
<1>2. ASSUME NEW j \in Jobs, Open(j)', j \notin QueuedOn(id)
      PROVE  Open(j) /\ job'[j] = job[j] /\ job[j].tokenId \notin RequestedToken(value)
  <2>1. job'[j] = Dropped(j, TakenOver(value), RequestedToken(value))
    BY <1>2 DEF rotateQueued
  <2> QED
    BY <1>t, <1>2, <2>1, DroppedRest DEF TakenOver
<1>3. \A k \in TokenIds : k \notin RequestedToken(value) => token'[k] = token[k]
  BY <1>t, TokenTypes DEF rotateQueued
<1>4. Live(id) /\ rotating[id] = None /\ id \notin RequestedToken(value)
  BY DEF rotateQueued, RequestedToken
<1>r. /\ rotating'[id] = [value |-> value, moved |-> QueuedOn(id)]
      /\ \A k \in TokenIds : k # id => rotating'[k] = rotating[k]
  BY <1>t DEF rotateQueued, TypeOK
<1>n. rotating'[id] # None /\ rotating'[id].value = value
  <2>1. [value |-> value, moved |-> QueuedOn(id)] \in RotationType
    BY DEF RotationType, QueuedOn
  <2> QED
    BY <1>r, <2>1, PushConstants
<1>d. \A k \in TokenIds : k \notin RequestedToken(value) => (Doomed(k)' <=> Doomed(k))
  BY <1>s, <1>3 DEF Doomed
<1>5. ASSUME NEW j \in Jobs PROVE Held(j) /\ OnCourse(j)'
  <2>1. CASE j \in QueuedOn(id)
    <3>0. OnCourse(j)
      BY <1>t
    <3>1. Held(j)
      BY <1>m, <2>1, Statuses DEF Held, InFlightStatuses
    <3>2. token'[id] = token[id] /\ (Doomed(id)' <=> Doomed(id))
      BY <1>3, <1>4, <1>d
    <3>3. OnCourse(j)'
      BY <1>s, <1>m, <1>n, <2>1, <3>0, <3>2 DEF OnCourse, Live
    <3> QED
      BY <3>1, <3>3
  <2>2. CASE j \notin QueuedOn(id)
    <3>1. Held(j)
      BY <1>2, <2>2 DEF Held, InFlightStatuses, Open
    <3>2. OnCourse(j)'
      <4> SUFFICES ASSUME Open(j)' PROVE OnCourse(j)'
        BY DEF OnCourse
      <4>0. OnCourse(j)
        BY <1>t
      <4>1. Open(j) /\ job'[j] = job[j] /\ job[j].tokenId \notin RequestedToken(value)
        BY <1>2, <2>2
      <4>2. CASE job[j].tokenId = id
        <5>1. job'[j].status # "queued"
          BY <2>2, <4>1, <4>2 DEF QueuedOn
        <5>2. token'[id] = token[id] /\ (Doomed(id)' <=> Doomed(id))
          BY <1>3, <1>4, <1>d
        <5> QED
          BY <1>s, <1>n, <4>0, <4>1, <4>2, <5>1, <5>2 DEF OnCourse, Live
      <4>3. CASE job[j].tokenId # id
        <5>1. \A k \in TokenIds : k = job[j].tokenId =>
                /\ token'[k] = token[k] /\ rotating'[k] = rotating[k]
                /\ Doomed(k)' => Doomed(k)
          BY <1>3, <1>r, <1>d, <4>1, <4>3
        <5> QED
          BY <1>s, <4>1, <5>1, CourseSame
      <4> QED
        BY <4>2, <4>3
    <3> QED
      BY <3>1, <3>2
  <2> QED
    BY <2>1, <2>2
<1>6. SharesOwned'
  <2>1. ASSUME NEW n \in Notifications, NEW k \in keyShare[n], k \in TokenIds
        PROVE  token'[k] = token[k] /\ rotating'[k] = rotating[k]
    <3>1. id \in DeviceToken(token[id].user, token[id].device)
      BY <1>4 DEF DeviceToken, TokensOf
    <3>2. k \notin RequestedToken(value) /\ k # id
      BY <3>1 DEF rotateQueued, Admitted, Lockable
    <3> QED
      BY <1>3, <1>r, <2>1, <3>2
  <2> QED
    BY <1>s, <2>1, SharesSame
<1> QED
  BY <1>s, <1>1, <1>5, <1>6, ClientAddress

LEMMA RotateInFlightAddress ==
  ASSUME AddressInv, NEW id \in TokenIds, rotateInFlight(id)
  PROVE  AddressInv'
<1>t. TypeOK /\ \A j \in Jobs : OnCourse(j)
  BY DEF AddressInv, PushInv
<1>s. UNCHANGED <<note, keyShare, dropping, leaving, flights, crossed>> /\ rotating[id] # None
  BY DEF rotateInFlight
<1>1. PushInv' /\ \A j \in Jobs : Spared(j)
  BY RotateInFlightKeeps DEF AddressInv
<1>2. ASSUME NEW j \in Jobs, Open(j)' PROVE Open(j) /\ job'[j] = job[j] /\ j \notin InFlightOn(id)
  <2>1. j \notin InFlightOn(id)
    <3> SUFFICES ASSUME j \in InFlightOn(id) PROVE FALSE
      OBVIOUS
    <3>1. job'[j] = Cancelled(job[j]) /\ job[j] \in JobType
      BY <1>t DEF rotateInFlight, TypeOK
    <3> QED
      BY <1>2, <3>1, CancelledFacts, Statuses DEF Open
  <2>2. job'[j] = job[j]
    BY <2>1 DEF rotateInFlight
  <2> QED
    BY <1>2, <2>1, <2>2 DEF Open
<1>3. /\ token'[id].state = token[id].state /\ token'[id].user = token[id].user
      /\ token'[id].value = rotating[id].value
      /\ \A k \in TokenIds : k # id => token'[k] = token[k]
  <2>1. token' = [token EXCEPT ![id] = Rotated(token[id], rotating[id].value)] /\ token[id] \in TokenType
    BY <1>t DEF rotateInFlight, TypeOK
  <2> QED
    BY <1>t, <2>1 DEF Rotated, TokenType, TypeOK
<1>4. rotating'[id] = None /\ \A k \in TokenIds : k # id => rotating'[k] = rotating[k]
  BY <1>t DEF rotateInFlight, TypeOK
<1>d. \A k \in TokenIds : Doomed(k)' <=> Doomed(k)
  BY <1>s, <1>3 DEF Doomed
<1>5. ASSUME NEW j \in Jobs PROVE Held(j) /\ OnCourse(j)'
  <2>1. Held(j)
    BY <1>2 DEF Held, InFlightStatuses, Open
  <2>2. OnCourse(j)'
    <3> SUFFICES ASSUME Open(j)' PROVE OnCourse(j)'
      BY DEF OnCourse
    <3>0. OnCourse(j) /\ Open(j) /\ job'[j] = job[j] /\ j \notin InFlightOn(id)
      BY <1>t, <1>2
    <3>1. CASE job[j].tokenId = id
      <4>1. job[j].status = "queued"
        BY <3>0, <3>1 DEF InFlightOn, InFlightStatuses, Open
      <4> QED
        BY <1>s, <1>3, <1>4, <1>d, <3>0, <3>1, <4>1 DEF OnCourse, Live
    <3>2. CASE job[j].tokenId # id
      <4>1. \A k \in TokenIds : k = job[j].tokenId =>
              /\ token'[k] = token[k] /\ rotating'[k] = rotating[k]
              /\ Doomed(k)' => Doomed(k)
        BY <1>3, <1>4, <1>d, <3>2
      <4> QED
        BY <1>s, <3>0, <4>1, CourseSame
    <3> QED
      BY <3>1, <3>2
  <2> QED
    BY <2>1, <2>2
<1>6. SharesOwned'
  <2>1. ASSUME NEW n \in Notifications, NEW k \in keyShare[n], k \in TokenIds
        PROVE  token'[k] = token[k] /\ rotating'[k] = rotating[k]
    <3>1. k # id
      BY <1>s DEF AddressInv, SharesOwned
    <3> QED
      BY <1>3, <1>4, <2>1, <3>1
  <2> QED
    BY <1>s, <2>1, SharesSame
<1> QED
  BY <1>s, <1>1, <1>5, <1>6, ClientAddress

\* Steps that delete token rows: an open job that remains on one of them has
\* slipped through a gap, and loses the row.
LEMMA DeleteAddress ==
  ASSUME AddressInv, PushInv', NEW ids, NEW cancel,
         OpenJobsOf(ids) \subseteq cancel \cup crossed,
         \A j \in Jobs : Spared(j) /\ job'[j] = Dropped(j, cancel, ids),
         \A k \in TokenIds : k \notin ids =>
             token'[k] = token[k] /\ (dropping'[k] # None => dropping[k] # None),
         \A n \in Notifications : keyShare[n] \cap ids = {},
         leaving' \subseteq leaving, UNCHANGED <<note, keyShare, rotating, flights, crossed>>
  PROVE  AddressInv'
<1>t. TypeOK /\ \A j \in Jobs : OnCourse(j)
  BY DEF AddressInv, PushInv
<1>1. ASSUME NEW j \in Jobs, Open(j)'
      PROVE  /\ Open(j) /\ job'[j].status = job[j].status /\ job'[j].snapshot = job[j].snapshot
             /\ \/ job'[j] = job[j] /\ job[j].tokenId \notin ids
                \/ job'[j].tokenId = None /\ j \in crossed
  <2>1. /\ Open(j) /\ j \notin cancel
        /\ job'[j].status = job[j].status /\ job'[j].snapshot = job[j].snapshot
        /\ IF job[j].tokenId \in ids THEN job'[j].tokenId = None ELSE job'[j] = job[j]
    BY <1>t, <1>1, DroppedOpen
  <2>2. job[j].tokenId \in ids => j \in crossed
    BY <2>1 DEF OpenJobsOf, Open
  <2> QED
    BY <2>1, <2>2
<1>2. ASSUME NEW j \in Jobs PROVE Held(j) /\ OnCourse(j)'
  <2>1. Held(j)
    BY <1>1 DEF Held, InFlightStatuses, Open
  <2>2. OnCourse(j)'
    <3> SUFFICES ASSUME Open(j)' PROVE OnCourse(j)'
      BY DEF OnCourse
    <3>1. CASE job'[j] = job[j] /\ job[j].tokenId \notin ids
      <4>1. \A k \in TokenIds : k = job[j].tokenId =>
              /\ token'[k] = token[k] /\ rotating'[k] = rotating[k]
              /\ Doomed(k)' => Doomed(k)
        BY <3>1 DEF Doomed
      <4> QED
        BY <1>1, <3>1, <4>1, CourseSame
    <3>2. CASE job'[j].tokenId = None /\ j \in crossed
      BY <3>2, Constants DEF OnCourse
    <3> QED
      BY <1>1, <3>1, <3>2
  <2> QED
    BY <2>1, <2>2
<1>3. SharesOwned'
  BY SharesSame
<1> QED
  BY <1>2, <1>3, ClientAddress

LEMMA UnregisterAddress ==
  ASSUME AddressInv, NEW user \in Users, NEW device \in Devices,
         unregisterPushToken(user, device)
  PROVE  AddressInv'
<1>1. PushInv' /\ \A j \in Jobs : Spared(j)
  BY UnregisterKeeps DEF AddressInv
<1>2. PICK ids : ids = DeviceToken(user, device)
  OBVIOUS
<1>3. /\ \A j \in Jobs : job'[j] = Dropped(j, OpenJobsOf(ids), ids)
      /\ token' = WithoutTokens(ids)
      /\ UNCHANGED <<note, keyShare, rotating, dropping, leaving, flights, faults, crossed>>
  BY <1>2 DEF unregisterPushToken, Dropped, OpenJobsOf, WithoutTokens
<1>4. \A k \in TokenIds : k \notin ids => token'[k] = token[k]
  BY <1>3, TokenTypes DEF AddressInv, PushInv
<1>5. \A n \in Notifications : keyShare[n] \cap ids = {}
  <2>1. \A k \in ids : Lockable(k)
    BY <1>2 DEF unregisterPushToken, DeviceToken, TokensOf
  <2> QED
    BY <2>1 DEF Lockable
<1>6. PICK cancel : cancel = OpenJobsOf(ids)
  OBVIOUS
<1>7. \A j \in Jobs : job'[j] = Dropped(j, cancel, ids)
  BY <1>3, <1>6 DEF Dropped
<1> QED
  BY <1>1, <1>3, <1>4, <1>5, <1>6, <1>7, DeleteAddress

LEMMA DeleteUserAddress ==
  ASSUME AddressInv, NEW user \in Users, deleteUserTokens(user)
  PROVE  AddressInv'
<1>1. PushInv' /\ \A j \in Jobs : Spared(j)
  BY DeleteTokensKeeps DEF AddressInv
<1>2. PICK ids : ids = TokensOf(user)
  OBVIOUS
<1>3. /\ \A j \in Jobs : job'[j] = Dropped(j, {}, ids)
      /\ token' = WithoutTokens(ids) /\ user \in leaving /\ leaving' = leaving \ {user}
      /\ UNCHANGED <<note, keyShare, rotating, dropping, flights, faults, crossed>>
  BY <1>2 DEF deleteUserTokens, Dropped, WithoutTokens
<1>4. \A k \in TokenIds : k \notin ids => token'[k] = token[k]
  BY <1>3, TokenTypes DEF AddressInv, PushInv
<1>5. \A n \in Notifications : keyShare[n] \cap ids = {}
  BY <1>2 DEF deleteUserTokens, Lockable
<1>6. OpenJobsOf(ids) \subseteq {} \cup crossed
  <2> SUFFICES ASSUME NEW j \in OpenJobsOf(ids) PROVE j \in crossed
    OBVIOUS
  <2>1. j \in Jobs /\ Open(j) /\ job[j].tokenId \in ids
    BY DEF OpenJobsOf, Open
  <2>2. Doomed(job[j].tokenId)
    BY <1>2, <1>3, <2>1 DEF Doomed, TokensOf
  <2> QED
    BY <2>1, <2>2 DEF AddressInv, OnCourse
<1> QED
  BY <1>1, <1>3, <1>4, <1>5, <1>6, DeleteAddress

LEMMA DeleteInvalidAddress ==
  ASSUME AddressInv, NEW id \in TokenIds, deleteInvalidToken(id)
  PROVE  AddressInv'
<1>t. TypeOK
  BY DEF AddressInv, PushInv
<1>1. PushInv' /\ \A j \in Jobs : Spared(j)
  BY DeleteTokensKeeps DEF AddressInv
<1>3. /\ \A j \in Jobs : job'[j] = Dropped(j, {}, {id})
      /\ token' = WithoutTokens({id}) \/ token' = token
      /\ dropping[id] # None /\ dropping' = [dropping EXCEPT ![id] = None]
      /\ UNCHANGED <<note, keyShare, rotating, leaving, flights, faults, crossed>>
  BY DEF deleteInvalidToken
<1>4. \A k \in TokenIds : k \notin {id} =>
        token'[k] = token[k] /\ (dropping'[k] # None => dropping[k] # None)
  BY <1>t, <1>3, TokenTypes DEF TypeOK
<1>5. \A n \in Notifications : keyShare[n] \cap {id} = {}
  <2>1. \A n \in Notifications : id \in keyShare[n] => Live(id)
    BY DEF AddressInv, SharesOwned
  <2> QED
    BY <2>1 DEF deleteInvalidToken, Lockable
<1>6. OpenJobsOf({id}) \subseteq {} \cup crossed
  <2> SUFFICES ASSUME NEW j \in OpenJobsOf({id}) PROVE j \in crossed
    OBVIOUS
  <2>1. j \in Jobs /\ Open(j) /\ job[j].tokenId = id
    BY DEF OpenJobsOf, Open
  <2>2. Doomed(id)
    BY <1>3 DEF Doomed
  <2> QED
    BY <2>1, <2>2 DEF AddressInv, OnCourse
<1> QED
  BY <1>1, <1>3, <1>4, <1>5, <1>6, DeleteAddress

LEMMA ScheduleAddress ==
  ASSUME AddressInv, NEW user \in Users, scheduleDeletion(user)
  PROVE  AddressInv'
<1>t. TypeOK /\ \A j \in Jobs : OnCourse(j)
  BY DEF AddressInv, PushInv
<1>s. /\ UNCHANGED <<token, note, keyShare, rotating, dropping, flights, crossed>>
      /\ leaving' = leaving \cup {user}
  BY DEF scheduleDeletion
<1>1. PushInv' /\ \A j \in Jobs : Spared(j)
  BY ScheduleKeeps DEF AddressInv
<1>2. ASSUME NEW j \in Jobs, Open(j)'
      PROVE  Open(j) /\ job'[j] = job[j] /\ j \notin OpenJobsOf(TokensOf(user))
  <2>1. j \notin OpenJobsOf(TokensOf(user))
    <3> SUFFICES ASSUME j \in OpenJobsOf(TokensOf(user)) PROVE FALSE
      OBVIOUS
    <3>1. job'[j] = Cancelled(job[j]) /\ job[j] \in JobType
      BY <1>t DEF scheduleDeletion, TypeOK
    <3> QED
      BY <1>2, <3>1, CancelledFacts, Statuses DEF Open
  <2>2. job'[j] = job[j]
    BY <2>1 DEF scheduleDeletion
  <2> QED
    BY <1>2, <2>1, <2>2 DEF Open
<1>3. ASSUME NEW j \in Jobs PROVE Held(j) /\ OnCourse(j)'
  <2>1. Held(j)
    BY <1>2 DEF Held, InFlightStatuses, Open
  <2>2. OnCourse(j)'
    <3> SUFFICES ASSUME Open(j)' PROVE OnCourse(j)'
      BY DEF OnCourse
    <3>0. OnCourse(j) /\ Open(j) /\ job'[j] = job[j] /\ j \notin OpenJobsOf(TokensOf(user))
      BY <1>t, <1>2
    <3>1. ASSUME NEW k \in TokenIds, k = job[j].tokenId PROVE Doomed(k)' => Doomed(k)
      <4>1. token[k].user # user
        BY <3>0, <3>1 DEF OnCourse, OpenJobsOf, TokensOf, Open
      <4> QED
        BY <1>s, <4>1 DEF Doomed
    <3> QED
      BY <1>s, <3>0, <3>1, CourseSame
  <2> QED
    BY <2>1, <2>2
<1>4. SharesOwned'
  BY <1>s, SharesSame
<1> QED
  BY <1>s, <1>1, <1>3, <1>4, ClientAddress

LEMMA EnqueueAddress ==
  ASSUME AddressInv, NEW n \in Notifications, enqueue(n)
  PROVE  AddressInv'
<1>t. TypeOK /\ \A j \in Jobs : OnCourse(j)
  BY DEF AddressInv, PushInv
<1>s. /\ UNCHANGED <<token, note, rotating, dropping, leaving, flights>> /\ keyShare[n] # {}
      /\ crossed \subseteq crossed'
  BY DEF enqueue
<1>1. PushInv'
  BY EnqueueKeeps DEF AddressInv
<1>2. \A m \in Notifications : keyShare'[m] \subseteq keyShare[m]
  BY <1>t DEF enqueue, TypeOK
<1>3. SharesOwned'
  BY <1>s, <1>2 DEF AddressInv, SharesOwned, Live
<1>4. \A j \in Jobs : job'[j] = IF j[1] = n /\ j[2] \in keyShare[n] THEN Queued(j[2]) ELSE job[j]
  BY DEF enqueue
<1>5. \A j \in Jobs : j[1] \in Notifications /\ j[2] \in TokenIds /\ j = <<j[1], j[2]>>
  BY DEF Jobs
<1>d. \A k \in TokenIds : Doomed(k)' <=> Doomed(k)
  BY <1>s DEF Doomed
<1>6. ASSUME NEW j \in Jobs PROVE OnCourse(j)' /\ TicketCurrent(j)'
  <2>1. CASE j[1] = n /\ j[2] \in keyShare[n]
    <3>1. PICK id \in TokenIds : id = j[2]
      BY <1>5
    <3>2. /\ job'[j].status = "queued" /\ job'[j].tokenId = id
          /\ job'[j].snapshot = token[id].value
      BY <1>t, <1>4, <2>1, <3>1, QueuedFacts
    <3>3. Live(id) /\ token[id].user = Recipient[n] /\ rotating[id] = None
      BY <2>1, <3>1 DEF AddressInv, SharesOwned
    <3>4. Doomed(id) => j \in crossed'
      BY <1>5, <2>1, <3>1 DEF enqueue
    <3>5. OnCourse(j)'
      BY <1>s, <1>d, <2>1, <3>2, <3>3, <3>4 DEF OnCourse, Live
    <3> QED
      BY <3>2, <3>5, Statuses DEF TicketCurrent
  <2>2. CASE ~ (j[1] = n /\ j[2] \in keyShare[n])
    <3>1. job'[j] = job[j]
      BY <1>4, <2>2
    <3>2. TicketCurrent(j)'
      BY <3>1 DEF AddressInv, TicketCurrent
    <3>3. Open(j) => OnCourse(j)'
      BY <1>s, <1>d, <3>1, CourseSame
    <3>4. ~ Open(j) => OnCourse(j)'
      BY <3>1 DEF OnCourse, Open
    <3> QED
      BY <3>2, <3>3, <3>4
  <2> QED
    BY <2>1, <2>2
<1>7. ASSUME NEW f \in flights PROVE FlightSound(f)'
  <2>1. PICK j \in Jobs : j = f.job
    BY <1>t, FlightFields DEF TypeOK
  <2>2. FlightSound(f) /\ j[1] # n
    BY <1>s, <2>1 DEF AddressInv, FlightSound
  <2>3. job'[j] = job[j] /\ keyShare'[j[1]] = keyShare[j[1]] /\ note'[j[1]] = note[j[1]]
    BY <1>t, <1>s, <1>4, <1>5, <2>2 DEF enqueue, TypeOK
  <2> QED
    BY <1>s, <2>1, <2>2, <2>3 DEF FlightSound, Fenced
<1> QED
  BY <1>s, <1>1, <1>3, <1>6, <1>7 DEF AddressInv

LEMMA AnonymizeAddress ==
  ASSUME AddressInv, NEW user \in Users, anonymizeDeletedAccount(user)
  PROVE  AddressInv'
<1>t. TypeOK /\ \A j \in Jobs : OnCourse(j)
  BY DEF AddressInv, PushInv
<1>s. UNCHANGED <<keyShare, rotating, dropping, leaving, flights, faults, crossed>>
  BY DEF anonymizeDeletedAccount
<1>1. PushInv'
  BY AnonymizeKeeps DEF AddressInv
<1>3. \A j \in Jobs : job'[j] = IF Recipient[j[1]] = user THEN NoJob ELSE job[j]
  BY DEF anonymizeDeletedAccount
<1>4. \A k \in TokenIds : k \notin TokensOf(user) => token'[k] = token[k]
  BY <1>t, TokenTypes DEF anonymizeDeletedAccount
<1>2. SharesOwned'
  <2>1. \A n \in Notifications : \A k \in keyShare[n] : k \notin TokensOf(user)
    BY DEF anonymizeDeletedAccount, Lockable
  <2> QED
    BY <1>s, <1>4, <2>1, SharesSame
<1>5. ASSUME NEW j \in Jobs PROVE OnCourse(j)' /\ TicketCurrent(j)'
  <2>0. OnCourse(j) /\ TicketCurrent(j)
    BY <1>t DEF AddressInv
  <2>1. CASE Recipient[j[1]] = user
    BY <1>3, <2>1, NoJobType, Statuses DEF OnCourse, Open, TicketCurrent
  <2>2. CASE Recipient[j[1]] # user
    <3>1. job'[j] = job[j]
      BY <1>3, <2>2
    <3>2. ASSUME Open(j) PROVE OnCourse(j)'
      <4>1. \A k \in TokenIds : k = job[j].tokenId => token'[k] = token[k]
        BY <1>4, <2>0, <2>2, <3>2 DEF TokensOf, OnCourse
      <4>2. \A k \in TokenIds : k = job[j].tokenId => (Doomed(k)' => Doomed(k))
        BY <1>s, <4>1 DEF Doomed
      <4> QED
        BY <1>s, <3>1, <3>2, <4>1, <4>2, CourseSame
    <3>3. ~ Open(j) => OnCourse(j)'
      BY <3>1 DEF OnCourse, Open
    <3> QED
      BY <2>0, <3>1, <3>2, <3>3 DEF TicketCurrent
  <2> QED
    BY <2>1, <2>2
<1>6. ASSUME NEW f \in flights PROVE FlightSound(f)'
  <2>1. PICK j \in Jobs : j = f.job /\ j[1] \in Notifications
    BY <1>t, FlightFields DEF TypeOK, Jobs
  <2>2. FlightSound(f)
    BY DEF AddressInv
  <2>3. note'[j[1]] # "none" /\ keyShare'[j[1]] = {}
    BY <1>s, <2>1, <2>2 DEF anonymizeDeletedAccount, FlightSound
  <2>4. CASE job'[j] = NoJob
    BY <2>1, <2>3, <2>4, NoJobType DEF FlightSound, Fenced
  <2>5. CASE job'[j] = job[j]
    BY <1>s, <2>1, <2>2, <2>3, <2>5 DEF FlightSound, Fenced
  <2> QED
    BY <1>3, <2>4, <2>5
<1> QED
  BY <1>s, <1>1, <1>2, <1>5, <1>6 DEF AddressInv

\* A worker's step leaves the addresses, opens no job and forgets no attempt.
Steady(j) ==
    /\ job'[j].tokenId = job[j].tokenId /\ job'[j].snapshot = job[j].snapshot
    /\ job'[j].sends \in {job[j].sends, job[j].sends + 1}
    /\ job'[j].receipts \in {job[j].receipts, job[j].receipts + 1}
    /\ job[j].status = "absent" <=> job'[j].status = "absent"
    /\ Open(j)' => Open(j)

\* A job put back in the queue during a rotation has slipped through.
Noticed(j) ==
    \/ job'[j].status # "queued" \/ job[j].status = "queued" \/ j \in crossed'
    \/ job[j].tokenId \notin TokenIds \/ rotating[job[j].tokenId] = None

LEMMA WorkerAddress ==
  ASSUME AddressInv, PushInv', UNCHANGED <<token, keyShare, rotating, leaving>>,
         crossed \subseteq crossed',
         \A j \in Jobs : Steady(j) /\ Noticed(j) /\ TicketCurrent(j)',
         \A j \in Jobs : Open(j)' /\ job[j].tokenId \in TokenIds =>
             dropping'[job[j].tokenId] = dropping[job[j].tokenId],
         \A f \in flights' : FlightSound(f)'
  PROVE  AddressInv'
<1>1. ASSUME NEW j \in Jobs, Open(j)' PROVE OnCourse(j)'
  <2>1. OnCourse(j) /\ Steady(j) /\ Noticed(j)
    BY DEF AddressInv
  <2>2. CASE job[j].tokenId \in TokenIds
    <3>1. PICK k \in TokenIds : k = job[j].tokenId
      BY <2>2
    <3>2. Doomed(k)' => Doomed(k)
      BY <1>1, <3>1 DEF Doomed
    <3> QED
      BY <2>1, <3>1, <3>2 DEF OnCourse, Steady, Noticed, Live
  <2>3. CASE job[j].tokenId \notin TokenIds
    BY <2>1, <2>3 DEF OnCourse, Steady
  <2> QED
    BY <2>2, <2>3
<1>2. \A j \in Jobs : OnCourse(j)'
  BY <1>1 DEF OnCourse
<1>3. SharesOwned'
  BY SharesSame
<1> QED
  BY <1>2, <1>3 DEF AddressInv

LEMMA FlightSteady ==
  ASSUME AddressInv, NEW f \in flights, Steady(f.job), UNCHANGED <<note, keyShare>>,
         crossed \subseteq crossed',
         Fenced(f)' => Fenced(f)
  PROVE  FlightSound(f)'
<1>1. PICK j \in Jobs : j = f.job
  BY FlightFields DEF AddressInv, PushInv, TypeOK
<1>2. FlightSound(f)
  BY DEF AddressInv
<1>3. PICK s \in Nat, q \in Nat, a \in Nat : s = job[j].sends /\ q = job[j].receipts /\ a = f.attempt
  BY <1>1, JobFields, FlightFields DEF AddressInv, PushInv, TypeOK
<1>4. job'[j].sends \in {s, s + 1} /\ job'[j].receipts \in {q, q + 1}
  BY <1>1, <1>3 DEF Steady
<1>5. job'[j].status # "absent" =>
        a <= (IF f.kind = "send" THEN s ELSE q)
  BY <1>1, <1>2, <1>3 DEF FlightSound, Steady
<1>6. job'[j].status # "absent" =>
        a <= (IF f.kind = "send" THEN job'[j].sends ELSE job'[j].receipts)
  BY <1>4, <1>5
<1> QED
  BY <1>1, <1>2, <1>3, <1>6 DEF FlightSound, Steady

LEMMA ClaimSendAddress ==
  ASSUME AddressInv, NEW batch \in SUBSET Jobs, claimSendBatch(batch)
  PROVE  AddressInv'
<1>t. TypeOK /\ \A j \in Jobs : job[j] \in JobType
  BY DEF AddressInv, PushInv, TypeOK
<1>s. UNCHANGED <<token, note, keyShare, rotating, dropping, leaving, faults, crossed>>
  BY DEF claimSendBatch
<1>p. PushInv'
  BY ClaimSendKeeps DEF AddressInv
<1>1. \A j \in Jobs : j \notin batch => job'[j] = job[j]
  BY DEF claimSendBatch
<1>2. ASSUME NEW j \in batch
      PROVE  /\ job[j].status \in Queue /\ job'[j].status = "sending"
             /\ job'[j].tokenId = job[j].tokenId /\ job'[j].snapshot = job[j].snapshot
             /\ job'[j].sends = job[j].sends + 1 /\ job'[j].receipts = job[j].receipts
             /\ job'[j].ticket = job[j].ticket
  BY <1>t, SendingFacts DEF claimSendBatch, sendDue
<1>3. \A j \in Jobs : Steady(j)
  <2>1. ASSUME NEW j \in batch PROVE Steady(j)
    BY <1>2, Statuses DEF Steady, Open
  <2> QED
    BY <1>1, <2>1 DEF Steady, Open
<1>4. ASSUME NEW f \in flights PROVE FlightSound(f)'
  <2>1. PICK j \in Jobs : j = f.job
    BY <1>t, FlightFields DEF TypeOK
  <2>2. CASE j \notin batch
    <3>1. Fenced(f)' => Fenced(f)
      BY <1>1, <2>1, <2>2 DEF Fenced
    <3> QED
      BY <1>s, <1>3, <2>1, <3>1, FlightSteady
  <2>3. CASE j \in batch
    <3>1. PICK s \in Nat, a \in Nat : s = job[j].sends /\ a = f.attempt
      BY <1>t, JobFields, FlightFields DEF TypeOK
    <3>2. f.kind = "send" => a <= s
      BY <1>2, <2>1, <2>3, <3>1, Statuses DEF AddressInv, FlightSound
    <3>3. ~ Fenced(f)'
      BY <1>2, <2>1, <2>3, <3>1, <3>2 DEF Fenced
    <3> QED
      BY <1>s, <1>3, <2>1, <3>3, FlightSteady
  <2> QED
    BY <2>2, <2>3
<1>5. ASSUME NEW j \in batch, NEW f \in flights', f = Claim(j, "send") PROVE FlightSound(f)'
  <2>1. /\ job[j].status # "absent" /\ j \in Jobs /\ j[1] \in Notifications
        /\ j[2] \in TokenIds /\ j = <<j[1], j[2]>>
    BY <1>2, Statuses DEF Jobs
  <2>2. note[j[1]] # "none" /\ keyShare[j[1]] = {}
    <3>1. MadeOnce(j[1])
      BY <2>1 DEF AddressInv, PushInv
    <3> QED
      BY <2>1, <3>1 DEF MadeOnce
  <2>3. PICK s \in Nat : s = job[j].sends
    BY <1>t, <2>1, JobFields
  <2>4. /\ f.job = j /\ f.kind = "send" /\ f.attempt = 1 + s
        /\ f.tokenId = job[j].tokenId /\ f.to = job[j].snapshot
    BY <1>t, <1>5, <2>1, <2>3, ClaimFacts
  <2>5. f.attempt <= job'[j].sends
    BY <1>2, <2>3, <2>4
  <2> QED
    BY <1>s, <1>2, <2>2, <2>4, <2>5 DEF FlightSound
<1>6. \A f \in flights' : FlightSound(f)'
  BY <1>4, <1>5 DEF claimSendBatch
<1>7. \A j \in Jobs : TicketCurrent(j)'
  BY <1>1, <1>2, Statuses DEF TicketCurrent, AddressInv
<1>8. \A j \in Jobs : Noticed(j)
  BY <1>1, <1>2 DEF Noticed
<1> QED
  BY <1>s, <1>p, <1>3, <1>6, <1>7, <1>8, WorkerAddress

LEMMA ClaimReceiptAddress ==
  ASSUME AddressInv, NEW batch \in SUBSET Jobs, claimReceiptBatch(batch)
  PROVE  AddressInv'
<1>t. TypeOK /\ \A j \in Jobs : job[j] \in JobType
  BY DEF AddressInv, PushInv, TypeOK
<1>s. UNCHANGED <<token, note, keyShare, rotating, dropping, leaving, faults, crossed>>
  BY DEF claimReceiptBatch
<1>p. PushInv'
  BY ClaimReceiptKeeps DEF AddressInv
<1>1. \A j \in Jobs : j \notin batch => job'[j] = job[j]
  BY DEF claimReceiptBatch
<1>2. ASSUME NEW j \in batch
      PROVE  /\ job[j].status \in Receipt /\ job'[j].status = "receipt_checking"
             /\ job'[j].tokenId = job[j].tokenId /\ job'[j].snapshot = job[j].snapshot
             /\ job'[j].receipts = job[j].receipts + 1 /\ job'[j].sends = job[j].sends
             /\ job'[j].ticket = job[j].ticket
  BY <1>t, CheckingFacts DEF claimReceiptBatch, receiptDue
<1>3. \A j \in Jobs : Steady(j)
  <2>1. ASSUME NEW j \in batch PROVE Steady(j)
    BY <1>2, Statuses DEF Steady, Open
  <2> QED
    BY <1>1, <2>1 DEF Steady, Open
<1>4. ASSUME NEW f \in flights PROVE FlightSound(f)'
  <2>1. PICK j \in Jobs : j = f.job
    BY <1>t, FlightFields DEF TypeOK
  <2>2. CASE j \notin batch
    <3>1. Fenced(f)' => Fenced(f)
      BY <1>1, <2>1, <2>2 DEF Fenced
    <3> QED
      BY <1>s, <1>3, <2>1, <3>1, FlightSteady
  <2>3. CASE j \in batch
    <3>1. PICK s \in Nat, a \in Nat : s = job[j].receipts /\ a = f.attempt
      BY <1>t, JobFields, FlightFields DEF TypeOK
    <3>2. f.kind # "send" => a <= s
      BY <1>2, <2>1, <2>3, <3>1, Statuses DEF AddressInv, FlightSound
    <3>3. ~ Fenced(f)'
      BY <1>2, <2>1, <2>3, <3>1, <3>2 DEF Fenced
    <3> QED
      BY <1>s, <1>3, <2>1, <3>3, FlightSteady
  <2> QED
    BY <2>2, <2>3
<1>5. ASSUME NEW j \in batch, NEW f \in flights', f = Claim(j, "receipt") PROVE FlightSound(f)'
  <2>1. /\ job[j].status # "absent" /\ j \in Jobs /\ j[1] \in Notifications
        /\ j[2] \in TokenIds /\ j = <<j[1], j[2]>>
    BY <1>2, Statuses DEF Jobs
  <2>2. note[j[1]] # "none" /\ keyShare[j[1]] = {}
    <3>1. MadeOnce(j[1])
      BY <2>1 DEF AddressInv, PushInv
    <3> QED
      BY <2>1, <3>1 DEF MadeOnce
  <2>3. PICK s \in Nat : s = job[j].receipts
    BY <1>t, <2>1, JobFields
  <2>4. /\ f.job = j /\ f.kind = "receipt" /\ f.attempt = 1 + s
        /\ f.tokenId = job[j].tokenId /\ f.to = job[j].snapshot
    BY <1>t, <1>2, <1>5, <2>1, <2>3, ClaimFacts DEF AddressInv, TicketCurrent
  <2>5. f.attempt <= job'[j].receipts
    BY <1>2, <2>3, <2>4
  <2> QED
    BY <1>s, <1>2, <2>2, <2>4, <2>5 DEF FlightSound
<1>6. \A f \in flights' : FlightSound(f)'
  BY <1>4, <1>5 DEF claimReceiptBatch
<1>7. \A j \in Jobs : TicketCurrent(j)'
  BY <1>1, <1>2, Statuses DEF TicketCurrent, AddressInv
<1>8. \A j \in Jobs : Noticed(j)
  BY <1>1, <1>2 DEF Noticed
<1> QED
  BY <1>s, <1>p, <1>3, <1>6, <1>7, <1>8, WorkerAddress

LEMMA ElapseAddress ==
  ASSUME AddressInv, NEW j \in Jobs, Elapse(j)
  PROVE  AddressInv'
<1>t. TypeOK /\ \A i \in Jobs : job[i] \in JobType
  BY DEF AddressInv, PushInv, TypeOK
<1>s. UNCHANGED <<token, note, keyShare, rotating, dropping, leaving, flights, crossed>>
  BY DEF Elapse
<1>p. PushInv'
  BY ElapseKeeps DEF AddressInv
<1>1. \A i \in Jobs :
        /\ job'[i].status = job[i].status /\ job'[i].tokenId = job[i].tokenId
        /\ job'[i].snapshot = job[i].snapshot /\ job'[i].ticket = job[i].ticket
        /\ job'[i].sends = job[i].sends /\ job'[i].receipts = job[i].receipts
  BY <1>t, DueFacts DEF Elapse, TypeOK
<1>2. \A i \in Jobs : Steady(i) /\ Noticed(i) /\ TicketCurrent(i)'
  BY <1>1 DEF Steady, Noticed, Open, TicketCurrent, AddressInv
<1>3. ASSUME NEW f \in flights PROVE FlightSound(f)'
  <2>1. f.job \in Jobs
    BY <1>t, FlightFields DEF TypeOK
  <2>2. Fenced(f)' => Fenced(f)
    BY <1>1, <2>1 DEF Fenced
  <2> QED
    BY <1>s, <1>2, <2>1, <2>2, FlightSteady
<1> QED
  BY <1>s, <1>p, <1>2, <1>3, WorkerAddress

\* Expo's answer, or the loss of a claim, changes no row.
LEMMA AnswerAddress ==
  ASSUME AddressInv, NEW f \in flights,
         (\E a \in Answers : ExpoAnswers(f, a)) \/ WorkerCrash(f)
  PROVE  AddressInv'
<1>t. TypeOK /\ f \in FlightType
  BY DEF AddressInv, PushInv, TypeOK
<1>s. UNCHANGED <<token, job, note, keyShare, rotating, dropping, leaving, crossed>>
  BY DEF ExpoAnswers, WorkerCrash
<1>p. PushInv'
  BY AnswerKeeps, CrashKeeps DEF AddressInv
<1>1. \A j \in Jobs : Steady(j) /\ Noticed(j) /\ TicketCurrent(j)'
  BY <1>s DEF Steady, Noticed, Open, TicketCurrent, AddressInv
<1>2. ASSUME NEW g \in flights PROVE FlightSound(g)'
  BY <1>s DEF AddressInv, FlightSound, Fenced
<1>3. ASSUME NEW a \in Answers, NEW g, g = Answered(f, a) PROVE FlightSound(g)'
  <2>1. /\ g.job = f.job /\ g.kind = f.kind /\ g.attempt = f.attempt
        /\ g.tokenId = f.tokenId /\ g.to = f.to
    BY <1>t, <1>3 DEF Answered, FlightType
  <2> QED
    BY <1>2, <2>1 DEF FlightSound, Fenced
<1>4. \A g \in flights' : g \in flights \/ \E a \in Answers : g = Answered(f, a)
  BY DEF ExpoAnswers, WorkerCrash
<1> QED
  BY <1>s, <1>p, <1>1, <1>2, <1>3, <1>4, WorkerAddress

\* The job whose answer is applied is in no worker's hands afterwards, and a
\* ticket it got is for its own address.
LEMMA ResultAddress ==
  ASSUME AddressInv, NEW f \in flights, Fenced(f), job'[f.job] = Result(job[f.job], f)
  PROVE  /\ Steady(f.job) /\ TicketCurrent(f.job)'
         /\ job'[f.job].status \notin {"sending", "receipt_checking"}
         /\ f.answer = "unregistered" => ~ Open(f.job)'
<1>t. TypeOK /\ f \in FlightType
  BY DEF AddressInv, PushInv, TypeOK
<1>j. PICK j \in Jobs : j = f.job
  BY <1>t, FlightFields
<1>r. PICK r \in JobType : r = job[j]
  BY <1>t DEF TypeOK
<1>o. PICK o \in JobType : o = Result(r, f) /\ o = job'[j]
  BY <1>t, <1>j, <1>r, ResultFacts
<1>1. /\ o.tokenId = r.tokenId /\ o.snapshot = r.snapshot
      /\ o.sends = r.sends /\ o.receipts = r.receipts
      /\ f.answer = "unregistered" => o.status = "failed_permanent"
  <2>1. /\ Result(r, f).tokenId = r.tokenId /\ Result(r, f).snapshot = r.snapshot
        /\ Result(r, f).sends = r.sends /\ Result(r, f).receipts = r.receipts
        /\ f.answer = "unregistered" => Result(r, f).status = "failed_permanent"
    BY <1>t, ResultFacts
  <2> QED
    BY <1>o, <2>1
<1>2. f.to = r.snapshot /\ TicketCurrent(j)
  BY <1>j, <1>r DEF AddressInv, FlightSound
<1>3. r.status \in {"sending", "receipt_checking"}
  BY <1>j, <1>r DEF Fenced
<1>4. /\ o.status \in {"receipt_pending", "queued"} \cup FinalStatuses
      /\ o.status = "receipt_pending" => o.ticket = o.snapshot
  <2>1. CASE f.kind = "send"
    <3>1. \/ Result(r, f).status = "receipt_pending" /\ Result(r, f).ticket = f.to
          \/ Result(r, f).status = "queued"
          \/ Result(r, f).status \in FinalStatuses
      BY <1>t, <2>1, ResultFacts
    <3> QED
      BY <1>o, <1>1, <1>2, <3>1, Statuses
  <2>2. CASE f.kind = "receipt"
    <3>1. /\ Result(r, f).ticket = r.ticket
          /\ Result(r, f).status = "receipt_pending" \/ Result(r, f).status \in FinalStatuses
      BY <1>t, <2>2, ResultFacts
    <3>2. r.status = "receipt_checking"
      BY <1>j, <1>r, <2>2 DEF Fenced
    <3>3. r.ticket = r.snapshot
      BY <1>r, <1>2, <3>2, Statuses DEF TicketCurrent
    <3> QED
      BY <1>o, <1>1, <3>1, <3>3
  <2> QED
    BY <1>t, <2>1, <2>2, FlightFields
<1>5. o.status # "absent" /\ o.status \notin {"sending", "receipt_checking"}
  BY <1>4, Statuses
<1>6. Steady(j)
  BY <1>r, <1>o, <1>1, <1>3, <1>5, Statuses DEF Steady, Open
<1>7. TicketCurrent(j)'
  BY <1>o, <1>4, <1>5, Statuses DEF TicketCurrent
<1> QED
  BY <1>j, <1>o, <1>1, <1>5, <1>6, <1>7, Statuses DEF Open

LEMMA ApplyAddress ==
  ASSUME AddressInv, NEW f \in flights, applyResult(f)
  PROVE  AddressInv'
<1>t. TypeOK /\ f \in FlightType
  BY DEF AddressInv, PushInv, TypeOK
<1>s. /\ UNCHANGED <<token, note, keyShare, rotating, dropping, leaving, faults>>
      /\ flights' = flights \ {f} /\ crossed \subseteq crossed'
  BY DEF applyResult
<1>p. PushInv'
  BY ApplyKeeps DEF AddressInv
<1>j. PICK j \in Jobs : j = f.job
  BY <1>t, FlightFields
<1>1. ASSUME NEW i \in Jobs, job'[i] = job[i] PROVE Steady(i) /\ TicketCurrent(i)'
  BY <1>1 DEF Steady, Open, TicketCurrent, AddressInv
<1>2. \A i \in Jobs : job'[i] = job[i] \/ (i = j /\ Fenced(f) /\ job'[i] = Result(job[i], f))
  BY <1>t, <1>j DEF applyResult, TypeOK
<1>3. \A i \in Jobs : Steady(i) /\ TicketCurrent(i)'
  BY <1>j, <1>1, <1>2, ResultAddress
<1>5. ASSUME NEW i \in Jobs PROVE Noticed(i)
  <2>1. CASE job'[i] = job[i]
    BY <2>1 DEF Noticed
  <2>2. CASE i = j /\ Fenced(f) /\ job'[i] = Result(job[i], f)
    <3>1. SlipsThrough(f) => i \in crossed'
      BY <1>j, <2>2 DEF applyResult
    <3>2. \/ SlipsThrough(f) \/ job'[i].status # "queued"
          \/ job[i].tokenId \notin TokenIds \/ rotating[job[i].tokenId] = None
      BY <1>j, <2>2, Constants DEF SlipsThrough
    <3> QED
      BY <3>1, <3>2 DEF Noticed
  <2> QED
    BY <1>2, <2>1, <2>2
<1>4. ASSUME NEW g \in flights PROVE FlightSound(g)'
  <2>1. PICK i \in Jobs : i = g.job
    BY <1>t, FlightFields DEF TypeOK
  <2>2. Fenced(g)' => Fenced(g)
    <3>1. CASE job'[i] = job[i]
      BY <2>1, <3>1 DEF Fenced
    <3>2. CASE i = j /\ Fenced(f) /\ job'[i] = Result(job[i], f)
      <4>1. job'[i].status \notin {"sending", "receipt_checking"}
        BY <1>j, <3>2, ResultAddress
      <4> QED
        BY <2>1, <4>1 DEF Fenced
    <3> QED
      BY <1>2, <3>1, <3>2
  <2> QED
    BY <1>s, <1>3, <2>1, <2>2, FlightSteady
<1> QED
  BY <1>s, <1>p, <1>3, <1>4, <1>5, WorkerAddress

LEMMA InvalidateAddress ==
  ASSUME AddressInv, NEW f \in flights, invalidatePushToken(f)
  PROVE  AddressInv'
<1>t. TypeOK /\ f \in FlightType
  BY DEF AddressInv, PushInv, TypeOK
<1>s. /\ UNCHANGED <<token, note, keyShare, rotating, leaving, faults, crossed>>
      /\ flights' = flights \ {f} /\ Fenced(f) /\ f.answer = "unregistered"
  BY DEF invalidatePushToken, Invalidates
<1>p. PushInv'
  BY InvalidateKeeps DEF AddressInv
<1>j. PICK j \in Jobs : j = f.job
  BY <1>t, FlightFields
<1>k. PICK id \in TokenIds : id = f.tokenId
  BY <1>t, FlightFields DEF invalidatePushToken, Invalidates
<1>1. job'[j] = Result(job[j], f)
  BY <1>j DEF invalidatePushToken
<1>2. /\ Steady(j) /\ TicketCurrent(j)' /\ ~ Open(j)'
      /\ job'[j].status \notin {"sending", "receipt_checking"}
  BY <1>s, <1>j, <1>1, ResultAddress
<1>3. ASSUME NEW i \in Jobs, i # j
      PROVE  /\ Steady(i) /\ TicketCurrent(i)'
             /\ job'[i] = job[i] \/ job'[i].status = "cancelled"
             /\ Noticed(i)
             /\ Open(i)' => job'[i].tokenId # id
  <2>0. job[i] \in JobType /\ TicketCurrent(i)
    BY <1>t DEF TypeOK, AddressInv
  <2>1. CASE i \in OpenJobsOf({f.tokenId})
    <3>1. job[i].status \in OpenStatuses /\ job'[i] = Cancelled(job[i])
      BY <1>j, <1>3, <2>1 DEF invalidatePushToken, OpenJobsOf
    <3>2. /\ job'[i].status = "cancelled" /\ job'[i].tokenId = job[i].tokenId
          /\ job'[i].snapshot = job[i].snapshot /\ job'[i].sends = job[i].sends
          /\ job'[i].receipts = job[i].receipts
      BY <2>0, <3>1, CancelledFacts
    <3>3. Steady(i)
      BY <3>1, <3>2, Statuses DEF Steady, Open
    <3> QED
      BY <3>2, <3>3, Statuses DEF TicketCurrent, Open, Noticed
  <2>2. CASE i \notin OpenJobsOf({f.tokenId})
    <3>1. job'[i] = job[i]
      BY <1>j, <1>3, <2>2 DEF invalidatePushToken
    <3> QED
      BY <1>k, <2>0, <2>2, <3>1 DEF Steady, Noticed, Open, TicketCurrent, OpenJobsOf
  <2> QED
    BY <2>1, <2>2
<1>4. ASSUME NEW i \in Jobs, Open(i)', job[i].tokenId \in TokenIds
      PROVE  dropping'[job[i].tokenId] = dropping[job[i].tokenId]
  <2>1. i # j /\ job[i].tokenId # id
    BY <1>2, <1>3, <1>4 DEF Steady
  <2> QED
    BY <1>t, <1>k, <1>4, <2>1 DEF invalidatePushToken, TypeOK
<1>6. Noticed(j)
  BY <1>2, Statuses DEF Noticed, Open
<1>5. ASSUME NEW g \in flights PROVE FlightSound(g)'
  <2>1. PICK i \in Jobs : i = g.job
    BY <1>t, FlightFields DEF TypeOK
  <2>2. job'[i] = job[i] \/ job'[i].status \notin {"sending", "receipt_checking"}
    BY <1>2, <1>3
  <2>3. Fenced(g)' => Fenced(g)
    BY <2>1, <2>2 DEF Fenced
  <2> QED
    BY <1>s, <1>2, <1>3, <2>1, <2>3, FlightSteady
<1> QED
  BY <1>s, <1>p, <1>2, <1>3, <1>4, <1>5, <1>6, WorkerAddress

LEMMA AddressInit ==
  ASSUME Init PROVE AddressInv
<1>1. PushInv
  BY PushInit
<1>2. \A j \in Jobs : job[j].status = "absent"
  BY NoJobType DEF Init
<1> QED
  BY <1>1, <1>2, Statuses DEF Init, AddressInv, SharesOwned, OnCourse, Open, TicketCurrent

LEMMA AddressStep ==
  ASSUME AddressInv, [Next]_vars PROVE AddressInv'
<1>1. CASE UNCHANGED vars
  <2>1. /\ UNCHANGED <<token, job, note, keyShare, rotating, dropping, leaving>>
        /\ UNCHANGED <<flights, faults, crossed>>
    BY <1>1 DEF vars
  <2>2. PushInv'
    BY PushStep DEF AddressInv
  <2>3. SharesOwned'
    BY <2>1, SharesSame
  <2> QED
    BY <2>1, <2>2, <2>3, AddressSame, ClientAddress
<1>2. CASE Finish
  BY <1>2, EnqueueAddress, RotateInFlightAddress, DeleteInvalidAddress, DeleteUserAddress
     DEF Finish
<1>3. CASE ClientStep
  BY <1>3, NotifyAddress, RegisterAddress, RotateQueuedAddress, UnregisterAddress,
     ScheduleAddress, AnonymizeAddress DEF ClientStep
<1>4. CASE WorkerStep
  BY <1>4, ElapseAddress, ClaimSendAddress, ClaimReceiptAddress, AnswerAddress, ApplyAddress,
     InvalidateAddress DEF WorkerStep
<1> QED
  BY <1>1, <1>2, <1>3, <1>4 DEF Next

LEMMA AddressAlways == Spec => []AddressInv
<1>1. AddressInv /\ [Next]_vars => AddressInv'
  BY AddressStep
<1> QED
  BY <1>1, AddressInit, PTL DEF Spec

\* Whatever commits between two statements of one transaction, an open job is
\* on no token row but its recipient's, and one that has not slipped through
\* a gap is addressed to the token that row holds (registerPushToken,
\* scheduleDeletion, invalidatePushToken, createWithPushOutbox).
THEOREM JobsReachRecipient == Spec => []JobsAddressed
<1>1. AddressInv => JobsAddressed
  <2> SUFFICES ASSUME AddressInv, NEW j \in Jobs, Open(j)
               PROVE  LET id == job[j].tokenId
                      IN  /\ id # None => Live(id) /\ token[id].user = Recipient[j[1]]
                          /\ j \notin crossed =>
                               /\ id # None
                               /\ rotating[id] # None \/ job[j].snapshot = token[id].value
    BY DEF JobsAddressed
  <2>1. OnCourse(j) /\ job[j].tokenId \in TokenIds \cup {None}
    BY TokenOf DEF AddressInv, PushInv
  <2> QED
    BY <2>1, Constants DEF OnCourse
<1> QED
  BY <1>1, AddressAlways, PTL

\* An answer that makes a worker delete a token row is about the token that
\* the row holds, unless its job slipped through a gap (invalidatePushToken).
THEOREM OnlyRefusedTokensDropped == Spec => []RefusedTokenCurrent
<1>1. AddressInv => RefusedTokenCurrent
  <2> SUFFICES ASSUME AddressInv, NEW f \in flights, Fenced(f), f.tokenId # None,
                      f.job \notin crossed
               PROVE  \/ ~ Live(f.tokenId) \/ rotating[f.tokenId] # None
                      \/ token[f.tokenId].value = f.to
    BY DEF RefusedTokenCurrent
  <2>1. PICK j \in Jobs : j = f.job
    BY FlightFields DEF AddressInv, PushInv, TypeOK
  <2>2. f.tokenId = job[j].tokenId /\ f.to = job[j].snapshot
    BY <2>1 DEF AddressInv, FlightSound
  <2>3. Open(j)
    BY <2>1, Statuses DEF Fenced, Open
  <2>4. OnCourse(j)
    BY DEF AddressInv
  <2> QED
    BY <2>1, <2>2, <2>3, <2>4 DEF OnCourse
<1> QED
  BY <1>1, AddressAlways, PTL
=============================================================================
