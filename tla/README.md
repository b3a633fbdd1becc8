# TLA+ specifications of the ChatTea back end

ChatTea's back end is a NestJS API over PostgreSQL, with a maintenance worker in a
process of its own and four outside services: Cloudflare R2 (photos), Expo (push),
RevenueCat (purchases) and an SMS provider. Nearly all state is in PostgreSQL; what is
hard is what happens between two statements: concurrent requests, workers whose lease
ran out, webhooks out of order, objects in R2 that no transaction covers.

Run a model from this directory with `tlc -config MCUploadSafety.cfg MCProfileUpload`,
check a proof with `tlapm ProfileUploadProofs.tla` (the longest takes some minutes). `PROJECT.json` lists the runs, the
mutants that show each property can fail, the source lines of every definition and the
hazards.

## Inventory

| Component | State | Operations | What is hard | What makes it correct |
|---|---|---|---|---|
| Profile uploads (`modules/upload`) | `profile_uploads`, staging and final objects in R2 | createUpload, presigned PUT, finalizeUpload, cleanupExpiredStagingBatch | two stores without a common transaction; leases that lapse under a running finalizer; crashes; failed deletions | a verified row's object exists; every object is named by a row; everything settles and is reclaimed |
| Push (`modules/notification`) | `notifications`, `push_tokens`, `push_outbox` | notify, register/unregister token, send and receipt batches | statements of one transaction separated by other commits; overtaken workers; devices changing hands | jobs go to the owner's current token; no resend once the ticket is stored; bounded attempts; every job ends |
| Billing (`modules/billing`) | `billing_events`, `user_subscriptions`, transactions, ledger, balances | handleRevenueCatWebhook | duplicates, reordering, refunds before purchases, refunds of spent credits | state of the newest event; balance = grants - spending; the ledger explains the balance |
| Matching (`modules/matching`) | `user_likes`, `match_actions`, `matches`, `user_boosts` | actOnCandidate, undoLastAction, activateBoost | reciprocal likes at the same time, undo races, limits read before locks | matches = mutual likes; limits hold; each credit used and returned once |
| Phone codes (`modules/phone`) | `phoneVerification`, `phoneVerificationToken` | requestPhoneCode, verifyPhoneCode, resetPasswordWithPhone | quotas under concurrency, SMS failure, submissions against several generations of a code | hourly limits; one acceptance, of the newest code |
| Sessions (`modules/auth`, `strategys`) | `refreshToken`, `users` | sign-up, issueTokens, refresh, logout | values validated before an await and used after it | one successor per token; a reset ends the sessions before it |
| Kakao (`modules/auth`) | `authIdentity`, `kakaoPhoneVerificationToken`, phone tokens | loginWithKakao, loginWithKakaoAccessToken, completeKakaoPhoneSignup | racing sign-ups, two tokens spent together, accounts that leave meanwhile | one living account per Kakao user; a token is spent only by what it completed |
| Account deletion (`modules/user`) | `users.deletionScheduledAt`, lease, attempts | beginAccountDeletion, restore, claim, anonymize, release | touches every other component; lease taken over; restore racing the worker | active, leaving or gone; never gone before the deadline, never back after it; every leaving account goes |
| Chat (`modules/chat`) | `rooms`, `messages`, `read_receipts`, blocks | send, edit, delete, read, page | idempotency keys, first-message rule, commit order against `createdAt`, racing read marks | one message per key; receipts move forward; no message skipped |
| Community (`modules/community`) | posts, comments, reports | create, report | idempotent inserts | one row per key |
| Maintenance (`maintenance`) | an advisory lock, a heartbeat file | runCycle | a job failing among others, overlap after a lost connection | a failing job stops no other; the lock is never left behind |
| Migrations (`scripts/migrate.ts`) | `_migrations`, index markers | runMigrations | several deployments at once, crash between a concurrent index build and its record | a record means the file took effect once; an index whose build failed is dropped and built again |

The components meet in three places. Billing fills the balances that Matching spends and
the subscription that sets its limits (`CreditSystem`). The account is shared by all:
deleting it reaches into uploads, push jobs, credits, matches and identities, and is an
action of each of those modules; when it may happen is `AccountDeletion`'s. Notifications are written by the others through the outbox.

## Modules

| Module | Models |
|---|---|
| `ProfileUpload` | the upload pipeline, end to end |
| `UploadLifecycle` | what that pipeline promises: the abstract specification it implements |
| `PushOutbox` | tokens, outbox, workers, Expo |
| `Accounts` | accounts and credit balances shared by the next three |
| `Billing` | webhooks, subscriptions, transactions, ledger |
| `Matching` | likes, undo, matches, boosts, blocks |
| `CreditSystem` | `Billing` and `Matching` (both extended) composed over the `Accounts` they share |
| `PhoneAuth` | phone codes, sign-up, sessions, password reset |
| `KakaoAuth` | Kakao sign-in and sign-up, identities, one-time tokens |
| `AccountDeletion` | scheduling, restoring and carrying out deletions; the maintenance cycle and its lock |
| `AccountLifecycle` | what leaving means to a member: the abstract specification `AccountDeletion` implements |
| `Chat` | one room: sending, editing, deleting, paging, read receipts |
| `Migrate` | the migration runners of concurrent deployments |
| `MC*` | values of the constants for TLC, and symmetry sets |
| `ProfileUploadProofs`, `PushOutboxProofs`, `PhoneAuthProofs`, `KakaoAuthProofs`, `AccountDeletionProofs`, `ChatProofs`, `MigrateProofs` | the proofs about the module they are named after |
| `CreditSystemProofs` | the proofs about `Matching`, `Billing` and `CreditSystem`, whose invariants build on one another |

**Common conventions.** An action is one statement, one transaction that other transactions
cannot interrupt, or one call of an outside service: the places where the code awaits.
A request is a record that holds what the code holds in local variables, so that a value
read before an await is as old in the model as in the program. A handler that
refuses its input changes nothing and needs no action. Definitions have the names of the
functions they model. A few definitions that sit directly before another are its mutated
forms (`CanVerifyUnfenced` before `CanVerify`); the specifications never use them.

**ProfileUpload.** `row` is `profile_uploads`, `staging` and `finals` are the objects in R2
(a final key is the upload's id and the hash of the normalised image, so content stands for
the hash), `fin` the finalizeUpload requests and `jobs` the jobs of cleanup batches. `clock`
is the wall clock; every request captures `now` once and uses it in all its statements, up
to `MaxLag` later. Image decoding is the distinction between `Images` and `Garbage`. A crash
of a finalizer, the loss of a job and failing deletions are actions. A PUT of the final object
may last as long as it likes, and a client may use its presigned URL until it expires. Two
histories tell what that leaves behind: `late`, the final objects whose last PUT ended after
its lease, and `restaged`, the staging objects put after their row had settled. Nothing reads
them but the properties that except those objects.

**PushOutbox.** Deadlines are abstracted to `due`. Transactions at READ COMMITTED are split
where another commit can fall between two of their statements, and the row locks they hold
meanwhile are in the state (`keyShare`, `rotating`, `dropping`, `leaving`). The history
`crossed` holds the jobs that came through such a gap: inserted between the cancellation of a
token's jobs and its DELETE (`Doomed`), or put back in the queue between the two rewrites of a
rotation (`SlipsThrough`). Expo is external: it answers a message with any of its documented
outcomes.

**Accounts, Billing, Matching, CreditSystem.** A webhook is one serialized transaction; `Events` is the
set of payloads that may arrive, in any order and any number of times. `spent` is a history
variable: credits used by kind. actOnCandidate is a request, its locked reads and its
commit; the advisory locks on the actor and on the pair are derived from the requests that
hold them (`LocksFree`). In `CreditSystem` the plan is read from the subscription when a
request starts, before the locks, as in `MatchingService.actOnCandidate`. `MatchingSpec` and
`BillingSpec` are the two components on their own, each with the least of the other that it
needs: purchases of one credit (`buyCredit`), and credits that are used and returned
(`CreditStep`). `Spec` is the composition, in which the real steps take their place.

**PhoneAuth.** `verifications` is `phoneVerification` (ids in order of insertion; deleted
rows stay as "deleted" so that an id is never reused), `request` the requests in flight,
`sessions` the `refreshToken` rows, `issued` the history of refresh tokens handed out, and
`password` counts how often an account's password was set. A reservation holds its advisory
locks from its checks to its commit. bcrypt hashes 72 bytes, which in a refresh JWT end
inside the `userId`, and `bcryptCompare` therefore accepts every unexpired token of the account:
what distinguishes sessions is the saved row, whose hash `rotateRefreshToken` compares again.
The `password` of a session is history: how often the password had been set when a login saved
it, which a refresh carries on to the session's next row.

**KakaoAuth.** `accounts` and `identity` are `users` and `authIdentity`, `kakaoTokens` the
tokens a Kakao sign-in hands out, `phoneTokens` those of `PhoneAuth`. Each flow is a request
suspended at its awaits: the identity is read before the account, the tokens are found before
the transaction that spends them, the phone is compared before it is attached. A transaction
is one action, and a spent token or a unique constraint rolls all of it back (`Refused`). Time
is nondeterministic: tokens expire and leaving accounts are anonymised at any moment.
`opened` records the completions that committed.

**AccountDeletion.** `account` has the four columns deletion is about. Members' requests keep
the time they read before their statement. A runner goes through `asleep`, `locking`,
`claiming`, `settling` (its claimed accounts, side by side), three other jobs and `unlocking`,
with the `now` its cycle began with. A claim passes over accounts that some other
transaction has locked (`FirstDue`). `lock` is the session that holds the advisory lock. A
session may drop while its runner works on, so cycles overlap. The three later jobs succeed or
fail; what they do is in `PushOutbox` and `ProfileUpload`. `AccountLifecycle` is implemented
with `status` computed from `deletedAt` and `deletionScheduledAt`.

**Chat.** `messages` is one room's rows by id; a message's place is `<<createdAt, id>>`, where
`createdAt` is fixed by BEGIN and the id is any free one, so messages commit in any order
relative to their places. `view` is what a client has paged through; `late` collects what
committed inside the range it had already read, which it can learn from events only.
`marking` holds a reader's markRoomRead statements that have chosen their message and not yet
met the receipt row: any number of them, each with its own choice. The program deletes message
rows with their room only; `removeMessage` is an operator doing it by hand, which makes the
`lastReadMessageId` of a receipt NULL, as the code expects it may be. Histories are the text a
message was `sent` with, before any edit, and `announcers`, how many requests came to announce
it.

**Migrate.** A file is its name, its checksum and the index it builds, if any. A transactional
file and its row are one transaction; an index goes through create, build, mark and record,
each a step after which the runner may die. The lock belongs to the session and ends with it.
An operator may create an index, or drop one that no marker claims. The history `leftBy` says
who left a valid index without a marker: an operator, or a runner that died before marking it.

## Runs

| Run | Instance | Shows |
|---|---|---|
| `upload_safety` | one upload, two finalizers, two contents, a legacy photo, one cleanup job at a time, one fault, PUTs of any duration | no CHECK constraint of the table fires, a verified object is stored, profiles show what is served, a final object whose PUT was in time is named by its row, `UploadLifecycle` is implemented |
| `upload_progress` | one upload, one content, one finalizer, two faults, PUTs of any duration, fair worker | every upload settles; of a failed one neither object stays, save what was put too late |
| `push_workers` | two claims in flight, two faults, fair worker | attempts bounded, nothing sent again once its ticket is stored, every job ends |
| `push_tokens` | two accounts, one device, one notification, two token rows and values, two sends and one receipt check, two claims in flight, two faults | no open job points at another account's token; all but those that slipped through a gap are addressed to the value their row holds; a refusal removes only the refused token |
| `billing` | twelve webhooks for four transactions of two accounts, in every order | the newest event of each transaction and account stands; balances, transactions and ledger agree |
| `matching` | two accounts, two requests with clocks up to one instant old, boosts, undo, block, deletion | matches are the mutual likes, announced once; boosts disjoint |
| `credit_system` | three accounts, two requests of one of them, a pack, its refund, a boost, a plan that expires | no credit appears or is lost across components; the daily limit of the plan holds |
| `phone_accounts` | one phone, two addresses, two devices, two requests, two codes | hourly limit of the phone, single acceptance, newest code only; one account per token, one successor per saved refresh token, a reset ends earlier sessions |
| `account_deletion` | one account, two requests, two runners, two faults | `AccountLifecycle` is implemented; every leaving account is forgotten; the last job keeps running |
| `kakao` | two Kakao users, two requests, two Kakao tokens, two phones and tokens, an account that may own one of the phones | one living account per Kakao user; tokens spent with what they complete |
| `chat` | two members, one reading with any number of statements, two requests, three messages, one of them edited, deleted or removed, pages of one | one message and one announcement per key, short first message, no gap in the pages, read stays read |
| `migrate` | three releases (one edits a deployed file), one runner each, two indexes, four faults | records are true; a finished runner's files are all recorded; everyone is migrated in the end, unless one of three named obstacles stands in the way |

**Bounds.** Each run has the smallest sets that let its hazard happen. Two requests or workers suffice for the races, since every
guard relates one actor's read to one other commit; quotas use limits of one or two.
Durations are one to three instants, such that a
lease can lapse inside a request, a code can expire and a window can pass. Bounds are
guards named `Max...`, and the sets `Leavers`, `Actors` and `Readers` (accounts that may be deleted, send
likes, read the room); clocks stop at the horizon. Deadlock is not checked, since at the horizon, or
when ids and events are used up, the system may stop. In `account_deletion` a fault that
leaves a lease behind is only allowed when the lease lapses before the horizon
(`Recoverable`), since nothing can be claimed after the clock has stopped. Two members and a
third message suffice for `chat`: one message to stand on, one on either side of it, and
`MaxChanges` lets one of them be edited or deleted; in a behaviour of that run a reader either pages
or marks the room read (`OneActivity`), since no step and no property looks at both. The four
faults of `migrate` let a build be killed, its recovery fail, and an operator's index appear
and go again.

What the bounds leave out of a run:
- `phone_accounts` has two codes and `IpLimit = 2`, so only the limit of the phone can be
  reached; that of an address is covered by the theorem `QuotasKept`.
- In `matching` a boost is longer than the horizon, so the run shows that no second one is made
  while it lasts, and not two that follow each other; `BoostsApart` covers those.
- In `credit_system` the limit of a like is that of some plan received so far: a plan that
  expired between its reading and the commit does not count as a violation.
- In `kakao` an e-mail is never taken unless the identity is; the refusal is the same.

**Fairness.** Four runs assume some, and all of it is about processes that run for ever or
statements that end.
- `upload_progress`, `push_workers`: the clock advances, the maintenance loop starts a cycle
  every minute for ever (`maintenance.runner.ts`), and a batch that runs ends in a result or is
  lost. Weak fairness for the clock, the claim of each due upload and the steps of a cleanup
  job; for the second half of each transaction that has begun, the passing of a retry delay,
  Expo's answers and their application. Claims of push jobs get strong fairness, because
  `FOR UPDATE SKIP LOCKED` may pass a row over while another transaction holds it, and the
  batch is ordered by due time so that a row is not passed over for ever.
- `account_deletion`: weak fairness for the clock and for the steps of each runner, which
  include the statements that find their session gone. A job may always fail. A claim of an
  account gets strong fairness, because `SKIP LOCKED` (`user.repository.ts:212`) may pass it over
  while a request has its row locked, and no request holds it at every cycle.
- `migrate`: weak fairness for each runner's steps (a failed deployment is started again)
  and strong fairness for its lock, because PostgreSQL queues the waiters of
  `pg_advisory_lock`.

Clients, members and outside failures have none, and failures are bounded: a store that
refuses every deletion would never be cleaned.

**Known gaps.** In these places the code does less than one might expect. The model contains
them all; where a property would otherwise fail, it names the exception, through a history
variable that singles out the object, job or index in question, and is checked for everything else.
- The PUT of the final object has no deadline while its finalize lease has one
  (`upload.service.ts:113`). A PUT that lands after the lease lapsed and cleanup has recorded the
  deletion leaves an object that no row names (`late`, in `FinalObjectTracked` and
  `EventuallyReclaimed`).
- A presigned URL stays valid after its row has settled (`r2-object-store.ts:21`). A client that
  uses it again puts back a staging object which the row says is deleted, and nothing
  removes it (`restaged`, in `EventuallyReclaimed`).
- `registerPushToken` moves the queued jobs to a rotated token and cancels those in flight in two
  statements (`notification.repository.ts:119`, `:123`). Under READ COMMITTED a worker's retry that
  commits between them is neither moved nor cancelled and keeps the old token; when Expo refuses
  that one, `invalidatePushToken` deletes the row that holds the new one (`crossed`, in
  `JobsAddressed` and `RefusedTokenCurrent`). `test/notification-postgres.e2e-spec.ts:126` ("moves
  queued jobs to a rotated token for the same installation") has the two one after the other.
- `invalidatePushToken` cancels a token's jobs and then deletes the token without locking its row
  first (`notification.repository.ts:275`, `:285`), and the deletion of an account does the same
  (`user.repository.ts:178`). A job committed between the two loses its token row, stays open, and is
  still sent to the value it was made with (`crossed`, in `JobsAddressed`).
- A worker that dies after Expo accepted a message and before the ticket is stored leaves a job
  that is sent again (`notification.service.ts:91`): delivery is at least once. `NeverResent` speaks of
  stored tickets, `AttemptBudget` bounds the repetitions.
- `saveRefreshToken` checks nothing (`auth.repository.ts:65`), so a login whose code was accepted
  before a password reset may save its session after it and keep it (`phone.repository.ts:179`).
  `ResetEndsSessions` is about sessions saved before the reset; refresh is fenced against the same
  race.
- The first-message limit holds for sending only: an edit can make the first message long
  (`chat.service.ts:116`), which `FirstMessageShort` states.
- A runner killed between CREATE INDEX CONCURRENTLY and its marker leaves a valid index
  without one (`migrate.ts:142`, `:145`). Every later run takes it for a stranger's and throws
  (`migrate.ts:72`) until an operator drops it (`LeftOver`, in `EventuallyMigrated`).

Behaviours that no run condemns, but that a reader of the code should know:
- a webhook that lost a timestamp conflict is refused, and redelivered, for ever; the
  expiration of an old plan, when it is stamped later than the purchase of a new one, ends the
  new one, as there is one row per account;
- a session's stored hash does not tell refresh tokens of an account apart (see above);
- `completeKakaoPhoneSignup` compares the account's phone before the transaction that
  attaches the new one (`auth.service.ts:167`, `auth.repository.ts:246`): two completions with
  different phones both pass and the later one wins, and one that commits after the account
  was anonymised leaves the phone with an account that is gone, which every later login by that phone finds;
- a login that finds the account just before it is anonymised still saves a session row;
  the access token strategy refuses it, as it checks `deletedAt` on every call. A login by phone
  code does not restore a leaving account, only Kakao's does (`phone.service.ts:106`);
- a chat message whose process dies between the commit and the announcement is never
  announced or notified, and a retry with its key does not repeat either (`chat.service.ts:97`);
- a message that commits behind a client's cursor or receipt reaches it by its event only, and
  counts as read; this is what `late` in `NoGapInHistory` excepts.

## Proofs

Ten modules are proved about, in eight proof modules, for every set of accounts,
requests, workers, files and so on, and for every duration and bound that the named
assumptions of the module allow. The statement of each theorem is the property of the same
row that a run checks; `Spec => []P` for an invariant, `Spec => P` for the others.
In `CreditSystemProofs` the first five are about `MatchingSpec`, the next three about
`BillingSpec` and the last four about `Spec`, the composition.

| Module | Theorem | Property | Under |
|---|---|---|---|
| `ProfileUploadProofs` | `TypeCorrect` | `TypeOK` | |
| | `ChecksNeverFire` | `DatabaseChecks` | |
| | `VerifiedStored` | `VerifiedObjectStored` | |
| | `ProfilesServed` | `PhotosServed` | |
| | `LifecycleRefined` | `ImplementsLifecycle` (refinement) | |
| | `FinalObjectsTracked` | `FinalObjectTracked` | `FinalizeLease <= Grace` |
| `PushOutboxProofs` | `PushTypes` | `TypeOK` | |
| | `AttemptsBounded` | `AttemptBudget` | |
| | `OutcomesFinal` | `NeverResent` (action property) | |
| | `JobsReachRecipient` | `JobsAddressed` | |
| | `OnlyRefusedTokensDropped` | `RefusedTokenCurrent` | |
| `CreditSystemProofs` | `MatchingTypes` | `MatchingTypeOK`, of `MatchingSpec` | |
| | `MatchesAreMutual` | `MutualLikesMatched` | |
| | `AnnouncedOnce` | `MatchAnnouncedOnce` | |
| | `LikesBackedByActions` | `LikesFollowActions` | |
| | `BoostsApart` | `BoostsDisjoint` | |
| | `NewestWins` | `NewestEventWins`, of `BillingSpec` | |
| | `BalanceIsConserved` | `BalanceConserved` | |
| | `LedgerIsComplete` | `LedgerExplains` | |
| | `SystemImplementsBilling` | `BillingSpec`, of the composition (refinement) | |
| | `SystemMatches` | the four properties of matching, of the composition | |
| | `CreditsReconcile` | `CreditsReconciled` | |
| | `PlansAreHonoured` | `PlanHonoured` | |
| `PhoneAuthProofs` | `PhoneTypes` | `TypeOK` | |
| | `QuotasKept` | `RequestQuota` | |
| | `AcceptedOnce` | `CodeAcceptedOnce` | |
| | `NewestAcceptedOnly` | `NewestCodeOnly` (action property) | |
| | `OneTokenOneAccount` | `TokenMakesAccount` | |
| | `ExchangedOnce` | `RotatedOnce` | |
| | `NoSessionSurvivesReset` | `ResetEndsSessions` | |
| `KakaoAuthProofs` | `KakaoTypes` | `TypeOK` | |
| | `OneAccountPerIdentity` | `IdentityNamesOneAccount` | |
| | `SpentTogether` | `TokensSpentTogether` | |
| `AccountDeletionProofs` | `DeletionTypes` | `TypeOK` | |
| | `LifecycleKept` | `ImplementsAccountLifecycle` (refinement) | |
| `ChatProofs` | `ChatTypes` | `TypeOK` | |
| | `KeysSentOnce` | `KeySentOnce` | |
| | `OpenedShort` | `FirstMessageShort` | |
| | `HistoryHasNoGap` | `NoGapInHistory` | |
| | `ReadForGood` | `ReadStaysRead` (action property) | |
| `MigrateProofs` | `MigrateTypes` | `TypeOK` | |
| | `RowsTruthful` | `RecordedMeansApplied` | |
| | `ServersMigrated` | `DoneMeansMigrated` | |

**Assumptions.** The constants have the types the code gives them (`ConstantsOK`, `TimesOK`,
`MigrateConstants`, `KakaoConstants`, `ChatConstants`, `PushConstants`, ...): durations, limits
and page sizes are positive, and `None` (SQL's null) is none of the values a column can hold
(`BillingConstants` says so of the rows and payloads). `SystemConstants` says that the limits
a request may carry are those of the plans.
TLC evaluates them on every run. The condition in the last column is not an assumption of the
module but a hypothesis of that theorem: `FinalizeLease <= Grace` compares two minutes with
fourteen days.

**How the proofs go.** Each module has an inductive invariant, which TLC has also checked on the
instance of the module's run. It contains what a step relies on that an earlier step of the
same actor found out, since that is what makes the properties themselves not inductive.

- `SafetyInv` (uploads). A finalizer verifies a row long after its PUT: it must know that
  the object is still there, unless the row has failed since (`WrittenBeforeVerify`). A
  cleanup job deletes an object long after it was claimed: the row it was claimed for must have
  failed for good (`JobsOnFailedRows`). `VerifiedSettled` says that a verified row has no deletion
  pending; `PhotosVerified` and `DeletedAccountsEmpty` carry the same to profiles and to
  anonymised accounts.
- `TrackInv` (uploads, for `FinalObjectTracked`). A request whose lease has not lapsed holds the lease in
  its row or finds the row failed (`LiveHolds`), is alone with its upload (`LiveAlone`), and
  while it is putting, the row names its object and cleanup stays away until the lease ends
  (`PutGuarded`). A cleanup job was claimed when nobody was putting, and what it has deleted
  stays deleted, unless a late PUT brings it back (`JobsTrack`); staging objects are only removed once the row has settled
  (`UnstagingSettled`). Anonymising clears leases, which is why the leases of an account
  that has been hidden for the grace period must have lapsed (`LeasesTimed`).
- `PushInv` and `AddressInv`. An attempt beyond the limit is paid for by a fault, as
  a lease only lapses under a worker that died or was overtaken (`BudgetOf`); a ticket means that Expo
  has accepted the job (`TicketOf`); jobs are made once (`MadeOnce`). Token rows stay with their
  account while a notification holds them (`SharesOwned`). An open job that slipped through no gap
  sits on a row that is not about to go and carries its value, the new one already if it is queued
  during a rotation (`OnCourse`); an answer in flight that the row will still accept was obtained
  for the job's own address (`FlightSound`, `TicketCurrent`).
- `MatchingInv`. From its locked reads to its commit a request owns the rows between
  its two members: what it read still holds (`RequestsSound`), so two reciprocal likes cannot
  both find nothing. `SuperlikesPaid` bounds the refunds by what was spent.
- `BillingInv`. `NewestEventWins`, `BalanceConserved` and `LedgerExplains` need one another:
  a webhook is stale or newer than every event before it (`TransitionNewest`); what it
  then adds to or takes from the purchases an account holds is the delta it books
  (`TransitionBalance`); and its ledger entry is new, because the ids of the entries are those of the
  events received (`TransitionLedger`). On top, payloads are kept under their own ids (`EventsKeyed`), a
  subscription row has an event behind it even after its account is gone (`SubscriptionBacked`), and the
  sets that are counted are finite.
- `SystemInv`. `MatchingInv` and `BillingInv` carry over to the composition: to matching a
  webhook moves a balance (`InvCreditsOnly`), to billing a step of matching is a `CreditStep` or
  nothing (`MatchingIsCreditStep`). The latter needs `MatchingInv`: a commit acts for an account
  that is not deleted, and an undone superlike was paid for. `SpentIsOpen` identifies the
  credits in use with the open superlikes and boosts, which takes that a commit adds an
  action, and an activation a boost, that was not there. `PlanInv` says that the limit of a
  request is that of a plan received (`Planned`), and that the likes of the day have not become more
  since the request counted them (`Counted`): it holds the actor's lock.
- `PhoneInv`. Under the locks of a reservation the room it found is still there (`CodeRequest`,
  `LocksHeld`); quotas are kept for every hour and not only those that end with a code
  (`HoursFull`), which is what the insertion of a code needs. `SessionSound` says that a session belongs to the account's
  present password and that its token has not been exchanged; `SessionRequest`, that a request which
  rotates a session finds it unchanged as long as its token is.
- `KakaoInv`. Suspended requests refer to rows that exist (`RowsExist`), and `SpentOnce` is
  `TokensSpentTogether` without counting.
- `DeletionInv`. A cycle works with a time that has passed (`CyclesPast`), so an account that
  is due for it is due now. The refinement has one case per action.
- `ChatInv`. A long text that may be sent has seen a message (`LongFollows`), so that of the texts
  as they were sent the first is short (`SentFollows`): edits and deletions leave both alone. A
  message is announced by one request at most (`OneAnnounces`), and cursors and read marks name
  messages that were sent (`CursorsSound`).
- `MigrateInv`. Only the holder of the lock is at work (`LockHeld`), so that what it found out
  about its file still holds (`CheckedHolds`), and it passes a file only when it is recorded
  (`PassedRecorded`).

Operators that compute a row have a lemma each with what they return, groups of actions a
lemma of preservation each, and frame lemmas say what a step that moves one request leaves alone.

**Model-checked only.** Liveness under fairness is out of the prover's reach
(`EventuallySettled`, `EventuallyReclaimed`, `EventuallyCompleted`, `EventuallyForgotten`,
`LastJobKeepsRunning`, `EventuallyMigrated`). Every other property of the runs is a theorem.
What `Billing` sums is stated by counting (held purchases, entries by their delta), since the
prover cannot do induction over a fold.

## Not modelled

Candidate queries, lists and feeds (reads); the liked-me windows of Matching; `signin`,
which no resolver exposes any more; reports of chat messages, which touch none of them; community posts, comments and reports, single idempotent inserts by the scheme that
`Chat` models; configuration, preflight, guards, resolvers, logging (no state of their own).
Transactions that PostgreSQL aborts to break a deadlock have no effect and do not appear.

## Plan

Done in this order, the most important behaviour first: uploads with their abstract
specification and proofs; the push outbox; billing; matching; their composition; phone codes
and sessions; account deletion with its abstract specification and the maintenance cycle;
Kakao sign-in; chat; migrations.

Proved since, in this order: uploads, migrations, account deletion, Kakao sign-in, chat, the
push outbox, phone codes and sessions, matching, the tracking of final objects, billing, and
the composition of billing and matching. No safety property of a run is left unproved.

If the development grows, the next parts are the liked-me windows of matching
(`claimLikedMeView`) and the reports of chat messages.
