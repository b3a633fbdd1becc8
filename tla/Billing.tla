------------------------------- MODULE Billing -------------------------------
(***************************************************************************)
(* RevenueCat webhooks: subscriptions, one-off purchases of credits, their *)
(* refunds and the reversals of refunds.  Webhooks arrive late, twice and  *)
(* out of order.  applyRevenueCatEvent is one transaction, serialized by   *)
(* the unique event id and by an advisory lock per account (subscriptions) *)
(* or per store transaction (credits), so it is one action; one that       *)
(* throws is rolled back and changes nothing.                              *)
(***************************************************************************)
EXTENDS Accounts, FiniteSets

CONSTANTS
    Events,         \* the payloads that may arrive: see EventType
    EventIds,       \* providerEventId
    Txns,           \* providerTransactionId
    Timestamps,     \* event_timestamp_ms
    SuperLikePack   \* superlikes in one purchase: 5

SubscriptionProducts == {"basic", "gold", "black"}
Products == SubscriptionProducts \cup CreditKinds       \* BILLING_PRODUCTS

ActivatingTypes ==
    {"INITIAL_PURCHASE", "RENEWAL", "UNCANCELLATION", "NON_RENEWING_PURCHASE",
     "SUBSCRIPTION_EXTENDED", "REFUND_REVERSED"}
MutationTypes == ActivatingTypes \cup {"EXPIRATION", "CANCELLATION"}
NoopTypes ==
    {"BILLING_ISSUE", "SUBSCRIPTION_PAUSED", "PRODUCT_CHANGE",
     "INVOICE_ISSUANCE", "EXPERIMENT_ENROLLMENT", "TEST"}
UnimplementedTypes ==
    {"TRANSFER", "TEMPORARY_ENTITLEMENT_GRANT", "VIRTUAL_CURRENCY_TRANSACTION"}

\* support: the cancel_reason is CUSTOMER_SUPPORT.
EventType ==
    [id : EventIds, type : MutationTypes \cup NoopTypes \cup UnimplementedTypes,
     support : BOOLEAN, user : Users, product : Products, txn : Txns,
     ts : Timestamps]

TransactionStates == {"granted", "refunded"}
SubscriptionType ==
    [plan : SubscriptionProducts, status : {"active", "expired"}, ts : Timestamps]
TransactionType ==
    [user : Users, product : CreditKinds, state : TransactionStates, ts : Timestamps]

ASSUME BillingConstants ==
    /\ Events \subseteq EventType
    /\ Timestamps \subseteq Nat
    /\ SuperLikePack \in Nat \ {0}
    /\ None \notin Events \cup TransactionType \cup SubscriptionType \cup TransactionStates

VARIABLES
    billingEvents,   \* billing_events: the payload received under each id
    subscription,    \* user_subscriptions
    transaction,     \* revenuecat_transactions
    ledger,          \* revenuecat_transaction_ledger
    notifying        \* applied events whose notification is not yet made

billingVars == <<billingEvents, subscription, transaction, ledger, notifying>>

LedgerType ==
    [id : EventIds, txn : Txns, requested : TransactionStates,
     effective : TransactionStates, delta : [CreditKinds -> Int], applied : BOOLEAN]

\* Every row has the type of its table.
BillingTypeOK ==
    /\ AccountsTypeOK
    /\ billingEvents \in [EventIds -> Events \cup {None}]
    /\ subscription \in [Users -> SubscriptionType \cup {None}]
    /\ transaction \in [Txns -> TransactionType \cup {None}]
    /\ ledger \subseteq LedgerType
    /\ notifying \subseteq Events

BillingInit ==
    /\ AccountsInit
    /\ billingEvents = [i \in EventIds |-> None]
    /\ subscription = [u \in Users |-> None]
    /\ transaction = [t \in Txns |-> None]
    /\ ledger = {}
    /\ notifying = {}

-----------------------------------------------------------------------------
(* What an event asks for *)

revenueCatConsumableTargetState(e) ==
    IF e.type \in {"INITIAL_PURCHASE", "NON_RENEWING_PURCHASE", "REFUND_REVERSED"}
    THEN "granted"
    ELSE IF e.type = "CANCELLATION" /\ e.support THEN "refunded" ELSE None

revenueCatSubscriptionStatus(e) ==
    IF e.type = "EXPIRATION" THEN "expired"
    ELSE IF e.type \in ActivatingTypes THEN "active" ELSE None

IsSubscriptionEvent(e) ==
    /\ e.type \in MutationTypes
    /\ e.product \in SubscriptionProducts
    /\ revenueCatSubscriptionStatus(e) # None

IsConsumableEvent(e) ==
    /\ e.type \in MutationTypes
    /\ e.product \in CreditKinds
    /\ revenueCatConsumableTargetState(e) # None

UnitsOf(product) ==
    [NoCredits EXCEPT ![product] = IF product = "superlike" THEN SuperLikePack ELSE 1]

Negated(units) == [k \in CreditKinds |-> - units[k]]

\* Mutant: a purchase that is already granted is granted again.
transitionDeltaAgain(current, target, units) ==
    CASE target = "granted" -> units
      [] target # "granted" /\ current = "granted" -> Negated(units)
      [] OTHER -> NoCredits

\* Mutant: a refund that overtook its purchase is debited.
transitionDeltaDebit(current, target, units) ==
    CASE current = target -> NoCredits
      [] current # target /\ target = "granted" -> units
      [] OTHER -> Negated(units)

transitionDelta(current, target, units) ==
    CASE current = target -> NoCredits
      [] current # target /\ target = "granted" -> units
      [] target # "granted" /\ current = "granted" -> Negated(units)
      [] OTHER -> NoCredits

-----------------------------------------------------------------------------
(* applyRevenueCatEvent *)

\* The insert into billing_events; a second arrival is a duplicate, or a
\* payload conflict, and has no effect.
insertEvent(e) ==
    /\ billingEvents[e.id] = None
    /\ billingEvents' = [billingEvents EXCEPT ![e.id] = e]

\* Neither a subscription nor a transition: the event is only recorded.
recordEvent(e) ==
    /\ e.type \in NoopTypes \cup MutationTypes
    /\ ~ IsSubscriptionEvent(e) /\ ~ IsConsumableEvent(e)
    /\ insertEvent(e)
    /\ UNCHANGED <<accountVars, subscription, transaction, ledger, notifying>>

\* Mutant: the event that arrives last wins.
SubscriptionNeverStale(e) == FALSE

SubscriptionStale(e) ==
    subscription[e.user] # None /\ subscription[e.user].ts >= e.ts

applySubscription(e) ==
    LET status == revenueCatSubscriptionStatus(e) IN
    /\ IsSubscriptionEvent(e)
    /\ insertEvent(e)
    /\ IF SubscriptionStale(e)
       THEN UNCHANGED <<subscription, notifying>>
       ELSE /\ subscription' = [subscription EXCEPT ![e.user] =
                    [plan |-> e.product, status |-> status, ts |-> e.ts]]
            /\ notifying' = IF status = "active" THEN notifying \cup {e} ELSE notifying
    /\ UNCHANGED <<accountVars, transaction, ledger>>

\* assertTransactionIdentity
SameTransaction(current, e) == current.user = e.user /\ current.product = e.product

TimestampConflict(current, e) ==
    /\ current.ts = e.ts
    /\ current.state # revenueCatConsumableTargetState(e)

\* Mutant: the transition that arrives last wins.
TransactionNeverStale(current, e) == FALSE

TransactionStale(current, e) == current # None /\ current.ts >= e.ts

applyConsumableTransition(e) ==
    LET current == transaction[e.txn]
        target == revenueCatConsumableTargetState(e)
        stale == TransactionStale(current, e)
        delta == IF stale THEN NoCredits
                 ELSE transitionDelta(IF current = None THEN None ELSE current.state,
                                      target, UnitsOf(e.product))
    IN
    /\ IsConsumableEvent(e)
    /\ current # None => SameTransaction(current, e) /\ ~ TimestampConflict(current, e)
    /\ insertEvent(e)
    /\ transaction' = IF stale THEN transaction ELSE [transaction EXCEPT ![e.txn] =
            [user |-> e.user, product |-> e.product, state |-> target, ts |-> e.ts]]
    /\ addCredits(e.user, delta)
    /\ ledger' = ledger \cup
            {[id |-> e.id, txn |-> e.txn, requested |-> target,
              effective |-> IF stale THEN current.state ELSE target,
              delta |-> delta, applied |-> ~ stale]}
    /\ notifying' = IF ~ stale /\ target = "granted" THEN notifying \cup {e} ELSE notifying
    /\ UNCHANGED <<account, subscription>>

\* After the commit the handler notifies the buyer once; a failure is logged
\* and a crash forgets it: either way nobody tries again.
notifyPurchase(e) ==
    /\ e \in notifying
    /\ notifying' = notifying \ {e}
    /\ UNCHANGED <<accountVars, billingEvents, subscription, transaction, ledger>>

handleRevenueCatWebhook(e) ==
    \/ recordEvent(e)
    \/ applySubscription(e)
    \/ applyConsumableTransition(e)

\* anonymizeDeletedAccount, the part that concerns billing.
deleteSubscription(u) == subscription' = [subscription EXCEPT ![u] = None]

-----------------------------------------------------------------------------
(* Billing on its own.  Credits are spent and returned by matching, here   *)
(* reduced to what it does to the balance.                                 *)

BillingAccountStep(u) ==
    \/ (hideAccount(u) \/ restoreAccount(u)) /\ UNCHANGED billingVars
    \/ /\ closeAccount(u)
       /\ deleteSubscription(u)
       /\ UNCHANGED <<billingEvents, transaction, ledger, notifying>>

CreditStep(u, k) ==
    /\ account[u] # "deleted"
    /\ spendCredit(u, k) \/ (k = "superlike" /\ spent[u][k] > 0 /\ returnCredit(u, k))
    /\ UNCHANGED <<account, billingVars>>

BillingNext ==
    \/ \E e \in Events : handleRevenueCatWebhook(e) \/ notifyPurchase(e)
    \/ \E u \in Users : BillingAccountStep(u)
    \/ \E u \in Users, k \in CreditKinds : CreditStep(u, k)

BillingSpec == BillingInit /\ [][BillingNext]_<<accountVars, billingVars>>

-----------------------------------------------------------------------------
(* Properties *)

Received == {billingEvents[i] : i \in EventIds} \ {None}
TransitionsOf(t) == {e \in Received : IsConsumableEvent(e) /\ e.txn = t}
SubscriptionEventsOf(u) == {e \in Received : IsSubscriptionEvent(e) /\ e.user = u}

TransactionNewest(t) ==
    LET row == transaction[t] IN
    /\ row = None <=> TransitionsOf(t) = {}
    /\ \A e \in TransitionsOf(t) :
        /\ row.user = e.user /\ row.product = e.product
        /\ row.ts >= e.ts
        /\ row.ts = e.ts => row.state = revenueCatConsumableTargetState(e)
    /\ row # None => \E e \in TransitionsOf(t) : e.ts = row.ts

SubscriptionNewest(u) ==
    LET row == subscription[u] IN
    /\ row = None <=> SubscriptionEventsOf(u) = {}
    /\ \A e \in SubscriptionEventsOf(u) : row.ts >= e.ts
    /\ row # None => \E e \in SubscriptionEventsOf(u) :
        /\ e.ts = row.ts
        /\ e.product = row.plan
        /\ revenueCatSubscriptionStatus(e) = row.status

\* In whatever order webhooks arrived, a store transaction is in the state
\* that the latest of the accepted ones asks for and belongs to the account
\* and product all of them name; and the subscription of an account that
\* still exists is what its latest event said, one of them where several
\* carry the same instant (billing.repository.ts:54, :125).
NewestEventWins ==
    /\ \A t \in Txns : TransactionNewest(t)
    /\ \A u \in Users : account[u] # "deleted" => SubscriptionNewest(u)

\* Units of kind k the account bought and has not been refunded.
HeldPurchases(u, k) ==
    {t \in Txns : /\ transaction[t] # None
                  /\ transaction[t].user = u /\ transaction[t].product = k
                  /\ transaction[t].state = "granted"}

GrantedUnits(u, k) == UnitsOf(k)[k] * Cardinality(HeldPurchases(u, k))

\* Duplicates, refunds, reversals and stale webhooks included, the balance is
\* what is bought and not refunded, less what is spent.
BalanceConserved ==
    \A u \in Users, k \in CreditKinds :
        account[u] # "deleted" => credits[u][k] = GrantedUnits(u, k) - spent[u][k]

EntriesOf(t) == {l \in ledger : l.txn = t}
EntriesWith(t, delta) == {l \in EntriesOf(t) : l.delta = delta}

\* Every entry credits the units of the transaction, takes them back or
\* changes nothing; one more credits than takes back exactly while the
\* transaction is granted; and one of them put it in its present state.
TransactionExplained(t) ==
    LET row == transaction[t]
        units == UnitsOf(row.product)
    IN
    /\ \A l \in EntriesOf(t) : l.delta \in {units, Negated(units), NoCredits}
    /\ Cardinality(EntriesWith(t, units)) - Cardinality(EntriesWith(t, Negated(units)))
        = IF row.state = "granted" THEN 1 ELSE 0
    /\ \E l \in EntriesOf(t) :
        l.applied /\ l.effective = row.state /\ billingEvents[l.id].ts = row.ts

\* The ledger alone reconstructs the transactions: one entry per accepted
\* transition, deltas that add up to what the transaction now grants, and an
\* applied entry that put it in its present state.
LedgerExplains ==
    /\ \A t \in Txns : {l.id : l \in EntriesOf(t)} = {e.id : e \in TransitionsOf(t)}
    /\ \A l, m \in ledger : l.id = m.id => l = m
    /\ \A t \in Txns : transaction[t] # None => TransactionExplained(t)
=============================================================================
