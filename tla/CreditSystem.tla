----------------------------- MODULE CreditSystem -----------------------------
(***************************************************************************)
(* Billing and Matching over the same accounts and balances: purchases     *)
(* fill the balance that superlikes and boosts draw on, a refund may leave *)
(* it below zero, the subscription decides the daily like limit, and the   *)
(* deletion of an account reaches into both.                               *)
(***************************************************************************)
EXTENDS Billing, Matching

CONSTANTS
    Actors,                              \* bound: the accounts that send likes
    FreeLimit, BasicLimit, GoldLimit     \* DAILY_LIKE_LIMITS_BY_PLAN

getDailyLikeLimit(plan) ==
    CASE plan = "basic" -> BasicLimit
      [] plan = "gold" -> GoldLimit
      [] plan = "black" -> Unlimited
      [] OTHER -> FreeLimit

PlanLimits == {getDailyLikeLimit(plan) : plan \in {"free"} \cup SubscriptionProducts}

ASSUME SystemConstants == Limits = PlanLimits

vars == <<accountVars, billingVars, matchingVars>>

\* findCurrentSubscription: the active row, unless its period is over.
CurrentPlans(u) ==
    {"free"} \cup
    (IF subscription[u] # None /\ subscription[u].status = "active"
     THEN {subscription[u].plan} ELSE {})

webhook(e) ==
    /\ handleRevenueCatWebhook(e) \/ notifyPurchase(e)
    /\ UNCHANGED matchingVars

\* MatchingService.actOnCandidate reads the plan before the transaction.
actOnCandidate(r) ==
    /\ \E c \in Candidates, choice \in Choices : \E plan \in CurrentPlans(c[1]) :
            c[1] \in Actors /\ likeUser(r, c[1], c[2], choice, getDailyLikeLimit(plan))
    /\ UNCHANGED billingVars

matching == MatchingStep /\ UNCHANGED billingVars

scheduleDeletion(u) == hideAccount(u) /\ UNCHANGED <<billingVars, matchingVars>>

restoreScheduledDeletion(u) == restoreAccount(u) /\ UNCHANGED <<billingVars, matchingVars>>

anonymizeDeletedAccount(u) ==
    /\ closeAccount(u)
    /\ deleteSubscription(u)
    /\ deleteMatching(u)
    /\ UNCHANGED <<billingEvents, transaction, ledger, notifying>>

Init == BillingInit /\ MatchingInit

Next ==
    \/ \E e \in Events : webhook(e)
    \/ \E r \in Requests : actOnCandidate(r)
    \/ matching
    \/ \E u \in Leavers :
        scheduleDeletion(u) \/ restoreScheduledDeletion(u) \/ anonymizeDeletedAccount(u)

Spec == Init /\ [][Next]_vars

-----------------------------------------------------------------------------
(* Properties *)

\* Open superlikes and boosts, each of which was paid with a credit.
Superlikes(u) == {x \in matchActions : x.actor = u /\ x.action = "superlike"}
BoostsOf(u) == {b \in userBoosts : b.user = u}

\* Across both components no credit appears or is lost: the balance is what
\* the store transactions grant, less the open superlikes and the boosts.
CreditsReconciled ==
    (\A v \in Users : account[v] # "deleted") =>
        \A u \in Users :
            /\ credits[u]["superlike"] = GrantedUnits(u, "superlike") - Cardinality(Superlikes(u))
            /\ credits[u]["boost"] = GrantedUnits(u, "boost") - Cardinality(BoostsOf(u))

\* The plans that an event received so far has activated.
ReceivedPlans(u) ==
    {"free"} \cup
    {e.product : e \in {x \in SubscriptionEventsOf(u) : revenueCatSubscriptionStatus(x) = "active"}}

\* Likes beyond the free allowance take a subscription event that activates
\* a plan, and never exceed what the best plan so far received allows.
PlanHonoured ==
    \A u \in Users, t \in Times :
        \E plan \in ReceivedPlans(u) :
            LET limit == getDailyLikeLimit(plan) IN
            limit # Unlimited => Cardinality(LikesOn(u, Day(t))) <= limit
=============================================================================
