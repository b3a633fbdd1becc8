------------------------------ MODULE Accounts ------------------------------
(***************************************************************************)
(* What billing and matching share: the users rows, as far as either looks *)
(* at them, and the user_consumable_balances rows both change.  A missing  *)
(* balance row behaves as a row of zeros: no guarded decrement matches it  *)
(* and every increment is an upsert.                                       *)
(***************************************************************************)
EXTENDS Integers

CONSTANTS
    Users,      \* account ids
    None        \* SQL NULL: no row, no request

VARIABLES
    account,    \* users: "active", "hidden" (deletion scheduled) or "deleted"
    credits,    \* user_consumable_balances
    spent       \* history: credits used and not returned, per account

accountVars == <<account, credits, spent>>

CreditKinds == {"superlike", "boost"}
NoCredits == [k \in CreditKinds |-> 0]

AccountsTypeOK ==
    /\ account \in [Users -> {"active", "hidden", "deleted"}]
    /\ credits \in [Users -> [CreditKinds -> Int]]
    /\ spent \in [Users -> [CreditKinds -> Nat]]

AccountsInit ==
    /\ account = [u \in Users |-> "active"]
    /\ credits = [u \in Users |-> NoCredits]
    /\ spent = [u \in Users |-> NoCredits]

\* UPDATE ... SET credits = credits - 1 WHERE credits > 0; the row stays
\* locked until the transaction commits, so test and decrement are one step.
spendCredit(u, k) ==
    /\ credits[u][k] > 0
    /\ credits' = [credits EXCEPT ![u][k] = @ - 1]
    /\ spent' = [spent EXCEPT ![u][k] = @ + 1]

returnCredit(u, k) ==
    /\ credits' = [credits EXCEPT ![u][k] = @ + 1]
    /\ spent' = [spent EXCEPT ![u][k] = @ - 1]

\* The upsert of a RevenueCat transition: it adds, and may go below zero.
addCredits(u, delta) ==
    /\ credits' = [credits EXCEPT ![u] = [k \in CreditKinds |-> @[k] + delta[k]]]
    /\ UNCHANGED spent

hideAccount(u) ==
    /\ account[u] = "active"
    /\ account' = [account EXCEPT ![u] = "hidden"]
    /\ UNCHANGED <<credits, spent>>

restoreAccount(u) ==
    /\ account[u] = "hidden"
    /\ account' = [account EXCEPT ![u] = "active"]
    /\ UNCHANGED <<credits, spent>>

\* The grace period is over: the row is anonymized, the balance row deleted.
closeAccount(u) ==
    /\ account[u] = "hidden"
    /\ account' = [account EXCEPT ![u] = "deleted"]
    /\ credits' = [credits EXCEPT ![u] = NoCredits]
    /\ spent' = [spent EXCEPT ![u] = NoCredits]
=============================================================================
