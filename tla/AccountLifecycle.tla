-------------------------- MODULE AccountLifecycle --------------------------
(***************************************************************************)
(* What leaving ChatTea means to a member, without leases or workers: an   *)
(* account that asked to be deleted is hidden for a grace period, comes    *)
(* back when its owner signs in before the end of that period, and is      *)
(* otherwise forgotten, not before the period is over and for good.        *)
(***************************************************************************)
EXTENDS Integers

CONSTANTS Users, Requests, Grace, None

VARIABLES
    clock,
    wish,        \* what members have asked for, and when
    status,      \* active, leaving or gone
    deadline     \* end of the grace period of a leaving account

lifecycleVars == <<clock, wish, status, deadline>>

NoWish == [step |-> "idle"]

LifecycleInit ==
    /\ clock = 0
    /\ wish = [r \in Requests |-> NoWish]
    /\ status = [u \in Users |-> "active"]
    /\ deadline = [u \in Users |-> None]

Pass == clock' = clock + 1 /\ UNCHANGED <<wish, status, deadline>>

Wish(r, u) ==
    /\ wish[r] = NoWish
    /\ \E step \in {"scheduling", "restoring"} :
         wish' = [wish EXCEPT ![r] = [step |-> step, user |-> u, at |-> clock]]
    /\ UNCHANGED <<clock, status, deadline>>

\* A wish may come to nothing.
Drop(r) ==
    /\ wish' = [wish EXCEPT ![r] = NoWish]
    /\ UNCHANGED <<clock, status, deadline>>

Leave(r, u) ==
    /\ wish[r].step = "scheduling" /\ wish[r].user = u
    /\ status[u] = "active"
    /\ status' = [status EXCEPT ![u] = "leaving"]
    /\ deadline' = [deadline EXCEPT ![u] = wish[r].at + Grace]
    /\ wish' = [wish EXCEPT ![r] = NoWish]
    /\ UNCHANGED clock

Return(r, u) ==
    /\ wish[r].step = "restoring" /\ wish[r].user = u
    /\ status[u] = "leaving"
    /\ wish[r].at < deadline[u]
    /\ status' = [status EXCEPT ![u] = "active"]
    /\ deadline' = [deadline EXCEPT ![u] = None]
    /\ wish' = [wish EXCEPT ![r] = NoWish]
    /\ UNCHANGED clock

Forget(u) ==
    /\ status[u] = "leaving"
    /\ deadline[u] <= clock
    /\ status' = [status EXCEPT ![u] = "gone"]
    /\ deadline' = [deadline EXCEPT ![u] = None]
    /\ UNCHANGED <<clock, wish>>

LifecycleNext ==
    \/ Pass
    \/ \E r \in Requests : Drop(r)
    \/ \E r \in Requests, u \in Users : Wish(r, u) \/ Leave(r, u) \/ Return(r, u)
    \/ \E u \in Users : Forget(u)

LifecycleSpec == LifecycleInit /\ [][LifecycleNext]_lifecycleVars
=============================================================================
