------------------------------- MODULE MCChat -------------------------------
(***************************************************************************)
(* A room of two members of whom one reads; sends are interchangeable.     *)
(***************************************************************************)
EXTENDS Chat, TLC

CONSTANTS bob, k1

\* One send is retried under its key, the other sends again and again.
SomeSends ==
    {[user |-> bob, key |-> k1, text |-> "short"],
     [user |-> bob, key |-> None, text |-> "long"]}

Symmetry == Permutations(Requests)

\* A reader pages or marks the room read.  No step and no property looks at
\* both the pages and the receipt.
OneActivity ==
    \A u \in Readers : view[u] = Blank \/ (receipt[u] = None /\ marking[u] = {})
=============================================================================
