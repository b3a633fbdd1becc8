---------------------------- MODULE MCCreditSystem ----------------------------
(***************************************************************************)
(* A small instance of CreditSystem: alice buys a pack of superlikes that  *)
(* is refunded, a boost, and a plan that expires.                          *)
(***************************************************************************)
EXTENDS CreditSystem, TLC

CONSTANTS alice, bob, carol, t1, t2, t3

Ev(id, type, support, product, txn, ts) ==
    [id |-> id, type |-> type, support |-> support, user |-> alice,
     product |-> product, txn |-> txn, ts |-> ts]

MCEvents ==
    {Ev(1, "NON_RENEWING_PURCHASE", FALSE, "superlike", t1, 1),
     Ev(2, "CANCELLATION", TRUE, "superlike", t1, 2),
     Ev(3, "INITIAL_PURCHASE", FALSE, "basic", t2, 1),
     Ev(4, "EXPIRATION", FALSE, "basic", t2, 2),
     Ev(5, "NON_RENEWING_PURCHASE", FALSE, "boost", t3, 1)}

MCPairs == {p \in SUBSET Users : Cardinality(p) = 2}

\* The bound of Matching on its own: here purchases are webhooks.
MCMaxCredits == [u \in Users |-> NoCredits]

Symmetry == Permutations(Requests)
=============================================================================
