------------------------------ MODULE MCBilling ------------------------------
(***************************************************************************)
(* A small instance of Billing: the webhooks of two consumable purchases,  *)
(* of two subscriptions, and of neither.                                   *)
(***************************************************************************)
EXTENDS Billing

CONSTANTS alice, bob, t1, t2, t3, t4

Ev(id, type, support, user, product, txn, ts) ==
    [id |-> id, type |-> type, support |-> support, user |-> user,
     product |-> product, txn |-> txn, ts |-> ts]

\* t1: bought, refunded, refund reversed, and a refund of the same instant as
\* the reversal (a conflict); event 2 is sent again with another payload; t2:
\* bought and claimed by bob too; t3 and t4: two plans whose events overlap
\* and tie, with a noop; and a type that is not implemented.
MCEvents ==
    {Ev(1, "NON_RENEWING_PURCHASE", FALSE, alice, "superlike", t1, 1),
     Ev(2, "CANCELLATION", TRUE, alice, "superlike", t1, 2),
     Ev(2, "CANCELLATION", FALSE, alice, "superlike", t1, 2),
     Ev(3, "REFUND_REVERSED", FALSE, alice, "superlike", t1, 3),
     Ev(4, "CANCELLATION", TRUE, alice, "superlike", t1, 3),
     Ev(5, "INITIAL_PURCHASE", FALSE, alice, "boost", t2, 1),
     Ev(6, "INITIAL_PURCHASE", FALSE, bob, "boost", t2, 2),
     Ev(7, "INITIAL_PURCHASE", FALSE, alice, "basic", t3, 1),
     Ev(8, "EXPIRATION", FALSE, alice, "basic", t3, 3),
     Ev(9, "INITIAL_PURCHASE", FALSE, alice, "gold", t4, 3),
     Ev(10, "CANCELLATION", FALSE, alice, "gold", t4, 4),
     Ev(11, "TRANSFER", FALSE, bob, "gold", t4, 4)}
=============================================================================
