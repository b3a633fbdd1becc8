------------------------------ MODULE MCMatching ------------------------------
(***************************************************************************)
(* A small instance of Matching: two accounts that accept each other.      *)
(***************************************************************************)
EXTENDS Matching, TLC

CONSTANTS alice, bob

MCCompatible == {{alice, bob}}

\* Alice buys two boosts and both one superlike.
MCMaxCredits ==
    [u \in Users |-> [superlike |-> 1, boost |-> IF u = alice THEN 2 ELSE 0]]

Symmetry == Permutations(Requests)
=============================================================================
