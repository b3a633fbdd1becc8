--------------------------- MODULE MCProfileUpload ---------------------------
(***************************************************************************)
(* Small instances of ProfileUpload.  One tick stands for a minute or      *)
(* more; what matters is the order of the deadlines (expiry, finalize      *)
(* lease, cleanup lease, retry), and each run picks the order its question *)
(* needs.                                                                  *)
(***************************************************************************)
EXTENDS ProfileUpload, TLC

CONSTANT alice

\* 30 s, 60 s, ... capped at 1 h: growing, then constant.
MCRetryDelays == <<1, 2>>

MCOwnerAlice == [u \in Uploads |-> alice]

Symmetry == Permutations(Finalizers)
=============================================================================
