-------------------------- MODULE MCAccountDeletion --------------------------
(***************************************************************************)
(* A small instance of AccountDeletion.                                    *)
(***************************************************************************)
EXTENDS AccountDeletion
=============================================================================
