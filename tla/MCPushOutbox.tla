---------------------------- MODULE MCPushOutbox ----------------------------
(***************************************************************************)
(* Small instances of PushOutbox: two accounts that may share an           *)
(* installation, two token values, one or two registrations.               *)
(***************************************************************************)
EXTENDS PushOutbox, TLC

CONSTANTS alice, bob

\* All notifications are for alice.
MCRecipientAlice == [n \in Notifications |-> alice]

Symmetry == Permutations(TokenIds) \cup Permutations(TokenValues)
=============================================================================
