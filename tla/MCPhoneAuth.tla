----------------------------- MODULE MCPhoneAuth -----------------------------
(***************************************************************************)
(* A small instance of PhoneAuth.  Requests, devices and addresses are     *)
(* interchangeable.                                                        *)
(***************************************************************************)
EXTENDS PhoneAuth, TLC

Symmetry == Permutations(Requests) \cup Permutations(Devices) \cup Permutations(Ips)
=============================================================================
