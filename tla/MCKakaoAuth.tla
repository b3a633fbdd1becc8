----------------------------- MODULE MCKakaoAuth -----------------------------
(***************************************************************************)
(* Two phone tokens of two phones; requests and Kakao users are            *)
(* interchangeable.                                                        *)
(***************************************************************************)
EXTENDS KakaoAuth, TLC

CONSTANTS p1, p2, v1, v2

TwoPhones == v1 :> p1 @@ v2 :> p2
Symmetry == Permutations(Requests) \cup Permutations(Providers)
=============================================================================
