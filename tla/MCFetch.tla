------------------------------- MODULE MCFetch -------------------------------
(* Fetch on a small instance: three requests for one package, one for      *)
(* another of the same ecosystem.                                          *)
EXTENDS Fetch, TLC

CONSTANTS r1, r2, r3, p1, p2

TwoPackages == r1 :> p1 @@ r2 :> p1 @@ r3 :> p2
=============================================================================
