---------------------------- MODULE MCCacheProxy ----------------------------
(* CacheProxy on small instances.                                          *)
EXTENDS CacheProxy, TLC

CONSTANTS f1, f2, f3, p1, p2

\* One file of one package.
OneFile == f1 :> p1

\* Two files of one package.
TwoFiles == f1 :> p1 @@ f2 :> p1

\* Two files of one package (a Maven jar and its sources jar) and a file of
\* another.
TwoFilesAndAnother == f1 :> p1 @@ f2 :> p1 @@ f3 :> p2

\* Requests are alike, as far as safety goes.
RequestSymmetry == Permutations(Requests)
=============================================================================
