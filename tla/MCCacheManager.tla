--------------------------- MODULE MCCacheManager ---------------------------
(* A small instance of CacheManager: one key, two overlapping getData      *)
(* calls, one callback, the app started twice.                             *)
EXTENDS CacheManager, TLC

CONSTANTS k1, c1, c2, f1

CallSymmetry == Permutations(Calls)
MCLifetimes == {0, 1}
=============================================================================
