-------------------------- MODULE MCUseCacheManager --------------------------
(* Small instances of UseCacheManager.  h1 and h2 have one key (a screen   *)
(* left and opened again while its load runs), h3 another.                 *)
EXTENDS UseCacheManager, TLC

CONSTANTS k1, k2, h1, h2, h3, c1, c2, c3

OneKeyOf == (h1 :> k1 @@ h2 :> k1)
TwoKeyOf == (h1 :> k1 @@ h2 :> k1 @@ h3 :> k2)
OneLife == (k1 :> 1)
TwoLife == (k1 :> 1 @@ k2 :> 2)
MCLifetimes == {0, 1, 2}
Symmetry == Permutations(Calls) \cup Permutations(Hooks)
=============================================================================
