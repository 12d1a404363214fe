--------------------------- MODULE MCBrowserLru ----------------------------
(***************************************************************************)
(* Two calls at once on a cache of two entries a database, four keys.      *)
(***************************************************************************)
EXTENDS BrowserLru, TLC

CONSTANTS k1, k2, k3, k4, c1, c2

const_Symmetry == Permutations(Key) \cup Permutations(Caller)
=============================================================================
