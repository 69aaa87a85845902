-------------------------- MODULE MCBoundedTtlCache --------------------------
(* TLC instance of BoundedTtlCache.                                         *)
EXTENDS BoundedTtlCache, TLC

CONSTANTS p1, p2, k1, k2, k3, v1

Symmetry == Permutations(Caller) \cup Permutations(Key)
===============================================================================
