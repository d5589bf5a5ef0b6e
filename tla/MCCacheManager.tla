---------------------------- MODULE MCCacheManager ----------------------------
(***************************************************************************)
(* Constants of CacheManager for TLC: clocks short enough for a float to   *)
(* be exact.                                                               *)
(***************************************************************************)
EXTENDS CacheManager, TLC

ExactFloat(t) == t

Symmetry == Permutations(Names) \cup Permutations(Routers)
=============================================================================
