--------------------------- MODULE MCEvictionHistory ---------------------------
(***************************************************************************)
(* Constants of EvictionHistory for TLC: LFU at two routers, LRU at one.   *)
(* FIFO and LRU file their contents under a float, which has a significand *)
(* of 24 bits, so that millisecond counts from 2^24 on are rounded; here   *)
(* the significand has two bits, so counts from 4 on are, ties to even.    *)
(***************************************************************************)
EXTENDS EvictionHistory, TLC

CONSTANTS n1, n2, n3, n4, r1, r2

TwoBitFloat(t) == CASE t <= 4 -> t
                    [] t = 5  -> 4
                    [] t = 6  -> 6

Symmetry == Permutations(Names) \cup Permutations(Routers)
=============================================================================
