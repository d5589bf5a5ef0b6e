------------------------- MODULE MCIpv4Fragmentation -------------------------
(***************************************************************************)
(* Constants of Ipv4Fragmentation for TLC.  With Align = 2 a datagram of 6 *)
(* bytes is cut into the fragments [0, 4) and [4, 6) by a link that takes  *)
(* 4 or 5 bytes, and the first of them into [0, 2) and [2, 4) by one that  *)
(* takes 2.                                                                *)
(***************************************************************************)
EXTENDS Ipv4Fragmentation

CONSTANTS d1, d2

OneOfEight == [d \in Datagrams |-> 8]
SixAndFour == [d \in Datagrams |-> IF d = d1 THEN 6 ELSE 4]

TwoRoutes == << {5}, {2, 4} >>
Narrowing == << {4}, {2} >>
=============================================================================
