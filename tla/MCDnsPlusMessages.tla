-------------------------- MODULE MCDnsPlusMessages --------------------------
(***************************************************************************)
(* Constants of DnsPlusMessages for TLC: one request for each place the    *)
(* manager may find a content in.                                          *)
(***************************************************************************)
EXTENDS DnsPlusMessages

CONSTANTS q1, q2, q3

Everywhere ==
  [id \in Requests |-> IF id = q1 THEN "router"
                       ELSE IF id = q2 THEN "server" ELSE "nowhere"]
=============================================================================
