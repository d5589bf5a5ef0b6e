--------------------------- MODULE MCOverlayNetwork ---------------------------
(***************************************************************************)
(* Constants of OverlayNetwork for TLC.  Server -- rb -- ra -- clients:    *)
(* content from the server passes rb, then ra.                             *)
(***************************************************************************)
EXTENDS OverlayNetwork

CONSTANTS n1, n2, n3, ra, rb, c1, c2, s

ExactFloat(t) == t

\* n3 is asked for, but no server has it.
MCRegistered == [n \in Names |-> IF n = n3 THEN {} ELSE {s}]

MCPath == [x \in Servers \cup Routers |->
            [c \in Clients |-> CASE x = s -> <<rb, ra>> [] x = rb -> <<ra>> [] x = ra -> <<>>]]

AskBoth == [c \in Clients |-> IF c = c1 THEN <<n1, n2>> ELSE <<n1, n3>>]
AskTwice == [c \in Clients |-> IF c = c1 THEN <<n1, n2, n1>> ELSE <<n1>>]

SendAll == [c \in Clients |-> Len(Wanted[c])]
SendNone == [c \in Clients |-> 0]
=============================================================================
