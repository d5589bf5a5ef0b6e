---------------------------- MODULE MCSearchPanel ----------------------------
(***************************************************************************)
(* Constants of SearchPanel for TLC: words with and without results and    *)
(* with spaces at either place, and a menu of two sections, the second     *)
(* of which lacks a page that the first has.                               *)
(***************************************************************************)
EXTENDS SearchPanel

SomeWords == {"", "Search", " n", "n", "n s"}

WithoutLeadingSpaces == [w \in SomeWords |-> IF w = " n" THEN "n" ELSE w]

WithoutSpaces ==
  [w \in SomeWords |-> CASE w = " n" -> "n" [] w = "n s" -> "ns" [] OTHER -> w]

TwoSections == [s \in 0 .. 1 |-> IF s = 0 THEN {"", "n", "n s"} ELSE {"", "Search"}]
=============================================================================
