---------------------------- MODULE MCResultsPage ----------------------------
(***************************************************************************)
(* Constants of ResultsPage for TLC.  Words are spelled with the codes of  *)
(* "a" 97, "b" 98, "B" 66, "5" 53, "f" 102, "_" 95, " " 32.                *)
(***************************************************************************)
EXTENDS ResultsPage

Row(name, id, children) == [name |-> name, id |-> id, children |-> children]

\* a_, a_5f, a_B, ab and aB: sorted by id, as Doxygen sorts them; a class
\* and its constructors, whose rows have the same id, are the last two.
SortedRows ==
  << Row(<<97, 95>>,          <<97, 95, 53, 102>>,                  2),
     Row(<<97, 95, 53, 102>>, <<97, 95, 53, 102, 53, 102>>,         0),
     Row(<<97, 95, 66>>,      <<97, 95, 53, 102, 98>>,              2),
     Row(<<97, 98>>,          <<97, 98>>,                           0),
     Row(<<97, 66>>,          <<97, 98>>,                           2) >>

\* "", "a_5", " AB" and "b"
SomeSearches == {<<>>, <<97, 95, 53>>, <<32, 65, 66>>, <<98>>}
=============================================================================
