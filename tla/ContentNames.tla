----------------------------- MODULE ContentNames -----------------------------
(***************************************************************************)
(* Content::GetContent: the name of a content, from its index.  Common to  *)
(* all names is "oicn://content/category/subcategory"; a name is what      *)
(* follows, the digits before and behind the slash.                        *)
(***************************************************************************)
EXTENDS Integers, Sequences

Digit(index, weight) == (index \div weight) % 10

Digits(index, weights) ==
  [i \in 1 .. Len(weights) |-> Digit(index, weights[i])]

Suffix(index, before, behind) ==
  << Digits(index, before), Digits(index, behind) >>

\* Faulty: from three digits on, the last digit repeats the one before it.
GetContentWithoutUnits(index) ==
  IF index > 99 THEN Suffix(index, <<1000, 100>>, <<10, 10>>)
  ELSE IF index > 9 THEN Suffix(index, <<10>>, <<1>>)
  ELSE << <<0>>, Digits(index, <<1>>) >>

\* Above six digits there is no suffix at all.
GetContent(index) ==
  IF index > 999999 THEN << <<>>, <<>> >>
  ELSE IF index > 99999 THEN Suffix(index, <<100000, 10000, 1000>>, <<100, 10, 1>>)
  ELSE IF index > 9999 THEN Suffix(index, <<10000, 1000>>, <<100, 10, 1>>)
  ELSE IF index > 999 THEN Suffix(index, <<1000, 100>>, <<10, 1>>)
  ELSE IF index > 99 THEN Suffix(index, <<100>>, <<10, 1>>)
  ELSE IF index > 9 THEN Suffix(index, <<10>>, <<1>>)
  ELSE << <<0>>, Digits(index, <<1>>) >>
=============================================================================
