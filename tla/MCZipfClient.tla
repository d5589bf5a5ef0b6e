----------------------------- MODULE MCZipfClient -----------------------------
(***************************************************************************)
(* Constants of ZipfClient for TLC: ranges around the indexes at which     *)
(* names grow, and the weights 10/(i + 0.7)^0.7 of the code's law, rounded.*)
(***************************************************************************)
EXTENDS ZipfClient

AroundDigits ==
  {<<0, 2>>, <<8, 11>>, <<98, 101>>, <<998, 1001>>, <<9998, 10001>>,
   <<99997, 100000>>, <<999999, 999999>>}

ZipfWeights == <<7, 5, 4>>
=============================================================================
