-------------------------- MODULE MCDeyeController --------------------------
(* Frequencies in tenths of a hertz: nominal, above the cut threshold and  *)
(* above the hard one.                                                     *)
EXTENDS DeyeController

MCFreqs == {500, 511, 514}
=============================================================================
