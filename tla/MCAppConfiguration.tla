------------------------ MODULE MCAppConfiguration ------------------------
(***************************************************************************)
(* Instances of AppConfiguration for TLC.                                  *)
(***************************************************************************)
EXTENDS AppConfiguration, TLC

CONSTANTS i1, i2, i3

Symmetry == Permutations(Invocation)
=============================================================================
