--------------------------- MODULE MCSendHandler ---------------------------
(***************************************************************************)
(* Instances of SendHandler for TLC.                                       *)
(***************************************************************************)
EXTENDS SendHandler, TLC

CONSTANTS k1, i1, i2, i3, x

AllOneKey == [c \in Invocation |-> k1]
OwnCorrelation == [c \in Invocation |-> c]

OneUnkeyed == [c \in Invocation |-> IF c = i1 THEN NoKey ELSE k1]
SharedCorrelation == [c \in Invocation |-> x]

Symmetry == Permutations(Invocation)
KeyedSymmetry == Permutations({i2, i3})
=============================================================================
