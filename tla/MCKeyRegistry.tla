--------------------------- MODULE MCKeyRegistry ---------------------------
(***************************************************************************)
(* Instances of KeyRegistry for TLC.                                       *)
(***************************************************************************)
EXTENDS KeyRegistry, TLC

CONSTANTS a, b, m, n, r1, r2

Symmetry == Permutations(Token) \cup Permutations(Tenant) \cup Permutations(Registration)
=============================================================================
