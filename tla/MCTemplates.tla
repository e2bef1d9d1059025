---------------------------- MODULE MCTemplates ----------------------------
(***************************************************************************)
(* Instances of BlobTemplateStore for TLC: two templates, two contents,    *)
(* source trees that add, change and drop a template.                      *)
(***************************************************************************)
EXTENDS BlobTemplateStore, TLC

CONSTANTS t1, t2, v1, v2

Trees ==
  { [t \in Template |-> v1],
    [t \in Template |-> IF t = t1 THEN v2 ELSE v1],
    [t \in Template |-> IF t = t1 THEN v2 ELSE NoBlob] }

Symmetry == Permutations(Run)
=============================================================================
