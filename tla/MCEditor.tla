------------------------------ MODULE MCEditor ------------------------------
(***************************************************************************)
(* Instances of AdminEditor for TLC.                                       *)
(***************************************************************************)
EXTENDS AdminEditor, TLC

CONSTANTS s1, s2

MCEdits == {<<"template.json", 2>>, <<"preview.json", 2>>}

\* Version 2 of the document uses a variable that only version 2 of the
\* preview data has a value for; version 2 of the metadata declares it.
MCBroken == {c \in Triple : c["template.json"] = 2 /\ c["preview.json"] = 1}
MCInvalid == {c \in Triple : c["template.json"] = 1 /\ c["metadata.json"] = 2}
MCRefused == {c \in Triple : c["template.json"] = 1 /\ c["preview.json"] = 2}

MCGiven == {[f \in File |-> 1]}
MCTheirs == {[f \in File |-> 2]}
=============================================================================
