----------------------------- MODULE MCContact -----------------------------
(***************************************************************************)
(* Instances of Contact for TLC.                                           *)
(***************************************************************************)
EXTENDS Contact, TLC

CONSTANTS a, b, c, r

Symmetry == Permutations(Client)

\* A live deployment, one that lacks the last switch, and one without a token.
Live == [provider |-> "unset", nodeProduction |-> TRUE, allowProduction |-> TRUE,
         allowPreview |-> FALSE, token |-> TRUE, senderValid |-> TRUE, profiles |-> "valid"]
Environments ==
  {Live, [Live EXCEPT !.allowProduction = FALSE, !.profiles = "unparsable"],
   [Live EXCEPT !.provider = "forward-email", !.allowPreview = TRUE, !.token = FALSE,
                !.senderValid = FALSE, !.profiles = "silent"]}
=============================================================================
