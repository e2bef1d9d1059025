-------------------------- MODULE MCDeliveryPolicy --------------------------
(***************************************************************************)
(* Instances of DeliveryPolicy for TLC.  Times are scaled: headroom 6,     *)
(* floor of the window 2, longest pause 4.                                 *)
(***************************************************************************)
EXTENDS DeliveryPolicy
=============================================================================
