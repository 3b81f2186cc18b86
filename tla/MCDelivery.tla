------------------------------ MODULE MCDelivery ------------------------------
(***************************************************************************)
(* Instances of BroadcastDelivery for TLC.                                 *)
(***************************************************************************)
EXTENDS BroadcastDelivery, TLC

(* Recipients are only ever compared for equality. *)
MCSymmetry == Permutations(Recipient)
=============================================================================
