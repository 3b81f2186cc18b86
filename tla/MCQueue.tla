-------------------------------- MODULE MCQueue --------------------------------
(***************************************************************************)
(* Instances of JoinQueue for TLC: all links belong to one account.        *)
(***************************************************************************)
EXTENDS JoinQueue

CONSTANT a1

MCAccountOfItem == [i \in Item |-> a1]
=============================================================================
