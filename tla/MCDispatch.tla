----------------------------- MODULE MCDispatch -----------------------------
(***************************************************************************)
(* Instances of BroadcastDispatch for TLC.  All broadcasts belong to one   *)
(* account, so that the rate limit and the send lock bite.                 *)
(***************************************************************************)
EXTENDS BroadcastDispatch, TLC

CONSTANTS a1, p1, p2, b1, b2, c1, c2, series

MCAccount  == [b \in Bcast |-> a1]
MCParentOf == [c \in Child |-> series]

(* Ids are only ever compared for equality, and so are processes when all  *)
(* of them run a scheduler.                                                *)
MCIdSymmetry == Permutations({b1, b2}) \cup Permutations({c1, c2})
MCSymmetry == MCIdSymmetry \cup Permutations({p1, p2})
=============================================================================
