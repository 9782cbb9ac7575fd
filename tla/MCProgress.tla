----------------------------- MODULE MCProgress -----------------------------
(***************************************************************************)
(* The cluster of Progress with keys dealt out in another order than the   *)
(* ids, as distribute_keys may do.                                         *)
(***************************************************************************)
EXTENDS Progress

MCSignerOf == [r \in Replicas |-> (r + 1) % N]
=============================================================================
