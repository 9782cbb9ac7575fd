---------------------------- MODULE MCPacemaker ----------------------------
(***************************************************************************)
(* The cluster of Pacemaker with keys dealt out in another order than the  *)
(* ids, a client transaction and the removal of the last validator.        *)
(***************************************************************************)
EXTENDS Pacemaker

MCSignerOf == [r \in Replicas |-> (r + 1) % N]
MCRemoval == {ClientTx(1), RemoveValidator(N - 1)}
=============================================================================
