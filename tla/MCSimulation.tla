---------------------------- MODULE MCSimulation ----------------------------
(***************************************************************************)
(* The cluster of Simulation with keys dealt out in another order than the *)
(* ids, as distribute_keys may do.                                         *)
(***************************************************************************)
EXTENDS Simulation

MCSignerOf == [r \in Replicas |-> (r + 1) % N]
=============================================================================
