------------------------------ MODULE Progress ------------------------------
(***************************************************************************)
(* Liveness of the cluster of Simulation, as a bound on the number of      *)
(* rounds: a simulation ends after max_steps rounds, so "eventually" says  *)
(* nothing about it.  The two variables added here only observe: how many  *)
(* rounds have run since the last fault, recovery or restart, and how long *)
(* the logs were then.                                                     *)
(***************************************************************************)
EXTENDS Simulation

CONSTANT Patience   \* the rounds in which a steady cluster is to commit

VARIABLES
  steady,           \* rounds since the last change of the faulty replicas
  lengths           \* the lengths of the logs at that change

Lengths == [r \in Replicas |-> Len(nodes[r].rep.committed_log)]

SteadyInit == Init /\ steady = 0 /\ lengths = Lengths

\* A round that crashes nobody.
SteadyRound ==
  /\ RunOneRound
  /\ crashed' = crashed
  /\ steady' = IF steady < Patience THEN steady + 1 ELSE steady
  /\ UNCHANGED lengths

Disturbance ==
  /\ Next
  /\ \/ crashed' # crashed
     \/ unresponsive' # unresponsive
     \/ restarts' # restarts
  /\ steady' = 0
  /\ lengths' = [r \in Replicas |-> Len(nodes'[r].rep.committed_log)]

\* A call past max_steps is no round.
RefusedCall ==
  /\ RefusedRound
  /\ UNCHANGED <<crashed, steady, lengths>>

SteadyNext == SteadyRound \/ RefusedCall \/ Disturbance

SteadySpec == SteadyInit /\ [][SteadyNext]_<<vars, steady, lengths>>

\* The replicas that took part in every one of the steady rounds.
Responsive == Replicas \ (crashed \cup unresponsive)

Grown(r) == Len(nodes[r].rep.committed_log) > lengths[r]

\* README: liveness may stall but always recovers.  Once no replica is down
\* and none goes down any more, every replica commits within Patience rounds.
RecoversLiveness ==
  steady >= Patience /\ Responsive = Replicas => \A r \in Replicas : Grown(r)

\* README: the system goes on with the replicas that are left, as long as no
\* more than f are down.
ToleratesFaults ==
  (/\ steady >= Patience
   /\ Cardinality(Replicas \ Responsive) <= FaultBound(Replicas))
    => \A r \in Responsive : Grown(r)
=============================================================================
