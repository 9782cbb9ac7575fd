----------------------------- MODULE CrashStop ------------------------------
(***************************************************************************)
(* The cluster of Simulation under the faults that consensus protocols are *)
(* first asked to bear: a replica that stops, by set_replica_unresponsive  *)
(* or crash_replica, stops for good.  Nobody calls recover_replica, no     *)
(* silent replica speaks again and the process does not restart.  All but  *)
(* one of the replicas may stop, in any order and at any time.             *)
(***************************************************************************)
EXTENDS Simulation

Down == crashed \cup unresponsive

\* The replicas that have taken part in every round.
Standing == Replicas \ Down

StopsForGood == Down \subseteq Down' /\ restarts' = restarts

CrashStopSpec == Init /\ [][Next /\ StopsForGood]_vars

(***************************************************************************)
(* Properties.                                                             *)
(***************************************************************************)
\* The rounds keep the replicas that never stopped in lockstep, although each
\* of them commits by the tree that it has, and no disk, of a replica that has
\* stopped either, holds a commit that they lack.
Lockstep ==
  /\ \A r, s \in Standing : InStep(nodes[r].rep, nodes[s].rep)
  /\ \A r \in Standing, s \in Replicas :
       IsPrefix(nodes[s].disk.committed_log, nodes[r].rep.committed_log)

\* The certificate that a replica puts into its proposals passes the checks of
\* validate_and_insert_proposal at each replica that is to vote.
CertificateHonoured ==
  \A r, s \in Standing : Honours(nodes[r].rep, nodes[s].rep.high_qc)
=============================================================================
