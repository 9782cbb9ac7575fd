-------------------------- MODULE CrashStopProofs ---------------------------
(***************************************************************************)
(* Proofs about the cluster whose replicas stop for good, for every number *)
(* of replicas of which at least one never stops: lockstep, the ledger,    *)
(* and that all blocks executed anywhere lie on one branch of the tree.    *)
(***************************************************************************)
EXTENDS CrashStop, CorrectProofs

(***************************************************************************)
(* The invariant: lockstep, what it takes for the next proposal to be      *)
(* accepted, and that somebody stands.                                     *)
(***************************************************************************)
StopInv ==
  /\ Cardinality(Down) <= MaxFaulty
  /\ Lockstep
  /\ \A r \in Standing : Sound(nodes[r].rep)
  /\ \A r \in crashed : nodes[r].rep.committed_log = <<>>

LEMMA UpStands == Up = Standing /\ CrashedNow \cup SilentNow = Down
  BY DEF Up, Standing, Down, CrashedNow, SilentNow, TimedOut

\* Somebody stands.
LEMMA SomebodyStands ==
  ASSUME FieldsInv, Cardinality(Down) <= MaxFaulty
  PROVE  Standing # {}
<1>1. SUFFICES ASSUME Standing = {}
               PROVE  FALSE
  OBVIOUS
<1>2. Down = Replicas
  BY <1>1 DEF Standing, Down, FieldsInv
<1>3. Cardinality(Down) = N
  BY <1>2, ReplicasFinite
<1>4. N <= MaxFaulty /\ MaxFaulty \in 0 .. N - 1 /\ N \in Nat
  BY <1>3, SimulationAssumption
<1> QED
  BY <1>4

\* All that are up take in the same block and the same certificate.
LEMMA ProposalMemory ==
  ASSUME NodesInv, StopInv, NEW l \in Up, NEW hash \in Nat,
         IsLeader(nodes[l].rep, nodes[l].rep.current_view),
         nodes' = RoundOf(l, hash, NoOp)
  PROVE  LET leader == nodes[l].rep
             b == NewBlock(leader, leader.current_view, hash, NoOp)
         IN  \E qc :
               /\ qc = leader.high_qc \/ CertifiesNow(qc, b, leader)
               /\ \A r \in Up : \E t :
                    /\ IsNode(r, t)
                    /\ Mirrors(t)
                    /\ Told(t.rep, nodes[r].rep, b, qc)
                    /\ nodes'[r] = AdvanceAt(CommitAllAt(t))
<1> DEFINE leader == nodes[l].rep
           b == NewBlock(leader, leader.current_view, hash, NoOp)
           voters == {r \in GetsProposal(l) : AcceptsProposal(nodes[r].rep, b)}
           votes == {Sign(SignerOf[r], b) : r \in voters}
           counted == CountAt(ProposeAt(nodes[l], b), votes)
           qc == counted.rep.high_qc
           formed == qc # leader.high_qc
           voted(r) == IF r \in voters THEN AcceptAt(nodes[r], b) ELSE nodes[r]
           told(r) == IF r = l THEN counted
                      ELSE IF formed /\ r \in GetsQC(l)
                           THEN LearnAt(voted(r), qc) ELSE voted(r)
           all == [r \in Replicas |-> told(r)]
<1>1. nodes' = CommitAndAdvance(all)
  BY DEF RoundOf
<1>2. l \in Replicas /\ \A r \in Up : r \in Replicas
  BY DEF Up
<1>3. ASSUME NEW r \in Up
      PROVE  /\ IsNode(r, nodes[r])
             /\ IsRep(r, nodes[r].rep)
             /\ Mirrors(nodes[r])
             /\ nodes[r].rep.vote_pool = {}
             /\ Sound(nodes[r].rep)
             /\ InStep(leader, nodes[r].rep)
  BY UpIsLive, UpStands DEF NodesInv, StopInv, Lockstep, Up, IsNode
<1>4. \A r \in Up : AcceptsProposal(nodes[r].rep, b)
  <2> HIDE DEF leader
  <2>1. ASSUME NEW r \in Up
        PROVE  AcceptsProposal(nodes[r].rep, b)
    <3>1. IsLeader(leader, leader.current_view) /\ IsRep(l, leader)
          /\ Sound(leader)
      BY <1>3 DEF leader
    <3>2. IsRep(r, nodes[r].rep) /\ Sound(nodes[r].rep)
          /\ InStep(leader, nodes[r].rep)
      BY <1>3
    <3> QED
      BY <1>2, <3>1, <3>2, ProposalAccepted
  <2> QED
    BY <2>1
<1>5. /\ b \in Block
      /\ b.hash = hash
      /\ b.view = leader.current_view
      /\ b.epoch = leader.config_epoch
  <2>1. IsRep(l, leader) /\ leader.current_view \in Nat
    BY <1>3 DEF IsRep
  <2> HIDE DEF leader
  <2>2. /\ b \in Block
        /\ b.hash = hash
        /\ b.view = leader.current_view
    BY <1>2, <2>1, NewBlockType
  <2>3. b.epoch = leader.config_epoch
    BY DEF NewBlock
  <2> QED
    BY <2>2, <2>3
<1> HIDE DEF b
<1>6. voters = Up \ {l} /\ voters \in SUBSET Replicas /\ GetsQC(l) = Up \ {l}
  BY <1>4 DEF GetsProposal, GetsQC, Up
<1> HIDE DEF voters
<1>7. /\ IsFiniteSet(votes)
      /\ votes \subseteq Signature
      /\ \A v \in votes : v.block = b.hash
  BY <1>5, <1>6, VotesOf
<1>8. /\ Told(counted.rep, leader, b, qc)
      /\ qc = leader.high_qc \/ CertifiedBy(qc, votes)
      /\ IsNode(l, counted)
      /\ Mirrors(counted)
  <2> DEFINE n == nodes[l]
  <2>1. IsNode(l, n) /\ Mirrors(n) /\ n.rep.vote_pool = {}
    BY <1>3
  <2> HIDE DEF n, votes
  <2>2. LET q == CountAt(ProposeAt(n, b), votes).rep
        IN  /\ Told(q, n.rep, b, q.high_qc)
            /\ q.high_qc = n.rep.high_qc \/ CertifiedBy(q.high_qc, votes)
    BY <1>2, <1>5, <1>7, <2>1, LeaderMemory
  <2>3. \E certs : Follows(l, n, CountAt(ProposeAt(n, b), votes), {Ident(b)},
                           certs)
    BY <1>2, <1>5, <1>7, <2>1, LeaderCounts
  <2> QED
    BY <2>2, <2>3 DEF n, Follows
<1> HIDE DEF counted
<1>9. formed => CertifiesNow(qc, b, leader)
  <2>1. IsRep(l, leader)
    BY <1>3
  <2> DEFINE V == votes
  <2>2. V = {Sign(SignerOf[r], b) : r \in voters}
    OBVIOUS
  <2>3. formed => CertifiedBy(qc, V)
    BY <1>8
  <2> HIDE DEF leader, V, qc, formed
  <2> QED
    BY <1>5, <1>6, <2>1, <2>2, <2>3, CertifiedVerifies DEF CertifiesNow
<1> HIDE DEF votes
<1>10. ASSUME NEW r \in Up
       PROVE  /\ IsNode(r, told(r))
              /\ Mirrors(told(r))
              /\ Told(told(r).rep, nodes[r].rep, b, qc)
  <2>1. CASE r = l
    BY <1>8, <2>1
  <2>2. CASE r # l
    <3> DEFINE n == nodes[r]
               v == AcceptAt(n, b)
               m == IF formed THEN LearnAt(v, qc) ELSE v
    <3>1. told(r) = m
      BY <1>6, <2>2
    <3>2. /\ IsNode(r, n)
          /\ Mirrors(n)
          /\ AcceptsProposal(n.rep, b)
          /\ r \in Replicas
      BY <1>2, <1>3, <1>4
    <3>3. formed => NewerQC(qc, n.rep.high_qc)
      <4>1. /\ Sound(n.rep)
            /\ InStep(leader, n.rep)
            /\ Sound(leader)
        BY <1>3
      <4>2. formed => qc.epoch = 0 /\ qc.view = leader.current_view
        BY <1>5, <1>9, <4>1 DEF CertifiesNow, Sound
      <4>3. n.rep.high_qc # None => /\ n.rep.high_qc.epoch = 0
                                    /\ n.rep.high_qc.view < leader.current_view
        BY <4>1 DEF Sound, InStep
      <4> QED
        BY <4>2, <4>3 DEF NewerQC
    <3>4. ~formed => qc = n.rep.high_qc
      BY <1>3 DEF InStep
    <3>5. formed \in BOOLEAN
      OBVIOUS
    <3>6. formed => qc \in QC /\ qc.block \in {hash}
      BY <1>5, <1>9 DEF CertifiesNow
    <3> HIDE DEF n, qc, formed
    <3>7. Told(m.rep, n.rep, b, qc)
      BY <3>2, <3>3, <3>4, <3>5, FollowerMemory
    <3>8. IsNode(r, m) /\ Mirrors(m)
      <4> DEFINE heard == formed
                 voted_ == TRUE
                 w == IF voted_ THEN AcceptAt(n, b) ELSE n
                 k == IF heard THEN LearnAt(w, qc) ELSE w
      <4>1. Follows(r, n, k, {Ident(b)}, {hash})
        BY <1>5, <3>2, <3>5, <3>6, FollowerHears
      <4>2. k = m
        OBVIOUS
      <4> QED
        BY <4>1, <4>2 DEF Follows
    <3> QED
      BY <3>1, <3>7, <3>8 DEF n
  <2> QED
    BY <2>1, <2>2
<1> HIDE DEF told
<1>11. \A r \in Up : nodes'[r] = AdvanceAt(CommitAllAt(told(r)))
  BY <1>1, <1>2 DEF CommitAndAdvance
<1>12. qc = leader.high_qc \/ CertifiesNow(qc, b, leader)
  BY <1>9
<1> HIDE DEF qc
<1> QED
  BY <1>10, <1>11, <1>12 DEF b

\* A crash empties the log in memory and leaves the disk.
LEMMA CrashMemory ==
  ASSUME NEW r, NEW n, IsNode(r, n)
  PROVE  /\ CrashAt(r, n).rep.committed_log = <<>>
         /\ CrashAt(r, n).disk = n.disk
  BY DEF CrashAt, IsNode, FreshReplica

LEMMA NodesNowMemory ==
  ASSUME NodesInv, StopInv, NEW r \in Replicas
  PROVE  /\ r \in CrashedNow => NodesNow[r].rep.committed_log = <<>>
         /\ NodesNow[r].disk = nodes[r].disk
<1>1. CASE r \in TimedOut
  <2>1. NodesNow[r] = CrashAt(r, nodes[r])
    BY <1>1 DEF NodesNow
  <2> QED
    BY <2>1, CrashMemory DEF NodesInv
<1>2. CASE r \notin TimedOut
  <2>1. NodesNow[r] = nodes[r]
    BY <1>2 DEF NodesNow
  <2> QED
    BY <1>2, <2>1 DEF CrashedNow, StopInv
<1> QED
  BY <1>1, <1>2

\* What is left to show of a round: that those who are up stay in step.
LEMMA RoundKeepsStop ==
  ASSUME Inv, Inv', StopInv, RoundFrame,
         \A r \in Replicas : Grows(nodes[r], nodes'[r]),
         \A r \in Replicas \ Up : nodes'[r] = NodesNow[r],
         \A r \in Up : Sound(nodes'[r].rep),
         \A r, s \in Up : InStep(nodes'[r].rep, nodes'[s].rep)
  PROVE  StopInv'
<1>1. /\ Down' = Down
      /\ Standing' = Up
      /\ Up = Standing
      /\ crashed' = CrashedNow
      /\ Up \subseteq Live /\ Up \subseteq Live' /\ Up \subseteq Replicas
  BY UpStands, UpIsLive DEF RoundFrame, Down, Standing, Live, Up
<1>2. ASSUME NEW r \in crashed'
      PROVE  nodes'[r].rep.committed_log = <<>>
  <2>1. r \in Replicas \ Up
    BY <1>1 DEF Up, Inv, FieldsInv
  <2> QED
    BY <1>1, <2>1, NodesNowMemory DEF Inv
<1>3. \A r \in Replicas : /\ nodes[r].disk.committed_log \in Seq(Nat)
                          /\ nodes'[r].disk.committed_log \in Seq(Nat)
  BY DEF Inv, NodesInv, IsNode, IsDisk
<1>4. \A r \in Up :
        /\ nodes[r].rep.committed_log = nodes[r].disk.committed_log
        /\ nodes'[r].rep.committed_log = nodes'[r].disk.committed_log
  BY <1>1 DEF Inv, NodesInv, Mirrors
<1>5. ASSUME NEW r \in Up, NEW s \in Replicas
      PROVE  IsPrefix(nodes'[s].disk.committed_log,
                      nodes'[r].rep.committed_log)
  <2>1. CASE s \in Up
    <3>1. nodes'[s].rep.committed_log = nodes'[r].rep.committed_log
      BY <2>1 DEF InStep
    <3>2. nodes'[s].disk.committed_log = nodes'[r].rep.committed_log
      BY <1>4, <2>1, <3>1
    <3> QED
      BY <1>3, <3>2, PrefixRefl
  <2>2. CASE s \notin Up
    <3>1. nodes'[s].disk = nodes[s].disk
      BY <2>2, NodesNowMemory DEF Inv
    <3>2. IsPrefix(nodes[s].disk.committed_log, nodes[r].disk.committed_log)
      BY <1>1, <1>4 DEF StopInv, Lockstep
    <3>3. IsPrefix(nodes[r].disk.committed_log, nodes'[r].disk.committed_log)
      BY <1>1 DEF Grows
    <3>4. r \in Replicas
      BY <1>1
    <3>5. IsPrefix(nodes[s].disk.committed_log, nodes'[r].disk.committed_log)
      BY <1>3, <3>2, <3>3, <3>4, PrefixTrans
    <3> QED
      BY <1>4, <3>1, <3>5
  <2> QED
    BY <2>1, <2>2
<1>6. Lockstep'
  BY <1>1, <1>5 DEF Lockstep
<1> QED
  BY <1>1, <1>2, <1>6 DEF StopInv

\* A round without a proposal.
LEMMA TimeoutRoundStop ==
  ASSUME Inv, Inv', StopInv, LeaderSilentRound \/ NoProposalRound,
         \A r \in Replicas : Grows(nodes[r], nodes'[r])
  PROVE  StopInv'
<1>1. RoundFrame /\ nodes' = ViewTimeoutOf(NodesNow)
  BY DEF LeaderSilentRound, NoProposalRound
<1>2. /\ \A r \in Replicas \ Up : nodes'[r] = NodesNow[r]
      /\ \A r \in Up : nodes'[r] = AdvanceAt(nodes[r])
  BY <1>1, UpIsLive DEF ViewTimeoutOf, Up
<1>3. ASSUME NEW r \in Up
      PROVE  LET q == nodes'[r].rep
                 p == nodes[r].rep
             IN  /\ IsRep(r, p)
                 /\ IsRep(r, q)
                 /\ q.current_view = p.current_view + 1
                 /\ q.block_tree = p.block_tree
                 /\ q.high_qc = p.high_qc
                 /\ q.config_epoch = p.config_epoch
                 /\ q.committed_log = p.committed_log
  <2>1. IsNode(r, nodes[r]) /\ IsNode(r, nodes[r]')
    BY DEF Inv, NodesInv, Up
  <2>2. LET q == AdvanceAt(nodes[r]).rep
        IN  /\ q.current_view = nodes[r].rep.current_view + 1
            /\ \A f \in Fields \ {"current_view", "vote_pool"} :
                 q[f] = nodes[r].rep[f]
    BY <2>1, AdvanceMemory
  <2> QED
    BY <1>2, <2>1, <2>2 DEF IsNode, Fields
<1>4. ASSUME NEW r \in Up
      PROVE  Sound(nodes'[r].rep)
  <2> DEFINE q == nodes'[r].rep
             p == nodes[r].rep
  <2>1. Sound(p)
    BY UpStands DEF StopInv
  <2>2. /\ IsRep(r, p)
        /\ IsRep(r, q)
        /\ q.current_view = p.current_view + 1
        /\ q.block_tree = p.block_tree
        /\ q.high_qc = p.high_qc
        /\ q.config_epoch = p.config_epoch
        /\ q.committed_log = p.committed_log
    BY <1>3
  <2> HIDE DEF p, q
  <2>3. IsInjective(q.committed_log)
    BY <2>1, <2>2 DEF Sound
  <2>4. Sound(q)
    BY <2>1, <2>2, <2>3, NextViewIsSound
  <2> QED
    BY <2>4 DEF q
<1>5. \A r, s \in Up : InStep(nodes'[r].rep, nodes'[s].rep)
  BY <1>3, UpStands DEF StopInv, Lockstep, InStep
<1> QED
  BY <1>1, <1>2, <1>4, <1>5, RoundKeepsStop

\* A round with a proposal.
LEMMA ProposalRoundStop ==
  ASSUME Inv, Inv', StopInv, ProposalRound,
         \A r \in Replicas : Grows(nodes[r], nodes'[r])
  PROVE  StopInv'
<1> DEFINE l == CurrentLeader
           leader == nodes[l].rep
           b == NewBlock(leader, leader.current_view, nextHash, NoOp)
<1>1. /\ RoundFrame
      /\ l \in Up
      /\ IsLeader(leader, leader.current_view)
      /\ nodes' = RoundOf(l, nextHash, NoOp)
  BY DEF ProposalRound
<1>2. NodesInv /\ nextHash \in Nat
  BY DEF Inv, FieldsInv
<1>3. \A r \in Replicas \ Up : nodes'[r] = NodesNow[r]
  BY <1>1 DEF RoundOf, CommitAndAdvance
<1> HIDE DEF l
<1>4. PICK qc :
        /\ qc = leader.high_qc \/ CertifiesNow(qc, b, leader)
        /\ \A r \in Up : \E t :
             /\ IsNode(r, t)
             /\ Mirrors(t)
             /\ Told(t.rep, nodes[r].rep, b, qc)
             /\ nodes'[r] = AdvanceAt(CommitAllAt(t))
  BY <1>1, <1>2, ProposalMemory
<1>5. ASSUME NEW r \in Up
      PROVE  /\ r \in Replicas
             /\ IsNode(r, nodes[r])
             /\ IsRep(r, nodes[r].rep)
             /\ Sound(nodes[r].rep)
             /\ InStep(leader, nodes[r].rep)
  BY <1>1, <1>2, UpStands DEF NodesInv, IsNode, StopInv, Lockstep, Up
<1>6. /\ b \in Block
      /\ b.view = leader.current_view
      /\ b.epoch = 0
  <2>1. IsRep(l, leader) /\ leader.current_view \in Nat /\ Sound(leader)
        /\ l \in Replicas
    BY <1>1, <1>5 DEF IsRep
  <2> HIDE DEF leader
  <2>2. b \in Block /\ b.view = leader.current_view
    BY <1>2, <2>1, NewBlockType
  <2>3. b.epoch = leader.config_epoch
    BY DEF NewBlock
  <2> QED
    BY <2>1, <2>2, <2>3 DEF Sound
<1> HIDE DEF b
<1>7. ASSUME NEW r \in Up
      PROVE  Sound(nodes'[r].rep)
  <2> DEFINE n == nodes[r]
  <2>1. PICK t : /\ IsNode(r, t)
                 /\ Mirrors(t)
                 /\ Told(t.rep, n.rep, b, qc)
                 /\ nodes'[r] = AdvanceAt(CommitAllAt(t))
    BY <1>4
  <2>2. /\ r \in Replicas
        /\ IsNode(r, n)
        /\ Sound(n.rep)
        /\ b.view = n.rep.current_view
        /\ n.rep.high_qc = leader.high_qc
    BY <1>5, <1>6 DEF InStep
  <2>3. CertifiesNow(qc, b, leader) => CertifiesNow(qc, b, n.rep)
    <3>1. IsRep(l, leader) /\ IsRep(r, n.rep)
      BY <1>1, <1>5
    <3> QED
      BY <3>1, VerifiesAlike DEF CertifiesNow
  <2>4. qc = n.rep.high_qc \/ CertifiesNow(qc, b, n.rep)
    BY <1>4, <2>2, <2>3
  <2> HIDE DEF n
  <2>5. b.view <= n.rep.current_view
    <3>1. n.rep.current_view \in Nat
      BY <2>2 DEF IsNode, IsRep
    <3> QED
      BY <2>2, <3>1
  <2>6. Sound(AdvanceAt(CommitAllAt(t)).rep)
    BY <1>6, <2>1, <2>2, <2>4, <2>5, ToldIsSound
  <2> QED
    BY <2>1, <2>6
<1>8. ASSUME NEW r \in Up, NEW s \in Up
      PROVE  InStep(nodes'[r].rep, nodes'[s].rep)
  <2>1. PICK t : /\ IsNode(r, t)
                 /\ Mirrors(t)
                 /\ Told(t.rep, nodes[r].rep, b, qc)
                 /\ nodes'[r] = AdvanceAt(CommitAllAt(t))
    BY <1>4
  <2>2. PICK u : /\ IsNode(s, u)
                 /\ Mirrors(u)
                 /\ Told(u.rep, nodes[s].rep, b, qc)
                 /\ nodes'[s] = AdvanceAt(CommitAllAt(u))
    BY <1>4
  <2>3. /\ InStep(nodes[r].rep, nodes[s].rep)
        /\ r \in Replicas /\ s \in Replicas
    BY <1>5, UpStands DEF StopInv, Lockstep
  <2>4. InStep(AdvanceAt(CommitAllAt(t)).rep, AdvanceAt(CommitAllAt(u)).rep)
    BY <2>1, <2>2, <2>3, ToldInStep
  <2> QED
    BY <2>1, <2>2, <2>4
<1> QED
  BY <1>1, <1>3, <1>7, <1>8, RoundKeepsStop

\* A step in which the replicas that stand do nothing.
LEMMA FaultKeepsStop ==
  ASSUME Inv, StopInv, Standing' \subseteq Standing,
         Cardinality(Down') <= MaxFaulty,
         \A r \in Standing' : nodes'[r] = nodes[r],
         \A r \in Replicas : nodes'[r].disk = nodes[r].disk,
         \A r \in crashed' : nodes'[r].rep.committed_log = <<>>
  PROVE  StopInv'
<1>1. Lockstep'
  BY DEF StopInv, Lockstep
<1>2. \A r \in Standing' : Sound(nodes'[r].rep)
  BY DEF StopInv
<1> QED
  BY <1>1, <1>2 DEF StopInv

\* set_replica_unresponsive and crash_replica.
LEMMA FaultStop ==
  ASSUME Inv, StopInv, NEW r \in Replicas, FallSilent(r) \/ CrashReplica(r)
  PROVE  StopInv'
<1>1. Down' = Down \cup {r} /\ crashed' \in {crashed, crashed \cup {r}}
  BY DEF FallSilent, CrashReplica, Down
<1>2. Standing' \subseteq Standing /\ r \notin Standing'
  BY <1>1 DEF Standing
<1>3. Cardinality(Down') <= MaxFaulty
  <2>1. CASE r \in Down
    <3>1. Down' = Down
      BY <1>1, <2>1
    <3> QED
      BY <3>1 DEF StopInv
  <2>2. CASE r \notin Down
    <3>1. Cardinality(Down) < MaxFaulty
      BY <2>2 DEF FallSilent, CrashReplica, MayFail, Down
    <3>2. IsFiniteSet(Down)
      <4>1. Down \in SUBSET Replicas
        BY DEF Down, Inv, FieldsInv
      <4> QED
        BY <4>1, ReplicasFinite, FS_Subset
    <3>3. Cardinality(Down \cup {r}) = Cardinality(Down) + 1
      BY <2>2, <3>2, FS_AddElement
    <3>4. Cardinality(Down) \in Nat /\ MaxFaulty \in Nat
      BY <3>2, FS_CardinalityType, SimulationAssumption
    <3> QED
      BY <1>1, <3>1, <3>3, <3>4
  <2> QED
    BY <2>1, <2>2
<1>4. CASE FallSilent(r)
  <2>1. nodes' = nodes /\ crashed' = crashed
    BY <1>4 DEF FallSilent
  <2> QED
    BY <1>2, <1>3, <2>1, FaultKeepsStop DEF StopInv
<1>5. CASE CrashReplica(r)
  <2>1. /\ nodes'[r] = CrashAt(r, nodes[r])
        /\ \A s \in Replicas \ {r} : nodes'[s] = nodes[s]
        /\ crashed' = crashed \cup {r}
    BY <1>5 DEF CrashReplica, Inv, NodesInv
  <2>2. /\ nodes'[r].rep.committed_log = <<>>
        /\ nodes'[r].disk = nodes[r].disk
    BY <2>1, CrashMemory DEF Inv, NodesInv
  <2>3. \A s \in Replicas : nodes'[s].disk = nodes[s].disk
    BY <2>1, <2>2
  <2>4. \A s \in crashed' : nodes'[s].rep.committed_log = <<>>
    BY <2>1, <2>2 DEF StopInv, Inv, FieldsInv
  <2>5. \A s \in Standing' : nodes'[s] = nodes[s]
    BY <1>2, <2>1 DEF Standing
  <2> QED
    BY <1>2, <1>3, <2>3, <2>4, <2>5, FaultKeepsStop
<1> QED
  BY <1>4, <1>5

\* A call of run_one_round that is refused.
LEMMA RefusedStop ==
  ASSUME Inv, Inv', StopInv, RefusedRound
  PROVE  StopInv'
<1>1. /\ nodes' = NodesNow
      /\ Down' = Down
      /\ Standing' = Standing
      /\ Standing = Up
      /\ crashed' = CrashedNow
      /\ crashed' \subseteq Replicas
  BY UpStands DEF RefusedRound, Down, Standing, Inv, FieldsInv
<1>2. \A r \in Standing' : nodes'[r] = nodes[r]
  BY <1>1, UpIsLive DEF Up
<1>3. \A r \in Replicas : nodes'[r].disk = nodes[r].disk
  BY <1>1, NodesNowMemory DEF Inv
<1>4. \A r \in crashed' : nodes'[r].rep.committed_log = <<>>
  BY <1>1, NodesNowMemory DEF Inv
<1> QED
  BY <1>1, <1>2, <1>3, <1>4, FaultKeepsStop DEF StopInv

\* Every step but those that bring a replica back.
LEMMA StepStop ==
  ASSUME Inv, StopInv, [Next /\ StopsForGood]_vars
  PROVE  StopInv'
<1>1. /\ Inv'
      /\ \A r \in Replicas : Grows(nodes[r], nodes'[r])
  <2>1. [Next]_vars
    OBVIOUS
  <2> QED
    BY <2>1, StepKeeps
<1>2. CASE LeaderSilentRound \/ NoProposalRound
  BY <1>1, <1>2, TimeoutRoundStop
<1>3. CASE ProposalRound
  BY <1>1, <1>3, ProposalRoundStop
<1>4. ASSUME NEW r \in Replicas, FallSilent(r) \/ CrashReplica(r)
      PROVE  StopInv'
  BY <1>4, FaultStop
<1>5. ASSUME NEW r \in Replicas, Resume(r) \/ RecoverReplica(r)
      PROVE  ~StopsForGood
  BY <1>5 DEF Resume, RecoverReplica, StopsForGood, Down, Inv, FieldsInv
<1>6. ASSUME RestartAll
      PROVE  ~StopsForGood
  BY <1>6 DEF RestartAll, StopsForGood, Inv, FieldsInv
<1>7. CASE UNCHANGED vars
  BY <1>7 DEF vars, StopInv, Lockstep, Standing, Down
<1>8. CASE RefusedRound
  BY <1>1, <1>8, RefusedStop
<1> QED
  BY <1>2, <1>3, <1>4, <1>5, <1>6, <1>7, <1>8 DEF Next, RunOneRound

LEMMA InitStop ==
  ASSUME Init
  PROVE  StopInv
<1>1. /\ crashed = {} /\ unresponsive = {}
      /\ Down = {}
      /\ \A r \in Replicas :
           nodes[r] = LET rep == FreshReplica(r, Replicas, Replicas)
                      IN  [rep |-> rep, disk |-> FreshDisk(rep)]
  BY DEF Init, Down
<1>2. ASSUME NEW r \in Replicas
      PROVE  LET rep == nodes[r].rep
             IN  /\ rep.current_view = 0
                 /\ rep.block_tree = [h \in {0} |-> Genesis]
                 /\ rep.high_qc = None
                 /\ rep.committed_log = <<>>
                 /\ rep.config_epoch = 0
                 /\ nodes[r].disk.committed_log = <<>>
  <2> DEFINE f == FreshReplica(r, Replicas, Replicas)
             n == [rep |-> f, disk |-> FreshDisk(f)]
  <2>1. nodes[r] = n
    BY <1>1
  <2>2. Mirrors(n) /\ n.rep = f
    BY FreshNode
  <2> HIDE DEF n
  <2>3. /\ n.rep.current_view = 0
        /\ n.rep.block_tree = [h \in {0} |-> Genesis]
        /\ n.rep.high_qc = None
        /\ n.rep.committed_log = <<>>
        /\ n.rep.config_epoch = 0
    BY <2>2 DEF FreshReplica
  <2>4. n.disk.committed_log = <<>>
    BY <2>2, <2>3 DEF Mirrors
  <2> QED
    BY <2>1, <2>3, <2>4
<1>3. Lockstep
  <2>1. IsPrefix(<<>>, <<>>)
    <3>1. <<>> \in Seq(Nat)
      OBVIOUS
    <3> QED
      BY <3>1, PrefixEmpty
  <2> QED
    BY <1>2, <2>1 DEF Lockstep, InStep, Standing
<1>4. \A r \in Standing : Sound(nodes[r].rep)
  BY <1>2 DEF Standing, Sound, IsInjective
<1>5. Cardinality(Down) <= MaxFaulty
  <2>1. Cardinality({}) = 0
    BY FS_EmptySet
  <2> QED
    BY <1>1, <2>1, SimulationAssumption
<1> QED
  BY <1>1, <1>3, <1>4, <1>5 DEF StopInv

LEMMA StopInvariance == CrashStopSpec => [](Inv /\ StopInv)
<1>1. Init => Inv /\ StopInv
  BY InitKeeps, InitStop
<1>2. (Inv /\ StopInv) /\ [Next /\ StopsForGood]_vars => (Inv /\ StopInv)'
  <2>1. SUFFICES ASSUME Inv, StopInv, [Next /\ StopsForGood]_vars
                 PROVE  Inv' /\ StopInv'
    OBVIOUS
  <2>2. [Next]_vars
    BY <2>1
  <2> QED
    BY <2>1, <2>2, StepKeeps, StepStop
<1> QED
  BY <1>1, <1>2, PTL DEF CrashStopSpec

(***************************************************************************)
(* The properties.                                                         *)
(***************************************************************************)
\* The replicas that never stopped are in lockstep and have executed all that
\* was executed anywhere: run_one_round tells all of them the same, and none
\* of them refuses what a leader among them proposes.
THEOREM StandingInLockstep == CrashStopSpec => []Lockstep
<1>1. StopInv => Lockstep
  BY DEF StopInv
<1> QED
  BY <1>1, StopInvariance, PTL

\* The certificate of one of them is accepted by each of them.
THEOREM CertificatesAreHonoured == CrashStopSpec => []CertificateHonoured
<1>1. ASSUME Inv, StopInv, NEW r \in Standing, NEW s \in Standing,
             nodes[r].rep.high_qc # None
      PROVE  LET qc  == nodes[r].rep.high_qc
                 rep == nodes[s].rep
             IN  /\ qc.epoch = rep.config_epoch
                 /\ qc.block \in DOMAIN rep.block_tree
                 /\ VerifiesQC(rep, qc)
  <2>1. /\ Sound(nodes[s].rep)
        /\ InStep(nodes[r].rep, nodes[s].rep)
    BY <1>1 DEF StopInv, Lockstep
  <2> QED
    BY <1>1, <2>1 DEF Sound, InStep
<1>2. Inv /\ StopInv => CertificateHonoured
  BY <1>1 DEF CertificateHonoured, Honours
<1> QED
  BY <1>2, StopInvariance, PTL

\* The longest log on a disk is the log of any replica that stands.
LEMMA LongestStands ==
  ASSUME Inv, StopInv, NEW r \in Standing
  PROVE  LongestLog = nodes[r].rep.committed_log
<1> DEFINE logs == {nodes[s].disk.committed_log : s \in Replicas}
           mine == nodes[r].rep.committed_log
           IsLongest(log) == /\ log \in logs
                             /\ \A other \in logs : Len(other) <= Len(log)
<1>1. /\ logs \subseteq Seq(Nat)
      /\ mine \in logs
  <2>1. r \in Replicas /\ r \in Live
    BY DEF Standing, Down, Live
  <2> QED
    BY <2>1 DEF Inv, NodesInv, Mirrors, IsNode, IsDisk
<1>2. \A log \in logs : IsPrefix(log, mine)
  BY DEF StopInv, Lockstep
<1>3. LongestLog = CHOOSE log : IsLongest(log)
  BY DEF LongestLog
<1> HIDE DEF logs, mine
<1>4. \A log \in logs : Len(log) <= Len(mine)
  BY <1>1, <1>2, PrefixMeans
<1>5. IsLongest(LongestLog)
  <2>1. IsLongest(mine)
    BY <1>1, <1>4
  <2> HIDE DEF IsLongest
  <2> QED
    BY <1>3, <2>1, Zenon
<1> DEFINE longest == LongestLog
<1>6. longest \in Seq(Nat) /\ Len(longest) = Len(mine)
  BY <1>1, <1>4, <1>5
<1>7. longest = mine
  BY <1>1, <1>2, <1>5, <1>6, PrefixWhole
<1> QED
  BY <1>7 DEF mine

\* What the memories hold of the ledger.
CopiesOfLedger ==
  /\ LongestLog \in Seq(Nat)
  /\ IsInjective(LongestLog)
  /\ \A r \in Replicas :
       /\ nodes[r].rep.committed_log \in Seq(Nat)
       /\ nodes[r].disk.committed_log \in Seq(Nat)
       /\ IsPrefix(nodes[r].rep.committed_log, LongestLog)
       /\ IsPrefix(nodes[r].disk.committed_log, LongestLog)

LEMMA CopiesFollow == Inv /\ StopInv => CopiesOfLedger
<1> SUFFICES ASSUME Inv, StopInv
             PROVE  CopiesOfLedger
  OBVIOUS
<1>1. PICK r \in Standing : TRUE
  BY SomebodyStands DEF Inv, StopInv
<1>2. LongestLog = nodes[r].rep.committed_log
  BY LongestStands
<1>3. r \in Replicas
  BY DEF Standing
<1>4. \A s \in Replicas : /\ nodes[s].rep.committed_log \in Seq(Nat)
                          /\ nodes[s].disk.committed_log \in Seq(Nat)
  BY DEF Inv, NodesInv, IsNode, IsRep, IsDisk
<1>5. IsInjective(LongestLog)
  BY <1>2 DEF StopInv, Sound
<1>6. \A s \in Replicas : IsPrefix(nodes[s].disk.committed_log, LongestLog)
  BY <1>2 DEF StopInv, Lockstep
<1>7. ASSUME NEW s \in Replicas
      PROVE  IsPrefix(nodes[s].rep.committed_log, LongestLog)
  <2>1. CASE s \in crashed
    <3>1. nodes[s].rep.committed_log = <<>>
      BY <2>1 DEF StopInv
    <3> QED
      BY <1>2, <1>3, <1>4, <3>1, PrefixEmpty
  <2>2. CASE s \notin crashed
    <3>1. nodes[s].rep.committed_log = nodes[s].disk.committed_log
      BY <2>2 DEF Inv, NodesInv, Mirrors, Live
    <3> QED
      BY <1>6, <3>1
  <2> QED
    BY <2>1, <2>2
<1> QED
  BY <1>2, <1>3, <1>4, <1>5, <1>6, <1>7 DEF CopiesOfLedger

LEMMA LedgerStarts ==
  ASSUME Init
  PROVE  Promise!Init
<1>1. Inv /\ StopInv
  BY InitKeeps, InitStop
<1>2. PICK r \in Standing : TRUE
  BY <1>1, SomebodyStands DEF Inv, StopInv
<1>3. \A s \in Replicas : nodes[s].rep.committed_log = <<>>
  BY DEF Init, FreshReplica
<1>4. LongestLog = <<>>
  BY <1>1, <1>2, <1>3, LongestStands DEF Standing
<1> QED
  BY <1>3, <1>4 DEF Promise!Init

\* A step of the cluster is a step of the ledger, in which those who are
\* crashed after it have no copy.
LEMMA LedgerExtends ==
  ASSUME Inv, StopInv, [Next /\ StopsForGood]_vars
  PROVE  Promise!Extend
<1>1. /\ Inv' /\ StopInv'
      /\ \A r \in Replicas : Grows(nodes[r], nodes'[r])
  <2>1. [Next]_vars
    OBVIOUS
  <2> QED
    BY <2>1, StepKeeps, StepStop
<1>2. CopiesOfLedger
  BY CopiesFollow
<1>3. CopiesOfLedger'
  <2>1. (Inv /\ StopInv)' => CopiesOfLedger'
    BY CopiesFollow, PTL
  <2> QED
    BY <1>1, <2>1
<1>4. IsPrefix(LongestLog, LongestLog')
  <2>1. PICK r \in Standing : TRUE
    BY SomebodyStands DEF Inv, StopInv
  <2>2. r \in Replicas /\ LongestLog = nodes[r].disk.committed_log
    BY LongestStands DEF Standing, Down, Inv, NodesInv, Live, Mirrors
  <2>3. IsPrefix(nodes[r].disk.committed_log, nodes'[r].disk.committed_log)
    BY <1>1, <2>2 DEF Grows
  <2> QED
    BY <1>2, <1>3, <2>2, <2>3, PrefixTrans DEF CopiesOfLedger
<1>5. ASSUME NEW r \in Replicas, r \notin crashed'
      PROVE  IsPrefix(nodes[r].rep.committed_log, nodes'[r].rep.committed_log)
  <2>1. nodes'[r].rep.committed_log = nodes'[r].disk.committed_log
    BY <1>1, <1>5 DEF Inv, NodesInv, Live, Mirrors
  <2>2. CASE r \in crashed
    <3>1. nodes[r].rep.committed_log = <<>>
      BY <2>2 DEF StopInv
    <3> QED
      BY <1>3, <3>1, PrefixEmpty DEF CopiesOfLedger
  <2>3. CASE r \notin crashed
    <3>1. nodes[r].rep.committed_log = nodes[r].disk.committed_log
      BY <2>3 DEF Inv, NodesInv, Live, Mirrors
    <3> QED
      BY <1>1, <2>1, <3>1 DEF Grows
  <2> QED
    BY <2>2, <2>3
<1>6. \A r \in crashed' : nodes'[r].rep.committed_log = <<>>
  BY <1>1 DEF StopInv
<1>7. crashed' \in SUBSET Replicas
  BY <1>1 DEF Inv, FieldsInv
<1>8. ASSUME NEW lost, lost = crashed'
      PROVE  Promise!Follow(lost)
  BY <1>3, <1>5, <1>6, <1>8
  DEF Promise!Follow, Promise!IsPrefix, IsPrefix, CopiesOfLedger
<1> QED
  <2>1. LongestLog' \in Seq(Nat) /\ Promise!IsInjective(LongestLog')
    BY <1>3 DEF CopiesOfLedger, Promise!IsInjective, IsInjective
  <2>2. Promise!IsPrefix(LongestLog, LongestLog')
    BY <1>4 DEF Promise!IsPrefix, IsPrefix
  <2>3. \E lost \in SUBSET Replicas : Promise!Follow(lost)
    BY <1>7, <1>8
  <2> QED
    BY <2>1, <2>2, <2>3 DEF Promise!Extend

\* The cluster keeps its promise when replicas stop for good: one ledger, of
\* which the memory of every replica that is up holds a prefix, which no crash
\* shortens or rewrites and which holds nothing twice.
THEOREM CrashStopImplementsLedger == CrashStopSpec => ImplementsLedger
<1>1. Init => Promise!Init
  BY LedgerStarts
<1>2. (Inv /\ StopInv) /\ [Next /\ StopsForGood]_vars
        => [Promise!Extend]_<<LongestLog,
                              [r \in Replicas |-> nodes[r].rep.committed_log]>>
  BY LedgerExtends
<1> QED
  BY <1>1, <1>2, StopInvariance, PTL
  DEF CrashStopSpec, ImplementsLedger, Promise!Spec

\* verify_safety succeeds whenever it is called: the logs of the replicas that
\* are up agree as far as both go, however many of the others have stopped.
\* Replicas that come back can break this.
THEOREM CrashStopAgrees == CrashStopSpec => []Agreement
<1>1. ASSUME CopiesOfLedger, NEW r \in Replicas, NEW s \in Replicas
      PROVE  LET a == nodes[r].rep.committed_log
                 b == nodes[s].rep.committed_log
             IN  IsPrefix(a, b) \/ IsPrefix(b, a)
  BY <1>1, PrefixesCompare DEF CopiesOfLedger
<1>2. ASSUME CopiesOfLedger, Live # {}
      PROVE  Min(Live) \in Replicas
  <2>1. Live \subseteq Replicas /\ Replicas \subseteq Nat
    BY SimulationAssumption DEF Live, Replicas
  <2> QED
    BY <1>2, <2>1, MinMeans
<1>3. CopiesOfLedger => Agreement
  BY <1>1, <1>2 DEF Agreement, VerifySafety, Live
<1>4. Inv /\ StopInv => CopiesOfLedger
  BY CopiesFollow
<1> QED
  BY <1>3, <1>4, StopInvariance, PTL

(***************************************************************************)
(* One branch.  No locking rule of the code says so.  It holds because a   *)
(* leader builds on its highest certificate: the certified blocks of a     *)
(* tree are a chain, each the parent of the next, and only certified       *)
(* blocks are executed.                                                    *)
(***************************************************************************)
\* The blocks whose certificate is in a block or is the highest one.
Certified(rep) ==
  {rep.block_tree[h].parent :
     h \in {g \in DOMAIN rep.block_tree : rep.block_tree[g].qc # None}}
  \cup (IF rep.high_qc = None THEN {} ELSE {rep.high_qc.block})

\* The certified blocks are a chain up to the highest certificate, and those
\* that are executed are among them.
Spine(rep) ==
  /\ Certified(rep) \subseteq DOMAIN rep.block_tree
  /\ rep.high_qc = None => Certified(rep) = {}
  /\ rep.high_qc # None => \A c \in Certified(rep) : c <= rep.high_qc.block
  /\ \A g, h \in Certified(rep) :
       g < h => LET p == rep.block_tree[h].parent
                IN  p \in Certified(rep) /\ g <= p
  /\ \A i \in DOMAIN rep.committed_log : rep.committed_log[i] \in Certified(rep)

\* Hashes grow from parent to child, and are below a bound.
Ordered(tree, bound) ==
  \A h \in DOMAIN tree :
    /\ h < bound
    /\ tree[h].parent # None => /\ tree[h].parent \in DOMAIN tree
                                /\ tree[h].parent < h

ForkInv ==
  /\ \A r \in Replicas : Ordered(nodes[r].rep.block_tree, nextHash)
  /\ \A r \in Standing : Spine(nodes[r].rep)

\* What NewBlock puts into a block of that hash.
Extends(b, rep, hash) ==
  /\ b.hash = hash
  /\ b.qc = rep.high_qc
  /\ b.parent = IF rep.high_qc # None THEN rep.high_qc.block
                ELSE LatestBlock(rep.block_tree)

\* The proposal extends the tree upwards.
LEMMA OrderGrows ==
  ASSUME NEW r, NEW rep, IsRep(r, rep), Sound(rep),
         NEW hash \in Nat, Ordered(rep.block_tree, hash),
         NEW b, Extends(b, rep, hash)
  PROVE  /\ b.parent \in DOMAIN rep.block_tree
         /\ Ordered(InsertBlock(rep.block_tree, b), hash + 1)
<1> DEFINE tree == rep.block_tree
           t == InsertBlock(tree, b)
<1>1. b.parent \in DOMAIN tree
  <2>1. LatestBlock(tree) \in DOMAIN tree
    BY LatestBlockKnown DEF IsRep
  <2> QED
    BY <2>1 DEF Extends, Sound
<1>2. /\ DOMAIN t = DOMAIN tree \cup {hash}
      /\ t[hash] = b
      /\ \A h \in DOMAIN tree : h # hash => t[h] = tree[h]
  BY DEF InsertBlock, Extends
<1>3. DOMAIN tree \subseteq Nat
  BY DEF IsRep, IsTree
<1> HIDE DEF t
<1>4. Ordered(t, hash + 1)
  BY <1>1, <1>2, <1>3 DEF Ordered
<1> QED
  BY <1>1, <1>4 DEF t

\* The certified blocks after a round: the new one may have joined them.
LEMMA CertifiedGrows ==
  ASSUME NEW r, NEW rep, IsRep(r, rep), Sound(rep), Spine(rep),
         NEW hash \in Nat, Ordered(rep.block_tree, hash),
         NEW b, Extends(b, rep, hash),
         NEW qc, qc = rep.high_qc \/ (qc # None /\ qc.block = hash),
         NEW q, Told(q, rep, b, qc)
  PROVE  Certified(q) = Certified(rep) \cup
                        (IF qc = rep.high_qc THEN {} ELSE {hash})
<1> DEFINE tree == rep.block_tree
<1>1. /\ DOMAIN q.block_tree = DOMAIN tree \cup {hash}
      /\ q.block_tree[hash] = b
      /\ \A h \in DOMAIN tree : q.block_tree[h] = tree[h]
      /\ hash \notin DOMAIN tree
      /\ q.high_qc = qc
  <2>1. hash \notin DOMAIN tree
    BY DEF Ordered
  <2> QED
    BY <2>1 DEF Told, InsertBlock, Extends
<1>2. ASSUME rep.high_qc # None
      PROVE  rep.high_qc.block \in Certified(rep)
  BY <1>2 DEF Certified
<1>3. ASSUME rep.high_qc = None
      PROVE  \A h \in DOMAIN tree : tree[h].qc = None
  BY <1>3 DEF Certified, Spine
<1>4. CASE rep.high_qc = None
  <2>1. b.qc = None
    BY <1>4 DEF Extends
  <2>2. {g \in DOMAIN q.block_tree : q.block_tree[g].qc # None} = {}
    BY <1>1, <1>3, <1>4, <2>1
  <2>3. Certified(rep) = {}
    BY <1>4 DEF Spine
  <2> QED
    BY <1>1, <1>4, <2>2, <2>3 DEF Certified
<1>5. CASE rep.high_qc # None
  <2>1. b.qc # None /\ b.parent = rep.high_qc.block
    BY <1>5 DEF Extends
  <2>2. qc # None
    BY <1>5
  <2>3. {q.block_tree[h].parent :
           h \in {g \in DOMAIN q.block_tree : q.block_tree[g].qc # None}}
          = {tree[h].parent : h \in {g \in DOMAIN tree : tree[g].qc # None}}
            \cup {rep.high_qc.block}
    BY <1>1, <2>1
  <2> QED
    BY <1>1, <1>5, <2>2, <2>3 DEF Certified
<1> QED
  BY <1>4, <1>5

\* A round keeps the chain.
LEMMA SpineGrows ==
  ASSUME NEW r, NEW rep, IsRep(r, rep), Sound(rep), Spine(rep),
         NEW hash \in Nat, Ordered(rep.block_tree, hash),
         NEW b, Extends(b, rep, hash),
         NEW qc, qc = rep.high_qc \/ (qc # None /\ qc.block = hash),
         NEW q, Told(q, rep, b, qc)
  PROVE  Spine(q)
<1> DEFINE tree == rep.block_tree
           C == Certified(rep)
           D == Certified(q)
<1>1. /\ DOMAIN q.block_tree = DOMAIN tree \cup {hash}
      /\ q.block_tree[hash] = b
      /\ \A h \in DOMAIN tree : q.block_tree[h] = tree[h]
      /\ q.high_qc = qc
      /\ q.committed_log = rep.committed_log
  <2>1. hash \notin DOMAIN tree
    BY DEF Ordered
  <2> QED
    BY <2>1 DEF Told, InsertBlock, Extends
<1>2. D = C \cup (IF qc = rep.high_qc THEN {} ELSE {hash})
  BY CertifiedGrows
<1>3. C \subseteq DOMAIN tree /\ DOMAIN tree \subseteq Nat
  BY DEF Spine, IsRep, IsTree
<1>4. \A c \in C : c < hash
  BY <1>3 DEF Ordered
<1>5. \A g, h \in C : g < h => tree[h].parent \in C /\ g <= tree[h].parent
  BY DEF Spine
<1>6. \A g \in C : b.parent \in C /\ g <= b.parent
  <2>1. SUFFICES ASSUME NEW g \in C
                 PROVE  b.parent \in C /\ g <= b.parent
    OBVIOUS
  <2>2. rep.high_qc # None
    BY <2>1 DEF Spine
  <2>3. b.parent = rep.high_qc.block
    BY <2>2 DEF Extends
  <2>4. rep.high_qc.block \in C
    BY <2>2 DEF Certified
  <2> QED
    BY <2>2, <2>3, <2>4 DEF Spine
<1>7. \A i \in DOMAIN rep.committed_log : rep.committed_log[i] \in C
  BY DEF Spine
<1>8. /\ rep.high_qc = None => C = {}
      /\ rep.high_qc # None => \A c \in C : c <= rep.high_qc.block
  BY DEF Spine
<1> HIDE DEF C, D
<1>9. D \subseteq DOMAIN q.block_tree
  BY <1>1, <1>2, <1>3
<1>10. /\ qc = None => D = {}
       /\ qc # None => \A c \in D : c <= qc.block
  BY <1>2, <1>3, <1>4, <1>8
<1>11. \A g, h \in D : g < h => /\ q.block_tree[h].parent \in D
                                /\ g <= q.block_tree[h].parent
  BY <1>1, <1>2, <1>3, <1>4, <1>5, <1>6
<1>12. \A i \in DOMAIN q.committed_log : q.committed_log[i] \in D
  BY <1>1, <1>2, <1>7
<1> QED
  BY <1>1, <1>9, <1>10, <1>11, <1>12 DEF Spine, D

\* The end of a round executes certified blocks.
LEMMA SpineCommits ==
  ASSUME NEW r \in Replicas, NEW n, IsNode(r, n), Mirrors(n), Spine(n.rep)
  PROVE  LET q == AdvanceAt(CommitAllAt(n)).rep
         IN  /\ q.block_tree = n.rep.block_tree
             /\ Spine(q)
<1> DEFINE q == AdvanceAt(CommitAllAt(n)).rep
           seq == CommitSequence(n.rep)
           log == n.rep.committed_log
           C == Certified(n.rep)
<1>1. /\ q.block_tree = n.rep.block_tree
      /\ q.high_qc = n.rep.high_qc
      /\ q.committed_log = log \o seq
  BY EndMemory
<1>2. /\ seq \in Seq(DOMAIN n.rep.block_tree)
      /\ \A i \in 1 .. Len(seq) : seq[i] \in Committable(n.rep)
  BY CommitSequenceNew DEF IsNode, IsRep
<1>3. Committable(n.rep) \subseteq C
  BY DEF Committable, HeadsThreeChain, IsFirstChild, Certified
<1>4. log \in Seq(Nat) /\ \A i \in DOMAIN log : log[i] \in C
  BY DEF IsNode, IsRep, Spine
<1> HIDE DEF q, seq, log
<1>5. Certified(q) = C
  BY <1>1 DEF Certified
<1> HIDE DEF C
<1>6. \A i \in DOMAIN (log \o seq) : (log \o seq)[i] \in C
  <2>1. log \in Seq(C)
    BY <1>4
  <2>2. seq \in Seq(C)
    BY <1>2, <1>3
  <2>3. log \o seq \in Seq(C)
    BY <2>1, <2>2
  <2> QED
    BY <2>3
<1>7. Spine(q)
  BY <1>1, <1>5, <1>6 DEF Spine, C
<1> QED
  BY <1>1, <1>7 DEF q
(***************************************************************************)
(* The steps of the cluster.                                               *)
(***************************************************************************)
LEMMA GenesisOrdered ==
  ASSUME NEW bound \in Nat \ {0}
  PROVE  Ordered([h \in {0} |-> Genesis], bound)
  BY DEF Ordered, Genesis

\* Of the tree of a replica that has just crashed, genesis is left.
LEMMA CrashOrdered ==
  ASSUME NEW r, NEW n, IsNode(r, n), NEW bound \in Nat \ {0}
  PROVE  Ordered(CrashAt(r, n).rep.block_tree, bound)
<1>1. CrashAt(r, n).rep.block_tree = [h \in {0} |-> Genesis]
  BY DEF CrashAt, IsNode, FreshReplica
<1> QED
  BY <1>1, GenesisOrdered

\* A round begins with the crash of those that were silent for too long.
LEMMA NodesNowOrdered ==
  ASSUME Inv, ForkInv, NEW r \in Replicas
  PROVE  Ordered(NodesNow[r].rep.block_tree, nextHash)
<1>1. IsNode(r, nodes[r]) /\ nextHash \in Nat \ {0}
  BY DEF Inv, NodesInv, FieldsInv
<1>2. CASE r \in TimedOut
  <2>1. NodesNow[r] = CrashAt(r, nodes[r])
    BY <1>2 DEF NodesNow
  <2> QED
    BY <1>1, <2>1, CrashOrdered
<1>3. CASE r \notin TimedOut
  <2>1. NodesNow[r] = nodes[r]
    BY <1>3 DEF NodesNow
  <2> QED
    BY <2>1 DEF ForkInv
<1> QED
  BY <1>2, <1>3

\* What is left to show of a round: the trees and the chains of those that
\* are up.
LEMMA RoundKeepsFork ==
  ASSUME Inv, Inv', ForkInv, RoundFrame, nextHash <= nextHash',
         \A r \in Replicas \ Up : nodes'[r] = NodesNow[r],
         \A r \in Up : /\ Ordered(nodes'[r].rep.block_tree, nextHash')
                       /\ Spine(nodes'[r].rep)
  PROVE  ForkInv'
<1>1. Standing' = Up
  BY DEF RoundFrame, Down, Standing, Up
<1>2. ASSUME NEW r \in Replicas \ Up
      PROVE  Ordered(nodes'[r].rep.block_tree, nextHash')
  <2> DEFINE tree == NodesNow[r].rep.block_tree
  <2>1. Ordered(tree, nextHash)
    BY NodesNowOrdered
  <2>2. nodes'[r].rep.block_tree = tree /\ IsNode(r, nodes'[r])
    BY DEF Inv, NodesInv
  <2>3. DOMAIN tree \subseteq Nat
    BY <2>2 DEF IsNode, IsRep, IsTree
  <2>4. nextHash \in Nat /\ nextHash' \in Nat
    BY DEF Inv, FieldsInv
  <2> HIDE DEF tree
  <2>5. Ordered(tree, nextHash')
    BY <2>1, <2>3, <2>4 DEF Ordered
  <2> QED
    BY <2>2, <2>5
<1> QED
  BY <1>1, <1>2 DEF ForkInv

\* A round without a proposal.
LEMMA TimeoutRoundFork ==
  ASSUME Inv, Inv', StopInv, ForkInv, LeaderSilentRound \/ NoProposalRound
  PROVE  ForkInv'
<1>1. /\ RoundFrame
      /\ nodes' = ViewTimeoutOf(NodesNow)
      /\ nextHash' \in {nextHash, nextHash + 1}
      /\ nextHash \in Nat
  BY DEF LeaderSilentRound, NoProposalRound, HashSpent, Inv, FieldsInv
<1>2. /\ \A r \in Replicas \ Up : nodes'[r] = NodesNow[r]
      /\ \A r \in Up : nodes'[r] = AdvanceAt(nodes[r])
  BY <1>1, UpIsLive DEF ViewTimeoutOf, Up
<1>3. ASSUME NEW r \in Up
      PROVE  /\ Ordered(nodes'[r].rep.block_tree, nextHash')
             /\ Spine(nodes'[r].rep)
  <2> DEFINE n == nodes[r]
             q == AdvanceAt(n).rep
  <2>1. IsNode(r, n) /\ IsRep(r, n.rep)
    BY DEF Inv, NodesInv, Up, IsNode
  <2>2. Ordered(n.rep.block_tree, nextHash) /\ Spine(n.rep)
    BY UpStands DEF ForkInv, Up
  <2>3. nodes'[r].rep = q
    BY <1>2
  <2> HIDE DEF n
  <2>4. \A f \in Fields \ {"current_view", "vote_pool"} : q[f] = n.rep[f]
    BY <2>1, AdvanceMemory
  <2> HIDE DEF q
  <2>5. /\ q.block_tree = n.rep.block_tree
        /\ q.high_qc = n.rep.high_qc
        /\ q.committed_log = n.rep.committed_log
    BY <2>4 DEF Fields
  <2>6. Spine(q)
    <3>1. Certified(q) = Certified(n.rep)
      BY <2>5 DEF Certified
    <3> QED
      BY <2>2, <2>5, <3>1 DEF Spine
  <2>7. Ordered(q.block_tree, nextHash')
    <3>1. DOMAIN n.rep.block_tree \subseteq Nat
      BY <2>1 DEF IsRep, IsTree
    <3> QED
      BY <1>1, <2>2, <2>5, <3>1 DEF Ordered
  <2> QED
    BY <2>3, <2>6, <2>7
<1> QED
  BY <1>1, <1>2, <1>3, RoundKeepsFork

\* A round with a proposal.
LEMMA ProposalRoundFork ==
  ASSUME Inv, Inv', StopInv, ForkInv, ProposalRound
  PROVE  ForkInv'
<1> DEFINE l == CurrentLeader
           leader == nodes[l].rep
           b == NewBlock(leader, leader.current_view, nextHash, NoOp)
<1>1. /\ RoundFrame
      /\ l \in Up
      /\ IsLeader(leader, leader.current_view)
      /\ nodes' = RoundOf(l, nextHash, NoOp)
      /\ nextHash' = nextHash + 1
  BY DEF ProposalRound, HashSpent
<1>2. NodesInv /\ nextHash \in Nat
  BY DEF Inv, FieldsInv
<1>3. \A r \in Replicas \ Up : nodes'[r] = NodesNow[r]
  BY <1>1 DEF RoundOf, CommitAndAdvance
<1> HIDE DEF l
<1>4. PICK qc :
        /\ qc = leader.high_qc \/ CertifiesNow(qc, b, leader)
        /\ \A r \in Up : \E t :
             /\ IsNode(r, t)
             /\ Mirrors(t)
             /\ Told(t.rep, nodes[r].rep, b, qc)
             /\ nodes'[r] = AdvanceAt(CommitAllAt(t))
  BY <1>1, <1>2, ProposalMemory
<1>5. ASSUME NEW r \in Up
      PROVE  /\ r \in Replicas
             /\ IsRep(r, nodes[r].rep)
             /\ Sound(nodes[r].rep)
             /\ Spine(nodes[r].rep)
             /\ Ordered(nodes[r].rep.block_tree, nextHash)
             /\ InStep(leader, nodes[r].rep)
  BY <1>1, <1>2, UpStands
  DEF NodesInv, IsNode, StopInv, Lockstep, Up, ForkInv
<1>6. Extends(b, leader, nextHash)
  BY DEF Extends, NewBlock
<1> HIDE DEF b
<1>7. qc = leader.high_qc \/ (qc # None /\ qc.block = nextHash)
  BY <1>4, <1>6, NoneAssumption
  DEF CertifiesNow, Extends, QC, Signature
<1>8. ASSUME NEW r \in Up
      PROVE  /\ Ordered(nodes'[r].rep.block_tree, nextHash')
             /\ Spine(nodes'[r].rep)
  <2> DEFINE rep == nodes[r].rep
  <2>1. PICK t : /\ IsNode(r, t)
                 /\ Mirrors(t)
                 /\ Told(t.rep, rep, b, qc)
                 /\ nodes'[r] = AdvanceAt(CommitAllAt(t))
    BY <1>4
  <2>2. /\ r \in Replicas
        /\ IsRep(r, rep)
        /\ Sound(rep)
        /\ Spine(rep)
        /\ Ordered(rep.block_tree, nextHash)
        /\ InStep(leader, rep)
    BY <1>5
  <2> HIDE DEF rep, leader
  <2>3. Extends(b, rep, nextHash)
    BY <1>6, <2>2 DEF Extends, InStep
  <2>4. qc = rep.high_qc \/ (qc # None /\ qc.block = nextHash)
    BY <1>7, <2>2 DEF InStep
  <2>5. Spine(t.rep)
    BY <1>2, <2>1, <2>2, <2>3, <2>4, SpineGrows
  <2>6. Ordered(t.rep.block_tree, nextHash')
    BY <1>1, <1>2, <2>1, <2>2, <2>3, OrderGrows DEF Told
  <2> QED
    BY <2>1, <2>2, <2>5, <2>6, SpineCommits
<1>9. nextHash <= nextHash'
  BY <1>1, <1>2
<1> QED
  BY <1>1, <1>3, <1>8, <1>9, RoundKeepsFork

\* set_replica_unresponsive and crash_replica.
LEMMA FaultFork ==
  ASSUME Inv, ForkInv, NEW r \in Replicas, FallSilent(r) \/ CrashReplica(r)
  PROVE  ForkInv'
<1>1. nextHash' = nextHash /\ nextHash \in Nat \ {0}
  BY DEF FallSilent, CrashReplica, Inv, FieldsInv
<1>2. /\ Standing' \subseteq Standing
      /\ r \notin Standing'
  BY DEF FallSilent, CrashReplica, Standing, Down
<1>3. /\ \A s \in Replicas \ {r} : nodes'[s] = nodes[s]
      /\ nodes'[r] = nodes[r] \/ nodes'[r] = CrashAt(r, nodes[r])
  BY DEF FallSilent, CrashReplica, Inv, NodesInv
<1>4. Ordered(CrashAt(r, nodes[r]).rep.block_tree, nextHash)
  BY <1>1, CrashOrdered DEF Inv, NodesInv
<1>5. \A s \in Replicas : Ordered(nodes'[s].rep.block_tree, nextHash')
  BY <1>1, <1>3, <1>4 DEF ForkInv
<1>6. \A s \in Standing' : Spine(nodes'[s].rep)
  BY <1>2, <1>3 DEF ForkInv, Standing
<1> QED
  BY <1>5, <1>6 DEF ForkInv

\* A call of run_one_round that is refused.
LEMMA RefusedFork ==
  ASSUME Inv, ForkInv, RefusedRound
  PROVE  ForkInv'
<1>1. nextHash' = nextHash /\ nextHash \in Nat \ {0}
  BY DEF RefusedRound, Inv, FieldsInv
<1>2. \A r \in Replicas : Ordered(nodes'[r].rep.block_tree, nextHash')
  BY <1>1, NodesNowOrdered DEF RefusedRound
<1>3. Standing' = Standing /\ Standing = Up
  BY UpStands DEF RefusedRound, Down, Standing
<1>4. \A r \in Standing' : nodes'[r] = nodes[r]
  BY <1>3, UpIsLive DEF RefusedRound, Up
<1>5. \A r \in Standing' : Spine(nodes'[r].rep)
  BY <1>3, <1>4 DEF ForkInv
<1> QED
  BY <1>2, <1>5 DEF ForkInv

LEMMA StepFork ==
  ASSUME Inv, Inv', StopInv, ForkInv, [Next /\ StopsForGood]_vars
  PROVE  ForkInv'
<1>1. CASE LeaderSilentRound \/ NoProposalRound
  BY <1>1, TimeoutRoundFork
<1>2. CASE ProposalRound
  BY <1>2, ProposalRoundFork
<1>3. ASSUME NEW r \in Replicas, FallSilent(r) \/ CrashReplica(r)
      PROVE  ForkInv'
  BY <1>3, FaultFork
<1>4. ASSUME NEW r \in Replicas, Resume(r) \/ RecoverReplica(r)
      PROVE  ~StopsForGood
  BY <1>4 DEF Resume, RecoverReplica, StopsForGood, Down, Inv, FieldsInv
<1>5. ASSUME RestartAll
      PROVE  ~StopsForGood
  BY <1>5 DEF RestartAll, StopsForGood, Inv, FieldsInv
<1>6. CASE UNCHANGED vars
  BY <1>6 DEF vars, ForkInv, Standing, Down
<1>7. CASE RefusedRound
  BY <1>7, RefusedFork
<1> QED
  BY <1>1, <1>2, <1>3, <1>4, <1>5, <1>6, <1>7 DEF Next, RunOneRound

LEMMA InitFork ==
  ASSUME Init
  PROVE  ForkInv
<1>1. /\ nextHash \in Nat \ {0}
      /\ Standing = Replicas
      /\ \A r \in Replicas :
           /\ nodes[r].rep.block_tree = [h \in {0} |-> Genesis]
           /\ nodes[r].rep.high_qc = None
           /\ nodes[r].rep.committed_log = <<>>
  BY DEF Init, FreshReplica, Standing, Down
<1>2. ASSUME NEW r \in Replicas
      PROVE  Spine(nodes[r].rep)
  <2>1. Certified(nodes[r].rep) = {}
    BY <1>1 DEF Certified, Genesis
  <2> QED
    BY <1>1, <2>1 DEF Spine
<1> QED
  BY <1>1, <1>2, GenesisOrdered DEF ForkInv

LEMMA ForkInvariance == CrashStopSpec => [](Inv /\ StopInv /\ ForkInv)
<1>1. Init => ForkInv
  BY InitFork
<1>2. /\ Inv /\ StopInv /\ ForkInv
      /\ (Inv /\ StopInv)'
      /\ [Next /\ StopsForGood]_vars
      => ForkInv'
  BY StepFork
<1> QED
  BY <1>1, <1>2, StopInvariance, PTL DEF CrashStopSpec

(***************************************************************************)
(* The branch.                                                             *)
(***************************************************************************)
\* The equation that NoFork gives for the ancestors of a block.
IsAncestry(f) ==
  f = [h \in 0 .. nextHash |-> {h} \cup UNION {f[p] : p \in ParentsOf(h)}]

LEMMA AncestryExists ==
  ASSUME Inv, ForkInv
  PROVE  \E f : IsAncestry(f)
<1> DEFINE D == 0 .. nextHash
           P == [h \in D |-> ParentsOf(h)]
<1>1. ASSUME NEW h \in D, NEW p \in ParentsOf(h)
      PROVE  p \in D
  <2>1. PICK r \in Live :
          \E g \in DOMAIN nodes[r].rep.block_tree :
            /\ p = nodes[r].rep.block_tree[g].parent
            /\ p # None
    BY DEF ParentsOf, KnownBlocks
  <2>2. r \in Replicas
    BY DEF Live
  <2>3. p \in DOMAIN nodes[r].rep.block_tree /\ p < nextHash
    BY <2>1, <2>2 DEF ForkInv, Ordered
  <2>4. p \in Nat /\ nextHash \in Nat
    BY <2>2, <2>3 DEF Inv, NodesInv, IsNode, IsRep, IsTree, FieldsInv
  <2> QED
    BY <2>3, <2>4
<1>2. \A h \in D : P[h] \subseteq D
  BY <1>1
<1>3. \A h \in D : P[h] = ParentsOf(h)
  OBVIOUS
<1> HIDE DEF P, D
<1>4. PICK f : IsReach(f, D, P)
  BY <1>2, ReachExists
<1>5. f = [h \in D |-> {h} \cup UNION {f[p] : p \in ParentsOf(h)}]
  BY <1>3, <1>4 DEF IsReach
<1> QED
  BY <1>5 DEF IsAncestry, D

\* Of two certified blocks of a replica that stands, one is an ancestor of
\* the other.
LEMMA AncestryReaches ==
  ASSUME Inv, ForkInv, NEW f, IsAncestry(f), NEW r \in Standing,
         NEW g \in Certified(nodes[r].rep), NEW h \in Certified(nodes[r].rep),
         g <= h
  PROVE  g \in f[h]
<1> DEFINE rep == nodes[r].rep
           tree == rep.block_tree
           C == Certified(rep)
           D == {k \in Nat : \A x, y \in C : x <= y /\ y <= k => x \in f[y]}
<1>1. /\ r \in Replicas /\ r \in Live
      /\ IsTree(tree)
      /\ Ordered(tree, nextHash)
      /\ Spine(rep)
      /\ nextHash \in Nat
  BY DEF Inv, NodesInv, IsNode, IsRep, ForkInv, Standing, Down, Live, FieldsInv
<1>2. \A x \in C : x \in Nat /\ x \in DOMAIN tree /\ x \in 0 .. nextHash
  BY <1>1 DEF Spine, IsTree, Ordered
<1>3. \A x \in 0 .. nextHash :
        f[x] = {x} \cup UNION {f[p] : p \in ParentsOf(x)}
  BY Zenon DEF IsAncestry
<1>4. ASSUME NEW x \in C, NEW y \in C, x < y
      PROVE  LET p == tree[y].parent
             IN  p \in C /\ x <= p /\ p < y /\ p \in ParentsOf(y)
  <2>1. tree[y].parent \in C /\ x <= tree[y].parent
    BY <1>1, <1>4 DEF Spine
  <2>2. tree[y].parent # None
    BY <1>2, <2>1, NoneAssumption
  <2>3. tree[y].parent < y
    BY <1>1, <1>2, <2>2 DEF Ordered
  <2>4. tree[y] \in KnownBlocks /\ tree[y].hash = y
    BY <1>1, <1>2 DEF KnownBlocks, IsTree
  <2> QED
    BY <2>1, <2>2, <2>3, <2>4 DEF ParentsOf
<1> HIDE DEF C, tree, rep
<1>5. \A x \in C : x \in f[x]
  BY <1>2, <1>3
<1>6. 0 \in D
  BY <1>2, <1>5
<1>7. ASSUME NEW k \in Nat, k \in D
      PROVE  k + 1 \in D
  <2>1. SUFFICES ASSUME NEW x \in C, NEW y \in C, x < y, y <= k + 1
                 PROVE  x \in f[y]
    BY <1>2, <1>5
  <2> DEFINE p == tree[y].parent
  <2>2. p \in C /\ x <= p /\ p < y /\ p \in ParentsOf(y)
    BY <1>4, <2>1
  <2> HIDE DEF p
  <2>3. p <= k
    BY <1>2, <2>1, <2>2
  <2>4. x \in f[p]
    BY <1>7, <2>2, <2>3
  <2> QED
    BY <1>2, <1>3, <2>2, <2>4
<1>8. Nat \subseteq D
  <2> HIDE DEF D
  <2> QED
    BY <1>6, <1>7, NatSetInduction
<1>9. g \in C /\ h \in C
  BY DEF C, rep
<1> QED
  BY <1>2, <1>8, <1>9

\* All that is executed by a replica that is not crashed is certified at each
\* that stands.
LEMMA ExecutedAreCertified ==
  ASSUME Inv, StopInv, ForkInv, NEW r \in Standing, NEW s \in Live,
         NEW h \in Range(nodes[s].rep.committed_log)
  PROVE  h \in Certified(nodes[r].rep)
<1> DEFINE a == nodes[s].rep.committed_log
           c == nodes[r].rep.committed_log
<1>1. r \in Replicas /\ s \in Replicas
  BY DEF Standing, Live
<1>2. a \in Seq(Nat) /\ c \in Seq(Nat)
  BY <1>1 DEF Inv, NodesInv, IsNode, IsRep
<1>3. IsPrefix(a, c)
  <2>1. a = nodes[s].disk.committed_log
    BY DEF Inv, NodesInv, Mirrors
  <2> QED
    BY <1>1, <2>1 DEF StopInv, Lockstep
<1>4. \A i \in DOMAIN c : c[i] \in Certified(nodes[r].rep)
  BY DEF ForkInv, Spine
<1>5. PICK i \in DOMAIN a : h = a[i]
  BY DEF Range
<1> HIDE DEF a, c
<1>6. i \in DOMAIN c /\ c[i] = a[i]
  BY <1>2, <1>3, <1>5, PrefixMeans
<1> QED
  BY <1>4, <1>5, <1>6

\* The 3-chain rule among replicas that stop for good: all blocks executed
\* anywhere, by replicas that have fallen silent too, lie on one branch.
THEOREM OneBranch == CrashStopSpec => []NoFork
<1>1. ASSUME Inv, StopInv, ForkInv
      PROVE  NoFork
  <2> DEFINE f == CHOOSE f : IsAncestry(f)
             done == UNION {Range(nodes[s].rep.committed_log) : s \in Live}
  <2>1. IsAncestry(f)
    BY <1>1, AncestryExists
  <2> HIDE DEF f
  <2>2. PICK r \in Standing : TRUE
    BY <1>1, SomebodyStands DEF Inv, StopInv
  <2>3. \A h \in done : h \in Certified(nodes[r].rep)
    BY <1>1, ExecutedAreCertified
  <2>4. \A h \in Certified(nodes[r].rep) : h \in Nat
    BY <1>1 DEF ForkInv, Spine, Inv, NodesInv, IsNode, IsRep, IsTree, Standing
  <2>5. \A g, h \in done : g \in f[h] \/ h \in f[g]
    <3> SUFFICES ASSUME NEW g \in done, NEW h \in done
                 PROVE  g \in f[h] \/ h \in f[g]
      OBVIOUS
    <3>1. g <= h \/ h <= g
      BY <2>3, <2>4
    <3> QED
      BY <1>1, <2>1, <2>3, <3>1, AncestryReaches
  <2> QED
    BY <2>5 DEF NoFork, f, IsAncestry
<1> QED
  BY <1>1, ForkInvariance, PTL
=============================================================================
