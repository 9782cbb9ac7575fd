----------------------------- MODULE Simulation -----------------------------
(***************************************************************************)
(* The cluster of src/src/simulation.rs: N persistent replicas that run    *)
(* rounds in lockstep, with replicas that fall silent, crash, recover from *)
(* their snapshot and write-ahead log, and rejoin.                         *)
(*                                                                         *)
(* One call of run_one_round is one step: the simulator delivers every     *)
(* message of a round before the call returns, and faults are injected     *)
(* between calls.  Here only no-op blocks are proposed and the validators  *)
(* stay the same; module Pacemaker adds commands, and with them changes of *)
(* the validators, for which the operators below are ready.                *)
(*                                                                         *)
(* A disk is modelled by the state that replaying it yields.  recover()    *)
(* folds replay_entry over the log entries, so appending an entry applies  *)
(* it to that state and a snapshot replaces that state.  Signatures are    *)
(* never written, which Stub stands for.                                   *)
(***************************************************************************)
EXTENDS ReplicaOps, FiniteSetsExt, Functions

CONSTANTS
  N,                \* number of replicas
  SignerOf,         \* which id the key store handed to a replica signs with
  CrashAfter,       \* timeout_ms over round_time_ms: 5000 / 1000 in the code
  SnapshotInterval, \* commits between snapshots: 100 in the code
  MaxSteps,         \* max_steps, the bound on the rounds of a simulation
  Faulty,           \* the replicas that may fail (bound)
  MaxFaulty,        \* how many of them at the same time (bound)
  MayCrash,         \* whether the caller uses crash_replica
  MayResume,        \* whether the caller lets a silent replica speak again
  MaxRestarts       \* how often the whole process restarts (bound)

Replicas == 0 .. N - 1

\* distribute_keys deals out one key store to each id, in the order of a hash
\* map, and the simulation hands the i-th one to replica i.
DistributesKeys(signer) ==
  /\ signer \in [Replicas -> Replicas]
  /\ \A r, s \in Replicas : signer[r] = signer[s] => r = s

ASSUME SimulationAssumption ==
  /\ N \in Nat \ {0}
  /\ DistributesKeys(SignerOf)
  /\ CrashAfter \in Nat \ {0}
  /\ SnapshotInterval \in Nat \ {0}
  /\ {MaxSteps, MaxRestarts} \subseteq Nat
  /\ Faulty \subseteq Replicas
  /\ MaxFaulty \in 0 .. N - 1
  /\ {MayCrash, MayResume} \subseteq BOOLEAN

\* None is neither a hash nor a certificate.
ASSUME NoneAssumption ==
  LET signatures == [block : Nat, signer : Nat, view : Nat, epoch : Nat]
  IN  None \notin Nat \cup [block : Nat, view : Nat, epoch : Nat,
                            sigs : SUBSET signatures]

VARIABLES
  nodes,         \* of a replica: its memory (rep) and its disk (disk)
  crashed,       \* crashed_replicas
  unresponsive,  \* unresponsive_replicas
  quiet,         \* rounds since last_response_ms
  step,          \* step
  nextHash,      \* next_global_hash of the network
  restarts       \* how often the process has restarted

vars == <<nodes, crashed, unresponsive, quiet, step, nextHash, restarts>>

(***************************************************************************)
(* The disk.                                                               *)
(***************************************************************************)
\* A certificate as it is persisted: BlockInserted, HighQCUpdated and
\* SerializableQC keep no signatures.
Stub(qc) == IF qc = None THEN None ELSE [qc EXCEPT !.sigs = {}]

\* from_block and to_block; BlockInserted gives a QC the block's epoch too.
Stored(b) ==
  [b EXCEPT !.qc = IF @ = None THEN None
                   ELSE [Stub(@) EXCEPT !.epoch = b.epoch]]

\* Snapshot::capture and the replay of an empty log on top of it.
Capture(r) ==
  [current_view |-> r.current_view,
   block_tree |-> [h \in DOMAIN r.block_tree |-> Stored(r.block_tree[h])],
   high_qc |-> Stub(r.high_qc), committed_log |-> r.committed_log,
   epoch |-> r.config_epoch, members |-> r.active_validators,
   in_order |-> TRUE]

\* The disk of a replica that has never taken a snapshot.
FreshDisk(r) == [Capture(r) EXCEPT !.members = None]

\* Slips: an entry that is not written.
LogBlockLost(disk, b) == disk
LogViewLost(disk, view) == disk

\* The command of a block is written, and not read again.
LogBlock(disk, b) ==
  [disk EXCEPT !.block_tree = InsertBlock(@, [Stored(b) EXCEPT !.cmd = NoOp])]

LogHighQC(disk, qc) ==
  [disk EXCEPT !.high_qc = Stub(qc), !.epoch = Max({@, qc.epoch})]

LogView(disk, view) == [disk EXCEPT !.current_view = view]

\* Replay gives up on a commit whose index is not the next one.  It knows of
\* a new epoch from blocks and certificates of that epoch only.
LogCommit(disk, b, index) ==
  IF index = Len(disk.committed_log)
  THEN [disk EXCEPT !.committed_log = Append(@, b.hash),
                    !.epoch = Max({@, b.epoch})]
  ELSE [disk EXCEPT !.in_order = FALSE]

\* Slip: the commits are not replayed.
RecoveredNoLog(id, disk, n) ==
  [FreshReplica(id, 0 .. n - 1, Replicas) EXCEPT
     !.current_view = disk.current_view, !.block_tree = disk.block_tree,
     !.high_qc = disk.high_qc]

\* Slip: the view changes are not replayed.
RecoveredNoView(id, disk, n) ==
  [FreshReplica(id, 0 .. n - 1, Replicas) EXCEPT
     !.block_tree = disk.block_tree, !.high_qc = disk.high_qc,
     !.committed_log = disk.committed_log]

\* What recover() builds from a disk for a replica configured for n of them.
Recovered(id, disk, n) ==
  [FreshReplica(id, 0 .. n - 1, Replicas) EXCEPT
     !.current_view = disk.current_view, !.block_tree = disk.block_tree,
     !.high_qc = disk.high_qc, !.committed_log = disk.committed_log,
     !.config_epoch = disk.epoch,
     !.active_validators = IF disk.members = None THEN @ ELSE disk.members]

(***************************************************************************)
(* The operations of a replica with its log attached.                      *)
(***************************************************************************)
\* The proposer of a block inserts it without logging it.
ProposeAt(n, b) == [n EXCEPT !.rep = Propose(@, b)]

\* validate_and_insert_proposal of an acceptable block.
AcceptAt(n, b) ==
  [rep |-> ReceiveProposal(n.rep, b), disk |-> LogBlock(n.disk, b)]

\* handle_vote for every vote the leader gets; the certificate gains a
\* signature with every vote past the quorum, so the order is immaterial.
CountAt(n, votes) ==
  LET r == FoldSet(LAMBDA vote, rep : HandleVote(rep, vote), n.rep, votes)
  IN  [rep |-> r,
       disk |-> IF r.high_qc = n.rep.high_qc THEN n.disk
                ELSE LogHighQC(n.disk, r.high_qc)]

\* apply_high_qc_from_network
LearnAt(n, qc) ==
  IF NewerQC(qc, n.rep.high_qc)
  THEN [rep |-> ApplyHighQC(n.rep, qc), disk |-> LogHighQC(n.disk, qc)]
  ELSE n

CommitAt(n, h) ==
  [rep |-> Commit(n.rep, h),
   disk |-> LogCommit(n.disk, n.rep.block_tree[h],
                      Len(n.rep.committed_log))]

\* Slip: the snapshot is not written.
SnapshotLost(n) == n

SnapshotAt(n) == [n EXCEPT !.disk = Capture(n.rep)]

\* commit_all, then a snapshot if one is due (should_snapshot).
CommitAllAt(n) ==
  LET m == FoldLeft(CommitAt, n, CommitSequence(n.rep))
      len == Len(m.rep.committed_log)
  IN  IF len > 0 /\ len % SnapshotInterval = 0 THEN SnapshotAt(m) ELSE m

AdvanceAt(n) ==
  [rep |-> AdvanceView(n.rep),
   disk |-> LogView(n.disk, n.rep.current_view + 1)]

\* crash_replica: the memory is lost, but for config.n, the disk is not.
CrashAt(r, n) ==
  [n EXCEPT !.rep = FreshReplica(r, 0 .. @.config_n - 1, Replicas)]

(***************************************************************************)
(* A round.  It starts by crashing the replicas silent for too long.       *)
(***************************************************************************)
TimedOut == {r \in unresponsive : quiet[r] + 1 >= CrashAfter}

CrashedNow == crashed \cup TimedOut

SilentNow == unresponsive \ TimedOut

Up == Replicas \ (CrashedNow \cup SilentNow)

NodesNow ==
  [r \in Replicas |-> IF r \in TimedOut THEN CrashAt(r, nodes[r])
                                          ELSE nodes[r]]

BaseView(down) == Max({nodes[r].rep.current_view : r \in Replicas \ down})

\* current_leader: the first replica from base view on that has not crashed.
LeaderAmong(down) ==
  LET base == BaseView(down)
      live == {o \in 0 .. N - 1 : (base + o) % N \notin down}
  IN  (base + Min(live)) % N

CurrentLeader == LeaderAmong(CrashedNow)

(***************************************************************************)
(* The network, whose queue is empty again before a phase of a round ends. *)
(***************************************************************************)
\* broadcast_proposal: no copy for the proposer, one for everybody else.
\* Those that have crashed or are silent do not take theirs.
GetsProposal(from) == (Replicas \ {from}) \cap Up

\* Slip: the loop over the replicas ends one too early.
GetsQCButLast(from) == (Replicas \ {from, N - 1}) \cap Up

\* broadcast_qc
GetsQC(from) == (Replicas \ {from}) \cap Up

\* generate_unique_hash
HashSpent == nextHash' = nextHash + 1

\* One round more since last_response_ms.  A count that falls one short of the
\* timeout says all that the next process_timeout_crashes asks.
Longer(r) == IF quiet[r] + 1 < CrashAfter THEN quiet[r] + 1 ELSE quiet[r]

\* mark_responded for everybody up; the clock of a crashed replica is not read.
Answered ==
  quiet' = [r \in Replicas |-> IF r \in SilentNow THEN Longer(r) ELSE 0]

\* A call that returns before it has marked anybody.
Unanswered ==
  quiet' = [r \in Replicas |-> IF r \in CrashedNow THEN 0 ELSE Longer(r)]

\* The parts of the round's effect that do not depend on the proposal.  The
\* second process_timeout_crashes finds nobody: the clock has not moved.
RoundFrame ==
  /\ step < MaxSteps
  /\ CrashedNow # Replicas
  /\ step' = step + 1
  /\ crashed' = CrashedNow
  /\ unresponsive' = SilentNow
  /\ UNCHANGED restarts

\* Past max_steps, or with everybody crashed, a call of run_one_round moves
\* the clock and crashes those silent for too long before it returns false.
RefusedRound ==
  /\ CrashedNow # Replicas => step >= MaxSteps
  /\ nodes' = NodesNow
  /\ crashed' = CrashedNow
  /\ unresponsive' = SilentNow
  /\ Unanswered
  /\ UNCHANGED <<step, nextHash, restarts>>

ViewTimeoutOf(before) ==
  [r \in Replicas |-> IF r \in Up THEN AdvanceAt(before[r]) ELSE before[r]]

\* The leader of the round is silent: everybody else times out.
LeaderSilentRound ==
  /\ RoundFrame
  /\ Answered
  /\ CurrentLeader \notin Up
  /\ nodes' = ViewTimeoutOf(NodesNow)
  /\ UNCHANGED nextHash

\* The replica picked is not the leader of its own view, because it stands in
\* for a crashed one or because its view lags: a hash is spent for nothing.
NoProposalRound ==
  /\ RoundFrame
  /\ Answered
  /\ CurrentLeader \in Up
  /\ LET leader == nodes[CurrentLeader].rep
     IN  ~IsLeader(leader, leader.current_view)
  /\ nodes' = ViewTimeoutOf(NodesNow)
  /\ HashSpent

\* Steps 6 and 7: commits and a view change wherever somebody is up.
CommitAndAdvance(told) ==
  [r \in Replicas |-> IF r \in Up THEN AdvanceAt(CommitAllAt(told[r]))
                                  ELSE NodesNow[r]]

\* Proposal, votes, certificate, commits and view change of leader l.
RoundOf(l, hash, cmd) ==
  LET leader   == nodes[l].rep
      b        == NewBlock(leader, leader.current_view, hash, cmd)
      voters   == {r \in GetsProposal(l) : AcceptsProposal(nodes[r].rep, b)}
      votes    == {Sign(SignerOf[r], b) : r \in voters}
      counted  == CountAt(ProposeAt(nodes[l], b), votes)
      qc       == counted.rep.high_qc
      formed   == qc # leader.high_qc
      voted(r) == IF r \in voters THEN AcceptAt(nodes[r], b) ELSE nodes[r]
      told(r)  == IF r = l THEN counted
                  ELSE IF formed /\ r \in GetsQC(l) THEN LearnAt(voted(r), qc)
                  ELSE voted(r)
  IN  CommitAndAdvance([r \in Replicas |-> told(r)])

ProposalRound ==
  /\ RoundFrame
  /\ Answered
  /\ CurrentLeader \in Up
  /\ LET leader == nodes[CurrentLeader].rep
     IN  IsLeader(leader, leader.current_view)
  /\ nodes' = RoundOf(CurrentLeader, nextHash, NoOp)
  /\ HashSpent

RunOneRound == LeaderSilentRound \/ NoProposalRound \/ ProposalRound

(***************************************************************************)
(* Faults and recovery, between rounds.                                    *)
(***************************************************************************)
MayFail(r) ==
  /\ r \in Faulty \ (crashed \cup unresponsive)
  /\ Cardinality(crashed \cup unresponsive) < MaxFaulty

\* set_replica_unresponsive(r, true)
FallSilent(r) ==
  /\ MayFail(r)
  /\ unresponsive' = unresponsive \cup {r}
  /\ UNCHANGED <<nodes, crashed, quiet, step, nextHash, restarts>>

\* set_replica_unresponsive(r, false), which resets the clock of r.
Resume(r) ==
  /\ MayResume
  /\ r \in unresponsive
  /\ unresponsive' = unresponsive \ {r}
  /\ quiet' = [quiet EXCEPT ![r] = 0]
  /\ UNCHANGED <<nodes, crashed, step, nextHash, restarts>>

\* crash_replica called by the user of the simulation.
CrashReplica(r) ==
  /\ MayCrash
  /\ \/ MayFail(r)
     \/ r \in unresponsive
  /\ nodes' = [nodes EXCEPT ![r] = CrashAt(r, @)]
  /\ crashed' = crashed \cup {r}
  /\ unresponsive' = unresponsive \ {r}
  /\ quiet' = [quiet EXCEPT ![r] = 0]
  /\ UNCHANGED <<step, nextHash, restarts>>

\* Slip: the donor's log and certificate are taken, its blocks are not.
CatchUpNoBlocks(r, donor) ==
  [r EXCEPT
    !.committed_log = IF IsStrictPrefix(@, donor.committed_log)
                      THEN donor.committed_log ELSE @,
    !.high_qc = IF donor.high_qc # None /\ NewerQC(donor.high_qc, @)
                THEN donor.high_qc ELSE @]

\* The state transfer of recover_replica: blocks, the log if it extends
\* ours, and the certificate if it is newer.
CatchUp(r, donor) ==
  LET missing == DOMAIN donor.block_tree \ DOMAIN r.block_tree
  IN  [r EXCEPT
        !.block_tree = [h \in DOMAIN @ \cup missing |->
                          IF h \in missing THEN donor.block_tree[h] ELSE @[h]],
        !.committed_log = IF IsStrictPrefix(@, donor.committed_log)
                          THEN donor.committed_log ELSE @,
        !.high_qc = IF donor.high_qc # None /\ NewerQC(donor.high_qc, @)
                    THEN donor.high_qc ELSE @]

\* recover_replica: replay the disk, catch up with the first live replica
\* (silent or not), join the highest view and save everything.
RecoverReplica(r) ==
  LET peers == Replicas \ (crashed \cup {r})
      own   == Recovered(r, nodes[r].disk, nodes[r].rep.config_n)
      rep   == IF peers = {} THEN own
               ELSE CatchUp(own, nodes[Min(peers)].rep)
      views == {nodes[p].rep.current_view : p \in peers}
  IN  /\ r \in crashed
      /\ nodes[r].disk.in_order
      /\ nodes' = [nodes EXCEPT ![r] = SnapshotAt([@ EXCEPT !.rep =
           [rep EXCEPT !.current_view = Max(views \cup {@})]])]
      /\ crashed' = crashed \ {r}
      /\ quiet' = [quiet EXCEPT ![r] = 0]
      /\ UNCHANGED <<unresponsive, step, nextHash, restarts>>

\* new_with_options on the data directory of an earlier process: every
\* replica recovers by itself, the network and the clock start anew.
RestartAll ==
  /\ restarts < MaxRestarts
  /\ \A r \in Replicas : nodes[r].disk.in_order
  /\ nodes' = [r \in Replicas |->
                 [nodes[r] EXCEPT !.rep = Recovered(r, nodes[r].disk, N)]]
  /\ crashed' = {}
  /\ unresponsive' = {}
  /\ quiet' = [r \in Replicas |-> 0]
  /\ step' = 0
  /\ nextHash' = 1
  /\ restarts' = restarts + 1

\* new_with_options on an empty data directory.
Init ==
  /\ nodes = [r \in Replicas |->
                LET rep == FreshReplica(r, Replicas, Replicas)
                IN  [rep |-> rep, disk |-> FreshDisk(rep)]]
  /\ crashed = {}
  /\ unresponsive = {}
  /\ quiet = [r \in Replicas |-> 0]
  /\ step = 0
  /\ nextHash = 1
  /\ restarts = 0

Next ==
  \/ RunOneRound
  \/ RefusedRound
  \/ \E r \in Replicas : \/ FallSilent(r)
                         \/ Resume(r)
                         \/ CrashReplica(r)
                         \/ RecoverReplica(r)
  \/ RestartAll

Spec == Init /\ [][Next]_vars

(***************************************************************************)
(* Properties.                                                             *)
(***************************************************************************)
Live == Replicas \ crashed

\* What a disk keeps of a certificate, of a block and of a replica.
SerializableQC == [block : Nat, view : Nat, epoch : Nat, sigs : {{}}]

SerializableBlock ==
  [hash : Nat, parent : Nat \cup {None}, view : Nat, epoch : Nat,
   proposer : Nat, qc : SerializableQC \cup {None}, cmd : CommandSet]

IsSnapshot(disk) ==
  /\ disk.current_view \in Nat
  /\ disk.epoch \in Nat
  /\ disk.members # None => disk.members \subseteq Nat
  /\ disk.committed_log \in Seq(Nat)
  /\ disk.high_qc \in SerializableQC \cup {None}
  /\ Range(disk.block_tree) \subseteq SerializableBlock

\* The fields of the cluster, and two things between rounds that its
\* operations rely on: no vote is left over in a pool, and no signature is on
\* a disk.
TypeOK ==
  /\ crashed \subseteq Replicas
  /\ unresponsive \subseteq Replicas \ crashed
  /\ quiet \in [Replicas -> 0 .. CrashAfter - 1]
  /\ \A r \in crashed : quiet[r] = 0
  /\ step \in 0 .. MaxSteps
  /\ restarts \in 0 .. MaxRestarts
  /\ nextHash \in Nat \ {0}
  /\ \A r \in Replicas :
       /\ IsReplica(nodes[r].rep)
       /\ nodes[r].rep.id = r
       /\ nodes[r].rep.vote_pool = {}
       /\ nodes[r].rep.active_validators = Replicas
       /\ IsSnapshot(nodes[r].disk)
       /\ nodes[r].disk.in_order \in BOOLEAN

\* The log of each live replica agrees with that of the first live one, as
\* far as both go.
VerifySafety ==
  Live # {} => \A r \in Live :
    LET reference == nodes[Min(Live)].rep.committed_log
        log       == nodes[r].rep.committed_log
    IN  IsPrefix(reference, log) \/ IsPrefix(log, reference)

\* README: safety is never compromised, all logs are prefix-consistent: the
\* simulator's own check of it succeeds after every history of faults.
Agreement == VerifySafety

\* Every block some replica knows.
KnownBlocks ==
  UNION {{nodes[r].rep.block_tree[h] : h \in DOMAIN nodes[r].rep.block_tree} :
           r \in Live}

ParentsOf(h) == {b.parent : b \in {c \in KnownBlocks : c.hash = h}} \ {None}

\* The 3-chain rule: whatever the faults, all blocks executed anywhere lie on
\* one branch of the tree.  After a restart of the process the counter of the
\* hashes is at 1 again, and a hash no longer names one block.
NoFork ==
  restarts = 0 =>
  LET anc[h \in 0 .. nextHash] ==
        {h} \cup UNION {anc[p] : p \in ParentsOf(h)}
      done == UNION {Range(nodes[r].rep.committed_log) : r \in Live}
  IN  \A g, h \in done : g \in anc[h] \/ h \in anc[g]

\* A voter logs a block before it votes, so a certified block is on the disks
\* of a quorum and stays there through crashes, snapshots and recoveries.
CertifiedIsDurable ==
  \A r \in Live : nodes[r].rep.high_qc # None =>
    Cardinality({s \in Replicas : nodes[r].rep.high_qc.block
                                    \in DOMAIN nodes[s].disk.block_tree})
      >= QuorumSize(Replicas)

\* At any time the disk of a live replica holds its log, its view and its
\* certificate, and every block but some that it proposed itself: as long as a
\* hash names one block, which it does until the process restarts.
DiskMirrorsMemory ==
  restarts = 0 => \A r \in Live :
    LET rep == nodes[r].rep
        disk == nodes[r].disk
    IN  /\ disk.in_order
        /\ disk.current_view = rep.current_view
        /\ disk.committed_log = rep.committed_log
        /\ disk.high_qc = Stub(rep.high_qc)
        /\ DOMAIN disk.block_tree \subseteq DOMAIN rep.block_tree
        /\ \A h \in DOMAIN rep.block_tree :
             IF h \in DOMAIN disk.block_tree
             THEN disk.block_tree[h] = Stored(rep.block_tree[h])
             ELSE rep.block_tree[h].proposer = r

\* No double voting after recovery: no two blocks of one view get around, so
\* no replica ever votes for two.  (Genesis and the first block share view 0.)
OneBlockPerView ==
  LET proposed == {[view |-> b.view, hash |-> b.hash] :
                     b \in {k \in KnownBlocks : k.hash # 0}}
  IN  \A p, q \in proposed : p.view = q.view => p = q

\* What is committed on a disk stays committed, whatever happens.
DurableLogAppendOnly ==
  [][\A r \in Replicas : IsPrefix(nodes[r].disk.committed_log,
                                   nodes'[r].disk.committed_log)]_vars

\* The view of a replica that stays up or comes back is never lower than one
\* it has reached.
ViewsNeverFall ==
  [][\A r \in Replicas : nodes[r].disk.current_view
                            <= nodes'[r].disk.current_view]_vars

(***************************************************************************)
(* The replicas that never fail, whatever becomes of the others: those     *)
(* fall silent and speak again with the view that they had, lose their     *)
(* memory, come back with certificates that have no signatures and with    *)
(* blocks that nobody else kept, and lead when it is their turn.           *)
(***************************************************************************)
Correct == Replicas \ Faulty

\* What two replicas agree on between rounds.
InStep(a, b) ==
  /\ a.current_view = b.current_view
  /\ a.config_epoch = b.config_epoch
  /\ a.block_tree = b.block_tree
  /\ a.high_qc = b.high_qc
  /\ a.committed_log = b.committed_log

\* The certificate that one replica puts into its proposals passes the checks
\* of validate_and_insert_proposal at another.
Honours(rep, qc) ==
  qc # None => /\ qc.epoch = rep.config_epoch
               /\ qc.block \in DOMAIN rep.block_tree
               /\ VerifiesQC(rep, qc)

\* No faulty leader divides the correct replicas: what it proposes, certifies
\* and broadcasts is taken in by all of them or by none.
CorrectInLockstep ==
  restarts = 0 =>
    \A r, s \in Correct : InStep(nodes[r].rep, nodes[s].rep)

\* Nor does it leave one of them with a certificate that another rejects.
CorrectHonoured ==
  restarts = 0 =>
    \A r, s \in Correct : Honours(nodes[r].rep, nodes[s].rep.high_qc)

\* The turn of a correct leader is never wasted: if a quorum of others is up
\* and in step with it, its block is certified and all correct replicas know.
CorrectRoundCertifies ==
  [][\A l \in Correct :
       /\ restarts = 0
       /\ step' = step + 1
       /\ CurrentLeader = l
       /\ IsLeader(nodes[l].rep, nodes[l].rep.current_view)
       /\ Cardinality({r \in Up \ {l} : InStep(nodes[l].rep, nodes[r].rep)})
            >= QuorumSize(Replicas)
       => \A r \in Correct : /\ nodes'[r].rep.high_qc # None
                             /\ nodes'[r].rep.high_qc.block = nextHash]_vars

CorrectPromise == INSTANCE Ledger WITH
  Replicas <- Correct,
  Ids <- Nat,
  agreed <- nodes[Min(Correct)].rep.committed_log,
  copies <- [r \in Correct |-> nodes[r].rep.committed_log]

\* Agreement for the correct replicas: they execute one ledger, which grows
\* only and has nothing twice.
CorrectLedger == CorrectPromise!Spec

(***************************************************************************)
(* The cluster implements the ledger: what is agreed on is the longest log *)
(* on a disk.                                                              *)
(***************************************************************************)
LongestLog ==
  LET logs == {nodes[r].disk.committed_log : r \in Replicas}
  IN  CHOOSE log \in logs : \A other \in logs : Len(other) <= Len(log)

Promise == INSTANCE Ledger WITH
  Ids <- Nat,
  agreed <- LongestLog,
  copies <- [r \in Replicas |-> nodes[r].rep.committed_log]

\* verify_safety and more: the logs of the replicas are prefixes of one
\* ledger, which no crash and no recovery shortens or rewrites, and nothing
\* is executed twice.
ImplementsLedger == Promise!Spec
=============================================================================
