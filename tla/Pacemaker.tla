----------------------------- MODULE Pacemaker -----------------------------
(***************************************************************************)
(* The cluster of Simulation under run_one_round_with_pacemaker: clients   *)
(* put commands into the queue of the current leader, a leader proposes a  *)
(* command from its queue and a dummy block when it has none, and commands *)
(* may change the validators.                                              *)
(*                                                                         *)
(* The dummy timeout is 0, as wherever the repository enables dummies for  *)
(* a cluster: it has passed whenever a leader is asked.                    *)
(***************************************************************************)
EXTENDS Simulation

CONSTANTS
  Commands,      \* the commands the clients enqueue, each of them once
  EnqueueBy,     \* the round after which no client comes any more (bound)
  Drought        \* the rounds without a commit that are too many

ASSUME PacemakerAssumption ==
  /\ Commands \subseteq CommandSet \ {NoOp}
  /\ EnqueueBy \in Nat
  /\ Drought \in Nat

VARIABLES
  queue,         \* client_queue of each replica
  dummies,       \* the replicas whose dummy_proposal_enabled is set
  enqueued,      \* history: the commands that clients have handed over
  dry            \* history: rounds since the last commit at a live replica

pvars == <<vars, queue, dummies, enqueued, dry>>

(***************************************************************************)
(* What a leader proposes.                                                 *)
(***************************************************************************)
\* Slip: a dummy waits for a certificate that it can carry.
ProposesDummyOnQC(r) == r \in dummies /\ nodes[r].rep.high_qc # None

\* should_propose_dummy
ProposesDummy(r) ==
  /\ r \in dummies
  /\ IsLeader(nodes[r].rep, nodes[r].rep.current_view)
  /\ queue[r] = <<>>
  /\ Committable(nodes[r].rep) = {}

\* Slips: the command that is proposed stays in the queue; the queue is
\* emptied with it.
PeekedFrom(q) == q
DrainedFrom(q) == <<>>

\* Vec::pop takes the command that came last.
PoppedFrom(q) == Front(q)

\* Slip: a crash by the timeout leaves the queue alone.
QueuesKept == queue

\* The replicas that lose their memory in this round lose their queue and
\* their setting with it.
QueuesNow == [r \in Replicas |-> IF r \in TimedOut THEN <<>> ELSE queue[r]]

Commits(after) ==
  \E r \in Replicas \ CrashedNow :
    Len(after[r].rep.committed_log) > Len(nodes[r].rep.committed_log)

PacemakerFrame(after) ==
  /\ RoundFrame
  /\ nodes' = after
  /\ dummies' = dummies \ TimedOut
  /\ dry' = IF Commits(after) THEN 0
            ELSE IF dry < Drought THEN dry + 1 ELSE dry
  /\ UNCHANGED enqueued

\* The leader is silent: a view timeout for everybody else.  Unlike
\* run_one_round, a round that ends early marks nobody as having responded.
TimeoutRound ==
  /\ CurrentLeader \notin Up
  /\ queue' = QueuesNow
  /\ PacemakerFrame(ViewTimeoutOf(NodesNow))
  /\ Unanswered
  /\ UNCHANGED nextHash

\* propose_next_with_hash has nothing to propose: it is not the leader of its
\* view, or it has no command and proposes no dummy.
SkippedRound ==
  /\ CurrentLeader \in Up
  /\ LET leader == nodes[CurrentLeader].rep
     IN  IsLeader(leader, leader.current_view) =>
           /\ queue[CurrentLeader] = <<>>
           /\ ~ProposesDummy(CurrentLeader)
  /\ queue' = QueuesNow
  /\ PacemakerFrame(ViewTimeoutOf(NodesNow))
  /\ Unanswered
  /\ HashSpent

\* A command is taken from the queue, for good, and proposed.
CommandRound ==
  /\ CurrentLeader \in Up
  /\ IsLeader(nodes[CurrentLeader].rep, nodes[CurrentLeader].rep.current_view)
  /\ queue[CurrentLeader] # <<>>
  /\ queue' = [QueuesNow EXCEPT ![CurrentLeader] = PoppedFrom(@)]
  /\ LET cmd == Last(queue[CurrentLeader])
     IN  PacemakerFrame(RoundOf(CurrentLeader, nextHash, cmd))
  /\ Answered
  /\ HashSpent

DummyRound ==
  /\ CurrentLeader \in Up
  /\ ProposesDummy(CurrentLeader)
  /\ queue' = QueuesNow
  /\ PacemakerFrame(RoundOf(CurrentLeader, nextHash, NoOp))
  /\ Answered
  /\ HashSpent

\* run_one_round_with_pacemaker
PacemakerRound == TimeoutRound \/ SkippedRound \/ CommandRound \/ DummyRound

\* A call that returns false may crash replicas too.
RefusedPacemakerRound ==
  /\ RefusedRound
  /\ queue' = QueuesNow
  /\ dummies' = dummies \ TimedOut
  /\ UNCHANGED <<enqueued, dry>>

(***************************************************************************)
(* Clients and faults, between rounds.                                     *)
(***************************************************************************)
\* enqueue_client_command: the leader that a round would have now gets it.
Enqueue(cmd) ==
  /\ cmd \in Commands \ enqueued
  /\ step <= EnqueueBy
  /\ crashed # Replicas
  /\ queue' = [queue EXCEPT ![LeaderAmong(crashed)] = Append(@, cmd)]
  /\ enqueued' = enqueued \cup {cmd}
  /\ UNCHANGED <<vars, dummies, dry>>

Forgets(r) ==
  /\ queue' = [queue EXCEPT ![r] = <<>>]
  /\ dummies' = dummies \ {r}
  /\ UNCHANGED <<enqueued, dry>>

Silence(r) == FallSilent(r) /\ UNCHANGED <<queue, dummies, enqueued, dry>>

Fail(r) == CrashReplica(r) /\ Forgets(r)

\* A recovered replica starts with an empty queue, and nobody enables its
\* dummy proposals again.
Rejoin(r) == RecoverReplica(r) /\ Forgets(r)

\* A new cluster, and enable_dummy_proposals(0) on it.
PacemakerInit ==
  /\ Init
  /\ queue = [r \in Replicas |-> <<>>]
  /\ dummies = Replicas
  /\ enqueued = {}
  /\ dry = 0

PacemakerNext ==
  \/ PacemakerRound
  \/ RefusedPacemakerRound
  \/ \E cmd \in Commands : Enqueue(cmd)
  \/ \E r \in Replicas : Silence(r) \/ Fail(r) \/ Rejoin(r)

\* The four cases of a round are exhaustive and nothing else changes step, so
\* this is a round in the terms that fairness needs.
RoundComes ==
  /\ step < MaxSteps
  /\ CrashedNow # Replicas
  /\ step' = step + 1

\* A simulation is a loop over run_one_round_with_pacemaker: the next round
\* comes.  Nobody owes it a fault, a recovery or a command.
PacemakerSpec ==
  PacemakerInit /\ [][PacemakerNext]_pvars /\ WF_step(RoundComes)

(***************************************************************************)
(* Properties.                                                             *)
(***************************************************************************)
CommandsIn(r) ==
  LET rep == nodes[r].rep
  IN  {rep.block_tree[rep.committed_log[i]].cmd :
         i \in {j \in DOMAIN rep.committed_log :
                  rep.committed_log[j] \in DOMAIN rep.block_tree}}

\* The types of the queues, which hold commands that a client did enqueue.
PacemakerTypeOK ==
  /\ queue \in [Replicas -> Seq(enqueued)]
  /\ dummies \subseteq Replicas
  /\ enqueued \subseteq Commands
  /\ dry \in 0 .. Drought
  /\ \A r \in crashed : queue[r] = <<>>

\* A command is waiting in one queue or is in one block, never both and never
\* twice, whatever fails: none is executed twice.
CommandOnce ==
  \A cmd \in enqueued :
    LET places  == Replicas \X (1 .. Cardinality(Commands))
        waiting == {p \in places : /\ p[2] \in DOMAIN queue[p[1]]
                                   /\ queue[p[1]][p[2]] = cmd}
        blocks  == {b.hash : b \in {c \in KnownBlocks : c.cmd = cmd}}
    IN  Cardinality(waiting) + Cardinality(blocks) <= 1

Reconfigured == \E r \in Replicas \ crashed : nodes[r].rep.config_epoch > 0

Down == crashed \cup unresponsive

\* README: no stalls, with a single client or no requests at all.  As long as
\* at most f are down and the validators are the same, some block is committed
\* every few rounds.
NoStalls ==
  Cardinality(Down) <= FaultBound(Replicas) /\ ~Reconfigured
    => dry < Drought

\* README: replicas are added and removed while the system runs.  It still
\* commits after the change, as long as nobody is down.
RunsOnAfterChange == Down = {} => dry < Drought

\* README: the replicas agree on the validators of each epoch.  Those that
\* were never down and have executed the same blocks have the same epoch, the
\* same validators and the same keys.
StateFollowsLog ==
  \A r, s \in dummies \ crashed :
    nodes[r].rep.committed_log = nodes[s].rep.committed_log =>
      /\ nodes[r].rep.config_epoch = nodes[s].rep.config_epoch
      /\ nodes[r].rep.active_validators = nodes[s].rep.active_validators
      /\ nodes[r].rep.keys = nodes[s].rep.keys

\* The pacemaker's promise to a client: in a cluster where nobody ever fails,
\* its command is executed everywhere in the end, whatever came before and
\* after it, and without further requests; unless the validators change.
CommandsCommitted ==
  [](Down = {}) =>
    \A cmd \in Commands :
      cmd \in enqueued ~> \/ \A r \in Replicas : cmd \in CommandsIn(r)
                          \/ Reconfigured
=============================================================================
