------------------------------ MODULE Replica ------------------------------
(***************************************************************************)
(* One replica (struct Replica of src/src/replica.rs) under every order of *)
(* calls of its public operations.  The caller is the rest of the cluster: *)
(* it delivers the proposals, the votes and the certificates of peers in   *)
(* any order, any number of times or never, and drives the pacemaker.      *)
(*                                                                         *)
(* commit_all is a loop over the public try_commit_once that touches       *)
(* nothing in between, so its runs are runs of consecutive TryCommitOnce   *)
(* steps here.                                                             *)
(***************************************************************************)
EXTENDS ReplicaOps

CONSTANTS
  Self,            \* the id of this replica
  InitValidators,  \* the validators of epoch 0
  InitKeys,        \* the ids whose public key is in the key store at boot
  Blocks,          \* the blocks that peers may propose to this replica
  Votes,           \* the votes that peers may send
  QCs,             \* the certificates that peers may announce
  Commands,        \* the commands this replica may propose
  OwnHashes,       \* hashes the network hands out to this replica
  Views            \* the views the pacemaker and the leader may use (bound)

ASSUME ValidatorsAssumption ==
  /\ InitValidators \subseteq Nat
  /\ IsFiniteSet(InitValidators)
  /\ InitValidators # {}
  /\ InitKeys \subseteq Nat
  /\ InitValidators \subseteq InitKeys
  /\ Self \in Nat

\* generate_unique_hash: within one run of the process a hash names one block,
\* and 0 names genesis.
ASSUME HashAssumption ==
  /\ OwnHashes \subseteq Nat \ {0}
  /\ \A b \in Blocks : b.hash \in Nat \ ({0} \cup OwnHashes)
  /\ \A b, c \in Blocks : b.hash = c.hash => b = c

\* Views are unsigned words, commands are ConsensusCommands.
ASSUME TypeAssumption ==
  /\ Views \subseteq Nat
  /\ Commands \subseteq CommandSet
  /\ \A b \in Blocks : b.cmd \in CommandSet

VARIABLES
  rep,       \* the state of the replica
  spent      \* the hashes of OwnHashes that have been handed out

vars == <<rep, spent>>

Init ==
  /\ rep = FreshReplica(Self, InitValidators, InitKeys)
  /\ spent = {}

\* handle_vote, on a vote that is counted.  Its view is not compared with the
\* view of the block it is for.
ReceiveVote(vote) ==
  /\ AdmitsVote(rep, vote)
  /\ rep' = HandleVote(rep, vote)
  /\ UNCHANGED spent

\* apply_high_qc_from_network, on a newer certificate.
ReceiveQC(qc) ==
  /\ NewerQC(qc, rep.high_qc)
  /\ rep' = ApplyHighQC(rep, qc)
  /\ UNCHANGED spent

\* validate_and_insert_proposal, on a block that passes the checks.
ReceiveBlock(b) ==
  /\ AcceptsProposal(rep, b)
  /\ rep' = ReceiveProposal(rep, b)
  /\ UNCHANGED spent

\* generate_unique_hash and, with what it gives, propose_with_hash or
\* propose_next_with_hash, which insert the block whatever the tree holds.
ProposeBlock(view, hash, cmd) ==
  /\ hash \notin spent
  /\ spent' = spent \cup {hash}
  /\ IsLeader(rep, view)
  /\ rep' = Propose(rep, NewBlock(rep, view, hash, cmd))

\* try_commit_once: find_committed_block walks the tree in hash order.
TryCommitOnce ==
  \E h \in Committable(rep) :
    /\ \A g \in Committable(rep) : h <= g
    /\ rep' = Commit(rep, h)
    /\ UNCHANGED spent

\* on_view_timeout and advance_view_with_reason, up to the bound Views.
ChangeView ==
  /\ rep.current_view + 1 \in Views
  /\ rep' = AdvanceView(rep)
  /\ UNCHANGED spent

\* start_view: unlike a view change it keeps the votes.
StartView(view) ==
  /\ rep' = [rep EXCEPT !.current_view = view]
  /\ UNCHANGED spent

Next ==
  \/ \E vote \in Votes : ReceiveVote(vote)
  \/ \E qc \in QCs : ReceiveQC(qc)
  \/ \E b \in Blocks : ReceiveBlock(b)
  \/ \E view \in Views, hash \in OwnHashes, cmd \in Commands :
       ProposeBlock(view, hash, cmd)
  \/ TryCommitOnce
  \/ ChangeView
  \/ \E view \in Views : StartView(view)

Spec == Init /\ [][Next]_vars

(***************************************************************************)
(* Properties.                                                             *)
(***************************************************************************)
\* The types of the fields of the replica.
TypeOK ==
  /\ IsReplica(rep)
  /\ rep.id = Self
  /\ IsFiniteSet(rep.active_validators)
  /\ rep.config_n = Cardinality(rep.active_validators)
  /\ spent \subseteq OwnHashes

\* Every block of the log can still be justified from the tree: it has a
\* child that carries a certificate, and so does that child.  A later
\* proposal never takes the evidence for a commit away.
CommittedHasThreeChain ==
  \A i \in DOMAIN rep.committed_log :
    LET h == rep.committed_log[i]
    IN  /\ h \in DOMAIN rep.block_tree
        /\ \E c1, c2 \in DOMAIN rep.block_tree :
             /\ rep.block_tree[c1].parent = h
             /\ rep.block_tree[c1].qc # None
             /\ rep.block_tree[c2].parent = c1
             /\ rep.block_tree[c2].qc # None

\* The votes waiting for a quorum are by validators of the present epoch
\* whose keys are known, one for each signer and block, for known blocks of
\* the present epoch: a reconfiguration leaves no vote of the old set behind
\* (apply_membership_command).
PoolIsCurrent ==
  /\ \A s \in rep.vote_pool :
       /\ s.signer \in rep.active_validators
       /\ s.signer \in rep.keys
       /\ s.epoch = rep.config_epoch
       /\ s.block \in DOMAIN rep.block_tree
       /\ rep.block_tree[s.block].epoch = rep.config_epoch
  /\ \A s, t \in rep.vote_pool :
       s.block = t.block /\ s.signer = t.signer => s = t

\* Every signature of a certificate is for the view that it names.
OneView(qc) == \A s \in qc.sigs : s.view = qc.view

\* The certificate that a replica puts into its proposals is one that it
\* would itself accept, as long as it is of the present epoch, across
\* membership changes too, unless its signers named different views.  That is
\* all that try_form_qc and verify_qc can disagree on: try_form_qc counts the
\* votes for a block and takes the view from the last of them, verify_qc
\* counts those of that view.
HighQCVerifies ==
  LET qc == rep.high_qc
  IN  qc # None /\ qc.epoch = rep.config_epoch /\ OneView(qc)
        => VerifiesQC(rep, qc)

CommandAt(i) == rep.block_tree[rep.committed_log[i]].cmd

\* README: 4 -> 5 -> 6 -> 7 validators while the system runs.  Once a join is
\* committed the validator is one, unless a later command removes it.
JoinTakesEffect ==
  \A i \in DOMAIN rep.committed_log :
    CommandAt(i).op = "join" /\ CommandAt(i).valid_key =>
      \/ CommandAt(i).who \in rep.active_validators
      \/ \E j \in DOMAIN rep.committed_log :
           j > i /\ CommandAt(j) = RemoveValidator(CommandAt(i).who)
=============================================================================
