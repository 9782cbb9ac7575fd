----------------------------- MODULE ReplicaOps -----------------------------
(***************************************************************************)
(* The operations of one consensus replica (src/src/replica.rs), as        *)
(* operators from the state of a replica to its next state.  Module        *)
(* Replica runs one replica under every order of calls, module Simulation  *)
(* composes n of them the way src/src/simulation.rs does.                  *)
(*                                                                         *)
(* Abstractions.  A hash is a natural number (it is a u64 in the code, and *)
(* 0 is genesis).  A signature is a record [block, signer, view, epoch]:  *)
(* what the signer put its key to; nobody signs for anybody else.  The     *)
(* committed log keeps the hashes of the committed blocks.  Timers,        *)
(* printing and committed_up_to (written, copied and never read by the     *)
(* protocol) are left out.                                                 *)
(***************************************************************************)
EXTENDS Naturals, FiniteSets, Sequences, SequencesExt

CONSTANT None       \* Rust's Option::None, for a parent hash and for a QC

\* The genesis block every replica starts from.
Genesis == [hash |-> 0, parent |-> None, view |-> 0, epoch |-> 0,
            proposer |-> 0, qc |-> None, cmd |-> [op |-> "noop"]]

NoOp == [op |-> "noop"]
JoinValidator(who, valid) ==
  [op |-> "join", who |-> who, valid_key |-> valid]
RemoveValidator(who) == [op |-> "remove", who |-> who]

\* Of the text of a client command only its identity matters.
ClientTx(id) == [op |-> "tx", id |-> id]

\* ConsensusCommand
CommandSet == {NoOp} \cup [op : {"tx"}, id : Nat]
                    \cup [op : {"join"}, who : Nat, valid_key : BOOLEAN]
                    \cup [op : {"remove"}, who : Nat]

\* The fields of struct Replica that the protocol reads, with their types.
IsReplica(r) ==
  /\ DOMAIN r = {"id", "current_view", "block_tree", "high_qc", "vote_pool",
                 "committed_log", "active_validators", "config_epoch",
                 "config_n", "keys"}
  /\ r.current_view \in Nat
  /\ r.config_epoch \in Nat
  /\ r.active_validators \subseteq Nat
  /\ r.keys \subseteq Nat
  /\ DOMAIN r.block_tree \subseteq Nat
  /\ 0 \in DOMAIN r.block_tree
  /\ \A h \in DOMAIN r.block_tree : /\ r.block_tree[h].hash = h
                                   /\ r.block_tree[h].cmd \in CommandSet
  /\ r.committed_log \in Seq(Nat)

\* A replica as it boots: genesis in the tree and a key for every validator.
FreshReplica(id, validators, keys) ==
  [id |-> id, current_view |-> 0, block_tree |-> [h \in {0} |-> Genesis],
   high_qc |-> None, vote_pool |-> {}, committed_log |-> <<>>,
   active_validators |-> validators, config_epoch |-> 0,
   config_n |-> Cardinality(validators), keys |-> keys]

(***************************************************************************)
(* Quorums and leaders of a validator set.                                 *)
(***************************************************************************)
FaultBound(vals) == IF vals = {} THEN 0 ELSE (Cardinality(vals) - 1) \div 3

\* Slip: n - f instead of 2f+1, the same for 3f+1 validators only.
QuorumSizeNMinusF(vals) == Cardinality(vals) - FaultBound(vals)

QuorumSize(vals) == 2 * FaultBound(vals) + 1

\* Round robin over the validators in the order of their ids.
LeaderForView(vals, view) ==
  CHOOSE v \in vals :
    Cardinality({w \in vals : w < v}) = view % Cardinality(vals)

IsLeader(r, view) == LeaderForView(r.active_validators, view) = r.id

(***************************************************************************)
(* Keys, votes and quorum certificates.                                    *)
(***************************************************************************)
\* A vote is the signature that it carries.
Sign(signer, b) ==
  [block |-> b.hash, signer |-> signer, view |-> b.view, epoch |-> b.epoch]

\* A key for the signer is known, and it signed exactly this.
Verifies(keys, sig, block, view, epoch) ==
  /\ sig.signer \in keys
  /\ sig.block = block
  /\ sig.view = view
  /\ sig.epoch = epoch

AddPublicKey(keys, who) == keys \cup {who}

RemovePublicKey(keys, who) == keys \ {who}

\* A vote that handle_vote does not drop.
AdmitsVote(r, vote) ==
  /\ vote.epoch = r.config_epoch
  /\ vote.signer \in r.active_validators
  /\ Verifies(r.keys, vote, vote.block, vote.view, vote.epoch)
  /\ vote.signer < r.config_n
  /\ vote.block \in DOMAIN r.block_tree
  /\ r.block_tree[vote.block].epoch = vote.epoch
  /\ \A s \in r.vote_pool : s.block = vote.block => s.signer # vote.signer

\* The signatures the pool holds for one block.
SignaturesFor(pool, block) == {s \in pool : s.block = block}

\* Slip: a certificate one vote short of the quorum.
FormQCEarly(r, vote, pool) ==
  LET sigs == SignaturesFor(pool, vote.block)
  IN  IF Cardinality(sigs) + 1 >= QuorumSize(r.active_validators)
      THEN [block |-> vote.block, view |-> vote.view, epoch |-> vote.epoch,
            sigs |-> sigs]
      ELSE r.high_qc

\* try_form_qc: the certificate of the vote just counted becomes high_qc,
\* whatever high_qc was, as soon as and as often as the pool holds a quorum.
FormQC(r, vote, pool) ==
  LET sigs == SignaturesFor(pool, vote.block)
  IN  IF Cardinality(sigs) >= QuorumSize(r.active_validators)
      THEN [block |-> vote.block, view |-> vote.view, epoch |-> vote.epoch,
            sigs |-> sigs]
      ELSE r.high_qc

CountVote(r, vote) ==
  LET pool == r.vote_pool \cup
              {[block |-> vote.block, signer |-> vote.signer,
                view |-> vote.view, epoch |-> vote.epoch]}
  IN  [r EXCEPT !.vote_pool = pool, !.high_qc = FormQC(r, vote, pool)]

HandleVote(r, vote) == IF AdmitsVote(r, vote) THEN CountVote(r, vote) ELSE r

\* verify_qc counts the signers and not the signatures.
VerifiesQC(r, qc) ==
  LET valid == {s \in qc.sigs :
                  Verifies(r.keys, s, qc.block, qc.view, qc.epoch)}
  IN  Cardinality({s.signer : s \in valid}) >= QuorumSize(r.active_validators)

\* (epoch, view) compared lexicographically, as Rust compares tuples.
NewerQC(qc, old) ==
  old # None => \/ qc.epoch > old.epoch
                \/ qc.epoch = old.epoch /\ qc.view > old.view

ApplyHighQC(r, qc) ==
  IF NewerQC(qc, r.high_qc) THEN [r EXCEPT !.high_qc = qc] ELSE r

(***************************************************************************)
(* Proposals.                                                              *)
(***************************************************************************)
InsertBlock(tree, b) ==
  [h \in DOMAIN tree \cup {b.hash} |-> IF h = b.hash THEN b ELSE tree[h]]

\* latest_block_hash: the highest view; max_by_key keeps the last maximum,
\* which in a BTreeMap is the largest hash.
LatestBlock(tree) ==
  CHOOSE h \in DOMAIN tree : \A g \in DOMAIN tree :
    \/ tree[g].view < tree[h].view
    \/ tree[g].view = tree[h].view /\ g <= h

NewBlock(r, view, hash, cmd) ==
  [hash |-> hash,
   parent |-> IF r.high_qc # None THEN r.high_qc.block
                                  ELSE LatestBlock(r.block_tree),
   view |-> view, epoch |-> r.config_epoch, proposer |-> r.id,
   qc |-> r.high_qc, cmd |-> cmd]

Propose(r, b) == [r EXCEPT !.block_tree = InsertBlock(@, b)]

\* validate_and_insert_proposal, the checks ...
AcceptsProposal(r, b) ==
  /\ b.proposer = LeaderForView(r.active_validators, b.view)
  /\ b.epoch = r.config_epoch
  /\ b.parent # None => b.parent \in DOMAIN r.block_tree
  /\ b.qc # None => /\ b.qc.epoch = r.config_epoch
                    /\ VerifiesQC(r, b.qc)
                    /\ b.qc.block \in DOMAIN r.block_tree

\* ... and the insertion.
ReceiveProposal(r, b) ==
  IF AcceptsProposal(r, b) THEN [r EXCEPT !.block_tree = InsertBlock(@, b)]
                           ELSE r

(***************************************************************************)
(* The commit rule.                                                        *)
(***************************************************************************)
\* find() over the BTreeMap stops at the child with the smallest hash.
IsFirstChild(tree, h, c) ==
  /\ tree[c].parent = h
  /\ \A d \in DOMAIN tree : tree[d].parent = h => c <= d

\* Slip: the certificate of the last block of the chain is not asked for.
HeadsThreeChainLoose(tree, h) ==
  \E c1, c2 \in DOMAIN tree :
    /\ IsFirstChild(tree, h, c1)  /\ tree[c1].qc # None
    /\ IsFirstChild(tree, c1, c2)

\* Slip: the block's own certificate is looked at, which is its parent's.
CarriesCertificate(tree, h) == tree[h].qc # None

\* B0 <- B1[QC] <- B2[QC], looking at the first child only at each level.
HeadsThreeChain(tree, h) ==
  \E c1, c2 \in DOMAIN tree :
    /\ IsFirstChild(tree, h, c1)  /\ tree[c1].qc # None
    /\ IsFirstChild(tree, c1, c2) /\ tree[c2].qc # None

\* Slip: the committed log is not looked at.
CommittableAgain(r) ==
  {h \in DOMAIN r.block_tree : HeadsThreeChain(r.block_tree, h)}

Committable(r) ==
  {h \in DOMAIN r.block_tree :
     /\ \A i \in DOMAIN r.committed_log : r.committed_log[i] # h
     /\ HeadsThreeChain(r.block_tree, h)}

\* can_apply_new_validator_count
ValidCount(n) == n >= 4 /\ n % 3 = 1

\* Slip: config.n keeps its old value.
ReconfigureStaleN(r, vals, keys) ==
  [r EXCEPT !.active_validators = vals, !.keys = keys,
            !.config_epoch = @ + 1, !.vote_pool = {}]

\* Slip: the votes of the old epoch stay in the pool.
ReconfigureKeepsVotes(r, vals, keys) ==
  [r EXCEPT !.active_validators = vals, !.keys = keys,
            !.config_epoch = @ + 1, !.config_n = Cardinality(vals)]

\* Slip: a replica that is not among the new validators ignores the change.
ReconfigureMembersOnly(r, vals, keys) ==
  IF r.id \notin vals THEN r
  ELSE [r EXCEPT !.active_validators = vals, !.keys = keys,
                 !.config_epoch = @ + 1, !.config_n = Cardinality(vals),
                 !.vote_pool = {}]

Reconfigure(r, vals, keys) ==
  [r EXCEPT !.active_validators = vals, !.keys = keys,
            !.config_epoch = @ + 1, !.config_n = Cardinality(vals),
            !.vote_pool = {}]

ApplyMembership(r, cmd) ==
  CASE /\ cmd.op = "join"
       /\ cmd.who \notin r.active_validators
       /\ ValidCount(Cardinality(r.active_validators) + 1)
       /\ cmd.valid_key ->
         Reconfigure(r, r.active_validators \cup {cmd.who},
                        AddPublicKey(r.keys, cmd.who))
    [] /\ cmd.op = "remove"
       /\ cmd.who \in r.active_validators
       /\ ValidCount(Cardinality(r.active_validators) - 1) ->
         Reconfigure(r, r.active_validators \ {cmd.who},
                        RemovePublicKey(r.keys, cmd.who))
    [] OTHER -> r

\* execute_and_commit: log the block, then apply its command.
Commit(r, h) ==
  ApplyMembership([r EXCEPT !.committed_log = Append(@, h)],
                  r.block_tree[h].cmd)

\* commit_all: the order in which the loop over try_commit_once commits.
\* Whether a block heads a 3-chain depends on the tree alone, which a commit
\* leaves alone, so these are the committable blocks by ascending hash.
CommitSequence(r) ==
  LET blocks == Committable(r)
  IN  [i \in 1 .. Cardinality(blocks) |->
         CHOOSE h \in blocks : Cardinality({g \in blocks : g < h}) = i - 1]

(***************************************************************************)
(* The pacemaker's view change.                                            *)
(***************************************************************************)
\* Slip: the votes of the old view stay in the pool.
AdvanceViewKeepsVotes(r) == [r EXCEPT !.current_view = @ + 1]

AdvanceView(r) == [r EXCEPT !.current_view = @ + 1, !.vote_pool = {}]
=============================================================================
