--------------------------- MODULE ReplicaProofs ---------------------------
(***************************************************************************)
(* Proofs about one replica under every order of calls, for every set of   *)
(* validators, blocks, votes, certificates and commands.                   *)
(***************************************************************************)
EXTENDS Replica, FiniteSetTheorems, TLAPS

\* The fields of the record of a replica.
Fields == {"id", "current_view", "block_tree", "high_qc", "vote_pool",
           "committed_log", "active_validators", "config_epoch", "config_n",
           "keys"}

(***************************************************************************)
(* What each operation does to each field.                                 *)
(***************************************************************************)
\* Counting a vote touches the pool and the certificate only.
LEMMA CountVoteFields ==
  ASSUME NEW r, DOMAIN r = Fields, NEW vote
  PROVE  LET q == CountVote(r, vote)
         IN  /\ DOMAIN q = Fields
             /\ q.vote_pool = r.vote_pool \cup
                  {[block |-> vote.block, signer |-> vote.signer,
                    view |-> vote.view, epoch |-> vote.epoch]}
             /\ \A f \in Fields \ {"vote_pool", "high_qc"} : q[f] = r[f]
  BY DEF CountVote, Fields

\* A membership command is applied in full or not at all.
LEMMA ApplyMembershipCases ==
  ASSUME NEW q, NEW cmd \in CommandSet
  PROVE  \/ ApplyMembership(q, cmd) = q
         \/ /\ cmd.who \in Nat \ q.active_validators
            /\ ValidCount(Cardinality(q.active_validators) + 1)
            /\ ApplyMembership(q, cmd) =
                 Reconfigure(q, q.active_validators \cup {cmd.who},
                                q.keys \cup {cmd.who})
         \/ /\ cmd.who \in q.active_validators
            /\ ValidCount(Cardinality(q.active_validators) - 1)
            /\ ApplyMembership(q, cmd) =
                 Reconfigure(q, q.active_validators \ {cmd.who},
                                q.keys \ {cmd.who})
  BY DEF ApplyMembership, AddPublicKey, RemovePublicKey, CommandSet, NoOp

\* A commit appends to the log, keeps the tree and the certificate, and keeps
\* the configuration and the pool or starts an epoch with an empty pool.
LEMMA CommitFields ==
  ASSUME NEW r, DOMAIN r = Fields, NEW h,
         r.block_tree[h].cmd \in CommandSet
  PROVE  LET q == Commit(r, h)
             who == r.block_tree[h].cmd.who
         IN  /\ DOMAIN q = Fields
             /\ q.id = r.id
             /\ q.current_view = r.current_view
             /\ q.block_tree = r.block_tree
             /\ q.high_qc = r.high_qc
             /\ q.committed_log = Append(r.committed_log, h)
             /\ \/ /\ q.vote_pool = r.vote_pool
                   /\ q.active_validators = r.active_validators
                   /\ q.config_epoch = r.config_epoch
                   /\ q.config_n = r.config_n
                   /\ q.keys = r.keys
                \/ /\ q.vote_pool = {}
                   /\ q.config_epoch = r.config_epoch + 1
                   /\ q.config_n = Cardinality(q.active_validators)
                   /\ \/ /\ who \in Nat \ r.active_validators
                         /\ ValidCount(Cardinality(r.active_validators) + 1)
                         /\ q.active_validators =
                              r.active_validators \cup {who}
                         /\ q.keys = r.keys \cup {who}
                      \/ /\ who \in r.active_validators
                         /\ ValidCount(Cardinality(r.active_validators) - 1)
                         /\ q.active_validators = r.active_validators \ {who}
                         /\ q.keys = r.keys \ {who}
<1> DEFINE s == [r EXCEPT !.committed_log = Append(@, h)]
           cmd == r.block_tree[h].cmd
<1>1. /\ DOMAIN s = Fields
      /\ s.id = r.id
      /\ s.current_view = r.current_view
      /\ s.block_tree = r.block_tree
      /\ s.high_qc = r.high_qc
      /\ s.vote_pool = r.vote_pool
      /\ s.committed_log = Append(r.committed_log, h)
      /\ s.active_validators = r.active_validators
      /\ s.config_epoch = r.config_epoch
      /\ s.config_n = r.config_n
      /\ s.keys = r.keys
  BY DEF Fields
<1>2. Commit(r, h) = ApplyMembership(s, cmd)
  BY DEF Commit
<1> HIDE DEF s
<1>3. CASE ApplyMembership(s, cmd) = s
  BY <1>1, <1>2, <1>3
<1>4. CASE /\ cmd.who \in Nat \ s.active_validators
           /\ ValidCount(Cardinality(s.active_validators) + 1)
           /\ ApplyMembership(s, cmd) =
                Reconfigure(s, s.active_validators \cup {cmd.who},
                               s.keys \cup {cmd.who})
  <2> DEFINE vals == s.active_validators \cup {cmd.who}
             keys == s.keys \cup {cmd.who}
             q == Reconfigure(s, vals, keys)
  <2>1. Commit(r, h) = q
    BY <1>2, <1>4
  <2> HIDE DEF vals, keys
  <2>2. /\ DOMAIN q = Fields
        /\ q.id = s.id
        /\ q.current_view = s.current_view
        /\ q.block_tree = s.block_tree
        /\ q.high_qc = s.high_qc
        /\ q.committed_log = s.committed_log
        /\ q.vote_pool = {}
        /\ q.config_epoch = s.config_epoch + 1
        /\ q.active_validators = vals
        /\ q.config_n = Cardinality(vals)
        /\ q.keys = keys
    BY <1>1, SMT DEF Reconfigure, Fields
  <2> HIDE DEF q
  <2> QED
    BY <1>1, <1>4, <2>1, <2>2 DEF vals, keys
<1>5. CASE /\ cmd.who \in s.active_validators
           /\ ValidCount(Cardinality(s.active_validators) - 1)
           /\ ApplyMembership(s, cmd) =
                Reconfigure(s, s.active_validators \ {cmd.who},
                               s.keys \ {cmd.who})
  <2> DEFINE vals == s.active_validators \ {cmd.who}
             keys == s.keys \ {cmd.who}
             q == Reconfigure(s, vals, keys)
  <2>1. Commit(r, h) = q
    BY <1>2, <1>5
  <2> HIDE DEF vals, keys
  <2>2. /\ DOMAIN q = Fields
        /\ q.id = s.id
        /\ q.current_view = s.current_view
        /\ q.block_tree = s.block_tree
        /\ q.high_qc = s.high_qc
        /\ q.committed_log = s.committed_log
        /\ q.vote_pool = {}
        /\ q.config_epoch = s.config_epoch + 1
        /\ q.active_validators = vals
        /\ q.config_n = Cardinality(vals)
        /\ q.keys = keys
    BY <1>1, SMT DEF Reconfigure, Fields
  <2> HIDE DEF q
  <2> QED
    BY <1>1, <1>5, <2>1, <2>2 DEF vals, keys
<1> QED
  BY <1>3, <1>4, <1>5, ApplyMembershipCases

(***************************************************************************)
(* The effects of a step, field by field.                                  *)
(***************************************************************************)
\* A step leaves these fields alone.
Keeps(fields) == \A f \in fields : rep'[f] = rep[f]

Membership == {"active_validators", "config_epoch", "config_n", "keys"}

VoteEffect ==
  \E vote \in Votes :
    /\ AdmitsVote(rep, vote)
    /\ rep'.vote_pool = rep.vote_pool \cup
         {[block |-> vote.block, signer |-> vote.signer,
           view |-> vote.view, epoch |-> vote.epoch]}
    /\ Keeps(Membership \cup {"id", "current_view", "block_tree",
                              "committed_log"})
    /\ spent' = spent

QCEffect == Keeps(Fields \ {"high_qc"}) /\ spent' = spent

InsertEffect ==
  \E b : /\ \/ b \in Blocks /\ spent' = spent
            \/ /\ b.hash \in OwnHashes \ spent
               /\ b.cmd \in CommandSet
               /\ spent' = spent \cup {b.hash}
         /\ rep'.block_tree = InsertBlock(rep.block_tree, b)
         /\ Keeps(Fields \ {"block_tree"})

CommitEffect ==
  \E h \in Committable(rep) : rep' = Commit(rep, h) /\ spent' = spent

ViewEffect ==
  /\ rep'.current_view \in Nat
  /\ rep'.vote_pool \in {rep.vote_pool, {}}
  /\ Keeps(Fields \ {"current_view", "vote_pool"})
  /\ spent' = spent

\* Every step has one of these effects.
LEMMA NextEffects ==
  ASSUME DOMAIN rep = Fields, Next
  PROVE  /\ CommitEffect \/ DOMAIN rep' = Fields
         /\ \/ VoteEffect
            \/ QCEffect
            \/ InsertEffect
            \/ CommitEffect
            \/ ViewEffect
<1>1. ASSUME NEW vote \in Votes, ReceiveVote(vote)
      PROVE  DOMAIN rep' = Fields /\ VoteEffect
  <2>1. AdmitsVote(rep, vote) /\ rep' = CountVote(rep, vote)
    BY <1>1 DEF ReceiveVote, HandleVote
  <2>2. /\ DOMAIN rep' = Fields
        /\ rep'.vote_pool = rep.vote_pool \cup
             {[block |-> vote.block, signer |-> vote.signer,
               view |-> vote.view, epoch |-> vote.epoch]}
    BY <2>1, CountVoteFields
  <2>3. Keeps(Membership \cup {"id", "current_view", "block_tree",
                               "committed_log"})
    BY <2>1 DEF CountVote, Keeps, Membership, Fields
  <2> QED
    BY <1>1, <2>1, <2>2, <2>3 DEF VoteEffect, ReceiveVote
<1>2. ASSUME NEW qc \in QCs, ReceiveQC(qc)
      PROVE  DOMAIN rep' = Fields /\ QCEffect
  <2>1. rep' = [rep EXCEPT !.high_qc = qc]
    BY <1>2 DEF ReceiveQC, ApplyHighQC
  <2> QED
    BY <1>2, <2>1 DEF QCEffect, Keeps, Fields, ReceiveQC
<1>3. ASSUME NEW b \in Blocks, ReceiveBlock(b)
      PROVE  DOMAIN rep' = Fields /\ InsertEffect
  <2>1. rep' = [rep EXCEPT !.block_tree = InsertBlock(@, b)]
    BY <1>3 DEF ReceiveBlock, ReceiveProposal
  <2>2. /\ DOMAIN rep' = Fields
        /\ rep'.block_tree = InsertBlock(rep.block_tree, b)
        /\ Keeps(Fields \ {"block_tree"})
    BY <2>1 DEF Keeps, Fields
  <2> QED
    BY <1>3, <2>2 DEF InsertEffect, ReceiveBlock
<1>4. ASSUME NEW view \in Views, NEW hash \in OwnHashes, NEW cmd \in Commands,
             ProposeBlock(view, hash, cmd)
      PROVE  DOMAIN rep' = Fields /\ InsertEffect
  <2> DEFINE b == NewBlock(rep, view, hash, cmd)
  <2>1. rep' = [rep EXCEPT !.block_tree = InsertBlock(@, b)]
    BY <1>4 DEF ProposeBlock, Propose
  <2>2. /\ b.hash \in OwnHashes \ spent
        /\ b.cmd \in CommandSet
        /\ spent' = spent \cup {b.hash}
    BY <1>4, TypeAssumption DEF ProposeBlock, NewBlock
  <2> HIDE DEF b
  <2>3. /\ DOMAIN rep' = Fields
        /\ rep'.block_tree = InsertBlock(rep.block_tree, b)
        /\ Keeps(Fields \ {"block_tree"})
    BY <2>1 DEF Keeps, Fields
  <2> QED
    BY <2>2, <2>3 DEF InsertEffect
<1>5. ASSUME TryCommitOnce
      PROVE  CommitEffect
  BY <1>5 DEF TryCommitOnce, CommitEffect
<1>6. ASSUME ChangeView
      PROVE  DOMAIN rep' = Fields /\ ViewEffect
  <2>1. rep' = [rep EXCEPT !.current_view = @ + 1, !.vote_pool = {}]
    BY <1>6 DEF ChangeView, AdvanceView
  <2>2. rep.current_view + 1 \in Nat
    BY <1>6, TypeAssumption DEF ChangeView
  <2> QED
    BY <1>6, <2>1, <2>2 DEF ViewEffect, Keeps, Fields, ChangeView
<1>7. ASSUME NEW view \in Views, StartView(view)
      PROVE  DOMAIN rep' = Fields /\ ViewEffect
  BY <1>7, TypeAssumption DEF StartView, ViewEffect, Keeps, Fields
<1> QED
  BY <1>1, <1>2, <1>3, <1>4, <1>5, <1>6, <1>7 DEF Next

(***************************************************************************)
(* Types, and where the blocks of the tree come from.                      *)
(***************************************************************************)
\* A block of the tree is genesis, a block of a peer, or has a hash that the
\* network has handed out to this replica.  Not an invariant a run needs, but
\* what makes the tree keep its blocks.
TreeOrigin ==
  \A h \in DOMAIN rep.block_tree :
    \/ h = 0
    \/ h \in spent
    \/ rep.block_tree[h] \in Blocks

TypeInv == TypeOK /\ TreeOrigin

LEMMA InitTypes == Init => TypeInv
<1> SUFFICES ASSUME Init PROVE TypeInv
  OBVIOUS
<1>1. Cardinality(InitValidators) \in Nat
  BY ValidatorsAssumption, FS_CardinalityType
<1> QED
  BY <1>1, ValidatorsAssumption
  DEF Init, TypeInv, TypeOK, IsReplica, TreeOrigin, FreshReplica, Genesis,
      CommandSet,
      NoOp

\* A membership command turns a finite set of validators into a finite one,
\* one larger or one smaller.
LEMMA CommitValidators ==
  ASSUME TypeOK, NEW h \in DOMAIN rep.block_tree, rep' = Commit(rep, h)
  PROVE  \/ /\ Keeps(Membership)
            /\ rep'.vote_pool = rep.vote_pool
         \/ LET c == Cardinality(rep.active_validators)
                d == Cardinality(rep'.active_validators)
            IN  /\ IsFiniteSet(rep'.active_validators)
                /\ rep'.active_validators \subseteq Nat
                /\ rep'.keys \subseteq Nat
                /\ rep'.config_epoch = rep.config_epoch + 1
                /\ rep'.config_n = d
                /\ rep'.vote_pool = {}
                /\ c \in Nat
                /\ d \in {c + 1, c - 1}
                /\ ValidCount(d)
<1> DEFINE who == rep.block_tree[h].cmd.who
           vals == rep.active_validators
<1>1. DOMAIN rep = Fields /\ rep.block_tree[h].cmd \in CommandSet
  BY DEF TypeOK, IsReplica, Fields
<1>2. /\ IsFiniteSet(vals)
      /\ vals \subseteq Nat
      /\ rep.keys \subseteq Nat
      /\ Cardinality(vals) \in Nat
  BY FS_CardinalityType DEF TypeOK, IsReplica
<1>3. \/ Keeps(Membership) /\ rep'.vote_pool = rep.vote_pool
      \/ /\ rep'.vote_pool = {}
         /\ rep'.config_epoch = rep.config_epoch + 1
         /\ rep'.config_n = Cardinality(rep'.active_validators)
         /\ \/ /\ who \in Nat \ vals
               /\ ValidCount(Cardinality(vals) + 1)
               /\ rep'.active_validators = vals \cup {who}
               /\ rep'.keys = rep.keys \cup {who}
            \/ /\ who \in vals
               /\ ValidCount(Cardinality(vals) - 1)
               /\ rep'.active_validators = vals \ {who}
               /\ rep'.keys = rep.keys \ {who}
  BY <1>1, CommitFields DEF Keeps, Membership
<1> HIDE DEF who, vals
<1>4. ASSUME who \in Nat \ vals, rep'.active_validators = vals \cup {who}
      PROVE  /\ IsFiniteSet(rep'.active_validators)
             /\ Cardinality(rep'.active_validators) = Cardinality(vals) + 1
  BY <1>2, <1>4, FS_AddElement
<1>5. ASSUME who \in vals, rep'.active_validators = vals \ {who}
      PROVE  /\ IsFiniteSet(rep'.active_validators)
             /\ Cardinality(rep'.active_validators) = Cardinality(vals) - 1
  BY <1>2, <1>5, FS_RemoveElement
<1> QED
  BY <1>2, <1>3, <1>4, <1>5 DEF vals

\* Inserting a block leaves every block of the tree where it is: a peer's
\* block has its hash for itself, and this replica's own hashes are fresh.
LEMMA InsertKeepsBlocks ==
  ASSUME TypeInv, NEW b,
         \/ b \in Blocks
         \/ b.hash \in OwnHashes \ spent
  PROVE  LET tree == InsertBlock(rep.block_tree, b)
         IN  /\ DOMAIN tree = DOMAIN rep.block_tree \cup {b.hash}
             /\ tree[b.hash] = b
             /\ \A h \in DOMAIN rep.block_tree :
                  tree[h] = rep.block_tree[h]
<1>1. ASSUME b.hash \in DOMAIN rep.block_tree
      PROVE  rep.block_tree[b.hash] = b
  <2>1. b.hash # 0 /\ b.hash \notin spent
    BY HashAssumption DEF TypeInv, TypeOK
  <2>2. /\ rep.block_tree[b.hash] \in Blocks
        /\ rep.block_tree[b.hash].hash = b.hash
    BY <1>1, <2>1 DEF TypeInv, TypeOK, IsReplica, TreeOrigin
  <2> QED
    BY <2>2, HashAssumption
<1> QED
  BY <1>1 DEF InsertBlock

LEMMA StepTypes ==
  ASSUME TypeInv, [Next]_vars
  PROVE  TypeInv'
<1>1. DOMAIN rep = Fields
  BY DEF Fields, TypeInv, TypeOK, IsReplica
<1>2. CASE UNCHANGED vars
  BY <1>2 DEF vars, TypeInv, TypeOK, IsReplica, TreeOrigin
<1>3. CASE VoteEffect /\ DOMAIN rep' = Fields
  BY <1>3 
  DEF VoteEffect, Keeps, Membership, Fields, TypeInv, TypeOK, IsReplica,
      TreeOrigin
<1>4. CASE QCEffect /\ DOMAIN rep' = Fields
  BY <1>4 DEF QCEffect, Keeps, Fields, TypeInv, TypeOK, IsReplica, TreeOrigin
<1>5. CASE InsertEffect /\ DOMAIN rep' = Fields
  <2>1. PICK b :
          /\ \/ b \in Blocks /\ spent' = spent
             \/ /\ b.hash \in OwnHashes \ spent
                /\ b.cmd \in CommandSet
                /\ spent' = spent \cup {b.hash}
          /\ rep'.block_tree = InsertBlock(rep.block_tree, b)
          /\ Keeps(Fields \ {"block_tree"})
    BY <1>5 DEF InsertEffect
  <2>2. b.hash \in Nat /\ b.cmd \in CommandSet
    BY <2>1, HashAssumption, TypeAssumption
  <2>3. /\ DOMAIN rep'.block_tree = DOMAIN rep.block_tree \cup {b.hash}
        /\ rep'.block_tree[b.hash] = b
        /\ \A h \in DOMAIN rep.block_tree :
             rep'.block_tree[h] = rep.block_tree[h]
    BY <2>1, InsertKeepsBlocks
  <2> QED
    BY <1>5, <2>1, <2>2, <2>3
    DEF Keeps, Fields, TypeInv, TypeOK, IsReplica, TreeOrigin
<1>6. CASE CommitEffect
  <2>1. PICK h \in Committable(rep) :
          rep' = Commit(rep, h) /\ spent' = spent
    BY <1>6 DEF CommitEffect
  <2>2. /\ h \in DOMAIN rep.block_tree
        /\ rep.block_tree[h].cmd \in CommandSet
    BY <2>1 DEF Committable, TypeInv, TypeOK, IsReplica
  <2>3. /\ DOMAIN rep' = Fields
        /\ rep'.id = rep.id
        /\ rep'.current_view = rep.current_view
        /\ rep'.block_tree = rep.block_tree
        /\ rep'.committed_log = Append(rep.committed_log, h)
    BY <1>1, <2>1, <2>2, CommitFields
  <2>4. rep'.committed_log \in Seq(Nat)
    BY <2>2, <2>3 DEF TypeInv, TypeOK, IsReplica
  <2>5. /\ rep'.config_epoch \in Nat
        /\ rep'.active_validators \subseteq Nat
        /\ IsFiniteSet(rep'.active_validators)
        /\ rep'.config_n = Cardinality(rep'.active_validators)
        /\ rep'.keys \subseteq Nat
    BY <2>1, <2>2, CommitValidators
    DEF Keeps, Membership, TypeInv, TypeOK, IsReplica
  <2> QED
    BY <2>1, <2>3, <2>4, <2>5 DEF Fields, TypeInv, TypeOK, IsReplica, TreeOrigin
<1>7. CASE ViewEffect /\ DOMAIN rep' = Fields
  BY <1>7 DEF ViewEffect, Keeps, Fields, TypeInv, TypeOK, IsReplica, TreeOrigin
<1> QED
  BY <1>1, <1>2, <1>3, <1>4, <1>5, <1>6, <1>7, NextEffects

\* The fields of the replica keep their types.
THEOREM TypeCorrect == Spec => []TypeOK
<1>1. TypeInv /\ [Next]_vars => TypeInv'
  BY StepTypes
<1>2. TypeInv => TypeOK
  BY DEF TypeInv
<1> QED
  BY InitTypes, <1>1, <1>2, PTL DEF Spec

(***************************************************************************)
(* The tree and the log only grow.                                         *)
(***************************************************************************)
\* One step of the tree and of the log.
Grows ==
  /\ \A h \in DOMAIN rep.block_tree :
       /\ h \in DOMAIN rep'.block_tree
       /\ rep'.block_tree[h] = rep.block_tree[h]
  /\ \/ rep'.committed_log = rep.committed_log
     \/ \E h \in Committable(rep) :
          rep'.committed_log = Append(rep.committed_log, h)

LEMMA StepGrows ==
  ASSUME TypeInv, [Next]_vars
  PROVE  Grows
<1>1. DOMAIN rep = Fields
  BY DEF Fields, TypeInv, TypeOK, IsReplica
<1>2. CASE UNCHANGED vars
  BY <1>2 DEF vars, Grows
<1>3. CASE VoteEffect \/ QCEffect \/ ViewEffect
  BY <1>3
  DEF VoteEffect, QCEffect, ViewEffect, Keeps, Membership, Fields, Grows
<1>4. CASE InsertEffect
  <2>1. PICK b :
          /\ \/ b \in Blocks
             \/ b.hash \in OwnHashes \ spent
          /\ rep'.block_tree = InsertBlock(rep.block_tree, b)
          /\ Keeps(Fields \ {"block_tree"})
    BY <1>4 DEF InsertEffect
  <2>2. rep'.committed_log = rep.committed_log
    BY <2>1 DEF Keeps, Fields
  <2>3. LET tree == InsertBlock(rep.block_tree, b)
        IN  /\ DOMAIN tree = DOMAIN rep.block_tree \cup {b.hash}
            /\ tree[b.hash] = b
            /\ \A h \in DOMAIN rep.block_tree :
                 tree[h] = rep.block_tree[h]
    BY <2>1, InsertKeepsBlocks
  <2> QED
    BY <2>1, <2>2, <2>3 DEF Grows
<1>5. CASE CommitEffect
  <2>1. PICK h \in Committable(rep) : rep' = Commit(rep, h)
    BY <1>5 DEF CommitEffect
  <2>2. h \in DOMAIN rep.block_tree /\ rep.block_tree[h].cmd \in CommandSet
    BY <2>1 DEF Committable, TypeInv, TypeOK, IsReplica
  <2>3. /\ rep'.block_tree = rep.block_tree
        /\ rep'.committed_log = Append(rep.committed_log, h)
    BY <1>1, <2>1, <2>2, CommitFields
  <2> QED
    BY <2>1, <2>3 DEF Grows
<1> QED
  BY <1>1, <1>2, <1>3, <1>4, <1>5, NextEffects

(***************************************************************************)
(* The committed log.                                                      *)
(***************************************************************************)
\* The three-chain behind every commit stays in the tree.
THEOREM CommitsStayJustified == Spec => []CommittedHasThreeChain
<1>1. Init => CommittedHasThreeChain
  BY DEF Init, FreshReplica, CommittedHasThreeChain
<1>2. TypeInv /\ CommittedHasThreeChain /\ [Next]_vars
        => CommittedHasThreeChain'
  <2> SUFFICES ASSUME TypeInv, CommittedHasThreeChain, [Next]_vars,
                      NEW i \in DOMAIN rep'.committed_log
               PROVE  LET h == rep'.committed_log[i]
                      IN  /\ h \in DOMAIN rep'.block_tree
                          /\ \E c1, c2 \in DOMAIN rep'.block_tree :
                               /\ rep'.block_tree[c1].parent = h
                               /\ rep'.block_tree[c1].qc # None
                               /\ rep'.block_tree[c2].parent = c1
                               /\ rep'.block_tree[c2].qc # None
    BY DEF CommittedHasThreeChain
  <2> DEFINE h == rep'.committed_log[i]
  <2>1. /\ h \in DOMAIN rep.block_tree
        /\ \E c1, c2 \in DOMAIN rep.block_tree :
             /\ rep.block_tree[c1].parent = h
             /\ rep.block_tree[c1].qc # None
             /\ rep.block_tree[c2].parent = c1
             /\ rep.block_tree[c2].qc # None
    <3>1. rep.committed_log \in Seq(Nat)
      BY DEF TypeInv, TypeOK, IsReplica
    <3>2. CASE i \in DOMAIN rep.committed_log /\ h = rep.committed_log[i]
      BY <3>2 DEF CommittedHasThreeChain
    <3>3. CASE h \in Committable(rep)
      BY <3>3 DEF Committable, HeadsThreeChain, IsFirstChild
    <3>4. CASE rep'.committed_log = rep.committed_log
      BY <3>2, <3>4
    <3>5. ASSUME NEW g \in Committable(rep),
                 rep'.committed_log = Append(rep.committed_log, g)
          PROVE  \/ i \in DOMAIN rep.committed_log /\ h = rep.committed_log[i]
                 \/ h \in Committable(rep)
      BY <3>1, <3>5
    <3> QED
      BY <3>2, <3>3, <3>4, <3>5, StepGrows DEF Grows
  <2> QED
    BY <2>1, StepGrows DEF Grows
<1>3. TypeInv /\ [Next]_vars => TypeInv'
  BY StepTypes
<1> QED
  BY InitTypes, <1>1, <1>2, <1>3, PTL DEF Spec

(***************************************************************************)
(* The vote pool and the validators.                                       *)
(***************************************************************************)
\* A vote admitted to the pool is by a validator of the present epoch, and
\* none is left in the pool when the epoch ends.
LEMMA StepPool ==
  ASSUME TypeInv, PoolIsCurrent, [Next]_vars
  PROVE  PoolIsCurrent'
<1>1. DOMAIN rep = Fields
  BY DEF Fields, TypeInv, TypeOK, IsReplica
<1>2. CASE UNCHANGED vars
  BY <1>2 DEF vars, PoolIsCurrent
<1>3. CASE VoteEffect
  <2>1. PICK vote \in Votes :
          /\ AdmitsVote(rep, vote)
          /\ rep'.vote_pool = rep.vote_pool \cup
               {[block |-> vote.block, signer |-> vote.signer,
                 view |-> vote.view, epoch |-> vote.epoch]}
          /\ Keeps(Membership \cup {"id", "current_view", "block_tree",
                                    "committed_log"})
    BY <1>3 DEF VoteEffect
  <2>2. /\ rep'.block_tree = rep.block_tree
        /\ rep'.active_validators = rep.active_validators
        /\ rep'.keys = rep.keys
        /\ rep'.config_epoch = rep.config_epoch
    BY <2>1 DEF Keeps, Membership
  <2> QED
    BY <2>1, <2>2 DEF PoolIsCurrent, AdmitsVote, Verifies
<1>4. CASE QCEffect
  BY <1>4 DEF QCEffect, Keeps, Fields, PoolIsCurrent
<1>5. CASE InsertEffect
  <2>1. /\ rep'.vote_pool = rep.vote_pool
        /\ rep'.active_validators = rep.active_validators
        /\ rep'.keys = rep.keys
        /\ rep'.config_epoch = rep.config_epoch
    BY <1>5 DEF InsertEffect, Keeps, Fields
  <2> QED
    BY <2>1, StepGrows DEF Grows, PoolIsCurrent
<1>6. CASE CommitEffect
  <2>1. PICK h \in Committable(rep) : rep' = Commit(rep, h)
    BY <1>6 DEF CommitEffect
  <2>2. /\ h \in DOMAIN rep.block_tree
        /\ rep.block_tree[h].cmd \in CommandSet
    BY <2>1 DEF Committable, TypeInv, TypeOK, IsReplica
  <2>3. rep'.block_tree = rep.block_tree
    BY <1>1, <2>1, <2>2, CommitFields
  <2>4. \/ Keeps(Membership) /\ rep'.vote_pool = rep.vote_pool
        \/ rep'.vote_pool = {}
    BY <2>1, <2>2, CommitValidators DEF TypeInv
  <2> QED
    BY <2>3, <2>4 DEF Keeps, Membership, PoolIsCurrent
<1>7. CASE ViewEffect
  BY <1>7 DEF ViewEffect, Keeps, Fields, PoolIsCurrent
<1> QED
  BY <1>1, <1>2, <1>3, <1>4, <1>5, <1>6, <1>7, NextEffects

\* The pool holds votes of the present epoch by its validators only.
THEOREM PoolStaysCurrent == Spec => []PoolIsCurrent
<1>1. Init => PoolIsCurrent
  BY DEF Init, FreshReplica, PoolIsCurrent
<1>2. TypeInv /\ PoolIsCurrent /\ [Next]_vars => PoolIsCurrent'
  BY StepPool
<1>3. TypeInv /\ [Next]_vars => TypeInv'
  BY StepTypes
<1> QED
  BY InitTypes, <1>1, <1>2, <1>3, PTL DEF Spec

\* 3f+1 validators are never one more or one less than 3g+1 validators.
LEMMA ValidCountsApart ==
  ASSUME NEW m \in Nat, NEW n \in {m + 1, m - 1}, ValidCount(m)
  PROVE  ~ValidCount(n)
  BY DEF ValidCount

\* can_apply_new_validator_count: once the validators have changed there are
\* 3f+1 of them, and no single join or removal leads from 3f+1 to another
\* 3f'+1.
MembershipFrozen ==
  /\ rep.config_epoch \in {0, 1}
  /\ rep.config_epoch = 0 => rep.active_validators = InitValidators
  /\ rep.config_epoch = 1 => ValidCount(Cardinality(rep.active_validators))

\* The validators change at most once in the life of a replica.
THEOREM MembershipChangesOnce == Spec => []MembershipFrozen
<1>1. Init => MembershipFrozen
  BY DEF Init, FreshReplica, MembershipFrozen
<1>2. TypeInv /\ MembershipFrozen /\ [Next]_vars => MembershipFrozen'
  <2> SUFFICES ASSUME TypeInv, MembershipFrozen, [Next]_vars
               PROVE  MembershipFrozen'
    OBVIOUS
  <2>1. DOMAIN rep = Fields
    BY DEF Fields, TypeInv, TypeOK, IsReplica
  <2>2. CASE /\ rep'.active_validators = rep.active_validators
             /\ rep'.config_epoch = rep.config_epoch
    BY <2>2 DEF MembershipFrozen
  <2>3. CASE VoteEffect \/ QCEffect \/ InsertEffect \/ ViewEffect
    BY <2>2, <2>3
    DEF VoteEffect, QCEffect, InsertEffect, ViewEffect, Keeps, Membership,
        Fields
  <2>4. CASE CommitEffect
    <3> DEFINE c == Cardinality(rep.active_validators)
               d == Cardinality(rep'.active_validators)
    <3>1. PICK h \in Committable(rep) : rep' = Commit(rep, h)
      BY <2>4 DEF CommitEffect
    <3>2. \/ Keeps(Membership)
          \/ /\ rep'.config_epoch = rep.config_epoch + 1
             /\ c \in Nat
             /\ d \in {c + 1, c - 1}
             /\ ValidCount(d)
      BY <3>1, CommitValidators DEF TypeInv, Committable
    <3> HIDE DEF c, d
    <3>3. CASE Keeps(Membership)
      BY <2>2, <3>3 DEF Keeps, Membership
    <3>4. CASE /\ rep'.config_epoch = rep.config_epoch + 1
               /\ c \in Nat
               /\ d \in {c + 1, c - 1}
               /\ ValidCount(d)
      <4>1. ~ValidCount(c)
        BY <3>4, ValidCountsApart
      <4>2. rep.config_epoch = 0
        BY <4>1 DEF MembershipFrozen, c
      <4> QED
        BY <3>4, <4>2 DEF MembershipFrozen, d
    <3> QED
      BY <3>2, <3>3, <3>4
  <2> QED
    BY <2>1, <2>2, <2>3, <2>4, NextEffects DEF vars
<1>3. TypeInv /\ [Next]_vars => TypeInv'
  BY StepTypes
<1> QED
  BY InitTypes, <1>1, <1>2, <1>3, PTL DEF Spec

(***************************************************************************)
(* Certificates.                                                           *)
(***************************************************************************)
\* A certificate that verifies unless its signers named different views.
VerifiesInOneView(r, qc) == OneView(qc) => VerifiesQC(r, qc)

\* What the replica relies on: apply_high_qc_from_network checks nothing, so
\* the certificates that peers announce are like its own once the replica is
\* in their epoch.
PeersCertify ==
  \A qc \in QCs : qc.epoch = rep.config_epoch => VerifiesInOneView(rep, qc)

\* The certificate comes from a peer, or verifies unless its epoch is over.
QCOrigin ==
  rep.high_qc # None =>
    \/ rep.high_qc \in QCs
    \/ /\ rep.high_qc.epoch \in 0 .. rep.config_epoch
       /\ rep.high_qc.epoch = rep.config_epoch
            => VerifiesInOneView(rep, rep.high_qc)

QCInv == TypeInv /\ PoolIsCurrent /\ QCOrigin

\* Of n signatures for one block by different signers n signers are counted.
LEMMA SignersCounted ==
  ASSUME NEW sigs, NEW vals, IsFiniteSet(vals),
         \A s \in sigs : s.signer \in vals,
         \A s, t \in sigs : s.signer = t.signer => s = t
  PROVE  Cardinality({s.signer : s \in sigs}) = Cardinality(sigs)
<1> DEFINE signers == {s.signer : s \in sigs}
           f == [s \in sigs |-> s.signer]
<1>1. signers \subseteq vals
  OBVIOUS
<1>2. IsFiniteSet(signers)
  BY <1>1, FS_Subset
<1>3. f \in Injection(sigs, signers)
  BY DEF Injection, IsInjective
<1>4. f \in Surjection(sigs, signers)
  <2>1. f \in [sigs -> signers]
    OBVIOUS
  <2>2. \A x \in signers : \E s \in sigs : f[s] = x
    OBVIOUS
  <2> QED
    BY <2>1, <2>2 DEF Surjection
<1> QED
  BY <1>2, <1>3, <1>4, FS_Injection

\* try_form_qc: what it puts together passes verify_qc, but for signatures of
\* another view.
LEMMA FormedVerifies ==
  ASSUME TypeInv, PoolIsCurrent,
         NEW vote \in Votes, AdmitsVote(rep, vote)
  PROVE  LET pool == rep.vote_pool \cup
                       {[block |-> vote.block, signer |-> vote.signer,
                         view |-> vote.view, epoch |-> vote.epoch]}
             qc == FormQC(rep, vote, pool)
         IN  \/ qc = rep.high_qc
             \/ qc.epoch = rep.config_epoch /\ VerifiesInOneView(rep, qc)
<1> DEFINE pool == rep.vote_pool \cup
                     {[block |-> vote.block, signer |-> vote.signer,
                       view |-> vote.view, epoch |-> vote.epoch]}
           qc == FormQC(rep, vote, pool)
           sigs == SignaturesFor(pool, vote.block)
           vals == rep.active_validators
<1> SUFFICES ASSUME qc # rep.high_qc
             PROVE  /\ qc.epoch = rep.config_epoch
                    /\ OneView(qc) => VerifiesQC(rep, qc)
  BY DEF VerifiesInOneView
<1>1. /\ vote.epoch = rep.config_epoch
      /\ vote.signer \in vals
      /\ vote.signer \in rep.keys
      /\ \A s \in rep.vote_pool :
           s.block = vote.block => s.signer # vote.signer
  BY DEF AdmitsVote, Verifies
<1>2. /\ Cardinality(sigs) >= QuorumSize(vals)
      /\ qc = [block |-> vote.block, view |-> vote.view,
               epoch |-> vote.epoch, sigs |-> sigs]
  BY DEF FormQC
<1>3. \A s : s \in sigs <=>
        /\ s.block = vote.block
        /\ \/ s \in rep.vote_pool
           \/ s = [block |-> vote.block, signer |-> vote.signer,
                   view |-> vote.view, epoch |-> vote.epoch]
  BY DEF SignaturesFor
<1> HIDE DEF pool, qc, sigs, vals
<1>4. /\ qc.block = vote.block
      /\ qc.view = vote.view
      /\ qc.epoch = rep.config_epoch
      /\ qc.sigs = sigs
  BY <1>1, <1>2
<1>5. ASSUME NEW s \in sigs
      PROVE  /\ s.signer \in vals
             /\ s.signer \in rep.keys
             /\ s.block = vote.block
             /\ s.epoch = rep.config_epoch
  <2>1. CASE s \in rep.vote_pool
    BY <1>3, <2>1 DEF PoolIsCurrent, vals
  <2>2. CASE s = [block |-> vote.block, signer |-> vote.signer,
                  view |-> vote.view, epoch |-> vote.epoch]
    BY <1>1, <2>2
  <2> QED
    BY <1>3, <2>1, <2>2
<1>6. ASSUME NEW s \in sigs, NEW t \in sigs, s.signer = t.signer
      PROVE  s = t
  <2>1. CASE s \in rep.vote_pool /\ t \in rep.vote_pool
    BY <1>5, <1>6, <2>1 DEF PoolIsCurrent
  <2>2. CASE ~(s \in rep.vote_pool /\ t \in rep.vote_pool)
    BY <1>1, <1>3, <1>6, <2>2
  <2> QED
    BY <2>1, <2>2
<1>7. Cardinality({s.signer : s \in sigs}) = Cardinality(sigs)
  <2>1. IsFiniteSet(vals)
    BY DEF TypeInv, TypeOK, vals
  <2> QED
    BY <1>5, <1>6, <2>1, SignersCounted
<1>8. ASSUME OneView(qc)
      PROVE  {s \in qc.sigs : Verifies(rep.keys, s, qc.block, qc.view,
                                        qc.epoch)} = sigs
  BY <1>4, <1>5, <1>8 DEF OneView, Verifies
<1> QED
  BY <1>2, <1>4, <1>7, <1>8 DEF VerifiesQC, vals

\* What a step does to the certificate and to the pool.
LEMMA CertificateEffects ==
  ASSUME TypeInv, Next
  PROVE  \/ /\ rep'.high_qc \in QCs \cup {rep.high_qc}
            /\ rep'.vote_pool \in {rep.vote_pool, {}}
         \/ /\ Keeps(Membership)
            /\ \E vote \in Votes :
                 LET pool == rep.vote_pool \cup
                       {[block |-> vote.block, signer |-> vote.signer,
                         view |-> vote.view, epoch |-> vote.epoch]}
                 IN  /\ AdmitsVote(rep, vote)
                     /\ rep'.vote_pool = pool
                     /\ rep'.high_qc = FormQC(rep, vote, pool)
<1>1. DOMAIN rep = Fields
  BY DEF Fields, TypeInv, TypeOK, IsReplica
<1>2. ASSUME NEW vote \in Votes, ReceiveVote(vote)
      PROVE  LET pool == rep.vote_pool \cup
                   {[block |-> vote.block, signer |-> vote.signer,
                     view |-> vote.view, epoch |-> vote.epoch]}
             IN  /\ Keeps(Membership)
                 /\ AdmitsVote(rep, vote)
                 /\ rep'.vote_pool = pool
                 /\ rep'.high_qc = FormQC(rep, vote, pool)
  <2> DEFINE pool == rep.vote_pool \cup
                   {[block |-> vote.block, signer |-> vote.signer,
                     view |-> vote.view, epoch |-> vote.epoch]}
             qc == FormQC(rep, vote, pool)
  <2>1. /\ AdmitsVote(rep, vote)
        /\ rep' = [rep EXCEPT !.vote_pool = pool, !.high_qc = qc]
    BY <1>2 DEF ReceiveVote, HandleVote, CountVote
  <2> HIDE DEF pool, qc
  <2>2. /\ rep'.vote_pool = pool
        /\ rep'.high_qc = qc
        /\ Keeps(Membership)
    BY <1>1, <2>1 DEF Keeps, Membership, Fields
  <2> QED
    BY <2>1, <2>2 DEF pool, qc
<1>3. ASSUME NEW qc \in QCs, ReceiveQC(qc)
      PROVE  rep'.high_qc \in QCs /\ rep'.vote_pool = rep.vote_pool
  BY <1>1, <1>3 DEF ReceiveQC, ApplyHighQC, Fields
<1>4. ASSUME NEW b, rep' = [rep EXCEPT !.block_tree = InsertBlock(@, b)]
      PROVE  rep'.high_qc = rep.high_qc /\ rep'.vote_pool = rep.vote_pool
  BY <1>1, <1>4 DEF Fields
<1>5. ASSUME TryCommitOnce
      PROVE  /\ rep'.high_qc = rep.high_qc
             /\ rep'.vote_pool \in {rep.vote_pool, {}}
  <2>1. PICK h \in Committable(rep) : rep' = Commit(rep, h)
    BY <1>5 DEF TryCommitOnce
  <2>2. rep.block_tree[h].cmd \in CommandSet
    BY DEF Committable, TypeInv, TypeOK, IsReplica
  <2> QED
    BY <1>1, <2>1, <2>2, CommitFields
<1>6. ASSUME \/ ChangeView
             \/ \E view \in Views : StartView(view)
      PROVE  /\ rep'.high_qc = rep.high_qc
             /\ rep'.vote_pool \in {rep.vote_pool, {}}
  BY <1>1, <1>6 DEF ChangeView, AdvanceView, StartView, Fields
<1>7. CASE \E qc \in QCs : ReceiveQC(qc)
  BY <1>3, <1>7
<1>8. CASE \E vote \in Votes : ReceiveVote(vote)
  BY <1>2, <1>8
<1>9. CASE \E b \in Blocks : ReceiveBlock(b)
  BY <1>4, <1>9 DEF ReceiveBlock, ReceiveProposal
<1>10. CASE \E view \in Views, hash \in OwnHashes, cmd \in Commands :
              ProposeBlock(view, hash, cmd)
  BY <1>4, <1>10 DEF ProposeBlock, Propose
<1> QED
  BY <1>5, <1>6, <1>7, <1>8, <1>9, <1>10 DEF Next

\* Whether a certificate verifies depends on the keys and the validators.
LEMMA VerifiesAlike ==
  ASSUME Keeps(Membership)
  PROVE  /\ rep'.config_epoch = rep.config_epoch
         /\ \A qc : VerifiesInOneView(rep, qc) => VerifiesInOneView(rep', qc)
  BY DEF Keeps, Membership, VerifiesInOneView, VerifiesQC

\* The certificate that goes into a proposal of this replica is accepted by
\* this replica until its epoch is over, whatever votes the peers send and in
\* whichever order, unless its signers named different views.
THEOREM CertificatesVerify == Spec /\ []PeersCertify => []HighQCVerifies
<1>1. Init => PoolIsCurrent /\ QCOrigin
  BY DEF Init, FreshReplica, PoolIsCurrent, QCOrigin
<1>2. QCInv /\ [Next]_vars => QCInv'
  <2> SUFFICES ASSUME QCInv, [Next]_vars
               PROVE  QCInv'
    OBVIOUS
  <2> USE DEF QCInv
  <2>1. TypeInv' /\ PoolIsCurrent'
    BY StepTypes, StepPool
  <2>2. CASE UNCHANGED vars
    BY <2>1, <2>2 DEF vars, QCOrigin
  <2>3. CASE Next
    <3>1. rep.config_epoch \in Nat
      BY DEF TypeInv, TypeOK, IsReplica
    <3>2. \/ Keeps(Membership)
          \/ rep'.config_epoch = rep.config_epoch + 1
      <4>1. DOMAIN rep = Fields
        BY DEF Fields, TypeInv, TypeOK, IsReplica
      <4>2. CASE CommitEffect
        BY <4>2, CommitValidators DEF CommitEffect, Committable, TypeInv
      <4> QED
        BY <2>3, <4>1, <4>2, NextEffects
        DEF VoteEffect, QCEffect, InsertEffect, ViewEffect, Keeps,
            Membership, Fields
    <3>3. CASE /\ rep'.high_qc \in QCs \cup {rep.high_qc}
               /\ rep'.vote_pool \in {rep.vote_pool, {}}
      <4>2. CASE rep'.high_qc \in QCs
        BY <2>1, <4>2 DEF QCOrigin
      <4>3. CASE rep'.high_qc = rep.high_qc /\ Keeps(Membership)
        <5>1. /\ rep'.config_epoch = rep.config_epoch
              /\ VerifiesInOneView(rep, rep.high_qc) => VerifiesInOneView(rep', rep.high_qc)
          BY <4>3, VerifiesAlike
        <5>2. QCOrigin'
          BY <4>3, <5>1 DEF QCOrigin
        <5> QED
          BY <2>1, <5>2
      <4>4. CASE /\ rep'.high_qc = rep.high_qc
                 /\ rep'.config_epoch = rep.config_epoch + 1
        <5>1. QCOrigin'
          BY <3>1, <4>4 DEF QCOrigin
        <5> QED
          BY <2>1, <5>1
      <4> QED
        BY <3>2, <3>3, <4>2, <4>3, <4>4
    <3>4. CASE /\ Keeps(Membership)
               /\ \E vote \in Votes :
                    LET pool == rep.vote_pool \cup
                          {[block |-> vote.block, signer |-> vote.signer,
                            view |-> vote.view, epoch |-> vote.epoch]}
                    IN  /\ AdmitsVote(rep, vote)
                        /\ rep'.vote_pool = pool
                        /\ rep'.high_qc = FormQC(rep, vote, pool)
      <4>1. PICK vote \in Votes :
              LET pool == rep.vote_pool \cup
                    {[block |-> vote.block, signer |-> vote.signer,
                      view |-> vote.view, epoch |-> vote.epoch]}
              IN  /\ AdmitsVote(rep, vote)
                  /\ rep'.vote_pool = pool
                  /\ rep'.high_qc = FormQC(rep, vote, pool)
        BY <3>4
      <4>3. \/ rep'.high_qc = rep.high_qc
            \/ /\ rep'.high_qc.epoch = rep.config_epoch
               /\ VerifiesInOneView(rep, rep'.high_qc)
        BY <4>1, FormedVerifies
      <4>4. /\ rep'.config_epoch = rep.config_epoch
            /\ VerifiesInOneView(rep, rep'.high_qc) => VerifiesInOneView(rep', rep'.high_qc)
        BY <3>4, VerifiesAlike
      <4>5. QCOrigin'
        BY <3>1, <4>3, <4>4 DEF QCOrigin
      <4> QED
        BY <2>1, <4>5
    <3> QED
      BY <2>3, <3>3, <3>4, CertificateEffects
  <2> QED
    BY <2>2, <2>3
<1>3. QCInv /\ PeersCertify => HighQCVerifies
  BY DEF QCInv, QCOrigin, PeersCertify, HighQCVerifies, VerifiesInOneView
<1> QED
  BY InitTypes, <1>1, <1>2, <1>3, PTL DEF Spec, QCInv
=============================================================================
