-------------------------- MODULE SimulationProofs --------------------------
(***************************************************************************)
(* Proofs about the cluster, for every number of replicas, every way to    *)
(* deal out the keys, and every history of silences, crashes, recoveries   *)
(* and restarts of the process.                                            *)
(*                                                                         *)
(* A round is long, but each replica goes through a few operations in it.  *)
(* The first part of the module says what each operation makes of one      *)
(* replica and its disk, the second what a step makes of the cluster.      *)
(***************************************************************************)
EXTENDS Simulation, DataLemmas

(***************************************************************************)
(* Types.                                                                  *)
(***************************************************************************)
Fields == {"id", "current_view", "block_tree", "high_qc", "vote_pool",
           "committed_log", "active_validators", "config_epoch", "config_n",
           "keys"}

DiskFields == {"current_view", "block_tree", "high_qc", "committed_log",
               "epoch", "members", "in_order"}

Signature == [block : Nat, signer : Nat, view : Nat, epoch : Nat]

QC == [block : Nat, view : Nat, epoch : Nat, sigs : SUBSET Signature]

\* The blocks of this model: their commands are no-ops.
Block == [hash : Nat, parent : Nat \cup {None}, view : Nat, epoch : Nat,
          proposer : Nat, qc : QC \cup {None}, cmd : {NoOp}]

IsTree(t) ==
  /\ DOMAIN t \subseteq Nat
  /\ IsFiniteSet(DOMAIN t)
  /\ 0 \in DOMAIN t
  /\ \A h \in DOMAIN t : t[h] \in Block /\ t[h].hash = h

\* The memory of replica r.
IsRep(r, rep) ==
  /\ DOMAIN rep = Fields
  /\ rep.id = r
  /\ rep.current_view \in Nat
  /\ IsTree(rep.block_tree)
  /\ rep.high_qc \in QC \cup {None}
  /\ rep.vote_pool \subseteq Signature
  /\ rep.committed_log \in Seq(Nat)
  /\ rep.active_validators = Replicas
  /\ rep.config_epoch \in Nat
  /\ rep.config_n = N
  /\ rep.keys = Replicas

IsDisk(disk) ==
  /\ DOMAIN disk = DiskFields
  /\ disk.current_view \in Nat
  /\ IsTree(disk.block_tree)
  /\ \A h \in DOMAIN disk.block_tree :
       Stored(disk.block_tree[h]) = disk.block_tree[h]
  /\ disk.high_qc \in QC \cup {None}
  /\ Stub(disk.high_qc) = disk.high_qc
  /\ disk.committed_log \in Seq(Nat)
  /\ disk.epoch \in Nat
  /\ disk.members \in {None, Replicas}
  /\ disk.in_order \in BOOLEAN

IsNode(r, n) ==
  /\ DOMAIN n = {"rep", "disk"}
  /\ IsRep(r, n.rep)
  /\ IsDisk(n.disk)

LEMMA ReplicasFinite ==
  /\ IsFiniteSet(Replicas)
  /\ Cardinality(Replicas) = N
  /\ Replicas \subseteq Nat
  /\ Replicas # {}
  /\ 0 .. N - 1 = Replicas
<1>1. N \in Nat /\ N > 0
  BY SimulationAssumption
<1>2. 0 \in Int /\ N - 1 \in Int /\ ~(0 > N - 1) /\ N - 1 - 0 + 1 = N
  BY <1>1
<1>3. IsFiniteSet(0 .. N - 1) /\ Cardinality(0 .. N - 1) = N
  BY <1>2, FS_Interval
<1>4. 0 .. N - 1 \subseteq Nat /\ 0 \in 0 .. N - 1
  BY <1>1
<1> QED
  BY <1>3, <1>4 DEF Replicas

\* What is left of a certificate on a disk.
LEMMA StubType ==
  ASSUME NEW qc \in QC \cup {None}
  PROVE  /\ Stub(qc) \in SerializableQC \cup {None}
         /\ Stub(qc) \in QC \cup {None}
         /\ Stub(Stub(qc)) = Stub(qc)
         /\ qc # None => Stub(qc).block = qc.block
<1>1. CASE qc = None
  BY <1>1 DEF Stub
<1>2. CASE qc # None
  <2> DEFINE s == [qc EXCEPT !.sigs = {}]
  <2>1. qc \in QC
    BY <1>2
  <2>2. s = [block |-> qc.block, view |-> qc.view, epoch |-> qc.epoch,
             sigs |-> {}]
    BY <2>1 DEF QC
  <2>3. s \in SerializableQC /\ s \in QC /\ s.block = qc.block
    BY <2>1, <2>2 DEF QC, SerializableQC
  <2>4. [s EXCEPT !.sigs = {}] = s
    BY <2>2
  <2>5. Stub(qc) = s
    BY <1>2 DEF Stub
  <2>6. Stub(s) = s
    BY <2>4 DEF Stub
  <2> HIDE DEF s
  <2> QED
    BY <1>2, <2>3, <2>5, <2>6
<1> QED
  BY <1>1, <1>2

\* What is left of a block on a disk.
LEMMA StoredType ==
  ASSUME NEW b \in Block
  PROVE  /\ Stored(b) \in Block
         /\ Stored(b) \in SerializableBlock
         /\ Stored(Stored(b)) = Stored(b)
         /\ Stored(b).hash = b.hash
         /\ Stored(b).view = b.view
         /\ Stored(b).proposer = b.proposer
<1> DEFINE q == IF b.qc = None THEN None ELSE [Stub(b.qc) EXCEPT !.epoch = b.epoch]
           s == [b EXCEPT !.qc = q]
<1>1. b.epoch \in Nat /\ b.qc \in QC \cup {None}
  BY DEF Block
<1>2. /\ q \in QC \cup {None}
      /\ q \in SerializableQC \cup {None}
      /\ q = IF q = None THEN None ELSE [Stub(q) EXCEPT !.epoch = b.epoch]
  <2>1. CASE b.qc = None
    BY <2>1
  <2>2. CASE b.qc # None
    <3> DEFINE t == [Stub(b.qc) EXCEPT !.epoch = b.epoch]
    <3>1. b.qc \in QC
      BY <1>1, <2>2
    <3>2. Stub(b.qc) = [block |-> b.qc.block, view |-> b.qc.view,
                        epoch |-> b.qc.epoch, sigs |-> {}]
      BY <2>2, <3>1 DEF Stub, QC
    <3>3. t = [block |-> b.qc.block, view |-> b.qc.view,
               epoch |-> b.epoch, sigs |-> {}]
      BY <3>2
    <3>4. t \in QC /\ t \in SerializableQC
      BY <1>1, <3>1, <3>3 DEF QC, SerializableQC
    <3>5. [t EXCEPT !.sigs = {}] = t /\ [t EXCEPT !.epoch = b.epoch] = t
      BY <3>3
    <3>6. q = t
      BY <2>2
    <3> HIDE DEF t, q
    <3>7. t # None => [Stub(t) EXCEPT !.epoch = b.epoch] = t
      BY <3>5 DEF Stub
    <3> QED
      BY <3>4, <3>6, <3>7
  <2> QED
    BY <2>1, <2>2
<1>3. Stored(b) = s
  BY DEF Stored
<1> HIDE DEF q
<1>4. s = [hash |-> b.hash, parent |-> b.parent, view |-> b.view,
           epoch |-> b.epoch, proposer |-> b.proposer, qc |-> q,
           cmd |-> b.cmd]
  BY DEF Block
<1> HIDE DEF s
<1>5. s \in Block
  BY <1>2, <1>4 DEF Block
<1>6. s \in SerializableBlock
  BY <1>2, <1>4 DEF Block, SerializableBlock, CommandSet
<1>7. Stored(s) = s
  <2>1. /\ s.qc = q
        /\ s.epoch = b.epoch
        /\ [s EXCEPT !.qc = q] = s
    BY <1>4
  <2>2. Stored(s) = [s EXCEPT !.qc = IF q = None THEN None
                                     ELSE [Stub(q) EXCEPT !.epoch = b.epoch]]
    BY <2>1 DEF Stored
  <2> QED
    BY <1>2, <2>1, <2>2
<1> QED
  BY <1>3, <1>4, <1>5, <1>6, <1>7

\* The command is lost between the log and the replay, which changes nothing
\* where it is a no-op.
LEMMA StoredNoOp ==
  ASSUME NEW b \in Block
  PROVE  [Stored(b) EXCEPT !.cmd = NoOp] = Stored(b)
<1>1. Stored(b) \in Block
  BY StoredType
<1> QED
  BY <1>1 DEF Block

LEMMA InsertBlockType ==
  ASSUME NEW t, IsTree(t), NEW b \in Block
  PROVE  LET u == InsertBlock(t, b)
         IN  /\ IsTree(u)
             /\ DOMAIN u = DOMAIN t \cup {b.hash}
             /\ u[b.hash] = b
             /\ \A h \in DOMAIN t : h # b.hash => u[h] = t[h]
<1> DEFINE u == InsertBlock(t, b)
<1>1. b.hash \in Nat
  BY DEF Block
<1>2. /\ DOMAIN u = DOMAIN t \cup {b.hash}
      /\ u[b.hash] = b
      /\ \A h \in DOMAIN t : h # b.hash => u[h] = t[h]
  BY DEF InsertBlock
<1>3. IsFiniteSet(DOMAIN t \cup {b.hash})
  BY FS_AddElement DEF IsTree
<1> HIDE DEF u
<1>4. IsTree(u)
  BY <1>1, <1>2, <1>3 DEF IsTree
<1> QED
  BY <1>2, <1>4 DEF u

LEMMA GenesisType ==
  /\ Genesis \in Block
  /\ Stored(Genesis) = Genesis
  /\ LET t == [h \in {0} |-> Genesis]
     IN  /\ IsTree(t)
         /\ DOMAIN t = {0}
         /\ t[0] = Genesis
<1>1. Genesis \in Block
  BY DEF Genesis, Block, NoOp
<1>2. Genesis.qc = None /\ [Genesis EXCEPT !.qc = None] = Genesis
  BY DEF Genesis
<1>3. Stored(Genesis) = Genesis
  BY <1>2 DEF Stored
<1>4. IsTree([h \in {0} |-> Genesis])
  <2>1. Genesis.hash = 0
    BY DEF Genesis
  <2>2. IsFiniteSet({0})
    BY FS_Singleton
  <2> QED
    BY <1>1, <2>1, <2>2 DEF IsTree
<1> QED
  BY <1>1, <1>3, <1>4

\* The block a leader builds on is in its tree.
LEMMA LatestBlockKnown ==
  ASSUME NEW t, IsTree(t)
  PROVE  LatestBlock(t) \in DOMAIN t
<1> DEFINE f == [h \in DOMAIN t |-> t[h].view]
           views == {f[h] : h \in DOMAIN t}
           top == {h \in DOMAIN t : t[h].view = Max(views)}
           IsLatest(h) == /\ h \in DOMAIN t
                          /\ \A g \in DOMAIN t :
                               \/ t[g].view < t[h].view
                               \/ t[g].view = t[h].view /\ g <= h
<1>1. \A h \in DOMAIN t : t[h].view \in Nat /\ f[h] = t[h].view
  BY DEF IsTree, Block
<1>2. f \in Surjection(DOMAIN t, views)
  BY DEF Surjection
<1>3. IsFiniteSet(views)
  <2> HIDE DEF f, views
  <2> QED
    BY <1>2, FS_Surjection DEF IsTree
<1>4. views \subseteq Nat /\ views # {}
  BY <1>1 DEF IsTree
<1>5. Max(views) \in views /\ \A v \in views : v <= Max(views)
  BY <1>3, <1>4, MaxMeans
<1> DEFINE m == Max(views)
<1>6. /\ m \in Nat
      /\ \E h \in DOMAIN t : t[h].view = m
      /\ \A h \in DOMAIN t : t[h].view <= m
  BY <1>1, <1>4, <1>5
<1> HIDE DEF m
<1>7. top \in SUBSET DOMAIN t /\ top # {} /\ top \subseteq Nat
  BY <1>6 DEF m, IsTree
<1>8. IsFiniteSet(top)
  BY <1>7, FS_Subset DEF IsTree
<1>9. Max(top) \in top /\ \A h \in top : h <= Max(top)
  BY <1>7, <1>8, MaxMeans
<1>10. \E h : IsLatest(h)
  <2> DEFINE l == Max(top)
  <2>1. l \in DOMAIN t /\ t[l].view = m
    BY <1>9 DEF m
  <2>2. \A h \in DOMAIN t : t[h].view = m => h <= l
    BY <1>9 DEF m
  <2> HIDE DEF l, top
  <2>3. \A h \in DOMAIN t : t[h].view < m \/ t[h].view = m
    BY <1>1, <1>6
  <2>4. IsLatest(l)
    BY <2>1, <2>2, <2>3
  <2> QED
    BY <2>4
<1>11. LatestBlock(t) = CHOOSE h : IsLatest(h)
  BY DEF LatestBlock
<1>12. IsLatest(LatestBlock(t))
  <2> HIDE DEF IsLatest
  <2> QED
    BY <1>10, <1>11, Zenon
<1> QED
  BY <1>12

LEMMA NewBlockType ==
  ASSUME NEW r \in Replicas, NEW rep, IsRep(r, rep),
         NEW view \in Nat, NEW hash \in Nat
  PROVE  LET b == NewBlock(rep, view, hash, NoOp)
         IN  /\ b \in Block
             /\ b.hash = hash /\ b.view = view /\ b.proposer = r
<1> DEFINE parent == IF rep.high_qc # None THEN rep.high_qc.block
                     ELSE LatestBlock(rep.block_tree)
<1>1. /\ rep.high_qc \in QC \cup {None}
      /\ rep.config_epoch \in Nat
      /\ rep.id = r
      /\ IsTree(rep.block_tree)
  BY DEF IsRep
<1>2. r \in Nat
  BY ReplicasFinite
<1>3. parent \in Nat
  <2>1. LatestBlock(rep.block_tree) \in Nat
    BY <1>1, LatestBlockKnown DEF IsTree
  <2>2. rep.high_qc # None => rep.high_qc.block \in Nat
    BY <1>1 DEF QC
  <2> QED
    BY <2>1, <2>2
<1> DEFINE b == NewBlock(rep, view, hash, NoOp)
<1>4. b = [hash |-> hash, parent |-> parent, view |-> view,
           epoch |-> rep.config_epoch, proposer |-> r, qc |-> rep.high_qc,
           cmd |-> NoOp]
  BY <1>1 DEF NewBlock
<1> HIDE DEF parent, b
<1>5. b \in Block
  BY <1>1, <1>2, <1>3, <1>4 DEF Block
<1> QED
  BY <1>4, <1>5 DEF b

(***************************************************************************)
(* One replica and its disk.                                               *)
(***************************************************************************)
\* What is unique about a block, and which of them a node knows.
Ident(b) == [hash |-> b.hash, view |-> b.view, proposer |-> b.proposer]

IdsIn(t) == {Ident(t[h]) : h \in DOMAIN t \ {0}}

IdsOf(n) == IdsIn(n.rep.block_tree) \cup IdsIn(n.disk.block_tree)

\* The blocks a node holds a certificate for.
CertsOf(n) == {q.block : q \in {n.rep.high_qc, n.disk.high_qc} \ {None}}

\* The disk yields the memory, but for the blocks ...
Mirrors(n) ==
  /\ n.disk.in_order
  /\ n.disk.current_view = n.rep.current_view
  /\ n.disk.committed_log = n.rep.committed_log
  /\ n.disk.high_qc = Stub(n.rep.high_qc)
  /\ DOMAIN n.disk.block_tree \subseteq DOMAIN n.rep.block_tree

\* ... which it holds, except for those that the replica proposed itself.
MirrorsBlocks(r, n) ==
  \A h \in DOMAIN n.rep.block_tree :
    IF h \in DOMAIN n.disk.block_tree
    THEN n.disk.block_tree[h] = Stored(n.rep.block_tree[h])
    ELSE n.rep.block_tree[h].proposer = r

\* What a disk keeps, whatever happens to the replica.
Grows(n, m) ==
  /\ IsPrefix(n.disk.committed_log, m.disk.committed_log)
  /\ n.disk.current_view <= m.disk.current_view
  /\ DOMAIN n.disk.block_tree \subseteq DOMAIN m.disk.block_tree

\* A node after an operation that loses nothing, and learns of no blocks and
\* no certificates but those given.
Follows(r, n, m, ids, certs) ==
  /\ IsNode(r, m)
  /\ Mirrors(m)
  /\ Grows(n, m)
  /\ IdsOf(m) \subseteq IdsOf(n) \cup ids
  /\ CertsOf(m) \subseteq CertsOf(n) \cup certs

LEMMA GrowsTrans ==
  ASSUME NEW l, NEW m, NEW n, Grows(l, m), Grows(m, n),
         IsDisk(l.disk), IsDisk(m.disk), IsDisk(n.disk)
  PROVE  Grows(l, n)
<1>1. /\ l.disk.committed_log \in Seq(Nat)
      /\ m.disk.committed_log \in Seq(Nat)
      /\ n.disk.committed_log \in Seq(Nat)
      /\ l.disk.current_view \in Nat
      /\ m.disk.current_view \in Nat
      /\ n.disk.current_view \in Nat
  BY DEF IsDisk
<1>2. IsPrefix(l.disk.committed_log, n.disk.committed_log)
  BY <1>1, PrefixTrans DEF Grows
<1> QED
  BY <1>1, <1>2 DEF Grows

LEMMA GrowsSame ==
  ASSUME NEW m, NEW n, IsDisk(m.disk), n.disk = m.disk
  PROVE  Grows(m, n)
<1>1. /\ m.disk.committed_log \in Seq(Nat)
      /\ m.disk.current_view \in Nat
  BY DEF IsDisk
<1>2. IsPrefix(m.disk.committed_log, n.disk.committed_log)
  BY <1>1, PrefixRefl
<1> QED
  BY <1>1, <1>2 DEF Grows

LEMMA FollowsTrans ==
  ASSUME NEW r, NEW l, NEW m, NEW n, NEW ids, NEW certs,
         NEW ids2, NEW certs2, IsNode(r, l),
         Follows(r, l, m, ids, certs), Follows(r, m, n, ids2, certs2)
  PROVE  Follows(r, l, n, ids \cup ids2, certs \cup certs2)
<1>1. Grows(l, n)
  BY GrowsTrans DEF Follows, IsNode
<1> QED
  BY <1>1 DEF Follows

\* A replica that has just started or lost its memory.
LEMMA FreshReplicaType ==
  ASSUME NEW r \in Replicas
  PROVE  LET rep == FreshReplica(r, Replicas, Replicas)
         IN  /\ IsRep(r, rep)
             /\ IdsIn(rep.block_tree) = {}
             /\ rep.high_qc = None
             /\ rep.vote_pool = {}
             /\ rep.current_view = 0
             /\ rep.committed_log = <<>>
             /\ DOMAIN rep.block_tree = {0}
             /\ rep.block_tree[0] = Genesis
<1> DEFINE rep == FreshReplica(r, Replicas, Replicas)
           t == [h \in {0} |-> Genesis]
<1>1. /\ rep = [id |-> r, current_view |-> 0, block_tree |-> t,
                high_qc |-> None, vote_pool |-> {}, committed_log |-> <<>>,
                active_validators |-> Replicas, config_epoch |-> 0,
                config_n |-> N, keys |-> Replicas]
  BY ReplicasFinite DEF FreshReplica
<1>2. IsTree(t) /\ DOMAIN t = {0} /\ t[0] = Genesis
  BY GenesisType
<1> HIDE DEF rep, t
<1>3. /\ DOMAIN rep = Fields
      /\ rep.id = r
      /\ rep.current_view = 0
      /\ rep.block_tree = t
      /\ rep.high_qc = None
      /\ rep.vote_pool = {}
      /\ rep.committed_log = <<>>
      /\ rep.active_validators = Replicas
      /\ rep.config_epoch = 0
      /\ rep.config_n = N
      /\ rep.keys = Replicas
  BY <1>1 DEF Fields
<1>4. IsRep(r, rep)
  BY <1>2, <1>3 DEF IsRep
<1>5. IdsIn(rep.block_tree) = {}
  BY <1>2, <1>3 DEF IdsIn
<1> QED
  BY <1>2, <1>3, <1>4, <1>5 DEF rep

\* A tree as it is stored.
LEMMA StoredTree ==
  ASSUME NEW t, IsTree(t)
  PROVE  LET u == [h \in DOMAIN t |-> Stored(t[h])]
         IN  /\ IsTree(u)
             /\ \A h \in DOMAIN u : Stored(u[h]) = u[h]
             /\ IdsIn(u) = IdsIn(t)
<1> DEFINE u == [h \in DOMAIN t |-> Stored(t[h])]
<1>1. ASSUME NEW h \in DOMAIN t
      PROVE  /\ u[h] \in Block
             /\ u[h].hash = h
             /\ Stored(u[h]) = u[h]
             /\ Ident(u[h]) = Ident(t[h])
  BY StoredType DEF IsTree, Ident
<1>2. DOMAIN u = DOMAIN t
  OBVIOUS
<1> HIDE DEF u
<1>3. IsTree(u)
  BY <1>1, <1>2 DEF IsTree
<1>4. IdsIn(u) = IdsIn(t)
  BY <1>1, <1>2 DEF IdsIn
<1> QED
  BY <1>1, <1>2, <1>3, <1>4 DEF u

LEMMA CaptureType ==
  ASSUME NEW r \in Replicas, NEW rep, IsRep(r, rep)
  PROVE  LET disk == Capture(rep)
         IN  /\ IsDisk(disk)
             /\ disk.in_order = TRUE
             /\ disk.current_view = rep.current_view
             /\ disk.committed_log = rep.committed_log
             /\ disk.high_qc = Stub(rep.high_qc)
             /\ disk.members = Replicas
             /\ DOMAIN disk.block_tree = DOMAIN rep.block_tree
             /\ \A h \in DOMAIN rep.block_tree :
                  disk.block_tree[h] = Stored(rep.block_tree[h])
             /\ IdsIn(disk.block_tree) = IdsIn(rep.block_tree)
<1> DEFINE t == rep.block_tree
           u == [h \in DOMAIN t |-> Stored(t[h])]
           qc == Stub(rep.high_qc)
           disk == Capture(rep)
<1>1. /\ IsTree(t)
      /\ rep.high_qc \in QC \cup {None}
      /\ rep.current_view \in Nat
      /\ rep.committed_log \in Seq(Nat)
      /\ rep.config_epoch \in Nat
      /\ rep.active_validators = Replicas
  BY DEF IsRep
<1> HIDE DEF t
<1>2. /\ IsTree(u)
      /\ \A h \in DOMAIN u : Stored(u[h]) = u[h]
      /\ IdsIn(u) = IdsIn(t)
      /\ DOMAIN u = DOMAIN t
      /\ \A h \in DOMAIN t : u[h] = Stored(t[h])
  BY <1>1, StoredTree
<1>3. qc \in QC \cup {None} /\ Stub(qc) = qc
  BY <1>1, StubType
<1>4. disk = [current_view |-> rep.current_view, block_tree |-> u,
              high_qc |-> qc, committed_log |-> rep.committed_log,
              epoch |-> rep.config_epoch, members |-> Replicas,
              in_order |-> TRUE]
  BY <1>1 DEF Capture, t
<1> HIDE DEF u, qc, disk
<1>5. /\ DOMAIN disk = DiskFields
      /\ disk.current_view = rep.current_view
      /\ disk.block_tree = u
      /\ disk.high_qc = qc
      /\ disk.committed_log = rep.committed_log
      /\ disk.epoch = rep.config_epoch
      /\ disk.members = Replicas
      /\ disk.in_order = TRUE
  BY <1>4 DEF DiskFields
<1>6. IsDisk(disk)
  BY <1>1, <1>2, <1>3, <1>5 DEF IsDisk
<1> QED
  BY <1>2, <1>5, <1>6 DEF t, qc, disk

LEMMA InsertIds ==
  ASSUME NEW t, IsTree(t), NEW b \in Block
  PROVE  IdsIn(InsertBlock(t, b)) \subseteq IdsIn(t) \cup {Ident(b)}
<1> DEFINE u == InsertBlock(t, b)
<1>1. /\ DOMAIN u = DOMAIN t \cup {b.hash}
      /\ u[b.hash] = b
      /\ \A h \in DOMAIN t : h # b.hash => u[h] = t[h]
  BY InsertBlockType
<1> HIDE DEF u
<1>2. IdsIn(u) \subseteq IdsIn(t) \cup {Ident(b)}
  BY <1>1 DEF IdsIn
<1> QED
  BY <1>2 DEF u

\* The fields of a replica that inserts a block.
LEMMA InsertRep ==
  ASSUME NEW r \in Replicas, NEW rep, IsRep(r, rep), NEW b \in Block
  PROVE  LET q == [rep EXCEPT !.block_tree = InsertBlock(@, b)]
         IN  /\ IsRep(r, q)
             /\ q.block_tree = InsertBlock(rep.block_tree, b)
             /\ \A f \in Fields \ {"block_tree"} : q[f] = rep[f]
<1> DEFINE t == InsertBlock(rep.block_tree, b)
           q == [rep EXCEPT !.block_tree = t]
<1>1. IsTree(t)
  BY InsertBlockType DEF IsRep
<1> HIDE DEF t
<1>2. /\ DOMAIN q = Fields
      /\ q.block_tree = t
      /\ \A f \in Fields \ {"block_tree"} : q[f] = rep[f]
  BY DEF IsRep, Fields
<1> HIDE DEF q
<1>3. IsRep(r, q)
  BY <1>1, <1>2 DEF IsRep, Fields
<1> QED
  BY <1>2, <1>3 DEF q, t

\* The leader inserts its block without logging it.
LEMMA ProposeAtFollows ==
  ASSUME NEW r \in Replicas, NEW n, IsNode(r, n), Mirrors(n), NEW b \in Block
  PROVE  LET m == ProposeAt(n, b)
         IN  /\ Follows(r, n, m, {Ident(b)}, {})
             /\ m.rep.vote_pool = n.rep.vote_pool
             /\ m.rep.high_qc = n.rep.high_qc
             /\ (/\ MirrorsBlocks(r, n)
                 /\ b.proposer = r
                 /\ b.hash \notin DOMAIN n.disk.block_tree)
                => MirrorsBlocks(r, m)
<1> DEFINE q == [n.rep EXCEPT !.block_tree = InsertBlock(@, b)]
           m == [n EXCEPT !.rep = q]
           t == n.rep.block_tree
           u == InsertBlock(t, b)
<1>1. ProposeAt(n, b) = m
  BY DEF ProposeAt, Propose
<1>2. /\ IsRep(r, q)
      /\ q.block_tree = u
      /\ \A f \in Fields \ {"block_tree"} : q[f] = n.rep[f]
  BY InsertRep DEF IsNode
<1>3. /\ DOMAIN u = DOMAIN t \cup {b.hash}
      /\ u[b.hash] = b
      /\ \A h \in DOMAIN t : h # b.hash => u[h] = t[h]
  BY InsertBlockType DEF IsNode, IsRep
<1>4. IdsIn(u) \subseteq IdsIn(t) \cup {Ident(b)}
  BY InsertIds DEF IsNode, IsRep
<1> HIDE DEF q
<1>5. /\ DOMAIN m = {"rep", "disk"}
      /\ m.rep = q
      /\ m.disk = n.disk
  BY DEF IsNode
<1> HIDE DEF m, u
<1>6. /\ q.vote_pool = n.rep.vote_pool
      /\ q.high_qc = n.rep.high_qc
      /\ q.current_view = n.rep.current_view
      /\ q.committed_log = n.rep.committed_log
  BY <1>2 DEF Fields
<1>7. IsNode(r, m)
  BY <1>2, <1>5 DEF IsNode
<1>8. Mirrors(m)
  BY <1>2, <1>3, <1>5, <1>6 DEF Mirrors
<1>9. Grows(n, m)
  BY <1>5, GrowsSame DEF IsNode
<1>10. /\ IdsOf(m) \subseteq IdsOf(n) \cup {Ident(b)}
       /\ CertsOf(m) \subseteq CertsOf(n)
  BY <1>2, <1>4, <1>5, <1>6 DEF IdsOf, CertsOf
<1>11. ASSUME MirrorsBlocks(r, n), b.proposer = r,
              b.hash \notin DOMAIN n.disk.block_tree
       PROVE  MirrorsBlocks(r, m)
  BY <1>2, <1>3, <1>5, <1>11 DEF MirrorsBlocks
<1> QED
  BY <1>1, <1>5, <1>6, <1>7, <1>8, <1>9, <1>10, <1>11 DEF Follows

\* A replica that accepts a block logs it.
LEMMA AcceptAtFollows ==
  ASSUME NEW r \in Replicas, NEW n, IsNode(r, n), Mirrors(n), NEW b \in Block,
         AcceptsProposal(n.rep, b)
  PROVE  LET m == AcceptAt(n, b)
         IN  /\ Follows(r, n, m, {Ident(b)}, {})
             /\ m.rep.vote_pool = n.rep.vote_pool
             /\ b.hash \in DOMAIN m.disk.block_tree
             /\ MirrorsBlocks(r, n) => MirrorsBlocks(r, m)
<1> DEFINE q == [n.rep EXCEPT !.block_tree = InsertBlock(@, b)]
           c == Stored(b)
           v == InsertBlock(n.disk.block_tree, c)
           d == [n.disk EXCEPT !.block_tree = v]
           m == [rep |-> q, disk |-> d]
           t == n.rep.block_tree
           u == InsertBlock(t, b)
<1>1. /\ c \in Block
      /\ Stored(c) = c
      /\ c.hash = b.hash
      /\ Ident(c) = Ident(b)
      /\ [c EXCEPT !.cmd = NoOp] = c
  BY StoredType, StoredNoOp DEF Ident
<1>2. AcceptAt(n, b) = m
  <2>1. LogBlock(n.disk, b) = d
    <3>1. [Stored(b) EXCEPT !.cmd = NoOp] = c
      BY <1>1
    <3> HIDE DEF c
    <3> QED
      BY <3>1 DEF LogBlock
  <2>2. ReceiveProposal(n.rep, b) = q
    BY DEF ReceiveProposal
  <2> HIDE DEF d, q
  <2> QED
    BY <2>1, <2>2 DEF AcceptAt
<1>3. /\ IsRep(r, q)
      /\ q.block_tree = u
      /\ \A f \in Fields \ {"block_tree"} : q[f] = n.rep[f]
  BY InsertRep DEF IsNode
<1>4. /\ DOMAIN u = DOMAIN t \cup {b.hash}
      /\ u[b.hash] = b
      /\ \A h \in DOMAIN t : h # b.hash => u[h] = t[h]
  BY InsertBlockType DEF IsNode, IsRep
<1>5. IdsIn(u) \subseteq IdsIn(t) \cup {Ident(b)}
  BY InsertIds DEF IsNode, IsRep
<1> HIDE DEF c
<1>6. /\ IsTree(v)
      /\ DOMAIN v = DOMAIN n.disk.block_tree \cup {b.hash}
      /\ v[b.hash] = c
      /\ \A h \in DOMAIN n.disk.block_tree :
           h # b.hash => v[h] = n.disk.block_tree[h]
  <2> DEFINE o == n.disk.block_tree
  <2>1. IsTree(o)
    BY DEF IsNode, IsDisk
  <2> HIDE DEF o
  <2>2. LET w == InsertBlock(o, c)
        IN  /\ IsTree(w)
            /\ DOMAIN w = DOMAIN o \cup {c.hash}
            /\ w[c.hash] = c
            /\ \A h \in DOMAIN o : h # c.hash => w[h] = o[h]
    BY <1>1, <2>1, InsertBlockType
  <2> QED
    BY <1>1, <2>2 DEF o
<1>7. IdsIn(v) \subseteq IdsIn(n.disk.block_tree) \cup {Ident(b)}
  BY <1>1, InsertIds DEF IsNode, IsDisk
<1> HIDE DEF q, u, v
<1>8. /\ DOMAIN d = DiskFields
      /\ d.block_tree = v
      /\ \A f \in DiskFields \ {"block_tree"} : d[f] = n.disk[f]
  BY DEF IsNode, IsDisk, DiskFields
<1> HIDE DEF d
<1>9. /\ DOMAIN m = {"rep", "disk"}
      /\ m.rep = q
      /\ m.disk = d
  OBVIOUS
<1> HIDE DEF m
<1>10. /\ q.vote_pool = n.rep.vote_pool
       /\ q.high_qc = n.rep.high_qc
       /\ q.current_view = n.rep.current_view
       /\ q.committed_log = n.rep.committed_log
  BY <1>3 DEF Fields
<1>11. /\ d.current_view = n.disk.current_view
       /\ d.high_qc = n.disk.high_qc
       /\ d.committed_log = n.disk.committed_log
       /\ d.epoch = n.disk.epoch
       /\ d.members = n.disk.members
       /\ d.in_order = n.disk.in_order
  BY <1>8 DEF DiskFields
<1>12. \A h \in DOMAIN v : Stored(v[h]) = v[h]
  <2>1. \A h \in DOMAIN n.disk.block_tree :
          Stored(n.disk.block_tree[h]) = n.disk.block_tree[h]
    BY DEF IsNode, IsDisk
  <2>2. ASSUME NEW h \in DOMAIN v
        PROVE  \/ v[h] = c
               \/ /\ h \in DOMAIN n.disk.block_tree
                  /\ v[h] = n.disk.block_tree[h]
    BY <1>6
  <2> QED
    BY <1>1, <2>1, <2>2
<1>13. IsDisk(d)
  BY <1>6, <1>8, <1>11, <1>12 DEF IsNode, IsDisk
<1>14. IsNode(r, m)
  BY <1>3, <1>9, <1>13 DEF IsNode
<1>15. Mirrors(m)
  BY <1>3, <1>4, <1>6, <1>8, <1>9, <1>10, <1>11 DEF Mirrors
<1>16. Grows(n, m)
  <2>1. IsPrefix(n.disk.committed_log, n.disk.committed_log)
    BY PrefixRefl DEF IsNode, IsDisk
  <2>2. n.disk.current_view <= n.disk.current_view
    BY DEF IsNode, IsDisk
  <2> QED
    BY <1>6, <1>8, <1>9, <1>11, <2>1, <2>2 DEF Grows
<1>17. /\ IdsOf(m) \subseteq IdsOf(n) \cup {Ident(b)}
       /\ CertsOf(m) \subseteq CertsOf(n)
  BY <1>3, <1>5, <1>7, <1>8, <1>9, <1>10, <1>11 DEF IdsOf, CertsOf
<1>18. ASSUME MirrorsBlocks(r, n)
       PROVE  MirrorsBlocks(r, m)
  BY <1>3, <1>4, <1>6, <1>8, <1>9, <1>18 DEF MirrorsBlocks, c
<1> QED
  BY <1>2, <1>6, <1>8, <1>9, <1>10, <1>14, <1>15, <1>16, <1>17, <1>18
  DEF Follows

\* An operation that leaves the blocks of a replica and of its disk alone.
LEMMA SameBlocks ==
  ASSUME NEW r, NEW n, NEW m,
         m.rep.block_tree = n.rep.block_tree,
         m.disk.block_tree = n.disk.block_tree
  PROVE  /\ IdsOf(m) = IdsOf(n)
         /\ MirrorsBlocks(r, n) => MirrorsBlocks(r, m)
  BY DEF IdsOf, MirrorsBlocks

\* A certificate that is put to use is logged.
LEMMA HighQCFollows ==
  ASSUME NEW r \in Replicas, NEW n, IsNode(r, n), Mirrors(n), NEW qc \in QC,
         NEW q, IsRep(r, q), q.high_qc = qc,
         \A f \in Fields \ {"high_qc", "vote_pool"} : q[f] = n.rep[f]
  PROVE  LET m == [rep |-> q, disk |-> LogHighQC(n.disk, qc)]
         IN  /\ Follows(r, n, m, {}, {qc.block})
             /\ MirrorsBlocks(r, n) => MirrorsBlocks(r, m)
             /\ m.disk.block_tree = n.disk.block_tree
<1> DEFINE s == Stub(qc)
           e == Max({n.disk.epoch, qc.epoch})
           d == [n.disk EXCEPT !.high_qc = s, !.epoch = e]
           m == [rep |-> q, disk |-> d]
<1>1. /\ s \in QC \cup {None}
      /\ Stub(s) = s
      /\ qc # None => s.block = qc.block
      /\ qc = None => s = None
  BY StubType DEF Stub
<1>2. e \in Nat
  <2> DEFINE pair == {n.disk.epoch, qc.epoch}
  <2>1. pair \subseteq Nat /\ pair # {}
    BY DEF IsNode, IsDisk, QC
  <2>2. IsFiniteSet(pair)
    <3>1. IsFiniteSet({n.disk.epoch}) /\ pair = {n.disk.epoch} \cup {qc.epoch}
      BY FS_Singleton
    <3> QED
      BY <3>1, FS_AddElement
  <2> HIDE DEF pair
  <2>3. Max(pair) \in Nat
    BY <2>1, <2>2, MaxMeans
  <2> QED
    BY <2>3 DEF pair
<1>3. LogHighQC(n.disk, qc) = d
  BY DEF LogHighQC
<1> HIDE DEF s, e
<1>4. /\ d.high_qc = s
      /\ d.epoch = e
      /\ d.current_view = n.disk.current_view
      /\ d.block_tree = n.disk.block_tree
      /\ d.committed_log = n.disk.committed_log
      /\ d.members = n.disk.members
      /\ d.in_order = n.disk.in_order
      /\ DOMAIN d = DiskFields
  BY DEF IsNode, IsDisk, DiskFields
<1> HIDE DEF d
<1>5. /\ DOMAIN m = {"rep", "disk"}
      /\ m.rep = q
      /\ m.disk = d
  OBVIOUS
<1> HIDE DEF m
<1>6. /\ q.current_view = n.rep.current_view
      /\ q.block_tree = n.rep.block_tree
      /\ q.committed_log = n.rep.committed_log
  BY DEF Fields
<1>7. IsDisk(d)
  BY <1>1, <1>2, <1>4 DEF IsNode, IsDisk
<1>8. IsNode(r, m)
  BY <1>5, <1>7 DEF IsNode
<1>9. Mirrors(m)
  BY <1>4, <1>5, <1>6 DEF Mirrors, s
<1>10. Grows(n, m)
  <2>1. IsPrefix(n.disk.committed_log, n.disk.committed_log)
    BY PrefixRefl DEF IsNode, IsDisk
  <2>2. n.disk.current_view <= n.disk.current_view
    BY DEF IsNode, IsDisk
  <2> QED
    BY <1>4, <1>5, <2>1, <2>2 DEF Grows
<1>11. /\ IdsOf(m) = IdsOf(n)
       /\ MirrorsBlocks(r, n) => MirrorsBlocks(r, m)
  BY <1>4, <1>5, <1>6, SameBlocks
<1>12. CertsOf(m) \subseteq {qc.block}
  BY <1>1, <1>4, <1>5 DEF CertsOf
<1> QED
  BY <1>3, <1>4, <1>5, <1>8, <1>9, <1>10, <1>11, <1>12 DEF Follows, m

LEMMA FollowsItself ==
  ASSUME NEW r \in Replicas, NEW n, IsNode(r, n), Mirrors(n)
  PROVE  Follows(r, n, n, {}, {})
<1>1. Grows(n, n)
  BY GrowsSame DEF IsNode
<1> QED
  BY <1>1 DEF Follows

LEMMA LearnAtFollows ==
  ASSUME NEW r \in Replicas, NEW n, IsNode(r, n), Mirrors(n), NEW qc \in QC
  PROVE  LET m == LearnAt(n, qc)
         IN  /\ Follows(r, n, m, {}, {qc.block})
             /\ MirrorsBlocks(r, n) => MirrorsBlocks(r, m)
<1>1. CASE ~NewerQC(qc, n.rep.high_qc)
  <2>1. LearnAt(n, qc) = n
    BY <1>1 DEF LearnAt
  <2> QED
    BY <2>1, FollowsItself DEF Follows
<1>2. CASE NewerQC(qc, n.rep.high_qc)
  <2> DEFINE q == [n.rep EXCEPT !.high_qc = qc]
  <2>1. LearnAt(n, qc) = [rep |-> q, disk |-> LogHighQC(n.disk, qc)]
    BY <1>2 DEF LearnAt, ApplyHighQC
  <2>2. /\ DOMAIN q = Fields
        /\ q.high_qc = qc
        /\ \A f \in Fields \ {"high_qc"} : q[f] = n.rep[f]
    BY DEF IsNode, IsRep, Fields
  <2> HIDE DEF q
  <2>3. IsRep(r, q)
    BY <2>2 DEF IsNode, IsRep, Fields
  <2> QED
    BY <2>1, <2>2, <2>3, HighQCFollows
<1> QED
  BY <1>1, <1>2

\* advance_view_with_reason: the view change is logged, the votes are gone.
LEMMA AdvanceAtFollows ==
  ASSUME NEW r \in Replicas, NEW n, IsNode(r, n), Mirrors(n)
  PROVE  LET m == AdvanceAt(n)
         IN  /\ Follows(r, n, m, {}, {})
             /\ MirrorsBlocks(r, n) => MirrorsBlocks(r, m)
             /\ m.rep.vote_pool = {}
             /\ m.disk.current_view = n.disk.current_view + 1
<1> DEFINE v == n.rep.current_view + 1
           q == [n.rep EXCEPT !.current_view = v, !.vote_pool = {}]
           d == [n.disk EXCEPT !.current_view = v]
           m == [rep |-> q, disk |-> d]
<1>1. AdvanceAt(n) = m
  BY DEF AdvanceAt, AdvanceView, LogView
<1>2. /\ v \in Nat
      /\ n.rep.current_view \in Nat
      /\ n.disk.current_view = n.rep.current_view
      /\ n.disk.current_view <= v
  BY DEF IsNode, IsRep, Mirrors
<1> HIDE DEF v
<1>3. /\ DOMAIN q = Fields
      /\ q.current_view = v
      /\ q.vote_pool = {}
      /\ \A f \in Fields \ {"current_view", "vote_pool"} : q[f] = n.rep[f]
  BY DEF IsNode, IsRep, Fields
<1>4. /\ DOMAIN d = DiskFields
      /\ d.current_view = v
      /\ \A f \in DiskFields \ {"current_view"} : d[f] = n.disk[f]
  BY DEF IsNode, IsDisk, DiskFields
<1> HIDE DEF q, d
<1>5. /\ DOMAIN m = {"rep", "disk"}
      /\ m.rep = q
      /\ m.disk = d
  OBVIOUS
<1> HIDE DEF m
<1>6. /\ q.block_tree = n.rep.block_tree
      /\ q.high_qc = n.rep.high_qc
      /\ q.committed_log = n.rep.committed_log
      /\ d.block_tree = n.disk.block_tree
      /\ d.high_qc = n.disk.high_qc
      /\ d.committed_log = n.disk.committed_log
      /\ d.epoch = n.disk.epoch
      /\ d.members = n.disk.members
      /\ d.in_order = n.disk.in_order
  BY <1>3, <1>4 DEF Fields, DiskFields
<1>7. IsRep(r, q)
  BY <1>2, <1>3 DEF IsNode, IsRep, Fields
<1>8. IsDisk(d)
  BY <1>2, <1>4, <1>6 DEF IsNode, IsDisk
<1>9. IsNode(r, m)
  BY <1>5, <1>7, <1>8 DEF IsNode
<1>10. Mirrors(m)
  BY <1>3, <1>4, <1>5, <1>6 DEF Mirrors
<1>11. Grows(n, m)
  <2>1. IsPrefix(n.disk.committed_log, n.disk.committed_log)
    BY PrefixRefl DEF IsNode, IsDisk
  <2> QED
    BY <1>2, <1>4, <1>5, <1>6, <2>1 DEF Grows
<1>12. /\ IdsOf(m) = IdsOf(n)
       /\ MirrorsBlocks(r, n) => MirrorsBlocks(r, m)
  BY <1>5, <1>6, SameBlocks
<1>13. CertsOf(m) = CertsOf(n)
  BY <1>5, <1>6 DEF CertsOf
<1> QED
  BY <1>1, <1>2, <1>3, <1>4, <1>5, <1>9, <1>10, <1>11, <1>12, <1>13
  DEF Follows, v

\* A snapshot replaces the disk and loses nothing: the memory has it all.
LEMMA SnapshotAtFollows ==
  ASSUME NEW r \in Replicas, NEW n, IsNode(r, n), Mirrors(n)
  PROVE  LET m == SnapshotAt(n)
         IN  /\ Follows(r, n, m, {}, {})
             /\ MirrorsBlocks(r, m)
<1> DEFINE d == Capture(n.rep)
           m == [n EXCEPT !.disk = d]
<1>1. SnapshotAt(n) = m
  BY DEF SnapshotAt
<1>2. IsRep(r, n.rep)
  BY DEF IsNode
<1>3. /\ IsDisk(d)
      /\ d.in_order = TRUE
      /\ d.current_view = n.rep.current_view
      /\ d.committed_log = n.rep.committed_log
      /\ d.high_qc = Stub(n.rep.high_qc)
      /\ DOMAIN d.block_tree = DOMAIN n.rep.block_tree
      /\ \A h \in DOMAIN n.rep.block_tree :
           d.block_tree[h] = Stored(n.rep.block_tree[h])
      /\ IdsIn(d.block_tree) = IdsIn(n.rep.block_tree)
  BY <1>2, CaptureType
<1> HIDE DEF d
<1>4. /\ DOMAIN m = {"rep", "disk"}
      /\ m.rep = n.rep
      /\ m.disk = d
  BY DEF IsNode
<1> HIDE DEF m
<1>5. IsNode(r, m)
  BY <1>2, <1>3, <1>4 DEF IsNode
<1>6. Mirrors(m)
  BY <1>3, <1>4 DEF Mirrors
<1>7. MirrorsBlocks(r, m)
  BY <1>3, <1>4 DEF MirrorsBlocks
<1>8. Grows(n, m)
  <2>1. IsPrefix(n.disk.committed_log, n.disk.committed_log)
    BY PrefixRefl DEF IsNode, IsDisk
  <2>2. n.disk.current_view <= n.disk.current_view
    BY DEF IsNode, IsDisk
  <2> QED
    BY <1>3, <1>4, <2>1, <2>2 DEF Grows, Mirrors
<1>9. /\ IdsOf(m) \subseteq IdsOf(n)
      /\ CertsOf(m) \subseteq CertsOf(n)
  BY <1>3, <1>4 DEF IdsOf, CertsOf, Mirrors
<1> QED
  BY <1>1, <1>5, <1>6, <1>7, <1>8, <1>9 DEF Follows

\* execute_and_commit of a no-op, in memory and in the log.
LEMMA CommitAtFollows ==
  ASSUME NEW r \in Replicas, NEW n, IsNode(r, n), Mirrors(n),
         NEW h \in DOMAIN n.rep.block_tree
  PROVE  LET m == CommitAt(n, h)
         IN  /\ Follows(r, n, m, {}, {})
             /\ MirrorsBlocks(r, n) => MirrorsBlocks(r, m)
             /\ m.rep.block_tree = n.rep.block_tree
<1> DEFINE b == n.rep.block_tree[h]
           log == Append(n.rep.committed_log, h)
           e == Max({n.disk.epoch, b.epoch})
           q == [n.rep EXCEPT !.committed_log = log]
           d == [n.disk EXCEPT !.committed_log = log, !.epoch = e]
           m == [rep |-> q, disk |-> d]
<1>1. /\ h \in Nat
      /\ b \in Block
      /\ b.hash = h
      /\ b.epoch \in Nat
      /\ b.cmd = NoOp
  BY DEF IsNode, IsRep, IsTree, Block
<1>2. /\ n.rep.committed_log \in Seq(Nat)
      /\ n.disk.committed_log = n.rep.committed_log
      /\ log \in Seq(Nat)
      /\ IsPrefix(n.rep.committed_log, log)
  BY <1>1, PrefixAppend DEF IsNode, IsRep, Mirrors
<1>3. e \in Nat
  <2> DEFINE pair == {n.disk.epoch, b.epoch}
  <2>1. pair \subseteq Nat /\ pair # {}
    BY <1>1 DEF IsNode, IsDisk
  <2>2. IsFiniteSet(pair)
    <3>1. IsFiniteSet({n.disk.epoch}) /\ pair = {n.disk.epoch} \cup {b.epoch}
      BY FS_Singleton
    <3> QED
      BY <3>1, FS_AddElement
  <2> HIDE DEF pair
  <2>3. Max(pair) \in Nat
    BY <2>1, <2>2, MaxMeans
  <2> QED
    BY <2>3 DEF pair
<1>4. Commit(n.rep, h) = q
  <2>1. ApplyMembership(q, NoOp) = q
    <3> HIDE DEF q
    <3> QED
      BY DEF ApplyMembership, NoOp
  <2>2. Commit(n.rep, h) = ApplyMembership(q, b.cmd)
    BY DEF Commit
  <2> QED
    BY <1>1, <2>1, <2>2
<1>5. LogCommit(n.disk, b, Len(n.rep.committed_log)) = d
  BY <1>1, <1>2 DEF LogCommit
<1>6. CommitAt(n, h) = m
  <2> HIDE DEF q, d
  <2> QED
    BY <1>4, <1>5 DEF CommitAt
<1> HIDE DEF log, e, b
<1>7. /\ DOMAIN q = Fields
      /\ q.committed_log = log
      /\ \A f \in Fields \ {"committed_log"} : q[f] = n.rep[f]
  BY DEF IsNode, IsRep, Fields
<1>8. /\ DOMAIN d = DiskFields
      /\ d.committed_log = log
      /\ d.epoch = e
      /\ \A f \in DiskFields \ {"committed_log", "epoch"} : d[f] = n.disk[f]
  BY DEF IsNode, IsDisk, DiskFields
<1> HIDE DEF q, d
<1>9. /\ DOMAIN m = {"rep", "disk"}
      /\ m.rep = q
      /\ m.disk = d
  OBVIOUS
<1> HIDE DEF m
<1>10. /\ q.block_tree = n.rep.block_tree
       /\ q.high_qc = n.rep.high_qc
       /\ q.current_view = n.rep.current_view
       /\ d.block_tree = n.disk.block_tree
       /\ d.high_qc = n.disk.high_qc
       /\ d.current_view = n.disk.current_view
       /\ d.members = n.disk.members
       /\ d.in_order = n.disk.in_order
  BY <1>7, <1>8 DEF Fields, DiskFields
<1>11. IsRep(r, q)
  BY <1>2, <1>7 DEF IsNode, IsRep, Fields
<1>12. IsDisk(d)
  BY <1>2, <1>3, <1>8, <1>10 DEF IsNode, IsDisk
<1>13. IsNode(r, m)
  BY <1>9, <1>11, <1>12 DEF IsNode
<1>14. Mirrors(m)
  BY <1>7, <1>8, <1>9, <1>10 DEF Mirrors
<1>15. Grows(n, m)
  <2>1. n.disk.current_view <= n.disk.current_view
    BY DEF IsNode, IsDisk
  <2> QED
    BY <1>2, <1>8, <1>9, <1>10, <2>1 DEF Grows
<1>16. /\ IdsOf(m) = IdsOf(n)
       /\ MirrorsBlocks(r, n) => MirrorsBlocks(r, m)
  BY <1>9, <1>10, SameBlocks
<1>17. CertsOf(m) = CertsOf(n)
  BY <1>9, <1>10 DEF CertsOf
<1> QED
  BY <1>6, <1>9, <1>10, <1>13, <1>14, <1>15, <1>16, <1>17 DEF Follows

\* The blocks that commit_all commits are blocks of the tree.
LEMMA CommitSequenceKnown ==
  ASSUME NEW rep, DOMAIN rep.block_tree \subseteq Nat,
         IsFiniteSet(DOMAIN rep.block_tree)
  PROVE  CommitSequence(rep) \in Seq(DOMAIN rep.block_tree)
<1> DEFINE S == Committable(rep)
           n == Cardinality(S)
           T == DOMAIN rep.block_tree
           c(i) == CHOOSE h \in S : Cardinality({g \in S : g < h}) = i - 1
<1>1. S \in SUBSET T /\ T \subseteq Nat /\ IsFiniteSet(T)
  BY DEF Committable
<1>2. IsFiniteSet(S) /\ S \subseteq Nat
  BY <1>1, FS_Subset
<1>3. n \in Nat
  BY <1>2, FS_CardinalityType
<1>4. CommitSequence(rep) = [i \in 1 .. n |-> c(i)]
  BY DEF CommitSequence
<1> HIDE DEF S
<1>5. ASSUME NEW i \in 1 .. n
      PROVE  c(i) \in T
  <2>1. i - 1 \in 0 .. n - 1
    BY <1>3
  <2> DEFINE k == i - 1
  <2>2. k \in 0 .. Cardinality(S) - 1
    BY <2>1
  <2> HIDE DEF k
  <2>3. \E h \in S : Cardinality({g \in S : g < h}) = k
    BY <1>2, <2>2, EveryRankTaken
  <2>4. (CHOOSE h \in S : Cardinality({g \in S : g < h}) = k) \in S
    BY <2>3
  <2> QED
    BY <1>1, <2>4 DEF k
<1> HIDE DEF c, n
<1>6. [i \in 1 .. n |-> c(i)] \in Seq(T)
  BY <1>3, <1>5
<1> QED
  BY <1>4, <1>6

(***************************************************************************)
(* commit_all: CommitAt folded over a sequence of blocks.                  *)
(***************************************************************************)
IsCommitFold(g, n, seq, k) ==
  g = [s \in SUBSET (1 .. k) |->
         IF s = {} THEN n ELSE CommitAt(g[s \ {Max(s)}], seq[Max(s)])]

LEMMA CommitFoldExists ==
  ASSUME NEW n, NEW seq, NEW len \in Nat
  PROVE  \E g : IsCommitFold(g, n, seq, len)
<1> DEFINE D == {k \in Nat : \E g : IsCommitFold(g, n, seq, k)}
<1>1. 0 \in D
  <2>1. IsCommitFold([s \in SUBSET (1 .. 0) |-> n], n, seq, 0)
    BY DEF IsCommitFold
  <2> QED
    BY <2>1
<1>2. ASSUME NEW k \in Nat, k \in D
      PROVE  k + 1 \in D
  <2>1. PICK g : IsCommitFold(g, n, seq, k)
    BY <1>2
  <2> DEFINE body(h, s) == IF s = {} THEN n
                           ELSE CommitAt(h[s \ {Max(s)}], seq[Max(s)])
             next == [s \in SUBSET (1 .. k + 1) |-> body(g, s)]
  <2>2. ASSUME NEW s \in SUBSET (1 .. k + 1), s # {}
        PROVE  s \ {Max(s)} \in SUBSET (1 .. k) \/ s \in SUBSET (1 .. k)
    <3>1. CASE k + 1 \in s
      <4>1. Max(s) = k + 1
        <5>1. s \subseteq Nat /\ \A i \in s : i <= k + 1
          OBVIOUS
        <5> QED
          BY <3>1, <5>1, GreatestIsMax
      <4> QED
        BY <4>1
    <3>2. CASE k + 1 \notin s
      BY <3>2
    <3> QED
      BY <3>1, <3>2
  <2>3. ASSUME NEW s \in SUBSET (1 .. k)
        PROVE  g[s] = body(g, s) /\ next[s] = body(g, s)
    <3>1. s \in SUBSET (1 .. k + 1)
      OBVIOUS
    <3>2. g[s] = body(g, s)
      BY <2>1, Zenon DEF IsCommitFold
    <3>3. next[s] = body(g, s)
      BY <3>1, Zenon
    <3> QED
      BY <3>2, <3>3
  <2>4. ASSUME NEW s \in SUBSET (1 .. k + 1)
        PROVE  body(g, s) = body(next, s)
    <3>1. CASE s = {}
      BY <3>1
    <3>2. CASE s # {} /\ s \ {Max(s)} \in SUBSET (1 .. k)
      <4>1. next[s \ {Max(s)}] = g[s \ {Max(s)}]
        BY <2>3, <3>2
      <4> QED
        BY <3>2, <4>1
    <3>3. CASE s # {} /\ s \in SUBSET (1 .. k)
      <4>1. s \ {Max(s)} \in SUBSET (1 .. k)
        BY <3>3
      <4>2. next[s \ {Max(s)}] = g[s \ {Max(s)}]
        BY <2>3, <4>1
      <4> QED
        BY <3>3, <4>2
    <3> QED
      BY <2>2, <3>1, <3>2, <3>3
  <2>5. IsCommitFold(next, n, seq, k + 1)
    <3>1. next = [s \in SUBSET (1 .. k + 1) |-> body(next, s)]
      BY <2>4
    <3> QED
      BY <3>1 DEF IsCommitFold
  <2> QED
    BY <2>5
<1>3. Nat \subseteq D
  <2> HIDE DEF D
  <2> QED
    BY <1>1, <1>2, NatSetInduction
<1> QED
  BY <1>3

LEMMA CommitFoldFollows ==
  ASSUME NEW r \in Replicas, NEW n, IsNode(r, n), Mirrors(n),
         NEW seq \in Seq(DOMAIN n.rep.block_tree)
  PROVE  LET m == FoldLeft(CommitAt, n, seq)
         IN  /\ Follows(r, n, m, {}, {})
             /\ MirrorsBlocks(r, n) => MirrorsBlocks(r, m)
<1> DEFINE len == Len(seq)
           I == 1 .. len
           g == CHOOSE f : IsCommitFold(f, n, seq, len)
           Good(m) == /\ Follows(r, n, m, {}, {})
                      /\ MirrorsBlocks(r, n) => MirrorsBlocks(r, m)
                      /\ m.rep.block_tree = n.rep.block_tree
           D == {s \in SUBSET I : Good(g[s])}
<1>1. len \in Nat /\ DOMAIN seq = I
  OBVIOUS
<1>2. FoldLeft(CommitAt, n, seq) = g[I]
  BY <1>1 DEF FoldLeft, MapThenFoldSet, IsCommitFold
<1>3. IsCommitFold(g, n, seq, len)
  BY <1>1, CommitFoldExists
<1> HIDE DEF g, len
<1>4. ASSUME NEW s \in SUBSET I
      PROVE  g[s] = IF s = {} THEN n
                    ELSE CommitAt(g[s \ {Max(s)}], seq[Max(s)])
  BY <1>3, Zenon DEF IsCommitFold
<1>5. IsFiniteSet(I) /\ I \subseteq Nat
  BY <1>1, FS_Interval
<1> HIDE DEF I
<1>6. ASSUME NEW s \in SUBSET I, \A u \in SUBSET s : u # s => u \in D
      PROVE  s \in D
  <2>1. CASE s = {}
    <3>1. g[s] = n
      BY <1>4, <2>1
    <3>2. Good(n)
      BY FollowsItself
    <3> QED
      BY <3>1, <3>2
  <2>2. CASE s # {}
    <3> DEFINE x == Max(s)
               u == s \ {x}
    <3>1. x \in s
      BY <1>5, <2>2, FS_Subset, MaxMeans
    <3>2. Good(g[u])
      <4>1. u \in SUBSET s /\ u # s
        BY <3>1
      <4> QED
        BY <1>6, <4>1
    <3>3. g[s] = CommitAt(g[u], seq[x])
      BY <1>4, <2>2
    <3>4. seq[x] \in DOMAIN n.rep.block_tree
      BY <1>1, <3>1, ElementOfSeq DEF I, len
    <3> DEFINE p == g[u]
               m == CommitAt(p, seq[x])
    <3> HIDE DEF u, x
    <3>5. /\ IsNode(r, p)
          /\ Mirrors(p)
          /\ seq[x] \in DOMAIN p.rep.block_tree
          /\ Follows(r, n, p, {}, {})
          /\ MirrorsBlocks(r, n) => MirrorsBlocks(r, p)
          /\ p.rep.block_tree = n.rep.block_tree
      BY <3>2, <3>4 DEF Follows
    <3> HIDE DEF p
    <3>6. /\ Follows(r, p, m, {}, {})
          /\ MirrorsBlocks(r, p) => MirrorsBlocks(r, m)
          /\ m.rep.block_tree = p.rep.block_tree
      BY <3>5, CommitAtFollows
    <3> HIDE DEF m
    <3>7. Follows(r, n, m, {} \cup {}, {} \cup {})
      BY <3>5, <3>6, FollowsTrans
    <3>8. Good(m)
      BY <3>5, <3>6, <3>7
    <3> QED
      BY <3>3, <3>8 DEF m, p
  <2> QED
    BY <2>1, <2>2
<1>7. SUBSET I \subseteq D
  <2> HIDE DEF D
  <2> QED
    BY <1>5, <1>6, SubsetInduction
<1>8. Good(g[I])
  BY <1>7
<1> QED
  BY <1>2, <1>8

\* commit_all, with the snapshot that may follow.
LEMMA CommitAllAtFollows ==
  ASSUME NEW r \in Replicas, NEW n, IsNode(r, n), Mirrors(n)
  PROVE  LET m == CommitAllAt(n)
         IN  /\ Follows(r, n, m, {}, {})
             /\ MirrorsBlocks(r, n) => MirrorsBlocks(r, m)
<1> DEFINE p == FoldLeft(CommitAt, n, CommitSequence(n.rep))
           m == CommitAllAt(n)
<1>1. CommitSequence(n.rep) \in Seq(DOMAIN n.rep.block_tree)
  BY CommitSequenceKnown DEF IsNode, IsRep, IsTree
<1>2. /\ Follows(r, n, p, {}, {})
      /\ MirrorsBlocks(r, n) => MirrorsBlocks(r, p)
  BY <1>1, CommitFoldFollows
<1>3. m = p \/ m = SnapshotAt(p)
  BY DEF CommitAllAt
<1> HIDE DEF m, p
<1>4. CASE m = p
  BY <1>2, <1>4 DEF m
<1>5. CASE m = SnapshotAt(p)
  <2>1. /\ Follows(r, p, m, {}, {})
        /\ MirrorsBlocks(r, m)
    BY <1>2, <1>5, SnapshotAtFollows DEF Follows
  <2>2. Follows(r, n, m, {} \cup {}, {} \cup {})
    BY <1>2, <2>1, FollowsTrans
  <2> QED
    BY <2>1, <2>2 DEF m
<1> QED
  BY <1>3, <1>4, <1>5

(***************************************************************************)
(* The votes of a round: HandleVote folded over a set of votes.            *)
(***************************************************************************)
AnyOf(s) == CHOOSE x \in s : TRUE

SmallSubsets(V, k) == {s \in SUBSET V : Cardinality(s) <= k}

\* g is the fold over the subsets of V with at most k elements.
IsVoteFold(g, rep, V, k) ==
  g = [s \in SmallSubsets(V, k) |->
         IF s = {} THEN rep ELSE HandleVote(g[s \ {AnyOf(s)}], AnyOf(s))]

LEMMA VoteFoldExists ==
  ASSUME NEW rep, NEW V, IsFiniteSet(V), NEW len \in Nat
  PROVE  \E g : IsVoteFold(g, rep, V, len)
<1> DEFINE D == {k \in Nat : \E g : IsVoteFold(g, rep, V, k)}
<1>1. 0 \in D
  <2> DEFINE g == [s \in SmallSubsets(V, 0) |-> rep]
  <2>1. ASSUME NEW s \in SmallSubsets(V, 0)
        PROVE  s = {}
    <3>1. s \in SUBSET V /\ Cardinality(s) <= 0
      BY DEF SmallSubsets
    <3>2. IsFiniteSet(s) /\ Cardinality(s) \in Nat
      BY <3>1, FS_Subset, FS_CardinalityType
    <3> QED
      BY <3>1, <3>2, FS_EmptySet
  <2>2. IsVoteFold(g, rep, V, 0)
    BY <2>1 DEF IsVoteFold
  <2> QED
    BY <2>2
<1>2. ASSUME NEW k \in Nat, k \in D
      PROVE  k + 1 \in D
  <2>1. PICK g : IsVoteFold(g, rep, V, k)
    BY <1>2
  <2> DEFINE body(h, s) == IF s = {} THEN rep
                           ELSE HandleVote(h[s \ {AnyOf(s)}], AnyOf(s))
             next == [s \in SmallSubsets(V, k + 1) |-> body(g, s)]
  <2>2. ASSUME NEW s \in SmallSubsets(V, k + 1), s # {}
        PROVE  s \ {AnyOf(s)} \in SmallSubsets(V, k)
    <3>1. s \in SUBSET V /\ Cardinality(s) <= k + 1
      BY DEF SmallSubsets
    <3>2. IsFiniteSet(s) /\ Cardinality(s) \in Nat
      BY <3>1, FS_Subset, FS_CardinalityType
    <3>3. AnyOf(s) \in s
      BY <2>2 DEF AnyOf
    <3>4. Cardinality(s \ {AnyOf(s)}) = Cardinality(s) - 1
      BY <3>2, <3>3, FS_RemoveElement
    <3>5. Cardinality(s \ {AnyOf(s)}) <= k
      BY <3>1, <3>2, <3>4
    <3> QED
      BY <3>1, <3>5 DEF SmallSubsets
  <2>3. ASSUME NEW s \in SmallSubsets(V, k)
        PROVE  g[s] = body(g, s) /\ next[s] = body(g, s)
    <3>1. s \in SmallSubsets(V, k + 1)
      <4>1. s \in SUBSET V /\ Cardinality(s) <= k
        BY DEF SmallSubsets
      <4>2. Cardinality(s) \in Nat
        BY <4>1, FS_Subset, FS_CardinalityType
      <4>3. Cardinality(s) <= k + 1
        BY <4>1, <4>2
      <4> QED
        BY <4>1, <4>3 DEF SmallSubsets
    <3>2. g[s] = body(g, s)
      BY <2>1, Zenon DEF IsVoteFold
    <3>3. next[s] = body(g, s)
      BY <3>1, Zenon
    <3> QED
      BY <3>2, <3>3
  <2>4. ASSUME NEW s \in SmallSubsets(V, k + 1)
        PROVE  body(g, s) = body(next, s)
    <3>1. CASE s = {}
      BY <3>1
    <3>2. CASE s # {}
      <4>1. next[s \ {AnyOf(s)}] = g[s \ {AnyOf(s)}]
        BY <2>2, <2>3, <3>2
      <4> QED
        BY <3>2, <4>1
    <3> QED
      BY <3>1, <3>2
  <2>5. IsVoteFold(next, rep, V, k + 1)
    <3>1. next = [s \in SmallSubsets(V, k + 1) |-> body(next, s)]
      BY <2>4
    <3> QED
      BY <3>1 DEF IsVoteFold
  <2> QED
    BY <2>5
<1>3. Nat \subseteq D
  <2> HIDE DEF D
  <2> QED
    BY <1>1, <1>2, NatSetInduction
<1> QED
  BY <1>3

\* A certificate made of a quorum of the votes V.
CertifiedBy(qc, V) ==
  /\ qc \in QC
  /\ qc.sigs \subseteq V
  /\ QuorumSize(Replicas) <= Cardinality(qc.sigs)
  /\ \E v \in V : /\ qc.block = v.block
                  /\ qc.view = v.view
                  /\ qc.epoch = v.epoch

\* A replica that has counted some of the votes V for one block.
HasCounted(r, rep, q, V, block) ==
  /\ IsRep(r, q)
  /\ \A f \in Fields \ {"high_qc", "vote_pool"} : q[f] = rep[f]
  /\ q.vote_pool \subseteq V
  /\ \/ q.high_qc = rep.high_qc
     \/ CertifiedBy(q.high_qc, V)

LEMMA QuorumIsNumber == QuorumSize(Replicas) \in Nat
<1>1. N \in Nat /\ N > 0
  BY SimulationAssumption
<1>2. FaultBound(Replicas) = (N - 1) \div 3
  BY ReplicasFinite DEF FaultBound
<1>3. (N - 1) \div 3 \in Nat
  BY <1>1
<1> QED
  BY <1>2, <1>3 DEF QuorumSize

LEMMA HandleVoteCounts ==
  ASSUME NEW r \in Replicas, NEW rep, NEW q, NEW block,
         NEW V, IsFiniteSet(V), V \subseteq Signature,
         \A v \in V : v.block = block,
         HasCounted(r, rep, q, V, block),
         NEW vote \in V
  PROVE  HasCounted(r, rep, HandleVote(q, vote), V, block)
<1>1. CASE ~AdmitsVote(q, vote)
  BY <1>1 DEF HandleVote
<1>2. CASE AdmitsVote(q, vote)
  <2> DEFINE pool == q.vote_pool \cup
               {[block |-> vote.block, signer |-> vote.signer,
                 view |-> vote.view, epoch |-> vote.epoch]}
             sigs == SignaturesFor(pool, vote.block)
             c == [block |-> vote.block, view |-> vote.view,
                   epoch |-> vote.epoch, sigs |-> sigs]
             qc == FormQC(q, vote, pool)
             m == [q EXCEPT !.vote_pool = pool, !.high_qc = qc]
  <2>1. HandleVote(q, vote) = m
    BY <1>2 DEF HandleVote, CountVote
  <2>2. /\ vote \in Signature
        /\ vote = [block |-> vote.block, signer |-> vote.signer,
                   view |-> vote.view, epoch |-> vote.epoch]
        /\ vote.block = block
    BY DEF Signature
  <2>3. pool \subseteq V /\ pool \subseteq Signature
    BY <2>2 DEF HasCounted
  <2>4. q.active_validators = Replicas
    BY DEF HasCounted, IsRep
  <2> HIDE DEF pool
  <2>5. sigs \in SUBSET V /\ sigs \in SUBSET Signature
    BY <2>3 DEF SignaturesFor
  <2>6. Cardinality(sigs) \in Nat
    BY <2>5, FS_Subset, FS_CardinalityType
  <2>7. \/ qc = q.high_qc
        \/ qc = c /\ Cardinality(sigs) >= QuorumSize(Replicas)
    BY <2>4 DEF FormQC
  <2> HIDE DEF sigs, qc
  <2>8. /\ c \in QC
        /\ c.sigs = sigs
        /\ c.block = vote.block
        /\ c.view = vote.view
        /\ c.epoch = vote.epoch
    BY <2>2, <2>5 DEF QC, Signature
  <2> HIDE DEF c
  <2>9. /\ \/ qc = q.high_qc
           \/ CertifiedBy(qc, V)
        /\ CertifiedBy(qc, V) => qc \in QC
    <3>1. QuorumSize(Replicas) \in Nat
      BY QuorumIsNumber
    <3>2. Cardinality(sigs) >= QuorumSize(Replicas)
            => QuorumSize(Replicas) <= Cardinality(sigs)
      BY <2>6, <3>1
    <3> QED
      BY <2>5, <2>7, <2>8, <3>2 DEF CertifiedBy
  <2>10. /\ DOMAIN m = Fields
         /\ m.vote_pool = pool
         /\ m.high_qc = qc
         /\ \A f \in Fields \ {"high_qc", "vote_pool"} : m[f] = q[f]
    BY DEF HasCounted, IsRep, Fields
  <2> HIDE DEF m
  <2>11. IsRep(r, m)
    BY <2>3, <2>9, <2>10 DEF HasCounted, IsRep, Fields
  <2>12. HasCounted(r, rep, m, V, block)
    BY <2>3, <2>9, <2>10, <2>11 DEF HasCounted
  <2> QED
    BY <2>1, <2>12
<1> QED
  BY <1>1, <1>2

LEMMA VoteFoldCounts ==
  ASSUME NEW r \in Replicas, NEW rep, IsRep(r, rep), rep.vote_pool = {},
         NEW block, NEW V, IsFiniteSet(V), V \subseteq Signature,
         \A v \in V : v.block = block
  PROVE  HasCounted(r, rep,
                    FoldSet(LAMBDA vote, q : HandleVote(q, vote), rep, V),
                    V, block)
<1> DEFINE len == Cardinality(V)
           g == CHOOSE f : IsVoteFold(f, rep, V, len)
           Good(q) == HasCounted(r, rep, q, V, block)
           D == {s \in SUBSET V : Good(g[s])}
<1>1. len \in Nat
  BY FS_CardinalityType
<1>2. SmallSubsets(V, len) = SUBSET V
  BY FS_Subset DEF SmallSubsets
<1>3. FoldSet(LAMBDA vote, q : HandleVote(q, vote), rep, V) = g[V]
  BY <1>2 DEF FoldSet, MapThenFoldSet, IsVoteFold, AnyOf
<1>4. IsVoteFold(g, rep, V, len)
  BY <1>1, VoteFoldExists
<1> HIDE DEF g, len
<1>5. ASSUME NEW s \in SUBSET V
      PROVE  g[s] = IF s = {} THEN rep
                    ELSE HandleVote(g[s \ {AnyOf(s)}], AnyOf(s))
  BY <1>2, <1>4, Zenon DEF IsVoteFold
<1>6. ASSUME NEW s \in SUBSET V, \A u \in SUBSET s : u # s => u \in D
      PROVE  s \in D
  <2>1. CASE s = {}
    <3>1. g[s] = rep
      BY <1>5, <2>1
    <3>2. Good(rep)
      BY DEF HasCounted
    <3> QED
      BY <3>1, <3>2
  <2>2. CASE s # {}
    <3> DEFINE x == AnyOf(s)
               u == s \ {x}
    <3>1. x \in s
      BY <2>2 DEF AnyOf
    <3>2. Good(g[u])
      <4>1. u \in SUBSET s /\ u # s
        BY <3>1
      <4> QED
        BY <1>6, <4>1
    <3>3. g[s] = HandleVote(g[u], x)
      BY <1>5, <2>2
    <3>4. x \in V
      BY <3>1
    <3> DEFINE p == g[u]
    <3> HIDE DEF u, x
    <3>5. HasCounted(r, rep, p, V, block)
      BY <3>2
    <3> HIDE DEF p
    <3>6. Good(HandleVote(p, x))
      BY <3>4, <3>5, HandleVoteCounts
    <3> QED
      BY <3>3, <3>6 DEF p
  <2> QED
    BY <2>1, <2>2
<1>7. SUBSET V \subseteq D
  <2> HIDE DEF D
  <2> QED
    BY <1>6, SubsetInduction
<1>8. Good(g[V])
  BY <1>7
<1> QED
  BY <1>3, <1>8

\* handle_vote for the votes of a round: a certificate takes a quorum of them.
LEMMA CountAtFollows ==
  ASSUME NEW r \in Replicas, NEW n, IsNode(r, n), Mirrors(n),
         n.rep.vote_pool = {},
         NEW block, NEW V, IsFiniteSet(V), V \subseteq Signature,
         \A v \in V : v.block = block
  PROVE  LET m == CountAt(n, V)
         IN  /\ \/ /\ Follows(r, n, m, {}, {})
                   /\ m.rep.high_qc = n.rep.high_qc
                \/ /\ Follows(r, n, m, {}, {block})
                   /\ m.rep.high_qc \in QC
                   /\ m.rep.high_qc.block = block
                   /\ QuorumSize(Replicas) <= Cardinality(V)
             /\ MirrorsBlocks(r, n) => MirrorsBlocks(r, m)
<1> DEFINE q == FoldSet(LAMBDA vote, rep : HandleVote(rep, vote), n.rep, V)
           d == IF q.high_qc = n.rep.high_qc THEN n.disk
                ELSE LogHighQC(n.disk, q.high_qc)
           m == CountAt(n, V)
<1>1. m = [rep |-> q, disk |-> d]
  BY DEF CountAt
<1>2. HasCounted(r, n.rep, q, V, block)
  BY VoteFoldCounts DEF IsNode
<1> HIDE DEF q, m
<1>3. /\ IsRep(r, q)
      /\ \A f \in Fields \ {"high_qc", "vote_pool"} : q[f] = n.rep[f]
      /\ \/ q.high_qc = n.rep.high_qc
         \/ /\ q.high_qc \in QC
            /\ q.high_qc.block = block
            /\ QuorumSize(Replicas) <= Cardinality(V)
  <2>1. ASSUME CertifiedBy(q.high_qc, V)
        PROVE  /\ q.high_qc \in QC
               /\ q.high_qc.block = block
               /\ QuorumSize(Replicas) <= Cardinality(V)
    <3> DEFINE sigs == q.high_qc.sigs
    <3>1. /\ sigs \in SUBSET V
          /\ QuorumSize(Replicas) <= Cardinality(sigs)
      BY <2>1 DEF CertifiedBy
    <3> HIDE DEF sigs
    <3>2. /\ Cardinality(sigs) \in Nat
          /\ Cardinality(V) \in Nat
          /\ Cardinality(sigs) <= Cardinality(V)
      BY <3>1, FS_Subset, FS_CardinalityType
    <3>3. QuorumSize(Replicas) <= Cardinality(V)
      BY <3>1, <3>2, QuorumIsNumber
    <3> QED
      BY <2>1, <3>3 DEF CertifiedBy
  <2> QED
    BY <1>2, <2>1 DEF HasCounted
<1>4. /\ DOMAIN m = {"rep", "disk"}
      /\ m.rep = q
      /\ m.disk = d
  <2> HIDE DEF d
  <2> QED
    BY <1>1
<1>5. CASE q.high_qc = n.rep.high_qc
  <2>1. m.disk = n.disk
    BY <1>4, <1>5
  <2>2. /\ q.current_view = n.rep.current_view
        /\ q.block_tree = n.rep.block_tree
        /\ q.committed_log = n.rep.committed_log
    BY <1>3 DEF Fields
  <2>3. IsNode(r, m)
    BY <1>3, <1>4, <2>1 DEF IsNode
  <2>4. Mirrors(m)
    BY <1>4, <1>5, <2>1, <2>2 DEF Mirrors
  <2>5. Grows(n, m)
    BY <2>1, GrowsSame DEF IsNode
  <2>6. /\ IdsOf(m) = IdsOf(n)
        /\ MirrorsBlocks(r, n) => MirrorsBlocks(r, m)
    BY <1>4, <2>1, <2>2, SameBlocks
  <2>7. CertsOf(m) = CertsOf(n)
    BY <1>4, <1>5, <2>1 DEF CertsOf
  <2>8. Follows(r, n, m, {}, {})
    BY <2>3, <2>4, <2>5, <2>6, <2>7 DEF Follows
  <2> QED
    BY <1>4, <1>5, <2>6, <2>8 DEF m
<1>6. CASE q.high_qc # n.rep.high_qc
  <2> DEFINE qc == q.high_qc
  <2>1. m = [rep |-> q, disk |-> LogHighQC(n.disk, qc)]
    BY <1>1, <1>6
  <2>2. /\ qc \in QC
        /\ qc.block = block
        /\ QuorumSize(Replicas) <= Cardinality(V)
        /\ q.high_qc = qc
    BY <1>3, <1>6
  <2> HIDE DEF qc
  <2>3. /\ Follows(r, n, m, {}, {block})
        /\ MirrorsBlocks(r, n) => MirrorsBlocks(r, m)
    BY <1>3, <2>1, <2>2, HighQCFollows
  <2> QED
    BY <1>4, <2>2, <2>3 DEF m
<1> QED
  BY <1>5, <1>6

(***************************************************************************)
(* Crashes and recoveries.                                                 *)
(***************************************************************************)
\* What every step makes of a replica and its disk: it is in order between
\* rounds, the disk has lost nothing, and nothing is known but these blocks
\* and certificates.
Kept(r, n, m, ids, certs) ==
  /\ IsNode(r, m)
  /\ m.rep.vote_pool = {}
  /\ m.disk.in_order
  /\ Grows(n, m)
  /\ IdsOf(m) \subseteq ids
  /\ CertsOf(m) \subseteq certs

LEMMA KeptItself ==
  ASSUME NEW r, NEW n, IsNode(r, n), n.rep.vote_pool = {}, n.disk.in_order
  PROVE  Kept(r, n, n, IdsOf(n), CertsOf(n))
<1>1. Grows(n, n)
  BY GrowsSame DEF IsNode
<1> QED
  BY <1>1 DEF Kept

LEMMA KeptMore ==
  ASSUME NEW r, NEW n, NEW m, NEW ids, NEW certs, NEW more, NEW others,
         Kept(r, n, m, ids, certs), ids \subseteq more, certs \subseteq others
  PROVE  Kept(r, n, m, more, others)
  BY DEF Kept

\* crash_replica: the memory is lost, the disk is not.
LEMMA CrashAtKeeps ==
  ASSUME NEW r \in Replicas, NEW n, IsNode(r, n), n.disk.in_order
  PROVE  Kept(r, n, CrashAt(r, n), IdsOf(n), CertsOf(n))
<1> DEFINE rep == FreshReplica(r, Replicas, Replicas)
           m == [n EXCEPT !.rep = rep]
<1>1. CrashAt(r, n) = m
  <2>1. 0 .. n.rep.config_n - 1 = Replicas
    BY ReplicasFinite DEF IsNode, IsRep
  <2> QED
    BY <2>1 DEF CrashAt
<1>2. /\ IsRep(r, rep)
      /\ IdsIn(rep.block_tree) = {}
      /\ rep.high_qc = None
      /\ rep.vote_pool = {}
  BY FreshReplicaType
<1> HIDE DEF rep
<1>3. /\ DOMAIN m = {"rep", "disk"}
      /\ m.rep = rep
      /\ m.disk = n.disk
  BY DEF IsNode
<1> HIDE DEF m
<1>4. IsNode(r, m)
  BY <1>2, <1>3 DEF IsNode
<1>5. Grows(n, m)
  BY <1>3, GrowsSame DEF IsNode
<1>6. /\ IdsOf(m) \subseteq IdsOf(n)
      /\ CertsOf(m) \subseteq CertsOf(n)
  BY <1>2, <1>3 DEF IdsOf, CertsOf
<1>7. Kept(r, n, m, IdsOf(n), CertsOf(n))
  BY <1>2, <1>3, <1>4, <1>5, <1>6 DEF Kept
<1> QED
  BY <1>1, <1>7

\* What recover() yields from a disk.
LEMMA RecoveredType ==
  ASSUME NEW r \in Replicas, NEW disk, IsDisk(disk)
  PROVE  LET rep == Recovered(r, disk, N)
         IN  /\ IsRep(r, rep)
             /\ rep.current_view = disk.current_view
             /\ rep.block_tree = disk.block_tree
             /\ rep.high_qc = disk.high_qc
             /\ rep.committed_log = disk.committed_log
             /\ rep.vote_pool = {}
<1> DEFINE fresh == FreshReplica(r, Replicas, Replicas)
           members == IF disk.members = None THEN fresh.active_validators
                      ELSE disk.members
           rep == [fresh EXCEPT
             !.current_view = disk.current_view,
             !.block_tree = disk.block_tree,
             !.high_qc = disk.high_qc, !.committed_log = disk.committed_log,
             !.config_epoch = disk.epoch, !.active_validators = members]
<1>1. Recovered(r, disk, N) = rep
  BY ReplicasFinite DEF Recovered
<1>2. IsRep(r, fresh) /\ fresh.vote_pool = {}
  BY FreshReplicaType
<1> HIDE DEF fresh
<1>3. members = Replicas
  BY <1>2 DEF IsDisk, IsRep
<1> HIDE DEF members
<1>4. /\ DOMAIN rep = Fields
      /\ rep.id = fresh.id
      /\ rep.current_view = disk.current_view
      /\ rep.block_tree = disk.block_tree
      /\ rep.high_qc = disk.high_qc
      /\ rep.vote_pool = fresh.vote_pool
      /\ rep.committed_log = disk.committed_log
      /\ rep.active_validators = members
      /\ rep.config_epoch = disk.epoch
      /\ rep.config_n = fresh.config_n
      /\ rep.keys = fresh.keys
  BY <1>2 DEF IsRep, Fields
<1> HIDE DEF rep
<1>5. IsRep(r, rep)
  BY <1>2, <1>3, <1>4 DEF IsRep, IsDisk
<1> QED
  BY <1>1, <1>2, <1>4, <1>5

\* A replica recovers by itself when the process restarts.
LEMMA RecoversAlone ==
  ASSUME NEW r \in Replicas, NEW n, IsNode(r, n), n.disk.in_order
  PROVE  LET m == [n EXCEPT !.rep = Recovered(r, n.disk, N)]
         IN  /\ Kept(r, n, m, IdsOf(n), CertsOf(n))
             /\ Mirrors(m)
<1> DEFINE rep == Recovered(r, n.disk, N)
           m == [n EXCEPT !.rep = rep]
<1>1. /\ IsRep(r, rep)
      /\ rep.current_view = n.disk.current_view
      /\ rep.block_tree = n.disk.block_tree
      /\ rep.high_qc = n.disk.high_qc
      /\ rep.committed_log = n.disk.committed_log
      /\ rep.vote_pool = {}
  BY RecoveredType DEF IsNode
<1> HIDE DEF rep
<1>2. /\ DOMAIN m = {"rep", "disk"}
      /\ m.rep = rep
      /\ m.disk = n.disk
  BY DEF IsNode
<1> HIDE DEF m
<1>3. IsNode(r, m)
  BY <1>1, <1>2 DEF IsNode
<1>4. Grows(n, m)
  BY <1>2, GrowsSame DEF IsNode
<1>5. Mirrors(m)
  BY <1>1, <1>2 DEF Mirrors, IsNode, IsDisk
<1>6. /\ IdsOf(m) \subseteq IdsOf(n)
      /\ CertsOf(m) \subseteq CertsOf(n)
  BY <1>1, <1>2 DEF IdsOf, CertsOf
<1> QED
  BY <1>1, <1>2, <1>3, <1>4, <1>5, <1>6 DEF Kept, m, rep

\* The state transfer adds to what a replica knows and takes nothing away.
LEMMA CatchUpAdds ==
  ASSUME NEW r \in Replicas, NEW own, IsRep(r, own),
         NEW p \in Replicas, NEW donor, IsRep(p, donor)
  PROVE  LET q == CatchUp(own, donor)
         IN  /\ IsRep(r, q)
             /\ q.vote_pool = own.vote_pool
             /\ q.current_view = own.current_view
             /\ DOMAIN own.block_tree \subseteq DOMAIN q.block_tree
             /\ IsPrefix(own.committed_log, q.committed_log)
             /\ q.high_qc = own.high_qc \/ q.high_qc = donor.high_qc
             /\ IdsIn(q.block_tree) \subseteq
                  IdsIn(own.block_tree) \cup IdsIn(donor.block_tree)
<1> DEFINE t == own.block_tree
           u == donor.block_tree
           missing == DOMAIN u \ DOMAIN t
           v == [h \in DOMAIN t \cup missing |->
                   IF h \in missing THEN u[h] ELSE t[h]]
           log == IF IsStrictPrefix(own.committed_log, donor.committed_log)
                  THEN donor.committed_log ELSE own.committed_log
           qc == IF donor.high_qc # None /\ NewerQC(donor.high_qc, own.high_qc)
                 THEN donor.high_qc ELSE own.high_qc
           q == [own EXCEPT !.block_tree = v, !.committed_log = log,
                            !.high_qc = qc]
<1>1. CatchUp(own, donor) = q
  BY DEF CatchUp
<1>2. IsTree(t) /\ IsTree(u)
  BY DEF IsRep
<1> HIDE DEF t, u
<1>3. /\ DOMAIN v = DOMAIN t \cup DOMAIN u
      /\ \A h \in DOMAIN t : v[h] = t[h]
      /\ \A h \in DOMAIN u \ DOMAIN t : v[h] = u[h]
  OBVIOUS
<1>4. IsFiniteSet(DOMAIN t \cup DOMAIN u)
  BY <1>2, FS_Union DEF IsTree
<1> HIDE DEF v
<1>5. IsTree(v)
  BY <1>2, <1>3, <1>4 DEF IsTree
<1>6. IdsIn(v) \subseteq IdsIn(t) \cup IdsIn(u)
  <2>1. ASSUME NEW h \in DOMAIN v \ {0}
        PROVE  Ident(v[h]) \in IdsIn(t) \cup IdsIn(u)
    BY <1>3 DEF IdsIn
  <2> QED
    BY <2>1 DEF IdsIn
<1>7. log \in Seq(Nat) /\ IsPrefix(own.committed_log, log)
  <2>1. /\ own.committed_log \in Seq(Nat)
        /\ donor.committed_log \in Seq(Nat)
    BY DEF IsRep
  <2>2. IsPrefix(own.committed_log, own.committed_log)
    BY <2>1, PrefixRefl
  <2> QED
    BY <2>1, <2>2 DEF IsStrictPrefix
<1>8. /\ qc \in QC \cup {None}
      /\ qc = own.high_qc \/ qc = donor.high_qc
  BY DEF IsRep
<1> HIDE DEF log, qc
<1>9. /\ DOMAIN q = Fields
      /\ q.block_tree = v
      /\ q.committed_log = log
      /\ q.high_qc = qc
      /\ \A f \in Fields \ {"block_tree", "committed_log", "high_qc"} :
           q[f] = own[f]
  BY DEF IsRep, Fields
<1> HIDE DEF q
<1>10. IsRep(r, q)
  BY <1>5, <1>7, <1>8, <1>9 DEF IsRep, Fields
<1>11. q.vote_pool = own.vote_pool /\ q.current_view = own.current_view
  BY <1>9 DEF Fields
<1> QED
  BY <1>1, <1>3, <1>6, <1>7, <1>8, <1>9, <1>10, <1>11 DEF t, u

\* A replica with the memory q saves everything.
LEMMA SaveKeeps ==
  ASSUME NEW r \in Replicas, NEW n, IsNode(r, n),
         NEW q, IsRep(r, q), q.vote_pool = {},
         IsPrefix(n.disk.committed_log, q.committed_log),
         n.disk.current_view <= q.current_view,
         DOMAIN n.disk.block_tree \subseteq DOMAIN q.block_tree
  PROVE  LET m == SnapshotAt([n EXCEPT !.rep = q])
         IN  /\ Kept(r, n, m, IdsIn(q.block_tree),
                     {c.block : c \in {q.high_qc} \ {None}})
             /\ Mirrors(m)
             /\ MirrorsBlocks(r, m)
<1> DEFINE d == Capture(q)
           m == [[n EXCEPT !.rep = q] EXCEPT !.disk = d]
<1>1. SnapshotAt([n EXCEPT !.rep = q]) = m
  <2>1. DOMAIN n = {"rep", "disk"}
    BY DEF IsNode
  <2> QED
    BY <2>1 DEF SnapshotAt
<1>2. /\ IsDisk(d)
      /\ d.in_order = TRUE
      /\ d.current_view = q.current_view
      /\ d.committed_log = q.committed_log
      /\ d.high_qc = Stub(q.high_qc)
      /\ DOMAIN d.block_tree = DOMAIN q.block_tree
      /\ \A h \in DOMAIN q.block_tree :
           d.block_tree[h] = Stored(q.block_tree[h])
      /\ IdsIn(d.block_tree) = IdsIn(q.block_tree)
  BY CaptureType
<1> HIDE DEF d
<1>3. /\ DOMAIN m = {"rep", "disk"}
      /\ m.rep = q
      /\ m.disk = d
  BY DEF IsNode
<1> HIDE DEF m
<1>4. IsNode(r, m)
  BY <1>2, <1>3 DEF IsNode
<1>5. Mirrors(m) /\ MirrorsBlocks(r, m)
  BY <1>2, <1>3 DEF Mirrors, MirrorsBlocks
<1>6. Grows(n, m)
  BY <1>2, <1>3 DEF Grows
<1>7. IdsOf(m) = IdsIn(q.block_tree)
  BY <1>2, <1>3 DEF IdsOf
<1>8. CertsOf(m) \subseteq {c.block : c \in {q.high_qc} \ {None}}
  <2>1. q.high_qc \in QC \cup {None}
    BY DEF IsRep
  <2>2. /\ q.high_qc # None => Stub(q.high_qc).block = q.high_qc.block
        /\ q.high_qc = None => Stub(q.high_qc) = None
    BY <2>1, StubType DEF Stub
  <2> QED
    BY <1>2, <1>3, <2>2 DEF CertsOf
<1> QED
  BY <1>1, <1>2, <1>3, <1>4, <1>5, <1>6, <1>7, <1>8 DEF Kept

(***************************************************************************)
(* The cluster.                                                            *)
(***************************************************************************)
\* The blocks, and the certificates, that some replica or disk holds.
AllIds == UNION {IdsOf(nodes[r]) : r \in Replicas}

AllCerts == UNION {CertsOf(nodes[r]) : r \in Replicas}

\* The replicas with a block on their disk.
Holders(k) == {r \in Replicas : k \in DOMAIN nodes[r].disk.block_tree}

FieldsInv ==
  /\ crashed \subseteq Replicas
  /\ unresponsive \subseteq Replicas \ crashed
  /\ quiet \in [Replicas -> 0 .. CrashAfter - 1]
  /\ \A r \in crashed : quiet[r] = 0
  /\ step \in 0 .. MaxSteps
  /\ restarts \in 0 .. MaxRestarts
  /\ nextHash \in Nat \ {0}

NodesInv ==
  /\ DOMAIN nodes = Replicas
  /\ \A r \in Replicas : /\ IsNode(r, nodes[r])
                         /\ nodes[r].rep.vote_pool = {}
                         /\ nodes[r].disk.in_order
  /\ \A r \in Live : Mirrors(nodes[r])

\* A block was proposed by the leader of its view, whose disk remembers that
\* the view is over: so there is one block in a view, crashes or not.
IdsInv ==
  /\ \A i \in AllIds : /\ i.proposer \in Replicas
                       /\ i.proposer = LeaderForView(Replicas, i.view)
                       /\ i.view < nodes[i.proposer].disk.current_view
  /\ \A i, j \in AllIds : i.view = j.view => i.hash = j.hash

CertsInv ==
  \A k \in AllCerts : QuorumSize(Replicas) <= Cardinality(Holders(k))

\* Until the process restarts a hash is used once, so a disk cannot hold
\* another block by the hash of one in memory.
FirstRunInv ==
  restarts = 0 => /\ \A i \in AllIds : i.hash < nextHash
                  /\ \A r \in Live : MirrorsBlocks(r, nodes[r])

Inv == FieldsInv /\ NodesInv /\ IdsInv /\ CertsInv /\ FirstRunInv

\* What a step makes of the cluster, when it brings these blocks and
\* certificates about.
KeepsNodes(ids, certs) ==
  /\ DOMAIN nodes' = Replicas
  /\ \A r \in Replicas :
       Kept(r, nodes[r], nodes'[r], AllIds \cup ids, AllCerts \cup certs)
  /\ \A r \in Live' : Mirrors(nodes'[r])

LEMMA NodesKept ==
  ASSUME NEW ids, NEW certs, KeepsNodes(ids, certs)
  PROVE  /\ NodesInv'
         /\ AllIds' \subseteq AllIds \cup ids
         /\ AllCerts' \subseteq AllCerts \cup certs
         /\ \A r \in Replicas : Grows(nodes[r], nodes'[r])
         /\ \A k : Holders(k) \subseteq Holders(k)'
<1>1. /\ DOMAIN nodes' = Replicas
      /\ \A r \in Replicas :
           /\ IsNode(r, nodes'[r])
           /\ nodes'[r].rep.vote_pool = {}
           /\ nodes'[r].disk.in_order
           /\ Grows(nodes[r], nodes'[r])
           /\ IdsOf(nodes'[r]) \subseteq AllIds \cup ids
           /\ CertsOf(nodes'[r]) \subseteq AllCerts \cup certs
      /\ \A r \in Live' : Mirrors(nodes'[r])
  BY DEF KeepsNodes, Kept
<1>2. NodesInv'
  BY <1>1 DEF NodesInv
<1>3. AllIds' \subseteq AllIds \cup ids
  <2>1. AllIds' = UNION {IdsOf(nodes'[r]) : r \in Replicas}
    BY DEF AllIds
  <2> QED
    BY <1>1, <2>1
<1>4. AllCerts' \subseteq AllCerts \cup certs
  <2>1. AllCerts' = UNION {CertsOf(nodes'[r]) : r \in Replicas}
    BY DEF AllCerts
  <2> QED
    BY <1>1, <2>1
<1>5. ASSUME NEW k
      PROVE  Holders(k) \subseteq Holders(k)'
  BY <1>1 DEF Holders, Grows
<1> QED
  BY <1>1, <1>2, <1>3, <1>4, <1>5

\* More replicas hold a block than before.
LEMMA HoldersGrow ==
  ASSUME NEW k, Holders(k) \subseteq Holders(k)'
  PROVE  /\ Cardinality(Holders(k)) \in Nat
         /\ Cardinality(Holders(k)') \in Nat
         /\ Cardinality(Holders(k)) <= Cardinality(Holders(k)')
<1> DEFINE S == Holders(k)
           T == Holders(k)'
<1>1. S \in SUBSET T /\ T \in SUBSET Replicas
  BY DEF Holders
<1> HIDE DEF S, T
<1>2. IsFiniteSet(T)
  BY <1>1, ReplicasFinite, FS_Subset
<1>3. IsFiniteSet(S) /\ Cardinality(S) <= Cardinality(T)
  BY <1>1, <1>2, FS_Subset
<1>4. Cardinality(S) \in Nat /\ Cardinality(T) \in Nat
  BY <1>2, <1>3, FS_CardinalityType
<1> QED
  BY <1>3, <1>4 DEF S, T

\* A certified block stays where it is, so only a new certificate counts.
LEMMA CertsKept ==
  ASSUME NEW ids, NEW certs, KeepsNodes(ids, certs), CertsInv,
         \A k \in certs : QuorumSize(Replicas) <= Cardinality(Holders(k)')
  PROVE  CertsInv'
<1>1. ASSUME NEW k \in AllCerts'
      PROVE  QuorumSize(Replicas) <= Cardinality(Holders(k)')
  <2>1. k \in AllCerts \/ k \in certs
    BY NodesKept
  <2>2. CASE k \in certs
    BY <2>2
  <2>3. CASE k \in AllCerts
    <3>1. QuorumSize(Replicas) <= Cardinality(Holders(k))
      BY <2>3 DEF CertsInv
    <3>2. Holders(k) \subseteq Holders(k)'
      BY NodesKept
    <3>3. /\ Cardinality(Holders(k)) \in Nat
          /\ Cardinality(Holders(k)') \in Nat
          /\ Cardinality(Holders(k)) <= Cardinality(Holders(k)')
      BY <3>2, HoldersGrow
    <3>4. QuorumSize(Replicas) \in Nat
      BY QuorumIsNumber
    <3> QED
      BY <3>1, <3>3, <3>4
  <2> QED
    BY <2>1, <2>2, <2>3
<1> QED
  BY <1>1 DEF CertsInv

\* The views of the blocks are numbers.
LEMMA ViewsAreNumbers ==
  ASSUME NodesInv
  PROVE  /\ \A i \in AllIds : i.view \in Nat /\ i.hash \in Nat
         /\ \A r \in Replicas : nodes[r].disk.current_view \in Nat
<1>1. ASSUME NEW r \in Replicas, NEW i \in IdsOf(nodes[r])
      PROVE  i.view \in Nat /\ i.hash \in Nat
  <2>1. /\ IsTree(nodes[r].rep.block_tree)
        /\ IsTree(nodes[r].disk.block_tree)
    BY DEF NodesInv, IsNode, IsRep, IsDisk
  <2>2. ASSUME NEW t, IsTree(t), i \in IdsIn(t)
        PROVE  i.view \in Nat /\ i.hash \in Nat
    <3>1. PICK h \in DOMAIN t \ {0} : i = Ident(t[h])
      BY <2>2 DEF IdsIn
    <3>2. t[h] \in Block
      BY <2>2 DEF IsTree
    <3> QED
      BY <3>1, <3>2 DEF Ident, Block
  <2> QED
    BY <2>1, <2>2 DEF IdsOf
<1>2. ASSUME NEW r \in Replicas
      PROVE  nodes[r].disk.current_view \in Nat
  BY DEF NodesInv, IsNode, IsDisk
<1> QED
  BY <1>1, <1>2 DEF AllIds

\* The new block of a round, if any, is the first of its view: its proposer
\* leads that view and had not left it.
LEMMA IdsKept ==
  ASSUME NEW ids, NEW certs, KeepsNodes(ids, certs), NodesInv, IdsInv,
         NEW l \in Replicas, NEW i,
         ids \subseteq {i},
         ids # {} => /\ i.proposer = l
                     /\ i.view = nodes[l].disk.current_view
                     /\ l = LeaderForView(Replicas, i.view)
                     /\ i.view < nodes'[l].disk.current_view
  PROVE  IdsInv'
<1>1. /\ NodesInv'
      /\ AllIds' \subseteq AllIds \cup ids
      /\ \A r \in Replicas : Grows(nodes[r], nodes'[r])
  BY NodesKept
<1>2. \A r \in Replicas : /\ nodes[r].disk.current_view \in Nat
                          /\ nodes'[r].disk.current_view \in Nat
                          /\ nodes[r].disk.current_view
                               <= nodes'[r].disk.current_view
  BY <1>1 DEF NodesInv, IsNode, IsDisk, Grows
<1>3. \A j \in AllIds : j.view \in Nat
  BY ViewsAreNumbers
<1>4. ASSUME NEW j \in AllIds
      PROVE  /\ j.proposer \in Replicas
             /\ j.proposer = LeaderForView(Replicas, j.view)
             /\ j.view < nodes'[j.proposer].disk.current_view
  <2>1. /\ j.proposer \in Replicas
        /\ j.proposer = LeaderForView(Replicas, j.view)
        /\ j.view < nodes[j.proposer].disk.current_view
    BY DEF IdsInv
  <2> QED
    BY <1>2, <1>3, <2>1
<1>5. ASSUME i \in ids, NEW j \in AllIds
      PROVE  j.view # i.view
  <2>1. SUFFICES ASSUME j.view = i.view
                 PROVE  FALSE
    OBVIOUS
  <2>2. j.proposer = l /\ j.view = nodes[l].disk.current_view
    BY <1>4, <1>5, <2>1
  <2>3. j.view < nodes[j.proposer].disk.current_view
    BY DEF IdsInv
  <2> QED
    BY <1>2, <2>2, <2>3
<1>6. ASSUME NEW j \in AllIds'
      PROVE  /\ j.proposer \in Replicas
             /\ j.proposer = LeaderForView(Replicas, j.view)
             /\ j.view < nodes'[j.proposer].disk.current_view
  <2>1. CASE j \in AllIds
    BY <1>4, <2>1
  <2>2. CASE j \in ids
    BY <2>2
  <2> QED
    BY <1>1, <2>1, <2>2
<1>7. ASSUME NEW j \in AllIds', NEW k \in AllIds', j.view = k.view
      PROVE  j.hash = k.hash
  <2>1. /\ j \in AllIds \/ (j = i /\ i \in ids)
        /\ k \in AllIds \/ (k = i /\ i \in ids)
    BY <1>1
  <2>2. CASE j \in AllIds /\ k \in AllIds
    BY <1>7, <2>2 DEF IdsInv
  <2> QED
    BY <1>5, <1>7, <2>1, <2>2
<1> QED
  BY <1>6, <1>7 DEF IdsInv

(***************************************************************************)
(* The steps.                                                              *)
(***************************************************************************)
\* A node is what it was before.
LEMMA NodesStay ==
  ASSUME NodesInv, NEW r \in Replicas
  PROVE  Kept(r, nodes[r], nodes[r], AllIds, AllCerts)
<1>1. Kept(r, nodes[r], nodes[r], IdsOf(nodes[r]), CertsOf(nodes[r]))
  BY KeptItself DEF NodesInv
<1>2. IdsOf(nodes[r]) \subseteq AllIds /\ CertsOf(nodes[r]) \subseteq AllCerts
  BY DEF AllIds, AllCerts
<1> QED
  BY <1>1, <1>2, KeptMore

\* crash_replica
LEMMA CrashKeeps ==
  ASSUME NodesInv, NEW r \in Replicas
  PROVE  Kept(r, nodes[r], CrashAt(r, nodes[r]), AllIds, AllCerts)
<1> DEFINE n == nodes[r]
<1>1. IsNode(r, n) /\ n.disk.in_order
  BY DEF NodesInv
<1>2. IdsOf(n) \subseteq AllIds /\ CertsOf(n) \subseteq AllCerts
  BY DEF AllIds, AllCerts
<1> HIDE DEF n
<1>3. Kept(r, n, CrashAt(r, n), IdsOf(n), CertsOf(n))
  BY <1>1, CrashAtKeeps
<1>4. Kept(r, n, CrashAt(r, n), AllIds, AllCerts)
  <2> DEFINE m == CrashAt(r, n)
  <2> HIDE DEF m
  <2>1. Kept(r, n, m, IdsOf(n), CertsOf(n))
    BY <1>3 DEF m
  <2>2. Kept(r, n, m, AllIds, AllCerts)
    BY <1>2, <2>1, KeptMore
  <2> QED
    BY <2>2 DEF m
<1> QED
  BY <1>4 DEF n

\* Whoever is up has not crashed before or now.
LEMMA UpIsLive ==
  ASSUME NEW r \in Replicas
  PROVE  /\ r \in Up => r \in Live /\ NodesNow[r] = nodes[r]
         /\ r \notin CrashedNow => r \in Live /\ NodesNow[r] = nodes[r]
  BY DEF Up, Live, CrashedNow, NodesNow

\* A round begins with crashes of the silent, which lose no disk.
LEMMA NodesNowKept ==
  ASSUME NodesInv, NEW r \in Replicas
  PROVE  Kept(r, nodes[r], NodesNow[r], AllIds, AllCerts)
<1>1. CASE r \in TimedOut
  <2>1. NodesNow[r] = CrashAt(r, nodes[r])
    BY <1>1 DEF NodesNow
  <2> QED
    BY <2>1, CrashKeeps
<1>2. CASE r \notin TimedOut
  <2>1. NodesNow[r] = nodes[r]
    BY <1>2 DEF NodesNow
  <2> QED
    BY <2>1, NodesStay
<1> QED
  BY <1>1, <1>2

\* A replica that follows, with an empty pool, is in order again.
LEMMA FollowsKeeps ==
  ASSUME NEW r \in Replicas, NEW n, NEW m, NEW ids, NEW certs,
         Follows(r, n, m, ids, certs), m.rep.vote_pool = {},
         n = nodes[r]
  PROVE  /\ Kept(r, n, m, AllIds \cup ids, AllCerts \cup certs)
         /\ Mirrors(m)
<1>1. IdsOf(n) \subseteq AllIds /\ CertsOf(n) \subseteq AllCerts
  BY DEF AllIds, AllCerts
<1> QED
  BY <1>1 DEF Follows, Kept, Mirrors

\* The end of a round at a replica that is up.
LEMMA RoundEnds ==
  ASSUME NEW r \in Replicas, NEW n, IsNode(r, n), NEW l, NEW ids, NEW certs,
         Follows(r, n, l, ids, certs)
  PROVE  LET m == AdvanceAt(CommitAllAt(l))
         IN  /\ Follows(r, n, m, ids, certs)
             /\ m.rep.vote_pool = {}
             /\ n.disk.current_view < m.disk.current_view
             /\ DOMAIN l.disk.block_tree \subseteq DOMAIN m.disk.block_tree
             /\ MirrorsBlocks(r, l) => MirrorsBlocks(r, m)
<1> DEFINE c == CommitAllAt(l)
           m == AdvanceAt(c)
<1>1. IsNode(r, l) /\ Mirrors(l) /\ Grows(n, l)
  BY DEF Follows
<1>2. /\ Follows(r, l, c, {}, {})
      /\ MirrorsBlocks(r, l) => MirrorsBlocks(r, c)
  BY <1>1, CommitAllAtFollows
<1> HIDE DEF c
<1>3. IsNode(r, c) /\ Mirrors(c) /\ Grows(l, c)
  BY <1>2 DEF Follows
<1>4. /\ Follows(r, c, m, {}, {})
      /\ MirrorsBlocks(r, c) => MirrorsBlocks(r, m)
      /\ m.rep.vote_pool = {}
      /\ m.disk.current_view = c.disk.current_view + 1
  BY <1>3, AdvanceAtFollows
<1> HIDE DEF m
<1>5. Follows(r, n, c, ids \cup {}, certs \cup {})
  BY <1>2, FollowsTrans
<1>6. Follows(r, n, m, (ids \cup {}) \cup {}, (certs \cup {}) \cup {})
  BY <1>4, <1>5, FollowsTrans
<1>7. n.disk.current_view < m.disk.current_view
  <2>1. /\ n.disk.current_view \in Nat
        /\ l.disk.current_view \in Nat
        /\ c.disk.current_view \in Nat
    BY <1>1, <1>3 DEF IsNode, IsDisk
  <2> QED
    BY <1>1, <1>3, <1>4, <2>1 DEF Grows
<1>8. DOMAIN l.disk.block_tree \subseteq DOMAIN m.disk.block_tree
  BY <1>3, <1>4 DEF Follows, Grows
<1>9. Follows(r, n, m, ids, certs)
  BY <1>6
<1> QED
  BY <1>2, <1>4, <1>7, <1>8, <1>9 DEF m, c

\* A round without a proposal: those that are up change their view.
LEMMA TimeoutKeeps ==
  ASSUME NodesInv, nodes' = ViewTimeoutOf(NodesNow), crashed' = CrashedNow
  PROVE  /\ KeepsNodes({}, {})
         /\ (\A r \in Live : MirrorsBlocks(r, nodes[r]))
              => \A r \in Live' : MirrorsBlocks(r, nodes'[r])
<1>1. DOMAIN nodes' = Replicas
  BY DEF ViewTimeoutOf
<1>2. Live' = Replicas \ CrashedNow
  BY DEF Live
<1>3. ASSUME NEW r \in Replicas
      PROVE  /\ Kept(r, nodes[r], nodes'[r], AllIds, AllCerts)
             /\ r \in Live' => /\ r \in Live
                               /\ Mirrors(nodes'[r])
                               /\ MirrorsBlocks(r, nodes[r])
                                    => MirrorsBlocks(r, nodes'[r])
  <2>1. CASE r \in Up
    <3> DEFINE n == nodes[r]
               m == AdvanceAt(n)
    <3>1. nodes'[r] = m /\ r \in Live
      BY <2>1, UpIsLive DEF ViewTimeoutOf
    <3>2. IsNode(r, n) /\ Mirrors(n)
      BY <3>1 DEF NodesInv
    <3> HIDE DEF n
    <3>3. /\ Follows(r, n, m, {}, {})
          /\ MirrorsBlocks(r, n) => MirrorsBlocks(r, m)
          /\ m.rep.vote_pool = {}
      BY <3>2, AdvanceAtFollows
    <3> HIDE DEF m
    <3>4. Kept(r, n, m, AllIds \cup {}, AllCerts \cup {}) /\ Mirrors(m)
      BY <3>3, FollowsKeeps DEF n
    <3> QED
      BY <3>1, <3>3, <3>4 DEF n
  <2>2. CASE r \notin Up
    <3>1. nodes'[r] = NodesNow[r]
      BY <2>2 DEF ViewTimeoutOf
    <3>2. Kept(r, nodes[r], nodes'[r], AllIds, AllCerts)
      BY <3>1, NodesNowKept
    <3>3. r \in Live' => r \in Live /\ nodes'[r] = nodes[r]
      BY <1>2, <3>1, UpIsLive
    <3> QED
      BY <3>2, <3>3 DEF NodesInv
  <2> QED
    BY <2>1, <2>2
<1> QED
  BY <1>1, <1>2, <1>3 DEF KeepsNodes

\* A call that is refused: the silent for too long crash.
LEMMA RefusedKeeps ==
  ASSUME NodesInv, nodes' = NodesNow, crashed' = CrashedNow
  PROVE  /\ KeepsNodes({}, {})
         /\ (\A r \in Live : MirrorsBlocks(r, nodes[r]))
              => \A r \in Live' : MirrorsBlocks(r, nodes'[r])
<1>1. DOMAIN nodes' = Replicas
  BY DEF NodesNow
<1>2. Live' = Replicas \ CrashedNow
  BY DEF Live
<1>3. ASSUME NEW r \in Replicas
      PROVE  /\ Kept(r, nodes[r], nodes'[r], AllIds, AllCerts)
             /\ r \in Live' => r \in Live /\ nodes'[r] = nodes[r]
  BY <1>2, NodesNowKept, UpIsLive
<1>4. \A r \in Live' : Mirrors(nodes'[r])
  BY <1>2, <1>3 DEF NodesInv
<1>5. (\A r \in Live : MirrorsBlocks(r, nodes[r]))
        => \A r \in Live' : MirrorsBlocks(r, nodes'[r])
  BY <1>2, <1>3
<1> QED
  BY <1>1, <1>2, <1>3, <1>4, <1>5 DEF KeepsNodes

\* The votes for a block: as many signatures as voters at most.
LEMMA VotesOf ==
  ASSUME NEW b \in Block, NEW voters \in SUBSET Replicas
  PROVE  LET V == {Sign(SignerOf[r], b) : r \in voters}
         IN  /\ IsFiniteSet(V)
             /\ V \subseteq Signature
             /\ \A v \in V : v.block = b.hash
             /\ IsFiniteSet(voters)
             /\ Cardinality(V) <= Cardinality(voters)
<1> DEFINE V == {Sign(SignerOf[r], b) : r \in voters}
           f == [r \in voters |-> Sign(SignerOf[r], b)]
<1>1. IsFiniteSet(voters)
  BY ReplicasFinite, FS_Subset
<1>2. f \in Surjection(voters, V)
  BY DEF Surjection
<1>3. ASSUME NEW r \in voters
      PROVE  /\ Sign(SignerOf[r], b) \in Signature
             /\ Sign(SignerOf[r], b).block = b.hash
  <2>1. SignerOf[r] \in Nat
    BY SimulationAssumption, ReplicasFinite DEF DistributesKeys
  <2> QED
    BY <2>1 DEF Sign, Signature, Block
<1>4. V \subseteq Signature /\ \A v \in V : v.block = b.hash
  BY <1>3
<1> HIDE DEF V, f
<1>5. IsFiniteSet(V) /\ Cardinality(V) <= Cardinality(voters)
  BY <1>1, <1>2, FS_Surjection
<1> QED
  BY <1>1, <1>4, <1>5 DEF V

\* The leader proposes and counts the votes of the others.
LEMMA LeaderCounts ==
  ASSUME NEW l \in Replicas, NEW n, IsNode(l, n), Mirrors(n),
         n.rep.vote_pool = {}, NEW b \in Block,
         NEW V, IsFiniteSet(V), V \subseteq Signature,
         \A v \in V : v.block = b.hash
  PROVE  LET m == CountAt(ProposeAt(n, b), V)
         IN  /\ \E certs \in SUBSET {b.hash} :
                  /\ Follows(l, n, m, {Ident(b)}, certs)
                  /\ m.rep.high_qc # n.rep.high_qc
                       => m.rep.high_qc \in QC /\ m.rep.high_qc.block \in certs
                  /\ certs # {} => QuorumSize(Replicas) <= Cardinality(V)
             /\ (/\ MirrorsBlocks(l, n)
                 /\ b.proposer = l
                 /\ b.hash \notin DOMAIN n.disk.block_tree)
                => MirrorsBlocks(l, m)
<1> DEFINE p == ProposeAt(n, b)
           m == CountAt(p, V)
           block == b.hash
<1>1. /\ Follows(l, n, p, {Ident(b)}, {})
      /\ p.rep.vote_pool = {}
      /\ p.rep.high_qc = n.rep.high_qc
      /\ (/\ MirrorsBlocks(l, n)
          /\ b.proposer = l
          /\ b.hash \notin DOMAIN n.disk.block_tree)
         => MirrorsBlocks(l, p)
  BY ProposeAtFollows
<1>2. \A v \in V : v.block = block
  OBVIOUS
<1> HIDE DEF p, block
<1>3. IsNode(l, p) /\ Mirrors(p)
  BY <1>1 DEF Follows
<1>4. /\ \/ /\ Follows(l, p, m, {}, {})
            /\ m.rep.high_qc = p.rep.high_qc
         \/ /\ Follows(l, p, m, {}, {block})
            /\ m.rep.high_qc \in QC
            /\ m.rep.high_qc.block = block
            /\ QuorumSize(Replicas) <= Cardinality(V)
      /\ MirrorsBlocks(l, p) => MirrorsBlocks(l, m)
  BY <1>1, <1>2, <1>3, CountAtFollows
<1> HIDE DEF m
<1>5. CASE /\ Follows(l, p, m, {}, {})
           /\ m.rep.high_qc = p.rep.high_qc
  <2>1. Follows(l, n, m, {Ident(b)} \cup {}, {} \cup {})
    BY <1>1, <1>5, FollowsTrans
  <2>2. Follows(l, n, m, {Ident(b)}, {})
    BY <2>1
  <2> QED
    BY <1>1, <1>4, <1>5, <2>2 DEF m, p
<1>6. CASE /\ Follows(l, p, m, {}, {block})
           /\ m.rep.high_qc \in QC
           /\ m.rep.high_qc.block = block
           /\ QuorumSize(Replicas) <= Cardinality(V)
  <2>1. Follows(l, n, m, {Ident(b)} \cup {}, {} \cup {block})
    BY <1>1, <1>6, FollowsTrans
  <2>2. Follows(l, n, m, {Ident(b)}, {block})
    BY <2>1
  <2>3. {block} \in SUBSET {b.hash}
    BY DEF block
  <2> QED
    BY <1>1, <1>4, <1>6, <2>2, <2>3 DEF m, p
<1> QED
  BY <1>4, <1>5, <1>6

\* A replica votes or does not, and then may hear of a new certificate.
LEMMA FollowerHears ==
  ASSUME NEW r \in Replicas, NEW n, IsNode(r, n), Mirrors(n), NEW b \in Block,
         NEW certs, NEW qc, NEW heard \in BOOLEAN, NEW voted \in BOOLEAN,
         voted => AcceptsProposal(n.rep, b),
         heard => qc \in QC /\ qc.block \in certs
  PROVE  LET v == IF voted THEN AcceptAt(n, b) ELSE n
             m == IF heard THEN LearnAt(v, qc) ELSE v
         IN  /\ Follows(r, n, m, {Ident(b)}, certs)
             /\ voted => b.hash \in DOMAIN m.disk.block_tree
             /\ MirrorsBlocks(r, n) => MirrorsBlocks(r, m)
<1> DEFINE v == IF voted THEN AcceptAt(n, b) ELSE n
           m == IF heard THEN LearnAt(v, qc) ELSE v
<1>1. /\ Follows(r, n, v, {Ident(b)}, {})
      /\ voted => b.hash \in DOMAIN v.disk.block_tree
      /\ MirrorsBlocks(r, n) => MirrorsBlocks(r, v)
  <2>1. CASE voted
    <3> DEFINE a == AcceptAt(n, b)
    <3>1. /\ Follows(r, n, a, {Ident(b)}, {})
          /\ b.hash \in DOMAIN a.disk.block_tree
          /\ MirrorsBlocks(r, n) => MirrorsBlocks(r, a)
      BY <2>1, AcceptAtFollows
    <3>2. v = a
      BY <2>1
    <3> HIDE DEF a, v
    <3> QED
      BY <3>1, <3>2
  <2>2. CASE ~voted
    <3>1. v = n
      BY <2>2
    <3>2. Follows(r, n, n, {}, {})
      BY FollowsItself
    <3>3. Follows(r, n, n, {Ident(b)}, {})
      BY <3>2 DEF Follows
    <3> HIDE DEF v
    <3> QED
      BY <2>2, <3>1, <3>3
  <2> QED
    BY <2>1, <2>2
<1> HIDE DEF v
<1>2. IsNode(r, v) /\ Mirrors(v)
  BY <1>1 DEF Follows
<1>3. CASE ~heard
  <2>1. m = v
    BY <1>3
  <2>2. Follows(r, n, v, {Ident(b)}, certs)
    BY <1>1 DEF Follows
  <2> HIDE DEF m
  <2>3. /\ Follows(r, n, m, {Ident(b)}, certs)
        /\ voted => b.hash \in DOMAIN m.disk.block_tree
        /\ MirrorsBlocks(r, n) => MirrorsBlocks(r, m)
    BY <1>1, <2>1, <2>2
  <2> QED
    BY <2>3 DEF m, v
<1>4. CASE heard
  <2> DEFINE a == LearnAt(v, qc)
  <2>1. qc \in QC /\ qc.block \in certs
    BY <1>4
  <2>2. /\ Follows(r, v, a, {}, {qc.block})
        /\ MirrorsBlocks(r, v) => MirrorsBlocks(r, a)
    BY <1>2, <2>1, LearnAtFollows
  <2>3. m = a
    BY <1>4
  <2> HIDE DEF a, m
  <2>4. Follows(r, n, a, {Ident(b)} \cup {}, {} \cup {qc.block})
    BY <1>1, <2>2, FollowsTrans
  <2>5. Follows(r, n, a, {Ident(b)}, certs)
    BY <2>1, <2>4 DEF Follows
  <2>6. DOMAIN v.disk.block_tree \subseteq DOMAIN a.disk.block_tree
    BY <2>2 DEF Follows, Grows
  <2>7. /\ Follows(r, n, m, {Ident(b)}, certs)
        /\ voted => b.hash \in DOMAIN m.disk.block_tree
        /\ MirrorsBlocks(r, n) => MirrorsBlocks(r, m)
    BY <1>1, <2>2, <2>3, <2>5, <2>6
  <2> QED
    BY <2>7 DEF m, v
<1> QED
  BY <1>3, <1>4

\* A round with a proposal.  Its block is new, and its certificate, if there
\* is one, was voted for by a quorum that logged the block.
LEMMA ProposalKeeps ==
  ASSUME NodesInv, NEW l \in Up, NEW hash \in Nat,
         nodes' = RoundOf(l, hash, NoOp), crashed' = CrashedNow
  PROVE  LET view == nodes[l].disk.current_view
             i == [hash |-> hash, view |-> view, proposer |-> l]
         IN  /\ nodes[l].rep.current_view = view
             /\ view < nodes'[l].disk.current_view
             /\ \E certs \in SUBSET {hash} :
                  /\ KeepsNodes({i}, certs)
                  /\ \A k \in certs :
                       QuorumSize(Replicas) <= Cardinality(Holders(k)')
             /\ (/\ \A r \in Live : MirrorsBlocks(r, nodes[r])
                 /\ hash \notin DOMAIN nodes[l].disk.block_tree)
                => \A r \in Live' : MirrorsBlocks(r, nodes'[r])
<1> DEFINE leader == nodes[l].rep
           b == NewBlock(leader, leader.current_view, hash, NoOp)
           voters == {r \in GetsProposal(l) : AcceptsProposal(nodes[r].rep, b)}
           votes == {Sign(SignerOf[r], b) : r \in voters}
           counted == CountAt(ProposeAt(nodes[l], b), votes)
           qc == counted.rep.high_qc
           formed == qc # leader.high_qc
           voted(r) == IF r \in voters THEN AcceptAt(nodes[r], b) ELSE nodes[r]
           told(r) == IF r = l THEN counted
                      ELSE IF formed /\ r \in GetsQC(l)
                           THEN LearnAt(voted(r), qc) ELSE voted(r)
           all == [r \in Replicas |-> told(r)]
           view == nodes[l].disk.current_view
           i == [hash |-> hash, view |-> view, proposer |-> l]
<1>1. nodes' = CommitAndAdvance(all)
  BY DEF RoundOf
<1>2. /\ l \in Replicas
      /\ \A r \in Up : r \in Replicas /\ r \in Live
      /\ Live' = Replicas \ CrashedNow
  BY UpIsLive DEF Up, Live
<1>3. \A r \in Live : /\ IsNode(r, nodes[r])
                      /\ Mirrors(nodes[r])
                      /\ nodes[r].rep.vote_pool = {}
                      /\ r \in Replicas
  BY DEF NodesInv, Live
<1>4. leader.current_view = view /\ view \in Nat
  BY <1>2, <1>3 DEF Mirrors, IsNode, IsDisk
<1>5. /\ b \in Block
      /\ b.hash = hash
      /\ b.proposer = l
      /\ Ident(b) = i
  <2>1. IsRep(l, leader) /\ leader.current_view \in Nat
    BY <1>2, <1>3, <1>4 DEF IsNode
  <2> HIDE DEF leader
  <2>2. /\ b \in Block
        /\ b.hash = hash
        /\ b.view = leader.current_view
        /\ b.proposer = l
    BY <1>2, <2>1, NewBlockType
  <2> QED
    BY <1>4, <2>2 DEF Ident
<1>6. /\ voters \in SUBSET Replicas
      /\ \A r \in voters : /\ r \in Up
                           /\ r # l
                           /\ AcceptsProposal(nodes[r].rep, b)
  BY DEF GetsProposal, Up
<1> HIDE DEF b, voters
<1>7. /\ IsFiniteSet(votes)
      /\ votes \subseteq Signature
      /\ \A v \in votes : v.block = b.hash
      /\ IsFiniteSet(voters)
      /\ Cardinality(votes) <= Cardinality(voters)
  BY <1>5, <1>6, VotesOf
<1> HIDE DEF votes
<1>8. /\ \E certs \in SUBSET {b.hash} :
           /\ Follows(l, nodes[l], counted, {Ident(b)}, certs)
           /\ formed => qc \in QC /\ qc.block \in certs
           /\ certs # {} => QuorumSize(Replicas) <= Cardinality(votes)
      /\ (/\ MirrorsBlocks(l, nodes[l])
          /\ b.proposer = l
          /\ b.hash \notin DOMAIN nodes[l].disk.block_tree)
         => MirrorsBlocks(l, counted)
  <2> DEFINE n == nodes[l]
  <2>1. IsNode(l, n) /\ Mirrors(n) /\ n.rep.vote_pool = {}
    BY <1>2, <1>3
  <2> HIDE DEF n
  <2>2. LET m == CountAt(ProposeAt(n, b), votes)
        IN  /\ \E certs \in SUBSET {b.hash} :
                 /\ Follows(l, n, m, {Ident(b)}, certs)
                 /\ m.rep.high_qc # n.rep.high_qc
                      => m.rep.high_qc \in QC /\ m.rep.high_qc.block \in certs
                 /\ certs # {} => QuorumSize(Replicas) <= Cardinality(votes)
            /\ (/\ MirrorsBlocks(l, n)
                /\ b.proposer = l
                /\ b.hash \notin DOMAIN n.disk.block_tree)
               => MirrorsBlocks(l, m)
    BY <1>2, <1>5, <1>7, <2>1, LeaderCounts
  <2> QED
    BY <2>2 DEF n
<1> HIDE DEF counted
<1>9. PICK certs \in SUBSET {hash} :
        /\ Follows(l, nodes[l], counted, {i}, certs)
        /\ formed => qc \in QC /\ qc.block \in certs
        /\ certs # {} => QuorumSize(Replicas) <= Cardinality(votes)
  BY <1>5, <1>8
<1> DEFINE Fresh == /\ \A r \in Live : MirrorsBlocks(r, nodes[r])
                    /\ hash \notin DOMAIN nodes[l].disk.block_tree
<1>10. ASSUME NEW r \in Up
       PROVE  /\ Follows(r, nodes[r], told(r), {i}, certs)
              /\ r \in voters => hash \in DOMAIN told(r).disk.block_tree
              /\ Fresh => MirrorsBlocks(r, told(r))
  <2>1. CASE r = l
    <3>1. told(r) = counted /\ r \notin voters
      BY <1>6, <2>1
    <3>2. Fresh => MirrorsBlocks(l, counted)
      BY <1>2, <1>5, <1>8
    <3> HIDE DEF told, Fresh
    <3> QED
      BY <1>9, <2>1, <3>1, <3>2
  <2>2. CASE r # l
    <3> DEFINE n == nodes[r]
               hears == formed /\ r \in GetsQC(l)
               votes_ == r \in voters
               v == IF votes_ THEN AcceptAt(n, b) ELSE n
               m == IF hears THEN LearnAt(v, qc) ELSE v
    <3>1. told(r) = m
      BY <2>2
    <3>2. /\ r \in Replicas
          /\ IsNode(r, n)
          /\ Mirrors(n)
          /\ hears \in BOOLEAN
          /\ votes_ \in BOOLEAN
          /\ votes_ => AcceptsProposal(n.rep, b)
          /\ hears => qc \in QC /\ qc.block \in certs
      BY <1>2, <1>3, <1>6, <1>9
    <3>3. Fresh => MirrorsBlocks(r, n)
      BY <1>2
    <3>4. votes_ <=> r \in voters
      OBVIOUS
    <3> HIDE DEF n, hears, votes_, qc, told, formed, Fresh
    <3>5. /\ Follows(r, n, m, {Ident(b)}, certs)
          /\ votes_ => b.hash \in DOMAIN m.disk.block_tree
          /\ MirrorsBlocks(r, n) => MirrorsBlocks(r, m)
      BY <1>5, <3>2, FollowerHears
    <3> HIDE DEF m
    <3> QED
      BY <1>5, <3>1, <3>3, <3>4, <3>5 DEF n
  <2> QED
    BY <2>1, <2>2
<1> HIDE DEF told, formed, qc, Fresh
<1>11. /\ DOMAIN nodes' = Replicas
       /\ \A r \in Up : nodes'[r] = AdvanceAt(CommitAllAt(told(r)))
       /\ \A r \in Replicas \ Up : nodes'[r] = NodesNow[r]
  BY <1>1, <1>2 DEF CommitAndAdvance
<1>12. ASSUME NEW r \in Up
       PROVE  /\ Kept(r, nodes[r], nodes'[r], AllIds \cup {i},
                      AllCerts \cup certs)
              /\ Mirrors(nodes'[r])
              /\ nodes[r].disk.current_view < nodes'[r].disk.current_view
              /\ r \in voters => hash \in DOMAIN nodes'[r].disk.block_tree
              /\ Fresh => MirrorsBlocks(r, nodes'[r])
  <2> DEFINE n == nodes[r]
             t == told(r)
             m == AdvanceAt(CommitAllAt(t))
  <2>1. nodes'[r] = m /\ r \in Replicas /\ IsNode(r, n)
    BY <1>2, <1>3, <1>11
  <2>2. /\ Follows(r, n, t, {i}, certs)
        /\ r \in voters => hash \in DOMAIN t.disk.block_tree
        /\ Fresh => MirrorsBlocks(r, t)
    BY <1>10
  <2> HIDE DEF n, t, i
  <2>3. /\ Follows(r, n, m, {i}, certs)
        /\ m.rep.vote_pool = {}
        /\ n.disk.current_view < m.disk.current_view
        /\ DOMAIN t.disk.block_tree \subseteq DOMAIN m.disk.block_tree
        /\ MirrorsBlocks(r, t) => MirrorsBlocks(r, m)
    BY <2>1, <2>2, RoundEnds
  <2> HIDE DEF m
  <2>4. /\ Kept(r, n, m, AllIds \cup {i}, AllCerts \cup certs)
        /\ Mirrors(m)
    BY <2>1, <2>3, FollowsKeeps DEF n
  <2> QED
    BY <2>1, <2>2, <2>3, <2>4 DEF n
<1>13. ASSUME NEW r \in Replicas \ Up
       PROVE  /\ Kept(r, nodes[r], nodes'[r], AllIds \cup {i},
                      AllCerts \cup certs)
              /\ r \in Live' => /\ Mirrors(nodes'[r])
                                /\ Fresh => MirrorsBlocks(r, nodes'[r])
  <2>1. nodes'[r] = NodesNow[r]
    BY <1>11
  <2>2. Kept(r, nodes[r], nodes'[r], AllIds, AllCerts)
    BY <2>1, NodesNowKept
  <2>3. r \in Live' => r \in Live /\ nodes'[r] = nodes[r]
    BY <1>2, <2>1, UpIsLive
  <2>4. Kept(r, nodes[r], nodes'[r], AllIds \cup {i}, AllCerts \cup certs)
    BY <2>2, KeptMore
  <2> QED
    BY <1>3, <2>3, <2>4 DEF Fresh
<1> HIDE DEF i
<1>14. KeepsNodes({i}, certs)
  BY <1>2, <1>11, <1>12, <1>13 DEF KeepsNodes
<1>15. ASSUME NEW k \in certs
       PROVE  QuorumSize(Replicas) <= Cardinality(Holders(k)')
  <2> DEFINE T == Holders(k)'
  <2>1. k = hash
    OBVIOUS
  <2>2. voters \in SUBSET T /\ T \in SUBSET Replicas
    BY <1>6, <1>12, <2>1 DEF Holders
  <2> HIDE DEF T
  <2>3. IsFiniteSet(T)
    BY <2>2, ReplicasFinite, FS_Subset
  <2>4. Cardinality(voters) <= Cardinality(T)
    BY <2>2, <2>3, FS_Subset
  <2>5. /\ Cardinality(votes) \in Nat
        /\ Cardinality(voters) \in Nat
        /\ Cardinality(T) \in Nat
    BY <1>7, <2>3, FS_CardinalityType
  <2>6. QuorumSize(Replicas) <= Cardinality(votes)
    BY <1>9
  <2>7. QuorumSize(Replicas) <= Cardinality(T)
    BY <1>7, <2>4, <2>5, <2>6, QuorumIsNumber
  <2> QED
    BY <2>7 DEF T
<1>16. Fresh => \A r \in Live' : MirrorsBlocks(r, nodes'[r])
  BY <1>2, <1>12, <1>13
<1> QED
  BY <1>4, <1>12, <1>14, <1>15, <1>16 DEF i, Fresh

\* crash_replica, called by the user of the simulation.
LEMMA CrashReplicaKeeps ==
  ASSUME NodesInv, NEW r \in Replicas, CrashReplica(r)
  PROVE  /\ KeepsNodes({}, {})
         /\ (\A s \in Live : MirrorsBlocks(s, nodes[s]))
              => \A s \in Live' : MirrorsBlocks(s, nodes'[s])
<1>1. /\ nodes' = [nodes EXCEPT ![r] = CrashAt(r, nodes[r])]
      /\ crashed' = crashed \cup {r}
  BY DEF CrashReplica
<1>2. /\ DOMAIN nodes' = Replicas
      /\ nodes'[r] = CrashAt(r, nodes[r])
      /\ \A s \in Replicas \ {r} : nodes'[s] = nodes[s]
      /\ Live' = Live \ {r}
      /\ Live \subseteq Replicas
  BY <1>1 DEF NodesInv, Live
<1>3. ASSUME NEW s \in Replicas
      PROVE  Kept(s, nodes[s], nodes'[s], AllIds, AllCerts)
  <2>1. CASE s = r
    BY <1>2, <2>1, CrashKeeps
  <2>2. CASE s # r
    BY <1>2, <2>2, NodesStay
  <2> QED
    BY <2>1, <2>2
<1>4. \A s \in Live' : s \in Live /\ nodes'[s] = nodes[s]
  BY <1>2
<1>5. \A s \in Live' : Mirrors(nodes'[s])
  BY <1>4 DEF NodesInv
<1> QED
  BY <1>2, <1>3, <1>4, <1>5 DEF KeepsNodes

\* recover_replica: what the replica has afterwards, it had on its disk or it
\* has from a donor; and all of it is saved.
LEMMA RecoverReplicaKeeps ==
  ASSUME NodesInv, NEW r \in Replicas, RecoverReplica(r)
  PROVE  /\ KeepsNodes({}, {})
         /\ (\A s \in Live : MirrorsBlocks(s, nodes[s]))
              => \A s \in Live' : MirrorsBlocks(s, nodes'[s])
<1> DEFINE n == nodes[r]
           peers == Replicas \ (crashed \cup {r})
           own == Recovered(r, n.disk, n.rep.config_n)
           rep == IF peers = {} THEN own
                  ELSE CatchUp(own, nodes[Min(peers)].rep)
           views == {nodes[p].rep.current_view : p \in peers}
           v == Max(views \cup {rep.current_view})
           q == [rep EXCEPT !.current_view = v]
           m == SnapshotAt([n EXCEPT !.rep = q])
<1>1. /\ nodes' = [nodes EXCEPT ![r] = m]
      /\ crashed' = crashed \ {r}
  BY DEF RecoverReplica
<1>2. /\ IsNode(r, n)
      /\ IsDisk(n.disk)
      /\ n.rep.config_n = N
      /\ n.disk.in_order
  BY DEF NodesInv, IsNode, IsRep
<1>3. /\ IsRep(r, own)
      /\ own.current_view = n.disk.current_view
      /\ own.block_tree = n.disk.block_tree
      /\ own.high_qc = n.disk.high_qc
      /\ own.committed_log = n.disk.committed_log
      /\ own.vote_pool = {}
  BY <1>2, RecoveredType
<1>4. /\ IdsIn(n.disk.block_tree) \subseteq AllIds
      /\ n.disk.high_qc # None => n.disk.high_qc.block \in AllCerts
  BY DEF AllIds, IdsOf, AllCerts, CertsOf
<1>5. /\ IsPrefix(n.disk.committed_log, n.disk.committed_log)
      /\ n.disk.current_view \in Nat
  BY <1>2, PrefixRefl DEF IsDisk
<1> HIDE DEF own
<1>6. /\ IsRep(r, rep)
      /\ rep.vote_pool = {}
      /\ rep.current_view = n.disk.current_view
      /\ DOMAIN n.disk.block_tree \subseteq DOMAIN rep.block_tree
      /\ IsPrefix(n.disk.committed_log, rep.committed_log)
      /\ rep.high_qc # None => rep.high_qc.block \in AllCerts
      /\ IdsIn(rep.block_tree) \subseteq AllIds
  <2>1. CASE peers = {}
    <3>1. rep = own
      BY <2>1
    <3> HIDE DEF rep, n
    <3> QED
      BY <1>3, <1>4, <1>5, <3>1
  <2>2. CASE peers # {}
    <3> DEFINE p == Min(peers)
               donor == nodes[p].rep
    <3>1. peers \subseteq Nat
      BY ReplicasFinite
    <3>2. p \in peers
      BY <2>2, <3>1, MinMeans
    <3>3. p \in Replicas
      BY <3>2
    <3> HIDE DEF p
    <3>4. /\ IsRep(p, donor)
          /\ IdsIn(donor.block_tree) \subseteq AllIds
          /\ donor.high_qc # None => donor.high_qc.block \in AllCerts
      BY <3>3 DEF NodesInv, IsNode, AllIds, IdsOf, AllCerts, CertsOf
    <3>5. rep = CatchUp(own, donor)
      BY <2>2 DEF p
    <3> HIDE DEF donor
    <3> DEFINE c == CatchUp(own, donor)
    <3>6. /\ IsRep(r, c)
          /\ c.vote_pool = own.vote_pool
          /\ c.current_view = own.current_view
          /\ DOMAIN own.block_tree \subseteq DOMAIN c.block_tree
          /\ IsPrefix(own.committed_log, c.committed_log)
          /\ c.high_qc = own.high_qc \/ c.high_qc = donor.high_qc
          /\ IdsIn(c.block_tree) \subseteq
               IdsIn(own.block_tree) \cup IdsIn(donor.block_tree)
      BY <1>3, <3>3, <3>4, CatchUpAdds
    <3> HIDE DEF c, rep, n
    <3>7. rep = c
      BY <3>5 DEF c
    <3> QED
      BY <1>3, <1>4, <3>4, <3>6, <3>7
  <2> QED
    BY <2>1, <2>2
<1> HIDE DEF rep
<1>7. v \in Nat /\ n.disk.current_view <= v
  <2> DEFINE all == views \cup {rep.current_view}
             f == [p \in peers |-> nodes[p].rep.current_view]
  <2>1. f \in Surjection(peers, views)
    BY DEF Surjection
  <2>2. IsFiniteSet(peers)
    BY ReplicasFinite, FS_Subset
  <2>3. IsFiniteSet(views)
    <3> HIDE DEF f, views, peers
    <3> QED
      BY <2>1, <2>2, FS_Surjection
  <2>4. views \subseteq Nat
    BY DEF NodesInv, IsNode, IsRep
  <2>5. rep.current_view \in Nat
    BY <1>5, <1>6
  <2> HIDE DEF views
  <2>6. all \subseteq Nat /\ all # {} /\ IsFiniteSet(all)
    BY <2>3, <2>4, <2>5, FS_AddElement
  <2>7. rep.current_view \in all
    OBVIOUS
  <2> HIDE DEF all
  <2>8. Max(all) \in all /\ \A i \in all : i <= Max(all)
    BY <2>6, MaxMeans
  <2>9. Max(all) \in Nat /\ rep.current_view <= Max(all)
    BY <2>6, <2>7, <2>8
  <2> QED
    BY <1>6, <2>9 DEF all
<1> HIDE DEF v
<1>8. /\ DOMAIN q = Fields
      /\ q.current_view = v
      /\ \A f \in Fields \ {"current_view"} : q[f] = rep[f]
  BY <1>6 DEF IsRep, Fields
<1> HIDE DEF q
<1>9. IsRep(r, q)
  BY <1>6, <1>7, <1>8 DEF IsRep, Fields
<1>10. /\ q.vote_pool = {}
       /\ DOMAIN n.disk.block_tree \subseteq DOMAIN q.block_tree
       /\ IsPrefix(n.disk.committed_log, q.committed_log)
       /\ n.disk.current_view <= q.current_view
       /\ {c.block : c \in {q.high_qc} \ {None}} \subseteq AllCerts
       /\ IdsIn(q.block_tree) \subseteq AllIds
  BY <1>6, <1>7, <1>8 DEF Fields
<1> HIDE DEF n
<1>11. /\ Kept(r, n, m, IdsIn(q.block_tree),
               {c.block : c \in {q.high_qc} \ {None}})
       /\ Mirrors(m)
       /\ MirrorsBlocks(r, m)
  BY <1>2, <1>9, <1>10, SaveKeeps
<1> HIDE DEF m
<1>12. Kept(r, n, m, AllIds, AllCerts)
  BY <1>10, <1>11, KeptMore
<1>13. /\ DOMAIN nodes' = Replicas
       /\ nodes'[r] = m
       /\ \A s \in Replicas \ {r} : nodes'[s] = nodes[s]
       /\ Live' \subseteq Live \cup {r}
       /\ Live \subseteq Replicas
  BY <1>1 DEF NodesInv, Live
<1>14. ASSUME NEW s \in Replicas
       PROVE  Kept(s, nodes[s], nodes'[s], AllIds, AllCerts)
  <2>1. CASE s = r
    BY <1>12, <1>13, <2>1 DEF n
  <2>2. CASE s # r
    BY <1>13, <2>2, NodesStay
  <2> QED
    BY <2>1, <2>2
<1>15. \A s \in Live' : \/ s = r
                        \/ s \in Live /\ nodes'[s] = nodes[s]
  BY <1>13
<1>16. \A s \in Live' : Mirrors(nodes'[s])
  BY <1>11, <1>13, <1>15 DEF NodesInv
<1>17. (\A s \in Live : MirrorsBlocks(s, nodes[s]))
         => \A s \in Live' : MirrorsBlocks(s, nodes'[s])
  BY <1>11, <1>13, <1>15
<1> QED
  BY <1>13, <1>14, <1>16, <1>17 DEF KeepsNodes

\* new_with_options on the data directory of an earlier process.
LEMMA RestartKeeps ==
  ASSUME NodesInv, RestartAll
  PROVE  KeepsNodes({}, {})
<1>1. /\ nodes' = [r \in Replicas |->
                     [nodes[r] EXCEPT !.rep = Recovered(r, nodes[r].disk, N)]]
      /\ crashed' = {}
  BY DEF RestartAll
<1>2. ASSUME NEW r \in Replicas
      PROVE  /\ Kept(r, nodes[r], nodes'[r], AllIds, AllCerts)
             /\ Mirrors(nodes'[r])
  <2> DEFINE n == nodes[r]
             m == [n EXCEPT !.rep = Recovered(r, n.disk, N)]
  <2>1. nodes'[r] = m
    BY <1>1
  <2>2. IsNode(r, n) /\ n.disk.in_order
    BY DEF NodesInv
  <2>3. IdsOf(n) \subseteq AllIds /\ CertsOf(n) \subseteq AllCerts
    BY DEF AllIds, AllCerts
  <2> HIDE DEF n
  <2>4. Kept(r, n, m, IdsOf(n), CertsOf(n)) /\ Mirrors(m)
    BY <2>2, RecoversAlone
  <2> HIDE DEF m
  <2>5. Kept(r, n, m, AllIds, AllCerts)
    BY <2>3, <2>4, KeptMore
  <2> QED
    BY <2>1, <2>4, <2>5 DEF n
<1>3. DOMAIN nodes' = Replicas /\ Live' = Replicas
  BY <1>1 DEF Live
<1> QED
  BY <1>2, <1>3 DEF KeepsNodes

\* A step that leaves the replicas and the crashes alone.
LEMMA SameNodesKeep ==
  ASSUME NodesInv, UNCHANGED <<nodes, crashed>>
  PROVE  /\ KeepsNodes({}, {})
         /\ (\A s \in Live : MirrorsBlocks(s, nodes[s]))
              => \A s \in Live' : MirrorsBlocks(s, nodes'[s])
<1>1. Live' = Live /\ nodes' = nodes /\ Live \subseteq Replicas
  BY DEF Live
<1>2. \A r \in Replicas : Kept(r, nodes[r], nodes'[r], AllIds, AllCerts)
  BY <1>1, NodesStay
<1> QED
  BY <1>1, <1>2 DEF KeepsNodes, NodesInv

(***************************************************************************)
(* The inductive invariant.                                                *)
(***************************************************************************)
\* The clocks, whether a call has marked those that are up or not.
LEMMA ClocksKept ==
  ASSUME FieldsInv, crashed' = CrashedNow, unresponsive' = SilentNow,
         Answered \/ Unanswered
  PROVE  /\ crashed' \subseteq Replicas
         /\ unresponsive' \subseteq Replicas \ crashed'
         /\ quiet' \in [Replicas -> 0 .. CrashAfter - 1]
         /\ \A r \in crashed' : quiet'[r] = 0
<1>1. CrashAfter \in Nat /\ CrashAfter > 0
  BY SimulationAssumption
<1>2. /\ crashed' \subseteq Replicas
      /\ unresponsive' \subseteq Replicas \ crashed'
  BY DEF FieldsInv, CrashedNow, SilentNow, TimedOut
<1>3. ASSUME NEW r \in Replicas
      PROVE  Longer(r) \in 0 .. CrashAfter - 1
  <2>1. quiet[r] \in 0 .. CrashAfter - 1
    BY DEF FieldsInv
  <2> QED
    BY <1>1, <2>1 DEF Longer
<1>4. 0 \in 0 .. CrashAfter - 1
  BY <1>1
<1>5. CASE Answered
  <2>1. quiet' = [r \in Replicas |-> IF r \in SilentNow THEN Longer(r) ELSE 0]
    BY <1>5 DEF Answered
  <2>2. \A r \in crashed' : r \notin SilentNow
    BY <1>2
  <2> QED
    BY <1>2, <1>3, <1>4, <2>1, <2>2
<1>6. CASE Unanswered
  <2>1. quiet' = [r \in Replicas |-> IF r \in CrashedNow THEN 0 ELSE Longer(r)]
    BY <1>6 DEF Unanswered
  <2> QED
    BY <1>2, <1>3, <1>4, <2>1
<1> QED
  BY <1>5, <1>6

LEMMA RoundFrameKeeps ==
  ASSUME FieldsInv, RoundFrame, Answered \/ Unanswered,
         nextHash' \in {nextHash, nextHash + 1}
  PROVE  FieldsInv'
<1>1. MaxSteps \in Nat
  BY SimulationAssumption
<1>2. /\ crashed' = CrashedNow
      /\ unresponsive' = SilentNow
      /\ step < MaxSteps
      /\ step' = step + 1
      /\ restarts' = restarts
  BY DEF RoundFrame
<1>3. /\ crashed' \subseteq Replicas
      /\ unresponsive' \subseteq Replicas \ crashed'
      /\ quiet' \in [Replicas -> 0 .. CrashAfter - 1]
      /\ \A r \in crashed' : quiet'[r] = 0
  BY <1>2, ClocksKept
<1>4. /\ step' \in 0 .. MaxSteps
      /\ restarts' \in 0 .. MaxRestarts
      /\ nextHash' \in Nat \ {0}
  BY <1>1, <1>2 DEF FieldsInv
<1> QED
  BY <1>3, <1>4 DEF FieldsInv

LEMMA RefusedKeepsFields ==
  ASSUME FieldsInv, RefusedRound
  PROVE  FieldsInv'
<1>1. /\ crashed' \subseteq Replicas
      /\ unresponsive' \subseteq Replicas \ crashed'
      /\ quiet' \in [Replicas -> 0 .. CrashAfter - 1]
      /\ \A r \in crashed' : quiet'[r] = 0
  BY ClocksKept DEF RefusedRound
<1> QED
  BY <1>1 DEF RefusedRound, FieldsInv

LEMMA FieldsKept ==
  ASSUME FieldsInv, [Next]_vars
  PROVE  FieldsInv'
<1>1. /\ CrashAfter \in Nat /\ CrashAfter > 0
      /\ Faulty \subseteq Replicas
      /\ MaxSteps \in Nat /\ MaxRestarts \in Nat
      /\ 0 \in 0 .. CrashAfter - 1
  BY SimulationAssumption
<1>2. CASE RunOneRound
  <2>1. /\ RoundFrame /\ Answered
        /\ nextHash' \in {nextHash, nextHash + 1}
    BY <1>2 DEF RunOneRound, LeaderSilentRound, NoProposalRound,
                ProposalRound, HashSpent
  <2> QED
    BY <2>1, RoundFrameKeeps
<1>3. ASSUME NEW r \in Replicas, FallSilent(r)
      PROVE  FieldsInv'
  BY <1>1, <1>3 DEF FallSilent, MayFail, FieldsInv
<1>4. ASSUME NEW r \in Replicas, Resume(r)
      PROVE  FieldsInv'
  BY <1>1, <1>4 DEF Resume, FieldsInv
<1>5. ASSUME NEW r \in Replicas, CrashReplica(r)
      PROVE  FieldsInv'
  BY <1>1, <1>5 DEF CrashReplica, FieldsInv
<1>6. ASSUME NEW r \in Replicas, RecoverReplica(r)
      PROVE  FieldsInv'
  BY <1>1, <1>6 DEF RecoverReplica, FieldsInv
<1>7. CASE RestartAll
  BY <1>1, <1>7 DEF RestartAll, FieldsInv
<1>8. CASE UNCHANGED vars
  BY <1>8 DEF vars, FieldsInv
<1>9. CASE RefusedRound
  BY <1>9, RefusedKeepsFields
<1> QED
  BY <1>2, <1>3, <1>4, <1>5, <1>6, <1>7, <1>8, <1>9 DEF Next

\* A step without a new block.
LEMMA QuietStepKeeps ==
  ASSUME Inv, KeepsNodes({}, {}),
         \/ restarts' # 0
         \/ /\ restarts' = restarts
            /\ nextHash' \in {nextHash, nextHash + 1}
            /\ (\A r \in Live : MirrorsBlocks(r, nodes[r]))
                 => \A r \in Live' : MirrorsBlocks(r, nodes'[r])
  PROVE  /\ NodesInv' /\ IdsInv' /\ CertsInv' /\ FirstRunInv'
         /\ \A r \in Replicas : Grows(nodes[r], nodes'[r])
<1>1. /\ NodesInv'
      /\ AllIds' \subseteq AllIds
      /\ \A r \in Replicas : Grows(nodes[r], nodes'[r])
  BY NodesKept
<1>2. CertsInv'
  BY CertsKept DEF Inv
<1>3. IdsInv'
  <2>1. PICK l : l \in Replicas
    BY ReplicasFinite
  <2> DEFINE ids == {}
             certs == {}
  <2>2. /\ KeepsNodes(ids, certs)
        /\ ids \subseteq {0}
        /\ ids = {}
    OBVIOUS
  <2>3. NodesInv /\ IdsInv
    BY DEF Inv
  <2> HIDE DEF ids, certs
  <2> QED
    BY <2>1, <2>2, <2>3, IdsKept
<1>4. FirstRunInv'
  <2>1. CASE restarts' # 0
    BY <2>1 DEF FirstRunInv
  <2>2. CASE /\ restarts' = restarts
             /\ restarts = 0
             /\ nextHash' \in {nextHash, nextHash + 1}
             /\ (\A r \in Live : MirrorsBlocks(r, nodes[r]))
                  => \A r \in Live' : MirrorsBlocks(r, nodes'[r])
    <3>1. /\ \A i \in AllIds : i.hash < nextHash
          /\ \A r \in Live : MirrorsBlocks(r, nodes[r])
      BY <2>2 DEF Inv, FirstRunInv
    <3>2. \A i \in AllIds : i.hash \in Nat
      BY ViewsAreNumbers DEF Inv
    <3>3. nextHash \in Nat
      BY DEF Inv, FieldsInv
    <3>4. \A i \in AllIds : i.hash < nextHash'
      BY <2>2, <3>1, <3>2, <3>3
    <3> QED
      BY <1>1, <2>2, <3>1, <3>4 DEF FirstRunInv
  <2> QED
    BY <2>1, <2>2
<1> QED
  BY <1>1, <1>2, <1>3, <1>4

\* In the first run a hash that is new to the cluster is new to every disk.
LEMMA HashIsNew ==
  ASSUME Inv, restarts = 0, NEW l \in Replicas
  PROVE  nextHash \notin DOMAIN nodes[l].disk.block_tree
<1> DEFINE t == nodes[l].disk.block_tree
<1>1. SUFFICES ASSUME nextHash \in DOMAIN t
               PROVE  FALSE
  OBVIOUS
<1>2. IsTree(t)
  BY DEF Inv, NodesInv, IsNode, IsDisk
<1>3. nextHash \in Nat \ {0}
  BY DEF Inv, FieldsInv
<1>4. Ident(t[nextHash]) \in IdsIn(t)
  BY <1>1, <1>3 DEF IdsIn
<1>5. Ident(t[nextHash]) \in AllIds
  BY <1>4 DEF AllIds, IdsOf
<1>6. Ident(t[nextHash]).hash = nextHash
  BY <1>1, <1>2 DEF IsTree, Ident
<1>7. nextHash < nextHash
  BY <1>5, <1>6 DEF Inv, FirstRunInv
<1> QED
  BY <1>3, <1>7

\* A round with a proposal.
LEMMA ProposalStepKeeps ==
  ASSUME Inv, ProposalRound
  PROVE  /\ NodesInv' /\ IdsInv' /\ CertsInv' /\ FirstRunInv'
         /\ \A r \in Replicas : Grows(nodes[r], nodes'[r])
<1> DEFINE l == CurrentLeader
           view == nodes[l].disk.current_view
           i == [hash |-> nextHash, view |-> view, proposer |-> l]
<1>1. /\ l \in Up
      /\ crashed' = CrashedNow
      /\ restarts' = restarts
      /\ nextHash' = nextHash + 1
      /\ nodes' = RoundOf(l, nextHash, NoOp)
      /\ IsLeader(nodes[l].rep, nodes[l].rep.current_view)
  BY DEF ProposalRound, RoundFrame, HashSpent
<1>2. nextHash \in Nat /\ NodesInv /\ IdsInv /\ CertsInv
  BY DEF Inv, FieldsInv
<1> HIDE DEF l
<1>3. /\ nodes[l].rep.current_view = view
      /\ view < nodes'[l].disk.current_view
      /\ \E certs \in SUBSET {nextHash} :
           /\ KeepsNodes({i}, certs)
           /\ \A k \in certs :
                QuorumSize(Replicas) <= Cardinality(Holders(k)')
      /\ (/\ \A r \in Live : MirrorsBlocks(r, nodes[r])
          /\ nextHash \notin DOMAIN nodes[l].disk.block_tree)
         => \A r \in Live' : MirrorsBlocks(r, nodes'[r])
  BY <1>1, <1>2, ProposalKeeps
<1>4. PICK certs \in SUBSET {nextHash} :
        /\ KeepsNodes({i}, certs)
        /\ \A k \in certs :
             QuorumSize(Replicas) <= Cardinality(Holders(k)')
  BY <1>3
<1>5. l \in Replicas
  BY <1>1 DEF Up
<1>6. l = LeaderForView(Replicas, view)
  <2>1. /\ nodes[l].rep.active_validators = Replicas
        /\ nodes[l].rep.id = l
    BY <1>2, <1>5 DEF NodesInv, IsNode, IsRep
  <2> QED
    BY <1>1, <1>3, <2>1 DEF IsLeader
<1>7. i.proposer = l /\ i.view = view /\ i.hash = nextHash
  OBVIOUS
<1> HIDE DEF i
<1>8. /\ NodesInv'
      /\ AllIds' \subseteq AllIds \cup {i}
      /\ \A r \in Replicas : Grows(nodes[r], nodes'[r])
  BY <1>4, NodesKept
<1>9. CertsInv'
  BY <1>2, <1>4, CertsKept
<1>10. IdsInv'
  <2> DEFINE ids == {i}
  <2>1. /\ KeepsNodes(ids, certs)
        /\ ids \subseteq {i}
        /\ i.proposer = l
        /\ i.view = nodes[l].disk.current_view
        /\ l = LeaderForView(Replicas, i.view)
        /\ i.view < nodes'[l].disk.current_view
    BY <1>3, <1>4, <1>6, <1>7
  <2> HIDE DEF ids
  <2> QED
    BY <1>2, <1>5, <2>1, IdsKept
<1>11. FirstRunInv'
  <2>1. SUFFICES ASSUME restarts = 0
                 PROVE  /\ \A j \in AllIds' : j.hash < nextHash'
                        /\ \A r \in Live' : MirrorsBlocks(r, nodes'[r])
    BY <1>1 DEF FirstRunInv
  <2>2. /\ \A j \in AllIds : j.hash < nextHash
        /\ \A r \in Live : MirrorsBlocks(r, nodes[r])
    BY <2>1 DEF Inv, FirstRunInv
  <2>3. nextHash \notin DOMAIN nodes[l].disk.block_tree
    BY <1>5, <2>1, HashIsNew
  <2>4. \A j \in AllIds : j.hash \in Nat
    BY <1>2, ViewsAreNumbers
  <2>5. \A j \in AllIds' : j.hash < nextHash'
    BY <1>1, <1>2, <1>7, <1>8, <2>2, <2>4
  <2> QED
    BY <1>3, <2>2, <2>3, <2>5
<1> QED
  BY <1>8, <1>9, <1>10, <1>11

\* The invariant through every step, and what no disk loses in one.
LEMMA StepKeeps ==
  ASSUME Inv, [Next]_vars
  PROVE  /\ Inv'
         /\ \A r \in Replicas : Grows(nodes[r], nodes'[r])
<1> DEFINE Kept_ == /\ NodesInv' /\ IdsInv' /\ CertsInv' /\ FirstRunInv'
                    /\ \A r \in Replicas : Grows(nodes[r], nodes'[r])
           Blocks_ == (\A r \in Live : MirrorsBlocks(r, nodes[r]))
                        => \A r \in Live' : MirrorsBlocks(r, nodes'[r])
<1>1. FieldsInv'
  BY FieldsKept DEF Inv
<1>2. NodesInv
  BY DEF Inv
<1>3. ASSUME KeepsNodes({}, {}), Blocks_, restarts' = restarts,
             nextHash' \in {nextHash, nextHash + 1}
      PROVE  Kept_
  BY <1>3, QuietStepKeeps
<1>4. ASSUME LeaderSilentRound \/ NoProposalRound
      PROVE  Kept_
  <2>1. /\ nodes' = ViewTimeoutOf(NodesNow)
        /\ crashed' = CrashedNow
        /\ restarts' = restarts
        /\ nextHash' \in {nextHash, nextHash + 1}
    BY <1>4 DEF LeaderSilentRound, NoProposalRound, RoundFrame, HashSpent
  <2>2. KeepsNodes({}, {}) /\ Blocks_
    BY <1>2, <2>1, TimeoutKeeps
  <2> QED
    BY <1>3, <2>1, <2>2
<1>5. ASSUME ProposalRound
      PROVE  Kept_
  BY <1>5, ProposalStepKeeps
<1>6. ASSUME NEW r \in Replicas, FallSilent(r) \/ Resume(r)
      PROVE  Kept_
  <2>1. UNCHANGED <<nodes, crashed, nextHash, restarts>>
    BY <1>6 DEF FallSilent, Resume
  <2>2. KeepsNodes({}, {}) /\ Blocks_
    BY <1>2, <2>1, SameNodesKeep
  <2> QED
    BY <1>3, <2>1, <2>2
<1>7. ASSUME NEW r \in Replicas, CrashReplica(r)
      PROVE  Kept_
  <2>1. UNCHANGED <<nextHash, restarts>>
    BY <1>7 DEF CrashReplica
  <2>2. KeepsNodes({}, {}) /\ Blocks_
    BY <1>2, <1>7, CrashReplicaKeeps
  <2> QED
    BY <1>3, <2>1, <2>2
<1>8. ASSUME NEW r \in Replicas, RecoverReplica(r)
      PROVE  Kept_
  <2>1. UNCHANGED <<nextHash, restarts>>
    BY <1>8 DEF RecoverReplica
  <2>2. KeepsNodes({}, {}) /\ Blocks_
    BY <1>2, <1>8, RecoverReplicaKeeps
  <2> QED
    BY <1>3, <2>1, <2>2
<1>9. ASSUME RestartAll
      PROVE  Kept_
  <2>1. restarts' # 0
    BY <1>9 DEF RestartAll, Inv, FieldsInv
  <2>2. KeepsNodes({}, {})
    BY <1>2, <1>9, RestartKeeps
  <2> QED
    BY <2>1, <2>2, QuietStepKeeps
<1>10. ASSUME UNCHANGED vars
      PROVE  Kept_
  <2>1. UNCHANGED <<nodes, crashed, nextHash, restarts>>
    BY <1>10 DEF vars
  <2>2. KeepsNodes({}, {}) /\ Blocks_
    BY <1>2, <2>1, SameNodesKeep
  <2> QED
    BY <1>3, <2>1, <2>2
<1>11. ASSUME RefusedRound
      PROVE  Kept_
  <2>1. /\ nodes' = NodesNow
        /\ crashed' = CrashedNow
        /\ UNCHANGED <<nextHash, restarts>>
    BY <1>11 DEF RefusedRound
  <2>2. KeepsNodes({}, {}) /\ Blocks_
    BY <1>2, <2>1, RefusedKeeps
  <2> QED
    BY <1>3, <2>1, <2>2
<1>12. Kept_
  <2> HIDE DEF Kept_
  <2> QED
    BY <1>4, <1>5, <1>6, <1>7, <1>8, <1>9, <1>10, <1>11 DEF Next, RunOneRound
<1> QED
  BY <1>1, <1>12 DEF Inv

\* A replica on an empty data directory.
LEMMA FreshNode ==
  ASSUME NEW r \in Replicas
  PROVE  LET rep == FreshReplica(r, Replicas, Replicas)
             n == [rep |-> rep, disk |-> FreshDisk(rep)]
         IN  /\ IsNode(r, n)
             /\ n.rep.vote_pool = {}
             /\ Mirrors(n)
             /\ MirrorsBlocks(r, n)
             /\ IdsOf(n) = {}
             /\ CertsOf(n) = {}
<1> DEFINE rep == FreshReplica(r, Replicas, Replicas)
           c == Capture(rep)
           d == [c EXCEPT !.members = None]
           n == [rep |-> rep, disk |-> FreshDisk(rep)]
<1>1. n = [rep |-> rep, disk |-> d]
  BY DEF FreshDisk
<1>2. /\ IsRep(r, rep)
      /\ IdsIn(rep.block_tree) = {}
      /\ rep.high_qc = None
      /\ rep.vote_pool = {}
  BY FreshReplicaType
<1> HIDE DEF rep
<1>3. /\ IsDisk(c)
      /\ c.in_order = TRUE
      /\ c.current_view = rep.current_view
      /\ c.committed_log = rep.committed_log
      /\ c.high_qc = Stub(rep.high_qc)
      /\ DOMAIN c.block_tree = DOMAIN rep.block_tree
      /\ \A h \in DOMAIN rep.block_tree :
           c.block_tree[h] = Stored(rep.block_tree[h])
      /\ IdsIn(c.block_tree) = IdsIn(rep.block_tree)
  BY <1>2, CaptureType
<1> HIDE DEF c
<1>4. /\ DOMAIN d = DiskFields
      /\ d.members = None
      /\ d.current_view = c.current_view
      /\ d.block_tree = c.block_tree
      /\ d.high_qc = c.high_qc
      /\ d.committed_log = c.committed_log
      /\ d.epoch = c.epoch
      /\ d.in_order = c.in_order
  BY <1>3 DEF IsDisk, DiskFields
<1> HIDE DEF d
<1>5. IsDisk(d)
  BY <1>3, <1>4 DEF IsDisk
<1> HIDE DEF n
<1>6. /\ DOMAIN n = {"rep", "disk"}
      /\ n.rep = rep
      /\ n.disk = d
  BY <1>1
<1>7. IsNode(r, n)
  BY <1>2, <1>5, <1>6 DEF IsNode
<1>8. Mirrors(n) /\ MirrorsBlocks(r, n)
  BY <1>3, <1>4, <1>6 DEF Mirrors, MirrorsBlocks
<1>9. IdsOf(n) = {}
  BY <1>2, <1>3, <1>4, <1>6 DEF IdsOf
<1>10. CertsOf(n) = {}
  BY <1>2, <1>3, <1>4, <1>6 DEF CertsOf, Stub
<1> QED
  BY <1>2, <1>6, <1>7, <1>8, <1>9, <1>10 DEF n, rep

LEMMA InitKeeps ==
  ASSUME Init
  PROVE  Inv
<1>1. /\ crashed = {} /\ unresponsive = {}
      /\ quiet = [r \in Replicas |-> 0]
      /\ step = 0 /\ nextHash = 1 /\ restarts = 0
      /\ DOMAIN nodes = Replicas
      /\ \A r \in Replicas :
           nodes[r] = LET rep == FreshReplica(r, Replicas, Replicas)
                      IN  [rep |-> rep, disk |-> FreshDisk(rep)]
  BY DEF Init
<1>2. FieldsInv
  <2>1. 0 \in 0 .. CrashAfter - 1 /\ 0 \in 0 .. MaxSteps
        /\ 0 \in 0 .. MaxRestarts /\ 1 \in Nat \ {0}
    BY SimulationAssumption
  <2> QED
    BY <1>1, <2>1 DEF FieldsInv
<1>3. ASSUME NEW r \in Replicas
      PROVE  /\ IsNode(r, nodes[r])
             /\ nodes[r].rep.vote_pool = {}
             /\ Mirrors(nodes[r])
             /\ MirrorsBlocks(r, nodes[r])
             /\ IdsOf(nodes[r]) = {}
             /\ CertsOf(nodes[r]) = {}
  <2> DEFINE n == LET rep == FreshReplica(r, Replicas, Replicas)
                  IN  [rep |-> rep, disk |-> FreshDisk(rep)]
  <2>1. nodes[r] = n
    BY <1>1
  <2>2. /\ IsNode(r, n)
        /\ n.rep.vote_pool = {}
        /\ Mirrors(n)
        /\ MirrorsBlocks(r, n)
        /\ IdsOf(n) = {}
        /\ CertsOf(n) = {}
    BY FreshNode
  <2> HIDE DEF n
  <2> QED
    BY <2>1, <2>2
<1>4. Live = Replicas
  BY <1>1 DEF Live
<1>5. NodesInv
  BY <1>1, <1>3, <1>4 DEF NodesInv, Mirrors
<1>6. AllIds = {} /\ AllCerts = {}
  BY <1>3 DEF AllIds, AllCerts
<1>7. IdsInv /\ CertsInv
  BY <1>6 DEF IdsInv, CertsInv
<1>8. FirstRunInv
  BY <1>3, <1>4, <1>6 DEF FirstRunInv
<1> QED
  BY <1>2, <1>5, <1>7, <1>8 DEF Inv

LEMMA Invariance == Spec => []Inv
<1>1. Init => Inv
  BY InitKeeps
<1>2. Inv /\ [Next]_vars => Inv'
  BY StepKeeps
<1> QED
  BY <1>1, <1>2, PTL DEF Spec

(***************************************************************************)
(* The properties of the cluster.                                          *)
(***************************************************************************)
\* Every field of the cluster keeps its type; between rounds no vote is left
\* over in a pool (advance_view_with_reason empties it) and no signature is
\* on a disk.
THEOREM SimulationTypes == Spec => []TypeOK
<1>1. ASSUME Inv, NEW r \in Replicas
      PROVE  /\ IsReplica(nodes[r].rep)
             /\ nodes[r].rep.id = r
             /\ nodes[r].rep.vote_pool = {}
             /\ nodes[r].rep.active_validators = Replicas
             /\ IsSnapshot(nodes[r].disk)
             /\ nodes[r].disk.in_order \in BOOLEAN
  <2> DEFINE rep == nodes[r].rep
             disk == nodes[r].disk
  <2>1. /\ IsRep(r, rep)
        /\ IsDisk(disk)
        /\ rep.vote_pool = {}
    BY <1>1 DEF Inv, NodesInv, IsNode
  <2> HIDE DEF rep, disk
  <2>2. ASSUME NEW h \in DOMAIN rep.block_tree
        PROVE  /\ rep.block_tree[h].hash = h
               /\ rep.block_tree[h].cmd \in CommandSet
    BY <2>1 DEF IsRep, IsTree, Block, CommandSet
  <2>3. IsReplica(rep)
    BY <2>1, <2>2, ReplicasFinite DEF IsReplica, IsRep, IsTree, Fields
  <2>4. disk.high_qc \in SerializableQC \cup {None}
    <3>1. Stub(disk.high_qc) \in SerializableQC \cup {None}
      BY <2>1, StubType DEF IsDisk
    <3> QED
      BY <2>1, <3>1 DEF IsDisk
  <2>5. Range(disk.block_tree) \subseteq SerializableBlock
    <3>1. ASSUME NEW h \in DOMAIN disk.block_tree
          PROVE  disk.block_tree[h] \in SerializableBlock
      <4>1. /\ disk.block_tree[h] \in Block
            /\ Stored(disk.block_tree[h]) = disk.block_tree[h]
        BY <2>1 DEF IsDisk, IsTree
      <4>2. Stored(disk.block_tree[h]) \in SerializableBlock
        BY <4>1, StoredType
      <4> QED
        BY <4>1, <4>2
    <3> QED
      BY <3>1 DEF Range
  <2>6. disk.members # None => disk.members \subseteq Nat
    BY <2>1, ReplicasFinite DEF IsDisk
  <2>7. IsSnapshot(disk)
    BY <2>1, <2>4, <2>5, <2>6 DEF IsSnapshot, IsDisk
  <2> QED
    BY <2>1, <2>3, <2>7 DEF rep, disk, IsRep, IsDisk
<1>2. Inv => TypeOK
  BY <1>1 DEF TypeOK, Inv, FieldsInv
<1> QED
  BY <1>2, Invariance, PTL

\* No crash, recovery, snapshot or restart shortens or rewrites the committed
\* log that a disk yields.
THEOREM DiskLogsGrow == Spec => DurableLogAppendOnly
<1>1. Inv /\ [Next]_vars =>
        [\A r \in Replicas : IsPrefix(nodes[r].disk.committed_log,
                                       nodes'[r].disk.committed_log)]_vars
  BY StepKeeps DEF Grows
<1> QED
  BY <1>1, Invariance, PTL DEF Spec, DurableLogAppendOnly

\* The view that a disk yields never falls: a replica that comes back does
\* not lead a view again that it has left.
THEOREM ViewsGrow == Spec => ViewsNeverFall
<1>1. Inv /\ [Next]_vars =>
        [\A r \in Replicas : nodes[r].disk.current_view
                               <= nodes'[r].disk.current_view]_vars
  BY StepKeeps DEF Grows
<1> QED
  BY <1>1, Invariance, PTL DEF Spec, ViewsNeverFall

\* A block that a live replica has a certificate for is on the disks of a
\* quorum: run_one_round lets a replica vote after it has logged the block.
THEOREM CertificatesAreDurable == Spec => []CertifiedIsDurable
<1>1. ASSUME Inv, NEW r \in Live, nodes[r].rep.high_qc # None
      PROVE  Cardinality({s \in Replicas : nodes[r].rep.high_qc.block
                                    \in DOMAIN nodes[s].disk.block_tree})
               >= QuorumSize(Replicas)
  <2> DEFINE k == nodes[r].rep.high_qc.block
  <2>1. k \in AllCerts
    BY <1>1 DEF AllCerts, CertsOf, Live
  <2>2. QuorumSize(Replicas) <= Cardinality(Holders(k))
    BY <1>1, <2>1 DEF Inv, CertsInv
  <2>3. Cardinality(Holders(k)) \in Nat /\ QuorumSize(Replicas) \in Nat
    <3>1. Holders(k) \in SUBSET Replicas
      BY DEF Holders
    <3>2. IsFiniteSet(Holders(k))
      BY <3>1, ReplicasFinite, FS_Subset
    <3> QED
      BY <3>2, FS_CardinalityType, QuorumIsNumber
  <2>4. Cardinality(Holders(k)) >= QuorumSize(Replicas)
    BY <2>2, <2>3
  <2> QED
    BY <2>4 DEF Holders
<1>2. Inv => CertifiedIsDurable
  BY <1>1 DEF CertifiedIsDurable
<1> QED
  BY <1>2, Invariance, PTL

\* There is one block in a view, whatever crashed, came back or started anew
\* in between: the leader of a view has logged that it left the view before
\* anybody can make it lead again.
THEOREM OneBlockInView == Spec => []OneBlockPerView
<1>1. ASSUME Inv, NEW b \in KnownBlocks, b.hash # 0
      PROVE  Ident(b) \in AllIds
  <2>1. PICK r \in Live : \E h \in DOMAIN nodes[r].rep.block_tree :
               b = nodes[r].rep.block_tree[h]
    BY DEF KnownBlocks
  <2>2. PICK h \in DOMAIN nodes[r].rep.block_tree :
               b = nodes[r].rep.block_tree[h]
    BY <2>1
  <2>3. r \in Replicas /\ IsTree(nodes[r].rep.block_tree)
    BY <1>1 DEF Live, Inv, NodesInv, IsNode, IsRep
  <2>4. h # 0
    BY <1>1, <2>2, <2>3 DEF IsTree
  <2>5. Ident(b) \in IdsIn(nodes[r].rep.block_tree)
    BY <2>2, <2>4 DEF IdsIn
  <2> QED
    BY <2>3, <2>5 DEF AllIds, IdsOf
<1>2. ASSUME Inv, NEW b \in KnownBlocks, NEW c \in KnownBlocks,
             b.view = c.view, b.hash # 0, c.hash # 0
      PROVE  b.hash = c.hash
  <2>1. Ident(b) \in AllIds /\ Ident(c) \in AllIds
    BY <1>1, <1>2
  <2>2. Ident(b).view = Ident(c).view
    BY <1>2 DEF Ident
  <2>3. Ident(b).hash = Ident(c).hash
    BY <1>2, <2>1, <2>2 DEF Inv, IdsInv
  <2> QED
    BY <2>3 DEF Ident
<1>3. ASSUME Inv
      PROVE  OneBlockPerView
  <2> DEFINE proposed == {[view |-> b.view, hash |-> b.hash] :
                            b \in {k \in KnownBlocks : k.hash # 0}}
  <2>1. ASSUME NEW p \in proposed, NEW q \in proposed, p.view = q.view
        PROVE  p = q
    <3>1. PICK b \in KnownBlocks :
            b.hash # 0 /\ p = [view |-> b.view, hash |-> b.hash]
      OBVIOUS
    <3>2. PICK c \in KnownBlocks :
            c.hash # 0 /\ q = [view |-> c.view, hash |-> c.hash]
      OBVIOUS
    <3>3. b.view = c.view
      BY <2>1, <3>1, <3>2
    <3>4. b.hash = c.hash
      BY <1>2, <1>3, <3>1, <3>2, <3>3
    <3> QED
      BY <3>1, <3>2, <3>3, <3>4
  <2> QED
    BY <2>1 DEF OneBlockPerView
<1> QED
  BY <1>3, Invariance, PTL

\* Until the process restarts, the disk of a live replica yields its memory,
\* but for blocks that it proposed itself.  After a restart the hashes start
\* anew, and a block that a leader has not logged hides another one.
THEOREM DisksMirror == Spec => []DiskMirrorsMemory
<1>1. ASSUME Inv, restarts = 0, NEW r \in Live
      PROVE  LET rep == nodes[r].rep
                 disk == nodes[r].disk
             IN  /\ disk.in_order
                 /\ disk.current_view = rep.current_view
                 /\ disk.committed_log = rep.committed_log
                 /\ disk.high_qc = Stub(rep.high_qc)
                 /\ DOMAIN disk.block_tree \subseteq DOMAIN rep.block_tree
                 /\ \A h \in DOMAIN rep.block_tree :
                      IF h \in DOMAIN disk.block_tree
                      THEN disk.block_tree[h] = Stored(rep.block_tree[h])
                      ELSE rep.block_tree[h].proposer = r
  <2>1. Mirrors(nodes[r])
    BY <1>1 DEF Inv, NodesInv
  <2>2. MirrorsBlocks(r, nodes[r])
    BY <1>1 DEF Inv, FirstRunInv
  <2> QED
    BY <2>1, <2>2 DEF Mirrors, MirrorsBlocks
<1>2. Inv => DiskMirrorsMemory
  BY <1>1 DEF DiskMirrorsMemory
<1> QED
  BY <1>2, Invariance, PTL
=============================================================================
