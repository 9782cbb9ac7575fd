--------------------------- MODULE PacemakerProofs ---------------------------
(***************************************************************************)
(* Proofs about the cluster with clients, commands and changes of the      *)
(* validators, for every number of replicas, every set of commands and     *)
(* every history of silences, crashes and recoveries.                      *)
(*                                                                         *)
(* Unlike in SimulationProofs the validators may change here, so much less *)
(* is known of a replica: its fields, its blocks, and which commands they  *)
(* hold.                                                                   *)
(***************************************************************************)
EXTENDS Pacemaker, SimulationProofs

(***************************************************************************)
(* The shape of a replica and of its disk.                                 *)
(***************************************************************************)
BlockFields == {"hash", "parent", "view", "epoch", "proposer", "qc", "cmd"}

IsBlock(b) == DOMAIN b = BlockFields /\ b.hash \in Nat

HasBlocks(t) ==
  /\ DOMAIN t \subseteq Nat
  /\ IsFiniteSet(DOMAIN t)
  /\ \A h \in DOMAIN t : IsBlock(t[h]) /\ t[h].hash = h

HasShape(n) ==
  /\ DOMAIN n = {"rep", "disk"}
  /\ DOMAIN n.rep = Fields
  /\ n.rep.current_view \in Nat
  /\ HasBlocks(n.rep.block_tree)
  /\ DOMAIN n.disk = DiskFields
  /\ n.disk.current_view \in Nat
  /\ HasBlocks(n.disk.block_tree)

\* Which command a tree has under which hash.
Pairs(t) == {<<h, t[h].cmd>> : h \in DOMAIN t}

\* What is left where the command of a block was not read back.
NoOps == {<<h, NoOp>> : h \in Nat}

(***************************************************************************)
(* The validators as a function of the log.                                *)
(***************************************************************************)
\* What a committed command may change of a replica.
ConfigOf(rep) ==
  [epoch |-> rep.config_epoch, validators |-> rep.active_validators,
   keys |-> rep.keys]

Joins(c, cmd) ==
  /\ cmd.op = "join"
  /\ cmd.who \notin c.validators
  /\ ValidCount(Cardinality(c.validators) + 1)
  /\ cmd.valid_key

Leaves(c, cmd) ==
  /\ cmd.op = "remove"
  /\ cmd.who \in c.validators
  /\ ValidCount(Cardinality(c.validators) - 1)

\* ApplyMembership, seen from the outside.
Changed(c, cmd) ==
  IF Joins(c, cmd)
  THEN [epoch |-> c.epoch + 1, validators |-> c.validators \cup {cmd.who},
        keys |-> AddPublicKey(c.keys, cmd.who)]
  ELSE IF Leaves(c, cmd)
  THEN [epoch |-> c.epoch + 1, validators |-> c.validators \ {cmd.who},
        keys |-> RemovePublicKey(c.keys, cmd.who)]
  ELSE c

FirstConfig == [epoch |-> 0, validators |-> Replicas, keys |-> Replicas]

\* The configurations a replica went through while it executed a log.
IsHistory(past, log, t, config) ==
  /\ past = [i \in 0 .. Len(log) |-> past[i]]
  /\ past[0] = FirstConfig
  /\ past[Len(log)] = config
  /\ \A i \in 1 .. Len(log) : past[i] = Changed(past[i - 1], t[log[i]].cmd)

\* A replica is where the commands of its log lead to.
ObeysLog(rep) ==
  /\ rep.committed_log \in Seq(DOMAIN rep.block_tree)
  /\ \E past : IsHistory(past, rep.committed_log, rep.block_tree,
                         ConfigOf(rep))

\* Two replicas with one log, and the same commands in its blocks, went
\* through the same configurations.
LEMMA SameHistory ==
  ASSUME NEW S, NEW log \in Seq(S), NEW t, NEW u, NEW c, NEW d,
         \A i \in 1 .. Len(log) : t[log[i]].cmd = u[log[i]].cmd,
         NEW past, IsHistory(past, log, t, c),
         NEW past2, IsHistory(past2, log, u, d)
  PROVE  c = d
<1> DEFINE len == Len(log)
           D == {k \in Nat : k <= len => past[k] = past2[k]}
<1>1. len \in Nat
  OBVIOUS
<1>2. /\ past[0] = FirstConfig /\ past2[0] = FirstConfig
      /\ past[len] = c /\ past2[len] = d
      /\ \A i \in 1 .. len : /\ past[i] = Changed(past[i - 1], t[log[i]].cmd)
                             /\ past2[i] = Changed(past2[i - 1], u[log[i]].cmd)
  BY DEF IsHistory
<1> HIDE DEF len
<1>3. 0 \in D
  BY <1>2
<1>4. ASSUME NEW k \in Nat, k \in D
      PROVE  k + 1 \in D
  <2>1. SUFFICES ASSUME k + 1 <= len
                 PROVE  past[k + 1] = past2[k + 1]
    OBVIOUS
  <2>2. past[k] = past2[k]
    BY <1>1, <1>4, <2>1
  <2> DEFINE i == k + 1
  <2>3. i \in 1 .. len /\ i - 1 = k
    BY <1>1, <2>1
  <2> HIDE DEF i
  <2>4. past[i] = past2[i]
    BY <1>2, <2>2, <2>3 DEF len
  <2> QED
    BY <2>4 DEF i
<1>5. Nat \subseteq D
  <2> HIDE DEF D
  <2> QED
    BY <1>3, <1>4, NatSetInduction
<1>6. past[len] = past2[len]
  BY <1>1, <1>5
<1> QED
  BY <1>2, <1>6

\* A replica that executes one more block.
LEMMA HistoryGrows ==
  ASSUME NEW t, NEW log \in Seq(DOMAIN t), NEW c, NEW h \in DOMAIN t,
         NEW past, IsHistory(past, log, t, c)
  PROVE  \E next : IsHistory(next, Append(log, h), t, Changed(c, t[h].cmd))
<1> DEFINE len == Len(log)
           more == Append(log, h)
           d == Changed(c, t[h].cmd)
           next == [i \in 0 .. len + 1 |-> IF i = len + 1 THEN d ELSE past[i]]
<1>1. /\ len \in Nat
      /\ Len(more) = len + 1
      /\ more[len + 1] = h
      /\ \A i \in 1 .. len : more[i] = log[i]
  OBVIOUS
<1>2. /\ past[0] = FirstConfig
      /\ past[len] = c
      /\ \A i \in 1 .. len : past[i] = Changed(past[i - 1], t[log[i]].cmd)
  BY DEF IsHistory
<1>3. d = Changed(c, t[h].cmd)
  OBVIOUS
<1> HIDE DEF len, more, d
<1>4. /\ next[len + 1] = d
      /\ \A i \in 0 .. len : next[i] = past[i]
      /\ next = [i \in 0 .. len + 1 |-> next[i]]
  BY <1>1
<1> HIDE DEF next
<1>5. ASSUME NEW i \in 1 .. len + 1
      PROVE  next[i] = Changed(next[i - 1], t[more[i]].cmd)
  <2>1. CASE i = len + 1
    <3>1. i - 1 = len /\ len \in 0 .. len
      BY <1>1, <2>1
    <3> QED
      BY <1>1, <1>2, <1>3, <1>4, <2>1, <3>1
  <2>2. CASE i \in 1 .. len
    <3>1. i \in 0 .. len /\ i - 1 \in 0 .. len
      BY <1>1, <2>2
    <3> QED
      BY <1>1, <1>2, <1>4, <2>2, <3>1
  <2> QED
    BY <1>1, <2>1, <2>2
<1>6. next[0] = FirstConfig
  BY <1>1, <1>2, <1>4
<1>7. IsHistory(next, more, t, d)
  BY <1>1, <1>4, <1>5, <1>6 DEF IsHistory
<1> QED
  BY <1>7 DEF more, d

\* The log of a replica whose tree changed elsewhere.
LEMMA ObeysStill ==
  ASSUME NEW p, NEW q, ObeysLog(p),
         q.committed_log = p.committed_log,
         q.config_epoch = p.config_epoch,
         q.active_validators = p.active_validators,
         q.keys = p.keys,
         DOMAIN p.block_tree \subseteq DOMAIN q.block_tree,
         \A h \in DOMAIN p.block_tree : q.block_tree[h] = p.block_tree[h]
  PROVE  ObeysLog(q)
<1> DEFINE t == p.block_tree
           u == q.block_tree
           log == p.committed_log
           c == ConfigOf(p)
<1>1. log \in Seq(DOMAIN t) /\ ConfigOf(q) = c
  BY DEF ObeysLog, ConfigOf
<1>2. PICK past : IsHistory(past, log, t, c)
  BY DEF ObeysLog
<1>3. /\ DOMAIN t \subseteq DOMAIN u
      /\ \A h \in DOMAIN t : u[h] = t[h]
      /\ q.committed_log = log
  OBVIOUS
<1> HIDE DEF t, u, log, c
<1>4. \A i \in 1 .. Len(log) : log[i] \in DOMAIN t
  BY <1>1, ElementOfSeq
<1>5. IsHistory(past, log, u, c)
  BY <1>2, <1>3, <1>4 DEF IsHistory
<1>6. log \in Seq(DOMAIN u)
  BY <1>1, <1>3
<1> QED
  BY <1>1, <1>3, <1>5, <1>6 DEF ObeysLog, u, c

(***************************************************************************)
(* The blocks of a tree.                                                   *)
(***************************************************************************)
LEMMA StoredIsBlock ==
  ASSUME NEW b, IsBlock(b)
  PROVE  /\ IsBlock(Stored(b))
         /\ Stored(b).hash = b.hash
         /\ Stored(b).cmd = b.cmd
         /\ IsBlock([Stored(b) EXCEPT !.cmd = NoOp])
         /\ [Stored(b) EXCEPT !.cmd = NoOp].hash = b.hash
         /\ [Stored(b) EXCEPT !.cmd = NoOp].cmd = NoOp
<1> DEFINE q == IF b.qc = None THEN None
                ELSE [Stub(b.qc) EXCEPT !.epoch = b.epoch]
           s == [b EXCEPT !.qc = q]
<1>1. Stored(b) = s
  BY DEF Stored
<1> HIDE DEF q
<1>2. DOMAIN s = BlockFields /\ s.hash = b.hash /\ s.cmd = b.cmd
  BY DEF IsBlock, BlockFields
<1> HIDE DEF s
<1> DEFINE c == [s EXCEPT !.cmd = NoOp]
<1>3. DOMAIN c = BlockFields /\ c.hash = s.hash /\ c.cmd = NoOp
  BY <1>2 DEF BlockFields
<1> HIDE DEF c
<1> QED
  BY <1>1, <1>2, <1>3 DEF IsBlock, c

LEMMA InsertPairs ==
  ASSUME NEW t, HasBlocks(t), NEW b, IsBlock(b)
  PROVE  LET u == InsertBlock(t, b)
         IN  /\ HasBlocks(u)
             /\ Pairs(u) \subseteq Pairs(t) \cup {<<b.hash, b.cmd>>}
             /\ DOMAIN t \subseteq DOMAIN u
             /\ \A h \in DOMAIN t : h # b.hash => u[h] = t[h]
<1> DEFINE u == InsertBlock(t, b)
<1>1. /\ DOMAIN u = DOMAIN t \cup {b.hash}
      /\ u[b.hash] = b
      /\ \A h \in DOMAIN t : h # b.hash => u[h] = t[h]
  BY DEF InsertBlock
<1>2. IsFiniteSet(DOMAIN t \cup {b.hash})
  BY FS_AddElement DEF HasBlocks
<1> HIDE DEF u
<1>3. HasBlocks(u)
  BY <1>1, <1>2 DEF HasBlocks, IsBlock
<1>4. Pairs(u) \subseteq Pairs(t) \cup {<<b.hash, b.cmd>>}
  BY <1>1 DEF Pairs
<1> QED
  BY <1>1, <1>3, <1>4 DEF u

LEMMA StoredPairs ==
  ASSUME NEW t, HasBlocks(t)
  PROVE  LET u == [h \in DOMAIN t |-> Stored(t[h])]
         IN  HasBlocks(u) /\ Pairs(u) = Pairs(t)
<1> DEFINE u == [h \in DOMAIN t |-> Stored(t[h])]
<1>1. DOMAIN u = DOMAIN t
  OBVIOUS
<1>2. ASSUME NEW h \in DOMAIN t
      PROVE  IsBlock(u[h]) /\ u[h].hash = h /\ u[h].cmd = t[h].cmd
  BY StoredIsBlock DEF HasBlocks
<1> HIDE DEF u
<1>3. HasBlocks(u)
  BY <1>1, <1>2 DEF HasBlocks
<1>4. Pairs(u) = Pairs(t)
  BY <1>1, <1>2 DEF Pairs
<1> QED
  BY <1>3, <1>4 DEF u

LEMMA GenesisBlocks ==
  LET t == [h \in {0} |-> Genesis]
  IN  HasBlocks(t) /\ Pairs(t) \subseteq NoOps /\ DOMAIN t = {0}
<1> DEFINE t == [h \in {0} |-> Genesis]
<1>1. DOMAIN t = {0} /\ t[0] = Genesis
  OBVIOUS
<1>2. IsBlock(Genesis) /\ Genesis.hash = 0 /\ Genesis.cmd = NoOp
  BY DEF IsBlock, Genesis, BlockFields, NoOp
<1>3. IsFiniteSet({0})
  BY FS_Singleton
<1> HIDE DEF t
<1>4. HasBlocks(t)
  BY <1>1, <1>2, <1>3 DEF HasBlocks
<1>5. Pairs(t) \subseteq NoOps
  BY <1>1, <1>2 DEF Pairs, NoOps
<1> QED
  BY <1>1, <1>4, <1>5 DEF t

(***************************************************************************)
(* One replica and its disk.                                               *)
(***************************************************************************)
\* A node after an operation that teaches it no commands but those of new,
\* and that keeps it where its log leads to if their blocks are new to it.
Works(n, m, new) ==
  /\ HasShape(m)
  /\ Pairs(m.rep.block_tree) \subseteq Pairs(n.rep.block_tree) \cup new
  /\ Pairs(m.disk.block_tree) \subseteq
       Pairs(n.rep.block_tree) \cup Pairs(n.disk.block_tree) \cup new
         \cup NoOps
  /\ (/\ ObeysLog(n.rep)
      /\ \A p \in new : p[1] \notin DOMAIN n.rep.block_tree)
     => ObeysLog(m.rep)

LEMMA WorksTrans ==
  ASSUME NEW l, NEW m, NEW n, NEW new, Works(l, m, new), Works(m, n, {})
  PROVE  Works(l, n, new)
  BY DEF Works

LEMMA WorksMore ==
  ASSUME NEW m, NEW n, NEW new, NEW more, Works(m, n, new), new \subseteq more
  PROVE  Works(m, n, more)
  BY DEF Works

\* An operation that leaves the blocks, the log and the validators alone.
LEMMA WorksElsewhere ==
  ASSUME NEW n, NEW m, HasShape(m),
         m.rep.block_tree = n.rep.block_tree,
         m.disk.block_tree = n.disk.block_tree,
         m.rep.committed_log = n.rep.committed_log,
         m.rep.config_epoch = n.rep.config_epoch,
         m.rep.active_validators = n.rep.active_validators,
         m.rep.keys = n.rep.keys
  PROVE  Works(n, m, {})
<1>1. ObeysLog(n.rep) => ObeysLog(m.rep)
  BY DEF ObeysLog, ConfigOf
<1> QED
  BY <1>1 DEF Works

LEMMA WorksItself ==
  ASSUME NEW n, HasShape(n)
  PROVE  Works(n, n, {})
  BY WorksElsewhere

\* A replica inserts a block.
LEMMA InsertShape ==
  ASSUME NEW n, HasShape(n), NEW b, IsBlock(b)
  PROVE  LET q == [n.rep EXCEPT !.block_tree = InsertBlock(@, b)]
         IN  /\ DOMAIN q = Fields
             /\ q.current_view \in Nat
             /\ HasBlocks(q.block_tree)
             /\ Pairs(q.block_tree) \subseteq
                  Pairs(n.rep.block_tree) \cup {<<b.hash, b.cmd>>}
             /\ (ObeysLog(n.rep) /\ b.hash \notin DOMAIN n.rep.block_tree)
                  => ObeysLog(q)
<1> DEFINE t == n.rep.block_tree
           u == InsertBlock(t, b)
           q == [n.rep EXCEPT !.block_tree = u]
<1>1. HasBlocks(t)
  BY DEF HasShape
<1> HIDE DEF t
<1>2. /\ HasBlocks(u)
      /\ Pairs(u) \subseteq Pairs(t) \cup {<<b.hash, b.cmd>>}
      /\ DOMAIN t \subseteq DOMAIN u
      /\ \A h \in DOMAIN t : h # b.hash => u[h] = t[h]
  BY <1>1, InsertPairs
<1> HIDE DEF u
<1>3. /\ DOMAIN q = Fields
      /\ q.block_tree = u
      /\ \A f \in Fields \ {"block_tree"} : q[f] = n.rep[f]
  BY DEF HasShape, Fields
<1> HIDE DEF q
<1>4. /\ q.current_view = n.rep.current_view
      /\ q.committed_log = n.rep.committed_log
      /\ q.config_epoch = n.rep.config_epoch
      /\ q.active_validators = n.rep.active_validators
      /\ q.keys = n.rep.keys
  BY <1>3 DEF Fields
<1>5. ASSUME ObeysLog(n.rep), b.hash \notin DOMAIN t
      PROVE  ObeysLog(q)
  BY <1>2, <1>3, <1>4, <1>5, ObeysStill DEF t
<1>6. q.current_view \in Nat
  BY <1>4 DEF HasShape
<1> QED
  BY <1>2, <1>3, <1>5, <1>6 DEF t, u, q

LEMMA ProposeAtWorks ==
  ASSUME NEW n, HasShape(n), NEW b, IsBlock(b)
  PROVE  Works(n, ProposeAt(n, b), {<<b.hash, b.cmd>>})
<1> DEFINE q == [n.rep EXCEPT !.block_tree = InsertBlock(@, b)]
           m == [n EXCEPT !.rep = q]
           new == {<<b.hash, b.cmd>>}
<1>1. ProposeAt(n, b) = m
  BY DEF ProposeAt, Propose
<1>2. /\ DOMAIN q = Fields
      /\ q.current_view \in Nat
      /\ HasBlocks(q.block_tree)
      /\ Pairs(q.block_tree) \subseteq Pairs(n.rep.block_tree) \cup new
      /\ (ObeysLog(n.rep) /\ b.hash \notin DOMAIN n.rep.block_tree)
           => ObeysLog(q)
  BY InsertShape
<1> HIDE DEF q
<1>3. DOMAIN m = {"rep", "disk"} /\ m.rep = q /\ m.disk = n.disk
  BY DEF HasShape
<1> HIDE DEF m
<1>4. HasShape(m)
  BY <1>2, <1>3 DEF HasShape
<1>5. (\A p \in new : p[1] \notin DOMAIN n.rep.block_tree)
        => b.hash \notin DOMAIN n.rep.block_tree
  OBVIOUS
<1> HIDE DEF new
<1>6. Works(n, m, new)
  BY <1>2, <1>3, <1>4, <1>5 DEF Works
<1> QED
  BY <1>1, <1>6 DEF new

LEMMA AcceptAtWorks ==
  ASSUME NEW n, HasShape(n), NEW b, IsBlock(b), AcceptsProposal(n.rep, b)
  PROVE  Works(n, AcceptAt(n, b), {<<b.hash, b.cmd>>})
<1> DEFINE q == [n.rep EXCEPT !.block_tree = InsertBlock(@, b)]
           c == [Stored(b) EXCEPT !.cmd = NoOp]
           o == n.disk.block_tree
           v == InsertBlock(o, c)
           d == [n.disk EXCEPT !.block_tree = v]
           m == [rep |-> q, disk |-> d]
           new == {<<b.hash, b.cmd>>}
<1>1. AcceptAt(n, b) = m
  <2>1. LogBlock(n.disk, b) = d
    BY DEF LogBlock
  <2>2. ReceiveProposal(n.rep, b) = q
    BY DEF ReceiveProposal
  <2> HIDE DEF d, q
  <2> QED
    BY <2>1, <2>2 DEF AcceptAt
<1>2. /\ DOMAIN q = Fields
      /\ q.current_view \in Nat
      /\ HasBlocks(q.block_tree)
      /\ Pairs(q.block_tree) \subseteq Pairs(n.rep.block_tree) \cup new
      /\ (ObeysLog(n.rep) /\ b.hash \notin DOMAIN n.rep.block_tree)
           => ObeysLog(q)
  BY InsertShape
<1>3. IsBlock(c) /\ c.hash = b.hash /\ c.cmd = NoOp
  BY StoredIsBlock
<1>4. HasBlocks(o)
  BY DEF HasShape
<1> HIDE DEF q, c, o
<1>5. /\ HasBlocks(v)
      /\ Pairs(v) \subseteq Pairs(o) \cup {<<c.hash, c.cmd>>}
  BY <1>3, <1>4, InsertPairs
<1>6. <<c.hash, c.cmd>> \in NoOps
  BY <1>3 DEF NoOps, IsBlock
<1> HIDE DEF v
<1>7. /\ DOMAIN d = DiskFields
      /\ d.block_tree = v
      /\ d.current_view = n.disk.current_view
  BY DEF HasShape, DiskFields
<1> HIDE DEF d
<1>8. DOMAIN m = {"rep", "disk"} /\ m.rep = q /\ m.disk = d
  OBVIOUS
<1> HIDE DEF m
<1>9. HasShape(m)
  BY <1>2, <1>5, <1>7, <1>8 DEF HasShape
<1>10. (\A p \in new : p[1] \notin DOMAIN n.rep.block_tree)
         => b.hash \notin DOMAIN n.rep.block_tree
  OBVIOUS
<1> HIDE DEF new
<1>11. Pairs(m.disk.block_tree) \subseteq Pairs(n.disk.block_tree) \cup NoOps
  BY <1>5, <1>6, <1>7, <1>8 DEF o
<1>12. Works(n, m, new)
  BY <1>2, <1>8, <1>9, <1>10, <1>11 DEF Works
<1> QED
  BY <1>1, <1>12 DEF new

\* handle_vote, once or for all the votes of a round, changes the pool and
\* the certificate.
Counted(rep, q) ==
  /\ DOMAIN q = Fields
  /\ \A f \in Fields \ {"high_qc", "vote_pool"} : q[f] = rep[f]

LEMMA HandleVoteKeeps ==
  ASSUME NEW rep, NEW q, Counted(rep, q), NEW vote
  PROVE  Counted(rep, HandleVote(q, vote))
<1>1. CASE ~AdmitsVote(q, vote)
  BY <1>1 DEF HandleVote
<1>2. CASE AdmitsVote(q, vote)
  <2> DEFINE pool == q.vote_pool \cup
               {[block |-> vote.block, signer |-> vote.signer,
                 view |-> vote.view, epoch |-> vote.epoch]}
             qc == FormQC(q, vote, pool)
             m == [q EXCEPT !.vote_pool = pool, !.high_qc = qc]
  <2>1. HandleVote(q, vote) = m
    BY <1>2 DEF HandleVote, CountVote
  <2> HIDE DEF pool, qc
  <2>2. Counted(rep, m)
    BY DEF Counted, Fields
  <2> QED
    BY <2>1, <2>2
<1> QED
  BY <1>1, <1>2

LEMMA VoteFoldKeeps ==
  ASSUME NEW rep, DOMAIN rep = Fields, NEW V, IsFiniteSet(V)
  PROVE  Counted(rep, FoldSet(LAMBDA vote, q : HandleVote(q, vote), rep, V))
<1> DEFINE len == Cardinality(V)
           g == CHOOSE f : IsVoteFold(f, rep, V, len)
           D == {s \in SUBSET V : Counted(rep, g[s])}
<1>1. len \in Nat
  BY FS_CardinalityType
<1>2. SmallSubsets(V, len) = SUBSET V
  BY FS_Subset DEF SmallSubsets
<1>3. FoldSet(LAMBDA vote, q : HandleVote(q, vote), rep, V) = g[V]
  BY <1>2 DEF FoldSet, MapThenFoldSet, IsVoteFold, AnyOf
<1>4. IsVoteFold(g, rep, V, len)
  BY <1>1, VoteFoldExists
<1> HIDE DEF g, len
<1>5. ASSUME NEW s \in SUBSET V
      PROVE  g[s] = IF s = {} THEN rep
                    ELSE HandleVote(g[s \ {AnyOf(s)}], AnyOf(s))
  BY <1>2, <1>4, Zenon DEF IsVoteFold
<1>6. ASSUME NEW s \in SUBSET V, \A u \in SUBSET s : u # s => u \in D
      PROVE  s \in D
  <2>1. CASE s = {}
    <3>1. g[s] = rep
      BY <1>5, <2>1
    <3> QED
      BY <3>1 DEF Counted
  <2>2. CASE s # {}
    <3> DEFINE x == AnyOf(s)
               u == s \ {x}
    <3>1. x \in s
      BY <2>2 DEF AnyOf
    <3>2. Counted(rep, g[u])
      <4>1. u \in SUBSET s /\ u # s
        BY <3>1
      <4> QED
        BY <1>6, <4>1
    <3>3. g[s] = HandleVote(g[u], x)
      BY <1>5, <2>2
    <3> DEFINE p == g[u]
    <3> HIDE DEF u, x
    <3>4. Counted(rep, HandleVote(p, x))
      BY <3>2, HandleVoteKeeps
    <3> QED
      BY <3>3, <3>4
  <2> QED
    BY <2>1, <2>2
<1>7. SUBSET V \subseteq D
  <2> HIDE DEF D
  <2> QED
    BY <1>6, SubsetInduction
<1>8. Counted(rep, g[V])
  BY <1>7
<1> QED
  BY <1>3, <1>8

\* A certificate reaches the memory and the disk.
LEMMA HighQCWorks ==
  ASSUME NEW n, HasShape(n), NEW q, Counted(n.rep, q), NEW d,
         d = n.disk \/ \E qc : d = LogHighQC(n.disk, qc)
  PROVE  Works(n, [rep |-> q, disk |-> d], {})
<1> DEFINE m == [rep |-> q, disk |-> d]
<1>1. /\ DOMAIN q = Fields
      /\ q.current_view = n.rep.current_view
      /\ q.block_tree = n.rep.block_tree
      /\ q.committed_log = n.rep.committed_log
      /\ q.config_epoch = n.rep.config_epoch
      /\ q.active_validators = n.rep.active_validators
      /\ q.keys = n.rep.keys
  BY DEF Counted, Fields
<1>2. /\ DOMAIN d = DiskFields
      /\ d.block_tree = n.disk.block_tree
      /\ d.current_view = n.disk.current_view
  BY DEF HasShape, LogHighQC, DiskFields
<1>3. DOMAIN m = {"rep", "disk"} /\ m.rep = q /\ m.disk = d
  OBVIOUS
<1> HIDE DEF m
<1>4. HasShape(m)
  BY <1>1, <1>2, <1>3 DEF HasShape
<1>5. Works(n, m, {})
  BY <1>1, <1>2, <1>3, <1>4, WorksElsewhere
<1> QED
  BY <1>5 DEF m

LEMMA CountAtWorks ==
  ASSUME NEW n, HasShape(n), NEW V, IsFiniteSet(V)
  PROVE  Works(n, CountAt(n, V), {})
<1> DEFINE q == FoldSet(LAMBDA vote, rep : HandleVote(rep, vote), n.rep, V)
           d == IF q.high_qc = n.rep.high_qc THEN n.disk
                ELSE LogHighQC(n.disk, q.high_qc)
<1>1. CountAt(n, V) = [rep |-> q, disk |-> d]
  BY DEF CountAt
<1>2. Counted(n.rep, q)
  BY VoteFoldKeeps DEF HasShape
<1> HIDE DEF q
<1>3. d = n.disk \/ \E qc : d = LogHighQC(n.disk, qc)
  OBVIOUS
<1> HIDE DEF d
<1> QED
  BY <1>1, <1>2, <1>3, HighQCWorks

LEMMA LearnAtWorks ==
  ASSUME NEW n, HasShape(n), NEW qc
  PROVE  Works(n, LearnAt(n, qc), {})
<1>1. CASE ~NewerQC(qc, n.rep.high_qc)
  BY <1>1, WorksItself DEF LearnAt
<1>2. CASE NewerQC(qc, n.rep.high_qc)
  <2> DEFINE q == [n.rep EXCEPT !.high_qc = qc]
             d == LogHighQC(n.disk, qc)
  <2>1. LearnAt(n, qc) = [rep |-> q, disk |-> d]
    BY <1>2 DEF LearnAt, ApplyHighQC
  <2>2. Counted(n.rep, q)
    BY DEF Counted, HasShape, Fields
  <2>3. \E c : d = LogHighQC(n.disk, c)
    OBVIOUS
  <2> HIDE DEF q, d
  <2> QED
    BY <2>1, <2>2, <2>3, HighQCWorks
<1> QED
  BY <1>1, <1>2

LEMMA AdvanceAtWorks ==
  ASSUME NEW n, HasShape(n)
  PROVE  Works(n, AdvanceAt(n), {})
<1> DEFINE v == n.rep.current_view + 1
           q == [n.rep EXCEPT !.current_view = v, !.vote_pool = {}]
           d == [n.disk EXCEPT !.current_view = v]
           m == [rep |-> q, disk |-> d]
<1>1. AdvanceAt(n) = m
  BY DEF AdvanceAt, AdvanceView, LogView
<1>2. v \in Nat
  BY DEF HasShape
<1> HIDE DEF v
<1>3. /\ DOMAIN q = Fields
      /\ q.current_view = v
      /\ q.block_tree = n.rep.block_tree
      /\ q.committed_log = n.rep.committed_log
      /\ q.config_epoch = n.rep.config_epoch
      /\ q.active_validators = n.rep.active_validators
      /\ q.keys = n.rep.keys
  BY DEF HasShape, Fields
<1>4. /\ DOMAIN d = DiskFields
      /\ d.current_view = v
      /\ d.block_tree = n.disk.block_tree
  BY DEF HasShape, DiskFields
<1> HIDE DEF q, d
<1>5. DOMAIN m = {"rep", "disk"} /\ m.rep = q /\ m.disk = d
  OBVIOUS
<1> HIDE DEF m
<1>6. HasShape(m)
  BY <1>2, <1>3, <1>4, <1>5 DEF HasShape
<1>7. Works(n, m, {})
  BY <1>3, <1>4, <1>5, <1>6, WorksElsewhere
<1> QED
  BY <1>1, <1>7

\* A snapshot keeps the commands of the blocks.
LEMMA CapturePairs ==
  ASSUME NEW rep, HasBlocks(rep.block_tree), rep.current_view \in Nat
  PROVE  LET d == Capture(rep)
         IN  /\ DOMAIN d = DiskFields
             /\ d.current_view \in Nat
             /\ HasBlocks(d.block_tree)
             /\ Pairs(d.block_tree) = Pairs(rep.block_tree)
<1> DEFINE t == rep.block_tree
           u == [h \in DOMAIN t |-> Stored(t[h])]
           d == Capture(rep)
<1>1. HasBlocks(u) /\ Pairs(u) = Pairs(t)
  <2> HIDE DEF t
  <2> QED
    BY StoredPairs DEF t
<1>2. /\ DOMAIN d = DiskFields
      /\ d.current_view = rep.current_view
      /\ d.block_tree = u
  BY DEF Capture, DiskFields
<1> HIDE DEF d, u
<1> QED
  BY <1>1, <1>2 DEF d

LEMMA SnapshotAtWorks ==
  ASSUME NEW n, HasShape(n)
  PROVE  Works(n, SnapshotAt(n), {})
<1> DEFINE d == Capture(n.rep)
           m == [n EXCEPT !.disk = d]
<1>1. SnapshotAt(n) = m
  BY DEF SnapshotAt
<1>2. /\ DOMAIN d = DiskFields
      /\ d.current_view \in Nat
      /\ HasBlocks(d.block_tree)
      /\ Pairs(d.block_tree) = Pairs(n.rep.block_tree)
  BY CapturePairs DEF HasShape
<1> HIDE DEF d
<1>3. DOMAIN m = {"rep", "disk"} /\ m.rep = n.rep /\ m.disk = d
  BY DEF HasShape
<1> HIDE DEF m
<1>4. HasShape(m)
  BY <1>2, <1>3 DEF HasShape
<1>5. Works(n, m, {})
  BY <1>2, <1>3, <1>4 DEF Works
<1> QED
  BY <1>1, <1>5

(***************************************************************************)
(* The commits of a replica.                                               *)
(***************************************************************************)
\* What a command makes of a replica, and of its validators.
LEMMA MembershipChanges ==
  ASSUME NEW q, DOMAIN q = Fields, NEW cmd
  PROVE  LET m == ApplyMembership(q, cmd)
         IN  /\ DOMAIN m = Fields
             /\ m.current_view = q.current_view
             /\ m.block_tree = q.block_tree
             /\ m.committed_log = q.committed_log
             /\ ConfigOf(m) = Changed(ConfigOf(q), cmd)
<1> DEFINE c == ConfigOf(q)
<1>1. /\ c.validators = q.active_validators
      /\ c.keys = q.keys
      /\ c.epoch = q.config_epoch
  BY DEF ConfigOf
<1>2. ASSUME NEW vals, NEW keys
      PROVE  LET m == Reconfigure(q, vals, keys)
             IN  /\ DOMAIN m = Fields
                 /\ m.current_view = q.current_view
                 /\ m.block_tree = q.block_tree
                 /\ m.committed_log = q.committed_log
                 /\ ConfigOf(m) = [epoch |-> c.epoch + 1,
                                   validators |-> vals, keys |-> keys]
  <2> DEFINE m == Reconfigure(q, vals, keys)
  <2>1. /\ DOMAIN m = Fields
        /\ m.current_view = q.current_view
        /\ m.block_tree = q.block_tree
        /\ m.committed_log = q.committed_log
        /\ m.active_validators = vals
        /\ m.keys = keys
        /\ m.config_epoch = q.config_epoch + 1
    BY DEF Reconfigure, Fields
  <2> HIDE DEF m
  <2> QED
    BY <1>1, <2>1 DEF ConfigOf, m
<1>3. CASE Joins(c, cmd)
  <2> DEFINE vals == q.active_validators \cup {cmd.who}
             keys == AddPublicKey(q.keys, cmd.who)
  <2>1. ApplyMembership(q, cmd) = Reconfigure(q, vals, keys)
    BY <1>1, <1>3 DEF ApplyMembership, Joins
  <2>2. Changed(c, cmd) = [epoch |-> c.epoch + 1, validators |-> vals,
                           keys |-> keys]
    BY <1>1, <1>3 DEF Changed
  <2> HIDE DEF vals, keys, c
  <2> QED
    BY <1>2, <2>1, <2>2 DEF c
<1>4. CASE ~Joins(c, cmd) /\ Leaves(c, cmd)
  <2> DEFINE vals == q.active_validators \ {cmd.who}
             keys == RemovePublicKey(q.keys, cmd.who)
  <2>1. ApplyMembership(q, cmd) = Reconfigure(q, vals, keys)
    BY <1>1, <1>4 DEF ApplyMembership, Joins, Leaves
  <2>2. Changed(c, cmd) = [epoch |-> c.epoch + 1, validators |-> vals,
                           keys |-> keys]
    BY <1>1, <1>4 DEF Changed
  <2> HIDE DEF vals, keys, c
  <2> QED
    BY <1>2, <2>1, <2>2 DEF c
<1>5. CASE ~Joins(c, cmd) /\ ~Leaves(c, cmd)
  <2>1. ApplyMembership(q, cmd) = q
    BY <1>1, <1>5 DEF ApplyMembership, Joins, Leaves
  <2>2. Changed(c, cmd) = c
    BY <1>5 DEF Changed
  <2> HIDE DEF c
  <2> QED
    BY <2>1, <2>2 DEF c
<1> QED
  BY <1>3, <1>4, <1>5

LEMMA CommitAtWorks ==
  ASSUME NEW n, HasShape(n), NEW h \in DOMAIN n.rep.block_tree
  PROVE  LET m == CommitAt(n, h)
         IN  /\ Works(n, m, {})
             /\ m.rep.block_tree = n.rep.block_tree
<1> DEFINE t == n.rep.block_tree
           log == Append(n.rep.committed_log, h)
           p == [n.rep EXCEPT !.committed_log = log]
           q == ApplyMembership(p, t[h].cmd)
           d == LogCommit(n.disk, t[h], Len(n.rep.committed_log))
           m == [rep |-> q, disk |-> d]
<1>1. CommitAt(n, h) = m
  BY DEF CommitAt, Commit
<1>2. /\ DOMAIN p = Fields
      /\ p.current_view = n.rep.current_view
      /\ p.block_tree = t
      /\ p.committed_log = log
      /\ ConfigOf(p) = ConfigOf(n.rep)
  BY DEF HasShape, Fields, ConfigOf
<1> HIDE DEF p
<1>3. /\ DOMAIN q = Fields
      /\ q.current_view = p.current_view
      /\ q.block_tree = p.block_tree
      /\ q.committed_log = p.committed_log
      /\ ConfigOf(q) = Changed(ConfigOf(p), t[h].cmd)
  BY <1>2, MembershipChanges
<1> HIDE DEF q
<1>4. /\ DOMAIN d = DiskFields
      /\ d.current_view = n.disk.current_view
      /\ d.block_tree = n.disk.block_tree
  BY DEF HasShape, LogCommit, DiskFields
<1> HIDE DEF d
<1>5. DOMAIN m = {"rep", "disk"} /\ m.rep = q /\ m.disk = d
  OBVIOUS
<1> HIDE DEF m
<1>6. HasShape(m)
  BY <1>2, <1>3, <1>4, <1>5 DEF HasShape
<1>7. ASSUME ObeysLog(n.rep)
      PROVE  ObeysLog(q)
  <2> DEFINE c == ConfigOf(n.rep)
             old == n.rep.committed_log
  <2>1. old \in Seq(DOMAIN t)
    BY <1>7 DEF ObeysLog
  <2>2. PICK past : IsHistory(past, old, t, c)
    BY <1>7 DEF ObeysLog
  <2>3. h \in DOMAIN t /\ log = Append(old, h)
    OBVIOUS
  <2>4. ConfigOf(q) = Changed(c, t[h].cmd)
    BY <1>2, <1>3
  <2>5. q.block_tree = t /\ q.committed_log = log
    BY <1>2, <1>3
  <2> HIDE DEF t, c, old, log
  <2>6. \E next : IsHistory(next, log, t, Changed(c, t[h].cmd))
    BY <2>1, <2>2, <2>3, HistoryGrows
  <2>7. log \in Seq(DOMAIN t)
    BY <2>1, <2>3
  <2> QED
    BY <2>4, <2>5, <2>6, <2>7 DEF ObeysLog
<1>8. Works(n, m, {})
  BY <1>2, <1>3, <1>4, <1>5, <1>6, <1>7 DEF Works
<1> QED
  BY <1>1, <1>2, <1>3, <1>5, <1>8

LEMMA CommitFoldWorks ==
  ASSUME NEW n, HasShape(n), NEW seq \in Seq(DOMAIN n.rep.block_tree)
  PROVE  Works(n, FoldLeft(CommitAt, n, seq), {})
<1> DEFINE len == Len(seq)
           I == 1 .. len
           g == CHOOSE f : IsCommitFold(f, n, seq, len)
           Good(m) == /\ Works(n, m, {})
                      /\ m.rep.block_tree = n.rep.block_tree
           D == {s \in SUBSET I : Good(g[s])}
<1>1. len \in Nat /\ DOMAIN seq = I
  OBVIOUS
<1>2. FoldLeft(CommitAt, n, seq) = g[I]
  BY <1>1 DEF FoldLeft, MapThenFoldSet, IsCommitFold
<1>3. IsCommitFold(g, n, seq, len)
  BY <1>1, CommitFoldExists
<1> HIDE DEF g, len
<1>4. ASSUME NEW s \in SUBSET I
      PROVE  g[s] = IF s = {} THEN n
                    ELSE CommitAt(g[s \ {Max(s)}], seq[Max(s)])
  BY <1>3, Zenon DEF IsCommitFold
<1>5. IsFiniteSet(I) /\ I \subseteq Nat
  BY <1>1, FS_Interval
<1> HIDE DEF I
<1>6. ASSUME NEW s \in SUBSET I, \A u \in SUBSET s : u # s => u \in D
      PROVE  s \in D
  <2>1. CASE s = {}
    <3>1. g[s] = n
      BY <1>4, <2>1
    <3>2. Good(n)
      BY WorksItself
    <3> QED
      BY <3>1, <3>2
  <2>2. CASE s # {}
    <3> DEFINE x == Max(s)
               u == s \ {x}
    <3>1. x \in s
      BY <1>5, <2>2, FS_Subset, MaxMeans
    <3>2. Good(g[u])
      <4>1. u \in SUBSET s /\ u # s
        BY <3>1
      <4> QED
        BY <1>6, <4>1
    <3>3. g[s] = CommitAt(g[u], seq[x])
      BY <1>4, <2>2
    <3>4. seq[x] \in DOMAIN n.rep.block_tree
      BY <1>1, <3>1, ElementOfSeq DEF I, len
    <3> DEFINE p == g[u]
               m == CommitAt(p, seq[x])
    <3> HIDE DEF u, x
    <3>5. /\ HasShape(p)
          /\ seq[x] \in DOMAIN p.rep.block_tree
          /\ Works(n, p, {})
          /\ p.rep.block_tree = n.rep.block_tree
      BY <3>2, <3>4 DEF Works
    <3> HIDE DEF p
    <3>6. Works(p, m, {}) /\ m.rep.block_tree = p.rep.block_tree
      BY <3>5, CommitAtWorks
    <3> HIDE DEF m
    <3>7. Works(n, m, {})
      BY <3>5, <3>6, WorksTrans
    <3>8. Good(m)
      BY <3>5, <3>6, <3>7
    <3> QED
      BY <3>3, <3>8 DEF m, p
  <2> QED
    BY <2>1, <2>2
<1>7. SUBSET I \subseteq D
  <2> HIDE DEF D
  <2> QED
    BY <1>5, <1>6, SubsetInduction
<1>8. Good(g[I])
  BY <1>7
<1> QED
  BY <1>2, <1>8

LEMMA CommitAllAtWorks ==
  ASSUME NEW n, HasShape(n)
  PROVE  Works(n, CommitAllAt(n), {})
<1> DEFINE p == FoldLeft(CommitAt, n, CommitSequence(n.rep))
           m == CommitAllAt(n)
<1>1. CommitSequence(n.rep) \in Seq(DOMAIN n.rep.block_tree)
  BY CommitSequenceKnown DEF HasShape, HasBlocks
<1>2. Works(n, p, {})
  BY <1>1, CommitFoldWorks
<1>3. m = p \/ m = SnapshotAt(p)
  BY DEF CommitAllAt
<1> HIDE DEF m, p
<1>4. CASE m = p
  BY <1>2, <1>4 DEF m
<1>5. CASE m = SnapshotAt(p)
  <2>1. Works(p, m, {})
    BY <1>2, <1>5, SnapshotAtWorks DEF Works
  <2>2. Works(n, m, {})
    BY <1>2, <2>1, WorksTrans
  <2> QED
    BY <2>2 DEF m
<1> QED
  BY <1>3, <1>4, <1>5

\* The end of a round at a replica that is up.
LEMMA RoundEndWorks ==
  ASSUME NEW n, NEW l, NEW new, Works(n, l, new)
  PROVE  Works(n, AdvanceAt(CommitAllAt(l)), new)
<1> DEFINE c == CommitAllAt(l)
           m == AdvanceAt(c)
<1>1. Works(l, c, {})
  BY CommitAllAtWorks DEF Works
<1> HIDE DEF c
<1>2. Works(c, m, {})
  BY <1>1, AdvanceAtWorks DEF Works
<1> HIDE DEF m
<1>3. Works(n, c, new)
  BY <1>1, WorksTrans
<1>4. Works(n, m, new)
  BY <1>2, <1>3, WorksTrans
<1> QED
  BY <1>4 DEF m, c

(***************************************************************************)
(* Crashes and recoveries, which may forget commands but find none.        *)
(***************************************************************************)
Holds(m, pairs) ==
  /\ HasShape(m)
  /\ Pairs(m.rep.block_tree) \subseteq pairs \cup NoOps
  /\ Pairs(m.disk.block_tree) \subseteq pairs \cup NoOps

LEMMA FreshShape ==
  ASSUME NEW id, NEW vals
  PROVE  LET rep == FreshReplica(id, vals, Replicas)
         IN  /\ DOMAIN rep = Fields
             /\ rep.current_view = 0
             /\ HasBlocks(rep.block_tree)
             /\ Pairs(rep.block_tree) \subseteq NoOps
             /\ DOMAIN rep.block_tree = {0}
             /\ rep.committed_log = <<>>
             /\ rep.config_epoch = 0
             /\ rep.active_validators = vals
             /\ rep.keys = Replicas
<1> DEFINE rep == FreshReplica(id, vals, Replicas)
           t == [h \in {0} |-> Genesis]
<1>1. HasBlocks(t) /\ Pairs(t) \subseteq NoOps /\ DOMAIN t = {0}
  BY GenesisBlocks
<1>2. /\ DOMAIN rep = Fields
      /\ rep.current_view = 0
      /\ rep.block_tree = t
      /\ rep.committed_log = <<>>
      /\ rep.config_epoch = 0
      /\ rep.active_validators = vals
      /\ rep.keys = Replicas
  BY DEF FreshReplica, Fields
<1> HIDE DEF rep, t
<1> QED
  BY <1>1, <1>2 DEF rep

LEMMA CrashAtHolds ==
  ASSUME NEW r, NEW n, HasShape(n)
  PROVE  Holds(CrashAt(r, n), Pairs(n.disk.block_tree))
<1> DEFINE rep == FreshReplica(r, 0 .. n.rep.config_n - 1, Replicas)
           m == [n EXCEPT !.rep = rep]
<1>1. CrashAt(r, n) = m
  BY DEF CrashAt
<1>2. /\ DOMAIN rep = Fields
      /\ rep.current_view = 0
      /\ HasBlocks(rep.block_tree)
      /\ Pairs(rep.block_tree) \subseteq NoOps
  BY FreshShape
<1> HIDE DEF rep
<1>3. DOMAIN m = {"rep", "disk"} /\ m.rep = rep /\ m.disk = n.disk
  BY DEF HasShape
<1> HIDE DEF m
<1>4. HasShape(m)
  BY <1>2, <1>3 DEF HasShape
<1>5. Holds(m, Pairs(n.disk.block_tree))
  BY <1>2, <1>3, <1>4 DEF Holds
<1> QED
  BY <1>1, <1>5

LEMMA RecoveredShape ==
  ASSUME NEW r, NEW n, HasShape(n), NEW k
  PROVE  LET rep == Recovered(r, n.disk, k)
         IN  /\ DOMAIN rep = Fields
             /\ rep.current_view = n.disk.current_view
             /\ rep.block_tree = n.disk.block_tree
<1> DEFINE fresh == FreshReplica(r, 0 .. k - 1, Replicas)
           vals == IF n.disk.members = None THEN fresh.active_validators
                   ELSE n.disk.members
           rep == [fresh EXCEPT
             !.current_view = n.disk.current_view,
             !.block_tree = n.disk.block_tree,
             !.high_qc = n.disk.high_qc,
             !.committed_log = n.disk.committed_log,
             !.config_epoch = n.disk.epoch, !.active_validators = vals]
<1>1. Recovered(r, n.disk, k) = rep
  BY DEF Recovered
<1>2. DOMAIN fresh = Fields
  BY FreshShape
<1> HIDE DEF fresh, vals
<1>3. /\ DOMAIN rep = Fields
      /\ rep.current_view = n.disk.current_view
      /\ rep.block_tree = n.disk.block_tree
  BY <1>2 DEF Fields
<1> QED
  BY <1>1, <1>3

\* The state transfer takes over blocks as they are.
LEMMA CatchUpShape ==
  ASSUME NEW own, DOMAIN own = Fields, HasBlocks(own.block_tree),
         NEW donor, HasBlocks(donor.block_tree)
  PROVE  LET q == CatchUp(own, donor)
         IN  /\ DOMAIN q = Fields
             /\ q.current_view = own.current_view
             /\ HasBlocks(q.block_tree)
             /\ Pairs(q.block_tree) \subseteq
                  Pairs(own.block_tree) \cup Pairs(donor.block_tree)
<1> DEFINE t == own.block_tree
           u == donor.block_tree
           missing == DOMAIN u \ DOMAIN t
           v == [h \in DOMAIN t \cup missing |->
                   IF h \in missing THEN u[h] ELSE t[h]]
           log == IF IsStrictPrefix(own.committed_log, donor.committed_log)
                  THEN donor.committed_log ELSE own.committed_log
           qc == IF donor.high_qc # None /\ NewerQC(donor.high_qc, own.high_qc)
                 THEN donor.high_qc ELSE own.high_qc
           q == [own EXCEPT !.block_tree = v, !.committed_log = log,
                            !.high_qc = qc]
<1>1. CatchUp(own, donor) = q
  BY DEF CatchUp
<1>2. HasBlocks(t) /\ HasBlocks(u)
  OBVIOUS
<1> HIDE DEF t, u
<1>3. /\ DOMAIN v = DOMAIN t \cup DOMAIN u
      /\ \A h \in DOMAIN t : v[h] = t[h]
      /\ \A h \in DOMAIN u \ DOMAIN t : v[h] = u[h]
  OBVIOUS
<1>4. IsFiniteSet(DOMAIN t \cup DOMAIN u)
  BY <1>2, FS_Union DEF HasBlocks
<1> HIDE DEF v
<1>5. HasBlocks(v)
  BY <1>2, <1>3, <1>4 DEF HasBlocks
<1>6. Pairs(v) \subseteq Pairs(t) \cup Pairs(u)
  BY <1>3 DEF Pairs
<1> HIDE DEF log, qc
<1>7. /\ DOMAIN q = Fields
      /\ q.current_view = own.current_view
      /\ q.block_tree = v
  BY DEF Fields
<1> HIDE DEF q
<1> QED
  BY <1>1, <1>5, <1>6, <1>7 DEF t, u

LEMMA SaveHolds ==
  ASSUME NEW n, HasShape(n), NEW q, DOMAIN q = Fields,
         q.current_view \in Nat, HasBlocks(q.block_tree)
  PROVE  Holds(SnapshotAt([n EXCEPT !.rep = q]), Pairs(q.block_tree))
<1> DEFINE d == Capture(q)
           m == [[n EXCEPT !.rep = q] EXCEPT !.disk = d]
<1>1. SnapshotAt([n EXCEPT !.rep = q]) = m
  <2>1. DOMAIN n = {"rep", "disk"}
    BY DEF HasShape
  <2> QED
    BY <2>1 DEF SnapshotAt
<1>2. /\ DOMAIN d = DiskFields
      /\ d.current_view \in Nat
      /\ HasBlocks(d.block_tree)
      /\ Pairs(d.block_tree) = Pairs(q.block_tree)
  BY CapturePairs
<1> HIDE DEF d
<1>3. DOMAIN m = {"rep", "disk"} /\ m.rep = q /\ m.disk = d
  BY DEF HasShape
<1> HIDE DEF m
<1>4. HasShape(m)
  BY <1>2, <1>3 DEF HasShape
<1>5. Holds(m, Pairs(q.block_tree))
  BY <1>2, <1>3, <1>4 DEF Holds
<1> QED
  BY <1>1, <1>5

(***************************************************************************)
(* The cluster.                                                            *)
(***************************************************************************)
ShapesInv ==
  /\ DOMAIN nodes = Replicas
  /\ \A r \in Replicas : HasShape(nodes[r])

\* Which command is known anywhere under which hash.
PairsOf(n) == Pairs(n.rep.block_tree) \cup Pairs(n.disk.block_tree)

AllPairs == UNION {PairsOf(nodes[r]) : r \in Replicas}

\* A command is in no two places of the queues, and once it is in a block it
\* is in no queue and in no other block; so a leader that pops it cannot
\* repeat it, and no disk can bring it back under another hash.
OnceInv ==
  /\ \A p \in AllPairs : p[2] # NoOp =>
       /\ p[2] \in enqueued
       /\ \A q \in AllPairs : q[2] = p[2] => q[1] = p[1]
       /\ \A r \in Replicas : \A i \in DOMAIN queue[r] : queue[r][i] # p[2]
  /\ \A r, s \in Replicas : \A i \in DOMAIN queue[r], j \in DOMAIN queue[s] :
       queue[r][i] = queue[s][j] => r = s /\ i = j

\* Those that were never down agree on what is behind a hash, and each of
\* them is where the commands of its log lead to.
LogInv ==
  /\ \A r \in dummies : ObeysLog(nodes[r].rep)
  /\ \A r \in dummies : \A p \in Pairs(nodes[r].rep.block_tree) :
       /\ p[1] < nextHash
       /\ \A s \in dummies : \A q \in Pairs(nodes[s].rep.block_tree) :
            q[1] = p[1] => q[2] = p[2]

PacemakerInv ==
  FieldsInv /\ PacemakerTypeOK /\ ShapesInv /\ OnceInv /\ LogInv

\* What a step makes of the replicas when it brings these commands about.
Teaches(new) ==
  /\ ShapesInv'
  /\ AllPairs' \subseteq AllPairs \cup new \cup NoOps
  /\ dummies' \subseteq dummies
  /\ \A r \in dummies' : Works(nodes[r], nodes'[r], new)

LEMMA PairHasForm ==
  ASSUME NEW t, NEW p \in Pairs(t)
  PROVE  p = <<p[1], p[2]>>
  BY DEF Pairs

\* One replica at a time.
LEMMA TeachesEach ==
  ASSUME NEW new, DOMAIN nodes' = Replicas, dummies' \subseteq dummies,
         dummies \subseteq Replicas,
         \A r \in Replicas :
           /\ HasShape(nodes'[r])
           /\ PairsOf(nodes'[r]) \subseteq AllPairs \cup new \cup NoOps
           /\ r \in dummies' => Works(nodes[r], nodes'[r], new)
  PROVE  Teaches(new)
<1>1. ShapesInv'
  BY DEF ShapesInv
<1>2. AllPairs' \subseteq AllPairs \cup new \cup NoOps
  <2>1. ASSUME NEW p \in AllPairs'
        PROVE  p \in AllPairs \cup new \cup NoOps
    <3>1. PICK r \in Replicas : p \in PairsOf(nodes'[r])
      BY <2>1 DEF AllPairs, PairsOf
    <3> QED
      BY <3>1
  <2> QED
    BY <2>1
<1> QED
  BY <1>1, <1>2 DEF Teaches

\* What an operation teaches one replica.
LEMMA WorksPairs ==
  ASSUME ShapesInv, NEW r \in Replicas, NEW m, NEW new,
         Works(nodes[r], m, new)
  PROVE  HasShape(m) /\ PairsOf(m) \subseteq AllPairs \cup new \cup NoOps
<1>1. PairsOf(nodes[r]) \subseteq AllPairs
  BY DEF AllPairs
<1> DEFINE n == nodes[r]
<1> HIDE DEF n
<1>2. /\ HasShape(m)
      /\ PairsOf(m) \subseteq PairsOf(n) \cup new \cup NoOps
  BY DEF Works, PairsOf, n
<1> QED
  BY <1>1, <1>2 DEF n

\* Commands that are known stay where they are; the others wait.
LEMMA OnceKept ==
  ASSUME OnceInv, NEW new, Teaches(new), enqueued' = enqueued,
         \A r \in Replicas : \A i \in DOMAIN queue'[r] :
           /\ i \in DOMAIN queue[r]
           /\ queue'[r][i] = queue[r][i],
         \A p \in new : p[2] # NoOp =>
           /\ \A q \in new : q = p
           /\ \E l \in Replicas : \E i \in DOMAIN queue[l] :
                /\ queue[l][i] = p[2]
                /\ i \notin DOMAIN queue'[l],
         \A r \in Replicas : \A i \in DOMAIN queue[r] : queue[r][i] \in enqueued
  PROVE  OnceInv'
<1>1. AllPairs' \subseteq AllPairs \cup new \cup NoOps
  BY DEF Teaches
<1>2. \A p \in NoOps : p[2] = NoOp
  BY DEF NoOps
<1>3. ASSUME NEW p \in AllPairs', p[2] # NoOp
      PROVE  p \in AllPairs \/ p \in new
  BY <1>1, <1>2, <1>3
<1>4. ASSUME NEW p \in new, p[2] # NoOp
      PROVE  /\ p[2] \in enqueued
             /\ \A q \in AllPairs : q[2] # p[2]
             /\ \A r \in Replicas : \A i \in DOMAIN queue'[r] :
                  queue'[r][i] # p[2]
  <2>1. PICK l \in Replicas : \E i \in DOMAIN queue[l] :
               queue[l][i] = p[2] /\ i \notin DOMAIN queue'[l]
    BY <1>4
  <2>2. PICK i \in DOMAIN queue[l] :
               queue[l][i] = p[2] /\ i \notin DOMAIN queue'[l]
    BY <2>1
  <2>3. p[2] \in enqueued
    BY <2>2
  <2>4. \A q \in AllPairs : q[2] # p[2]
    BY <1>4, <2>2 DEF OnceInv
  <2>5. ASSUME NEW r \in Replicas, NEW j \in DOMAIN queue'[r],
               queue'[r][j] = p[2]
        PROVE  FALSE
    <3>1. j \in DOMAIN queue[r] /\ queue[r][j] = queue[l][i]
      BY <2>2, <2>5
    <3>2. r = l /\ j = i
      BY <3>1 DEF OnceInv
    <3> QED
      BY <2>2, <2>5, <3>2
  <2> QED
    BY <2>3, <2>4, <2>5
<1>5. ASSUME NEW p \in AllPairs', p[2] # NoOp
      PROVE  /\ p[2] \in enqueued'
             /\ \A q \in AllPairs' : q[2] = p[2] => q[1] = p[1]
             /\ \A r \in Replicas : \A i \in DOMAIN queue'[r] :
                  queue'[r][i] # p[2]
  <2>1. CASE p \in AllPairs
    <3>1. ASSUME NEW q \in AllPairs', q[2] = p[2]
          PROVE  q[1] = p[1]
      <4>1. q \in AllPairs
        BY <1>3, <1>4, <1>5, <2>1, <3>1
      <4> QED
        BY <1>5, <2>1, <3>1, <4>1 DEF OnceInv
    <3> QED
      BY <1>5, <2>1, <3>1 DEF OnceInv
  <2>2. CASE p \in new
    <3>1. ASSUME NEW q \in AllPairs', q[2] = p[2]
          PROVE  q[1] = p[1]
      <4>1. q \in new
        BY <1>3, <1>4, <1>5, <2>2, <3>1
      <4> QED
        BY <1>5, <2>2, <4>1
    <3> QED
      BY <1>4, <1>5, <2>2, <3>1
  <2> QED
    BY <1>3, <1>5, <2>1, <2>2
<1>6. \A r, s \in Replicas : \A i \in DOMAIN queue'[r], j \in DOMAIN queue'[s] :
        queue'[r][i] = queue'[s][j] => r = s /\ i = j
  BY DEF OnceInv
<1> QED
  BY <1>5, <1>6 DEF OnceInv

\* The replicas that were never down learn a hash that none of them knows.
LEMMA LogKept ==
  ASSUME LogInv, nextHash \in Nat, NEW cmd,
         NEW new \in SUBSET {<<nextHash, cmd>>}, Teaches(new),
         nextHash' \in {nextHash, nextHash + 1},
         new # {} => nextHash' = nextHash + 1,
         \A r \in dummies :
           DOMAIN nodes[r].rep.block_tree \subseteq Nat
  PROVE  LogInv'
<1>1. \A r \in dummies' : r \in dummies /\ Works(nodes[r], nodes'[r], new)
  BY DEF Teaches
<1>2. ASSUME NEW r \in dummies, NEW p \in Pairs(nodes[r].rep.block_tree)
      PROVE  p[1] \in Nat /\ p[1] < nextHash
  BY DEF LogInv, Pairs
<1>3. ASSUME NEW r \in dummies', NEW p \in Pairs(nodes'[r].rep.block_tree)
      PROVE  p \in Pairs(nodes[r].rep.block_tree) \/ p \in new
  BY <1>1 DEF Works
<1>4. \A p \in new : p[1] = nextHash /\ p[2] = cmd
  OBVIOUS
<1>5. ASSUME NEW r \in dummies'
      PROVE  ObeysLog(nodes'[r].rep)
  <2>1. ASSUME NEW p \in new, p[1] \in DOMAIN nodes[r].rep.block_tree
        PROVE  FALSE
    <3> DEFINE q == <<p[1], nodes[r].rep.block_tree[p[1]].cmd>>
    <3>1. q \in Pairs(nodes[r].rep.block_tree) /\ q[1] = nextHash
      BY <1>4, <2>1 DEF Pairs
    <3> HIDE DEF q
    <3> QED
      BY <1>1, <1>2, <3>1
  <2> QED
    BY <1>1, <2>1 DEF Works, LogInv
<1>6. ASSUME NEW r \in dummies', NEW p \in Pairs(nodes'[r].rep.block_tree)
      PROVE  p[1] < nextHash'
  BY <1>1, <1>2, <1>3, <1>4
<1>7. ASSUME NEW r \in dummies', NEW p \in Pairs(nodes'[r].rep.block_tree),
             NEW s \in dummies', NEW q \in Pairs(nodes'[s].rep.block_tree),
             q[1] = p[1]
      PROVE  q[2] = p[2]
  <2>1. CASE p \in new /\ q \in new
    BY <1>4, <2>1
  <2>2. CASE p \in new /\ q \in Pairs(nodes[s].rep.block_tree)
    BY <1>1, <1>2, <1>4, <1>7, <2>2
  <2>3. CASE p \in Pairs(nodes[r].rep.block_tree) /\ q \in new
    BY <1>1, <1>2, <1>4, <1>7, <2>3
  <2>4. CASE /\ p \in Pairs(nodes[r].rep.block_tree)
             /\ q \in Pairs(nodes[s].rep.block_tree)
    BY <1>1, <1>7, <2>4 DEF LogInv
  <2> QED
    BY <1>3, <2>1, <2>2, <2>3, <2>4
<1> QED
  BY <1>5, <1>6, <1>7 DEF LogInv

(***************************************************************************)
(* A round.                                                                *)
(***************************************************************************)
\* current_leader is a replica that has not crashed, if there is one.
LEMMA LeaderIsLive ==
  ASSUME ShapesInv, NEW down \in SUBSET Replicas, down # Replicas
  PROVE  LeaderAmong(down) \in Replicas \ down
<1> DEFINE up == Replicas \ down
           views == {nodes[r].rep.current_view : r \in up}
           f == [r \in up |-> nodes[r].rep.current_view]
           live == {o \in 0 .. N - 1 : (BaseView(down) + o) % N \notin down}
<1>1. N \in Nat \ {0} /\ 0 .. N - 1 = Replicas
  BY SimulationAssumption, ReplicasFinite
<1>2. BaseView(down) \in Nat
  <2>1. IsFiniteSet(up)
    BY ReplicasFinite, FS_Subset
  <2>2. f \in Surjection(up, views)
    BY DEF Surjection
  <2>3. views \subseteq Nat /\ views # {}
    BY DEF ShapesInv, HasShape
  <2>4. BaseView(down) = Max(views)
    BY DEF BaseView
  <2> HIDE DEF views, f, up
  <2>5. IsFiniteSet(views)
    BY <2>1, <2>2, FS_Surjection
  <2>6. Max(views) \in views
    BY <2>3, <2>5, MaxMeans
  <2> QED
    BY <2>3, <2>4, <2>6
<1>3. live # {} /\ live \subseteq Nat
  <2>1. PICK c \in 0 .. N - 1 : c \notin down
    BY <1>1
  <2>2. \E o \in 0 .. N - 1 : (BaseView(down) + o) % N = c
    BY <1>1, <1>2, EveryRemainderMet
  <2> QED
    BY <1>1, <2>1, <2>2
<1>4. LeaderAmong(down) = (BaseView(down) + Min(live)) % N
  BY DEF LeaderAmong
<1> DEFINE o == Min(live)
           l == (BaseView(down) + o) % N
<1>5. o \in live
  <2> HIDE DEF live
  <2> QED
    BY <1>3, MinMeans
<1> HIDE DEF o
<1>6. o \in Nat /\ l \notin down
  BY <1>1, <1>5
<1>7. l \in 0 .. N - 1
  BY <1>1, <1>2, <1>6
<1> HIDE DEF l
<1>8. l \in Replicas \ down
  BY <1>1, <1>6, <1>7
<1> QED
  BY <1>4, <1>8 DEF o, l

\* The block of a round.
LEMMA NewBlockShape ==
  ASSUME NEW rep, NEW view, NEW hash \in Nat, NEW cmd
  PROVE  LET b == NewBlock(rep, view, hash, cmd)
         IN  IsBlock(b) /\ b.hash = hash /\ b.cmd = cmd
  BY DEF NewBlock, IsBlock, BlockFields

\* Whoever sits a round out is as it was, or loses its memory.
LEMMA SitsOut ==
  ASSUME ShapesInv, NEW r \in Replicas, NEW new
  PROVE  /\ HasShape(NodesNow[r])
         /\ PairsOf(NodesNow[r]) \subseteq AllPairs \cup new \cup NoOps
         /\ r \notin TimedOut => Works(nodes[r], NodesNow[r], new)
<1> DEFINE n == nodes[r]
           m == NodesNow[r]
<1>1. HasShape(n) /\ PairsOf(n) \subseteq AllPairs
  BY DEF ShapesInv, AllPairs
<1>2. m = IF r \in TimedOut THEN CrashAt(r, n) ELSE n
  BY DEF NodesNow
<1> HIDE DEF n, m
<1>3. CASE r \in TimedOut
  <2>1. Holds(m, Pairs(n.disk.block_tree))
    BY <1>1, <1>2, <1>3, CrashAtHolds
  <2>2. HasShape(m) /\ PairsOf(m) \subseteq PairsOf(n) \cup NoOps
    BY <2>1 DEF Holds, PairsOf
  <2> QED
    BY <1>1, <1>3, <2>2 DEF m
<1>4. CASE r \notin TimedOut
  <2>1. m = n
    BY <1>2, <1>4
  <2>2. Works(n, m, {})
    BY <1>1, <2>1, WorksItself
  <2>3. Works(n, m, new)
    BY <2>2, WorksMore
  <2> QED
    BY <1>1, <2>1, <2>3 DEF m, n
<1> QED
  BY <1>3, <1>4

\* A round without a proposal.
LEMMA TimeoutTeaches ==
  ASSUME ShapesInv, nodes' = ViewTimeoutOf(NodesNow),
         dummies' = dummies \ TimedOut, dummies \subseteq Replicas
  PROVE  Teaches({})
<1>1. /\ DOMAIN nodes' = Replicas
      /\ \A r \in Up : r \in Replicas /\ nodes'[r] = AdvanceAt(nodes[r])
      /\ \A r \in Replicas \ Up : nodes'[r] = NodesNow[r]
  BY UpIsLive DEF ViewTimeoutOf, Up
<1>2. ASSUME NEW r \in Replicas
      PROVE  /\ HasShape(nodes'[r])
             /\ PairsOf(nodes'[r]) \subseteq AllPairs \cup {} \cup NoOps
             /\ r \in dummies' => Works(nodes[r], nodes'[r], {})
  <2>1. CASE r \in Up
    <3> DEFINE n == nodes[r]
               m == AdvanceAt(n)
    <3>1. HasShape(n)
      BY DEF ShapesInv
    <3> HIDE DEF n
    <3>2. Works(n, m, {})
      BY <3>1, AdvanceAtWorks
    <3> HIDE DEF m
    <3>3. HasShape(m) /\ PairsOf(m) \subseteq AllPairs \cup {} \cup NoOps
      BY <3>2, WorksPairs DEF n
    <3> QED
      BY <1>1, <2>1, <3>2, <3>3 DEF n, m
  <2>2. CASE r \notin Up
    BY <1>1, <2>2, SitsOut
  <2> QED
    BY <2>1, <2>2
<1>3. dummies' \subseteq dummies
  OBVIOUS
<1> QED
  BY <1>1, <1>2, <1>3, TeachesEach

\* A call that is refused.
LEMMA RefusedTeaches ==
  ASSUME ShapesInv, nodes' = NodesNow,
         dummies' = dummies \ TimedOut, dummies \subseteq Replicas
  PROVE  Teaches({})
<1>1. DOMAIN nodes' = Replicas
  BY DEF NodesNow
<1>2. ASSUME NEW r \in Replicas
      PROVE  /\ HasShape(nodes'[r])
             /\ PairsOf(nodes'[r]) \subseteq AllPairs \cup {} \cup NoOps
             /\ r \in dummies' => Works(nodes[r], nodes'[r], {})
  BY SitsOut
<1>3. dummies' \subseteq dummies
  OBVIOUS
<1> QED
  BY <1>1, <1>2, <1>3, TeachesEach

\* The block of a round at its leader, and at another replica, which votes or
\* not and hears of the certificate or not.
LEMMA LeaderWorks ==
  ASSUME NEW n, HasShape(n), NEW b, IsBlock(b), NEW V, IsFiniteSet(V)
  PROVE  Works(n, CountAt(ProposeAt(n, b), V), {<<b.hash, b.cmd>>})
<1> DEFINE p == ProposeAt(n, b)
           m == CountAt(p, V)
           new == {<<b.hash, b.cmd>>}
<1>1. Works(n, p, new)
  BY ProposeAtWorks
<1> HIDE DEF p, new
<1>2. Works(p, m, {})
  BY <1>1, CountAtWorks DEF Works
<1> HIDE DEF m
<1>3. Works(n, m, new)
  BY <1>1, <1>2, WorksTrans
<1> QED
  BY <1>3 DEF m, p, new

LEMMA FollowerWorks ==
  ASSUME NEW n, HasShape(n), NEW b, IsBlock(b), NEW qc,
         NEW votes \in BOOLEAN, NEW hears \in BOOLEAN,
         votes => AcceptsProposal(n.rep, b)
  PROVE  LET v == IF votes THEN AcceptAt(n, b) ELSE n
             m == IF hears THEN LearnAt(v, qc) ELSE v
         IN  Works(n, m, {<<b.hash, b.cmd>>})
<1> DEFINE v == IF votes THEN AcceptAt(n, b) ELSE n
           m == IF hears THEN LearnAt(v, qc) ELSE v
           new == {<<b.hash, b.cmd>>}
<1>1. Works(n, v, new)
  <2>1. CASE votes
    BY <2>1, AcceptAtWorks
  <2>2. CASE ~votes
    <3>1. Works(n, n, {})
      BY WorksItself
    <3>2. Works(n, n, new)
      BY <3>1, WorksMore
    <3> QED
      BY <2>2, <3>2
  <2> QED
    BY <2>1, <2>2
<1> HIDE DEF v, new
<1>2. Works(v, m, {})
  <2>1. HasShape(v)
    BY <1>1 DEF Works
  <2>2. CASE hears
    BY <2>1, <2>2, LearnAtWorks
  <2>3. CASE ~hears
    BY <2>1, <2>3, WorksItself
  <2> QED
    BY <2>2, <2>3
<1> HIDE DEF m
<1>3. Works(n, m, new)
  BY <1>1, <1>2, WorksTrans
<1> QED
  BY <1>3 DEF m, v, new

\* The votes of a round are finitely many.
LEMMA VotesFinite ==
  ASSUME NEW b, NEW voters \in SUBSET Replicas
  PROVE  IsFiniteSet({Sign(SignerOf[r], b) : r \in voters})
<1> DEFINE V == {Sign(SignerOf[r], b) : r \in voters}
           f == [r \in voters |-> Sign(SignerOf[r], b)]
<1>1. IsFiniteSet(voters)
  BY ReplicasFinite, FS_Subset
<1>2. f \in Surjection(voters, V)
  BY DEF Surjection
<1> HIDE DEF V, f
<1>3. IsFiniteSet(V)
  BY <1>1, <1>2, FS_Surjection
<1> QED
  BY <1>3 DEF V

\* A round with a proposal teaches its command under its hash.
LEMMA RoundTeaches ==
  ASSUME ShapesInv, NEW l \in Up, NEW hash \in Nat, NEW cmd,
         nodes' = RoundOf(l, hash, cmd),
         dummies' = dummies \ TimedOut, dummies \subseteq Replicas
  PROVE  Teaches({<<hash, cmd>>})
<1> DEFINE leader == nodes[l].rep
           b == NewBlock(leader, leader.current_view, hash, cmd)
           voters == {r \in GetsProposal(l) : AcceptsProposal(nodes[r].rep, b)}
           votes == {Sign(SignerOf[r], b) : r \in voters}
           counted == CountAt(ProposeAt(nodes[l], b), votes)
           qc == counted.rep.high_qc
           formed == qc # leader.high_qc
           voted(r) == IF r \in voters THEN AcceptAt(nodes[r], b) ELSE nodes[r]
           told(r) == IF r = l THEN counted
                      ELSE IF formed /\ r \in GetsQC(l)
                           THEN LearnAt(voted(r), qc) ELSE voted(r)
           all == [r \in Replicas |-> told(r)]
           new == {<<hash, cmd>>}
<1>1. nodes' = CommitAndAdvance(all)
  BY DEF RoundOf
<1>2. \A r \in Up : r \in Replicas /\ HasShape(nodes[r])
  BY DEF Up, ShapesInv
<1>3. /\ IsBlock(b)
      /\ new = {<<b.hash, b.cmd>>}
  <2> HIDE DEF leader
  <2> QED
    BY NewBlockShape
<1>4. /\ voters \in SUBSET Replicas
      /\ \A r \in voters : AcceptsProposal(nodes[r].rep, b)
  BY DEF GetsProposal, Up
<1> HIDE DEF b, voters
<1>5. IsFiniteSet(votes)
  BY <1>4, VotesFinite
<1> HIDE DEF votes
<1>6. Works(nodes[l], counted, new)
  <2> DEFINE n == nodes[l]
  <2>1. HasShape(n)
    BY <1>2
  <2> HIDE DEF n
  <2>2. Works(n, CountAt(ProposeAt(n, b), votes), {<<b.hash, b.cmd>>})
    BY <1>3, <1>5, <2>1, LeaderWorks
  <2> QED
    BY <1>3, <2>2 DEF n
<1> HIDE DEF counted, new
<1>7. ASSUME NEW r \in Up
      PROVE  Works(nodes[r], told(r), new)
  <2>1. CASE r = l
    <3>1. told(r) = counted
      BY <2>1
    <3> HIDE DEF told
    <3> QED
      BY <1>6, <2>1, <3>1
  <2>2. CASE r # l
    <3> DEFINE n == nodes[r]
               hears == formed /\ r \in GetsQC(l)
               votes_ == r \in voters
               v == IF votes_ THEN AcceptAt(n, b) ELSE n
               m == IF hears THEN LearnAt(v, qc) ELSE v
    <3>1. told(r) = m
      BY <2>2
    <3>2. /\ HasShape(n)
          /\ hears \in BOOLEAN
          /\ votes_ \in BOOLEAN
          /\ votes_ => AcceptsProposal(n.rep, b)
      BY <1>2, <1>4
    <3> HIDE DEF n, hears, votes_, qc, told, formed
    <3>3. Works(n, m, {<<b.hash, b.cmd>>})
      BY <1>3, <3>2, FollowerWorks
    <3> HIDE DEF m
    <3> QED
      BY <1>3, <3>1, <3>3 DEF n
  <2> QED
    BY <2>1, <2>2
<1> HIDE DEF told, formed, qc
<1>8. /\ DOMAIN nodes' = Replicas
      /\ \A r \in Up : nodes'[r] = AdvanceAt(CommitAllAt(told(r)))
      /\ \A r \in Replicas \ Up : nodes'[r] = NodesNow[r]
  BY <1>1, <1>2 DEF CommitAndAdvance
<1>9. ASSUME NEW r \in Replicas
      PROVE  /\ HasShape(nodes'[r])
             /\ PairsOf(nodes'[r]) \subseteq AllPairs \cup new \cup NoOps
             /\ r \in dummies' => Works(nodes[r], nodes'[r], new)
  <2>1. CASE r \in Up
    <3> DEFINE n == nodes[r]
               t == told(r)
               m == AdvanceAt(CommitAllAt(t))
    <3>1. nodes'[r] = m /\ Works(n, t, new)
      BY <1>7, <1>8, <2>1
    <3> HIDE DEF n, t
    <3>2. Works(n, m, new)
      BY <3>1, RoundEndWorks
    <3> HIDE DEF m
    <3>3. HasShape(m) /\ PairsOf(m) \subseteq AllPairs \cup new \cup NoOps
      BY <3>2, WorksPairs DEF n
    <3> QED
      BY <3>1, <3>2, <3>3 DEF n
  <2>2. CASE r \notin Up
    BY <1>8, <2>2, SitsOut
  <2> QED
    BY <2>1, <2>2
<1>10. dummies' \subseteq dummies
  OBVIOUS
<1>11. Teaches(new)
  BY <1>8, <1>9, <1>10, TeachesEach
<1> QED
  BY <1>11 DEF new

(***************************************************************************)
(* Faults.                                                                 *)
(***************************************************************************)
LEMMA SameNodesTeach ==
  ASSUME ShapesInv, nodes' = nodes, dummies' = dummies,
         dummies \subseteq Replicas
  PROVE  Teaches({})
<1>1. ShapesInv' /\ AllPairs' = AllPairs
  BY DEF ShapesInv, AllPairs
<1>2. ASSUME NEW r \in dummies'
      PROVE  Works(nodes[r], nodes'[r], {})
  BY <1>2, WorksItself DEF ShapesInv
<1> QED
  BY <1>1, <1>2 DEF Teaches

\* One replica loses its memory or gets another one.
LEMMA OneReplaced ==
  ASSUME ShapesInv, NEW r \in Replicas, NEW m,
         nodes' = [nodes EXCEPT ![r] = m], dummies' = dummies \ {r},
         dummies \subseteq Replicas, Holds(m, AllPairs)
  PROVE  Teaches({})
<1>1. /\ DOMAIN nodes' = Replicas
      /\ nodes'[r] = m
      /\ \A s \in Replicas \ {r} : nodes'[s] = nodes[s]
  BY DEF ShapesInv
<1>2. ASSUME NEW s \in Replicas
      PROVE  /\ HasShape(nodes'[s])
             /\ PairsOf(nodes'[s]) \subseteq AllPairs \cup {} \cup NoOps
             /\ s \in dummies' => Works(nodes[s], nodes'[s], {})
  <2>1. CASE s = r
    BY <1>1, <2>1 DEF Holds, PairsOf
  <2>2. CASE s # r
    <3>1. /\ nodes'[s] = nodes[s]
          /\ HasShape(nodes[s])
          /\ PairsOf(nodes[s]) \subseteq AllPairs
      BY <1>1, <2>2 DEF ShapesInv, AllPairs
    <3>2. Works(nodes[s], nodes[s], {})
      BY <3>1, WorksItself
    <3> QED
      BY <3>1, <3>2
  <2> QED
    BY <2>1, <2>2
<1>3. dummies' \subseteq dummies
  OBVIOUS
<1> QED
  BY <1>1, <1>2, <1>3, TeachesEach

LEMMA CrashTeaches ==
  ASSUME ShapesInv, NEW r \in Replicas, CrashReplica(r),
         dummies' = dummies \ {r}, dummies \subseteq Replicas
  PROVE  Teaches({})
<1> DEFINE n == nodes[r]
           m == CrashAt(r, n)
<1>1. nodes' = [nodes EXCEPT ![r] = m]
  BY DEF CrashReplica
<1>2. HasShape(n) /\ Pairs(n.disk.block_tree) \subseteq AllPairs
  BY DEF ShapesInv, AllPairs, PairsOf
<1> HIDE DEF n
<1>3. Holds(m, Pairs(n.disk.block_tree))
  BY <1>2, CrashAtHolds
<1> HIDE DEF m
<1>4. Holds(m, AllPairs)
  BY <1>2, <1>3 DEF Holds
<1> QED
  BY <1>1, <1>4, OneReplaced

\* recover_replica takes over blocks of its own disk and of a peer.
LEMMA RejoinTeaches ==
  ASSUME ShapesInv, NEW r \in Replicas, RecoverReplica(r),
         dummies' = dummies \ {r}, dummies \subseteq Replicas
  PROVE  Teaches({})
<1> DEFINE n == nodes[r]
           peers == Replicas \ (crashed \cup {r})
           own == Recovered(r, n.disk, n.rep.config_n)
           rep == IF peers = {} THEN own
                  ELSE CatchUp(own, nodes[Min(peers)].rep)
           views == {nodes[p].rep.current_view : p \in peers}
           v == Max(views \cup {rep.current_view})
           q == [rep EXCEPT !.current_view = v]
           m == SnapshotAt([n EXCEPT !.rep = q])
<1>1. nodes' = [nodes EXCEPT ![r] = m]
  BY DEF RecoverReplica
<1>2. /\ HasShape(n)
      /\ Pairs(n.disk.block_tree) \subseteq AllPairs
  BY DEF ShapesInv, AllPairs, PairsOf
<1> HIDE DEF n
<1>3. /\ DOMAIN own = Fields
      /\ own.current_view = n.disk.current_view
      /\ own.block_tree = n.disk.block_tree
  BY <1>2, RecoveredShape
<1> HIDE DEF own
<1>4. /\ HasBlocks(own.block_tree)
      /\ own.current_view \in Nat
      /\ Pairs(own.block_tree) \subseteq AllPairs
  BY <1>2, <1>3 DEF HasShape
<1>5. /\ DOMAIN rep = Fields
      /\ rep.current_view \in Nat
      /\ HasBlocks(rep.block_tree)
      /\ Pairs(rep.block_tree) \subseteq AllPairs
  <2>1. CASE peers = {}
    BY <1>3, <1>4, <2>1
  <2>2. CASE peers # {}
    <3> DEFINE p == Min(peers)
               donor == nodes[p].rep
               c == CatchUp(own, donor)
    <3>1. peers \subseteq Nat
      BY ReplicasFinite
    <3>2. p \in Replicas
      BY <2>2, <3>1, MinMeans
    <3>3. rep = c
      BY <2>2
    <3> HIDE DEF p, rep
    <3>4. HasBlocks(donor.block_tree)
          /\ Pairs(donor.block_tree) \subseteq AllPairs
      BY <3>2 DEF ShapesInv, HasShape, AllPairs, PairsOf
    <3> HIDE DEF donor
    <3>5. /\ DOMAIN c = Fields
          /\ c.current_view = own.current_view
          /\ HasBlocks(c.block_tree)
          /\ Pairs(c.block_tree) \subseteq
               Pairs(own.block_tree) \cup Pairs(donor.block_tree)
      BY <1>3, <1>4, <3>4, CatchUpShape
    <3> HIDE DEF c
    <3> QED
      BY <1>4, <3>3, <3>4, <3>5
  <2> QED
    BY <2>1, <2>2
<1> HIDE DEF rep
<1>6. v \in Nat
  <2> DEFINE all == views \cup {rep.current_view}
             f == [p \in peers |-> nodes[p].rep.current_view]
  <2>1. f \in Surjection(peers, views)
    BY DEF Surjection
  <2>2. IsFiniteSet(peers)
    BY ReplicasFinite, FS_Subset
  <2>3. views \subseteq Nat
    BY DEF ShapesInv, HasShape
  <2>4. IsFiniteSet(views)
    <3> HIDE DEF f, views, peers
    <3> QED
      BY <2>1, <2>2, FS_Surjection
  <2> HIDE DEF views
  <2>5. all \subseteq Nat /\ all # {} /\ IsFiniteSet(all)
    BY <1>5, <2>3, <2>4, FS_AddElement
  <2> HIDE DEF all
  <2>6. Max(all) \in all
    BY <2>5, MaxMeans
  <2> QED
    BY <2>5, <2>6 DEF all
<1> HIDE DEF v
<1>7. /\ DOMAIN q = Fields
      /\ q.current_view = v
      /\ q.block_tree = rep.block_tree
  BY <1>5 DEF Fields
<1> HIDE DEF q
<1>8. Holds(m, Pairs(q.block_tree))
  BY <1>2, <1>5, <1>6, <1>7, SaveHolds
<1> HIDE DEF m
<1>9. Holds(m, AllPairs)
  BY <1>5, <1>7, <1>8 DEF Holds
<1> QED
  BY <1>1, <1>9, OneReplaced

(***************************************************************************)
(* The queues of the clients.                                              *)
(***************************************************************************)
\* What is left of the queues is where it was.
Shrinks ==
  \A r \in Replicas : \A i \in DOMAIN queue'[r] :
    i \in DOMAIN queue[r] /\ queue'[r][i] = queue[r][i]

LEMMA FrontMeans ==
  ASSUME NEW S, NEW s \in Seq(S), s # <<>>
  PROVE  /\ Front(s) \in Seq(S)
         /\ DOMAIN Front(s) = 1 .. Len(s) - 1
         /\ \A i \in 1 .. Len(s) - 1 : i \in DOMAIN s /\ Front(s)[i] = s[i]
         /\ Len(s) \in DOMAIN s
         /\ Len(s) \notin 1 .. Len(s) - 1
         /\ Last(s) = s[Len(s)]
<1>1. Len(s) \in Nat /\ Len(s) > 0 /\ DOMAIN s = 1 .. Len(s)
  BY EmptySeq
<1>2. Front(s) = SubSeq(s, 1, Len(s) - 1)
  BY DEF Front
<1>3. /\ SubSeq(s, 1, Len(s) - 1) \in Seq(S)
      /\ Len(SubSeq(s, 1, Len(s) - 1)) = Len(s) - 1
      /\ \A i \in 1 .. Len(s) - 1 : SubSeq(s, 1, Len(s) - 1)[i] = s[i]
  BY <1>1
<1>4. Last(s) = s[Len(s)]
  BY DEF Last
<1> QED
  BY <1>1, <1>2, <1>3, <1>4

\* A crash by the timeout empties the queue.
LEMMA QueuesNowMeans ==
  ASSUME PacemakerTypeOK
  PROVE  /\ QueuesNow \in [Replicas -> Seq(enqueued)]
         /\ \A r \in Replicas : IF r \in TimedOut THEN QueuesNow[r] = <<>>
                                ELSE QueuesNow[r] = queue[r]
<1>1. <<>> \in Seq(enqueued)
  OBVIOUS
<1> QED
  BY <1>1 DEF QueuesNow, PacemakerTypeOK

LEMMA QueuesShrink ==
  ASSUME PacemakerTypeOK, FieldsInv, queue' = QueuesNow,
         crashed' = CrashedNow, enqueued' = enqueued
  PROVE  /\ Shrinks
         /\ queue' \in [Replicas -> Seq(enqueued')]
         /\ \A r \in crashed' : queue'[r] = <<>>
<1>1. ASSUME NEW r \in crashed'
      PROVE  queue'[r] = <<>>
  BY <1>1, QueuesNowMeans DEF CrashedNow, TimedOut, FieldsInv, PacemakerTypeOK
<1>2. ASSUME NEW r \in Replicas, NEW i \in DOMAIN queue'[r]
      PROVE  i \in DOMAIN queue[r] /\ queue'[r][i] = queue[r][i]
  <2>1. <<>> \in Seq(enqueued) /\ DOMAIN <<>> = {}
    OBVIOUS
  <2> QED
    BY <1>2, <2>1, QueuesNowMeans
<1> QED
  BY <1>1, <1>2, QueuesNowMeans DEF Shrinks

\* A leader takes the last command of its queue.
LEMMA QueuesPopped ==
  ASSUME PacemakerTypeOK, FieldsInv, NEW l \in Up, queue[l] # <<>>,
         queue' = [QueuesNow EXCEPT ![l] = PoppedFrom(@)],
         crashed' = CrashedNow, enqueued' = enqueued
  PROVE  /\ Shrinks
         /\ queue' \in [Replicas -> Seq(enqueued')]
         /\ \A r \in crashed' : queue'[r] = <<>>
         /\ \E i \in DOMAIN queue[l] : /\ queue[l][i] = Last(queue[l])
                                       /\ i \notin DOMAIN queue'[l]
<1> DEFINE s == queue[l]
<1>1. /\ l \in Replicas
      /\ l \notin CrashedNow
      /\ QueuesNow[l] = s
      /\ s \in Seq(enqueued)
  BY QueuesNowMeans DEF Up, CrashedNow, PacemakerTypeOK
<1>2. /\ DOMAIN queue' = Replicas
      /\ queue'[l] = Front(s)
      /\ \A r \in Replicas \ {l} : queue'[r] = QueuesNow[r]
  BY <1>1, QueuesNowMeans DEF PoppedFrom
<1> HIDE DEF s
<1>3. /\ Front(s) \in Seq(enqueued)
      /\ DOMAIN Front(s) = 1 .. Len(s) - 1
      /\ \A i \in 1 .. Len(s) - 1 : i \in DOMAIN s /\ Front(s)[i] = s[i]
      /\ Len(s) \in DOMAIN s
      /\ Len(s) \notin 1 .. Len(s) - 1
      /\ Last(s) = s[Len(s)]
  BY <1>1, FrontMeans DEF s
<1>4. ASSUME NEW r \in crashed'
      PROVE  queue'[r] = <<>>
  <2>1. r \in Replicas /\ r # l /\ QueuesNow[r] = <<>>
    BY <1>1, QueuesNowMeans
       DEF CrashedNow, TimedOut, FieldsInv, PacemakerTypeOK
  <2> QED
    BY <1>2, <2>1
<1>5. ASSUME NEW r \in Replicas, NEW i \in DOMAIN queue'[r]
      PROVE  i \in DOMAIN queue[r] /\ queue'[r][i] = queue[r][i]
  <2>1. CASE r = l
    BY <1>2, <1>3, <1>5, <2>1 DEF s
  <2>2. CASE r # l
    <3>1. <<>> \in Seq(enqueued) /\ DOMAIN <<>> = {}
      OBVIOUS
    <3> QED
      BY <1>2, <1>5, <2>2, <3>1, QueuesNowMeans
  <2> QED
    BY <2>1, <2>2
<1>6. queue' \in [Replicas -> Seq(enqueued)]
  <2>1. queue' = [r \in Replicas |-> queue'[r]]
    BY QueuesNowMeans
  <2>2. \A r \in Replicas : queue'[r] \in Seq(enqueued)
    BY <1>2, <1>3, QueuesNowMeans
  <2> QED
    BY <2>1, <2>2
<1>7. \E i \in DOMAIN s : s[i] = Last(s) /\ i \notin DOMAIN queue'[l]
  BY <1>2, <1>3
<1> QED
  BY <1>4, <1>5, <1>6, <1>7 DEF Shrinks, s

(***************************************************************************)
(* The steps.                                                              *)
(***************************************************************************)
LEMMA FrameMeans ==
  ASSUME PacemakerTypeOK, NEW after, PacemakerFrame(after)
  PROVE  /\ nodes' = after
         /\ RoundFrame
         /\ crashed' = CrashedNow
         /\ enqueued' = enqueued
         /\ dummies' = dummies \ TimedOut
         /\ dummies' \subseteq Replicas
         /\ enqueued' \subseteq Commands
         /\ dry' \in 0 .. Drought
<1>1. dry' \in 0 .. Drought
  <2>1. Drought \in Nat /\ dry \in 0 .. Drought
    BY PacemakerAssumption DEF PacemakerTypeOK
  <2>2. dry' = IF Commits(after) THEN 0
               ELSE IF dry < Drought THEN dry + 1 ELSE dry
    BY DEF PacemakerFrame
  <2>3. CASE Commits(after)
    BY <2>1, <2>2, <2>3
  <2>4. CASE ~Commits(after)
    BY <2>1, <2>2, <2>4
  <2> QED
    BY <2>3, <2>4
<1> QED
  BY <1>1 DEF PacemakerFrame, RoundFrame, PacemakerTypeOK

\* A step that brings one command about, or none.
LEMMA TaughtKeeps ==
  ASSUME PacemakerInv, FieldsInv', PacemakerTypeOK', enqueued' = enqueued,
         Shrinks, NEW cmd, NEW new \in SUBSET {<<nextHash, cmd>>},
         Teaches(new), nextHash' \in {nextHash, nextHash + 1},
         new # {} => nextHash' = nextHash + 1,
         new # {} /\ cmd # NoOp =>
           \E l \in Replicas : \E i \in DOMAIN queue[l] :
             queue[l][i] = cmd /\ i \notin DOMAIN queue'[l]
  PROVE  PacemakerInv'
<1>1. ShapesInv'
  BY DEF Teaches
<1>2. OnceInv'
  <2>1. \A r \in Replicas : \A i \in DOMAIN queue[r] :
          queue[r][i] \in enqueued
    BY ElementOfSeq DEF PacemakerInv, PacemakerTypeOK
  <2>2. \A p \in new : /\ p[2] = cmd
                       /\ \A q \in new : q = p
    OBVIOUS
  <2> QED
    BY <2>1, <2>2, OnceKept DEF PacemakerInv, Shrinks
<1>3. LogInv'
  <2>1. nextHash \in Nat
    BY DEF PacemakerInv, FieldsInv
  <2>2. \A r \in dummies : DOMAIN nodes[r].rep.block_tree \subseteq Nat
    BY DEF PacemakerInv, PacemakerTypeOK, ShapesInv, HasShape, HasBlocks
  <2> QED
    BY <2>1, <2>2, LogKept DEF PacemakerInv
<1> QED
  BY <1>1, <1>2, <1>3 DEF PacemakerInv

LEMMA RoundKeeps ==
  ASSUME PacemakerInv, PacemakerRound
  PROVE  PacemakerInv'
<1>1. /\ PacemakerTypeOK
      /\ FieldsInv
      /\ ShapesInv
      /\ dummies \subseteq Replicas
      /\ nextHash \in Nat
  BY DEF PacemakerInv, PacemakerTypeOK, FieldsInv
<1>2. ASSUME TimeoutRound \/ SkippedRound
      PROVE  PacemakerInv'
  <2> DEFINE after == ViewTimeoutOf(NodesNow)
  <2>1. /\ PacemakerFrame(after)
        /\ queue' = QueuesNow
        /\ Unanswered
        /\ nextHash' \in {nextHash, nextHash + 1}
    BY <1>2 DEF TimeoutRound, SkippedRound, HashSpent
  <2>2. /\ nodes' = after
        /\ RoundFrame
        /\ crashed' = CrashedNow
        /\ enqueued' = enqueued
        /\ dummies' = dummies \ TimedOut
        /\ dummies' \subseteq Replicas
        /\ enqueued' \subseteq Commands
        /\ dry' \in 0 .. Drought
    <3> HIDE DEF after
    <3> QED
      BY <1>1, <2>1, FrameMeans
  <2>3. FieldsInv'
    BY <1>1, <2>1, <2>2, RoundFrameKeeps
  <2>4. /\ Shrinks
        /\ queue' \in [Replicas -> Seq(enqueued')]
        /\ \A r \in crashed' : queue'[r] = <<>>
    BY <1>1, <2>1, <2>2, QueuesShrink
  <2>5. PacemakerTypeOK'
    BY <2>2, <2>4 DEF PacemakerTypeOK
  <2>6. Teaches({})
    BY <1>1, <2>2, TimeoutTeaches
  <2> QED
    BY <2>1, <2>2, <2>3, <2>4, <2>5, <2>6, TaughtKeeps
<1>3. ASSUME NEW cmd, CurrentLeader \in Up,
             PacemakerFrame(RoundOf(CurrentLeader, nextHash, cmd)),
             Answered, HashSpent, Shrinks,
             queue' \in [Replicas -> Seq(enqueued')],
             \A r \in crashed' : queue'[r] = <<>>,
             cmd # NoOp =>
               \E l \in Replicas : \E i \in DOMAIN queue[l] :
                 queue[l][i] = cmd /\ i \notin DOMAIN queue'[l]
      PROVE  PacemakerInv'
  <2> DEFINE after == RoundOf(CurrentLeader, nextHash, cmd)
             new == {<<nextHash, cmd>>}
  <2>1. /\ nodes' = after
        /\ RoundFrame
        /\ crashed' = CrashedNow
        /\ enqueued' = enqueued
        /\ dummies' = dummies \ TimedOut
        /\ dummies' \subseteq Replicas
        /\ enqueued' \subseteq Commands
        /\ dry' \in 0 .. Drought
    <3>1. PacemakerFrame(after)
      BY <1>3
    <3> HIDE DEF after
    <3> QED
      BY <1>1, <3>1, FrameMeans
  <2>2. nextHash' = nextHash + 1
    BY <1>3 DEF HashSpent
  <2>3. FieldsInv'
    BY <1>1, <1>3, <2>1, <2>2, RoundFrameKeeps
  <2>4. PacemakerTypeOK'
    BY <1>3, <2>1 DEF PacemakerTypeOK
  <2>5. Teaches(new)
    BY <1>1, <1>3, <2>1, RoundTeaches
  <2>6. new \in SUBSET {<<nextHash, cmd>>}
    OBVIOUS
  <2> HIDE DEF new
  <2> QED
    BY <1>3, <2>1, <2>2, <2>3, <2>4, <2>5, <2>6, TaughtKeeps
<1>4. ASSUME CommandRound
      PROVE  PacemakerInv'
  <2> DEFINE l == CurrentLeader
             cmd == Last(queue[l])
  <2>1. /\ l \in Up
        /\ l \in Replicas
        /\ queue[l] # <<>>
        /\ queue' = [QueuesNow EXCEPT ![l] = PoppedFrom(@)]
        /\ PacemakerFrame(RoundOf(l, nextHash, cmd))
        /\ Answered /\ HashSpent
    BY <1>4 DEF CommandRound, Up
  <2>2. crashed' = CrashedNow /\ enqueued' = enqueued
    BY <2>1 DEF PacemakerFrame, RoundFrame
  <2> HIDE DEF l
  <2>3. /\ Shrinks
        /\ queue' \in [Replicas -> Seq(enqueued')]
        /\ \A r \in crashed' : queue'[r] = <<>>
        /\ \E i \in DOMAIN queue[l] : /\ queue[l][i] = cmd
                                      /\ i \notin DOMAIN queue'[l]
    BY <1>1, <2>1, <2>2, QueuesPopped
  <2> HIDE DEF cmd
  <2> QED
    BY <1>3, <2>1, <2>3 DEF l
<1>5. ASSUME DummyRound
      PROVE  PacemakerInv'
  <2>1. /\ CurrentLeader \in Up
        /\ queue' = QueuesNow
        /\ PacemakerFrame(RoundOf(CurrentLeader, nextHash, NoOp))
        /\ Answered /\ HashSpent
    BY <1>5 DEF DummyRound
  <2>2. crashed' = CrashedNow /\ enqueued' = enqueued
    BY <2>1 DEF PacemakerFrame, RoundFrame
  <2>3. /\ Shrinks
        /\ queue' \in [Replicas -> Seq(enqueued')]
        /\ \A r \in crashed' : queue'[r] = <<>>
    BY <1>1, <2>1, <2>2, QueuesShrink
  <2> QED
    BY <1>3, <2>1, <2>3
<1> QED
  BY <1>2, <1>4, <1>5 DEF PacemakerRound

\* A call of run_one_round_with_pacemaker that is refused.
LEMMA RefusedRoundKeeps ==
  ASSUME PacemakerInv, RefusedPacemakerRound
  PROVE  PacemakerInv'
<1>1. /\ PacemakerTypeOK
      /\ FieldsInv
      /\ ShapesInv
      /\ nextHash \in Nat
  BY DEF PacemakerInv, PacemakerTypeOK, FieldsInv
<1>2. /\ RefusedRound
      /\ nodes' = NodesNow
      /\ crashed' = CrashedNow
      /\ queue' = QueuesNow
      /\ dummies' = dummies \ TimedOut
      /\ dummies \subseteq Replicas
      /\ nextHash' = nextHash
      /\ UNCHANGED <<enqueued, dry>>
  BY <1>1 DEF RefusedPacemakerRound, RefusedRound, PacemakerTypeOK
<1>3. FieldsInv'
  BY <1>1, <1>2, RefusedKeepsFields
<1>4. /\ Shrinks
      /\ queue' \in [Replicas -> Seq(enqueued')]
      /\ \A r \in crashed' : queue'[r] = <<>>
  BY <1>1, <1>2, QueuesShrink
<1>5. PacemakerTypeOK'
  BY <1>1, <1>2, <1>4 DEF PacemakerTypeOK
<1>6. Teaches({})
  BY <1>1, <1>2, RefusedTeaches
<1>7. /\ enqueued' = enqueued
      /\ nextHash' \in {nextHash, nextHash + 1}
  BY <1>2
<1> DEFINE new == {}
<1>8. /\ new \in SUBSET {<<nextHash, NoOp>>}
      /\ Teaches(new)
      /\ ~(new # {})
  BY <1>6
<1> HIDE DEF new
<1> QED
  BY <1>3, <1>4, <1>5, <1>7, <1>8, TaughtKeeps

\* A client's command goes to the end of one queue.
LEMMA EnqueueKeeps ==
  ASSUME PacemakerInv, NEW cmd \in Commands, Enqueue(cmd)
  PROVE  PacemakerInv'
<1> DEFINE l == LeaderAmong(crashed)
<1>1. /\ FieldsInv /\ PacemakerTypeOK /\ ShapesInv /\ OnceInv /\ LogInv
      /\ crashed \subseteq Replicas /\ crashed # Replicas
      /\ cmd \notin enqueued
      /\ queue' = [queue EXCEPT ![l] = Append(@, cmd)]
      /\ enqueued' = enqueued \cup {cmd}
      /\ UNCHANGED <<vars, dummies, dry>>
  BY DEF Enqueue, PacemakerInv, FieldsInv
<1>2. l \in Replicas \ crashed
  BY <1>1, LeaderIsLive
<1> HIDE DEF l
<1>3. UNCHANGED <<nodes, crashed, unresponsive, quiet, step, nextHash,
                  restarts>>
  BY <1>1 DEF vars
<1>4. FieldsInv'
  BY <1>1, <1>3 DEF FieldsInv
<1>5. ShapesInv' /\ AllPairs' = AllPairs
  BY <1>1, <1>3 DEF ShapesInv, AllPairs
<1>6. LogInv'
  BY <1>1, <1>3 DEF LogInv
<1> DEFINE s == queue[l]
<1>7. /\ s \in Seq(enqueued)
      /\ DOMAIN queue' = Replicas
      /\ queue'[l] = Append(s, cmd)
      /\ \A r \in Replicas \ {l} : queue'[r] = queue[r]
  BY <1>1, <1>2 DEF PacemakerTypeOK
<1> HIDE DEF s
<1>8. /\ Append(s, cmd) \in Seq(enqueued')
      /\ Len(s) \in Nat
      /\ Len(s) + 1 \notin DOMAIN s
      /\ DOMAIN Append(s, cmd) = DOMAIN s \cup {Len(s) + 1}
      /\ Append(s, cmd)[Len(s) + 1] = cmd
      /\ \A i \in DOMAIN s : Append(s, cmd)[i] = s[i] /\ s[i] \in enqueued
  <2>1. cmd \in enqueued' /\ s \in Seq(enqueued')
    BY <1>1, <1>7
  <2> HIDE DEF Enqueue
  <2> QED
    BY <1>7, <2>1
<1>9. PacemakerTypeOK'
  <2>1. ASSUME NEW r \in Replicas
        PROVE  queue'[r] \in Seq(enqueued')
    <3>1. queue[r] \in Seq(enqueued')
      BY <1>1 DEF PacemakerTypeOK
    <3> QED
      BY <1>7, <1>8, <3>1
  <2>2. queue' = [r \in Replicas |-> queue'[r]]
    BY <1>1 DEF PacemakerTypeOK
  <2>3. \A r \in crashed' : queue'[r] = <<>>
    BY <1>1, <1>2, <1>3, <1>7 DEF PacemakerTypeOK
  <2> QED
    BY <1>1, <2>1, <2>2, <2>3 DEF PacemakerTypeOK
<1>10. ASSUME NEW r \in Replicas, NEW i \in DOMAIN queue'[r]
       PROVE  \/ /\ i \in DOMAIN queue[r]
                 /\ queue'[r][i] = queue[r][i]
                 /\ queue[r][i] \in enqueued
              \/ r = l /\ i = Len(s) + 1 /\ queue'[r][i] = cmd
  <2>1. CASE r = l
    BY <1>7, <1>8, <1>10, <2>1 DEF s
  <2>2. CASE r # l
    <3>1. queue[r] \in Seq(enqueued)
      BY <1>1 DEF PacemakerTypeOK
    <3> QED
      BY <1>7, <1>10, <2>2, <3>1, ElementOfSeq
  <2> QED
    BY <2>1, <2>2
<1>11. OnceInv'
  <2>1. ASSUME NEW p \in AllPairs', p[2] # NoOp
        PROVE  /\ p[2] \in enqueued'
               /\ \A q \in AllPairs' : q[2] = p[2] => q[1] = p[1]
               /\ \A r \in Replicas : \A i \in DOMAIN queue'[r] :
                    queue'[r][i] # p[2]
    <3>1. p \in AllPairs /\ p[2] \in enqueued /\ p[2] # cmd
      BY <1>1, <1>5, <2>1 DEF OnceInv
    <3>2. \A r \in Replicas : \A i \in DOMAIN queue'[r] : queue'[r][i] # p[2]
      BY <1>1, <1>10, <2>1, <3>1 DEF OnceInv
    <3>3. \A q \in AllPairs' : q[2] = p[2] => q[1] = p[1]
      BY <1>1, <1>5, <2>1, <3>1 DEF OnceInv
    <3> QED
      BY <1>1, <3>1, <3>2, <3>3
  <2>2. ASSUME NEW r \in Replicas, NEW t \in Replicas,
               NEW i \in DOMAIN queue'[r], NEW j \in DOMAIN queue'[t],
               queue'[r][i] = queue'[t][j]
        PROVE  r = t /\ i = j
    <3>1. CASE queue'[r][i] = cmd
      BY <1>1, <1>10, <2>2, <3>1
    <3>2. CASE queue'[r][i] # cmd
      <4>1. /\ i \in DOMAIN queue[r] /\ j \in DOMAIN queue[t]
            /\ queue[r][i] = queue[t][j]
        BY <1>10, <2>2, <3>2
      <4> QED
        BY <1>1, <4>1 DEF OnceInv
    <3> QED
      BY <3>1, <3>2
  <2> QED
    BY <2>1, <2>2 DEF OnceInv
<1> QED
  BY <1>4, <1>5, <1>6, <1>9, <1>11 DEF PacemakerInv

\* A replica falls silent, or loses its queue with its memory.
LEMMA FaultKeeps ==
  ASSUME PacemakerInv, NEW r \in Replicas, Silence(r) \/ Fail(r) \/ Rejoin(r)
  PROVE  PacemakerInv'
<1>1. FieldsInv /\ PacemakerTypeOK /\ ShapesInv /\ dummies \subseteq Replicas
  BY DEF PacemakerInv, PacemakerTypeOK
<1>2. FieldsInv'
  <2>1. Next
    BY DEF Silence, Fail, Rejoin, Next
  <2> QED
    BY <1>1, <2>1, FieldsKept
<1>3. nextHash' = nextHash /\ enqueued' = enqueued
  BY DEF Silence, Fail, Rejoin, Forgets, FallSilent, CrashReplica,
         RecoverReplica
<1>4. Teaches({}) /\ Shrinks /\ PacemakerTypeOK'
  <2>1. CASE Silence(r)
    <3>1. /\ nodes' = nodes /\ crashed' = crashed
          /\ UNCHANGED <<queue, dummies, enqueued, dry>>
      BY <2>1 DEF Silence, FallSilent
    <3>2. PacemakerTypeOK'
      BY <1>1, <3>1 DEF PacemakerTypeOK
    <3> QED
      BY <1>1, <3>1, <3>2, SameNodesTeach DEF Shrinks
  <2>2. CASE Fail(r) \/ Rejoin(r)
    <3>1. /\ queue' = [queue EXCEPT ![r] = <<>>]
          /\ dummies' = dummies \ {r}
          /\ UNCHANGED <<enqueued, dry>>
          /\ crashed' \subseteq crashed \cup {r}
      BY <2>2 DEF Fail, Rejoin, Forgets, CrashReplica, RecoverReplica
    <3>2. Teaches({})
      BY <1>1, <2>2, <3>1, CrashTeaches, RejoinTeaches DEF Fail, Rejoin
    <3>3. /\ <<>> \in Seq(enqueued) /\ DOMAIN <<>> = {}
          /\ queue \in [Replicas -> Seq(enqueued)]
      BY <1>1 DEF PacemakerTypeOK
    <3>4. PacemakerTypeOK'
      BY <1>1, <3>1, <3>3 DEF PacemakerTypeOK
    <3>5. Shrinks
      BY <3>1, <3>3 DEF Shrinks
    <3> QED
      BY <3>2, <3>4, <3>5
  <2> QED
    BY <2>1, <2>2
<1> QED
  BY <1>2, <1>3, <1>4, TaughtKeeps

LEMMA PacemakerStepKeeps ==
  ASSUME PacemakerInv, [PacemakerNext]_pvars
  PROVE  PacemakerInv'
<1>1. CASE UNCHANGED pvars
  <2>1. /\ UNCHANGED <<nodes, crashed, unresponsive, quiet, step, nextHash,
                       restarts>>
        /\ UNCHANGED <<queue, dummies, enqueued, dry>>
    BY <1>1 DEF pvars, vars
  <2> QED
    BY <2>1 DEF PacemakerInv, FieldsInv, PacemakerTypeOK, ShapesInv, OnceInv,
                AllPairs, LogInv
<1> QED
  BY <1>1, RoundKeeps, RefusedRoundKeeps, EnqueueKeeps, FaultKeeps
  DEF PacemakerNext

\* A replica on an empty data directory.
LEMMA FreshWorks ==
  ASSUME NEW r \in Replicas
  PROVE  LET rep == FreshReplica(r, Replicas, Replicas)
             n == [rep |-> rep, disk |-> FreshDisk(rep)]
         IN  /\ HasShape(n)
             /\ PairsOf(n) \subseteq NoOps
             /\ Pairs(n.rep.block_tree) = {<<0, NoOp>>}
             /\ ObeysLog(n.rep)
<1> DEFINE rep == FreshReplica(r, Replicas, Replicas)
           c == Capture(rep)
           d == [c EXCEPT !.members = None]
           n == [rep |-> rep, disk |-> FreshDisk(rep)]
<1>1. n = [rep |-> rep, disk |-> d]
  BY DEF FreshDisk
<1>2. /\ DOMAIN rep = Fields
      /\ rep.current_view = 0
      /\ HasBlocks(rep.block_tree)
      /\ Pairs(rep.block_tree) \subseteq NoOps
      /\ DOMAIN rep.block_tree = {0}
      /\ rep.committed_log = <<>>
      /\ rep.config_epoch = 0
      /\ rep.active_validators = Replicas
      /\ rep.keys = Replicas
  BY FreshShape
<1> HIDE DEF rep
<1>3. /\ DOMAIN c = DiskFields
      /\ c.current_view \in Nat
      /\ HasBlocks(c.block_tree)
      /\ Pairs(c.block_tree) = Pairs(rep.block_tree)
  BY <1>2, CapturePairs
<1> HIDE DEF c
<1>4. /\ DOMAIN d = DiskFields
      /\ d.current_view = c.current_view
      /\ d.block_tree = c.block_tree
  BY <1>3 DEF DiskFields
<1> HIDE DEF d, n
<1>5. DOMAIN n = {"rep", "disk"} /\ n.rep = rep /\ n.disk = d
  BY <1>1
<1>6. HasShape(n)
  BY <1>2, <1>3, <1>4, <1>5 DEF HasShape
<1>7. PairsOf(n) \subseteq NoOps
  BY <1>2, <1>3, <1>4, <1>5 DEF PairsOf
<1>8. Pairs(rep.block_tree) = {<<0, NoOp>>}
  <2>1. Pairs(rep.block_tree) = {<<0, rep.block_tree[0].cmd>>}
    BY <1>2 DEF Pairs
  <2>2. rep.block_tree[0].cmd = NoOp
    BY <1>2, <2>1 DEF NoOps
  <2> QED
    BY <2>1, <2>2
<1>9. ObeysLog(rep)
  <2> DEFINE past == [i \in 0 .. 0 |-> FirstConfig]
  <2>1. ConfigOf(rep) = FirstConfig
    BY <1>2 DEF ConfigOf, FirstConfig
  <2>2. <<>> \in Seq(DOMAIN rep.block_tree) /\ Len(<<>>) = 0 /\ 1 .. 0 = {}
    OBVIOUS
  <2>3. past[0] = FirstConfig /\ past = [i \in 0 .. 0 |-> past[i]]
    OBVIOUS
  <2> HIDE DEF past
  <2>4. IsHistory(past, <<>>, rep.block_tree, FirstConfig)
    BY <2>2, <2>3 DEF IsHistory
  <2> QED
    BY <1>2, <2>1, <2>2, <2>4 DEF ObeysLog
<1> QED
  BY <1>5, <1>6, <1>7, <1>8, <1>9 DEF n, rep

LEMMA PacemakerInitKeeps ==
  ASSUME PacemakerInit
  PROVE  PacemakerInv
<1>1. /\ crashed = {}
      /\ nextHash = 1
      /\ DOMAIN nodes = Replicas
      /\ \A r \in Replicas :
           nodes[r] = LET rep == FreshReplica(r, Replicas, Replicas)
                      IN  [rep |-> rep, disk |-> FreshDisk(rep)]
      /\ queue = [r \in Replicas |-> <<>>]
      /\ dummies = Replicas
      /\ enqueued = {}
      /\ dry = 0
  BY DEF PacemakerInit, Init
<1>2. FieldsInv
  <2>1. Init
    BY DEF PacemakerInit
  <2> QED
    BY <2>1, InitKeeps DEF Inv
<1>3. PacemakerTypeOK
  <2>1. Drought \in Nat /\ <<>> \in Seq(enqueued)
    BY PacemakerAssumption
  <2>2. queue \in [Replicas -> Seq(enqueued)]
    BY <1>1, <2>1
  <2> QED
    BY <1>1, <2>1, <2>2 DEF PacemakerTypeOK
<1>4. ASSUME NEW r \in Replicas
      PROVE  /\ HasShape(nodes[r])
             /\ PairsOf(nodes[r]) \subseteq NoOps
             /\ Pairs(nodes[r].rep.block_tree) = {<<0, NoOp>>}
             /\ ObeysLog(nodes[r].rep)
  BY <1>1, FreshWorks
<1>5. ShapesInv
  BY <1>1, <1>4 DEF ShapesInv
<1>6. OnceInv
  <2>1. ASSUME NEW p \in AllPairs
        PROVE  p[2] = NoOp
    BY <1>4 DEF AllPairs, NoOps
  <2>2. \A r \in Replicas : DOMAIN queue[r] = {}
    BY <1>1
  <2> QED
    BY <2>1, <2>2 DEF OnceInv
<1>7. LogInv
  BY <1>1, <1>4 DEF LogInv
<1> QED
  BY <1>2, <1>3, <1>5, <1>6, <1>7 DEF PacemakerInv

LEMMA PacemakerInvariance == PacemakerSpec => []PacemakerInv
<1>1. PacemakerInit => PacemakerInv
  BY PacemakerInitKeeps
<1>2. PacemakerInv /\ [PacemakerNext]_pvars => PacemakerInv'
  BY PacemakerStepKeeps
<1> QED
  BY <1>1, <1>2, PTL DEF PacemakerSpec

(***************************************************************************)
(* The properties of the cluster with clients.                             *)
(***************************************************************************)
\* The queues hold commands that clients did enqueue, and whoever has crashed
\* has lost its queue: enqueue_client_command picks a leader that is alive.
THEOREM PacemakerTypes == PacemakerSpec => []PacemakerTypeOK
<1>1. PacemakerInv => PacemakerTypeOK
  BY DEF PacemakerInv
<1> QED
  BY <1>1, PacemakerInvariance, PTL

\* No command is executed twice: it waits in one queue or is in one block,
\* since a leader pops what it proposes, under a hash used once, and nobody
\* reads the command of a block back from the log.
THEOREM CommandsOnce == PacemakerSpec => []CommandOnce
<1>1. ASSUME PacemakerInv, NEW cmd \in enqueued
      PROVE  LET places  == Replicas \X (1 .. Cardinality(Commands))
                 waiting == {p \in places : /\ p[2] \in DOMAIN queue[p[1]]
                                            /\ queue[p[1]][p[2]] = cmd}
                 blocks  == {b.hash : b \in {c \in KnownBlocks : c.cmd = cmd}}
             IN  Cardinality(waiting) + Cardinality(blocks) <= 1
  <2> DEFINE places == Replicas \X (1 .. Cardinality(Commands))
             waiting == {p \in places : /\ p[2] \in DOMAIN queue[p[1]]
                                        /\ queue[p[1]][p[2]] = cmd}
             blocks == {b.hash : b \in {c \in KnownBlocks : c.cmd = cmd}}
  <2>1. cmd # NoOp
    BY <1>1, PacemakerAssumption DEF PacemakerInv, PacemakerTypeOK
  <2>2. ASSUME NEW h \in blocks
        PROVE  <<h, cmd>> \in AllPairs
    <3>1. PICK b \in KnownBlocks : b.cmd = cmd /\ b.hash = h
      BY <2>2
    <3>2. PICK r \in Live : \E g \in DOMAIN nodes[r].rep.block_tree :
                 b = nodes[r].rep.block_tree[g]
      BY <3>1 DEF KnownBlocks
    <3>3. PICK g \in DOMAIN nodes[r].rep.block_tree :
                 b = nodes[r].rep.block_tree[g]
      BY <3>2
    <3>4. r \in Replicas /\ g = h
      BY <1>1, <3>1, <3>3 DEF Live, PacemakerInv, ShapesInv, HasShape,
                              HasBlocks
    <3>5. <<h, cmd>> \in PairsOf(nodes[r])
      BY <3>1, <3>3, <3>4 DEF PairsOf, Pairs
    <3> QED
      BY <3>4, <3>5 DEF AllPairs
  <2>3. \A g, h \in blocks : g = h
    <3>1. ASSUME NEW g \in blocks, NEW h \in blocks
          PROVE  g = h
      <4> DEFINE p == <<g, cmd>>
                 q == <<h, cmd>>
      <4>1. /\ p \in AllPairs /\ p[2] = cmd /\ p[1] = g
            /\ q \in AllPairs /\ q[2] = cmd /\ q[1] = h
        BY <2>2
      <4> HIDE DEF p, q, blocks
      <4> QED
        BY <1>1, <2>1, <4>1 DEF PacemakerInv, OnceInv
    <3> QED
      BY <3>1
  <2>4. \A p, q \in waiting : p = q
    <3>1. ASSUME NEW p \in waiting, NEW q \in waiting
          PROVE  p = q
      <4>1. /\ p = <<p[1], p[2]>> /\ p[1] \in Replicas
            /\ q = <<q[1], q[2]>> /\ q[1] \in Replicas
        OBVIOUS
      <4>2. p[1] = q[1] /\ p[2] = q[2]
        BY <1>1, <4>1 DEF PacemakerInv, OnceInv
      <4> QED
        BY <4>1, <4>2
    <3> QED
      BY <3>1
  <2>5. waiting = {} \/ blocks = {}
    <3>1. ASSUME NEW p \in waiting, NEW h \in blocks
          PROVE  FALSE
      <4> DEFINE q == <<h, cmd>>
      <4>1. q \in AllPairs /\ q[2] = cmd
        BY <2>2
      <4>2. /\ p[1] \in Replicas /\ p[2] \in DOMAIN queue[p[1]]
            /\ queue[p[1]][p[2]] = cmd
        OBVIOUS
      <4> HIDE DEF q, blocks, waiting
      <4> QED
        BY <1>1, <2>1, <4>1, <4>2 DEF PacemakerInv, OnceInv
    <3> QED
      BY <3>1
  <2> HIDE DEF waiting, blocks
  <2>6. ASSUME NEW S, \A x, y \in S : x = y
        PROVE  Cardinality(S) = 0 \/ Cardinality(S) = 1
    <3>1. CASE S = {}
      BY <3>1, FS_EmptySet
    <3>2. CASE S # {}
      <4>1. PICK x : S = {x}
        BY <2>6, <3>2
      <4> QED
        BY <4>1, FS_Singleton
    <3> QED
      BY <3>1, <3>2
  <2>7. Cardinality({}) = 0
    BY FS_EmptySet
  <2>8. Cardinality(waiting) = 0 \/ Cardinality(waiting) = 1
    BY <2>4, <2>6
  <2>9. Cardinality(blocks) = 0 \/ Cardinality(blocks) = 1
    BY <2>3, <2>6
  <2>10. Cardinality(waiting) + Cardinality(blocks) <= 1
    BY <2>5, <2>7, <2>8, <2>9
  <2> QED
    BY <2>10 DEF waiting, blocks
<1>2. PacemakerInv => CommandOnce
  BY <1>1 DEF CommandOnce
<1> QED
  BY <1>2, PacemakerInvariance, PTL

\* The replicas that were never down agree on the validators of an epoch:
\* apply_membership_command depends on nothing but the commands of the log.
THEOREM ValidatorsFollowLog == PacemakerSpec => []StateFollowsLog
<1>1. ASSUME PacemakerInv, NEW r \in dummies, NEW s \in dummies,
             nodes[r].rep.committed_log = nodes[s].rep.committed_log
      PROVE  /\ nodes[r].rep.config_epoch = nodes[s].rep.config_epoch
             /\ nodes[r].rep.active_validators = nodes[s].rep.active_validators
             /\ nodes[r].rep.keys = nodes[s].rep.keys
  <2> DEFINE p == nodes[r].rep
             q == nodes[s].rep
             t == p.block_tree
             u == q.block_tree
             log == p.committed_log
             c == ConfigOf(p)
             d == ConfigOf(q)
  <2>1. ObeysLog(p) /\ ObeysLog(q) /\ q.committed_log = log
    BY <1>1 DEF PacemakerInv, LogInv
  <2>2. \A i \in Pairs(t), j \in Pairs(u) : j[1] = i[1] => j[2] = i[2]
    BY <1>1 DEF PacemakerInv, LogInv
  <2>3. log \in Seq(DOMAIN t) /\ log \in Seq(DOMAIN u)
    BY <2>1 DEF ObeysLog
  <2>4. PICK past : IsHistory(past, log, t, c)
    BY <2>1 DEF ObeysLog
  <2>5. PICK past2 : IsHistory(past2, log, u, d)
    BY <2>1 DEF ObeysLog
  <2> HIDE DEF t, u, log, c, d
  <2>6. ASSUME NEW i \in 1 .. Len(log)
        PROVE  t[log[i]].cmd = u[log[i]].cmd
    <3> DEFINE h == log[i]
               x == <<h, t[h].cmd>>
               y == <<h, u[h].cmd>>
    <3>1. h \in DOMAIN t /\ h \in DOMAIN u
      BY <2>3, ElementOfSeq
    <3> HIDE DEF h
    <3>2. /\ x \in Pairs(t) /\ x[1] = h /\ x[2] = t[h].cmd
          /\ y \in Pairs(u) /\ y[1] = h /\ y[2] = u[h].cmd
      BY <3>1 DEF Pairs
    <3> HIDE DEF x, y
    <3> QED
      BY <2>2, <3>2 DEF h
  <2>7. c = d
    BY <2>3, <2>4, <2>5, <2>6, SameHistory
  <2> QED
    BY <2>7 DEF c, d, ConfigOf
<1>2. PacemakerInv => StateFollowsLog
  BY <1>1 DEF StateFollowsLog
<1> QED
  BY <1>2, PacemakerInvariance, PTL
=============================================================================
