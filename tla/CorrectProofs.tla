--------------------------- MODULE CorrectProofs ----------------------------
(***************************************************************************)
(* Proofs about the replicas that never fail, for every number of replicas *)
(* of which at most a quorum may fail, and every history of these.         *)
(*                                                                         *)
(* SimulationProofs says what an operation adds to a replica and what it   *)
(* keeps.  Here it matters what exactly the memory is afterwards: two      *)
(* replicas that were in step are in step again.                           *)
(***************************************************************************)
EXTENDS SimulationProofs

(***************************************************************************)
(* The memory of one replica through the operations of a round.            *)
(***************************************************************************)
\* advance_view_with_reason
LEMMA AdvanceMemory ==
  ASSUME NEW r, NEW n, IsNode(r, n)
  PROVE  LET q == AdvanceAt(n).rep
         IN  /\ q.current_view = n.rep.current_view + 1
             /\ \A f \in Fields \ {"current_view", "vote_pool"} :
                  q[f] = n.rep[f]
<1> DEFINE v == n.rep.current_view + 1
           q == [n.rep EXCEPT !.current_view = v, !.vote_pool = {}]
<1>1. AdvanceAt(n).rep = q
  BY DEF AdvanceAt, AdvanceView
<1> HIDE DEF v
<1>2. /\ q.current_view = v
      /\ \A f \in Fields \ {"current_view", "vote_pool"} : q[f] = n.rep[f]
  BY DEF IsNode, IsRep, Fields
<1> HIDE DEF q
<1> QED
  BY <1>1, <1>2 DEF v

\* execute_and_commit of a no-op
LEMMA CommitMemory ==
  ASSUME NEW r, NEW n, IsNode(r, n), NEW h \in DOMAIN n.rep.block_tree
  PROVE  LET q == CommitAt(n, h).rep
         IN  /\ q.committed_log = Append(n.rep.committed_log, h)
             /\ \A f \in Fields \ {"committed_log"} : q[f] = n.rep[f]
<1> DEFINE b == n.rep.block_tree[h]
           log == Append(n.rep.committed_log, h)
           q == [n.rep EXCEPT !.committed_log = log]
<1>1. b.cmd = NoOp
  BY DEF IsNode, IsRep, IsTree, Block
<1>2. ApplyMembership(q, NoOp) = q
  <2> HIDE DEF q
  <2> QED
    BY DEF ApplyMembership, NoOp
<1>3. Commit(n.rep, h) = ApplyMembership(q, b.cmd)
  BY DEF Commit
<1>4. CommitAt(n, h).rep = q
  BY <1>1, <1>2, <1>3 DEF CommitAt
<1> HIDE DEF log
<1>5. /\ q.committed_log = log
      /\ \A f \in Fields \ {"committed_log"} : q[f] = n.rep[f]
  BY DEF IsNode, IsRep, Fields
<1> HIDE DEF q
<1> QED
  BY <1>4, <1>5 DEF log

\* commit_all: the blocks go to the end of the log one after the other.
LEMMA CommitFoldMemory ==
  ASSUME NEW r \in Replicas, NEW n, IsNode(r, n), Mirrors(n),
         NEW seq \in Seq(DOMAIN n.rep.block_tree)
  PROVE  LET q == FoldLeft(CommitAt, n, seq).rep
         IN  /\ q.committed_log = n.rep.committed_log \o seq
             /\ \A f \in Fields \ {"committed_log"} : q[f] = n.rep[f]
<1> DEFINE len == Len(seq)
           old == n.rep.committed_log
           g == CHOOSE f : IsCommitFold(f, n, seq, len)
           Good(p, j) ==
             /\ IsNode(r, p)
             /\ Mirrors(p)
             /\ \A f \in Fields \ {"committed_log"} : p.rep[f] = n.rep[f]
             /\ Len(p.rep.committed_log) = Len(old) + j
             /\ \A i \in 1 .. Len(old) : p.rep.committed_log[i] = old[i]
             /\ \A i \in 1 .. j : p.rep.committed_log[Len(old) + i] = seq[i]
           D == {j \in Nat : j <= len => Good(g[1 .. j], j)}
<1>1. len \in Nat /\ DOMAIN seq = 1 .. len
  OBVIOUS
<1>2. FoldLeft(CommitAt, n, seq) = g[1 .. len]
  BY <1>1 DEF FoldLeft, MapThenFoldSet, IsCommitFold
<1>3. IsCommitFold(g, n, seq, len)
  BY <1>1, CommitFoldExists
<1> HIDE DEF g
<1>4. ASSUME NEW s \in SUBSET (1 .. len)
      PROVE  g[s] = IF s = {} THEN n
                    ELSE CommitAt(g[s \ {Max(s)}], seq[Max(s)])
  BY <1>3, Zenon DEF IsCommitFold
<1>5. /\ old \in Seq(Nat)
      /\ Len(old) \in Nat
      /\ seq \in Seq(DOMAIN n.rep.block_tree)
  BY DEF IsNode, IsRep
<1> HIDE DEF len, old
<1>6. 0 \in D
  <2>1. 1 .. 0 = {}
    OBVIOUS
  <2>2. g[1 .. 0] = n
    BY <1>4, <2>1
  <2>3. Good(n, 0)
    BY <1>5 DEF old
  <2> QED
    BY <2>2, <2>3
<1>7. ASSUME NEW j \in Nat, j \in D
      PROVE  j + 1 \in D
  <2>1. SUFFICES ASSUME j + 1 <= len
                 PROVE  Good(g[1 .. j + 1], j + 1)
    OBVIOUS
  <2> DEFINE p == g[1 .. j]
             h == seq[j + 1]
             m == CommitAt(p, h)
  <2>2. Good(p, j)
    BY <1>1, <1>7, <2>1
  <2>3. h \in DOMAIN n.rep.block_tree
    BY <1>1, <1>5, <2>1, ElementOfSeq DEF len
  <2>4. g[1 .. j + 1] = m
    <3> DEFINE s == 1 .. j + 1
    <3>1. s \in SUBSET (1 .. len) /\ s \subseteq Nat
      BY <1>1, <2>1
    <3>2. j + 1 \in s /\ \A i \in s : i <= j + 1
      OBVIOUS
    <3>3. s \ {j + 1} = 1 .. j
      OBVIOUS
    <3> HIDE DEF s
    <3>4. Max(s) = j + 1
      BY <3>1, <3>2, GreatestIsMax
    <3>5. g[s] = CommitAt(g[s \ {Max(s)}], seq[Max(s)])
      BY <1>4, <3>1, <3>2
    <3> QED
      BY <3>3, <3>4, <3>5 DEF s
  <2> HIDE DEF p, h
  <2>5. /\ IsNode(r, p)
        /\ Mirrors(p)
        /\ p.rep.block_tree = n.rep.block_tree
        /\ h \in DOMAIN p.rep.block_tree
        /\ h \in Nat
        /\ p.rep.committed_log \in Seq(Nat)
    <3>1. p.rep.block_tree = n.rep.block_tree
      BY <2>2 DEF Fields
    <3> QED
      BY <2>2, <2>3, <3>1 DEF IsNode, IsRep, IsTree
  <2>6. IsNode(r, m) /\ Mirrors(m)
    <3> HIDE DEF m
    <3>1. Follows(r, p, m, {}, {})
      BY <2>5, CommitAtFollows DEF m
    <3> QED
      BY <3>1 DEF Follows
  <2>7. /\ m.rep.committed_log = Append(p.rep.committed_log, h)
        /\ \A f \in Fields \ {"committed_log"} : m.rep[f] = p.rep[f]
    <3> HIDE DEF m
    <3> QED
      BY <2>5, CommitMemory DEF m
  <2> HIDE DEF m
  <2>8. /\ Len(m.rep.committed_log) = Len(old) + (j + 1)
        /\ \A i \in 1 .. Len(old) : m.rep.committed_log[i] = old[i]
        /\ \A i \in 1 .. j + 1 : m.rep.committed_log[Len(old) + i] = seq[i]
    <3> DEFINE l == p.rep.committed_log
    <3>1. /\ l \in Seq(Nat)
          /\ Len(l) = Len(old) + j
          /\ \A i \in 1 .. Len(old) : l[i] = old[i]
          /\ \A i \in 1 .. j : l[Len(old) + i] = seq[i]
      BY <2>2, <2>5
    <3> HIDE DEF l
    <3>2. m.rep.committed_log = Append(l, h)
      BY <2>7 DEF l
    <3>3. /\ Len(Append(l, h)) = Len(l) + 1
          /\ \A i \in 1 .. Len(l) : Append(l, h)[i] = l[i]
          /\ Append(l, h)[Len(l) + 1] = h
      BY <2>5, <3>1, AppendMeans
    <3> DEFINE a == Append(l, h)
    <3> HIDE DEF a
    <3>4. /\ Len(a) = Len(old) + (j + 1)
          /\ \A i \in 1 .. Len(old) : a[i] = old[i]
          /\ \A i \in 1 .. j : a[Len(old) + i] = seq[i]
          /\ a[Len(old) + (j + 1)] = seq[j + 1]
      BY <1>5, <3>1, <3>3 DEF a, h
    <3>5. \A i \in 1 .. j + 1 : i \in 1 .. j \/ i = j + 1
      OBVIOUS
    <3>6. \A i \in 1 .. j + 1 : a[Len(old) + i] = seq[i]
      BY <3>4, <3>5
    <3> QED
      BY <3>2, <3>4, <3>6 DEF a
  <2>9. \A f \in Fields \ {"committed_log"} : m.rep[f] = n.rep[f]
    BY <2>2, <2>7
  <2> QED
    BY <2>4, <2>6, <2>8, <2>9
<1>8. len \in D
  <2> HIDE DEF D
  <2> QED
    BY <1>1, <1>6, <1>7, NatSetInduction
<1> DEFINE p == g[1 .. len]
<1>9. Good(p, len)
  BY <1>1, <1>8
<1> HIDE DEF p
<1>10. p.rep.committed_log = old \o seq
  <2> DEFINE l == p.rep.committed_log
  <2>1. l \in Seq(Nat)
    BY <1>9 DEF IsNode, IsRep
  <2>2. /\ Len(l) = Len(old) + len
        /\ \A i \in 1 .. Len(old) : l[i] = old[i]
        /\ \A i \in 1 .. len : l[Len(old) + i] = seq[i]
    BY <1>9
  <2>3. DOMAIN n.rep.block_tree \subseteq Nat
    BY DEF IsNode, IsRep, IsTree
  <2>4. seq \in Seq(Nat)
    BY <1>5, <2>3
  <2> HIDE DEF l
  <2> DEFINE c == old \o seq
  <2>5. /\ c \in Seq(Nat)
        /\ Len(c) = Len(old) + len
        /\ \A i \in 1 .. Len(old) : c[i] = old[i]
        /\ \A i \in 1 .. len : c[Len(old) + i] = seq[i]
    BY <1>5, <2>4, ConcatMeans DEF len
  <2> HIDE DEF c
  <2> DEFINE k == Len(old)
  <2>6. /\ k \in Nat
        /\ Len(l) = k + len
        /\ Len(c) = k + len
        /\ \A i \in 1 .. k : l[i] = c[i]
        /\ \A i \in 1 .. len : l[k + i] = c[k + i]
    BY <1>5, <2>2, <2>5
  <2> HIDE DEF k, D, Good
  <2>7. len \in Nat /\ c \in Seq(Nat)
    BY <1>1, <2>5
  <2>8. l = c
    BY <2>1, <2>6, <2>7, SameJoin, Zenon
  <2> QED
    BY <2>8 DEF l, c
<1> QED
  BY <1>2, <1>9, <1>10 DEF p, old

\* The blocks that commit_all commits are not in the log yet, and it commits
\* none of them twice.
LEMMA CommitSequenceNew ==
  ASSUME NEW rep, IsTree(rep.block_tree)
  PROVE  LET seq == CommitSequence(rep)
         IN  /\ seq \in Seq(DOMAIN rep.block_tree)
             /\ \A i \in 1 .. Len(seq) : seq[i] \in Committable(rep)
             /\ \A i, j \in 1 .. Len(seq) : seq[i] = seq[j] => i = j
<1> DEFINE S == Committable(rep)
           n == Cardinality(S)
           rank(h) == Cardinality({g \in S : g < h})
           Has(h, k) == h \in S /\ rank(h) = k
           seq == CommitSequence(rep)
<1>1. IsFiniteSet(S) /\ S \subseteq Nat
  <2>1. S \in SUBSET DOMAIN rep.block_tree
    BY DEF Committable
  <2> QED
    BY <2>1, FS_Subset DEF IsTree
<1>2. n \in Nat
  BY <1>1, FS_CardinalityType
<1>3. seq = [i \in 1 .. n |-> CHOOSE h \in S : rank(h) = i - 1]
  BY DEF CommitSequence
<1>4. seq \in Seq(DOMAIN rep.block_tree)
  BY CommitSequenceKnown DEF IsTree
<1>5. Len(seq) = n
  BY <1>2, <1>3
<1>6. ASSUME NEW i \in 1 .. n
      PROVE  Has(seq[i], i - 1)
  <2> DEFINE k == i - 1
  <2>1. k \in 0 .. Cardinality(S) - 1
    BY <1>2
  <2>2. seq[i] = CHOOSE h \in S : rank(h) = k
    BY <1>3
  <2> HIDE DEF k, S, seq
  <2>3. \E h \in S : Cardinality({g \in S : g < h}) = k
    BY <1>1, <2>1, EveryRankTaken
  <2>4. \E h \in S : rank(h) = k
    BY <2>3
  <2> HIDE DEF rank
  <2>5. Has(seq[i], k)
    BY <2>2, <2>4
  <2> QED
    BY <2>5 DEF k
<1> HIDE DEF rank
<1>7. ASSUME NEW i \in 1 .. n, NEW j \in 1 .. n, seq[i] = seq[j]
      PROVE  i = j
  <2>1. i - 1 = j - 1
    BY <1>6, <1>7
  <2> QED
    BY <1>2, <2>1
<1> HIDE DEF seq, n, S
<1> QED
  BY <1>4, <1>5, <1>6, <1>7 DEF seq, S

LEMMA CommitAllMemory ==
  ASSUME NEW r \in Replicas, NEW n, IsNode(r, n), Mirrors(n)
  PROVE  LET q == CommitAllAt(n).rep
         IN  /\ q.committed_log = n.rep.committed_log \o CommitSequence(n.rep)
             /\ \A f \in Fields \ {"committed_log"} : q[f] = n.rep[f]
<1> DEFINE m == FoldLeft(CommitAt, n, CommitSequence(n.rep))
           c == CommitAllAt(n)
<1>1. CommitSequence(n.rep) \in Seq(DOMAIN n.rep.block_tree)
  BY CommitSequenceKnown DEF IsNode, IsRep, IsTree
<1>2. /\ m.rep.committed_log = n.rep.committed_log \o CommitSequence(n.rep)
      /\ \A f \in Fields \ {"committed_log"} : m.rep[f] = n.rep[f]
      /\ DOMAIN m = {"rep", "disk"}
  <2>1. Follows(r, n, m, {}, {})
    BY <1>1, CommitFoldFollows
  <2> QED
    BY <1>1, <2>1, CommitFoldMemory DEF Follows, IsNode
<1>3. c = m \/ c = SnapshotAt(m)
  BY DEF CommitAllAt
<1> HIDE DEF c, m
<1>4. SnapshotAt(m).rep = m.rep
  BY <1>2 DEF SnapshotAt
<1>5. c.rep = m.rep
  BY <1>3, <1>4
<1> QED
  BY <1>2, <1>5 DEF c

\* The last two steps of a round, at one replica.
LEMMA EndMemory ==
  ASSUME NEW r \in Replicas, NEW n, IsNode(r, n), Mirrors(n)
  PROVE  LET q == AdvanceAt(CommitAllAt(n)).rep
         IN  /\ q.current_view = n.rep.current_view + 1
             /\ q.block_tree = n.rep.block_tree
             /\ q.high_qc = n.rep.high_qc
             /\ q.config_epoch = n.rep.config_epoch
             /\ q.committed_log = n.rep.committed_log \o CommitSequence(n.rep)
<1> DEFINE c == CommitAllAt(n)
           q == AdvanceAt(c).rep
<1>1. /\ c.rep.committed_log = n.rep.committed_log \o CommitSequence(n.rep)
      /\ \A f \in Fields \ {"committed_log"} : c.rep[f] = n.rep[f]
  BY CommitAllMemory
<1>2. IsNode(r, c)
  BY CommitAllAtFollows DEF Follows
<1> HIDE DEF c
<1>3. /\ q.current_view = c.rep.current_view + 1
      /\ \A f \in Fields \ {"current_view", "vote_pool"} : q[f] = c.rep[f]
  BY <1>2, AdvanceMemory
<1> HIDE DEF q
<1>4. /\ q.current_view = n.rep.current_view + 1
      /\ q.block_tree = n.rep.block_tree
      /\ q.high_qc = n.rep.high_qc
      /\ q.config_epoch = n.rep.config_epoch
      /\ q.committed_log = n.rep.committed_log \o CommitSequence(n.rep)
  BY <1>1, <1>3 DEF Fields
<1> QED
  BY <1>4 DEF q, c

\* Replicas that are in step commit the same blocks in the same order.
LEMMA EndInStep ==
  ASSUME NEW r \in Replicas, NEW m, IsNode(r, m), Mirrors(m),
         NEW s \in Replicas, NEW n, IsNode(s, n), Mirrors(n),
         InStep(m.rep, n.rep)
  PROVE  InStep(AdvanceAt(CommitAllAt(m)).rep, AdvanceAt(CommitAllAt(n)).rep)
<1> DEFINE p == AdvanceAt(CommitAllAt(m)).rep
           q == AdvanceAt(CommitAllAt(n)).rep
<1>1. /\ p.current_view = m.rep.current_view + 1
      /\ p.block_tree = m.rep.block_tree
      /\ p.high_qc = m.rep.high_qc
      /\ p.config_epoch = m.rep.config_epoch
      /\ p.committed_log = m.rep.committed_log \o CommitSequence(m.rep)
  BY EndMemory
<1>2. /\ q.current_view = n.rep.current_view + 1
      /\ q.block_tree = n.rep.block_tree
      /\ q.high_qc = n.rep.high_qc
      /\ q.config_epoch = n.rep.config_epoch
      /\ q.committed_log = n.rep.committed_log \o CommitSequence(n.rep)
  BY EndMemory
<1> HIDE DEF p, q
<1>3. Committable(m.rep) = Committable(n.rep)
  BY DEF InStep, Committable
<1>4. CommitSequence(m.rep) = CommitSequence(n.rep)
  BY <1>3 DEF CommitSequence
<1>5. InStep(p, q)
  BY <1>1, <1>2, <1>4 DEF InStep
<1> QED
  BY <1>5 DEF p, q

\* No block enters the log a second time.
LEMMA EndInjective ==
  ASSUME NEW r \in Replicas, NEW n, IsNode(r, n), Mirrors(n),
         IsInjective(n.rep.committed_log)
  PROVE  IsInjective(AdvanceAt(CommitAllAt(n)).rep.committed_log)
<1> DEFINE log == n.rep.committed_log
           seq == CommitSequence(n.rep)
           all == log \o seq
<1>1. AdvanceAt(CommitAllAt(n)).rep.committed_log = all
  BY EndMemory
<1>2. /\ log \in Seq(Nat)
      /\ IsTree(n.rep.block_tree)
      /\ DOMAIN n.rep.block_tree \subseteq Nat
  BY DEF IsNode, IsRep, IsTree
<1>3. /\ seq \in Seq(DOMAIN n.rep.block_tree)
      /\ \A i \in 1 .. Len(seq) : seq[i] \in Committable(n.rep)
      /\ \A i, j \in 1 .. Len(seq) : seq[i] = seq[j] => i = j
  BY <1>2, CommitSequenceNew
<1>4. seq \in Seq(Nat)
  BY <1>2, <1>3
<1>5. \A i \in 1 .. Len(log), j \in 1 .. Len(seq) : log[i] # seq[j]
  BY <1>2, <1>3 DEF Committable
<1>6. \A i, j \in 1 .. Len(log) : log[i] = log[j] => i = j
  BY <1>2 DEF IsInjective
<1> HIDE DEF log, seq
<1>7. /\ all \in Seq(Nat)
      /\ Len(all) = Len(log) + Len(seq)
      /\ \A i \in 1 .. Len(log) : all[i] = log[i]
      /\ \A i \in 1 .. Len(seq) : all[Len(log) + i] = seq[i]
  BY <1>2, <1>4, ConcatMeans
<1> DEFINE k == Len(log)
           l == Len(seq)
<1>8. k \in Nat /\ l \in Nat
  BY <1>2, <1>4
<1> HIDE DEF all
<1>9. ASSUME NEW i \in DOMAIN all, NEW j \in DOMAIN all, all[i] = all[j]
      PROVE  i = j
  <2>1. DOMAIN all = 1 .. k + l
    BY <1>7
  <2> HIDE DEF k, l
  <2>2. ASSUME NEW x \in 1 .. k + l, x > k
        PROVE  /\ x - k \in 1 .. l
               /\ all[x] = seq[x - k]
    <3>1. x - k \in 1 .. l /\ k + (x - k) = x
      BY <1>8, <2>2
    <3>2. all[k + (x - k)] = seq[x - k]
      BY <1>7, <3>1 DEF k, l
    <3> QED
      BY <3>1, <3>2
  <2>3. ASSUME NEW x \in 1 .. k + l, ~(x > k)
        PROVE  /\ x \in 1 .. k
               /\ all[x] = log[x]
    <3>1. x \in 1 .. k
      BY <1>8, <2>3
    <3> QED
      BY <1>7, <3>1 DEF k
  <2>4. /\ \A x \in 1 .. k, y \in 1 .. l : log[x] # seq[y]
        /\ \A x, y \in 1 .. k : log[x] = log[y] => x = y
        /\ \A x, y \in 1 .. l : seq[x] = seq[y] => x = y
    BY <1>3, <1>5, <1>6 DEF k, l, seq
  <2>5. CASE i > k /\ j > k
    <3>1. i - k = j - k
      BY <1>9, <2>1, <2>2, <2>4, <2>5
    <3> QED
      BY <1>8, <2>1, <3>1
  <2>6. CASE ~(i > k) /\ ~(j > k)
    BY <1>9, <2>1, <2>3, <2>4, <2>6
  <2>7. ~(i > k /\ ~(j > k)) /\ ~(j > k /\ ~(i > k))
    BY <1>9, <2>1, <2>2, <2>3, <2>4
  <2> QED
    BY <2>5, <2>6, <2>7
<1>10. IsInjective(all)
  BY <1>9 DEF IsInjective
<1> QED
  BY <1>1, <1>10 DEF all, log, seq

(***************************************************************************)
(* A proposal among replicas that are in step.                             *)
(***************************************************************************)
\* What a replica needs besides being in step: its certificate is one that it
\* would itself accept, of an earlier view.
Sound(rep) ==
  /\ rep.config_epoch = 0
  /\ rep.high_qc # None => /\ rep.high_qc.epoch = 0
                           /\ rep.high_qc.view < rep.current_view
                           /\ rep.high_qc.block \in DOMAIN rep.block_tree
                           /\ VerifiesQC(rep, rep.high_qc)
  /\ IsInjective(rep.committed_log)

\* Whether a certificate verifies depends on the keys and the validators.
LEMMA VerifiesAlike ==
  ASSUME NEW r, NEW a, IsRep(r, a), NEW s, NEW c, IsRep(s, c),
         NEW qc, VerifiesQC(a, qc)
  PROVE  VerifiesQC(c, qc)
<1>1. /\ a.keys = Replicas
      /\ c.keys = Replicas
      /\ a.active_validators = Replicas
      /\ c.active_validators = Replicas
  BY DEF IsRep
<1> QED
  BY <1>1 DEF VerifiesQC

\* A certificate made of the votes of a round verifies: the votes differ in
\* nothing but the signer, so there are as many signers as signatures.
LEMMA CertifiedVerifies ==
  ASSUME NEW b \in Block, NEW voters \in SUBSET Replicas,
         NEW V, V = {Sign(SignerOf[r], b) : r \in voters},
         NEW qc, CertifiedBy(qc, V), NEW r, NEW rep, IsRep(r, rep)
  PROVE  /\ qc \in QC
         /\ qc.block = b.hash
         /\ qc.view = b.view
         /\ qc.epoch = b.epoch
         /\ VerifiesQC(rep, qc)
<1> DEFINE sigs == qc.sigs
           signers == {s.signer : s \in sigs}
           f == [s \in sigs |-> s.signer]
<1>1. ASSUME NEW v \in V
      PROVE  /\ v.signer \in Replicas
             /\ v = [block |-> b.hash, signer |-> v.signer, view |-> b.view,
                     epoch |-> b.epoch]
  <2>1. PICK s \in voters : v = Sign(SignerOf[s], b)
    OBVIOUS
  <2>2. SignerOf[s] \in Replicas
    BY SimulationAssumption DEF DistributesKeys
  <2> QED
    BY <2>1, <2>2 DEF Sign
<1>2. /\ qc \in QC
      /\ qc.block = b.hash
      /\ qc.view = b.view
      /\ qc.epoch = b.epoch
  BY <1>1 DEF CertifiedBy
<1>3. /\ sigs \in SUBSET V
      /\ QuorumSize(Replicas) <= Cardinality(sigs)
  BY DEF CertifiedBy
<1>4. IsFiniteSet(sigs)
  <2>1. IsFiniteSet(V)
    BY VotesOf
  <2> QED
    BY <1>3, <2>1, FS_Subset
<1>5. {s \in sigs : Verifies(rep.keys, s, qc.block, qc.view, qc.epoch)} = sigs
  <2>1. rep.keys = Replicas
    BY DEF IsRep
  <2>2. ASSUME NEW s \in sigs
        PROVE  Verifies(rep.keys, s, qc.block, qc.view, qc.epoch)
    <3>1. s \in V
      BY <1>3
    <3>2. /\ s.signer \in Replicas
          /\ s.block = b.hash
          /\ s.view = b.view
          /\ s.epoch = b.epoch
      BY <1>1, <3>1
    <3> QED
      BY <1>2, <2>1, <3>2 DEF Verifies
  <2> QED
    BY <2>2
<1>6. Cardinality(signers) = Cardinality(sigs)
  <2>1. f \in Surjection(sigs, signers)
    BY DEF Surjection
  <2>2. \A s, t \in sigs : s.signer = t.signer => s = t
    BY <1>1, <1>3
  <2>3. f \in Injection(sigs, signers)
    BY <2>1, <2>2 DEF Surjection, Injection, IsInjective
  <2> HIDE DEF f, signers, sigs
  <2> QED
    BY <1>4, <2>1, <2>3, FS_Surjection
<1>7. rep.active_validators = Replicas
  BY DEF IsRep
<1>8. Cardinality(sigs) \in Nat
  BY <1>4, FS_CardinalityType
<1> HIDE DEF sigs
<1>9. Cardinality(signers) >= QuorumSize(rep.active_validators)
  BY <1>3, <1>6, <1>7, <1>8, QuorumIsNumber
<1>10. VerifiesQC(rep, qc)
  BY <1>5, <1>9 DEF VerifiesQC, sigs
<1> QED
  BY <1>2, <1>10

\* The proposal of a leader is accepted by a replica in step with it.
LEMMA ProposalAccepted ==
  ASSUME NEW l \in Replicas, NEW a, IsRep(l, a), Sound(a),
         IsLeader(a, a.current_view),
         NEW r \in Replicas, NEW c, IsRep(r, c), Sound(c), InStep(a, c),
         NEW hash \in Nat
  PROVE  AcceptsProposal(c, NewBlock(a, a.current_view, hash, NoOp))
<1> DEFINE b == NewBlock(a, a.current_view, hash, NoOp)
<1>1. /\ b.proposer = a.id
      /\ b.view = a.current_view
      /\ b.epoch = a.config_epoch
      /\ b.qc = a.high_qc
      /\ b.parent = IF a.high_qc # None THEN a.high_qc.block
                    ELSE LatestBlock(a.block_tree)
  BY DEF NewBlock
<1> HIDE DEF b
<1>2. /\ a.block_tree = c.block_tree
      /\ a.high_qc = c.high_qc
      /\ a.active_validators = c.active_validators
      /\ a.config_epoch = 0
      /\ c.config_epoch = 0
  BY DEF InStep, Sound, IsRep
<1>3. b.proposer = LeaderForView(c.active_validators, b.view)
  BY <1>1, <1>2 DEF IsLeader
<1>4. b.parent \in DOMAIN c.block_tree
  <2>1. LatestBlock(a.block_tree) \in DOMAIN a.block_tree
    BY LatestBlockKnown DEF IsRep
  <2> QED
    BY <1>1, <1>2, <2>1 DEF Sound
<1>5. b.qc # None => /\ b.qc.epoch = c.config_epoch
                     /\ VerifiesQC(c, b.qc)
                     /\ b.qc.block \in DOMAIN c.block_tree
  BY <1>1, <1>2 DEF Sound
<1>6. AcceptsProposal(c, b)
  BY <1>1, <1>2, <1>3, <1>4, <1>5 DEF AcceptsProposal
<1> QED
  BY <1>6 DEF b

\* The memory that has taken in a block and the certificate of the round.
Told(q, rep, b, qc) ==
  /\ q.current_view = rep.current_view
  /\ q.config_epoch = rep.config_epoch
  /\ q.committed_log = rep.committed_log
  /\ q.block_tree = InsertBlock(rep.block_tree, b)
  /\ q.high_qc = qc

LEMMA InsertMemory ==
  ASSUME NEW r, NEW rep, IsRep(r, rep), NEW b
  PROVE  Told([rep EXCEPT !.block_tree = InsertBlock(@, b)], rep, b,
              rep.high_qc)
<1> DEFINE t == InsertBlock(rep.block_tree, b)
           q == [rep EXCEPT !.block_tree = t]
<1> HIDE DEF t
<1>1. /\ q.block_tree = t
      /\ q.current_view = rep.current_view
      /\ q.config_epoch = rep.config_epoch
      /\ q.committed_log = rep.committed_log
      /\ q.high_qc = rep.high_qc
  BY DEF IsRep, Fields
<1> QED
  BY <1>1 DEF Told, t

\* The leader of a round, once it has counted the votes.
LEMMA LeaderMemory ==
  ASSUME NEW l \in Replicas, NEW n, IsNode(l, n), Mirrors(n),
         n.rep.vote_pool = {}, NEW b \in Block,
         NEW V, IsFiniteSet(V), V \subseteq Signature,
         \A v \in V : v.block = b.hash
  PROVE  LET q == CountAt(ProposeAt(n, b), V).rep
         IN  /\ Told(q, n.rep, b, q.high_qc)
             /\ q.high_qc = n.rep.high_qc \/ CertifiedBy(q.high_qc, V)
<1> DEFINE m == ProposeAt(n, b)
           p == [n.rep EXCEPT !.block_tree = InsertBlock(@, b)]
           q == CountAt(m, V).rep
<1>1. m.rep = p
  BY DEF ProposeAt, Propose, IsNode
<1>2. Told(p, n.rep, b, n.rep.high_qc)
  BY InsertMemory DEF IsNode
<1>3. /\ IsNode(l, m)
      /\ m.rep.vote_pool = {}
  BY ProposeAtFollows DEF Follows
<1> HIDE DEF m, p
<1>4. q = FoldSet(LAMBDA vote, rep : HandleVote(rep, vote), m.rep, V)
  BY DEF CountAt
<1>5. IsRep(l, m.rep)
  BY <1>3 DEF IsNode
<1>6. HasCounted(l, m.rep, q, V, b.hash)
  <2>1. HasCounted(l, m.rep,
                   FoldSet(LAMBDA vote, rep : HandleVote(rep, vote), m.rep, V),
                   V, b.hash)
    BY <1>3, <1>5, VoteFoldCounts
  <2> QED
    BY <1>4, <2>1
<1> HIDE DEF q
<1>7. /\ q.current_view = m.rep.current_view
      /\ q.config_epoch = m.rep.config_epoch
      /\ q.committed_log = m.rep.committed_log
      /\ q.block_tree = m.rep.block_tree
      /\ q.high_qc = m.rep.high_qc \/ CertifiedBy(q.high_qc, V)
  BY <1>6 DEF HasCounted, Fields
<1>8. /\ Told(q, n.rep, b, q.high_qc)
      /\ q.high_qc = n.rep.high_qc \/ CertifiedBy(q.high_qc, V)
  BY <1>1, <1>2, <1>7 DEF Told
<1> QED
  BY <1>8 DEF q, m

\* Every other replica of the round.
LEMMA FollowerMemory ==
  ASSUME NEW r \in Replicas, NEW n, IsNode(r, n), NEW b,
         AcceptsProposal(n.rep, b), NEW formed \in BOOLEAN, NEW qc,
         formed => NewerQC(qc, n.rep.high_qc),
         ~formed => qc = n.rep.high_qc
  PROVE  LET v == AcceptAt(n, b)
             m == IF formed THEN LearnAt(v, qc) ELSE v
         IN  Told(m.rep, n.rep, b, qc)
<1> DEFINE v == AcceptAt(n, b)
           p == [n.rep EXCEPT !.block_tree = InsertBlock(@, b)]
           m == IF formed THEN LearnAt(v, qc) ELSE v
<1>1. v.rep = p
  BY DEF AcceptAt, ReceiveProposal
<1>2. Told(p, n.rep, b, n.rep.high_qc) /\ DOMAIN p = Fields
  BY InsertMemory DEF IsNode, IsRep
<1> HIDE DEF v, p
<1>3. CASE ~formed
  BY <1>1, <1>2, <1>3 DEF v
<1>4. CASE formed
  <2> DEFINE q == [p EXCEPT !.high_qc = qc]
  <2>1. NewerQC(qc, p.high_qc)
    BY <1>2, <1>4 DEF Told
  <2>2. LearnAt(v, qc).rep = q
    BY <1>1, <2>1 DEF LearnAt, ApplyHighQC
  <2>3. /\ q.high_qc = qc
        /\ q.current_view = p.current_view
        /\ q.config_epoch = p.config_epoch
        /\ q.committed_log = p.committed_log
        /\ q.block_tree = p.block_tree
    BY <1>2 DEF Fields
  <2>4. Told(q, n.rep, b, qc)
    BY <1>2, <2>3 DEF Told
  <2>5. m.rep = q
    BY <1>4, <2>2
  <2> HIDE DEF q, m
  <2> QED
    BY <2>4, <2>5 DEF m, v
<1> QED
  BY <1>3, <1>4

\* A certificate that the votes of this round made.
CertifiesNow(qc, b, rep) ==
  /\ qc \in QC
  /\ qc.block = b.hash
  /\ qc.view = b.view
  /\ qc.epoch = b.epoch
  /\ VerifiesQC(rep, qc)

\* What a replica is after a round in which it took in a block and a
\* certificate.
LEMMA ToldIsSound ==
  ASSUME NEW r \in Replicas, NEW n, IsNode(r, n), Sound(n.rep),
         NEW t, IsNode(r, t), Mirrors(t), NEW b \in Block, NEW qc,
         Told(t.rep, n.rep, b, qc),
         b.view <= n.rep.current_view, b.epoch = 0,
         qc = n.rep.high_qc \/ CertifiesNow(qc, b, n.rep)
  PROVE  Sound(AdvanceAt(CommitAllAt(t)).rep)
<1> DEFINE m == AdvanceAt(CommitAllAt(t))
           q == m.rep
           p == n.rep
<1>1. /\ q.current_view = p.current_view + 1
      /\ q.config_epoch = 0
      /\ q.block_tree = InsertBlock(p.block_tree, b)
      /\ q.high_qc = qc
  BY EndMemory DEF Told, Sound
<1>2. IsInjective(q.committed_log)
  BY EndInjective DEF Told, Sound
<1>3. IsRep(r, p) /\ IsRep(r, q)
  <2>1. Follows(r, t, m, {}, {})
    <3>1. Follows(r, t, t, {}, {})
      BY FollowsItself
    <3> QED
      BY <3>1, RoundEnds
  <2> QED
    BY <2>1 DEF Follows, IsNode
<1>4. Sound(p)
  OBVIOUS
<1> HIDE DEF m, q, p
<1>5. DOMAIN q.block_tree = DOMAIN p.block_tree \cup {b.hash}
  BY <1>1 DEF InsertBlock
<1>6. p.current_view \in Nat /\ (p.high_qc # None => p.high_qc.view \in Nat)
  BY <1>3 DEF IsRep, QC
<1>7. CASE qc = p.high_qc
  <2>1. VerifiesQC(p, qc) => VerifiesQC(q, qc)
    BY <1>3, VerifiesAlike
  <2>2. p.high_qc # None => p.high_qc.view < p.current_view + 1
    BY <1>4, <1>6 DEF Sound
  <2>3. Sound(q)
    BY <1>1, <1>2, <1>4, <1>5, <1>7, <2>1, <2>2 DEF Sound
  <2> QED
    BY <2>3 DEF q, m
<1>8. CASE CertifiesNow(qc, b, p)
  <2>1. VerifiesQC(p, qc)
    BY <1>8 DEF CertifiesNow
  <2>2. VerifiesQC(q, qc)
    BY <1>3, <2>1, VerifiesAlike
  <2>3. /\ qc.epoch = 0
        /\ qc.view < p.current_view + 1
        /\ qc.block \in DOMAIN q.block_tree
    BY <1>5, <1>6, <1>8 DEF CertifiesNow, p, Block
  <2>4. Sound(q)
    BY <1>1, <1>2, <2>2, <2>3 DEF Sound
  <2> QED
    BY <2>4 DEF q, m
<1> QED
  BY <1>7, <1>8 DEF p

\* Two replicas that were in step and took in the same.
LEMMA ToldInStep ==
  ASSUME NEW r \in Replicas, NEW m, NEW t, IsNode(r, t), Mirrors(t),
         NEW s \in Replicas, NEW n, NEW u, IsNode(s, u), Mirrors(u),
         NEW b, NEW qc, InStep(m, n), Told(t.rep, m, b, qc),
         Told(u.rep, n, b, qc)
  PROVE  InStep(AdvanceAt(CommitAllAt(t)).rep, AdvanceAt(CommitAllAt(u)).rep)
<1>1. InStep(t.rep, u.rep)
  BY DEF InStep, Told
<1> QED
  BY <1>1, EndInStep

\* The next view, with nothing new in the memory but what was executed.
LEMMA NextViewIsSound ==
  ASSUME NEW r, NEW p, IsRep(r, p), Sound(p), NEW s, NEW q, IsRep(s, q),
         q.current_view = p.current_view + 1,
         q.block_tree = p.block_tree,
         q.high_qc = p.high_qc,
         q.config_epoch = p.config_epoch,
         IsInjective(q.committed_log)
  PROVE  Sound(q)
<1>1. p.current_view \in Nat /\ (p.high_qc # None => p.high_qc.view \in Nat)
  BY DEF IsRep, QC
<1>2. VerifiesQC(p, p.high_qc) => VerifiesQC(q, p.high_qc)
  BY VerifiesAlike
<1>3. p.high_qc # None => p.high_qc.view < p.current_view + 1
  BY <1>1 DEF Sound
<1> QED
  BY <1>2, <1>3 DEF Sound

\* What a replica is after a round in which it took in nothing.
LEMMA EndIsSound ==
  ASSUME NEW r \in Replicas, NEW n, IsNode(r, n), Mirrors(n), Sound(n.rep)
  PROVE  Sound(AdvanceAt(CommitAllAt(n)).rep)
<1> DEFINE m == AdvanceAt(CommitAllAt(n))
           q == m.rep
<1>1. /\ q.current_view = n.rep.current_view + 1
      /\ q.config_epoch = n.rep.config_epoch
      /\ q.block_tree = n.rep.block_tree
      /\ q.high_qc = n.rep.high_qc
  BY EndMemory
<1>2. IsInjective(q.committed_log)
  BY EndInjective DEF Sound
<1>3. IsRep(r, n.rep) /\ IsRep(r, q)
  <2>1. Follows(r, n, m, {}, {})
    <3>1. Follows(r, n, n, {}, {})
      BY FollowsItself
    <3> QED
      BY <3>1, RoundEnds
  <2> QED
    BY <2>1 DEF Follows, IsNode
<1> HIDE DEF m, q
<1>4. Sound(q)
  BY <1>1, <1>2, <1>3, NextViewIsSound
<1> QED
  BY <1>4 DEF q, m

(***************************************************************************)
(* A round, part by part.                                                  *)
(***************************************************************************)
\* What RoundOf computes on its way, for leader l and the block b.
BlockOf(l, hash) ==
  NewBlock(nodes[l].rep, nodes[l].rep.current_view, hash, NoOp)

Voters(l, b) == {r \in GetsProposal(l) : AcceptsProposal(nodes[r].rep, b)}

VotesFor(l, b) == {Sign(SignerOf[r], b) : r \in Voters(l, b)}

CountedAt(l, b) == CountAt(ProposeAt(nodes[l], b), VotesFor(l, b))

LeaderQC(l, b) == CountedAt(l, b).rep.high_qc

Formed(l, b) == LeaderQC(l, b) # nodes[l].rep.high_qc

VotedAt(l, b, r) ==
  IF r \in Voters(l, b) THEN AcceptAt(nodes[r], b) ELSE nodes[r]

ToldAt(l, b, r) ==
  IF r = l THEN CountedAt(l, b)
  ELSE IF Formed(l, b) /\ r \in GetsQC(l)
       THEN LearnAt(VotedAt(l, b, r), LeaderQC(l, b))
       ELSE VotedAt(l, b, r)

LEMMA RoundTells ==
  ASSUME NEW l, NEW hash, nodes' = RoundOf(l, hash, NoOp)
  PROVE  /\ \A r \in Up : nodes'[r] =
              AdvanceAt(CommitAllAt(ToldAt(l, BlockOf(l, hash), r)))
         /\ \A r \in Replicas \ Up : nodes'[r] = NodesNow[r]
<1> DEFINE all == [r \in Replicas |-> ToldAt(l, BlockOf(l, hash), r)]
<1>1. nodes' = CommitAndAdvance(all)
  BY DEF RoundOf, ToldAt, VotedAt, Formed, LeaderQC, CountedAt, VotesFor,
         Voters, BlockOf
<1>2. \A r \in Up : r \in Replicas
  BY DEF Up
<1>3. \A r \in Replicas : all[r] = ToldAt(l, BlockOf(l, hash), r)
  OBVIOUS
<1> HIDE DEF all
<1> QED
  BY <1>1, <1>2, <1>3 DEF CommitAndAdvance

\* The block of a round and what its leader makes of the votes.
LEMMA LeaderTold ==
  ASSUME NodesInv, NEW l \in Up, NEW hash \in Nat, NEW b, b = BlockOf(l, hash)
  PROVE  /\ b \in Block
         /\ b.hash = hash
         /\ b.view = nodes[l].rep.current_view
         /\ b.epoch = nodes[l].rep.config_epoch
         /\ IsNode(l, CountedAt(l, b))
         /\ Mirrors(CountedAt(l, b))
         /\ Told(CountedAt(l, b).rep, nodes[l].rep, b, LeaderQC(l, b))
         /\ Formed(l, b) =>
              /\ QuorumSize(Replicas) <= Cardinality(Voters(l, b))
              /\ \A r, rep : IsRep(r, rep)
                              => CertifiesNow(LeaderQC(l, b), b, rep)
<1> DEFINE n == nodes[l]
           voters == Voters(l, b)
           V == VotesFor(l, b)
           qc == LeaderQC(l, b)
<1>1. /\ l \in Replicas
      /\ IsNode(l, n)
      /\ Mirrors(n)
      /\ n.rep.vote_pool = {}
  BY UpIsLive DEF NodesInv, Up
<1>2. /\ b \in Block
      /\ b.hash = hash
      /\ b.view = n.rep.current_view
      /\ b.epoch = n.rep.config_epoch
  <2> DEFINE rep == n.rep
  <2>1. b = NewBlock(rep, rep.current_view, hash, NoOp)
    BY DEF BlockOf
  <2>2. IsRep(l, rep) /\ rep.current_view \in Nat
    BY <1>1 DEF IsNode, IsRep
  <2> HIDE DEF rep
  <2>3. /\ b \in Block
        /\ b.hash = hash
        /\ b.view = rep.current_view
    BY <1>1, <2>1, <2>2, NewBlockType
  <2>4. b.epoch = rep.config_epoch
    BY <2>1 DEF NewBlock
  <2> QED
    BY <2>3, <2>4 DEF rep
<1>3. voters \in SUBSET Replicas /\ V = {Sign(SignerOf[r], b) : r \in voters}
  BY DEF Voters, GetsProposal, VotesFor
<1>4. CountedAt(l, b) = CountAt(ProposeAt(n, b), V)
  BY DEF CountedAt
<1> HIDE DEF n, voters, V
<1>5. /\ IsFiniteSet(V)
      /\ V \subseteq Signature
      /\ \A v \in V : v.block = b.hash
      /\ IsFiniteSet(voters)
      /\ Cardinality(V) <= Cardinality(voters)
  BY <1>2, <1>3, VotesOf
<1> DEFINE m == CountAt(ProposeAt(n, b), V)
<1>6. /\ Told(m.rep, n.rep, b, m.rep.high_qc)
      /\ m.rep.high_qc = n.rep.high_qc \/ CertifiedBy(m.rep.high_qc, V)
  BY <1>1, <1>2, <1>5, LeaderMemory
<1>7. PICK certs \in SUBSET {b.hash} :
        /\ Follows(l, n, m, {Ident(b)}, certs)
        /\ m.rep.high_qc # n.rep.high_qc => m.rep.high_qc.block \in certs
        /\ certs # {} => QuorumSize(Replicas) <= Cardinality(V)
  BY <1>1, <1>2, <1>5, LeaderCounts
<1> HIDE DEF m
<1>8. CountedAt(l, b) = m /\ qc = m.rep.high_qc
  BY <1>4 DEF m, LeaderQC
<1> HIDE DEF qc
<1>9. IsNode(l, m) /\ Mirrors(m) /\ Told(m.rep, n.rep, b, qc)
  BY <1>6, <1>7, <1>8 DEF Follows
<1>10. ASSUME Formed(l, b)
       PROVE  /\ QuorumSize(Replicas) <= Cardinality(voters)
              /\ \A r, rep : IsRep(r, rep) => CertifiesNow(qc, b, rep)
  <2>1. qc # n.rep.high_qc
    BY <1>10 DEF Formed, qc, n
  <2>2. QuorumSize(Replicas) <= Cardinality(V)
    BY <1>7, <1>8, <2>1
  <2>3. Cardinality(V) \in Nat /\ Cardinality(voters) \in Nat
    BY <1>5, FS_CardinalityType
  <2>4. QuorumSize(Replicas) <= Cardinality(voters)
    BY <1>5, <2>2, <2>3, QuorumIsNumber
  <2>5. CertifiedBy(qc, V)
    BY <1>6, <1>8, <2>1
  <2>6. ASSUME NEW r, NEW rep, IsRep(r, rep)
        PROVE  CertifiesNow(qc, b, rep)
    BY <1>2, <1>3, <2>5, <2>6, CertifiedVerifies DEF CertifiesNow
  <2> QED
    BY <2>4, <2>6
<1> QED
  BY <1>2, <1>8, <1>9, <1>10 DEF n, voters, qc

\* A replica that is not the leader of the round keeps its view.
LEMMA FollowerTold ==
  ASSUME NodesInv, NEW l \in Up, NEW hash \in Nat, NEW b, b = BlockOf(l, hash),
         NEW r \in Up, r # l
  PROVE  /\ IsNode(r, ToldAt(l, b, r))
         /\ Mirrors(ToldAt(l, b, r))
         /\ ToldAt(l, b, r).rep.current_view = nodes[r].rep.current_view
<1> DEFINE n == nodes[r]
           qc == LeaderQC(l, b)
           heard == Formed(l, b)
           voted == r \in Voters(l, b)
           v == IF voted THEN AcceptAt(n, b) ELSE n
           m == IF heard THEN LearnAt(v, qc) ELSE v
<1>1. r \in Replicas /\ IsNode(r, n) /\ Mirrors(n)
  BY UpIsLive DEF NodesInv, Up
<1>2. ToldAt(l, b, r) = m
  <2>1. r \in GetsQC(l)
    BY <1>1 DEF GetsQC
  <2> QED
    BY <2>1 DEF ToldAt, VotedAt
<1>3. b \in Block
  BY LeaderTold
<1>4. voted => AcceptsProposal(n.rep, b)
  BY DEF Voters
<1>5. heard => qc \in QC
  <2>1. IsRep(r, n.rep)
    BY <1>1 DEF IsNode
  <2> QED
    BY <2>1, LeaderTold DEF CertifiesNow
<1>6. heard \in BOOLEAN /\ voted \in BOOLEAN
  BY DEF Formed
<1> HIDE DEF heard, voted, qc, n
<1>7. Follows(r, n, m, {Ident(b)}, {qc.block})
  BY <1>1, <1>3, <1>4, <1>5, <1>6, FollowerHears
<1>8. m.rep.current_view = n.rep.current_view
  <2>1. DOMAIN n.rep = Fields
    BY <1>1 DEF IsNode, IsRep
  <2>2. /\ v.rep.current_view = n.rep.current_view
        /\ DOMAIN v.rep = Fields
    BY <2>1 DEF AcceptAt, ReceiveProposal, Fields
  <2> HIDE DEF v
  <2>3. LearnAt(v, qc).rep.current_view = v.rep.current_view
    BY <2>2 DEF LearnAt, ApplyHighQC, Fields
  <2> QED
    BY <2>2, <2>3
<1> HIDE DEF m
<1>9. /\ IsNode(r, m)
      /\ Mirrors(m)
      /\ m.rep.current_view = n.rep.current_view
  BY <1>7, <1>8 DEF Follows
<1> QED
  BY <1>2, <1>9 DEF n

\* All that are up are one view further after a round.
LEMMA RoundAdvances ==
  ASSUME NodesInv, NEW l \in Up, NEW hash \in Nat,
         nodes' = RoundOf(l, hash, NoOp), NEW r \in Up
  PROVE  nodes'[r].rep.current_view = nodes[r].rep.current_view + 1
<1> DEFINE b == BlockOf(l, hash)
           t == ToldAt(l, b, r)
<1>1. r \in Replicas
  BY DEF Up
<1>2. /\ IsNode(r, t)
      /\ Mirrors(t)
      /\ t.rep.current_view = nodes[r].rep.current_view
  <2>1. CASE r = l
    <3>1. t = CountedAt(l, b)
      BY <2>1 DEF ToldAt
    <3> HIDE DEF t, b
    <3>2. /\ IsNode(l, CountedAt(l, b))
          /\ Mirrors(CountedAt(l, b))
          /\ Told(CountedAt(l, b).rep, nodes[l].rep, b, LeaderQC(l, b))
      BY LeaderTold DEF b
    <3> QED
      BY <2>1, <3>1, <3>2 DEF Told
  <2>2. CASE r # l
    <3> HIDE DEF b
    <3>1. b = BlockOf(l, hash)
      BY DEF b
    <3> QED
      BY <2>2, <3>1, FollowerTold
  <2> QED
    BY <2>1, <2>2
<1>3. nodes'[r] = AdvanceAt(CommitAllAt(t))
  BY RoundTells
<1> HIDE DEF t
<1>4. AdvanceAt(CommitAllAt(t)).rep.current_view = t.rep.current_view + 1
  BY <1>1, <1>2, EndMemory
<1> QED
  BY <1>2, <1>3, <1>4

(***************************************************************************)
(* The invariant about the replicas that never fail: only the others are   *)
(* down, they themselves are in step and accept each other's proposals,    *)
(* and nobody is ahead of them, so a leader that is back from its disk     *)
(* cannot bring a certificate of a view that is still to come.             *)
(***************************************************************************)
CorrectInv ==
  /\ crashed \cup unresponsive \subseteq Faulty
  /\ \A r, s \in Correct : InStep(nodes[r].rep, nodes[s].rep)
  /\ \A r \in Correct : Sound(nodes[r].rep)
  /\ \A r \in Correct, s \in Replicas :
       /\ nodes[s].rep.current_view <= nodes[r].rep.current_view
       /\ nodes[s].disk.current_view <= nodes[r].rep.current_view

\* A faulty leader does not vote for its own block, so a quorum of votes for it
\* has one of a replica that never fails.
FewFaulty == Cardinality(Faulty) <= QuorumSize(Replicas)

LEMMA CorrectAreUp ==
  ASSUME NodesInv, CorrectInv, NEW r \in Correct
  PROVE  /\ r \in Up
         /\ r \in Replicas
         /\ IsNode(r, nodes[r])
         /\ IsRep(r, nodes[r].rep)
         /\ Mirrors(nodes[r])
         /\ Sound(nodes[r].rep)
<1>1. r \in Up /\ r \in Replicas
  BY DEF CorrectInv, Correct, Up, CrashedNow, SilentNow, TimedOut
<1> QED
  BY <1>1, UpIsLive DEF NodesInv, IsNode, CorrectInv

\* The certificate of a faulty leader takes the vote of a replica that never
\* fails.
LEMMA CorrectVoteNeeded ==
  ASSUME FewFaulty, NodesInv, NEW l \in Up, l \notin Correct, NEW hash \in Nat,
         NEW b, b = BlockOf(l, hash), Formed(l, b)
  PROVE  \E r \in Correct : r \in Voters(l, b)
<1> SUFFICES ASSUME \A r \in Correct : r \notin Voters(l, b)
             PROVE  FALSE
  OBVIOUS
<1> DEFINE V == Voters(l, b)
           others == Faulty \ {l}
<1>1. V \in SUBSET others /\ l \in Faulty /\ Faulty \in SUBSET Replicas
  BY SimulationAssumption DEF Voters, GetsProposal, Correct, Up
<1>2. QuorumSize(Replicas) <= Cardinality(V)
  BY LeaderTold
<1>3. IsFiniteSet(Faulty)
  BY <1>1, ReplicasFinite, FS_Subset
<1>4. IsFiniteSet(others) /\ Cardinality(others) = Cardinality(Faulty) - 1
  BY <1>1, <1>3, FS_RemoveElement
<1> HIDE DEF V, others
<1>5. IsFiniteSet(V) /\ Cardinality(V) <= Cardinality(others)
  BY <1>1, <1>4, FS_Subset
<1>6. Cardinality(V) \in Nat /\ Cardinality(Faulty) \in Nat
  BY <1>3, <1>5, FS_CardinalityType
<1> QED
  BY <1>2, <1>4, <1>5, <1>6, QuorumIsNumber DEF FewFaulty

\* All replicas that never fail accept a proposal, or none of them does.
LEMMA AcceptAlike ==
  ASSUME NEW r, NEW a, IsRep(r, a), NEW s, NEW c, IsRep(s, c), InStep(a, c),
         NEW b, AcceptsProposal(a, b)
  PROVE  AcceptsProposal(c, b)
<1>1. a.active_validators = c.active_validators
  BY DEF IsRep
<1>2. b.qc # None => VerifiesQC(c, b.qc)
  <2>1. b.qc # None => VerifiesQC(a, b.qc)
    BY DEF AcceptsProposal
  <2> QED
    BY <2>1, VerifiesAlike
<1> QED
  BY <1>1, <1>2 DEF AcceptsProposal, InStep

\* The certificate with which replica r leaves a round that it voted in.
Outcome(l, b, r) ==
  IF Formed(l, b) /\ NewerQC(LeaderQC(l, b), nodes[r].rep.high_qc)
  THEN LeaderQC(l, b) ELSE nodes[r].rep.high_qc

LEMMA OutcomeAlike ==
  ASSUME NEW l, NEW b, NEW r, NEW s, InStep(nodes[r].rep, nodes[s].rep)
  PROVE  Outcome(l, b, r) = Outcome(l, b, s)
  BY DEF InStep, Outcome

\* What a voter that never fails holds at the end of the round's messages.
LEMMA VoterTold ==
  ASSUME NodesInv, CorrectInv, NEW l \in Up, NEW hash \in Nat,
         NEW b, b = BlockOf(l, hash), NEW r \in Correct, r # l,
         r \in Voters(l, b)
  PROVE  Told(ToldAt(l, b, r).rep, nodes[r].rep, b, Outcome(l, b, r))
<1> DEFINE n == nodes[r]
           lqc == LeaderQC(l, b)
           newer == Formed(l, b) /\ NewerQC(lqc, n.rep.high_qc)
           qc == Outcome(l, b, r)
           v == AcceptAt(n, b)
           m == IF newer THEN LearnAt(v, qc) ELSE v
           told == IF Formed(l, b) THEN LearnAt(v, lqc) ELSE v
<1>1. r \in Up /\ r \in Replicas /\ IsNode(r, n)
  BY CorrectAreUp
<1>2. AcceptsProposal(n.rep, b)
  BY DEF Voters
<1>3. ToldAt(l, b, r) = told
  BY <1>1 DEF GetsQC, ToldAt, VotedAt
<1>4. v.rep.high_qc = n.rep.high_qc
  <2>1. DOMAIN n.rep = Fields
    BY <1>1 DEF IsNode, IsRep
  <2> HIDE DEF n
  <2> QED
    BY <2>1 DEF AcceptAt, ReceiveProposal, Fields
<1>5. told = m
  <2> HIDE DEF v, lqc
  <2>1. newer => qc = lqc
    BY DEF Outcome, lqc
  <2>2. ~NewerQC(lqc, v.rep.high_qc) => LearnAt(v, lqc) = v
    BY DEF LearnAt
  <2> QED
    BY <1>4, <2>1, <2>2
<1>6. /\ newer \in BOOLEAN
      /\ newer => NewerQC(qc, n.rep.high_qc)
      /\ ~newer => qc = n.rep.high_qc
  BY DEF Outcome, Formed, NewerQC
<1> HIDE DEF newer, qc, n
<1>7. Told(m.rep, n.rep, b, qc)
  BY <1>1, <1>2, <1>6, FollowerMemory
<1> HIDE DEF m, told
<1> QED
  BY <1>3, <1>5, <1>7 DEF n, qc

\* A leader that never fails, and who votes for it.
LEMMA CorrectLeads ==
  ASSUME NodesInv, CorrectInv, NEW l \in Correct, NEW hash \in Nat,
         NEW b, b = BlockOf(l, hash),
         IsLeader(nodes[l].rep, nodes[l].rep.current_view)
  PROVE  /\ Outcome(l, b, l) = LeaderQC(l, b)
         /\ \A r \in Up \ {l} : InStep(nodes[l].rep, nodes[r].rep)
              => r \in Voters(l, b)
<1> DEFINE a == nodes[l].rep
           qc == LeaderQC(l, b)
<1>1. /\ l \in Up
      /\ l \in Replicas
      /\ IsRep(l, a)
      /\ Sound(a)
  BY CorrectAreUp
<1>2. Outcome(l, b, l) = qc
  <2>1. CASE ~Formed(l, b)
    BY <2>1 DEF Outcome, Formed
  <2>2. CASE Formed(l, b)
    <3>1. CertifiesNow(qc, b, a)
      BY <1>1, <2>2, LeaderTold
    <3>2. b.epoch = 0 /\ b.view = a.current_view
      BY <1>1, LeaderTold DEF Sound
    <3> HIDE DEF a, qc
    <3>3. NewerQC(qc, a.high_qc)
      BY <1>1, <3>1, <3>2 DEF CertifiesNow, Sound, NewerQC
    <3> QED
      BY <2>2, <3>3 DEF Outcome, a, qc
  <2> QED
    BY <2>1, <2>2
<1>3. ASSUME NEW r \in Up \ {l}, InStep(a, nodes[r].rep)
      PROVE  r \in Voters(l, b)
  <2> DEFINE c == nodes[r].rep
  <2>1. r \in Replicas /\ IsRep(r, c)
    BY DEF NodesInv, IsNode, Up
  <2>2. Sound(c)
    <3>1. a.high_qc # None => VerifiesQC(c, a.high_qc)
      BY <1>1, <2>1, VerifiesAlike DEF Sound
    <3> HIDE DEF a, c
    <3> QED
      BY <1>1, <1>3, <3>1 DEF Sound, InStep, c
  <2>3. IsLeader(a, a.current_view)
    OBVIOUS
  <2>4. b = NewBlock(a, a.current_view, hash, NoOp)
    BY DEF BlockOf
  <2>5. r \in GetsProposal(l)
    BY <2>1 DEF GetsProposal
  <2>6. InStep(a, c)
    BY <1>3
  <2> HIDE DEF a, c
  <2>7. AcceptsProposal(c, b)
    BY <1>1, <2>1, <2>2, <2>3, <2>4, <2>6, ProposalAccepted
  <2> QED
    BY <2>5, <2>7 DEF Voters, c
<1> QED
  BY <1>2, <1>3

\* The step of replica r in a round in which it takes in b and qc.
TakesIn(r, b, qc) ==
  /\ b \in Block
  /\ b.epoch = 0
  /\ b.view <= nodes[r].rep.current_view
  /\ qc = nodes[r].rep.high_qc \/ CertifiesNow(qc, b, nodes[r].rep)
  /\ \E t : /\ IsNode(r, t)
            /\ Mirrors(t)
            /\ Told(t.rep, nodes[r].rep, b, qc)
            /\ nodes'[r] = AdvanceAt(CommitAllAt(t))

\* A round tells all replicas that never fail the same, or tells them nothing.
LEMMA CorrectRound ==
  ASSUME FewFaulty, NodesInv, CorrectInv, NEW l \in Up, NEW hash \in Nat,
         NEW b, b = BlockOf(l, hash),
         IsLeader(nodes[l].rep, nodes[l].rep.current_view),
         nodes' = RoundOf(l, hash, NoOp)
  PROVE  \/ /\ l \notin Correct
            /\ \A r \in Correct : nodes'[r] = AdvanceAt(CommitAllAt(nodes[r]))
         \/ \A r \in Correct : TakesIn(r, b, Outcome(l, b, r))
<1>1. \A r \in Correct : nodes'[r] = AdvanceAt(CommitAllAt(ToldAt(l, b, r)))
  BY RoundTells, CorrectAreUp
<1>2. ASSUME \A r \in Correct \ {l} : r \in Voters(l, b),
             NEW r \in Correct, r = l \/ r \in Voters(l, b)
      PROVE  TakesIn(r, b, Outcome(l, b, r))
  <2> DEFINE qc == Outcome(l, b, r)
             t == ToldAt(l, b, r)
             rep == nodes[r].rep
  <2>1. r \in Up /\ r \in Replicas /\ IsRep(r, rep) /\ Sound(rep)
    BY CorrectAreUp
  <2>2. IsNode(r, t) /\ Mirrors(t) /\ Told(t.rep, rep, b, qc)
    <3>1. CASE r = l
      <4>1. Outcome(l, b, r) = LeaderQC(l, b)
        BY <3>1, CorrectLeads
      <4>2. ToldAt(l, b, r) = CountedAt(l, b)
        BY <3>1 DEF ToldAt
      <4>3. /\ IsNode(l, CountedAt(l, b))
            /\ Mirrors(CountedAt(l, b))
            /\ Told(CountedAt(l, b).rep, nodes[l].rep, b, LeaderQC(l, b))
        BY LeaderTold
      <4> QED
        BY <3>1, <4>1, <4>2, <4>3
    <3>2. CASE r # l
      BY <1>2, <2>1, <3>2, FollowerTold, VoterTold
    <3> QED
      BY <3>1, <3>2
  <2>3. b \in Block /\ b.view <= rep.current_view
    <3>1. b \in Block /\ b.view = nodes[l].rep.current_view
      BY LeaderTold
    <3>2. l \in Replicas
      BY DEF Up
    <3> QED
      BY <3>1, <3>2 DEF CorrectInv
  <2>4. b.epoch = 0
    <3>1. CASE r = l
      BY <2>1, <3>1, LeaderTold DEF Sound
    <3>2. CASE r # l
      <4>1. AcceptsProposal(rep, b)
        BY <1>2, <3>2 DEF Voters
      <4> QED
        BY <2>1, <4>1 DEF AcceptsProposal, Sound
    <3> QED
      BY <3>1, <3>2
  <2>5. qc = rep.high_qc \/ CertifiesNow(qc, b, rep)
    <3>1. Formed(l, b) => CertifiesNow(LeaderQC(l, b), b, rep)
      BY <2>1, LeaderTold
    <3> QED
      BY <3>1 DEF Outcome
  <2>6. nodes'[r] = AdvanceAt(CommitAllAt(t))
    BY <1>1
  <2> HIDE DEF t, qc
  <2>7. TakesIn(r, b, qc)
    BY <2>2, <2>3, <2>4, <2>5, <2>6 DEF TakesIn
  <2> QED
    BY <2>7 DEF qc
<1>3. CASE l \in Correct
  <2>1. \A r \in Correct \ {l} : r \in Voters(l, b)
    BY <1>3, CorrectLeads, CorrectAreUp DEF CorrectInv
  <2> QED
    BY <1>2, <2>1
<1>4. CASE l \notin Correct /\ \E s \in Correct : s \in Voters(l, b)
  <2>1. PICK s \in Correct : s \in Voters(l, b)
    BY <1>4
  <2>2. ASSUME NEW r \in Correct
        PROVE  r \in Voters(l, b)
    <3>1. /\ r \in Up /\ r \in Replicas /\ IsRep(r, nodes[r].rep)
          /\ IsRep(s, nodes[s].rep)
      BY CorrectAreUp
    <3>2. InStep(nodes[s].rep, nodes[r].rep)
      BY DEF CorrectInv
    <3>3. AcceptsProposal(nodes[s].rep, b)
      BY <2>1 DEF Voters
    <3>4. AcceptsProposal(nodes[r].rep, b)
      BY <3>1, <3>2, <3>3, AcceptAlike
    <3> QED
      BY <1>4, <3>1, <3>4 DEF Voters, GetsProposal
  <2> QED
    BY <1>2, <2>2
<1>5. CASE l \notin Correct /\ ~\E s \in Correct : s \in Voters(l, b)
  <2>1. ~Formed(l, b)
    BY <1>5, CorrectVoteNeeded
  <2>2. \A r \in Correct : ToldAt(l, b, r) = nodes[r]
    BY <1>5, <2>1 DEF ToldAt, VotedAt
  <2> QED
    BY <1>1, <1>5, <2>2
<1> QED
  BY <1>3, <1>4, <1>5

(***************************************************************************)
(* The invariant through every step.                                       *)
(***************************************************************************)
\* A view that is known of a replica is at most that of those who never fail.
LEMMA NodesNowViews ==
  ASSUME NodesInv, CorrectInv, NEW r \in Correct, NEW s \in Replicas
  PROVE  /\ NodesNow[s].rep.current_view <= nodes[r].rep.current_view
         /\ NodesNow[s].disk.current_view <= nodes[r].rep.current_view
<1>1. CASE s \notin TimedOut
  <2>1. NodesNow[s] = nodes[s]
    BY <1>1 DEF NodesNow
  <2> QED
    BY <2>1 DEF CorrectInv
<1>2. CASE s \in TimedOut
  <2> DEFINE n == nodes[s]
             m == CrashAt(s, n)
  <2>1. NodesNow[s] = m
    BY <1>2 DEF NodesNow
  <2>2. DOMAIN n = {"rep", "disk"}
    BY DEF NodesInv, IsNode
  <2>3. m.rep.current_view = 0 /\ m.disk = n.disk
    <3> HIDE DEF n
    <3> QED
      BY <2>2 DEF CrashAt, FreshReplica
  <2>4. nodes[r].rep.current_view \in Nat
    BY CorrectAreUp DEF IsRep
  <2> HIDE DEF m
  <2> QED
    BY <2>1, <2>3, <2>4 DEF CorrectInv
<1> QED
  BY <1>1, <1>2

\* What is left to show of a round: what becomes of the replicas that never
\* fail.
LEMMA RoundKeepsCorrect ==
  ASSUME Inv, Inv', CorrectInv, RoundFrame,
         \A r \in Up : nodes'[r].rep.current_view
                          = nodes[r].rep.current_view + 1,
         \A r \in Replicas \ Up : nodes'[r] = NodesNow[r],
         \A r \in Correct : Sound(nodes'[r].rep),
         \A r, s \in Correct : InStep(nodes'[r].rep, nodes'[s].rep)
  PROVE  CorrectInv'
<1>1. crashed' \cup unresponsive' \subseteq Faulty
  BY DEF RoundFrame, CrashedNow, SilentNow, TimedOut, CorrectInv
<1>2. ASSUME NEW r \in Correct, NEW s \in Replicas
      PROVE  /\ nodes'[s].rep.current_view <= nodes'[r].rep.current_view
             /\ nodes'[s].disk.current_view <= nodes'[r].rep.current_view
  <2>1. /\ nodes'[r].rep.current_view = nodes[r].rep.current_view + 1
        /\ nodes[r].rep.current_view \in Nat
    BY <1>2, CorrectAreUp DEF Inv, IsRep
  <2>2. CASE s \in Up
    <3>1. /\ s \in Live'
          /\ nodes'[s].rep.current_view = nodes[s].rep.current_view + 1
          /\ nodes[s].rep.current_view <= nodes[r].rep.current_view
          /\ nodes[s].rep.current_view \in Nat
      BY <2>2 DEF Live, RoundFrame, Up, CorrectInv, Inv, NodesInv, IsNode, IsRep
    <3>2. nodes'[s].disk.current_view = nodes'[s].rep.current_view
      BY <3>1 DEF Inv, NodesInv, Mirrors
    <3> QED
      BY <2>1, <3>1, <3>2
  <2>3. CASE s \notin Up
    <3>1. nodes'[s] = NodesNow[s]
      BY <2>3
    <3>2. /\ NodesNow[s].rep.current_view <= nodes[r].rep.current_view
          /\ NodesNow[s].disk.current_view <= nodes[r].rep.current_view
      BY NodesNowViews DEF Inv
    <3>3. /\ nodes'[s].rep.current_view \in Nat
          /\ nodes'[s].disk.current_view \in Nat
      BY DEF Inv, NodesInv, IsNode, IsRep, IsDisk
    <3> QED
      BY <2>1, <3>1, <3>2, <3>3
  <2> QED
    BY <2>2, <2>3
<1> QED
  BY <1>1, <1>2 DEF CorrectInv

\* A round without a proposal.
LEMMA TimeoutRoundCorrect ==
  ASSUME Inv, Inv', CorrectInv, LeaderSilentRound \/ NoProposalRound
  PROVE  CorrectInv'
<1>1. RoundFrame /\ nodes' = ViewTimeoutOf(NodesNow)
  BY DEF LeaderSilentRound, NoProposalRound
<1>2. /\ \A r \in Replicas \ Up : nodes'[r] = NodesNow[r]
      /\ \A r \in Up : nodes'[r] = AdvanceAt(nodes[r])
  BY <1>1, UpIsLive DEF ViewTimeoutOf, Up
<1>3. ASSUME NEW r \in Up
      PROVE  LET q == nodes'[r].rep
                 p == nodes[r].rep
             IN  /\ IsRep(r, p)
                 /\ IsRep(r, q)
                 /\ q.current_view = p.current_view + 1
                 /\ q.block_tree = p.block_tree
                 /\ q.high_qc = p.high_qc
                 /\ q.config_epoch = p.config_epoch
                 /\ q.committed_log = p.committed_log
  <2>1. IsNode(r, nodes[r]) /\ IsNode(r, nodes[r]')
    BY DEF Inv, NodesInv, Up
  <2>2. LET q == AdvanceAt(nodes[r]).rep
        IN  /\ q.current_view = nodes[r].rep.current_view + 1
            /\ \A f \in Fields \ {"current_view", "vote_pool"} :
                 q[f] = nodes[r].rep[f]
    BY <2>1, AdvanceMemory
  <2> QED
    BY <1>2, <2>1, <2>2 DEF IsNode, Fields
<1>4. ASSUME NEW r \in Correct
      PROVE  Sound(nodes'[r].rep)
  <2>1. Sound(nodes[r].rep) /\ r \in Up
    BY CorrectAreUp DEF Inv
  <2> QED
    BY <1>3, <2>1, NextViewIsSound DEF Sound
<1>5. \A r, s \in Correct : InStep(nodes'[r].rep, nodes'[s].rep)
  <2>1. \A r \in Correct : r \in Up
    BY CorrectAreUp DEF Inv
  <2> QED
    BY <1>3, <2>1 DEF CorrectInv, InStep
<1>6. \A r \in Up : nodes'[r].rep.current_view = nodes[r].rep.current_view + 1
  BY <1>3
<1> QED
  BY <1>1, <1>2, <1>4, <1>5, <1>6, RoundKeepsCorrect

\* A round with a proposal.
LEMMA ProposalRoundCorrect ==
  ASSUME FewFaulty, Inv, Inv', CorrectInv, ProposalRound
  PROVE  CorrectInv'
<1> DEFINE l == CurrentLeader
           b == BlockOf(l, nextHash)
<1>1. /\ RoundFrame
      /\ l \in Up
      /\ IsLeader(nodes[l].rep, nodes[l].rep.current_view)
      /\ nodes' = RoundOf(l, nextHash, NoOp)
  BY DEF ProposalRound
<1>2. NodesInv /\ nextHash \in Nat
  BY DEF Inv, FieldsInv
<1> HIDE DEF l
<1>3. /\ \A r \in Up : nodes'[r].rep.current_view
                         = nodes[r].rep.current_view + 1
      /\ \A r \in Replicas \ Up : nodes'[r] = NodesNow[r]
  BY <1>1, <1>2, RoundAdvances, RoundTells
<1>4. ASSUME NEW r \in Correct
      PROVE  /\ r \in Replicas
             /\ IsNode(r, nodes[r])
             /\ Mirrors(nodes[r])
             /\ Sound(nodes[r].rep)
  BY <1>2, CorrectAreUp
<1>5. CASE \A r \in Correct : nodes'[r] = AdvanceAt(CommitAllAt(nodes[r]))
  <2>1. \A r \in Correct : Sound(nodes'[r].rep)
    BY <1>4, <1>5, EndIsSound
  <2>2. \A r, s \in Correct : InStep(nodes'[r].rep, nodes'[s].rep)
    BY <1>4, <1>5, EndInStep DEF CorrectInv
  <2> QED
    BY <1>1, <1>3, <2>1, <2>2, RoundKeepsCorrect
<1>6. CASE \A r \in Correct : TakesIn(r, b, Outcome(l, b, r))
  <2>1. ASSUME NEW r \in Correct
        PROVE  Sound(nodes'[r].rep)
    <3> DEFINE qc == Outcome(l, b, r)
    <3>1. TakesIn(r, b, qc)
      BY <1>6
    <3> HIDE DEF b, qc
    <3>2. PICK t : /\ IsNode(r, t)
                   /\ Mirrors(t)
                   /\ Told(t.rep, nodes[r].rep, b, qc)
                   /\ nodes'[r] = AdvanceAt(CommitAllAt(t))
      BY <3>1 DEF TakesIn
    <3>3. Sound(AdvanceAt(CommitAllAt(t)).rep)
      BY <1>4, <3>1, <3>2, ToldIsSound DEF TakesIn
    <3> QED
      BY <3>2, <3>3
  <2>2. ASSUME NEW r \in Correct, NEW s \in Correct
        PROVE  InStep(nodes'[r].rep, nodes'[s].rep)
    <3> DEFINE qc == Outcome(l, b, r)
    <3>1. InStep(nodes[r].rep, nodes[s].rep)
      BY DEF CorrectInv
    <3>2. qc = Outcome(l, b, s)
      BY <3>1, OutcomeAlike
    <3>3. TakesIn(r, b, qc) /\ TakesIn(s, b, qc)
      BY <1>6, <3>2
    <3> HIDE DEF b, qc
    <3>4. PICK t : /\ IsNode(r, t)
                   /\ Mirrors(t)
                   /\ Told(t.rep, nodes[r].rep, b, qc)
                   /\ nodes'[r] = AdvanceAt(CommitAllAt(t))
      BY <3>3 DEF TakesIn
    <3>5. PICK u : /\ IsNode(s, u)
                   /\ Mirrors(u)
                   /\ Told(u.rep, nodes[s].rep, b, qc)
                   /\ nodes'[s] = AdvanceAt(CommitAllAt(u))
      BY <3>3 DEF TakesIn
    <3>6. InStep(AdvanceAt(CommitAllAt(t)).rep, AdvanceAt(CommitAllAt(u)).rep)
      BY <1>4, <3>1, <3>4, <3>5, ToldInStep
    <3> QED
      BY <3>4, <3>5, <3>6
  <2> QED
    BY <1>1, <1>3, <2>1, <2>2, RoundKeepsCorrect
<1>7. b = BlockOf(l, nextHash)
  OBVIOUS
<1> HIDE DEF b
<1> QED
  BY <1>1, <1>2, <1>5, <1>6, <1>7, CorrectRound

\* A call that is refused: those that never fail are as they were.
LEMMA RefusedCorrect ==
  ASSUME Inv, CorrectInv, RefusedRound
  PROVE  CorrectInv'
<1>1. crashed' \cup unresponsive' \subseteq Faulty
  BY DEF RefusedRound, CrashedNow, SilentNow, TimedOut, CorrectInv
<1>2. \A r \in Correct : r \in Replicas /\ nodes'[r] = nodes[r]
  BY CorrectAreUp, UpIsLive DEF RefusedRound, Inv
<1>3. /\ \A r, s \in Correct : InStep(nodes'[r].rep, nodes'[s].rep)
      /\ \A r \in Correct : Sound(nodes'[r].rep)
  BY <1>2 DEF CorrectInv
<1>4. ASSUME NEW r \in Correct, NEW s \in Replicas
      PROVE  /\ nodes'[s].rep.current_view <= nodes'[r].rep.current_view
             /\ nodes'[s].disk.current_view <= nodes'[r].rep.current_view
  BY <1>2, NodesNowViews DEF RefusedRound, Inv
<1> QED
  BY <1>1, <1>3, <1>4 DEF CorrectInv

\* A step that touches a replica that may fail, and takes it to no new view.
LEMMA FaultKeepsCorrect ==
  ASSUME CorrectInv, NEW f \in Faulty,
         \A s \in Replicas \ {f} : nodes'[s] = nodes[s],
         crashed' \cup unresponsive' \subseteq Faulty,
         \A r \in Correct :
           /\ nodes'[f].rep.current_view <= nodes[r].rep.current_view
           /\ nodes'[f].disk.current_view <= nodes[r].rep.current_view
  PROVE  CorrectInv'
<1>1. \A r \in Correct : r \in Replicas /\ nodes'[r] = nodes[r]
  BY DEF Correct
<1>2. /\ \A r, s \in Correct : InStep(nodes'[r].rep, nodes'[s].rep)
      /\ \A r \in Correct : Sound(nodes'[r].rep)
  BY <1>1 DEF CorrectInv
<1>3. ASSUME NEW r \in Correct, NEW s \in Replicas
      PROVE  /\ nodes'[s].rep.current_view <= nodes'[r].rep.current_view
             /\ nodes'[s].disk.current_view <= nodes'[r].rep.current_view
  <2>1. CASE s = f
    BY <1>1, <2>1
  <2>2. CASE s # f
    BY <1>1, <2>2 DEF CorrectInv
  <2> QED
    BY <2>1, <2>2
<1> QED
  BY <1>2, <1>3 DEF CorrectInv

\* set_replica_unresponsive
LEMMA SilenceCorrect ==
  ASSUME CorrectInv, NEW f \in Replicas, FallSilent(f) \/ Resume(f)
  PROVE  CorrectInv'
<1>1. /\ f \in Faulty
      /\ nodes' = nodes
      /\ crashed' \cup unresponsive' \subseteq Faulty
  BY DEF FallSilent, Resume, MayFail, CorrectInv
<1> QED
  BY <1>1, FaultKeepsCorrect DEF CorrectInv

\* crash_replica
LEMMA CrashCorrect ==
  ASSUME Inv, CorrectInv, NEW f \in Replicas, CrashReplica(f)
  PROVE  CorrectInv'
<1> DEFINE n == nodes[f]
           m == CrashAt(f, n)
<1>1. /\ f \in Faulty
      /\ nodes' = [nodes EXCEPT ![f] = m]
      /\ crashed' \cup unresponsive' \subseteq Faulty
  BY DEF CrashReplica, MayFail, CorrectInv
<1>2. IsNode(f, n) /\ DOMAIN nodes = Replicas
  BY DEF Inv, NodesInv
<1>3. m.rep.current_view = 0 /\ m.disk = n.disk
  <2> HIDE DEF n
  <2> QED
    BY <1>2 DEF CrashAt, FreshReplica, IsNode
<1> HIDE DEF m
<1>4. nodes'[f] = m /\ \A s \in Replicas \ {f} : nodes'[s] = nodes[s]
  BY <1>1, <1>2
<1>5. ASSUME NEW r \in Correct
      PROVE  /\ nodes'[f].rep.current_view <= nodes[r].rep.current_view
             /\ nodes'[f].disk.current_view <= nodes[r].rep.current_view
  <2>1. nodes[r].rep.current_view \in Nat
    BY CorrectAreUp DEF Inv, IsRep
  <2> QED
    BY <1>3, <1>4, <2>1 DEF CorrectInv
<1> QED
  BY <1>1, <1>4, <1>5, FaultKeepsCorrect

\* recover_replica: the highest view of the others is not beyond that of a
\* replica that never fails, nor is the one that was saved.
LEMMA RecoveryCorrect ==
  ASSUME Inv, Inv', CorrectInv, NEW f \in Replicas, RecoverReplica(f)
  PROVE  CorrectInv'
<1> DEFINE n == nodes[f]
           peers == Replicas \ (crashed \cup {f})
           own == Recovered(f, n.disk, n.rep.config_n)
           rep == IF peers = {} THEN own
                  ELSE CatchUp(own, nodes[Min(peers)].rep)
           views == {nodes[p].rep.current_view : p \in peers}
           v == Max(views \cup {rep.current_view})
           q == [rep EXCEPT !.current_view = v]
           m == SnapshotAt([n EXCEPT !.rep = q])
<1>1. /\ nodes' = [nodes EXCEPT ![f] = m]
      /\ f \in crashed
      /\ crashed' = crashed \ {f}
      /\ unresponsive' = unresponsive
  BY DEF RecoverReplica
<1>2. /\ IsNode(f, n)
      /\ IsDisk(n.disk)
      /\ n.rep.config_n = N
      /\ DOMAIN nodes = Replicas
  BY DEF Inv, NodesInv, IsNode, IsRep
<1>3. IsRep(f, own) /\ own.current_view = n.disk.current_view
  BY <1>2, RecoveredType
<1> HIDE DEF own
<1>4. IsRep(f, rep) /\ rep.current_view = n.disk.current_view
  <2>1. CASE peers = {}
    <3>1. rep = own
      BY <2>1
    <3> HIDE DEF rep, n
    <3> QED
      BY <1>3, <3>1
  <2>2. CASE peers # {}
    <3> DEFINE p == Min(peers)
               donor == nodes[p].rep
               c == CatchUp(own, donor)
    <3>1. peers \subseteq Nat
      BY ReplicasFinite
    <3>2. p \in peers
      BY <2>2, <3>1, MinMeans
    <3>3. p \in Replicas
      BY <3>2
    <3> HIDE DEF p
    <3>4. IsRep(p, donor)
      BY <3>3 DEF Inv, NodesInv, IsNode
    <3>5. rep = c
      BY <2>2 DEF p
    <3> HIDE DEF donor
    <3>6. IsRep(f, c) /\ c.current_view = own.current_view
      BY <1>3, <3>3, <3>4, CatchUpAdds
    <3> HIDE DEF c, rep, n
    <3> QED
      BY <1>3, <3>5, <3>6
  <2> QED
    BY <2>1, <2>2
<1> HIDE DEF rep
<1>5. v \in views \cup {n.disk.current_view}
  <2> DEFINE all == views \cup {rep.current_view}
             g == [p \in peers |-> nodes[p].rep.current_view]
  <2>1. g \in Surjection(peers, views)
    BY DEF Surjection
  <2>2. IsFiniteSet(peers)
    BY ReplicasFinite, FS_Subset
  <2>3. IsFiniteSet(views)
    <3> HIDE DEF g, views, peers
    <3> QED
      BY <2>1, <2>2, FS_Surjection
  <2>4. views \subseteq Nat
    BY DEF Inv, NodesInv, IsNode, IsRep
  <2>5. all \subseteq Nat /\ IsFiniteSet(all) /\ all # {}
    BY <1>4, <2>3, <2>4, FS_AddElement DEF IsRep
  <2> HIDE DEF all
  <2>6. Max(all) \in all
    BY <2>5, MaxMeans
  <2> QED
    BY <1>4, <2>6 DEF all
<1>6. nodes'[f] = m /\ \A s \in Replicas \ {f} : nodes'[s] = nodes[s]
  BY <1>1, <1>2
<1>7. m.rep.current_view = v
  <2> DEFINE k == [n EXCEPT !.rep = q]
  <2>1. k.rep = q /\ DOMAIN k = {"rep", "disk"}
    BY <1>2 DEF IsNode
  <2> HIDE DEF k
  <2>2. SnapshotAt(k).rep = q
    BY <2>1 DEF SnapshotAt
  <2>3. q.current_view = v
    <3> HIDE DEF v
    <3> QED
      BY <1>4 DEF IsRep, Fields
  <2> QED
    BY <2>2, <2>3 DEF k
<1> HIDE DEF v, m
<1>8. nodes'[f].rep.current_view = v /\ nodes'[f].disk.current_view = v
  <2>1. f \in Live'
    BY <1>1 DEF Live
  <2>2. Mirrors(nodes'[f])
    BY <2>1 DEF Inv, NodesInv
  <2> QED
    BY <1>6, <1>7, <2>2 DEF Mirrors
<1>9. ASSUME NEW r \in Correct
      PROVE  v <= nodes[r].rep.current_view
  <2>1. \A w \in views : w <= nodes[r].rep.current_view
    BY DEF CorrectInv
  <2>2. n.disk.current_view <= nodes[r].rep.current_view
    BY DEF CorrectInv
  <2> HIDE DEF views, n
  <2> QED
    BY <1>5, <2>1, <2>2
<1>10. f \in Faulty /\ crashed' \cup unresponsive' \subseteq Faulty
  BY <1>1 DEF CorrectInv
<1> QED
  BY <1>6, <1>8, <1>9, <1>10, FaultKeepsCorrect

\* Until the process restarts, for a hash then names two blocks.
FirstRunCorrect == restarts = 0 => CorrectInv

LEMMA StepCorrect ==
  ASSUME FewFaulty, Inv, FirstRunCorrect, [Next]_vars
  PROVE  FirstRunCorrect'
<1> SUFFICES ASSUME restarts' = 0
             PROVE  CorrectInv'
  BY DEF FirstRunCorrect
<1>1. Inv'
  BY StepKeeps
<1>2. ~RestartAll
  BY DEF RestartAll, Inv, FieldsInv
<1>3. restarts' = restarts
  BY <1>2 DEF Next, RunOneRound, LeaderSilentRound, NoProposalRound,
              ProposalRound, RoundFrame, RefusedRound, FallSilent, Resume,
              CrashReplica, RecoverReplica, vars
<1>4. CorrectInv
  BY <1>3 DEF FirstRunCorrect
<1>5. CASE LeaderSilentRound \/ NoProposalRound
  BY <1>1, <1>4, <1>5, TimeoutRoundCorrect
<1>6. CASE ProposalRound
  BY <1>1, <1>4, <1>6, ProposalRoundCorrect
<1>7. ASSUME NEW r \in Replicas, FallSilent(r) \/ Resume(r)
      PROVE  CorrectInv'
  BY <1>4, <1>7, SilenceCorrect
<1>8. ASSUME NEW r \in Replicas, CrashReplica(r)
      PROVE  CorrectInv'
  BY <1>4, <1>8, CrashCorrect
<1>9. ASSUME NEW r \in Replicas, RecoverReplica(r)
      PROVE  CorrectInv'
  BY <1>1, <1>4, <1>9, RecoveryCorrect
<1>10. CASE UNCHANGED vars
  BY <1>4, <1>10 DEF vars, CorrectInv
<1>11. CASE RefusedRound
  BY <1>1, <1>4, <1>11, RefusedCorrect
<1> QED
  BY <1>2, <1>5, <1>6, <1>7, <1>8, <1>9, <1>10, <1>11 DEF Next, RunOneRound

LEMMA InitCorrect ==
  ASSUME Init
  PROVE  CorrectInv
<1>1. /\ crashed = {} /\ unresponsive = {}
      /\ \A r \in Replicas :
           nodes[r] = LET rep == FreshReplica(r, Replicas, Replicas)
                      IN  [rep |-> rep, disk |-> FreshDisk(rep)]
  BY DEF Init
<1>2. ASSUME NEW r \in Replicas
      PROVE  LET rep == nodes[r].rep
             IN  /\ rep.current_view = 0
                 /\ rep.block_tree = [h \in {0} |-> Genesis]
                 /\ rep.high_qc = None
                 /\ rep.committed_log = <<>>
                 /\ rep.config_epoch = 0
                 /\ nodes[r].disk.current_view = 0
  <2> DEFINE f == FreshReplica(r, Replicas, Replicas)
             n == [rep |-> f, disk |-> FreshDisk(f)]
  <2>1. nodes[r] = n
    BY <1>1
  <2>2. Mirrors(n) /\ n.rep = f
    BY FreshNode
  <2> HIDE DEF n
  <2>3. /\ n.rep.current_view = 0
        /\ n.rep.block_tree = [h \in {0} |-> Genesis]
        /\ n.rep.high_qc = None
        /\ n.rep.committed_log = <<>>
        /\ n.rep.config_epoch = 0
    BY <2>2 DEF FreshReplica
  <2>4. n.disk.current_view = 0
    BY <2>2, <2>3 DEF Mirrors
  <2> QED
    BY <2>1, <2>3, <2>4
<1>3. \A r \in Correct : r \in Replicas
  BY DEF Correct
<1>4. \A r, s \in Correct : InStep(nodes[r].rep, nodes[s].rep)
  BY <1>2, <1>3 DEF InStep
<1>5. \A r \in Correct : Sound(nodes[r].rep)
  BY <1>2, <1>3 DEF Sound, IsInjective
<1> QED
  BY <1>1, <1>2, <1>3, <1>4, <1>5 DEF CorrectInv

LEMMA CorrectInvariance ==
  ASSUME FewFaulty
  PROVE  Spec => [](Inv /\ FirstRunCorrect)
<1>1. Init => Inv /\ FirstRunCorrect
  BY InitKeeps, InitCorrect DEF FirstRunCorrect
<1>2. (Inv /\ FirstRunCorrect) /\ [Next]_vars => (Inv /\ FirstRunCorrect)'
  BY StepKeeps, StepCorrect
<1> QED
  BY <1>1, <1>2, PTL DEF Spec

(***************************************************************************)
(* The properties.                                                         *)
(***************************************************************************)
\* Whatever run_one_round, crash_replica, recover_replica and
\* set_replica_unresponsive make of the replicas that fail, as long as they
\* are at most a quorum, the others hold the same blocks, the same
\* certificate and the same log after every call.
THEOREM CorrectStayInLockstep ==
  ASSUME FewFaulty
  PROVE  Spec => []CorrectInLockstep
<1>1. Inv /\ FirstRunCorrect => CorrectInLockstep
  BY DEF FirstRunCorrect, CorrectInv, CorrectInLockstep
<1> QED
  BY <1>1, CorrectInvariance, PTL

\* And none of them is left with a certificate that another would reject in
\* validate_and_insert_proposal.
THEOREM CorrectAreHonoured ==
  ASSUME FewFaulty
  PROVE  Spec => []CorrectHonoured
<1>1. ASSUME CorrectInv, NEW r \in Correct, NEW s \in Correct
      PROVE  Honours(nodes[r].rep, nodes[s].rep.high_qc)
  <2>1. Sound(nodes[r].rep) /\ InStep(nodes[s].rep, nodes[r].rep)
    BY <1>1 DEF CorrectInv
  <2> QED
    BY <2>1 DEF Sound, InStep, Honours
<1>2. Inv /\ FirstRunCorrect => CorrectHonoured
  BY <1>1 DEF FirstRunCorrect, CorrectHonoured
<1> QED
  BY <1>2, CorrectInvariance, PTL

\* One of those who never fail.
LEMMA CorrectMin ==
  ASSUME Correct # {}
  PROVE  Min(Correct) \in Correct /\ Correct \subseteq Replicas
<1>1. Correct \subseteq Nat /\ Correct \subseteq Replicas
  BY ReplicasFinite DEF Correct
<1> QED
  BY <1>1, MinMeans

\* The ledger of those who never fail, and their copies of it.
CorrectCopies ==
  LET agreed == nodes[Min(Correct)].rep.committed_log
  IN  /\ agreed \in Seq(Nat)
      /\ IsInjective(agreed)
      /\ \A r \in Correct :
           /\ nodes[r].rep.committed_log = agreed
           /\ nodes[r].disk.committed_log = agreed

LEMMA CopiesCorrect == Correct # {} /\ Inv /\ CorrectInv => CorrectCopies
<1> SUFFICES ASSUME Correct # {}, Inv, CorrectInv
             PROVE  CorrectCopies
  OBVIOUS
<1> DEFINE m == Min(Correct)
<1>1. m \in Correct
  BY CorrectMin
<1> HIDE DEF m
<1>2. nodes[m].rep.committed_log \in Seq(Nat)
  BY <1>1, CorrectAreUp DEF Inv, IsRep
<1>3. IsInjective(nodes[m].rep.committed_log)
  BY <1>1 DEF CorrectInv, Sound
<1>4. ASSUME NEW r \in Correct
      PROVE  /\ nodes[r].rep.committed_log = nodes[m].rep.committed_log
             /\ nodes[r].disk.committed_log = nodes[m].rep.committed_log
  <2>1. Mirrors(nodes[r])
    BY CorrectAreUp DEF Inv
  <2>2. InStep(nodes[r].rep, nodes[m].rep)
    BY <1>1 DEF CorrectInv
  <2> QED
    BY <2>1, <2>2 DEF Mirrors, InStep
<1> QED
  BY <1>2, <1>3, <1>4 DEF CorrectCopies, m

LEMMA CorrectLedgerExtends ==
  ASSUME FewFaulty, Correct # {}, MaxRestarts = 0, Inv, FirstRunCorrect, [Next]_vars
  PROVE  CorrectPromise!Extend
<1> DEFINE m == Min(Correct)
           agreed == nodes[m].rep.committed_log
<1>1. /\ Inv' /\ FirstRunCorrect'
      /\ \A r \in Replicas : Grows(nodes[r], nodes'[r])
  BY StepKeeps, StepCorrect
<1>2. restarts = 0 /\ restarts' = 0
  BY <1>1 DEF Inv, FieldsInv
<1>3. CorrectCopies
  BY <1>2, CopiesCorrect DEF FirstRunCorrect
<1>4. CorrectCopies'
  <2>1. (Correct # {} /\ Inv /\ CorrectInv)' => CorrectCopies'
    BY CopiesCorrect, PTL
  <2>2. (Correct # {})' <=> Correct # {}
    OBVIOUS
  <2>3. CorrectInv'
    BY <1>1, <1>2 DEF FirstRunCorrect
  <2> QED
    BY <1>1, <2>1, <2>2, <2>3
<1>5. m \in Correct /\ Correct \subseteq Replicas
  BY CorrectMin
<1> HIDE DEF m
<1>6. /\ agreed \in Seq(Nat)
      /\ agreed' \in Seq(Nat)
      /\ IsInjective(agreed')
      /\ \A r \in Correct : /\ nodes[r].rep.committed_log = agreed
                           /\ nodes'[r].rep.committed_log = agreed'
      /\ agreed = nodes[m].disk.committed_log
      /\ agreed' = nodes'[m].disk.committed_log
  <2>1. m' = m
    BY DEF m
  <2> QED
    BY <1>3, <1>4, <1>5, <2>1 DEF CorrectCopies, m
<1>7. IsPrefix(agreed, agreed')
  <2>1. Grows(nodes[m], nodes'[m])
    BY <1>1, <1>5
  <2>2. IsPrefix(nodes[m].disk.committed_log, nodes'[m].disk.committed_log)
    BY <2>1 DEF Grows
  <2> QED
    BY <1>6, <2>2
<1>8. IsPrefix(agreed', agreed')
  BY <1>6, PrefixRefl
<1> HIDE DEF agreed
<1>9. ASSUME NEW lost, lost = {}
      PROVE  CorrectPromise!Follow(lost)
  BY <1>6, <1>7, <1>8, <1>9
  DEF CorrectPromise!Follow, CorrectPromise!IsPrefix, IsPrefix, agreed, m
<1>10. {} \in SUBSET Correct
  OBVIOUS
<1>11. \E lost \in SUBSET Correct : CorrectPromise!Follow(lost)
  BY <1>9, <1>10
<1>12. CorrectPromise!IsPrefix(agreed, agreed')
  BY <1>7 DEF CorrectPromise!IsPrefix, IsPrefix
<1>13. CorrectPromise!IsInjective(agreed')
  BY <1>6 DEF CorrectPromise!IsInjective, IsInjective
<1> QED
  BY <1>6, <1>11, <1>12, <1>13 DEF CorrectPromise!Extend, agreed, m

\* What the replicas that never fail execute is one ledger: each of them has
\* all of it after every call, nothing is taken out of it or executed twice.
THEOREM CorrectKeepLedger ==
  ASSUME FewFaulty, Correct # {}, MaxRestarts = 0
  PROVE  Spec => CorrectLedger
<1>1. Init => CorrectPromise!Init
  <2> SUFFICES ASSUME Init
               PROVE  CorrectPromise!Init
    OBVIOUS
  <2>1. \A r \in Replicas : nodes[r].rep.committed_log = <<>>
    BY DEF Init, FreshReplica
  <2>2. Min(Correct) \in Replicas /\ \A r \in Correct : r \in Replicas
    BY CorrectMin
  <2> QED
    BY <2>1, <2>2 DEF CorrectPromise!Init
<1>2. (Inv /\ FirstRunCorrect) /\ [Next]_vars
        => [CorrectPromise!Extend]_<<nodes[Min(Correct)].rep.committed_log,
                    [r \in Correct |-> nodes[r].rep.committed_log]>>
  BY CorrectLedgerExtends
<1> QED
  BY <1>1, <1>2, CorrectInvariance, PTL
  DEF Spec, CorrectLedger, CorrectPromise!Spec

(***************************************************************************)
(* The turn of a replica that never fails.                                 *)
(***************************************************************************)
\* Votes that differ in nothing but the signer, as a replica expects them.
AreVotesFor(V, rep, block) ==
  /\ IsFiniteSet(V)
  /\ V \subseteq Signature
  /\ \A v \in V : /\ v.block = block
                  /\ v.epoch = rep.config_epoch
                  /\ v.signer \in Replicas
  /\ \A v, w \in V : v.signer = w.signer => v = w
  /\ block \in DOMAIN rep.block_tree
  /\ rep.block_tree[block].epoch = rep.config_epoch

\* What has become of a replica by the time it has counted the votes s.
CountsAll(r, rep, q, V, block, s) ==
  /\ HasCounted(r, rep, q, V, block)
  /\ q.vote_pool = s
  /\ s # {} /\ QuorumSize(Replicas) <= Cardinality(s) => CertifiedBy(q.high_qc, V)

\* handle_vote drops none of them.
LEMMA VoteAdmitted ==
  ASSUME NEW r \in Replicas, NEW rep, NEW block, NEW V,
         AreVotesFor(V, rep, block), NEW u \in SUBSET V, NEW q,
         CountsAll(r, rep, q, V, block, u), NEW x \in V, x \notin u
  PROVE  CountsAll(r, rep, HandleVote(q, x), V, block, u \cup {x})
<1> DEFINE s == u \cup {x}
           pool == q.vote_pool \cup
             {[block |-> x.block, signer |-> x.signer,
               view |-> x.view, epoch |-> x.epoch]}
           c == [block |-> x.block, view |-> x.view, epoch |-> x.epoch,
                 sigs |-> SignaturesFor(pool, x.block)]
           m == [q EXCEPT !.vote_pool = pool, !.high_qc = FormQC(q, x, pool)]
<1>1. /\ x \in Signature
      /\ x = [block |-> x.block, signer |-> x.signer,
              view |-> x.view, epoch |-> x.epoch]
      /\ x.block = block
      /\ x.epoch = rep.config_epoch
      /\ x.signer \in 0 .. N - 1
  BY DEF AreVotesFor, Signature, Replicas
<1>2. /\ q.vote_pool = u
      /\ q.config_epoch = rep.config_epoch
      /\ q.block_tree = rep.block_tree
      /\ q.active_validators = Replicas
      /\ q.keys = Replicas
      /\ q.config_n = N
      /\ DOMAIN q = Fields
  BY DEF CountsAll, HasCounted, IsRep, Fields
<1>3. AdmitsVote(q, x)
  <2>1. \A w \in u : w.signer # x.signer
    BY DEF AreVotesFor
  <2>2. x.signer \in Replicas /\ x.signer < N
    BY <1>1, SimulationAssumption DEF Replicas
  <2>3. Verifies(q.keys, x, x.block, x.view, x.epoch)
    BY <1>2, <2>2 DEF Verifies
  <2> QED
    BY <1>1, <1>2, <2>1, <2>2, <2>3 DEF AdmitsVote, AreVotesFor
<1>4. HandleVote(q, x) = m
  BY <1>3 DEF HandleVote, CountVote
<1>5. pool = s /\ SignaturesFor(pool, x.block) = s
  BY <1>1, <1>2 DEF SignaturesFor, AreVotesFor
<1>6. m.vote_pool = pool /\ m.high_qc = FormQC(q, x, pool)
  BY <1>2 DEF Fields
<1>7. IsFiniteSet(V) /\ V \subseteq Signature /\ \A v \in V : v.block = block
  BY DEF AreVotesFor
<1>8. HasCounted(r, rep, HandleVote(q, x), V, block)
  BY <1>7, HandleVoteCounts DEF CountsAll
<1> HIDE DEF m
<1>9. s \in SUBSET V /\ s \in SUBSET Signature
  BY <1>7
<1>10. Cardinality(s) \in Nat
  BY <1>7, <1>9, FS_Subset, FS_CardinalityType
<1>11. ASSUME QuorumSize(Replicas) <= Cardinality(s)
       PROVE  CertifiedBy(m.high_qc, V)
  <2>1. Cardinality(s) >= QuorumSize(q.active_validators)
    BY <1>2, <1>10, <1>11, QuorumIsNumber
  <2>2. m.high_qc = c
    BY <1>5, <1>6, <2>1 DEF FormQC
  <2>3. /\ c \in QC
        /\ c.sigs = s
        /\ c.block = x.block
        /\ c.view = x.view
        /\ c.epoch = x.epoch
    <3> HIDE DEF pool, s
    <3>1. SignaturesFor(pool, x.block) = s
      BY <1>5
    <3> QED
      BY <1>1, <1>9, <3>1 DEF QC, Signature
  <2> HIDE DEF c, s
  <2> QED
    BY <1>9, <1>11, <2>2, <2>3 DEF CertifiedBy
<1> HIDE DEF pool, s
<1>12. CountsAll(r, rep, HandleVote(q, x), V, block, s)
  BY <1>4, <1>5, <1>6, <1>8, <1>11 DEF CountsAll
<1> QED
  BY <1>12 DEF s

\* A quorum of them makes a certificate.
LEMMA VotesCertify ==
  ASSUME NEW r \in Replicas, NEW rep, IsRep(r, rep), rep.vote_pool = {},
         NEW block, NEW V, AreVotesFor(V, rep, block), V # {},
         QuorumSize(Replicas) <= Cardinality(V)
  PROVE  CertifiedBy(
           FoldSet(LAMBDA vote, q : HandleVote(q, vote), rep, V).high_qc, V)
<1> DEFINE len == Cardinality(V)
           g == CHOOSE f : IsVoteFold(f, rep, V, len)
           D == {s \in SUBSET V : CountsAll(r, rep, g[s], V, block, s)}
<1>1. len \in Nat /\ IsFiniteSet(V)
  BY FS_CardinalityType DEF AreVotesFor
<1>2. SmallSubsets(V, len) = SUBSET V
  BY <1>1, FS_Subset DEF SmallSubsets
<1>3. FoldSet(LAMBDA vote, q : HandleVote(q, vote), rep, V) = g[V]
  BY <1>2 DEF FoldSet, MapThenFoldSet, IsVoteFold, AnyOf
<1>4. IsVoteFold(g, rep, V, len)
  BY <1>1, VoteFoldExists
<1> HIDE DEF g, len
<1>5. ASSUME NEW s \in SUBSET V
      PROVE  g[s] = IF s = {} THEN rep
                    ELSE HandleVote(g[s \ {AnyOf(s)}], AnyOf(s))
  BY <1>2, <1>4, Zenon DEF IsVoteFold
<1>6. ASSUME NEW s \in SUBSET V, \A u \in SUBSET s : u # s => u \in D
      PROVE  s \in D
  <2>1. CASE s = {}
    <3>1. g[s] = rep
      BY <1>5, <2>1
    <3>2. CountsAll(r, rep, rep, V, block, s)
      BY <2>1 DEF CountsAll, HasCounted
    <3> QED
      BY <3>1, <3>2
  <2>2. CASE s # {}
    <3> DEFINE x == AnyOf(s)
               u == s \ {x}
               q == g[u]
    <3>1. x \in s
      BY <2>2 DEF AnyOf
    <3>2. CountsAll(r, rep, q, V, block, u)
      <4>1. u \in SUBSET s /\ u # s
        BY <3>1
      <4> QED
        BY <1>6, <4>1
    <3>3. g[s] = HandleVote(q, x)
      BY <1>5, <2>2
    <3>4. x \in V /\ u \in SUBSET V /\ x \notin u /\ s = u \cup {x}
      BY <3>1
    <3> HIDE DEF q, u, x
    <3>5. CountsAll(r, rep, HandleVote(q, x), V, block, u \cup {x})
      BY <3>2, <3>4, VoteAdmitted
    <3> QED
      BY <3>3, <3>4, <3>5
  <2> QED
    BY <2>1, <2>2
<1>7. SUBSET V \subseteq D
  <2> HIDE DEF D
  <2> QED
    BY <1>1, <1>6, SubsetInduction
<1>8. CertifiedBy(g[V].high_qc, V)
  BY <1>7 DEF CountsAll
<1> QED
  BY <1>3, <1>8

\* If a quorum is in step with the leader, its votes make a certificate.
LEMMA CorrectLeaderCertifies ==
  ASSUME NodesInv, CorrectInv, NEW l \in Correct, NEW hash \in Nat,
         NEW b, b = BlockOf(l, hash),
         IsLeader(nodes[l].rep, nodes[l].rep.current_view),
         Cardinality({r \in Up \ {l} : InStep(nodes[l].rep, nodes[r].rep)})
           >= QuorumSize(Replicas)
  PROVE  LeaderQC(l, b) # None /\ LeaderQC(l, b).block = hash
<1> DEFINE n == nodes[l]
           S == {r \in Up \ {l} : InStep(n.rep, nodes[r].rep)}
           voters == Voters(l, b)
           V == VotesFor(l, b)
           p == ProposeAt(n, b).rep
           vote == [r \in voters |-> Sign(SignerOf[r], b)]
<1>1. /\ l \in Up
      /\ l \in Replicas
      /\ IsNode(l, n)
      /\ Mirrors(n)
      /\ n.rep.vote_pool = {}
  BY CorrectAreUp DEF NodesInv
<1>2. b \in Block /\ b.hash = hash /\ b.epoch = n.rep.config_epoch
  BY <1>1, LeaderTold
<1>3. /\ voters \in SUBSET Replicas
      /\ V = {Sign(SignerOf[r], b) : r \in voters}
      /\ S \in SUBSET voters
  BY CorrectLeads DEF Voters, GetsProposal, VotesFor
<1>4. LeaderQC(l, b) = CountAt(ProposeAt(n, b), V).rep.high_qc
  BY DEF LeaderQC, CountedAt
<1>5. Cardinality(S) >= QuorumSize(Replicas)
  OBVIOUS
<1>6. vote \in Surjection(voters, V)
  BY <1>3 DEF Surjection
<1>7. \A r \in voters : vote[r] = Sign(SignerOf[r], b)
  OBVIOUS
<1> HIDE DEF n, S, voters, V, vote
<1>8. /\ IsFiniteSet(V)
      /\ V \subseteq Signature
      /\ IsFiniteSet(voters)
      /\ Cardinality(V) \in Nat
      /\ Cardinality(voters) \in Nat
  BY <1>2, <1>3, VotesOf, FS_CardinalityType
<1>9. ASSUME NEW r \in voters, NEW s \in voters,
             SignerOf[r] = SignerOf[s]
      PROVE  r = s
  BY <1>3, <1>9, SimulationAssumption DEF DistributesKeys
<1>10. Cardinality(V) = Cardinality(voters)
  <2>1. \A r, s \in voters : vote[r] = vote[s] => r = s
    <3>1. ASSUME NEW r \in voters, NEW s \in voters, vote[r] = vote[s]
          PROVE  SignerOf[r] = SignerOf[s]
      <4>1. Sign(SignerOf[r], b) = Sign(SignerOf[s], b)
        BY <1>7, <3>1, Zenon
      <4>2. /\ Sign(SignerOf[r], b).signer = SignerOf[r]
            /\ Sign(SignerOf[s], b).signer = SignerOf[s]
        BY DEF Sign
      <4> QED
        BY <4>1, <4>2
    <3> QED
      BY <1>9, <3>1
  <2>2. vote \in Injection(voters, V)
    BY <1>6, <2>1 DEF Surjection, Injection, IsInjective
  <2> QED
    BY <1>6, <1>8, <2>2, FS_Surjection
<1>11. QuorumSize(Replicas) <= Cardinality(V) /\ V # {}
  <2>1. Cardinality(S) \in Nat /\ Cardinality(S) <= Cardinality(voters)
    BY <1>3, <1>8, FS_Subset, FS_CardinalityType
  <2>2. QuorumSize(Replicas) <= Cardinality(V)
    BY <1>5, <1>8, <1>10, <2>1, QuorumIsNumber
  <2>3. QuorumSize(Replicas) > 0
    <3>1. QuorumSize(Replicas) = 2 * FaultBound(Replicas) + 1
      BY DEF QuorumSize
    <3>2. FaultBound(Replicas) \in Nat
      BY ReplicasFinite, SimulationAssumption DEF FaultBound
    <3> QED
      BY <3>1, <3>2
  <2>4. V # {}
    BY <1>8, <2>2, <2>3, QuorumIsNumber, FS_EmptySet
  <2> QED
    BY <2>2, <2>4
<1>12. /\ IsRep(l, p)
       /\ p.vote_pool = {}
       /\ p.block_tree = InsertBlock(n.rep.block_tree, b)
       /\ p.config_epoch = n.rep.config_epoch
  <2> DEFINE q == [n.rep EXCEPT !.block_tree = InsertBlock(@, b)]
  <2>1. p = q
    BY <1>1 DEF ProposeAt, Propose, IsNode
  <2>2. /\ IsRep(l, q)
        /\ q.block_tree = InsertBlock(n.rep.block_tree, b)
        /\ \A f \in Fields \ {"block_tree"} : q[f] = n.rep[f]
    BY <1>1, <1>2, InsertRep DEF IsNode
  <2> HIDE DEF q, p
  <2> QED
    BY <1>1, <2>1, <2>2 DEF Fields
<1>13. AreVotesFor(V, p, hash)
  <2>1. ASSUME NEW v \in V
        PROVE  /\ v.block = hash
               /\ v.epoch = p.config_epoch
               /\ v.signer \in Replicas
    <3>1. PICK r \in voters : v = Sign(SignerOf[r], b)
      BY <1>3
    <3>2. SignerOf[r] \in Replicas
      BY <1>3, SimulationAssumption DEF DistributesKeys
    <3> QED
      BY <1>2, <1>12, <3>1, <3>2 DEF Sign
  <2>2. ASSUME NEW v \in V, NEW w \in V, v.signer = w.signer
        PROVE  v = w
    <3>1. PICK r \in voters : v = Sign(SignerOf[r], b)
      BY <1>3
    <3>2. PICK s \in voters : w = Sign(SignerOf[s], b)
      BY <1>3
    <3> QED
      BY <2>2, <3>1, <3>2 DEF Sign
  <2>3. /\ hash \in DOMAIN p.block_tree
        /\ p.block_tree[hash].epoch = p.config_epoch
    BY <1>2, <1>12 DEF InsertBlock
  <2> QED
    BY <1>8, <2>1, <2>2, <2>3 DEF AreVotesFor
<1> DEFINE qc == FoldSet(LAMBDA w, q : HandleVote(q, w), p, V).high_qc
<1>14. LeaderQC(l, b) = qc
  BY <1>4 DEF CountAt
<1> HIDE DEF p
<1>15. CertifiedBy(qc, V)
  BY <1>1, <1>11, <1>12, <1>13, VotesCertify
<1> HIDE DEF qc
<1>16. qc \in QC /\ qc.block = hash
  BY <1>13, <1>15 DEF CertifiedBy, AreVotesFor
<1>17. qc # None
  BY <1>16, NoneAssumption DEF QC, Signature
<1> QED
  BY <1>14, <1>16, <1>17

\* A leader that never fails is not held up by those that do: if a quorum of
\* others is up and has what it has, its block has a certificate at the end of
\* run_one_round, and every replica that never fails has that certificate.
THEOREM CorrectLeadersCertify ==
  ASSUME FewFaulty
  PROVE  Spec => CorrectRoundCertifies
<1>1. ASSUME Inv, FirstRunCorrect, Next, NEW l \in Correct,
             restarts = 0, step' = step + 1, CurrentLeader = l,
             IsLeader(nodes[l].rep, nodes[l].rep.current_view),
             Cardinality({r \in Up \ {l} :
                            InStep(nodes[l].rep, nodes[r].rep)})
               >= QuorumSize(Replicas),
             NEW r \in Correct
      PROVE  /\ nodes'[r].rep.high_qc # None
             /\ nodes'[r].rep.high_qc.block = nextHash
  <2> DEFINE b == BlockOf(l, nextHash)
             qc == Outcome(l, b, r)
  <2>1. NodesInv /\ CorrectInv /\ nextHash \in Nat /\ step \in Nat
    BY <1>1 DEF Inv, FieldsInv, FirstRunCorrect
  <2>2. l \in Up /\ r \in Replicas
    BY <2>1, CorrectAreUp
  <2>3. ProposalRound
    <3>1. ~RestartAll
      BY <1>1, <2>1 DEF RestartAll
    <3>2. \A s \in Replicas : ~(FallSilent(s) \/ Resume(s) \/ CrashReplica(s)
                                \/ RecoverReplica(s))
      BY <1>1, <2>1 DEF FallSilent, Resume, CrashReplica, RecoverReplica
    <3>3. ~LeaderSilentRound /\ ~NoProposalRound
      BY <1>1, <2>2 DEF LeaderSilentRound, NoProposalRound
    <3>4. ~RefusedRound
      BY <1>1, <2>1 DEF RefusedRound
    <3> QED
      BY <1>1, <3>1, <3>2, <3>3, <3>4 DEF Next, RunOneRound
  <2>4. nodes' = RoundOf(l, nextHash, NoOp)
    BY <1>1, <2>3 DEF ProposalRound
  <2>5. b = BlockOf(l, nextHash)
    OBVIOUS
  <2> HIDE DEF b
  <2>6. TakesIn(r, b, qc)
    BY <1>1, <2>1, <2>2, <2>4, <2>5, CorrectRound
  <2>7. qc # None /\ qc.block = nextHash
    <3>1. LeaderQC(l, b) # None /\ LeaderQC(l, b).block = nextHash
      BY <1>1, <2>1, <2>5, CorrectLeaderCertifies
    <3>2. Outcome(l, b, l) = LeaderQC(l, b)
      BY <1>1, <2>1, <2>5, CorrectLeads
    <3>3. qc = Outcome(l, b, l)
      BY <2>1, OutcomeAlike DEF CorrectInv
    <3> QED
      BY <3>1, <3>2, <3>3
  <2> HIDE DEF qc
  <2>8. nodes'[r].rep.high_qc = qc
    BY <2>2, <2>6, EndMemory DEF TakesIn, Told
  <2> QED
    BY <2>7, <2>8
<1>2. (Inv /\ FirstRunCorrect) /\ [Next]_vars =>
        [\A l \in Correct :
           /\ restarts = 0
           /\ step' = step + 1
           /\ CurrentLeader = l
           /\ IsLeader(nodes[l].rep, nodes[l].rep.current_view)
           /\ Cardinality({r \in Up \ {l} : InStep(nodes[l].rep, nodes[r].rep)})
                >= QuorumSize(Replicas)
           => \A r \in Correct : /\ nodes'[r].rep.high_qc # None
                                 /\ nodes'[r].rep.high_qc.block = nextHash]_vars
  BY <1>1
<1> QED
  BY <1>2, CorrectInvariance, PTL DEF Spec, CorrectRoundCertifies
=============================================================================
