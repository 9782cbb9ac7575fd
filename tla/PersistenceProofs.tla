------------------------- MODULE PersistenceProofs -------------------------
(***************************************************************************)
(* Proofs about the files of one replica, for every set of blocks, keys    *)
(* and commands, and every number of crashes, failures and snapshots.      *)
(***************************************************************************)
EXTENDS Persistence, DataLemmas, FiniteSetTheorems

(***************************************************************************)
(* The store of the application is the fold of the commands it ran.        *)
(***************************************************************************)
\* g is the fold of the commands of ran over the subsets of 1 .. n.
IsRun(g, ran, n) ==
  g = [s \in SUBSET (1 .. n) |->
         IF s = {} THEN EmptyStore
         ELSE Put(g[s \ {Max(s)}], ran[Max(s)].cmd)]

LEMMA RunExists ==
  ASSUME NEW ran, NEW n \in Nat
  PROVE  \E g : IsRun(g, ran, n)
<1> DEFINE D == {k \in Nat : \E g : IsRun(g, ran, k)}
<1>1. 0 \in D
  <2>1. IsRun([s \in SUBSET (1 .. 0) |-> EmptyStore], ran, 0)
    BY DEF IsRun
  <2> QED
    BY <2>1
<1>2. ASSUME NEW k \in Nat, k \in D
      PROVE  k + 1 \in D
  <2>1. PICK g : IsRun(g, ran, k)
    BY <1>2
  <2> DEFINE body(h, s) == IF s = {} THEN EmptyStore
                           ELSE Put(h[s \ {Max(s)}], ran[Max(s)].cmd)
             next == [s \in SUBSET (1 .. k + 1) |-> body(g, s)]
  <2>2. ASSUME NEW s \in SUBSET (1 .. k + 1), s # {}
        PROVE  s \ {Max(s)} \in SUBSET (1 .. k) \/ s \in SUBSET (1 .. k)
    <3>1. CASE k + 1 \in s
      <4>1. Max(s) = k + 1
        <5>1. s \subseteq Nat /\ \A i \in s : i <= k + 1
          OBVIOUS
        <5> QED
          BY <3>1, <5>1, GreatestIsMax
      <4> QED
        BY <4>1
    <3>2. CASE k + 1 \notin s
      BY <3>2
    <3> QED
      BY <3>1, <3>2
  <2>3. ASSUME NEW s \in SUBSET (1 .. k)
        PROVE  g[s] = body(g, s) /\ next[s] = body(g, s)
    <3>1. s \in SUBSET (1 .. k + 1)
      OBVIOUS
    <3>2. g[s] = body(g, s)
      BY <2>1, Zenon DEF IsRun
    <3>3. next[s] = body(g, s)
      BY <3>1, Zenon
    <3> QED
      BY <3>2, <3>3
  <2>4. ASSUME NEW s \in SUBSET (1 .. k + 1)
        PROVE  body(g, s) = body(next, s)
    <3>1. CASE s = {}
      BY <3>1
    <3>2. CASE s # {} /\ s \ {Max(s)} \in SUBSET (1 .. k)
      <4>1. next[s \ {Max(s)}] = g[s \ {Max(s)}]
        BY <2>3, <3>2
      <4> QED
        BY <3>2, <4>1
    <3>3. CASE s # {} /\ s \in SUBSET (1 .. k)
      <4>1. s \ {Max(s)} \in SUBSET (1 .. k)
        BY <3>3
      <4>2. next[s \ {Max(s)}] = g[s \ {Max(s)}]
        BY <2>3, <4>1
      <4> QED
        BY <3>3, <4>2
    <3> QED
      BY <2>2, <3>1, <3>2, <3>3
  <2>5. IsRun(next, ran, k + 1)
    <3>1. next = [s \in SUBSET (1 .. k + 1) |-> body(next, s)]
      BY <2>4
    <3> QED
      BY <3>1 DEF IsRun
  <2> QED
    BY <2>5
<1>3. Nat \subseteq D
  <2> HIDE DEF D
  <2> QED
    BY <1>1, <1>2, NatSetInduction
<1> QED
  BY <1>3

LEMMA RunOfIsRun ==
  ASSUME NEW S, NEW ran \in Seq(S)
  PROVE  \E g : /\ IsRun(g, ran, Len(ran))
                /\ RunOf(ran) = g[1 .. Len(ran)]
<1> DEFINE g == CHOOSE f : IsRun(f, ran, Len(ran))
<1>1. RunOf(ran) = g[1 .. Len(ran)]
  <2>1. DOMAIN ran = 1 .. Len(ran)
    OBVIOUS
  <2> QED
    BY <2>1 DEF RunOf, FoldLeft, MapThenFoldSet, IsRun
<1>2. IsRun(g, ran, Len(ran))
  BY RunExists
<1> QED
  BY <1>1, <1>2

LEMMA RunStep ==
  ASSUME NEW n \in Nat, NEW ran, NEW g, IsRun(g, ran, n),
         NEW k \in Nat, k + 1 <= n
  PROVE  g[1 .. k + 1] = Put(g[1 .. k], ran[k + 1].cmd)
<1> DEFINE s == 1 .. k + 1
<1>1. s \in SUBSET (1 .. n) /\ s # {} /\ s \ {k + 1} = 1 .. k
  <2>1. k + 1 \in s
    OBVIOUS
  <2>2. s \in SUBSET (1 .. n)
    OBVIOUS
  <2>3. s \ {k + 1} = 1 .. k
    OBVIOUS
  <2> QED
    BY <2>1, <2>2, <2>3
<1>2. Max(s) = k + 1
  <2>1. s \subseteq Nat /\ k + 1 \in s /\ \A i \in s : i <= k + 1
    OBVIOUS
  <2> QED
    BY <2>1, GreatestIsMax
<1> HIDE DEF s
<1>3. g[s] = IF s = {} THEN EmptyStore
             ELSE Put(g[s \ {Max(s)}], ran[Max(s)].cmd)
  <2>1. ASSUME NEW u \in SUBSET (1 .. n)
        PROVE  g[u] = IF u = {} THEN EmptyStore
                      ELSE Put(g[u \ {Max(u)}], ran[Max(u)].cmd)
    BY Zenon DEF IsRun
  <2> QED
    BY <1>1, <2>1, Zenon
<1>4. g[s] = Put(g[1 .. k], ran[k + 1].cmd)
  BY <1>1, <1>2, <1>3
<1> QED
  BY <1>4 DEF s

\* Two folds agree as far as their sequences do.
LEMMA RunsAgree ==
  ASSUME NEW n \in Nat, NEW m \in Nat, NEW ran, NEW more, NEW f, NEW g,
         IsRun(f, ran, n), IsRun(g, more, m), n <= m,
         \A i \in 1 .. n : ran[i] = more[i]
  PROVE  f[1 .. n] = g[1 .. n]
<1> DEFINE D == {k \in Nat : k <= n => f[1 .. k] = g[1 .. k]}
<1>1. 0 \in D
  <2>1. 1 .. 0 = {} /\ {} \in SUBSET (1 .. n) /\ {} \in SUBSET (1 .. m)
    OBVIOUS
  <2>2. f[{}] = EmptyStore
    BY <2>1 DEF IsRun
  <2>3. g[{}] = EmptyStore
    BY <2>1 DEF IsRun
  <2> QED
    BY <2>1, <2>2, <2>3
<1>2. ASSUME NEW k \in Nat, k \in D
      PROVE  k + 1 \in D
  <2> SUFFICES ASSUME k + 1 <= n
               PROVE  f[1 .. k + 1] = g[1 .. k + 1]
    OBVIOUS
  <2>3. f[1 .. k + 1] = Put(f[1 .. k], ran[k + 1].cmd)
    BY RunStep
  <2>4. g[1 .. k + 1] = Put(g[1 .. k], more[k + 1].cmd)
    BY RunStep
  <2>5. f[1 .. k] = g[1 .. k] /\ ran[k + 1] = more[k + 1]
    BY <1>2
  <2> QED
    BY <2>3, <2>4, <2>5
<1>3. Nat \subseteq D
  <2> HIDE DEF D
  <2> QED
    BY <1>1, <1>2, NatSetInduction
<1> QED
  BY <1>3

\* The store after one more command.
LEMMA RunOfAppend ==
  ASSUME NEW S, NEW ran \in Seq(S), NEW e \in S
  PROVE  RunOf(Append(ran, e)) = Put(RunOf(ran), e.cmd)
<1> DEFINE n == Len(ran)
           more == Append(ran, e)
<1>1. /\ n \in Nat
      /\ more \in Seq(S)
      /\ Len(more) = n + 1
      /\ more[n + 1] = e
      /\ \A i \in 1 .. n : ran[i] = more[i]
  OBVIOUS
<1> HIDE DEF n, more
<1>2. PICK f : IsRun(f, ran, n) /\ RunOf(ran) = f[1 .. n]
  BY RunOfIsRun DEF n
<1>3. PICK g : IsRun(g, more, n + 1) /\ RunOf(more) = g[1 .. n + 1]
  BY <1>1, RunOfIsRun
<1>4. f[1 .. n] = g[1 .. n]
  <2>1. n + 1 \in Nat /\ n <= n + 1
    BY <1>1
  <2> QED
    BY <1>1, <1>2, <1>3, <2>1, RunsAgree
<1>5. g[1 .. n + 1] = Put(g[1 .. n], e.cmd)
  BY <1>1, <1>3, RunStep
<1> QED
  BY <1>2, <1>3, <1>4, <1>5 DEF more

LEMMA RunOfEmpty == RunOf(<<>>) = EmptyStore
<1>1. PICK g : IsRun(g, <<>>, 0) /\ RunOf(<<>>) = g[1 .. 0]
  <2>1. <<>> \in Seq({}) /\ Len(<<>>) = 0
    OBVIOUS
  <2> QED
    BY <2>1, RunOfIsRun
<1>2. 1 .. 0 = {} /\ {} \in SUBSET (1 .. 0)
  OBVIOUS
<1> QED
  BY <1>1, <1>2 DEF IsRun

(***************************************************************************)
(* Types.                                                                  *)
(***************************************************************************)
Trees == UNION {[known -> Commands] : known \in SUBSET Hashes}

LEMMA TreeMeans ==
  ASSUME NEW t
  PROVE  t \in Trees <=> /\ t = [h \in DOMAIN t |-> t[h]]
                         /\ DOMAIN t \subseteq Hashes
                         /\ \A h \in DOMAIN t : t[h] \in Commands
<1>1. ASSUME t \in Trees
      PROVE  /\ t = [h \in DOMAIN t |-> t[h]]
             /\ DOMAIN t \subseteq Hashes
             /\ \A h \in DOMAIN t : t[h] \in Commands
  <2>1. PICK known \in SUBSET Hashes : t \in [known -> Commands]
    BY <1>1 DEF Trees
  <2> QED
    BY <2>1
<1>2. ASSUME t = [h \in DOMAIN t |-> t[h]], DOMAIN t \subseteq Hashes,
             \A h \in DOMAIN t : t[h] \in Commands
      PROVE  t \in Trees
  <2>1. t \in [DOMAIN t -> Commands]
    BY <1>2
  <2> QED
    BY <1>2, <2>1 DEF Trees
<1> QED
  BY <1>1, <1>2

LEMMA MemoryMeans ==
  ASSUME NEW m
  PROVE  m \in Memory <=> /\ m = [tree |-> m.tree, log |-> m.log,
                                  view |-> m.view]
                          /\ m.tree \in Trees
                          /\ m.log \in Seq(Hashes)
                          /\ m.view \in Nat
  BY DEF Memory, Trees

LEMMA NoOpIsCommand == NoOp \in Commands
  BY DEF Commands

LEMMA FreshMemoryType == FreshMemory \in Memory
<1>1. FreshMemory.tree \in Trees
  BY NoOpIsCommand, TreeMeans DEF FreshMemory, Hashes
<1> QED
  BY <1>1, MemoryMeans DEF FreshMemory

\* What an entry does to the file.
LEMMA AppendEntryMeans ==
  ASSUME NEW w, NEW h, NEW n, NEW v
  PROVE  /\ AppendEntry(w, BlockInserted(h)) =
              [w EXCEPT !.blocks = @ \cup {h}]
         /\ AppendEntry(w, BlockCommitted(h, n)) =
              [w EXCEPT !.commits = Append(@, [hash |-> h, index |-> n])]
         /\ AppendEntry(w, ViewChanged(v)) = [w EXCEPT !.view = v]
         /\ AppendEntry(w, SnapshotTaken) = w
  BY DEF AppendEntry, BlockInserted, BlockCommitted, ViewChanged, SnapshotTaken

LEMMA AppendEntryType ==
  ASSUME NEW w \in WalFile, NEW h \in Hashes, NEW n \in Nat, NEW v \in Nat
  PROVE  /\ AppendEntry(w, BlockInserted(h)) \in WalFile
         /\ AppendEntry(w, BlockCommitted(h, n)) \in WalFile
         /\ AppendEntry(w, ViewChanged(v)) \in WalFile
         /\ AppendEntry(w, SnapshotTaken) \in WalFile
<1>1. [w EXCEPT !.blocks = @ \cup {h}] \in WalFile
  BY DEF WalFile
<1>2. [w EXCEPT !.commits = Append(@, [hash |-> h, index |-> n])] \in WalFile
  <2>1. /\ w.commits \in Seq([hash : Hashes, index : Nat])
        /\ [hash |-> h, index |-> n] \in [hash : Hashes, index : Nat]
    BY DEF WalFile
  <2>2. Append(w.commits, [hash |-> h, index |-> n])
          \in Seq([hash : Hashes, index : Nat])
    BY <2>1
  <2> QED
    BY <2>2 DEF WalFile
<1>3. [w EXCEPT !.view = v] \in WalFile
  BY DEF WalFile
<1> QED
  BY <1>1, <1>2, <1>3, AppendEntryMeans

LEMMA CommitsOfType ==
  ASSUME NEW w \in WalFile
  PROVE  /\ CommitsOf(w) \in Seq(Hashes)
         /\ Len(CommitsOf(w)) = Len(w.commits)
         /\ \A i \in 1 .. Len(w.commits) : CommitsOf(w)[i] = w.commits[i].hash
<1>1. w.commits \in Seq([hash : Hashes, index : Nat])
  BY DEF WalFile
<1>2. \A i \in 1 .. Len(w.commits) : w.commits[i].hash \in Hashes
  <2>1. ASSUME NEW i \in 1 .. Len(w.commits)
        PROVE  w.commits[i] \in [hash : Hashes, index : Nat]
    BY <1>1, ElementOfSeq
  <2> QED
    BY <2>1
<1>3. /\ DOMAIN w.commits = 1 .. Len(w.commits)
      /\ Len(w.commits) \in Nat
  BY <1>1
<1>4. CommitsOf(w) = [i \in 1 .. Len(w.commits) |-> w.commits[i].hash]
  BY <1>3 DEF CommitsOf
<1>5. CommitsOf(w) \in [1 .. Len(w.commits) -> Hashes]
  BY <1>2, <1>4
<1>6. CommitsOf(w) \in Seq(Hashes) /\ Len(CommitsOf(w)) = Len(w.commits)
  BY <1>3, <1>5
<1> QED
  BY <1>4, <1>6

\* What a replay gives.
LEMMA ReplayType ==
  ASSUME NEW m \in Memory, NEW w \in WalFile
  PROVE  /\ Replay(m, w) \in Memory
         /\ Replay(m, w).log = m.log \o CommitsOf(w)
         /\ DOMAIN Replay(m, w).tree = DOMAIN m.tree \cup w.blocks
         /\ Replay(m, w).view = IF w.view = None THEN m.view ELSE w.view
<1>1. /\ m.tree \in Trees /\ m.log \in Seq(Hashes) /\ m.view \in Nat
  BY MemoryMeans
<1>2. Replay(m, w).tree \in Trees
  <2>1. w.blocks \subseteq Hashes
    BY DEF WalFile
  <2> QED
    BY <1>1, <2>1, NoOpIsCommand, TreeMeans DEF Replay
<1>3. Replay(m, w).log \in Seq(Hashes)
  BY <1>1, CommitsOfType DEF Replay
<1>4. Replay(m, w).view \in Nat
  BY <1>1 DEF Replay, WalFile
<1>5. Replay(m, w) \in Memory
  BY <1>2, <1>3, <1>4, MemoryMeans DEF Replay
<1> QED
  BY <1>5 DEF Replay

\* What an import gives.
LEMMA ImportedType ==
  ASSUME NEW m \in Memory, NEW export,
         export.snap \in Memory \cup {None}, export.wal \in WalFile
  PROVE  Imported(m, export) \in Memory
<1> DEFINE from == IF export.snap = None THEN m ELSE export.snap
           w == export.wal
           result == Imported(m, export)
<1>1. /\ from = [tree |-> from.tree, log |-> from.log, view |-> from.view]
      /\ from.tree \in Trees /\ from.log \in Seq(Hashes) /\ from.view \in Nat
      /\ w \in WalFile
  BY MemoryMeans
<1>2. result = [from EXCEPT
         !.tree = [h \in DOMAIN @ \cup w.blocks |->
                     IF h \in w.blocks THEN NoOp ELSE @[h]],
         !.log = @ \o CommitsOf(w),
         !.view = IF w.view = None THEN @ ELSE w.view]
  BY DEF Imported
<1> HIDE DEF from, w, result
<1>3. result = [tree |-> [h \in DOMAIN from.tree \cup w.blocks |->
                            IF h \in w.blocks THEN NoOp ELSE from.tree[h]],
                log |-> from.log \o CommitsOf(w),
                view |-> IF w.view = None THEN from.view ELSE w.view]
  BY <1>1, <1>2
<1>4. result.tree \in Trees
  <2>1. w.blocks \subseteq Hashes
    BY <1>1 DEF WalFile
  <2> QED
    BY <1>1, <1>3, <2>1, NoOpIsCommand, TreeMeans
<1>5. result.log \in Seq(Hashes)
  BY <1>1, <1>3, CommitsOfType
<1>6. result.view \in Nat
  BY <1>1, <1>3 DEF WalFile
<1> QED
  BY <1>3, <1>4, <1>5, <1>6, MemoryMeans DEF result

(***************************************************************************)
(* Types of what the actions compute.                                      *)
(***************************************************************************)
LEMMA MemoryUpdates ==
  ASSUME NEW m \in Memory
  PROVE  /\ \A h \in Blocks :
              [m EXCEPT !.tree = [g \in DOMAIN @ \cup {h} |->
                                    IF g = h THEN CommandOf[h] ELSE @[g]]]
                \in Memory
         /\ \A h \in Hashes : [m EXCEPT !.log = Append(@, h)] \in Memory
         /\ \A v \in Nat : [m EXCEPT !.view = v] \in Memory
<1>1. /\ m = [tree |-> m.tree, log |-> m.log, view |-> m.view]
      /\ m.tree \in Trees /\ m.log \in Seq(Hashes) /\ m.view \in Nat
  BY MemoryMeans
<1>2. ASSUME NEW h \in Blocks
      PROVE  [m EXCEPT !.tree = [g \in DOMAIN @ \cup {h} |->
                                   IF g = h THEN CommandOf[h] ELSE @[g]]]
               \in Memory
  <2> DEFINE t == [g \in DOMAIN m.tree \cup {h} |->
                     IF g = h THEN CommandOf[h] ELSE m.tree[g]]
  <2>1. /\ DOMAIN m.tree \subseteq Hashes
        /\ \A g \in DOMAIN m.tree : m.tree[g] \in Commands
    BY <1>1, TreeMeans
  <2>2. CommandOf[h] \in Commands /\ h \in Hashes
    BY DataAssumption DEF Hashes
  <2>3. /\ DOMAIN t \subseteq Hashes
        /\ \A g \in DOMAIN t : t[g] \in Commands
        /\ t = [g \in DOMAIN t |-> t[g]]
    BY <2>1, <2>2
  <2> HIDE DEF t
  <2>4. t \in Trees
    BY <2>3, TreeMeans
  <2>5. [m EXCEPT !.tree = t] \in Memory
    BY <1>1, <2>4, MemoryMeans
  <2> QED
    BY <2>5 DEF t
<1>3. ASSUME NEW h \in Hashes
      PROVE  [m EXCEPT !.log = Append(@, h)] \in Memory
  <2> DEFINE l == Append(m.log, h)
  <2>1. l \in Seq(Hashes)
    BY <1>1
  <2> HIDE DEF l
  <2>2. [m EXCEPT !.log = l] = [tree |-> m.tree, log |-> l, view |-> m.view]
    BY <1>1
  <2>3. [m EXCEPT !.log = l] \in Memory
    BY <1>1, <2>1, <2>2, MemoryMeans
  <2> QED
    BY <2>3 DEF l
<1>4. ASSUME NEW v \in Nat
      PROVE  [m EXCEPT !.view = v] \in Memory
  BY <1>1, MemoryMeans
<1> QED
  BY <1>2, <1>3, <1>4

LEMMA ExecuteType ==
  ASSUME NEW a \in AppState, NEW h \in Hashes, NEW c \in Commands
  PROVE  Execute(a, h, c) \in AppState
<1>1. /\ a.store \in [Keys -> Values \cup {None}]
      /\ a.ran \in Seq([hash : Hashes, cmd : Commands])
  BY DEF AppState
<1>2. Append(a.ran, [hash |-> h, cmd |-> c])
        \in Seq([hash : Hashes, cmd : Commands])
  BY <1>1
<1>3. c.verb = "SET" => c.value \in Values
  BY DEF Commands, NoOp, Set, Get, Del, SetWithoutValue
<1>4. Put(a.store, c) \in [Keys -> Values \cup {None}]
  BY <1>1, <1>3 DEF Put
<1> QED
  BY <1>2, <1>4 DEF Execute, AppState

LEMMA EmptyAppType == EmptyApp \in AppState
<1>1. <<>> \in Seq([hash : Hashes, cmd : Commands])
  OBVIOUS
<1> QED
  BY <1>1 DEF EmptyApp, EmptyStore, AppState

LEMMA EmptyWalType == NoWal \in WalFile /\ EmptyWal \in WalFile
<1>1. <<>> \in Seq([hash : Hashes, index : Nat])
  OBVIOUS
<1> QED
  BY <1>1 DEF EmptyWal, NoWal, WalFile

LEMMA NoneIsNothing ==
  None \notin Nat /\ None \notin Memory /\ None \notin AppState
    /\ None \notin Snapshot
  BY NoneAssumption

(***************************************************************************)
(* What a write to the log file may leave, whole or not.                   *)
(***************************************************************************)
\* v has the entries of w, and reads no better.
SameEntries(w, v) ==
  /\ v.file = w.file /\ v.blocks = w.blocks
  /\ v.commits = w.commits /\ v.view = w.view
  /\ v.tail = w.tail \/ v.tail = "torn" \/ w.tail = "clean"

LEMMA AppendedMeans ==
  ASSUME NEW w \in WalFile, NEW e
  PROVE  \/ w.tail = "clean" /\ Appended(w, e) = AppendEntry(w, e)
         \/ /\ w.tail # "clean" /\ Appended(w, e).tail = "torn"
            /\ SameEntries(w, Appended(w, e)) /\ Appended(w, e) \in WalFile
  BY DEF Appended, WalFile, SameEntries

LEMMA CutAppendMeans ==
  ASSUME NEW w \in WalFile, NEW v \in CutAppend(w)
  PROVE  v \in WalFile /\ SameEntries(w, v)
<1>1. CASE v = w
  BY <1>1 DEF SameEntries
<1>2. ASSUME NEW t \in {"short", "torn"},
             v = [w EXCEPT !.tail = IF @ = "clean" THEN t ELSE "torn"]
      PROVE  v \in WalFile /\ SameEntries(w, v)
  BY <1>2 DEF WalFile, SameEntries
<1> QED
  BY <1>1, <1>2 DEF CutAppend

\* The entries that the process appends.
Entries == {BlockInserted(h) : h \in Hashes}
           \cup {BlockCommitted(h, n) : h \in Hashes, n \in Nat}
           \cup {ViewChanged(v) : v \in Nat} \cup {SnapshotTaken}

LEMMA EntryKinds ==
  /\ \A h \in Hashes : BlockInserted(h) \in Entries
  /\ \A h \in Hashes, n \in Nat : BlockCommitted(h, n) \in Entries
  /\ \A v \in Nat : ViewChanged(v) \in Entries
  /\ SnapshotTaken \in Entries
<1> DEFINE commits == {BlockCommitted(h, n) : h \in Hashes, n \in Nat}
<1>1. ASSUME NEW h \in Hashes, NEW n \in Nat
      PROVE  BlockCommitted(h, n) \in commits
  OBVIOUS
<1>2. commits \subseteq Entries
  BY DEF Entries
<1> HIDE DEF commits
<1> QED
  BY <1>1, <1>2 DEF Entries

LEMMA EntryType ==
  ASSUME NEW w \in WalFile, NEW e \in Entries
  PROVE  /\ AppendEntry(w, e) \in WalFile
         /\ AppendEntry(w, e).file = w.file
         /\ AppendEntry(w, e).tail = w.tail
<1>1. ASSUME NEW h \in Hashes, e = BlockInserted(h)
      PROVE  /\ AppendEntry(w, e) \in WalFile
             /\ AppendEntry(w, e).file = w.file
             /\ AppendEntry(w, e).tail = w.tail
  <2>1. AppendEntry(w, e) = [w EXCEPT !.blocks = @ \cup {h}]
    BY <1>1, AppendEntryMeans
  <2> QED
    BY <1>1, <2>1, AppendEntryType DEF WalFile
<1>2. ASSUME NEW h \in Hashes, NEW n \in Nat, e = BlockCommitted(h, n)
      PROVE  /\ AppendEntry(w, e) \in WalFile
             /\ AppendEntry(w, e).file = w.file
             /\ AppendEntry(w, e).tail = w.tail
  <2>1. AppendEntry(w, e) =
          [w EXCEPT !.commits = Append(@, [hash |-> h, index |-> n])]
    BY <1>2, AppendEntryMeans
  <2>2. AppendEntry(w, e) \in WalFile
    BY <1>2, AppendEntryType
  <2> QED
    BY <2>1, <2>2 DEF WalFile
<1>3. ASSUME NEW v \in Nat, e = ViewChanged(v)
      PROVE  /\ AppendEntry(w, e) \in WalFile
             /\ AppendEntry(w, e).file = w.file
             /\ AppendEntry(w, e).tail = w.tail
  <2>1. AppendEntry(w, e) = [w EXCEPT !.view = v]
    BY <1>3, AppendEntryMeans
  <2> QED
    BY <1>3, <2>1, AppendEntryType DEF WalFile
<1>4. CASE e = SnapshotTaken
  BY <1>4, AppendEntryMeans
<1> QED
  BY <1>1, <1>2, <1>3, <1>4 DEF Entries

LEMMA AppendedType ==
  ASSUME NEW w \in WalFile, NEW e \in Entries
  PROVE  Appended(w, e) \in WalFile /\ Appended(w, e).file = w.file
  BY AppendedMeans, EntryType DEF SameEntries

(***************************************************************************)
(* The inductive invariants.                                               *)
(***************************************************************************)
\* The snapshots have a newest one, and the counter does not fall behind it.
Numbered ==
  /\ DOMAIN snaps # {} => \E m \in DOMAIN snaps : \A id \in DOMAIN snaps : id <= m
  /\ up => \A id \in DOMAIN snaps : id <= counter

TypeInv == TypeOK /\ Numbered

\* What take_snapshot has written so far, and that nothing else happens to
\* the memory meanwhile.
OpInv ==
  /\ op.at = "idle" => op = Idle
  /\ op.at # "idle" => /\ op.snap \in Snapshot
                       /\ op.snap.mem = mem
                       /\ counter \in DOMAIN snaps
  /\ op.at \in {"sum", "hash", "mark", "tmp", "rename", "finish"} =>
       snaps[counter].bin = op.snap
  /\ op.at \in {"mark", "tmp", "rename", "finish"} =>
       snaps[counter].sum = "whole" /\ snaps[counter].of = op.snap
  /\ op.at = "finish" => wal = EmptyWal
  /\ wal.file = "absent" => wal = NoWal

\* The commits are in the log, each at its index.
CommitsHeld(commits, log) ==
  \A i \in DOMAIN commits : /\ commits[i].index < Len(log)
                            /\ log[commits[i].index + 1] = commits[i].hash

NewestHeld(log) ==
  DOMAIN snaps # {} /\ snaps[Newest].bin # None =>
    IsPrefix(snaps[Newest].bin.mem.log, log)

\* Every commit in the log file and in the newest snapshot is one of the
\* memory, at the same place, and so is every commit that is owed.
LogInv ==
  up => /\ IsPrefix(owed, mem.log)
        /\ CommitsHeld(wal.commits, mem.log)
        /\ NewestHeld(mem.log)

\* What was run is in order in the memory, and would be after a recovery.
Held(ran) ==
  /\ up => RunsInOrder(ran, mem.log)
  /\ Recoverable => RunsInOrder(ran, Recovered.log)

\* A state of the application in a snapshot belongs to the log beside it.
Fits(snap) ==
  snap # None /\ snap.app # None =>
    /\ snap.app.store = RunOf(snap.app.ran)
    /\ failures = 0 => RunsInOrder(snap.app.ran, snap.mem.log)

\* A state of the application is what its commands give, in their order.
Good(a) ==
  a # None => /\ a.store = RunOf(a.ran)
              /\ failures = 0 => Held(a.ran)

AppInv ==
  /\ Good(app) /\ Good(pending) /\ Fits(op.snap)
  /\ \A id \in DOMAIN snaps : Fits(snaps[id].bin)

(***************************************************************************)
(* Type correctness.                                                       *)
(***************************************************************************)
LEMMA NewestMeans ==
  ASSUME TypeInv, DOMAIN snaps # {}
  PROVE  /\ Newest \in DOMAIN snaps /\ Newest \in Nat
         /\ \A id \in DOMAIN snaps : id <= Newest
<1>1. DOMAIN snaps \subseteq Nat
  BY DEF TypeInv, TypeOK
<1>2. PICK m \in DOMAIN snaps : \A id \in DOMAIN snaps : id <= m
  BY DEF TypeInv, Numbered
<1>3. Newest = m
  BY <1>1, <1>2, GreatestIsMax DEF Newest
<1> QED
  BY <1>1, <1>2, <1>3

LEMMA NewestIsCounter ==
  ASSUME TypeInv, up, counter \in DOMAIN snaps
  PROVE  DOMAIN snaps # {} /\ Newest = counter
<1>1. DOMAIN snaps \subseteq Nat /\ \A id \in DOMAIN snaps : id <= counter
  BY DEF TypeInv, TypeOK, Numbered
<1>2. Newest = counter
  BY <1>1, GreatestIsMax DEF Newest
<1> QED
  BY <1>2

LEMMA BaseType ==
  ASSUME TypeInv, Loadable
  PROVE  /\ Base \in Memory
         /\ DOMAIN snaps # {} => /\ snaps[Newest].bin \in Snapshot
                                 /\ Base = snaps[Newest].bin.mem
<1>1. CASE DOMAIN snaps = {}
  BY <1>1, FreshMemoryType DEF Base
<1>2. CASE DOMAIN snaps # {}
  <2>1. snaps[Newest] \in SnapshotFile
    BY <1>2, NewestMeans DEF TypeInv, TypeOK
  <2>2. snaps[Newest].bin \in Snapshot
    BY <1>2, <2>1 DEF SnapshotFile, Loadable
  <2>3. snaps[Newest].bin.mem \in Memory
    BY <2>2 DEF Snapshot
  <2> QED
    BY <1>2, <2>2, <2>3 DEF Base
<1> QED
  BY <1>1, <1>2

LEMMA RecoveredType ==
  ASSUME TypeInv, Loadable
  PROVE  /\ Recovered \in Memory
         /\ Recovered.log = Base.log \o CommitsOf(wal)
         /\ DOMAIN Recovered.tree = DOMAIN Base.tree \cup wal.blocks
         /\ Recovered.view = IF wal.view = None THEN Base.view ELSE wal.view
  BY BaseType, ReplayType DEF Recovered, TypeInv, TypeOK

LEMMA LogsType ==
  ASSUME TypeInv, NEW e \in Entries, Logs(e)
  PROVE  /\ wal' \in WalFile /\ wal'.file = wal.file
         /\ dirty' \in BOOLEAN /\ failures' \in Nat
<1>1. wal \in WalFile /\ dirty \in BOOLEAN /\ failures \in Nat
  BY DEF TypeInv, TypeOK
<1>2. CASE wal' = Appended(wal, e) /\ UNCHANGED <<dirty, failures>>
  BY <1>1, <1>2, AppendedType
<1>3. CASE /\ wal' \in CutAppend(wal)
           /\ dirty' = TRUE /\ failures' = failures + 1
  BY <1>1, <1>3, CutAppendMeans DEF SameEntries
<1> QED
  BY <1>2, <1>3 DEF Logs

\* A write to the snapshot file with the number of the counter.
LEMMA WritesType ==
  ASSUME TypeInv, up, NEW file \in SnapshotFile, Writes(file)
  PROVE  /\ DOMAIN snaps' = DOMAIN snaps \cup {counter}
         /\ snaps'[counter] = file
         /\ \A id \in DOMAIN snaps : id # counter => snaps'[id] = snaps[id]
         /\ DOMAIN snaps' \subseteq Nat
         /\ \A id \in DOMAIN snaps' : snaps'[id] \in SnapshotFile
         /\ \E m \in DOMAIN snaps' : \A id \in DOMAIN snaps' : id <= m
         /\ \A id \in DOMAIN snaps' : id <= counter
<1>1. /\ DOMAIN snaps \subseteq Nat /\ counter \in Nat
      /\ \A id \in DOMAIN snaps : snaps[id] \in SnapshotFile
      /\ \A id \in DOMAIN snaps : id <= counter
  BY DEF TypeInv, TypeOK, Numbered
<1>2. snaps' = [id \in DOMAIN snaps \cup {counter} |->
                  IF id = counter THEN file ELSE snaps[id]]
  BY DEF Writes
<1>3. DOMAIN snaps' = DOMAIN snaps \cup {counter}
  BY <1>2
<1>4. \A id \in DOMAIN snaps' :
        snaps'[id] = IF id = counter THEN file ELSE snaps[id]
  BY <1>2
<1>5. \A id \in DOMAIN snaps' : id <= counter
  BY <1>1, <1>3
<1> QED
  BY <1>1, <1>3, <1>4, <1>5

LEMMA FileType ==
  ASSUME TypeInv, NEW s \in Snapshot \cup {None}
  PROVE  /\ [File(counter) EXCEPT !.bin = s] \in SnapshotFile
         /\ [File(counter) EXCEPT !.sum = "cut", !.of = None] \in SnapshotFile
         /\ [File(counter) EXCEPT !.sum = "whole", !.of = s] \in SnapshotFile
         /\ [File(counter) EXCEPT !.bin = s].bin = s
         /\ [File(counter) EXCEPT !.sum = "cut", !.of = None].sum = "cut"
         /\ [File(counter) EXCEPT !.sum = "whole", !.of = s].sum = "whole"
         /\ [File(counter) EXCEPT !.sum = "whole", !.of = s].of = s
         /\ [File(counter) EXCEPT !.sum = "cut", !.of = None].bin =
              File(counter).bin
         /\ [File(counter) EXCEPT !.sum = "whole", !.of = s].bin =
              File(counter).bin
<1>1. File(counter) \in SnapshotFile
  BY DEF File, SnapshotFile, TypeInv, TypeOK
<1> QED
  BY <1>1 DEF SnapshotFile

LEMMA KeptMeans ==
  ASSUME TypeInv, DOMAIN snaps # {}
  PROVE  Kept \subseteq DOMAIN snaps /\ Newest \in Kept
<1>1. /\ Newest \in DOMAIN snaps /\ Newest \in Nat
      /\ \A id \in DOMAIN snaps : id <= Newest
      /\ DOMAIN snaps \subseteq Nat
  BY NewestMeans DEF TypeInv, TypeOK
<1>2. {i \in DOMAIN snaps : i > Newest} = {}
  BY <1>1
<1>3. Cardinality({i \in DOMAIN snaps : i > Newest}) < Keep
  <2>1. Cardinality({}) = 0
    BY FS_EmptySet
  <2> QED
    BY <1>2, <2>1, PersistenceAssumption
<1> QED
  BY <1>1, <1>3 DEF Kept

\* What the replica may pick up.
LEMMA ChoicesType ==
  ASSUME TypeInv
  PROVE  /\ Arriving \subseteq Blocks /\ Committing \subseteq DOMAIN mem.tree
         /\ DOMAIN mem.tree \subseteq Hashes
         /\ \A h \in DOMAIN mem.tree : mem.tree[h] \in Commands
         /\ NextView \subseteq Nat
         /\ mem.log \in Seq(Hashes) /\ Len(mem.log) \in Nat
<1>1. mem.tree \in Trees /\ mem.log \in Seq(Hashes)
  BY MemoryMeans DEF TypeInv, TypeOK
<1> QED
  BY <1>1, TreeMeans, PersistenceAssumption
     DEF Arriving, Committing, First, NextView

LEMMA EntriesDueType ==
  ASSUME TypeInv
  PROVE  EntriesDue \subseteq Entries
<1>1. CASE Ready
  <2>1. {BlockInserted(h) : h \in Arriving} \subseteq Entries
    BY EntryKinds, ChoicesType DEF Hashes
  <2>2. {BlockCommitted(h, Len(mem.log)) : h \in Committing} \subseteq Entries
    BY EntryKinds, ChoicesType
  <2>3. {ViewChanged(v) : v \in NextView} \subseteq Entries
    BY EntryKinds, ChoicesType
  <2>4. op.at # "mark"
    BY <1>1 DEF Ready, Idle
  <2>5. EntriesDue = {BlockInserted(h) : h \in Arriving}
                     \cup {BlockCommitted(h, Len(mem.log)) : h \in Committing}
                     \cup {ViewChanged(v) : v \in NextView}
    BY <1>1, <2>4 DEF EntriesDue
  <2> QED
    BY <2>1, <2>2, <2>3, <2>5
<1>2. CASE ~Ready
  <2>1. EntriesDue = {SnapshotTaken} \/ EntriesDue = {}
    BY <1>2 DEF EntriesDue
  <2> QED
    BY <2>1 DEF Entries
<1> QED
  BY <1>1, <1>2

LEMMA IdleType ==
  Idle \in [at : {"idle", "bin", "sum", "hash", "mark", "tmp", "rename",
                  "finish"}, snap : Snapshot \cup {None}]
  BY DEF Idle

LEMMA TypeInit == Init => TypeInv
<1> SUFFICES ASSUME Init PROVE TypeInv
  OBVIOUS
<1>1. mem \in Memory /\ app \in AppState /\ wal \in WalFile
  BY FreshMemoryType, EmptyAppType, EmptyWalType DEF Init
<1>2. owed \in Seq(Hashes)
  <2>1. <<>> \in Seq(Hashes)
    OBVIOUS
  <2> QED
    BY <2>1 DEF Init
<1>3. /\ DOMAIN snaps \subseteq Nat
      /\ \A id \in DOMAIN snaps : snaps[id] \in SnapshotFile
      /\ Numbered
  BY DEF Init, Numbered
<1>4. /\ up \in BOOLEAN /\ attached \in BOOLEAN
      /\ tmp \in BOOLEAN /\ dirty \in BOOLEAN
      /\ crashes \in Nat /\ failures \in Nat /\ begun \in Nat
      /\ counter \in Nat /\ pending \in AppState \cup {None}
  BY DEF Init
<1>5. op = Idle /\ ~up
  BY DEF Init
<1> QED
  BY <1>1, <1>2, <1>3, <1>4, <1>5, IdleType DEF TypeInv, TypeOK

LEMMA TypeStep ==
  ASSUME TypeInv, [Next]_vars
  PROVE  TypeInv'
<1> USE DEF TypeInv
<1>1. /\ mem \in Memory /\ pending \in AppState \cup {None}
      /\ app \in AppState /\ wal \in WalFile /\ counter \in Nat
      /\ mem.log \in Seq(Hashes)
  BY ChoicesType DEF TypeOK
<1>2. ASSUME Ready
      PROVE  up /\ wal.file = "whole" /\ op = Idle
  BY <1>2 DEF Ready, TypeOK
<1>3. ASSUME op.at # "idle"
      PROVE  op # Idle /\ up /\ wal.file = "whole"
  BY <1>3 DEF Idle, TypeOK
<1>4. ASSUME NEW h \in Arriving, InsertBlock(h)
      PROVE  TypeInv'
  <2>1. h \in Blocks /\ BlockInserted(h) \in Entries
    BY ChoicesType, EntryKinds DEF Hashes
  <2>2. mem' \in Memory
    BY <1>1, <1>4, <2>1, MemoryUpdates DEF InsertBlock
  <2>3. /\ wal' \in WalFile /\ wal'.file = "whole"
        /\ dirty' \in BOOLEAN /\ failures' \in Nat
    BY <1>2, <1>4, <2>1, LogsType DEF InsertBlock
  <2> QED
    BY <1>4, <2>2, <2>3 DEF InsertBlock, TypeOK, Numbered
<1>5. ASSUME NEW v \in NextView, AdvanceView(v)
      PROVE  TypeInv'
  <2>1. v \in Nat /\ ViewChanged(v) \in Entries
    BY ChoicesType, EntryKinds
  <2>2. mem' \in Memory
    BY <1>1, <1>5, <2>1, MemoryUpdates DEF AdvanceView
  <2>3. /\ wal' \in WalFile /\ wal'.file = "whole"
        /\ dirty' \in BOOLEAN /\ failures' \in Nat
    BY <1>2, <1>5, <2>1, LogsType DEF AdvanceView
  <2> QED
    BY <1>5, <2>2, <2>3 DEF AdvanceView, TypeOK, Numbered
<1>6. ASSUME NEW h \in Committing, CommitBlock(h)
      PROVE  TypeInv'
  <2>1. /\ h \in Hashes /\ mem.tree[h] \in Commands
        /\ BlockCommitted(h, Len(mem.log)) \in Entries
    BY ChoicesType, EntryKinds
  <2>2. mem' \in Memory /\ mem'.log \in Seq(Hashes)
    <3>1. mem' \in Memory
      BY <1>1, <1>6, <2>1, MemoryUpdates DEF CommitBlock
    <3> QED
      BY <3>1, MemoryMeans
  <2>3. /\ wal' \in WalFile /\ wal'.file = "whole"
        /\ dirty' \in BOOLEAN /\ failures' \in Nat
    BY <1>2, <1>6, <2>1, LogsType DEF CommitBlock
  <2>4. app' \in AppState
    BY <1>1, <1>6, <2>1, ExecuteType DEF CommitBlock, AppAfter
  <2>5. owed' \in Seq(Hashes)
    BY <1>6, <2>2 DEF CommitBlock, TypeOK
  <2> QED
    BY <1>6, <2>2, <2>3, <2>4, <2>5 DEF CommitBlock, TypeOK, Numbered
<1>7. ASSUME AttachApp
      PROVE  TypeInv'
  <2>1. app' \in AppState
    BY <1>1, <1>7 DEF AttachApp, AppRestore
  <2> QED
    BY <1>7, <2>1 DEF AttachApp, TypeOK, Numbered, disk, history
<1>8. ASSUME ImportCatchup
      PROVE  TypeInv'
  <2>1. Donor.snap \in Memory \cup {None} /\ Donor.wal \in WalFile
    BY DataAssumption
  <2>2. mem' \in Memory
    BY <1>1, <1>8, <2>1, ImportedType DEF ImportCatchup
  <2> QED
    BY <1>8, <2>2 DEF ImportCatchup, TypeOK, Numbered, disk
<1>9. ASSUME TakeSnapshot
      PROVE  TypeInv'
  <2>1. ASSUME BeginSnapshot
        PROVE  TypeInv'
    <3>1. up /\ [File(counter) EXCEPT !.bin = None] \in SnapshotFile
      BY <1>2, <2>1, FileType DEF BeginSnapshot
    <3>2. /\ DOMAIN snaps' \subseteq Nat
          /\ \A id \in DOMAIN snaps' : snaps'[id] \in SnapshotFile
          /\ Numbered'
      BY <2>1, <3>1, WritesType DEF BeginSnapshot, Numbered
    <3>3. op'.snap \in Snapshot /\ op' = [at |-> "bin", snap |-> op'.snap]
      BY <1>1, <2>1 DEF BeginSnapshot, AppSnapshot, Snapshot
    <3> QED
      BY <1>2, <2>1, <3>1, <3>2, <3>3 DEF BeginSnapshot, TypeOK
  <2>2. ASSUME WriteBin \/ CreateSum \/ WriteSum
        PROVE  TypeInv'
    <3>1. up /\ op.snap \in Snapshot \cup {None}
      BY <1>3, <2>2 DEF WriteBin, CreateSum, WriteSum, TypeOK
    <3>2. PICK file \in SnapshotFile : Writes(file)
      BY <2>2, <3>1, FileType DEF WriteBin, CreateSum, WriteSum
    <3>3. /\ DOMAIN snaps' \subseteq Nat
          /\ \A id \in DOMAIN snaps' : snaps'[id] \in SnapshotFile
      BY <3>1, <3>2, WritesType
    <3>4. Numbered'
      BY <2>2, <3>1, <3>2, WritesType
         DEF WriteBin, CreateSum, WriteSum, Numbered
    <3> QED
      BY <2>2, <3>1, <3>3, <3>4
         DEF WriteBin, CreateSum, WriteSum, Reaches, SnapshotFrame, TypeOK
  <2>3. ASSUME MarkSnapshot
        PROVE  TypeInv'
    <3>1. /\ wal' \in WalFile /\ wal'.file = "whole" /\ up
          /\ dirty' \in BOOLEAN /\ failures' \in Nat
      BY <1>3, <2>3, EntryKinds, LogsType DEF MarkSnapshot
    <3> QED
      BY <2>3, <3>1
         DEF MarkSnapshot, Reaches, SnapshotFrame, TypeOK, Numbered
  <2>4. ASSUME CreateTmp \/ SnapshotFails
        PROVE  TypeInv'
    <3>1. up /\ wal.file = "whole"
      BY <1>3, <2>4 DEF CreateTmp, SnapshotFails
    <3>2. op' \in [at : {"idle", "bin", "sum", "hash", "mark", "tmp",
                         "rename", "finish"}, snap : Snapshot \cup {None}]
      BY <2>4 DEF CreateTmp, SnapshotFails, Reaches, Idle, TypeOK
    <3>3. /\ UNCHANGED <<up, mem, pending, attached, app, crashes, begun,
                         counter, wal, snaps, owed>>
          /\ tmp' \in BOOLEAN /\ dirty' \in BOOLEAN /\ failures' \in Nat
      <4>1. CASE CreateTmp
        BY <4>1 DEF CreateTmp, SnapshotFrame, TypeOK
      <4>2. CASE SnapshotFails
        BY <4>2 DEF SnapshotFails, SnapshotFrame, disk, TypeOK
      <4> QED
        BY <2>4, <4>1, <4>2
    <3> QED
      BY <3>1, <3>2, <3>3 DEF TypeOK, Numbered
  <2>5. ASSUME RenameTmp
        PROVE  TypeInv'
    <3>1. up /\ wal' \in WalFile /\ wal'.file = "whole"
      BY <1>3, <2>5, EmptyWalType DEF RenameTmp, EmptyWal, NoWal
    <3> QED
      BY <1>1, <2>5, <3>1
         DEF RenameTmp, Reaches, SnapshotFrame, TypeOK, Numbered
  <2>6. ASSUME FinishSnapshot
        PROVE  TypeInv'
    <3>1. up /\ wal.file = "whole"
      BY <1>3, <2>6 DEF FinishSnapshot
    <3>2. /\ DOMAIN snaps' = Kept
          /\ \A id \in DOMAIN snaps' : snaps'[id] = snaps[id]
      BY <2>6 DEF FinishSnapshot
    <3>3. Kept \subseteq DOMAIN snaps
      BY DEF Kept
    <3>4. DOMAIN snaps' # {} =>
            \E m \in DOMAIN snaps' : \A id \in DOMAIN snaps' : id <= m
      <4> SUFFICES ASSUME DOMAIN snaps # {}
                   PROVE  \E m \in Kept : \A id \in Kept : id <= m
        BY <3>2, <3>3
      <4> QED
        BY NewestMeans, KeptMeans
    <3>5. \A id \in DOMAIN snaps' : id <= counter'
      BY <1>1, <2>6, <3>1, <3>2, <3>3
         DEF FinishSnapshot, Numbered, TypeOK
    <3> QED
      BY <1>1, <2>6, <3>1, <3>2, <3>3, <3>4, <3>5
         DEF FinishSnapshot, SnapshotFrame, Idle, TypeOK, Numbered
  <2> QED
    BY <1>9, <2>1, <2>2, <2>3, <2>4, <2>5, <2>6 DEF TakeSnapshot
<1>10. ASSUME Recover
       PROVE  TypeInv'
  <2>1. /\ Loadable /\ wal.file # "partial"
    BY <1>10 DEF Recover, Recoverable, Readable
  <2>2. Recovered \in Memory /\ Recovered.log \in Seq(Hashes)
    BY <2>1, RecoveredType, MemoryMeans
  <2>3. LogFile(wal) \in WalFile /\ LogFile(wal).file = "whole"
    BY <1>1, <2>1, EmptyWalType DEF LogFile, EmptyWal, NoWal, WalFile
  <2>4. wal' \in WalFile /\ wal'.file = "whole"
    <3>1. BlockInserted(0) \in Entries
      BY EntryKinds DEF Hashes
    <3>2. /\ Appended(LogFile(wal), BlockInserted(0)) \in WalFile
          /\ Appended(LogFile(wal), BlockInserted(0)).file = "whole"
      BY <2>3, <3>1, AppendedType
    <3>3. wal' \in {LogFile(wal), Appended(LogFile(wal), BlockInserted(0))}
      BY <1>10 DEF Recover
    <3> QED
      BY <2>3, <3>2, <3>3
  <2>5. /\ pending' \in AppState \cup {None} /\ counter' \in Nat
        /\ \A id \in DOMAIN snaps : id <= counter'
    <3>1. CASE DOMAIN snaps = {}
      BY <1>10, <3>1 DEF Recover
    <3>2. CASE DOMAIN snaps # {}
      <4>1. snaps[Newest].bin \in Snapshot
        BY <2>1, <3>2, BaseType
      <4>2. pending' = snaps[Newest].bin.app /\ counter' = Newest + 1
        BY <1>10, <3>2 DEF Recover
      <4>3. /\ Newest \in Nat /\ DOMAIN snaps \subseteq Nat
            /\ \A id \in DOMAIN snaps : id <= Newest
        BY <3>2, NewestMeans DEF TypeOK
      <4>4. pending' \in AppState \cup {None}
        BY <4>1, <4>2 DEF Snapshot
      <4>5. \A id \in DOMAIN snaps : id <= counter'
        BY <4>2, <4>3
      <4> QED
        BY <4>2, <4>3, <4>4, <4>5
    <3> QED
      BY <3>1, <3>2
  <2>6. mem' = Recovered /\ owed' = Recovered.log /\ up' = TRUE
    BY <1>10 DEF Recover
  <2> QED
    BY <1>10, <2>2, <2>4, <2>5, <2>6 DEF Recover, TypeOK, Numbered
<1>11. ASSUME Crash
       PROVE  TypeInv'
  <2>1. wal' \in WalFile
    BY <1>1, <1>11, CutAppendMeans, EntriesDueType, AppendedType DEF Crash
  <2>2. app' \in AppState
    BY <1>1, <1>11, EmptyAppType DEF Crash
  <2>3. /\ UNCHANGED <<tmp, snaps, dirty, owed, failures, begun>>
        /\ ~up' /\ up' \in BOOLEAN /\ ~attached' /\ attached' \in BOOLEAN
        /\ crashes' = crashes + 1 /\ counter' = 0
        /\ pending' = None /\ op' = Idle /\ mem' \in Memory
    BY <1>11, FreshMemoryType DEF Crash
  <2> QED
    BY <2>1, <2>2, <2>3, IdleType DEF TypeOK, Numbered
<1>12. ASSUME CrashAtBoot
       PROVE  TypeInv'
  <2>1. wal' \in WalFile
    BY <1>1, <1>12, CutAppendMeans, EmptyWalType DEF CrashAtBoot, WalFile
  <2> QED
    BY <1>12, <2>1 DEF CrashAtBoot, process, TypeOK, Numbered
<1>13. ASSUME RestartAppServer
       PROVE  TypeInv'
  BY <1>13, EmptyAppType
     DEF RestartAppServer, process, disk, TypeOK, Numbered
<1>14. ASSUME UNCHANGED vars
       PROVE  TypeInv'
  BY <1>14 DEF vars, process, disk, history, TypeOK, Numbered
<1> QED
  BY <1>4, <1>5, <1>6, <1>7, <1>8, <1>9, <1>10, <1>11, <1>12, <1>13, <1>14
     DEF Next

LEMMA TypeInvariant == Spec => []TypeInv
<1> QED
  BY TypeInit, TypeStep, PTL DEF Spec

\* The process and its files keep their shape, whatever crashes or fails.
THEOREM PersistenceTypes == Spec => []TypeOK
<1>1. TypeInv => TypeOK
  BY DEF TypeInv
<1> QED
  BY <1>1, TypeInvariant, PTL

(***************************************************************************)
(* What take_snapshot has written.                                         *)
(***************************************************************************)
\* A step of take_snapshot that writes the file of the counter.
LEMMA WriteMeans ==
  ASSUME TypeInv, op.at # "idle", NEW file \in SnapshotFile, Writes(file)
  PROVE  up /\ counter \in DOMAIN snaps' /\ snaps'[counter] = file
<1>1. up
  BY DEF TypeInv, TypeOK, Idle
<1> QED
  BY <1>1, WritesType

LEMMA OpInit == Init => OpInv
  BY DEF Init, OpInv, Idle

LEMMA OpStep ==
  ASSUME TypeInv, OpInv, [Next]_vars
  PROVE  OpInv'
<1>1. /\ wal \in WalFile
      /\ op \in [at : {"idle", "bin", "sum", "hash", "mark", "tmp", "rename",
                       "finish"}, snap : Snapshot \cup {None}]
      /\ up => wal.file = "whole"
      /\ op.at # "idle" => up
  BY DEF TypeInv, TypeOK, Idle
<1> DEFINE done == wal.file = "absent" => wal = NoWal
<1>2. ASSUME op' = Idle, done'
      PROVE  OpInv'
  BY <1>2 DEF OpInv, Idle
<1>3. ASSUME Ready
      PROVE  up /\ op = Idle /\ wal.file = "whole"
  BY <1>1, <1>3 DEF Ready
<1>4. ASSUME NEW h \in Arriving, InsertBlock(h)
      PROVE  OpInv'
  <2>1. BlockInserted(h) \in Entries
    BY ChoicesType, EntryKinds DEF Hashes
  <2> QED
    BY <1>2, <1>3, <1>4, <2>1, LogsType DEF InsertBlock
<1>5. ASSUME NEW v \in NextView, AdvanceView(v)
      PROVE  OpInv'
  <2>1. ViewChanged(v) \in Entries
    BY ChoicesType, EntryKinds
  <2> QED
    BY <1>2, <1>3, <1>5, <2>1, LogsType DEF AdvanceView
<1>6. ASSUME NEW h \in Committing, CommitBlock(h)
      PROVE  OpInv'
  <2>1. BlockCommitted(h, Len(mem.log)) \in Entries
    BY ChoicesType, EntryKinds
  <2> QED
    BY <1>2, <1>3, <1>6, <2>1, LogsType DEF CommitBlock
<1>7. CASE AttachApp \/ ImportCatchup
  BY <1>2, <1>3, <1>7 DEF AttachApp, ImportCatchup, disk
<1>8. ASSUME TakeSnapshot
      PROVE  OpInv'
  <2>1. ASSUME BeginSnapshot
        PROVE  OpInv'
    <3>1. up /\ [File(counter) EXCEPT !.bin = None] \in SnapshotFile
      BY <1>3, <2>1, FileType DEF BeginSnapshot
    <3>2. counter \in DOMAIN snaps' /\ counter' = counter
      BY <2>1, <3>1, WritesType DEF BeginSnapshot
    <3>3. op'.at = "bin" /\ op'.snap.mem = mem'
      BY <2>1 DEF BeginSnapshot
    <3>4. op'.snap \in Snapshot
      BY <2>1 DEF BeginSnapshot, AppSnapshot, Snapshot, TypeInv, TypeOK
    <3>5. done'
      BY <1>3, <2>1 DEF BeginSnapshot
    <3> QED
      BY <3>2, <3>3, <3>4, <3>5 DEF OpInv
  <2>2. ASSUME op.at # "idle", NEW at, at # "idle", Reaches(at), SnapshotFrame,
               counter' = counter
        PROVE  /\ op'.at = at /\ op'.snap = op.snap
               /\ op'.snap \in Snapshot /\ op'.snap.mem = mem'
    BY <1>1, <2>2 DEF Reaches, SnapshotFrame, OpInv
  <2>3. ASSUME WriteBin
        PROVE  OpInv'
    <3>1. /\ op.at = "bin" /\ op.at # "idle"
          /\ op.snap \in Snapshot \cup {None}
      BY <1>1, <2>3 DEF WriteBin
    <3>2. snaps'[counter].bin = op.snap /\ counter \in DOMAIN snaps'
      BY <2>3, <3>1, FileType, WriteMeans DEF WriteBin
    <3>3. /\ op'.at = "sum" /\ op'.snap = op.snap
          /\ op'.snap \in Snapshot /\ op'.snap.mem = mem' /\ counter' = counter
      BY <2>2, <2>3, <3>1 DEF WriteBin
    <3>4. done'
      BY <1>1, <2>3, <3>1 DEF WriteBin
    <3> QED
      BY <3>2, <3>3, <3>4 DEF OpInv
  <2>4. ASSUME CreateSum
        PROVE  OpInv'
    <3>1. op.at = "sum" /\ op.at # "idle"
      BY <2>4 DEF CreateSum
    <3>2. /\ snaps'[counter].bin = File(counter).bin
          /\ counter \in DOMAIN snaps'
      BY <2>4, <3>1, FileType, WriteMeans DEF CreateSum
    <3>3. File(counter).bin = op.snap
      BY <3>1 DEF OpInv, File
    <3>4. /\ op'.at = "hash" /\ op'.snap = op.snap
          /\ op'.snap \in Snapshot /\ op'.snap.mem = mem' /\ counter' = counter
      BY <2>2, <2>4, <3>1 DEF CreateSum
    <3>5. done'
      BY <1>1, <2>4, <3>1 DEF CreateSum
    <3> QED
      BY <3>2, <3>3, <3>4, <3>5 DEF OpInv
  <2>5. ASSUME WriteSum
        PROVE  OpInv'
    <3>1. /\ op.at = "hash" /\ op.at # "idle"
          /\ op.snap \in Snapshot \cup {None}
      BY <1>1, <2>5 DEF WriteSum
    <3>2. /\ snaps'[counter].bin = File(counter).bin
          /\ snaps'[counter].sum = "whole" /\ snaps'[counter].of = op.snap
          /\ counter \in DOMAIN snaps'
      <4> DEFINE file == [File(counter) EXCEPT !.sum = "whole", !.of = op.snap]
      <4>1. /\ file \in SnapshotFile
            /\ file.bin = File(counter).bin
            /\ file.sum = "whole" /\ file.of = op.snap
        BY <3>1, FileType
      <4>2. Writes(file)
        BY <2>5 DEF WriteSum
      <4> HIDE DEF file
      <4>3. counter \in DOMAIN snaps' /\ snaps'[counter] = file
        BY <3>1, <4>1, <4>2, WriteMeans
      <4> QED
        BY <4>1, <4>3
    <3>3. File(counter).bin = op.snap
      BY <3>1 DEF OpInv, File
    <3>4. /\ op'.at = "mark" /\ op'.snap = op.snap
          /\ op'.snap \in Snapshot /\ op'.snap.mem = mem' /\ counter' = counter
      BY <2>2, <2>5, <3>1 DEF WriteSum
    <3>5. done'
      BY <1>1, <2>5, <3>1 DEF WriteSum
    <3> QED
      BY <3>2, <3>3, <3>4, <3>5 DEF OpInv
  <2>6. ASSUME MarkSnapshot
        PROVE  OpInv'
    <3>1. op.at = "mark" /\ op.at # "idle"
      BY <2>6 DEF MarkSnapshot
    <3>2. /\ op'.at = "tmp" /\ op'.snap = op.snap
          /\ op'.snap \in Snapshot /\ op'.snap.mem = mem' /\ counter' = counter
          /\ snaps' = snaps
      BY <2>2, <2>6, <3>1 DEF MarkSnapshot
    <3>3. done'
      BY <1>1, <2>6, <3>1, EntryKinds, LogsType DEF MarkSnapshot
    <3> QED
      BY <3>1, <3>2, <3>3 DEF OpInv
  <2>7. ASSUME CreateTmp
        PROVE  OpInv'
    <3>1. /\ op.at = "tmp" /\ op.at # "idle" /\ wal' = wal
          /\ counter' = counter /\ snaps' = snaps
      BY <2>7 DEF CreateTmp
    <3>2. done'
      BY <1>1, <3>1
    <3>3. CASE op' = Idle
      BY <1>2, <3>2, <3>3
    <3>4. CASE Reaches("rename")
      <4>1. /\ op'.at = "rename" /\ op'.snap = op.snap
            /\ op'.snap \in Snapshot /\ op'.snap.mem = mem'
        BY <2>2, <2>7, <3>1, <3>4 DEF CreateTmp
      <4> QED
        BY <3>1, <3>2, <4>1 DEF OpInv
    <3> QED
      BY <2>7, <3>3, <3>4 DEF CreateTmp
  <2>8. ASSUME RenameTmp
        PROVE  OpInv'
    <3>1. op.at = "rename" /\ op.at # "idle"
      BY <2>8 DEF RenameTmp
    <3>2. /\ op'.at = "finish" /\ op'.snap = op.snap
          /\ op'.snap \in Snapshot /\ op'.snap.mem = mem' /\ counter' = counter
          /\ snaps' = snaps
      BY <2>2, <2>8, <3>1 DEF RenameTmp
    <3>3. wal' = EmptyWal /\ EmptyWal.file = "whole"
      BY <2>8 DEF RenameTmp, EmptyWal, NoWal
    <3> QED
      BY <3>1, <3>2, <3>3 DEF OpInv
  <2>9. ASSUME FinishSnapshot \/ SnapshotFails
        PROVE  OpInv'
    <3>1. op' = Idle /\ wal' = wal /\ op.at # "idle"
      BY <2>9 DEF FinishSnapshot, SnapshotFails, disk
    <3> QED
      BY <1>1, <1>2, <3>1
  <2> QED
    BY <1>8, <2>1, <2>3, <2>4, <2>5, <2>6, <2>7, <2>8, <2>9 DEF TakeSnapshot
<1>9. ASSUME Recover
      PROVE  OpInv'
  <2>1. ~up /\ op' = op
    BY <1>9 DEF Recover
  <2>2. op' = Idle
    BY <1>1, <2>1 DEF OpInv
  <2>3. wal'.file = "whole"
    BY <1>9, TypeStep DEF Recover, TypeInv, TypeOK
  <2> QED
    BY <1>2, <2>2, <2>3
<1>10. ASSUME Crash
       PROVE  OpInv'
  <2>1. wal'.file = "whole"
    BY <1>1, <1>10, CutAppendMeans, EntriesDueType, AppendedType
       DEF Crash, SameEntries
  <2> QED
    BY <1>2, <1>10, <2>1 DEF Crash
<1>11. ASSUME CrashAtBoot
       PROVE  OpInv'
  <2>1. ~up /\ op' = op
    BY <1>11 DEF CrashAtBoot, process
  <2>2. op' = Idle
    BY <1>1, <2>1 DEF OpInv
  <2>3. wal'.file # "absent"
    BY <1>1, <1>11, CutAppendMeans, EmptyWalType
       DEF CrashAtBoot, SameEntries, EmptyWal, NoWal, WalFile
  <2> QED
    BY <1>2, <2>2, <2>3
<1>12. ASSUME RestartAppServer \/ UNCHANGED vars
       PROVE  OpInv'
  BY <1>12 DEF RestartAppServer, vars, process, disk, OpInv
<1> QED
  BY <1>4, <1>5, <1>6, <1>7, <1>8, <1>9, <1>10, <1>11, <1>12 DEF Next

(***************************************************************************)
(* What recovery would give.                                               *)
(***************************************************************************)
LEMMA ReplayLog ==
  ASSUME NEW m \in Memory, NEW w \in WalFile
  PROVE  /\ Replay(m, w).log \in Seq(Hashes)
         /\ m.log \in Seq(Hashes)
         /\ Len(w.commits) \in Nat
         /\ Len(Replay(m, w).log) = Len(m.log) + Len(w.commits)
         /\ IsPrefix(m.log, Replay(m, w).log)
         /\ \A i \in 1 .. Len(m.log) : Replay(m, w).log[i] = m.log[i]
         /\ \A i \in 1 .. Len(w.commits) :
              Replay(m, w).log[Len(m.log) + i] = w.commits[i].hash
<1> DEFINE tail == CommitsOf(w)
           log == m.log
<1>1. /\ log \in Seq(Hashes) /\ tail \in Seq(Hashes)
      /\ Len(tail) = Len(w.commits)
      /\ \A i \in 1 .. Len(w.commits) : tail[i] = w.commits[i].hash
  BY CommitsOfType, MemoryMeans
<1>2. Replay(m, w).log = log \o tail
  BY ReplayType
<1> HIDE DEF tail, log
<1>3. /\ log \o tail \in Seq(Hashes) /\ Len(tail) \in Nat
      /\ IsPrefix(log, log \o tail)
      /\ Len(log \o tail) = Len(log) + Len(tail)
      /\ \A i \in 1 .. Len(log) : (log \o tail)[i] = log[i]
      /\ \A i \in 1 .. Len(tail) : (log \o tail)[Len(log) + i] = tail[i]
  <2> log \in Seq(Hashes) /\ tail \in Seq(Hashes)
    BY <1>1
  <2>1. log \o tail \in Seq(Hashes) /\ IsPrefix(log, log \o tail)
    BY PrefixConcat
  <2>2. /\ Len(log \o tail) = Len(log) + Len(tail)
        /\ \A i \in 1 .. Len(log) : (log \o tail)[i] = log[i]
        /\ \A i \in 1 .. Len(tail) : (log \o tail)[Len(log) + i] = tail[i]
    OBVIOUS
  <2>3. Len(tail) \in Nat
    BY LenProperties
  <2> QED
    BY <2>1, <2>2, <2>3
<1>4. \A i \in 1 .. Len(w.commits) :
        Replay(m, w).log[Len(log) + i] = w.commits[i].hash
  BY <1>1, <1>2, <1>3
<1>5. /\ Replay(m, w).log \in Seq(Hashes)
      /\ Len(w.commits) \in Nat
      /\ Len(Replay(m, w).log) = Len(log) + Len(w.commits)
      /\ IsPrefix(log, Replay(m, w).log)
      /\ \A i \in 1 .. Len(log) : Replay(m, w).log[i] = log[i]
  BY <1>1, <1>2, <1>3
<1> QED
  BY <1>1, <1>4, <1>5 DEF log

\* A log file with the same commits, or with one more.
LEMMA ReplaySame ==
  ASSUME NEW m \in Memory, NEW w \in WalFile, NEW v \in WalFile,
         v.commits = w.commits
  PROVE  Replay(m, v).log = Replay(m, w).log
<1>1. CommitsOf(v) = CommitsOf(w)
  BY DEF CommitsOf
<1>2. Replay(m, v).log = m.log \o CommitsOf(v)
  BY ReplayType
<1>3. Replay(m, w).log = m.log \o CommitsOf(w)
  BY ReplayType
<1> QED
  BY <1>1, <1>2, <1>3

LEMMA ReplayMore ==
  ASSUME NEW m \in Memory, NEW w \in WalFile, NEW v \in WalFile,
         NEW h \in Hashes, NEW n \in Nat,
         v.commits = Append(w.commits, [hash |-> h, index |-> n])
  PROVE  /\ Replay(m, v).log = Append(Replay(m, w).log, h)
         /\ Len(v.commits) = Len(w.commits) + 1
         /\ v.commits[Len(w.commits) + 1] = [hash |-> h, index |-> n]
         /\ \A i \in 1 .. Len(w.commits) : v.commits[i] = w.commits[i]
<1>1. w.commits \in Seq([hash : Hashes, index : Nat])
  BY DEF WalFile
<1>2. /\ Len(v.commits) = Len(w.commits) + 1
      /\ v.commits[Len(w.commits) + 1] = [hash |-> h, index |-> n]
      /\ \A i \in 1 .. Len(w.commits) : v.commits[i] = w.commits[i]
  BY <1>1
<1> DEFINE old == CommitsOf(w)
           new == CommitsOf(v)
           log == m.log
<1>3. /\ old \in Seq(Hashes) /\ Len(old) = Len(w.commits)
      /\ \A i \in 1 .. Len(w.commits) : old[i] = w.commits[i].hash
  BY CommitsOfType
<1>4. /\ new \in Seq(Hashes) /\ Len(new) = Len(v.commits)
      /\ \A i \in 1 .. Len(v.commits) : new[i] = v.commits[i].hash
  BY CommitsOfType
<1>5. /\ log \in Seq(Hashes)
      /\ Replay(m, v).log = log \o new /\ Replay(m, w).log = log \o old
  BY ReplayType, MemoryMeans
<1> HIDE DEF old, new, log
<1>6. new = Append(old, h)
  <2>1. /\ Len(new) = Len(old) + 1 /\ new[Len(old) + 1] = h
        /\ Len(old) \in Nat
    BY <1>1, <1>2, <1>3, <1>4
  <2>2. \A i \in 1 .. Len(old) : new[i] = old[i]
    BY <1>1, <1>2, <1>3, <1>4
  <2>3. /\ Append(old, h) \in Seq(Hashes)
        /\ Len(Append(old, h)) = Len(new)
        /\ \A i \in 1 .. Len(new) : Append(old, h)[i] = new[i]
    BY <1>3, <2>1, <2>2
  <2> QED
    BY <1>4, <2>3, SeqEqual
<1>7. log \o new = Append(log \o old, h)
  BY <1>3, <1>5, <1>6, ConcatAppend
<1> QED
  BY <1>2, <1>5, <1>7

\* A log file in which v has the commits of w, and reads no better; and one
\* in which it has one more.
SameCommits(w, v) ==
  v.commits = w.commits /\ (Readable(v) => Readable(w))

OneMore(w, v, h, n) ==
  /\ v.commits = Append(w.commits, [hash |-> h, index |-> n])
  /\ Readable(v) => Readable(w)

LEMMA SameEntriesRead ==
  ASSUME NEW w, NEW v, SameEntries(w, v)
  PROVE  SameCommits(w, v)
  BY DEF SameEntries, SameCommits, Readable

LEMMA PlainAppend ==
  ASSUME NEW w \in WalFile, NEW e,
         AppendEntry(w, e).commits = w.commits,
         AppendEntry(w, e).file = w.file, AppendEntry(w, e).tail = w.tail
  PROVE  SameCommits(w, Appended(w, e))
  BY AppendedMeans, SameEntriesRead DEF SameCommits, Readable

LEMMA AppendsCommit ==
  ASSUME NEW w \in WalFile, NEW e \in Entries
  PROVE  /\ \A h \in Hashes : e = BlockInserted(h) =>
              SameCommits(w, Appended(w, e))
         /\ \A v \in Nat : e = ViewChanged(v) => SameCommits(w, Appended(w, e))
         /\ e = SnapshotTaken => SameCommits(w, Appended(w, e))
         /\ \A h \in Hashes, n \in Nat : e = BlockCommitted(h, n) =>
              \/ SameCommits(w, Appended(w, e)) /\ Appended(w, e).tail = "torn"
              \/ OneMore(w, Appended(w, e), h, n) /\ w.tail = "clean"
<1>1. /\ AppendEntry(w, e).file = w.file
      /\ AppendEntry(w, e).tail = w.tail
  BY EntryType
<1>2. ASSUME NEW h \in Hashes, e = BlockInserted(h)
      PROVE  SameCommits(w, Appended(w, e))
  <2>1. AppendEntry(w, e) = [w EXCEPT !.blocks = @ \cup {h}]
    BY <1>2, AppendEntryMeans
  <2>2. AppendEntry(w, e).commits = w.commits
    BY <2>1 DEF WalFile
  <2> QED
    BY <1>1, <2>2, PlainAppend
<1>3. ASSUME NEW v \in Nat, e = ViewChanged(v)
      PROVE  SameCommits(w, Appended(w, e))
  <2>1. AppendEntry(w, e) = [w EXCEPT !.view = v]
    BY <1>3, AppendEntryMeans
  <2>2. AppendEntry(w, e).commits = w.commits
    BY <2>1 DEF WalFile
  <2> QED
    BY <1>1, <2>2, PlainAppend
<1>4. ASSUME e = SnapshotTaken
      PROVE  SameCommits(w, Appended(w, e))
  BY <1>1, <1>4, AppendEntryMeans, PlainAppend
<1>5. ASSUME NEW h \in Hashes, NEW n \in Nat, e = BlockCommitted(h, n)
      PROVE  \/ SameCommits(w, Appended(w, e)) /\ Appended(w, e).tail = "torn"
             \/ OneMore(w, Appended(w, e), h, n) /\ w.tail = "clean"
  <2>1. AppendEntry(w, e) =
          [w EXCEPT !.commits = Append(@, [hash |-> h, index |-> n])]
    BY <1>5, AppendEntryMeans
  <2>2. AppendEntry(w, e).commits =
          Append(w.commits, [hash |-> h, index |-> n])
    BY <2>1 DEF WalFile
  <2>3. CASE w.tail = "clean" /\ Appended(w, e) = AppendEntry(w, e)
    BY <1>1, <2>2, <2>3 DEF OneMore, Readable
  <2>4. CASE SameEntries(w, Appended(w, e)) /\ Appended(w, e).tail = "torn"
    BY <2>4, SameEntriesRead
  <2> QED
    BY <2>3, <2>4, AppendedMeans
<1> QED
  BY <1>2, <1>3, <1>4, <1>5

LEMMA BaseMemory ==
  TypeInv /\ Loadable =>
    /\ Base \in Memory /\ wal \in WalFile /\ Recovered = Replay(Base, wal)
    /\ Recovered.log \in Seq(Hashes)
<1> SUFFICES ASSUME TypeInv, Loadable
             PROVE  /\ Base \in Memory /\ wal \in WalFile
                    /\ Recovered = Replay(Base, wal)
                    /\ Recovered.log \in Seq(Hashes)
  OBVIOUS
<1>1. Base \in Memory /\ wal \in WalFile
  BY BaseType DEF TypeInv, TypeOK
<1> QED
  BY <1>1, ReplayLog DEF Recovered

LEMMA BaseMemoryNext ==
  TypeInv' /\ Loadable' =>
    /\ Base' \in Memory /\ wal' \in WalFile
    /\ Recovered' = Replay(Base', wal')
    /\ Recovered'.log \in Seq(Hashes)
<1>1. (TypeInv /\ Loadable =>
         /\ Base \in Memory /\ wal \in WalFile /\ Recovered = Replay(Base, wal)
         /\ Recovered.log \in Seq(Hashes))'
  BY BaseMemory, PTL
<1> QED
  BY <1>1

LEMMA SameSnapshots ==
  ASSUME snaps' = snaps
  PROVE  (Loadable' <=> Loadable) /\ Base' = Base /\ Newest' = Newest
  BY DEF Loadable, Base, Newest

LEMMA SameRecovered ==
  ASSUME TypeInv, TypeInv', snaps' = snaps, SameCommits(wal, wal'),
         Recoverable'
  PROVE  Recoverable /\ Recovered'.log = Recovered.log
<1>1. Loadable /\ Base' = Base /\ Loadable'
  BY SameSnapshots DEF Recoverable
<1>2. Recoverable
  BY <1>1 DEF Recoverable, SameCommits
<1>3. /\ Base \in Memory /\ wal \in WalFile /\ wal' \in WalFile
      /\ Recovered = Replay(Base, wal) /\ Recovered' = Replay(Base, wal')
  BY <1>1, BaseMemory, BaseMemoryNext
<1>4. Replay(Base, wal').log = Replay(Base, wal).log
  BY <1>3, ReplaySame DEF SameCommits
<1> QED
  BY <1>2, <1>3, <1>4

LEMMA MoreRecovered ==
  ASSUME TypeInv, TypeInv', snaps' = snaps, NEW h \in Hashes, NEW n \in Nat,
         OneMore(wal, wal', h, n), Recoverable'
  PROVE  /\ Recoverable /\ Recovered'.log = Append(Recovered.log, h)
         /\ Recovered.log \in Seq(Hashes) /\ Len(Recovered.log) = n
<1>1. Loadable /\ Base' = Base /\ Loadable'
  BY SameSnapshots DEF Recoverable
<1>2. /\ Base \in Memory /\ wal \in WalFile /\ wal' \in WalFile
      /\ Recovered = Replay(Base, wal) /\ Recovered' = Replay(Base, wal')
  BY <1>1, BaseMemory, BaseMemoryNext
<1>3. wal'.commits = Append(wal.commits, [hash |-> h, index |-> n])
  BY DEF OneMore
<1>4. /\ Replay(Base, wal').log = Append(Replay(Base, wal).log, h)
      /\ Len(wal'.commits) = Len(wal.commits) + 1
      /\ wal'.commits[Len(wal.commits) + 1] = [hash |-> h, index |-> n]
      /\ \A i \in 1 .. Len(wal.commits) : wal'.commits[i] = wal.commits[i]
  BY <1>2, <1>3, ReplayMore
<1>5. /\ Replay(Base, wal).log \in Seq(Hashes)
      /\ Len(wal.commits) \in Nat /\ Len(Base.log) \in Nat
      /\ Len(Replay(Base, wal).log) = Len(Base.log) + Len(wal.commits)
  <2>1. /\ Replay(Base, wal).log \in Seq(Hashes)
        /\ Base.log \in Seq(Hashes)
        /\ Len(wal.commits) \in Nat
        /\ Len(Replay(Base, wal).log) = Len(Base.log) + Len(wal.commits)
    BY <1>2, ReplayLog
  <2>2. Len(Base.log) \in Nat
    BY <2>1, LenProperties
  <2> QED
    BY <2>1, <2>2
<1>6. /\ DOMAIN wal.commits = 1 .. Len(wal.commits)
      /\ DOMAIN wal'.commits = 1 .. Len(wal'.commits)
  BY <1>2 DEF WalFile
<1>7. \A i \in DOMAIN wal'.commits :
        wal'.commits[i].index = Len(Base.log) + i - 1
  BY <1>1 DEF Recoverable
<1>8. n = Len(Base.log) + Len(wal.commits)
  <2>1. Len(wal.commits) + 1 \in DOMAIN wal'.commits
    BY <1>4, <1>5, <1>6
  <2>2. wal'.commits[Len(wal.commits) + 1].index =
          Len(Base.log) + (Len(wal.commits) + 1) - 1
    BY <1>7, <2>1
  <2>3. wal'.commits[Len(wal.commits) + 1].index = n
    BY <1>4
  <2> DEFINE b == Len(Base.log)
             k == Len(wal.commits)
  <2>4. b \in Nat /\ k \in Nat /\ n = b + (k + 1) - 1
    BY <1>5, <2>2, <2>3
  <2> HIDE DEF b, k
  <2>5. n = b + k
    BY <2>4
  <2> QED
    BY <2>5 DEF b, k
<1>9. ASSUME NEW i \in DOMAIN wal.commits
      PROVE  wal.commits[i].index = Len(Base.log) + i - 1
  <2>1. i \in 1 .. Len(wal.commits)
    BY <1>6
  <2>2. i \in DOMAIN wal'.commits
    BY <1>4, <1>5, <1>6, <2>1
  <2>3. wal'.commits[i] = wal.commits[i]
    BY <1>4, <2>1
  <2> QED
    BY <1>7, <2>2, <2>3
<1>10. Recoverable
  BY <1>1, <1>9 DEF Recoverable, OneMore
<1> QED
  BY <1>2, <1>4, <1>5, <1>8, <1>10

\* The log that a recovery gives begins with that of the memory, when the
\* newest snapshot is one of the memory.
LEMMA SnapshotRecovered ==
  ASSUME TypeInv', Recoverable', DOMAIN snaps' # {},
         snaps'[Newest'].bin.mem = mem
  PROVE  IsPrefix(mem.log, Recovered'.log)
<1>1. Base' = mem
  BY DEF Base
<1>2. /\ mem \in Memory /\ wal' \in WalFile
      /\ Recovered' = Replay(mem, wal')
  BY <1>1, BaseMemoryNext DEF Recoverable
<1> QED
  BY <1>2, ReplayLog

LEMMA WrittenIsNewest ==
  ASSUME TypeInv, up, NEW file \in SnapshotFile, Writes(file)
  PROVE  DOMAIN snaps' # {} /\ Newest' = counter /\ snaps'[Newest'] = file
<1>1. /\ DOMAIN snaps' \subseteq Nat /\ counter \in DOMAIN snaps'
      /\ \A id \in DOMAIN snaps' : id <= counter
      /\ snaps'[counter] = file
  BY WritesType
<1>2. Newest' = counter
  BY <1>1, GreatestIsMax DEF Newest
<1> QED
  BY <1>1, <1>2

LEMMA FinishKeepsNewest ==
  ASSUME TypeInv, OpInv, FinishSnapshot
  PROVE  /\ up /\ DOMAIN snaps # {} /\ Newest = counter
         /\ DOMAIN snaps' # {} /\ Newest' = Newest
         /\ snaps'[Newest'] = snaps[Newest]
<1>1. up /\ DOMAIN snaps # {} /\ Newest = counter
  BY NewestIsCounter DEF TypeInv, TypeOK, Idle, OpInv, FinishSnapshot
<1>2. snaps' = [id \in Kept |-> snaps[id]]
  BY DEF FinishSnapshot
<1>3. DOMAIN snaps' = Kept /\ Kept \subseteq DOMAIN snaps /\ Newest \in Kept
  BY <1>1, <1>2, KeptMeans
<1>4. DOMAIN snaps' \subseteq Nat /\ \A id \in DOMAIN snaps' : id <= Newest
  BY <1>1, <1>3, NewestMeans DEF TypeInv, TypeOK
<1>5. Newest' = Newest
  BY <1>3, <1>4, GreatestIsMax DEF Newest
<1> QED
  BY <1>1, <1>2, <1>3, <1>5

\* Recovery reads back no commit that the memory does not have.
LEMMA ReadsBack ==
  TypeInv /\ LogInv /\ up /\ Recoverable => IsPrefix(Recovered.log, mem.log)
<1> SUFFICES ASSUME TypeInv, LogInv, up, Recoverable
             PROVE  IsPrefix(Recovered.log, mem.log)
  OBVIOUS
<1> DEFINE log == mem.log
           back == Recovered.log
           base == Base.log
           b == Len(Base.log)
           commits == wal.commits
           k == Len(wal.commits)
<1>1. /\ Base \in Memory /\ wal \in WalFile /\ Recovered = Replay(Base, wal)
      /\ Loadable
  BY BaseMemory DEF Recoverable
<1>2. /\ back \in Seq(Hashes) /\ base \in Seq(Hashes) /\ k \in Nat
      /\ Len(back) = b + k
      /\ \A i \in 1 .. b : back[i] = base[i]
      /\ \A i \in 1 .. k : back[b + i] = commits[i].hash
  BY <1>1, ReplayLog
<1>3. log \in Seq(Hashes) /\ Len(log) \in Nat /\ b \in Nat
  <2>1. b \in Nat
    BY <1>2, LenProperties
  <2> QED
    BY <2>1, ChoicesType
<1>4. IsPrefix(base, log)
  <2>1. CASE DOMAIN snaps = {}
    <3>1. base = <<>>
      BY <2>1 DEF Base, FreshMemory
    <3> QED
      BY <1>3, <3>1, PrefixEmpty
  <2>2. CASE DOMAIN snaps # {}
    <3>1. snaps[Newest].bin # None /\ Base = snaps[Newest].bin.mem
      BY <1>1, <2>2 DEF Loadable, Base
    <3> QED
      BY <2>2, <3>1 DEF LogInv, NewestHeld
  <2> QED
    BY <2>1, <2>2
<1>5. b <= Len(log) /\ \A i \in 1 .. b : base[i] = log[i]
  BY <1>2, <1>3, <1>4, PrefixMeans
<1>6. ASSUME NEW i \in 1 .. k
      PROVE  b + i <= Len(log) /\ log[b + i] = commits[i].hash
  <2>1. i \in DOMAIN commits
    BY <1>1 DEF WalFile
  <2>2. commits[i].index = b + i - 1
    BY <2>1 DEF Recoverable
  <2>3. commits[i].index < Len(log) /\ log[commits[i].index + 1] = commits[i].hash
    BY <2>1 DEF LogInv, CommitsHeld
  <2> HIDE DEF b, k, log, commits
  <2>4. (b + i - 1) + 1 = b + i /\ (b + i - 1 < Len(log) => b + i <= Len(log))
    BY <1>2, <1>3
  <2> QED
    BY <2>2, <2>3, <2>4
<1> HIDE DEF log, back, base, b, commits, k
<1>7. Len(back) <= Len(log)
  <2>1. CASE k = 0
    BY <1>2, <1>3, <1>5, <2>1
  <2>2. CASE k # 0
    <3>1. k \in 1 .. k
      BY <1>2, <2>2
    <3> QED
      BY <1>2, <1>6, <3>1
  <2> QED
    BY <2>1, <2>2
<1>8. ASSUME NEW j \in 1 .. Len(back)
      PROVE  back[j] = log[j]
  <2>1. CASE j <= b
    BY <1>2, <1>3, <1>5, <2>1
  <2>2. CASE j > b
    <3>1. j - b \in 1 .. k /\ b + (j - b) = j
      BY <1>2, <1>3, <2>2
    <3> QED
      BY <1>2, <1>6, <3>1
  <2> QED
    BY <1>2, <1>3, <2>1, <2>2
<1>9. IsPrefix(back, log)
  BY <1>2, <1>3, <1>7, <1>8, PrefixMeans
<1> QED
  BY <1>9 DEF back, log

LEMMA LogsPlain ==
  ASSUME TypeInv, NEW e \in Entries, Logs(e),
         \/ \E h \in Hashes : e = BlockInserted(h)
         \/ \E v \in Nat : e = ViewChanged(v)
         \/ e = SnapshotTaken
  PROVE  SameCommits(wal, wal')
<1>1. wal \in WalFile
  BY DEF TypeInv, TypeOK
<1>2. CASE wal' = Appended(wal, e)
  BY <1>1, <1>2, AppendsCommit
<1>3. CASE wal' \in CutAppend(wal)
  BY <1>1, <1>3, CutAppendMeans, SameEntriesRead
<1> QED
  BY <1>2, <1>3 DEF Logs

LEMMA AnyAppend ==
  ASSUME NEW w \in WalFile, NEW e \in Entries
  PROVE  \/ SameCommits(w, Appended(w, e))
         \/ \E h \in Hashes, n \in Nat : OneMore(w, Appended(w, e), h, n)
  BY AppendsCommit DEF Entries

\* What a crash or a recovery does to the log file.
LEMMA CrashCommits ==
  ASSUME TypeInv, Crash
  PROVE  \/ SameCommits(wal, wal')
         \/ \E h \in Hashes, n \in Nat : OneMore(wal, wal', h, n)
<1>1. wal \in WalFile
  BY DEF TypeInv, TypeOK
<1>2. CASE wal' \in CutAppend(wal)
  BY <1>1, <1>2, CutAppendMeans, SameEntriesRead
<1>3. ASSUME NEW e \in EntriesDue, wal' = Appended(wal, e)
      PROVE  \/ SameCommits(wal, wal')
             \/ \E h \in Hashes, n \in Nat : OneMore(wal, wal', h, n)
  BY <1>1, <1>3, AnyAppend, EntriesDueType
<1> QED
  BY <1>2, <1>3 DEF Crash

LEMMA BootCommits ==
  ASSUME TypeInv, OpInv, CrashAtBoot
  PROVE  SameCommits(wal, wal')
<1>1. wal = NoWal /\ EmptyWal \in WalFile
  BY EmptyWalType DEF OpInv, CrashAtBoot
<1>2. Readable(wal) /\ wal.commits = <<>>
  BY <1>1 DEF Readable, NoWal
<1>3. CASE wal' = [wal EXCEPT !.file = "partial"]
  BY <1>1, <1>2, <1>3 DEF SameCommits, NoWal
<1>4. CASE wal' \in CutAppend(EmptyWal)
  <2>1. SameEntries(EmptyWal, wal')
    BY <1>1, <1>4, CutAppendMeans
  <2>2. wal'.commits = <<>>
    BY <2>1 DEF SameEntries, EmptyWal, NoWal
  <2> QED
    BY <1>2, <2>2 DEF SameCommits
<1> QED
  BY <1>3, <1>4 DEF CrashAtBoot

LEMMA RecoverCommits ==
  ASSUME TypeInv, OpInv, Recover
  PROVE  SameCommits(wal, wal')
<1> DEFINE file == LogFile(wal)
<1>1. wal \in WalFile /\ Readable(wal)
  BY DEF TypeInv, TypeOK, Recover, Recoverable
<1>2. file \in WalFile /\ file.commits = wal.commits
  BY <1>1, EmptyWalType DEF LogFile, OpInv, EmptyWal, NoWal
<1>3. wal' \in {file, Appended(file, BlockInserted(0))}
  BY DEF Recover
<1> HIDE DEF file
<1>4. Appended(file, BlockInserted(0)).commits = file.commits
  <2>1. 0 \in Hashes /\ BlockInserted(0) \in Entries
    BY EntryKinds DEF Hashes
  <2> QED
    BY <1>2, <2>1, AppendsCommit DEF SameCommits
<1> QED
  BY <1>1, <1>2, <1>3, <1>4 DEF SameCommits

(***************************************************************************)
(* One step, as the log of the memory and the log that a recovery gives    *)
(* see it: both only grow while the process runs, a recovery takes the one *)
(* for the other, and what a recovery gives comes from one of them.        *)
(***************************************************************************)
MemoryGrows ==
  /\ up /\ up' => IsPrefix(mem.log, mem'.log)
  /\ ~up /\ up' => Recoverable /\ mem'.log = Recovered.log

RecoversFrom ==
  Recoverable' => \/ Recoverable /\ IsPrefix(Recovered.log, Recovered'.log)
                  \/ up /\ IsPrefix(mem.log, Recovered'.log)

LEMMA SameRecovers ==
  ASSUME TypeInv, TypeInv', snaps' = snaps, SameCommits(wal, wal')
  PROVE  RecoversFrom
<1> SUFFICES ASSUME Recoverable'
             PROVE  Recoverable /\ IsPrefix(Recovered.log, Recovered'.log)
  BY DEF RecoversFrom
<1>1. Recoverable /\ Recovered'.log = Recovered.log
  BY SameRecovered
<1>2. Recovered.log \in Seq(Hashes)
  BY <1>1, BaseMemory DEF Recoverable
<1> QED
  BY <1>1, <1>2, PrefixRefl

LEMMA MoreRecovers ==
  ASSUME TypeInv, TypeInv', snaps' = snaps,
         NEW h \in Hashes, NEW n \in Nat, OneMore(wal, wal', h, n)
  PROVE  RecoversFrom
<1> SUFFICES ASSUME Recoverable'
             PROVE  Recoverable /\ IsPrefix(Recovered.log, Recovered'.log)
  BY DEF RecoversFrom
<1>1. /\ Recoverable /\ Recovered'.log = Append(Recovered.log, h)
      /\ Recovered.log \in Seq(Hashes)
  BY MoreRecovered
<1>2. IsPrefix(Recovered.log, Append(Recovered.log, h))
  BY <1>1, PrefixAppend
<1> QED
  BY <1>1, <1>2

LEMMA SnapshotRecovers ==
  ASSUME TypeInv', up, DOMAIN snaps' # {}, snaps'[Newest'].bin.mem = mem
  PROVE  RecoversFrom
  BY SnapshotRecovered DEF RecoversFrom

LEMMA SameMemoryGrows ==
  ASSUME TypeInv, up, mem'.log = mem.log
  PROVE  MemoryGrows
  BY ChoicesType, PrefixRefl DEF MemoryGrows

LEMMA NeverUp ==
  ASSUME ~up'
  PROVE  MemoryGrows
  BY DEF MemoryGrows

LEMMA LogStep ==
  ASSUME TypeInv, TypeInv', OpInv, [Next]_vars
  PROVE  MemoryGrows /\ RecoversFrom
<1>1. wal \in WalFile /\ mem.log \in Seq(Hashes)
  BY ChoicesType DEF TypeInv, TypeOK
<1>2. SameCommits(wal, wal)
  BY DEF SameCommits
<1>3. op.at # "idle" => up
  BY DEF TypeInv, TypeOK, Idle
<1>4. ASSUME NEW h \in Arriving, InsertBlock(h)
      PROVE  MemoryGrows /\ RecoversFrom
  <2>1. BlockInserted(h) \in Entries /\ h \in Hashes
    BY ChoicesType, EntryKinds DEF Hashes
  <2>2. SameCommits(wal, wal')
    BY <1>4, <2>1, LogsPlain DEF InsertBlock
  <2>3. up /\ mem'.log = mem.log /\ snaps' = snaps
    BY <1>4, MemoryMeans DEF InsertBlock, Ready, TypeInv, TypeOK
  <2> QED
    BY <2>2, <2>3, SameRecovers, SameMemoryGrows
<1>5. ASSUME NEW v \in NextView, AdvanceView(v)
      PROVE  MemoryGrows /\ RecoversFrom
  <2>1. ViewChanged(v) \in Entries /\ v \in Nat
    BY ChoicesType, EntryKinds
  <2>2. SameCommits(wal, wal')
    BY <1>5, <2>1, LogsPlain DEF AdvanceView
  <2>3. up /\ mem'.log = mem.log /\ snaps' = snaps
    BY <1>5, MemoryMeans DEF AdvanceView, Ready, TypeInv, TypeOK
  <2> QED
    BY <2>2, <2>3, SameRecovers, SameMemoryGrows
<1>6. ASSUME NEW h \in Committing, CommitBlock(h)
      PROVE  MemoryGrows /\ RecoversFrom
  <2>1. /\ h \in Hashes /\ Len(mem.log) \in Nat
        /\ BlockCommitted(h, Len(mem.log)) \in Entries
    BY ChoicesType, EntryKinds
  <2>2. /\ snaps' = snaps /\ Logs(BlockCommitted(h, Len(mem.log)))
        /\ mem' = [mem EXCEPT !.log = Append(@, h)]
    BY <1>6 DEF CommitBlock
  <2>3. MemoryGrows
    <3>1. mem'.log = Append(mem.log, h)
      BY <2>2, MemoryMeans DEF TypeInv, TypeOK
    <3>2. up
      BY <1>6 DEF CommitBlock, Ready
    <3> QED
      BY <1>1, <2>1, <3>1, <3>2, PrefixAppend DEF MemoryGrows
  <2>4. CASE wal' = Appended(wal, BlockCommitted(h, Len(mem.log)))
    <3>1. \/ SameCommits(wal, wal')
          \/ OneMore(wal, wal', h, Len(mem.log))
      BY <1>1, <2>1, <2>4, AppendsCommit
    <3> QED
      BY <2>1, <2>2, <2>3, <3>1, SameRecovers, MoreRecovers
  <2>5. CASE wal' \in CutAppend(wal)
    <3>1. SameCommits(wal, wal')
      BY <1>1, <2>5, CutAppendMeans, SameEntriesRead
    <3> QED
      BY <2>2, <2>3, <3>1, SameRecovers
  <2> QED
    BY <2>2, <2>4, <2>5 DEF Logs
<1>7. ASSUME AttachApp \/ ImportCatchup
      PROVE  MemoryGrows /\ RecoversFrom
  <2>1. wal' = wal /\ snaps' = snaps /\ up
    BY <1>7 DEF AttachApp, ImportCatchup, disk, Ready
  <2>2. RecoversFrom
    BY <1>2, <2>1, SameRecovers
  <2>3. CASE AttachApp
    BY <2>1, <2>2, <2>3, SameMemoryGrows DEF AttachApp
  <2>4. CASE ImportCatchup
    <3>1. mem.log = <<>>
      BY <2>4 DEF ImportCatchup
    <3>2. mem'.log \in Seq(Hashes)
      BY MemoryMeans DEF TypeInv, TypeOK
    <3>3. IsPrefix(mem.log, mem'.log)
      BY <3>1, <3>2, PrefixEmpty
    <3> QED
      BY <2>1, <2>2, <3>3 DEF MemoryGrows
  <2> QED
    BY <1>7, <2>3, <2>4
<1>8. ASSUME TakeSnapshot
      PROVE  MemoryGrows /\ RecoversFrom
  <2>1. up
    BY <1>3, <1>8
       DEF TakeSnapshot, BeginSnapshot, WriteBin, CreateSum, WriteSum,
           MarkSnapshot, CreateTmp, RenameTmp, FinishSnapshot, SnapshotFails,
           Ready
  <2>2. mem' = mem
    BY <1>8
       DEF TakeSnapshot, BeginSnapshot, WriteBin, CreateSum, WriteSum,
           MarkSnapshot, CreateTmp, RenameTmp, FinishSnapshot, SnapshotFails,
           SnapshotFrame
  <2>3. MemoryGrows
    BY <2>1, <2>2, SameMemoryGrows
  <2>4. ASSUME NEW file \in SnapshotFile, Writes(file)
        PROVE  DOMAIN snaps' # {} /\ snaps'[Newest'] = file
    BY <2>1, <2>4, WrittenIsNewest
  <2>5. op.snap \in Snapshot \cup {None}
    BY DEF TypeInv, TypeOK
  <2>6. CASE BeginSnapshot
    <3>1. snaps'[Newest'].bin = None /\ DOMAIN snaps' # {}
      BY <2>4, <2>6, FileType DEF BeginSnapshot
    <3> QED
      BY <2>3, <3>1 DEF RecoversFrom, Recoverable, Loadable
  <2>7. CASE WriteBin
    <3>1. snaps'[Newest'].bin = op.snap /\ DOMAIN snaps' # {}
      BY <2>4, <2>5, <2>7, FileType DEF WriteBin
    <3>2. op.snap.mem = mem
      BY <2>7 DEF OpInv, WriteBin
    <3> QED
      BY <2>1, <2>3, <3>1, <3>2, SnapshotRecovers
  <2>8. CASE CreateSum
    <3>1. snaps'[Newest'].sum = "cut" /\ DOMAIN snaps' # {}
      BY <2>4, <2>5, <2>8, FileType DEF CreateSum
    <3> QED
      BY <2>3, <3>1 DEF RecoversFrom, Recoverable, Loadable
  <2>9. CASE WriteSum
    <3>1. /\ snaps'[Newest'].bin = File(counter).bin /\ DOMAIN snaps' # {}
      <4> DEFINE file == [File(counter) EXCEPT !.sum = "whole", !.of = op.snap]
      <4>1. file \in SnapshotFile /\ file.bin = File(counter).bin
        BY <2>5, FileType
      <4>2. Writes(file)
        BY <2>9 DEF WriteSum
      <4> HIDE DEF file
      <4> QED
        BY <2>4, <4>1, <4>2
    <3>2. File(counter).bin = op.snap /\ op.snap.mem = mem
      BY <2>9 DEF OpInv, WriteSum, File
    <3> QED
      BY <2>1, <2>3, <3>1, <3>2, SnapshotRecovers
  <2>10. CASE MarkSnapshot
    <3>1. SameCommits(wal, wal') /\ snaps' = snaps
      BY <2>10, EntryKinds, LogsPlain DEF MarkSnapshot
    <3> QED
      BY <2>3, <3>1, SameRecovers
  <2>11. CASE CreateTmp \/ SnapshotFails
    <3>1. wal' = wal /\ snaps' = snaps
      BY <2>11 DEF CreateTmp, SnapshotFails, disk
    <3> QED
      BY <1>2, <2>3, <3>1, SameRecovers
  <2>12. CASE RenameTmp
    <3>1. /\ snaps' = snaps /\ counter \in DOMAIN snaps
          /\ snaps[counter].bin = op.snap /\ op.snap.mem = mem
      BY <2>12 DEF RenameTmp, OpInv
    <3>2. DOMAIN snaps # {} /\ Newest = counter
      BY <2>1, <3>1, NewestIsCounter
    <3>3. Newest' = Newest
      BY <3>1, SameSnapshots
    <3> QED
      BY <2>1, <2>3, <3>1, <3>2, <3>3, SnapshotRecovers
  <2>13. CASE FinishSnapshot
    <3>1. snaps[counter].bin = op.snap /\ op.snap.mem = mem
      BY <2>13 DEF FinishSnapshot, OpInv
    <3>2. DOMAIN snaps' # {} /\ snaps'[Newest'] = snaps[counter]
      BY <2>13, FinishKeepsNewest
    <3> QED
      BY <2>1, <2>3, <3>1, <3>2, SnapshotRecovers
  <2> QED
    BY <1>8, <2>6, <2>7, <2>8, <2>9, <2>10, <2>11, <2>12, <2>13
       DEF TakeSnapshot
<1>9. ASSUME Recover
      PROVE  MemoryGrows /\ RecoversFrom
  <2>1. /\ ~up /\ Recoverable /\ snaps' = snaps /\ mem' = Recovered
    BY <1>9 DEF Recover
  <2>2. SameCommits(wal, wal')
    BY <1>9, RecoverCommits
  <2> QED
    BY <2>1, <2>2, SameRecovers DEF MemoryGrows
<1>10. ASSUME Crash
       PROVE  MemoryGrows /\ RecoversFrom
  <2>1. ~up' /\ snaps' = snaps
    BY <1>10 DEF Crash
  <2> QED
    BY <1>10, <2>1, CrashCommits, SameRecovers, MoreRecovers, NeverUp
<1>11. ASSUME CrashAtBoot
       PROVE  MemoryGrows /\ RecoversFrom
  <2>1. ~up' /\ snaps' = snaps
    BY <1>11 DEF CrashAtBoot, process
  <2> QED
    BY <1>11, <2>1, BootCommits, SameRecovers, NeverUp
<1>12. ASSUME RestartAppServer \/ UNCHANGED vars
       PROVE  MemoryGrows /\ RecoversFrom
  <2>1. up' = up /\ mem' = mem /\ wal' = wal /\ snaps' = snaps
    BY <1>12 DEF RestartAppServer, vars, process, disk
  <2>2. RecoversFrom
    BY <1>2, <2>1, SameRecovers
  <2> QED
    BY <1>1, <2>1, <2>2, PrefixRefl DEF MemoryGrows
<1> QED
  BY <1>4, <1>5, <1>6, <1>7, <1>8, <1>9, <1>10, <1>11, <1>12 DEF Next

(***************************************************************************)
(* Every commit in the files is one of the memory.                         *)
(***************************************************************************)
LEMMA HeldLonger ==
  ASSUME NEW w \in WalFile, NEW s \in Seq(Hashes), NEW t \in Seq(Hashes),
         CommitsHeld(w.commits, s), IsPrefix(s, t)
  PROVE  CommitsHeld(w.commits, t)
<1>1. Len(s) <= Len(t) /\ \A i \in 1 .. Len(s) : s[i] = t[i]
  BY PrefixMeans
<1>2. Len(s) \in Nat /\ Len(t) \in Nat
  OBVIOUS
<1>3. ASSUME NEW i \in DOMAIN w.commits
      PROVE  /\ w.commits[i].index < Len(t)
             /\ t[w.commits[i].index + 1] = w.commits[i].hash
  <2> DEFINE n == w.commits[i].index
             h == w.commits[i].hash
  <2>1. n \in Nat
    <3>1. w.commits \in Seq([hash : Hashes, index : Nat])
      BY DEF WalFile
    <3>2. i \in 1 .. Len(w.commits)
      BY <3>1
    <3>3. w.commits[i] \in [hash : Hashes, index : Nat]
      BY <3>1, <3>2, ElementOfSeq
    <3> QED
      BY <3>3
  <2>2. n < Len(s) /\ s[n + 1] = h
    BY DEF CommitsHeld
  <2> HIDE DEF n, h
  <2>3. n < Len(t) /\ n + 1 \in 1 .. Len(s)
    BY <1>1, <1>2, <2>1, <2>2
  <2>4. t[n + 1] = h
    BY <1>1, <2>2, <2>3
  <2> QED
    BY <2>3, <2>4 DEF n, h
<1> QED
  BY <1>3 DEF CommitsHeld

LEMMA HeldMore ==
  ASSUME NEW w \in WalFile, NEW v \in WalFile, NEW s \in Seq(Hashes),
         NEW h \in Hashes, NEW n \in Nat, n = Len(s),
         v.commits = Append(w.commits, [hash |-> h, index |-> n]),
         CommitsHeld(w.commits, s)
  PROVE  CommitsHeld(v.commits, Append(s, h))
<1> DEFINE t == Append(s, h)
           c == w.commits
           d == v.commits
<1>1. t \in Seq(Hashes) /\ IsPrefix(s, t) /\ Len(t) = n + 1 /\ t[n + 1] = h
  BY PrefixAppend
<1>2. CommitsHeld(c, t)
  BY <1>1, HeldLonger
<1>3. c \in Seq([hash : Hashes, index : Nat])
  BY DEF WalFile
<1>4. ASSUME NEW i \in DOMAIN d
      PROVE  d[i].index < Len(t) /\ t[d[i].index + 1] = d[i].hash
  <2>1. /\ i \in DOMAIN c /\ d[i] = c[i]
        \/ d[i] = [hash |-> h, index |-> n]
    BY <1>3
  <2> HIDE DEF c, d, t
  <2>2. CASE i \in DOMAIN c /\ d[i] = c[i]
    BY <1>2, <2>2 DEF CommitsHeld
  <2>3. CASE d[i] = [hash |-> h, index |-> n]
    BY <1>1, <2>3
  <2> QED
    BY <2>1, <2>2, <2>3
<1> QED
  BY <1>4 DEF CommitsHeld

\* A step that writes no commit and no snapshot.
LEMMA LogUntouched ==
  ASSUME TypeInv, TypeInv', LogInv, MemoryGrows, up,
         wal'.commits = wal.commits, snaps' = snaps, owed' = owed
  PROVE  LogInv'
<1> SUFFICES ASSUME up'
             PROVE  /\ IsPrefix(owed', mem'.log)
                    /\ CommitsHeld(wal'.commits, mem'.log)
                    /\ NewestHeld(mem.log)'
  BY DEF LogInv
<1>1. /\ mem.log \in Seq(Hashes) /\ mem'.log \in Seq(Hashes)
      /\ owed \in Seq(Hashes) /\ wal \in WalFile
  BY MemoryMeans DEF TypeInv, TypeOK
<1>2. IsPrefix(mem.log, mem'.log)
  BY DEF MemoryGrows
<1>3. IsPrefix(owed', mem'.log)
  BY <1>1, <1>2, PrefixTrans DEF LogInv
<1>4. CommitsHeld(wal'.commits, mem'.log)
  BY <1>1, <1>2, HeldLonger DEF LogInv
<1>5. ASSUME DOMAIN snaps # {}, snaps[Newest].bin # None
      PROVE  IsPrefix(snaps[Newest].bin.mem.log, mem'.log)
  <2>1. snaps[Newest] \in SnapshotFile
    BY <1>5, NewestMeans DEF TypeInv, TypeOK
  <2>2. snaps[Newest].bin.mem \in Memory
    BY <1>5, <2>1 DEF SnapshotFile, Snapshot
  <2>3. snaps[Newest].bin.mem.log \in Seq(Hashes)
    BY <2>2, MemoryMeans
  <2>4. IsPrefix(snaps[Newest].bin.mem.log, mem.log)
    BY <1>5 DEF LogInv, NewestHeld
  <2> QED
    BY <1>1, <1>2, <2>3, <2>4, PrefixTrans
<1>6. NewestHeld(mem.log)'
  BY <1>5, SameSnapshots DEF NewestHeld
<1> QED
  BY <1>3, <1>4, <1>6

\* A step of take_snapshot.
LEMMA LogSnapshot ==
  ASSUME TypeInv, LogInv, up, mem' = mem,
         \/ wal'.commits = wal.commits /\ owed' = owed
         \/ wal'.commits = <<>> /\ owed' = mem.log,
         DOMAIN snaps' # {},
         \/ snaps'[Newest'].bin = None
         \/ snaps'[Newest'].bin.mem = mem
         \/ snaps'[Newest'].bin = snaps[Newest].bin /\ DOMAIN snaps # {}
  PROVE  LogInv'
<1>1. mem.log \in Seq(Hashes) /\ IsPrefix(mem.log, mem.log)
  BY ChoicesType, PrefixRefl
<1>2. IsPrefix(owed', mem.log) /\ CommitsHeld(wal'.commits, mem.log)
  BY <1>1 DEF LogInv, CommitsHeld
<1>3. snaps'[Newest'].bin # None => IsPrefix(snaps'[Newest'].bin.mem.log, mem.log)
  BY <1>1 DEF LogInv, NewestHeld
<1> QED
  BY <1>2, <1>3 DEF LogInv, NewestHeld

LEMMA LogInit == Init => LogInv
  BY DEF Init, LogInv

LEMMA LogInvStep ==
  ASSUME TypeInv, TypeInv', OpInv, LogInv, [Next]_vars
  PROVE  LogInv'
<1>1. MemoryGrows
  BY LogStep
<1>2. /\ mem \in Memory /\ wal \in WalFile /\ mem.log \in Seq(Hashes)
      /\ wal' \in WalFile /\ mem'.log \in Seq(Hashes)
  BY MemoryMeans DEF TypeInv, TypeOK
<1>3. op.at # "idle" => up
  BY DEF TypeInv, TypeOK, Idle
<1>4. ASSUME NEW h \in Arriving, InsertBlock(h)
      PROVE  LogInv'
  <2>1. BlockInserted(h) \in Entries /\ h \in Hashes
    BY ChoicesType, EntryKinds DEF Hashes
  <2>2. wal'.commits = wal.commits
    BY <1>4, <2>1, LogsPlain DEF InsertBlock, SameCommits
  <2> QED
    BY <1>1, <1>4, <2>2, LogUntouched DEF InsertBlock, Ready
<1>5. ASSUME NEW v \in NextView, AdvanceView(v)
      PROVE  LogInv'
  <2>1. ViewChanged(v) \in Entries /\ v \in Nat
    BY ChoicesType, EntryKinds
  <2>2. wal'.commits = wal.commits
    BY <1>5, <2>1, LogsPlain DEF AdvanceView, SameCommits
  <2> QED
    BY <1>1, <1>5, <2>2, LogUntouched DEF AdvanceView, Ready
<1>6. ASSUME NEW h \in Committing, CommitBlock(h)
      PROVE  LogInv'
  <2>1. /\ h \in Hashes /\ Len(mem.log) \in Nat
        /\ BlockCommitted(h, Len(mem.log)) \in Entries
    BY ChoicesType, EntryKinds
  <2>2. /\ up /\ snaps' = snaps /\ Logs(BlockCommitted(h, Len(mem.log)))
        /\ mem'.log = Append(mem.log, h) /\ owed' \in {owed, mem'.log}
    BY <1>2, <1>6, MemoryMeans DEF CommitBlock, Ready
  <2>3. \/ wal'.commits = wal.commits
        \/ OneMore(wal, wal', h, Len(mem.log))
    <3>1. CASE wal' = Appended(wal, BlockCommitted(h, Len(mem.log)))
      BY <1>2, <2>1, <3>1, AppendsCommit DEF SameCommits
    <3>2. CASE wal' \in CutAppend(wal)
      BY <1>2, <3>2, CutAppendMeans DEF SameEntries
    <3> QED
      BY <2>2, <3>1, <3>2 DEF Logs
  <2>4. /\ IsPrefix(mem.log, mem'.log) /\ IsPrefix(mem'.log, mem'.log)
    BY <1>2, <2>1, <2>2, PrefixAppend, PrefixRefl
  <2>5. CommitsHeld(wal'.commits, mem'.log)
    <3>1. CommitsHeld(wal.commits, mem.log)
      BY <2>2 DEF LogInv
    <3>2. CASE wal'.commits = wal.commits
      BY <1>2, <2>4, <3>1, <3>2, HeldLonger
    <3>3. CASE OneMore(wal, wal', h, Len(mem.log))
      BY <1>2, <2>1, <2>2, <3>1, <3>3, HeldMore DEF OneMore
    <3> QED
      BY <2>3, <3>2, <3>3
  <2>6. IsPrefix(owed', mem'.log)
    <3>1. IsPrefix(owed, mem.log) /\ owed \in Seq(Hashes)
      BY <2>2 DEF LogInv, TypeInv, TypeOK
    <3>2. IsPrefix(owed, mem'.log)
      BY <1>2, <2>4, <3>1, PrefixTrans
    <3> QED
      BY <2>2, <2>4, <3>2
  <2>7. ASSUME DOMAIN snaps # {}, snaps[Newest].bin # None
        PROVE  IsPrefix(snaps[Newest].bin.mem.log, mem'.log)
    <3>1. snaps[Newest] \in SnapshotFile
      BY <2>7, NewestMeans DEF TypeInv, TypeOK
    <3>2. snaps[Newest].bin.mem \in Memory
      BY <2>7, <3>1 DEF SnapshotFile, Snapshot
    <3>3. snaps[Newest].bin.mem.log \in Seq(Hashes)
      BY <3>2, MemoryMeans
    <3>4. IsPrefix(snaps[Newest].bin.mem.log, mem.log)
      BY <2>2, <2>7 DEF LogInv, NewestHeld
    <3> QED
      BY <1>2, <2>4, <3>3, <3>4, PrefixTrans
  <2>8. NewestHeld(mem.log)'
    BY <2>2, <2>7, SameSnapshots DEF NewestHeld
  <2> QED
    BY <2>5, <2>6, <2>8 DEF LogInv
<1>7. ASSUME AttachApp \/ ImportCatchup \/ RestartAppServer \/ UNCHANGED vars
      PROVE  LogInv'
  <2>1. wal' = wal /\ snaps' = snaps /\ owed' = owed
    BY <1>7 DEF AttachApp, ImportCatchup, RestartAppServer, vars, disk, history
  <2>2. up' => up
    BY <1>7
       DEF AttachApp, ImportCatchup, RestartAppServer, vars, process, Ready
  <2>3. CASE up
    BY <1>1, <2>1, <2>3, LogUntouched
  <2>4. CASE ~up'
    BY <2>4 DEF LogInv
  <2> QED
    BY <2>2, <2>3, <2>4
<1>8. ASSUME TakeSnapshot
      PROVE  LogInv'
  <2>1. up
    BY <1>3, <1>8
       DEF TakeSnapshot, BeginSnapshot, WriteBin, CreateSum, WriteSum,
           MarkSnapshot, CreateTmp, RenameTmp, FinishSnapshot, SnapshotFails,
           Ready
  <2>2. mem' = mem
    BY <1>8
       DEF TakeSnapshot, BeginSnapshot, WriteBin, CreateSum, WriteSum,
           MarkSnapshot, CreateTmp, RenameTmp, FinishSnapshot, SnapshotFails,
           SnapshotFrame
  <2>3. ASSUME NEW file \in SnapshotFile, Writes(file)
        PROVE  DOMAIN snaps' # {} /\ snaps'[Newest'] = file
    BY <2>1, <2>3, WrittenIsNewest
  <2>4. op.snap \in Snapshot \cup {None}
    BY DEF TypeInv, TypeOK
  <2>5. CASE BeginSnapshot
    <3>1. snaps'[Newest'].bin = None /\ DOMAIN snaps' # {}
      BY <2>3, <2>5, FileType DEF BeginSnapshot
    <3>2. wal'.commits = wal.commits /\ owed' = owed
      BY <2>5 DEF BeginSnapshot
    <3> QED
      BY <2>1, <2>2, <3>1, <3>2, LogSnapshot
  <2>6. CASE WriteBin
    <3>1. snaps'[Newest'].bin = op.snap /\ DOMAIN snaps' # {}
      BY <2>3, <2>4, <2>6, FileType DEF WriteBin
    <3>2. op.snap.mem = mem /\ wal'.commits = wal.commits /\ owed' = owed
      BY <2>6 DEF OpInv, WriteBin
    <3> QED
      BY <2>1, <2>2, <3>1, <3>2, LogSnapshot
  <2>7. CASE CreateSum \/ WriteSum
    <3>1. snaps'[Newest'].bin = File(counter).bin /\ DOMAIN snaps' # {}
      <4> DEFINE file == [File(counter) EXCEPT !.sum = "whole", !.of = op.snap]
                 cut == [File(counter) EXCEPT !.sum = "cut", !.of = None]
      <4>1. /\ file \in SnapshotFile /\ file.bin = File(counter).bin
            /\ cut \in SnapshotFile /\ cut.bin = File(counter).bin
        BY <2>4, FileType
      <4>2. Writes(file) \/ Writes(cut)
        BY <2>7 DEF WriteSum, CreateSum
      <4> HIDE DEF file, cut
      <4> QED
        BY <2>3, <4>1, <4>2
    <3>2. File(counter).bin = op.snap /\ op.snap.mem = mem
      BY <2>7 DEF OpInv, CreateSum, WriteSum, File
    <3>3. wal'.commits = wal.commits /\ owed' = owed
      BY <2>7 DEF CreateSum, WriteSum
    <3> QED
      BY <2>1, <2>2, <3>1, <3>2, <3>3, LogSnapshot
  <2>8. CASE MarkSnapshot
    <3>1. wal'.commits = wal.commits /\ snaps' = snaps /\ owed' = owed
      BY <2>8, EntryKinds, LogsPlain DEF MarkSnapshot, SameCommits
    <3> QED
      BY <1>1, <2>1, <3>1, LogUntouched
  <2>9. CASE CreateTmp \/ SnapshotFails
    <3>1. wal' = wal /\ snaps' = snaps /\ owed' = owed
      BY <2>9 DEF CreateTmp, SnapshotFails, disk
    <3> QED
      BY <1>1, <2>1, <3>1, LogUntouched
  <2>10. CASE RenameTmp
    <3>1. /\ snaps' = snaps /\ counter \in DOMAIN snaps
          /\ snaps[counter].bin = op.snap /\ op.snap.mem = mem
          /\ owed' = mem.log /\ wal'.commits = <<>>
      BY <2>10 DEF RenameTmp, OpInv, EmptyWal, NoWal
    <3>2. DOMAIN snaps # {} /\ Newest = counter /\ Newest' = Newest
      BY <2>1, <3>1, NewestIsCounter, SameSnapshots
    <3> QED
      BY <2>1, <2>2, <3>1, <3>2, LogSnapshot
  <2>11. CASE FinishSnapshot
    <3>1. /\ DOMAIN snaps # {} /\ DOMAIN snaps' # {}
          /\ snaps'[Newest'].bin = snaps[Newest].bin
      BY <2>11, FinishKeepsNewest
    <3>2. wal'.commits = wal.commits /\ owed' = owed
      BY <2>11 DEF FinishSnapshot
    <3> QED
      BY <2>1, <2>2, <3>1, <3>2, LogSnapshot
  <2> QED
    BY <1>8, <2>5, <2>6, <2>7, <2>8, <2>9, <2>10, <2>11 DEF TakeSnapshot
<1>9. ASSUME Recover
      PROVE  LogInv'
  <2>1. /\ Recoverable /\ Loadable /\ snaps' = snaps
        /\ mem' = Recovered /\ owed' = Recovered.log
    BY <1>9 DEF Recover, Recoverable
  <2>2. wal'.commits = wal.commits
    BY <1>9, RecoverCommits DEF SameCommits
  <2> DEFINE base == Base.log
             log == Recovered.log
             b == Len(base)
             k == Len(wal.commits)
  <2>3. Base \in Memory /\ Recovered = Replay(Base, wal)
    BY <2>1, BaseMemory
  <2>4. /\ log \in Seq(Hashes) /\ base \in Seq(Hashes) /\ k \in Nat
        /\ Len(log) = b + k /\ IsPrefix(base, log)
        /\ \A i \in 1 .. k : log[b + i] = wal.commits[i].hash
    BY <1>2, <2>3, ReplayLog
  <2>5. b \in Nat
    BY <2>4, LenProperties
  <2>6. ASSUME NEW i \in DOMAIN wal.commits
        PROVE  /\ wal.commits[i].index < Len(log)
               /\ log[wal.commits[i].index + 1] = wal.commits[i].hash
    <3>1. i \in 1 .. k
      BY <1>2 DEF WalFile
    <3>2. wal.commits[i].index = b + i - 1
      BY <2>1 DEF Recoverable
    <3> HIDE DEF b, k, log, base
    <3>3. b + i - 1 < b + k /\ (b + i - 1) + 1 = b + i
      BY <2>4, <2>5, <3>1
    <3> QED
      BY <2>4, <3>1, <3>2, <3>3
  <2>7. CommitsHeld(wal'.commits, mem'.log)
    BY <2>1, <2>2, <2>6 DEF CommitsHeld
  <2>8. DOMAIN snaps # {} => Base.log = snaps[Newest].bin.mem.log
    BY DEF Base
  <2>9. NewestHeld(mem.log)'
    BY <2>1, <2>4, <2>8, SameSnapshots DEF NewestHeld
  <2>10. IsPrefix(owed', mem'.log)
    BY <2>1, <2>4, PrefixRefl
  <2> QED
    BY <2>7, <2>9, <2>10 DEF LogInv
<1>10. ASSUME Crash \/ CrashAtBoot
       PROVE  LogInv'
  <2>1. ~up'
    BY <1>10 DEF Crash, CrashAtBoot, process
  <2> QED
    BY <2>1 DEF LogInv
<1> QED
  BY <1>4, <1>5, <1>6, <1>7, <1>8, <1>9, <1>10 DEF Next

LEMMA LogInvariant == Spec => [](TypeInv /\ OpInv /\ LogInv)
<1>1. Init => TypeInv /\ OpInv /\ LogInv
  BY TypeInit, OpInit, LogInit
<1>2. TypeInv /\ OpInv /\ LogInv /\ [Next]_vars => (TypeInv /\ OpInv /\ LogInv)'
  BY TypeStep, OpStep, LogInvStep
<1> QED
  BY <1>1, <1>2, PTL DEF Spec

\* Whatever fails, recovery invents no commit, repeats none and leaves out
\* none but the last ones (recover, take_snapshot, execute_and_commit).
THEOREM RecoveryInventsNothing == Spec => []RecoveredIsPrefix
<1>1. TypeInv /\ OpInv /\ LogInv => RecoveredIsPrefix
  BY ReadsBack DEF RecoveredIsPrefix
<1> QED
  BY <1>1, LogInvariant, PTL

(***************************************************************************)
(* What was logged without an error is not lost.                           *)
(***************************************************************************)
\* Once a commit is appended, a recovery gives all of the memory's log.
LEMMA CommitRecovered ==
  ASSUME TypeInv, TypeInv', LogInv, NEW h \in Committing, CommitBlock(h),
         wal' = Appended(wal, BlockCommitted(h, Len(mem.log))), Recoverable'
  PROVE  Recovered'.log = mem'.log
<1>1. /\ h \in Hashes /\ Len(mem.log) \in Nat /\ mem.log \in Seq(Hashes)
      /\ BlockCommitted(h, Len(mem.log)) \in Entries
  BY ChoicesType, EntryKinds
<1>2. /\ up /\ snaps' = snaps /\ mem' = [mem EXCEPT !.log = Append(@, h)]
  BY DEF CommitBlock, Ready
<1>3. mem'.log = Append(mem.log, h)
  BY <1>2, MemoryMeans DEF TypeInv, TypeOK
<1>4. OneMore(wal, wal', h, Len(mem.log))
  <2>1. wal \in WalFile /\ wal'.tail # "torn"
    BY DEF TypeInv, TypeOK, Recoverable, Readable
  <2> QED
    BY <1>1, <2>1, AppendsCommit
<1>5. /\ Recoverable /\ Recovered'.log = Append(Recovered.log, h)
      /\ Recovered.log \in Seq(Hashes) /\ Len(Recovered.log) = Len(mem.log)
  BY <1>1, <1>2, <1>4, MoreRecovered
<1>6. IsPrefix(Recovered.log, mem.log)
  BY <1>2, <1>5, ReadsBack
<1>7. Recovered.log = mem.log
  BY <1>1, <1>5, <1>6, PrefixWhole
<1> QED
  BY <1>3, <1>5, <1>7

LEMMA OwedInit == Init => NothingCommittedLost
<1> SUFFICES ASSUME Init, Recoverable
             PROVE  IsPrefix(owed, Recovered.log)
  BY DEF NothingCommittedLost
<1>1. owed = <<>> /\ TypeInv /\ Loadable
  BY TypeInit DEF Init, Recoverable
<1>2. Recovered.log \in Seq(Hashes)
  BY <1>1, BaseMemory
<1> QED
  BY <1>1, <1>2, PrefixEmpty

LEMMA OwedStep ==
  ASSUME TypeInv, TypeInv', OpInv, LogInv, NothingCommittedLost, [Next]_vars
  PROVE  NothingCommittedLost'
<1> SUFFICES ASSUME Recoverable'
             PROVE  IsPrefix(owed', Recovered'.log)
  BY DEF NothingCommittedLost
<1>1. /\ mem.log \in Seq(Hashes) /\ owed \in Seq(Hashes)
      /\ mem'.log \in Seq(Hashes) /\ Recovered'.log \in Seq(Hashes)
      /\ Recoverable => Recovered.log \in Seq(Hashes)
  BY BaseMemory, BaseMemoryNext, MemoryMeans
     DEF TypeInv, TypeOK, Recoverable
<1>2. \/ Recoverable /\ IsPrefix(Recovered.log, Recovered'.log)
      \/ up /\ IsPrefix(mem.log, Recovered'.log)
  BY LogStep DEF RecoversFrom
<1>3. CASE owed' = owed
  <2>1. CASE Recoverable /\ IsPrefix(Recovered.log, Recovered'.log)
    <3>1. IsPrefix(owed, Recovered.log)
      BY <2>1 DEF NothingCommittedLost
    <3> QED
      BY <1>1, <1>3, <2>1, <3>1, PrefixTrans
  <2>2. CASE up /\ IsPrefix(mem.log, Recovered'.log)
    <3>1. IsPrefix(owed, mem.log)
      BY <2>2 DEF LogInv
    <3> QED
      BY <1>1, <1>3, <2>2, <3>1, PrefixTrans
  <2> QED
    BY <1>2, <2>1, <2>2
<1>4. ASSUME NEW h \in Committing, CommitBlock(h), owed' # owed
      PROVE  IsPrefix(owed', Recovered'.log)
  <2>1. owed' = mem'.log /\ ~dirty'
    BY <1>4 DEF CommitBlock
  <2>2. wal' = Appended(wal, BlockCommitted(h, Len(mem.log)))
    BY <1>4, <2>1 DEF CommitBlock, Logs
  <2>3. Recovered'.log = mem'.log
    BY <1>4, <2>2, CommitRecovered
  <2> QED
    BY <1>1, <2>1, <2>3, PrefixRefl
<1>5. CASE RenameTmp
  <2>1. /\ snaps' = snaps /\ counter \in DOMAIN snaps /\ owed' = mem.log
        /\ snaps[counter].bin = op.snap /\ op.snap.mem = mem
    BY <1>5 DEF RenameTmp, OpInv
  <2>2. up
    BY <1>5 DEF RenameTmp, TypeInv, TypeOK, Idle
  <2>3. DOMAIN snaps # {} /\ Newest = counter /\ Newest' = Newest
    BY <2>1, <2>2, NewestIsCounter, SameSnapshots
  <2>4. IsPrefix(mem.log, Recovered'.log)
    BY <2>1, <2>3, SnapshotRecovered
  <2> QED
    BY <2>1, <2>4
<1>6. CASE Recover
  <2>1. ~up /\ owed' = Recovered.log
    BY <1>6 DEF Recover
  <2> QED
    BY <1>2, <2>1
<1>7. \/ owed' = owed
      \/ \E h \in Committing : CommitBlock(h)
      \/ RenameTmp \/ Recover
  BY DEF Next, TakeSnapshot, InsertBlock, AdvanceView, AttachApp,
         ImportCatchup, BeginSnapshot, WriteBin, CreateSum, WriteSum,
         MarkSnapshot, CreateTmp, FinishSnapshot, SnapshotFails, Crash,
         CrashAtBoot, RestartAppServer, vars, history
<1> QED
  BY <1>3, <1>4, <1>5, <1>6, <1>7

\* Whatever fails, every commit that was logged without an error is there,
\* in its place, after any recovery (execute_and_commit, take_snapshot,
\* truncate_after_snapshot, recover).
THEOREM CommitsSurvive == Spec => []NothingCommittedLost
<1>1. /\ TypeInv /\ OpInv /\ LogInv /\ TypeInv' /\ NothingCommittedLost
      /\ [Next]_vars
      => NothingCommittedLost'
  BY OwedStep
<1> QED
  BY <1>1, OwedInit, LogInvariant, TypeInvariant, PTL DEF Spec

(***************************************************************************)
(* A quiet replica is as its files have it.                                *)
(***************************************************************************)
LEMMA RecoveredFields ==
  TypeInv /\ Loadable =>
    /\ DOMAIN Recovered.tree = DOMAIN Base.tree \cup wal.blocks
    /\ Recovered.view = IF wal.view = None THEN Base.view ELSE wal.view
  BY RecoveredType

LEMMA RecoveredFieldsNext ==
  TypeInv' /\ Loadable' =>
    /\ DOMAIN Recovered'.tree = DOMAIN Base'.tree \cup wal'.blocks
    /\ Recovered'.view = IF wal'.view = None THEN Base'.view ELSE wal'.view
<1>1. (TypeInv /\ Loadable =>
         /\ DOMAIN Recovered.tree = DOMAIN Base.tree \cup wal.blocks
         /\ Recovered.view = IF wal.view = None THEN Base.view ELSE wal.view)'
  BY RecoveredFields, PTL
<1> QED
  BY <1>1

LEMMA StillRecoverable ==
  ASSUME TypeInv, TypeInv', Recoverable, snaps' = snaps,
         wal'.commits = wal.commits, Readable(wal')
  PROVE  /\ Recoverable' /\ Recovered'.log = Recovered.log
         /\ DOMAIN Recovered'.tree = DOMAIN Base.tree \cup wal'.blocks
         /\ Recovered'.view = IF wal'.view = None THEN Base.view ELSE wal'.view
<1>1. Loadable /\ Loadable' /\ Base' = Base
  BY SameSnapshots DEF Recoverable
<1>2. Recoverable'
  BY <1>1 DEF Recoverable
<1>3. Recovered'.log = Recovered.log
  BY <1>2, SameRecovered DEF SameCommits, Recoverable
<1> QED
  BY <1>1, <1>2, <1>3, RecoveredFieldsNext

\* A quiet replica that has appended an entry was quiet before.
LEMMA QuietBefore ==
  ASSUME TypeInv, TypeInv', NEW e \in Entries, Ready, Logs(e), tmp' = tmp,
         Quiet'
  PROVE  Quiet /\ wal' = AppendEntry(wal, e) /\ Readable(wal')
<1>1. /\ wal \in WalFile /\ wal'.file = "whole" /\ wal'.tail = "clean"
      /\ ~dirty' /\ ~tmp
  BY DEF TypeInv, TypeOK, Quiet, Ready
<1>2. wal' = Appended(wal, e) /\ ~dirty
  BY <1>1 DEF Logs
<1>3. wal.tail = "clean" /\ wal' = AppendEntry(wal, e)
  BY <1>1, <1>2, AppendedMeans
<1> QED
  BY <1>1, <1>2, <1>3 DEF Quiet, Readable

LEMMA QuietInit == Init => QuietIsDurable
  BY DEF Init, QuietIsDurable, Quiet, Ready

LEMMA QuietStep ==
  ASSUME TypeInv, TypeInv', OpInv, QuietIsDurable, [Next]_vars
  PROVE  QuietIsDurable'
<1> SUFFICES ASSUME Quiet'
             PROVE  Recoverable' /\ SameState(Recovered, mem)'
  BY DEF QuietIsDurable
<1>1. /\ wal \in WalFile /\ wal' \in WalFile /\ mem \in Memory
      /\ mem = [tree |-> mem.tree, log |-> mem.log, view |-> mem.view]
      /\ mem.log \in Seq(Hashes)
      /\ op \in [at : {"idle", "bin", "sum", "hash", "mark", "tmp", "rename",
                       "finish"}, snap : Snapshot \cup {None}]
  BY MemoryMeans DEF TypeInv, TypeOK
<1>2. /\ ~dirty' /\ ~tmp' /\ up' /\ op'.at = "idle"
      /\ wal'.tail = "clean" /\ wal'.file = "whole" /\ Readable(wal')
  BY DEF Quiet, Ready, Idle, TypeInv, TypeOK, Readable
<1>3. ASSUME Quiet
      PROVE  /\ Recoverable /\ DOMAIN Recovered.tree = DOMAIN mem.tree
             /\ Recovered.log = mem.log /\ Recovered.view = mem.view
             /\ DOMAIN Base.tree \cup wal.blocks = DOMAIN mem.tree
             /\ (IF wal.view = None THEN Base.view ELSE wal.view) = mem.view
  <2>1. Recoverable /\ SameState(Recovered, mem)
    BY <1>3 DEF QuietIsDurable
  <2>2. Loadable
    BY <2>1 DEF Recoverable
  <2> QED
    BY <2>1, <2>2, RecoveredFields DEF SameState
<1>4. ASSUME NEW h \in Arriving, InsertBlock(h)
      PROVE  Recoverable' /\ SameState(Recovered, mem)'
  <2>1. BlockInserted(h) \in Entries /\ h \in Hashes
    BY ChoicesType, EntryKinds DEF Hashes
  <2>2. Quiet /\ wal' = AppendEntry(wal, BlockInserted(h))
    BY <1>4, <2>1, QuietBefore DEF InsertBlock
  <2>3. wal' = [wal EXCEPT !.blocks = @ \cup {h}] /\ snaps' = snaps
    BY <1>4, <2>2, AppendEntryMeans DEF InsertBlock
  <2>4. /\ wal'.commits = wal.commits /\ wal'.view = wal.view
        /\ wal'.blocks = wal.blocks \cup {h}
    BY <1>1, <2>3 DEF WalFile
  <2>5. /\ DOMAIN mem'.tree = DOMAIN mem.tree \cup {h}
        /\ mem'.log = mem.log /\ mem'.view = mem.view
    BY <1>1, <1>4 DEF InsertBlock
  <2>6. /\ Recoverable' /\ Recovered'.log = Recovered.log
        /\ DOMAIN Recovered'.tree = DOMAIN Base.tree \cup wal'.blocks
        /\ Recovered'.view = IF wal'.view = None THEN Base.view ELSE wal'.view
    BY <1>2, <1>3, <2>2, <2>3, <2>4, StillRecoverable
  <2>7. DOMAIN Recovered'.tree = DOMAIN mem'.tree
    BY <1>3, <2>2, <2>4, <2>5, <2>6
  <2>8. Recovered'.view = mem'.view /\ Recovered'.log = mem'.log
    BY <1>3, <2>2, <2>4, <2>5, <2>6
  <2> QED
    BY <2>6, <2>7, <2>8 DEF SameState
<1>5. ASSUME NEW v \in NextView, AdvanceView(v)
      PROVE  Recoverable' /\ SameState(Recovered, mem)'
  <2>1. ViewChanged(v) \in Entries /\ v \in Nat
    BY ChoicesType, EntryKinds
  <2>2. Quiet /\ wal' = AppendEntry(wal, ViewChanged(v))
    BY <1>5, <2>1, QuietBefore DEF AdvanceView
  <2>3. wal' = [wal EXCEPT !.view = v] /\ snaps' = snaps
    BY <1>5, <2>2, AppendEntryMeans DEF AdvanceView
  <2>4. /\ wal'.commits = wal.commits /\ wal'.view = v
        /\ wal'.blocks = wal.blocks
    BY <1>1, <2>3 DEF WalFile
  <2>5. mem'.tree = mem.tree /\ mem'.log = mem.log /\ mem'.view = v
    BY <1>1, <1>5 DEF AdvanceView
  <2>6. /\ Recoverable' /\ Recovered'.log = Recovered.log
        /\ DOMAIN Recovered'.tree = DOMAIN Base.tree \cup wal'.blocks
        /\ Recovered'.view = IF wal'.view = None THEN Base.view ELSE wal'.view
    BY <1>2, <1>3, <2>2, <2>3, <2>4, StillRecoverable
  <2>7. v # None
    BY <2>1, NoneIsNothing
  <2> QED
    BY <1>3, <2>2, <2>4, <2>5, <2>6, <2>7 DEF SameState
<1>6. ASSUME NEW h \in Committing, CommitBlock(h)
      PROVE  Recoverable' /\ SameState(Recovered, mem)'
  <2> DEFINE n == Len(mem.log)
  <2>1. h \in Hashes /\ n \in Nat /\ BlockCommitted(h, n) \in Entries
    BY ChoicesType, EntryKinds
  <2>2. Quiet /\ wal' = AppendEntry(wal, BlockCommitted(h, n))
    BY <1>6, <2>1, QuietBefore DEF CommitBlock
  <2>3. /\ wal' = [wal EXCEPT !.commits =
                     Append(@, [hash |-> h, index |-> n])]
        /\ snaps' = snaps
    <3>1. AppendEntry(wal, BlockCommitted(h, n)) =
            [wal EXCEPT !.commits = Append(@, [hash |-> h, index |-> n])]
      BY DEF AppendEntry, BlockCommitted
    <3>2. snaps' = snaps
      BY <1>6 DEF CommitBlock
    <3> HIDE DEF n
    <3> QED
      BY <2>2, <3>1, <3>2
  <2>4. /\ wal'.commits = Append(wal.commits, [hash |-> h, index |-> n])
        /\ wal'.view = wal.view /\ wal'.blocks = wal.blocks
    BY <1>1, <2>3 DEF WalFile
  <2>5. /\ mem'.tree = mem.tree /\ mem'.view = mem.view
        /\ mem'.log = Append(mem.log, h)
    BY <1>1, <1>6 DEF CommitBlock
  <2>6. /\ Recoverable /\ Loadable /\ Loadable' /\ Base' = Base
        /\ Base \in Memory /\ Recovered = Replay(Base, wal)
        /\ Recovered' = Replay(Base, wal')
    BY <1>3, <2>2, <2>3, SameSnapshots, BaseMemory, BaseMemoryNext
       DEF Recoverable
  <2> DEFINE b == Len(Base.log)
             k == Len(wal.commits)
  <2>7. n = b + k /\ k \in Nat /\ b \in Nat
    <3>1. /\ Len(Replay(Base, wal).log) = b + k /\ k \in Nat
          /\ Base.log \in Seq(Hashes)
      BY <1>1, <2>6, ReplayLog
    <3>2. b \in Nat
      BY <3>1, LenProperties
    <3> QED
      BY <1>3, <2>2, <2>6, <3>1, <3>2
  <2>8. /\ Replay(Base, wal').log = Append(Replay(Base, wal).log, h)
        /\ Len(wal'.commits) = k + 1
        /\ wal'.commits[k + 1] = [hash |-> h, index |-> n]
        /\ \A i \in 1 .. k : wal'.commits[i] = wal.commits[i]
    <3>1. /\ Base \in Memory /\ wal \in WalFile /\ wal' \in WalFile
          /\ h \in Hashes /\ n \in Nat
          /\ wal'.commits = Append(wal.commits, [hash |-> h, index |-> n])
      BY <1>1, <2>1, <2>4, <2>6
    <3> HIDE DEF n
    <3> QED
      BY <3>1, ReplayMore
  <2>9. /\ DOMAIN wal'.commits = 1 .. Len(wal'.commits)
        /\ DOMAIN wal.commits = 1 .. k
    BY <1>1 DEF WalFile
  <2>10. ASSUME NEW i \in DOMAIN wal'.commits
         PROVE  wal'.commits[i].index = b + i - 1
    <3>1. i \in 1 .. k + 1
      BY <2>8, <2>9
    <3>2. CASE i \in 1 .. k
      <4>1. wal.commits[i].index = b + i - 1
        BY <2>6, <2>9, <3>2 DEF Recoverable
      <4> QED
        BY <2>8, <3>2, <4>1
    <3>3. CASE i = k + 1
      <4>1. wal'.commits[i].index = n
        BY <2>8, <3>3
      <4> HIDE DEF b, k, n
      <4> QED
        BY <2>7, <3>3, <4>1
    <3> HIDE DEF b, k, n
    <3> QED
      BY <2>7, <3>1, <3>2, <3>3
  <2>11. Recoverable'
    BY <1>2, <2>6, <2>10 DEF Recoverable
  <2>12. /\ DOMAIN Recovered'.tree = DOMAIN Base.tree \cup wal'.blocks
         /\ Recovered'.view = IF wal'.view = None THEN Base.view ELSE wal'.view
    BY <2>6, RecoveredFieldsNext
  <2>13. DOMAIN Recovered'.tree = DOMAIN mem'.tree
    BY <1>3, <2>2, <2>4, <2>5, <2>12
  <2>14. Recovered'.view = mem'.view
    BY <1>3, <2>2, <2>4, <2>5, <2>12
  <2>15. Recovered'.log = mem'.log
    BY <1>3, <2>2, <2>5, <2>6, <2>8
  <2> QED
    BY <2>11, <2>13, <2>14, <2>15 DEF SameState
<1>7. CASE AttachApp \/ RestartAppServer \/ UNCHANGED vars
  <2>1. /\ mem' = mem /\ wal' = wal /\ snaps' = snaps /\ Quiet
    <3>1. /\ mem' = mem /\ wal' = wal /\ snaps' = snaps /\ up' = up
          /\ op' = op /\ dirty' = dirty /\ tmp' = tmp
      <4>1. CASE AttachApp
        BY <4>1 DEF AttachApp, disk, history
      <4>2. CASE RestartAppServer \/ UNCHANGED vars
        BY <4>2 DEF RestartAppServer, vars, process, disk, history
      <4> QED
        BY <1>7, <4>1, <4>2
    <3> QED
      BY <3>1 DEF Quiet, Ready
  <2>2. /\ Recoverable' /\ Recovered'.log = Recovered.log
        /\ DOMAIN Recovered'.tree = DOMAIN Base.tree \cup wal.blocks
        /\ Recovered'.view = IF wal.view = None THEN Base.view ELSE wal.view
    BY <1>2, <1>3, <2>1, StillRecoverable
  <2> QED
    BY <1>3, <2>1, <2>2 DEF SameState
<1>8. CASE ImportCatchup
  BY <1>2, <1>8 DEF ImportCatchup
<1>9. ASSUME TakeSnapshot
      PROVE  Recoverable' /\ SameState(Recovered, mem)'
  <2>1. ASSUME NEW at, at # "idle", Reaches(at)
        PROVE  FALSE
    BY <1>1, <1>2, <2>1 DEF Reaches
  <2>2. CASE BeginSnapshot
    BY <1>2, <2>2 DEF BeginSnapshot
  <2>3. CASE WriteBin \/ CreateSum \/ WriteSum \/ MarkSnapshot \/ RenameTmp
    BY <2>1, <2>3 DEF WriteBin, CreateSum, WriteSum, MarkSnapshot, RenameTmp
  <2>4. CASE CreateTmp
    BY <1>2, <2>4 DEF CreateTmp
  <2>5. CASE SnapshotFails
    BY <1>2, <2>5 DEF SnapshotFails
  <2>6. CASE FinishSnapshot
    <3>1. /\ op.at = "finish" /\ wal' = wal /\ mem' = mem
      BY <2>6 DEF FinishSnapshot, SnapshotFrame
    <3>2. /\ wal = EmptyWal /\ op.snap \in Snapshot /\ op.snap.mem = mem
          /\ snaps[counter].bin = op.snap
          /\ snaps[counter].sum = "whole" /\ snaps[counter].of = op.snap
      BY <3>1 DEF OpInv
    <3>3. DOMAIN snaps' # {} /\ snaps'[Newest'] = snaps[counter]
      BY <2>6, FinishKeepsNewest
    <3>4. op.snap # None
      BY <3>2, NoneIsNothing
    <3>5. Loadable' /\ Base' = mem
      BY <3>2, <3>3, <3>4 DEF Loadable, Base
    <3>6. /\ wal'.commits = <<>> /\ wal'.blocks = {} /\ wal'.view = None
      BY <3>1, <3>2 DEF EmptyWal, NoWal
    <3>7. Recoverable'
      BY <1>2, <3>5, <3>6 DEF Recoverable
    <3>8. /\ DOMAIN Recovered'.tree = DOMAIN mem.tree
          /\ Recovered'.view = mem.view
      BY <3>5, <3>6, RecoveredFieldsNext
    <3>9. Recovered'.log = mem.log
      <4>1. Recovered' = Replay(mem, wal')
        BY <3>5, BaseMemoryNext
      <4>2. CommitsOf(wal') = <<>>
        BY <3>6 DEF CommitsOf
      <4>3. Replay(mem, wal').log = mem.log \o <<>>
        BY <1>1, <4>2, ReplayType
      <4> QED
        BY <1>1, <4>1, <4>3, ConcatEmptySeq
    <3> QED
      BY <3>1, <3>7, <3>8, <3>9 DEF SameState
  <2> QED
    BY <1>9, <2>2, <2>3, <2>4, <2>5, <2>6 DEF TakeSnapshot
<1>10. ASSUME Recover
       PROVE  Recoverable' /\ SameState(Recovered, mem)'
  <2> DEFINE file == LogFile(wal)
             booted == Appended(file, BlockInserted(0))
  <2>1. /\ Recoverable /\ Loadable /\ Readable(wal) /\ snaps' = snaps
        /\ mem' = Recovered
    BY <1>10 DEF Recover, Recoverable
  <2>2. /\ file \in WalFile /\ file.commits = wal.commits
        /\ file.blocks = wal.blocks /\ file.view = wal.view
    BY <1>1, EmptyWalType DEF LogFile, OpInv, EmptyWal, NoWal
  <2>3. \/ wal' = file
        \/ wal' = booted /\ DOMAIN Recovered.tree = {0}
    BY <1>10 DEF Recover
  <2>4. wal'.commits = wal.commits
    BY <1>10, RecoverCommits DEF SameCommits
  <2>5. /\ Recoverable' /\ Recovered'.log = Recovered.log
        /\ DOMAIN Recovered'.tree = DOMAIN Base.tree \cup wal'.blocks
        /\ Recovered'.view = IF wal'.view = None THEN Base.view ELSE wal'.view
    BY <1>2, <2>1, <2>4, StillRecoverable
  <2>6. /\ DOMAIN Recovered.tree = DOMAIN Base.tree \cup wal.blocks
        /\ Recovered.view = IF wal.view = None THEN Base.view ELSE wal.view
    BY <2>1, RecoveredFields
  <2>7. CASE wal' = file
    BY <2>1, <2>2, <2>5, <2>6, <2>7 DEF SameState
  <2>8. CASE wal' = booted /\ DOMAIN Recovered.tree = {0}
    <3> HIDE DEF file
    <3>1. booted = AppendEntry(file, BlockInserted(0))
      BY <1>2, <2>2, <2>8, AppendedMeans
    <3>2. booted = [file EXCEPT !.blocks = @ \cup {0}]
      BY <3>1, AppendEntryMeans
    <3>3. wal'.blocks = wal.blocks \cup {0} /\ wal'.view = wal.view
      BY <2>2, <2>8, <3>2 DEF WalFile
    <3>4. DOMAIN Recovered'.tree = DOMAIN Recovered.tree
      BY <2>5, <2>6, <2>8, <3>3
    <3> QED
      BY <2>1, <2>5, <2>6, <3>3, <3>4 DEF SameState
  <2> QED
    BY <2>3, <2>7, <2>8
<1>11. CASE Crash \/ CrashAtBoot
  <2>1. ~up'
    BY <1>11 DEF Crash, CrashAtBoot, process
  <2> QED
    BY <1>2, <2>1
<1> QED
  BY <1>4, <1>5, <1>6, <1>7, <1>8, <1>9, <1>10, <1>11 DEF Next

LEMMA QuietInvariant == Spec => [](TypeInv /\ QuietIsDurable)
<1>1. /\ TypeInv /\ OpInv /\ LogInv /\ TypeInv' /\ QuietIsDurable
      /\ [Next]_vars
      => QuietIsDurable'
  BY QuietStep
<1> QED
  BY <1>1, QuietInit, LogInvariant, TypeInvariant, PTL DEF Spec

\* From any number of crashes, recoveries and snapshots, a replica at work
\* none of whose file operations has failed or was cut short would recover
\* to the state that it has (wal.rs, snapshot.rs, recovery.rs).
THEOREM QuietReplicasAreDurable == Spec => []QuietIsDurable
  BY QuietInvariant, PTL

(***************************************************************************)
(* The application runs the commands of the log, in its order.             *)
(***************************************************************************)
Step == [hash : Hashes, cmd : Commands]

LEMMA InOrderLonger ==
  ASSUME NEW ran, NEW s \in Seq(Hashes), NEW t \in Seq(Hashes),
         IsPrefix(s, t), RunsInOrder(ran, s)
  PROVE  RunsInOrder(ran, t)
<1>1. Len(s) <= Len(t) /\ \A i \in 1 .. Len(s) : s[i] = t[i]
  BY PrefixMeans
<1>2. PICK at \in [DOMAIN ran -> DOMAIN s] :
        /\ \A i \in DOMAIN ran : s[at[i]] = ran[i].hash
        /\ \A i, j \in DOMAIN ran : i < j => at[i] < at[j]
  BY DEF RunsInOrder
<1>3. DOMAIN s = 1 .. Len(s) /\ DOMAIN t = 1 .. Len(t)
  OBVIOUS
<1>4. DOMAIN s \subseteq DOMAIN t /\ \A i \in DOMAIN s : s[i] = t[i]
  <2>1. Len(s) \in Nat /\ Len(t) \in Nat
    OBVIOUS
  <2> QED
    BY <1>1, <1>3, <2>1
<1>5. at \in [DOMAIN ran -> DOMAIN t]
  BY <1>4
<1>6. \A i \in DOMAIN ran : t[at[i]] = ran[i].hash
  BY <1>2, <1>4
<1> QED
  BY <1>2, <1>5, <1>6 DEF RunsInOrder

LEMMA InOrderMore ==
  ASSUME NEW ran \in Seq(Step), NEW s \in Seq(Hashes), NEW e \in Step,
         RunsInOrder(ran, s)
  PROVE  RunsInOrder(Append(ran, e), Append(s, e.hash))
<1> DEFINE more == Append(ran, e)
           t == Append(s, e.hash)
           n == Len(ran)
           m == Len(s)
<1>1. PICK at \in [DOMAIN ran -> DOMAIN s] :
        /\ \A i \in DOMAIN ran : s[at[i]] = ran[i].hash
        /\ \A i, j \in DOMAIN ran : i < j => at[i] < at[j]
  BY DEF RunsInOrder
<1>2. e.hash \in Hashes
  BY DEF Step
<1>3. /\ n \in Nat /\ DOMAIN ran = 1 .. n /\ DOMAIN more = 1 .. n + 1
      /\ more[n + 1] = e /\ \A i \in 1 .. n : more[i] = ran[i]
  OBVIOUS
<1>4. /\ m \in Nat /\ DOMAIN s = 1 .. m /\ DOMAIN t = 1 .. m + 1
      /\ t[m + 1] = e.hash /\ \A i \in 1 .. m : t[i] = s[i]
  BY <1>2
<1> DEFINE next == [i \in 1 .. n + 1 |-> IF i = n + 1 THEN m + 1 ELSE at[i]]
<1> HIDE DEF more, t, n, m
<1>5. \A i \in 1 .. n : at[i] \in 1 .. m
  BY <1>3, <1>4
<1>6. next \in [DOMAIN more -> DOMAIN t]
  <2>1. ASSUME NEW i \in 1 .. n + 1
        PROVE  next[i] \in 1 .. m + 1
    <3>1. CASE i = n + 1
      BY <1>3, <1>4, <3>1
    <3>2. CASE i # n + 1
      <4>1. i \in 1 .. n /\ next[i] = at[i]
        BY <1>3, <3>2
      <4> QED
        BY <1>4, <1>5, <4>1
    <3> QED
      BY <3>1, <3>2
  <2> QED
    BY <1>3, <1>4, <2>1
<1>7. ASSUME NEW i \in DOMAIN more
      PROVE  t[next[i]] = more[i].hash
  <2>1. CASE i = n + 1
    BY <1>3, <1>4, <2>1
  <2>2. CASE i # n + 1
    <3>1. i \in 1 .. n /\ next[i] = at[i]
      BY <1>3, <2>2
    <3> QED
      BY <1>1, <1>3, <1>4, <1>5, <3>1
  <2> QED
    BY <2>1, <2>2
<1>8. ASSUME NEW i \in DOMAIN more, NEW j \in DOMAIN more, i < j
      PROVE  next[i] < next[j]
  <2>1. i \in 1 .. n /\ next[i] = at[i]
    BY <1>3, <1>8
  <2>2. CASE j = n + 1
    <3>1. next[j] = m + 1 /\ at[i] \in 1 .. m
      BY <1>3, <1>5, <2>1, <2>2
    <3> QED
      BY <1>4, <2>1, <3>1
  <2>3. CASE j # n + 1
    <3>1. j \in 1 .. n /\ next[j] = at[j]
      BY <1>3, <2>3
    <3> QED
      BY <1>1, <1>3, <1>8, <2>1, <3>1
  <2> QED
    BY <2>2, <2>3
<1>9. RunsInOrder(more, t)
  <2> HIDE DEF next
  <2> QED
    BY <1>6, <1>7, <1>8 DEF RunsInOrder
<1> QED
  BY <1>9 DEF more, t

LEMMA InOrderEmpty ==
  ASSUME NEW log
  PROVE  RunsInOrder(<<>>, log)
<1> DEFINE at == [i \in {} |-> 0]
<1>1. at \in [DOMAIN <<>> -> DOMAIN log]
  OBVIOUS
<1> QED
  BY <1>1 DEF RunsInOrder

\* Held, Fits and Good after a step, of a value from before it.
HeldNext(ran) ==
  /\ up' => RunsInOrder(ran, mem'.log)
  /\ Recoverable' => RunsInOrder(ran, Recovered'.log)

FitsNext(snap) ==
  snap # None /\ snap.app # None =>
    /\ snap.app.store = RunOf(snap.app.ran)
    /\ failures' = 0 => RunsInOrder(snap.app.ran, snap.mem.log)

GoodNext(a) ==
  a # None => /\ a.store = RunOf(a.ran)
              /\ failures' = 0 => HeldNext(a.ran)

LEMMA FailuresGrow ==
  ASSUME TypeInv, [Next]_vars
  PROVE  failures \in Nat /\ failures' \in {failures, failures + 1}
<1>1. failures \in Nat
  BY DEF TypeInv, TypeOK
<1>2. failures' \in {failures, failures + 1}
  BY DEF Next, TakeSnapshot, InsertBlock, AdvanceView, CommitBlock, AttachApp,
         ImportCatchup, BeginSnapshot, WriteBin, CreateSum, WriteSum,
         MarkSnapshot, CreateTmp, RenameTmp, FinishSnapshot, SnapshotFails,
         Recover, Crash, CrashAtBoot, RestartAppServer, Logs, vars, history
<1> QED
  BY <1>1, <1>2

LEMMA HeldStep ==
  ASSUME TypeInv, TypeInv', OpInv, [Next]_vars, NEW ran, Held(ran)
  PROVE  HeldNext(ran)
<1>1. MemoryGrows /\ RecoversFrom
  BY LogStep
<1>2. /\ mem.log \in Seq(Hashes) /\ mem'.log \in Seq(Hashes)
      /\ Recoverable => Recovered.log \in Seq(Hashes)
      /\ Recoverable' => Recovered'.log \in Seq(Hashes)
  BY BaseMemory, BaseMemoryNext, MemoryMeans
     DEF TypeInv, TypeOK, Recoverable
<1>3. ASSUME up'
      PROVE  RunsInOrder(ran, mem'.log)
  <2>1. CASE up
    <3>1. RunsInOrder(ran, mem.log) /\ IsPrefix(mem.log, mem'.log)
      BY <1>1, <1>3, <2>1 DEF Held, MemoryGrows
    <3> QED
      BY <1>2, <3>1, InOrderLonger
  <2>2. CASE ~up
    BY <1>1, <1>3, <2>2 DEF Held, MemoryGrows
  <2> QED
    BY <2>1, <2>2
<1>4. ASSUME Recoverable'
      PROVE  RunsInOrder(ran, Recovered'.log)
  <2>1. CASE Recoverable /\ IsPrefix(Recovered.log, Recovered'.log)
    <3>1. RunsInOrder(ran, Recovered.log)
      BY <2>1 DEF Held
    <3> QED
      BY <1>2, <1>4, <2>1, <3>1, InOrderLonger
  <2>2. CASE up /\ IsPrefix(mem.log, Recovered'.log)
    <3>1. RunsInOrder(ran, mem.log)
      BY <2>2 DEF Held
    <3> QED
      BY <1>2, <1>4, <2>2, <3>1, InOrderLonger
  <2> QED
    BY <1>1, <1>4, <2>1, <2>2 DEF RecoversFrom
<1> QED
  BY <1>3, <1>4 DEF HeldNext

LEMMA GoodStep ==
  ASSUME TypeInv, TypeInv', OpInv, [Next]_vars, NEW a, Good(a)
  PROVE  GoodNext(a)
<1>1. failures' = 0 => failures = 0
  BY FailuresGrow
<1>2. Held(a.ran) => HeldNext(a.ran)
  BY HeldStep
<1> QED
  BY <1>1, <1>2 DEF Good, GoodNext

LEMMA FitsStep ==
  ASSUME TypeInv, [Next]_vars, NEW snap, Fits(snap)
  PROVE  FitsNext(snap)
<1>1. failures' = 0 => failures = 0
  BY FailuresGrow
<1> QED
  BY <1>1 DEF Fits, FitsNext

LEMMA NothingIsGood ==
  GoodNext(None) /\ FitsNext(None) /\ GoodNext(EmptyApp)
<1>1. HeldNext(<<>>)
  BY InOrderEmpty DEF HeldNext
<1> QED
  BY <1>1, RunOfEmpty DEF GoodNext, FitsNext, EmptyApp

\* The command of the block that is committed.
LEMMA ExecutedIsGood ==
  ASSUME TypeInv, TypeInv', OpInv, LogInv, Good(app),
         NEW h \in Committing, CommitBlock(h)
  PROVE  GoodNext(Execute(app, h, mem.tree[h]))
<1> DEFINE e == [hash |-> h, cmd |-> mem.tree[h]]
           ran == app.ran
           more == Append(ran, e)
<1>1. /\ h \in Hashes /\ mem.tree[h] \in Commands /\ mem.log \in Seq(Hashes)
      /\ Recoverable' => Recovered'.log \in Seq(Hashes)
  BY ChoicesType, BaseMemoryNext DEF Recoverable
<1>2. e \in Step /\ ran \in Seq(Step) /\ e.hash = h
  BY <1>1 DEF Step, TypeInv, TypeOK, AppState
<1>3. app \in AppState /\ app # None
  BY NoneIsNothing DEF TypeInv, TypeOK
<1>4. /\ Execute(app, h, mem.tree[h]).store = Put(app.store, e.cmd)
      /\ Execute(app, h, mem.tree[h]).ran = more
  BY DEF Execute
<1>5. Put(app.store, e.cmd) = RunOf(more)
  <2>1. app.store = RunOf(ran)
    BY <1>3 DEF Good
  <2> HIDE DEF e, ran
  <2>2. RunOf(more) = Put(RunOf(ran), e.cmd)
    BY <1>2, RunOfAppend
  <2> QED
    BY <2>1, <2>2
<1>6. ASSUME failures' = 0
      PROVE  HeldNext(more)
  <2>1. failures \in Nat /\ Logs(BlockCommitted(h, Len(mem.log)))
    BY DEF CommitBlock, TypeInv, TypeOK
  <2>2. /\ failures = 0
        /\ wal' = Appended(wal, BlockCommitted(h, Len(mem.log)))
    BY <1>6, <2>1 DEF Logs
  <2>3. RunsInOrder(ran, mem.log)
    BY <1>3, <2>2 DEF Good, Held, CommitBlock, Ready
  <2>4. mem'.log = Append(mem.log, h)
    BY MemoryMeans DEF CommitBlock, TypeInv, TypeOK
  <2>5. RunsInOrder(more, mem'.log)
    <3> HIDE DEF e, ran
    <3>1. RunsInOrder(Append(ran, e), Append(mem.log, e.hash))
      BY <1>1, <1>2, <2>3, InOrderMore
    <3> QED
      BY <1>2, <2>4, <3>1
  <2>6. Recoverable' => Recovered'.log = mem'.log
    BY <2>2, CommitRecovered
  <2> HIDE DEF more
  <2> QED
    BY <2>5, <2>6 DEF HeldNext
<1> HIDE DEF e, ran, more
<1> QED
  BY <1>4, <1>5, <1>6 DEF GoodNext

LEMMA AppInit == Init => AppInv
<1> SUFFICES ASSUME Init PROVE AppInv
  OBVIOUS
<1>1. app = EmptyApp /\ pending = None /\ op.snap = None /\ DOMAIN snaps = {}
  BY DEF Init, Idle
<1>2. Good(EmptyApp)
  <2>1. Held(<<>>)
    BY InOrderEmpty DEF Held
  <2> QED
    BY <2>1, RunOfEmpty DEF Good, EmptyApp
<1> QED
  BY <1>1, <1>2 DEF AppInv, Good, Fits

LEMMA AppNext ==
  ASSUME GoodNext(app'), GoodNext(pending'), FitsNext(op'.snap),
         \A id \in DOMAIN snaps' : FitsNext(snaps'[id].bin)
  PROVE  AppInv'
<1>1. Good(app)' /\ Good(pending)'
  BY DEF GoodNext, HeldNext, Good, Held
<1>2. Fits(op.snap)' /\ \A id \in DOMAIN snaps' : Fits(snaps[id].bin)'
  BY DEF FitsNext, Fits
<1> QED
  BY <1>1, <1>2 DEF AppInv

LEMMA AppInvStep ==
  ASSUME TypeInv, TypeInv', OpInv, LogInv, AppInv, [Next]_vars
  PROVE  AppInv'
<1>1. /\ GoodNext(app) /\ GoodNext(pending) /\ FitsNext(op.snap)
      /\ \A id \in DOMAIN snaps : FitsNext(snaps[id].bin)
  BY GoodStep, FitsStep DEF AppInv
<1>2. GoodNext(None) /\ FitsNext(None) /\ GoodNext(EmptyApp)
  BY NothingIsGood
<1>3. FitsNext(Idle.snap)
  BY <1>2 DEF Idle
<1>4. ASSUME app' = app \/ app' = EmptyApp, pending' = pending \/ pending' = None,
             op'.snap = op.snap \/ op' = Idle, snaps' = snaps
      PROVE  AppInv'
  BY <1>1, <1>2, <1>3, <1>4, AppNext
<1>5. ASSUME NEW h \in Committing, CommitBlock(h)
      PROVE  AppInv'
  <2>1. GoodNext(Execute(app, h, mem.tree[h]))
    BY <1>5, ExecutedIsGood DEF AppInv
  <2>2. GoodNext(app')
    BY <1>1, <1>5, <2>1 DEF CommitBlock, AppAfter
  <2> QED
    BY <1>1, <1>5, <2>2, AppNext DEF CommitBlock
<1>6. CASE AttachApp
  <2>1. app' \in {app, pending}
    BY <1>6 DEF AttachApp, AppRestore
  <2>2. pending' = None /\ op' = op /\ snaps' = snaps
    BY <1>6 DEF AttachApp, disk
  <2> QED
    BY <1>1, <1>2, <2>1, <2>2, AppNext
<1>7. ASSUME TakeSnapshot
      PROVE  AppInv'
  <2>1. /\ op.snap \in Snapshot \cup {None}
        /\ op \in [at : {"idle", "bin", "sum", "hash", "mark", "tmp",
                         "rename", "finish"}, snap : Snapshot \cup {None}]
        /\ op.at # "idle" => up
    BY DEF TypeInv, TypeOK, Idle
  <2>2. ASSUME NEW file \in SnapshotFile, up, Writes(file), FitsNext(file.bin)
        PROVE  \A id \in DOMAIN snaps' : FitsNext(snaps'[id].bin)
    <3>1. /\ DOMAIN snaps' = DOMAIN snaps \cup {counter}
          /\ snaps'[counter] = file
          /\ \A id \in DOMAIN snaps : id # counter => snaps'[id] = snaps[id]
      BY <2>2, WritesType
    <3> QED
      BY <1>1, <2>2, <3>1
  <2>3. ASSUME NEW at, Reaches(at)
        PROVE  op'.snap = op.snap
    BY <2>1, <2>3 DEF Reaches
  <2>4. CASE BeginSnapshot
    <3> DEFINE file == [File(counter) EXCEPT !.bin = None]
    <3>1. file \in SnapshotFile /\ file.bin = None /\ up /\ Writes(file)
      BY <2>4, FileType DEF BeginSnapshot, Ready
    <3> HIDE DEF file
    <3>2. \A id \in DOMAIN snaps' : FitsNext(snaps'[id].bin)
      BY <1>2, <2>2, <3>1
    <3>3. PICK state \in {app, None} :
            op' = [at |-> "bin", snap |-> [mem |-> mem, app |-> state]]
      BY <2>4 DEF BeginSnapshot, AppSnapshot
    <3>4. failures' = failures /\ app' = app /\ pending' = pending
      BY <2>4 DEF BeginSnapshot
    <3>5. ASSUME app # None
          PROVE  /\ app.store = RunOf(app.ran)
                 /\ failures = 0 => RunsInOrder(app.ran, mem.log)
      BY <3>1, <3>5 DEF AppInv, Good, Held
    <3>6. FitsNext([mem |-> mem, app |-> state])
      BY <3>3, <3>4, <3>5 DEF FitsNext
    <3>7. op'.snap = [mem |-> mem, app |-> state]
      BY <3>3
    <3> QED
      BY <1>1, <3>2, <3>4, <3>6, <3>7, AppNext
  <2>5. CASE WriteBin
    <3> DEFINE file == [File(counter) EXCEPT !.bin = op.snap]
    <3>1. file \in SnapshotFile /\ file.bin = op.snap
      BY <2>1, FileType
    <3>2. up /\ Writes(file) /\ op'.snap = op.snap
      BY <2>1, <2>3, <2>5 DEF WriteBin
    <3>3. app' = app /\ pending' = pending
      BY <2>5 DEF WriteBin, SnapshotFrame
    <3> HIDE DEF file
    <3>4. \A id \in DOMAIN snaps' : FitsNext(snaps'[id].bin)
      BY <1>1, <2>2, <3>1, <3>2
    <3> QED
      BY <1>1, <3>2, <3>3, <3>4, AppNext
  <2>6. CASE CreateSum \/ WriteSum
    <3> DEFINE file == [File(counter) EXCEPT !.sum = "whole", !.of = op.snap]
               cut == [File(counter) EXCEPT !.sum = "cut", !.of = None]
    <3>1. /\ file \in SnapshotFile /\ file.bin = File(counter).bin
          /\ cut \in SnapshotFile /\ cut.bin = File(counter).bin
      BY <2>1, FileType
    <3>2. up /\ (Writes(file) \/ Writes(cut)) /\ op'.snap = op.snap
      BY <2>1, <2>3, <2>6 DEF WriteSum, CreateSum
    <3>3. app' = app /\ pending' = pending
      BY <2>6 DEF WriteSum, CreateSum, SnapshotFrame
    <3>4. File(counter).bin = op.snap
      BY <2>6 DEF OpInv, CreateSum, WriteSum, File
    <3> HIDE DEF file, cut
    <3>5. \A id \in DOMAIN snaps' : FitsNext(snaps'[id].bin)
      BY <1>1, <2>2, <3>1, <3>2, <3>4
    <3> QED
      BY <1>1, <3>2, <3>3, <3>5, AppNext
  <2>7. CASE MarkSnapshot \/ RenameTmp
    <3>1. op'.snap = op.snap
      BY <2>3, <2>7 DEF MarkSnapshot, RenameTmp
    <3>2. app' = app /\ pending' = pending /\ snaps' = snaps
      BY <2>7 DEF MarkSnapshot, RenameTmp, SnapshotFrame
    <3> QED
      BY <1>4, <3>1, <3>2
  <2>8. CASE CreateTmp \/ SnapshotFails
    <3>1. op'.snap = op.snap \/ op' = Idle
      BY <2>3, <2>8 DEF CreateTmp, SnapshotFails
    <3>2. app' = app /\ pending' = pending /\ snaps' = snaps
      BY <2>8 DEF CreateTmp, SnapshotFails, SnapshotFrame, disk
    <3> QED
      BY <1>4, <3>1, <3>2
  <2>9. CASE FinishSnapshot
    <3>1. /\ DOMAIN snaps' \subseteq DOMAIN snaps
          /\ \A id \in DOMAIN snaps' : snaps'[id] = snaps[id]
      BY <2>9 DEF FinishSnapshot, Kept
    <3>2. app' = app /\ pending' = pending /\ op' = Idle
      BY <2>9 DEF FinishSnapshot, SnapshotFrame
    <3> QED
      BY <1>1, <1>3, <3>1, <3>2, AppNext
  <2> QED
    BY <1>7, <2>4, <2>5, <2>6, <2>7, <2>8, <2>9 DEF TakeSnapshot
<1>8. CASE Recover
  <2>1. /\ ~up /\ Loadable /\ mem' = Recovered /\ failures' = failures
        /\ app' = app /\ op' = op /\ snaps' = snaps
    BY <1>8 DEF Recover, Recoverable
  <2>2. GoodNext(pending')
    <3>1. CASE DOMAIN snaps = {}
      BY <1>2, <1>8, <3>1 DEF Recover
    <3>2. CASE DOMAIN snaps # {}
      <4> DEFINE s == snaps[Newest].bin
      <4>1. /\ s \in Snapshot /\ Base = s.mem /\ Newest \in DOMAIN snaps
        BY <2>1, <3>2, BaseType, NewestMeans
      <4>2. pending' = s.app /\ Fits(s) /\ s # None
        BY <1>8, <3>2, <4>1, NoneIsNothing DEF Recover, AppInv
      <4> HIDE DEF s
      <4>3. /\ Base \in Memory /\ Recovered = Replay(Base, wal)
            /\ wal \in WalFile /\ Recovered.log \in Seq(Hashes)
            /\ Recoverable' => Recovered'.log \in Seq(Hashes)
        BY <2>1, BaseMemory, BaseMemoryNext DEF Recoverable
      <4>4. s.mem.log \in Seq(Hashes) /\ IsPrefix(s.mem.log, Recovered.log)
        BY <4>1, <4>3, ReplayLog
      <4>5. Recoverable' => IsPrefix(Recovered.log, Recovered'.log)
        BY <2>1, LogStep DEF RecoversFrom
      <4>6. ASSUME NEW ran, RunsInOrder(ran, s.mem.log)
            PROVE  HeldNext(ran)
        <5>1. RunsInOrder(ran, Recovered.log)
          BY <4>3, <4>4, <4>6, InOrderLonger
        <5>2. Recoverable' => RunsInOrder(ran, Recovered'.log)
          BY <4>3, <4>5, <5>1, InOrderLonger
        <5> QED
          BY <2>1, <5>1, <5>2 DEF HeldNext
      <4> QED
        BY <2>1, <4>2, <4>6 DEF Fits, GoodNext
    <3> QED
      BY <3>1, <3>2
  <2> QED
    BY <1>1, <2>1, <2>2, AppNext
<1>9. ASSUME Crash
      PROVE  AppInv'
  <2>1. /\ app' = app \/ app' = EmptyApp
        /\ pending' = None /\ op' = Idle /\ snaps' = snaps
    BY <1>9 DEF Crash
  <2> QED
    BY <1>4, <2>1
<1>10. CASE CrashAtBoot \/ RestartAppServer
  <2>1. /\ app' = app \/ app' = EmptyApp
        /\ pending' = pending /\ op' = op /\ snaps' = snaps
    BY <1>10 DEF CrashAtBoot, RestartAppServer, process, disk
  <2> QED
    BY <1>4, <2>1
<1>11. ASSUME \/ \E h \in Arriving : InsertBlock(h)
              \/ \E v \in NextView : AdvanceView(v)
              \/ ImportCatchup \/ UNCHANGED vars
       PROVE  AppInv'
  <2>1. app' = app /\ pending' = pending /\ op' = op /\ snaps' = snaps
    BY <1>11 DEF InsertBlock, AdvanceView, ImportCatchup, vars, process, disk
  <2> QED
    BY <1>4, <2>1
<1> QED
  BY <1>5, <1>6, <1>7, <1>8, <1>9, <1>10, <1>11 DEF Next

\* As long as no operation on the files fails, the application has run
\* commands of the log, in its order and none twice, and its store is what
\* they give; lost requests, crashes, snapshots and restores included
\* (App::apply, App::snapshot, App::restore, attach_app, execute_and_commit).
THEOREM AppRunsInOrder == Spec => []AppInOrder
<1>1. TypeInv /\ AppInv => AppInOrder
  <2> SUFFICES ASSUME TypeInv, AppInv, failures = 0, up
               PROVE  /\ app.store = RunOf(app.ran)
                      /\ RunsInOrder(app.ran, mem.log)
    BY DEF AppInOrder
  <2>1. app # None
    BY NoneIsNothing DEF TypeInv, TypeOK
  <2> QED
    BY <2>1 DEF AppInv, Good, Held
<1>2. /\ TypeInv /\ OpInv /\ LogInv /\ TypeInv' /\ AppInv /\ [Next]_vars
      => AppInv'
  BY AppInvStep
<1> QED
  BY <1>1, <1>2, AppInit, LogInvariant, TypeInvariant, PTL DEF Spec
=============================================================================
