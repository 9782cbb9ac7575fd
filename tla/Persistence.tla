---------------------------- MODULE Persistence ----------------------------
(***************************************************************************)
(* The files of one replica (src/src/wal.rs, snapshot.rs), the process     *)
(* that writes them (the persistence part of replica.rs), its application  *)
(* (app.rs, grpc.rs), and recovery from them (recovery.rs), with one file  *)
(* operation per step and a crash before, in and after each.               *)
(*                                                                         *)
(* Abstractions.  The memory of the replica is its block tree, by hash,    *)
(* with the command of each block, the hashes of its committed log, and    *)
(* its view; high_qc is logged and replayed as the view is, and a proposal *)
(* of its own is not logged at all: both are in module Simulation.  The    *)
(* log file is given by what its entries say, kind by kind: entries of     *)
(* different kinds replay into different fields.  Checksums are ideal: an  *)
(* entry or a snapshot that is cut short is always noticed.                *)
(***************************************************************************)
EXTENDS Naturals, Sequences, FiniteSets, FiniteSetsExt, SequencesExt

CONSTANTS
  None,           \* Rust's Option::None
  Blocks,         \* the hashes of the blocks that arrive (bound)
  CommandOf,      \* the command of each of them
  Keys,           \* the keys of the key-value application
  Values,         \* its values
  Views,          \* the views the replica may reach (bound)
  Keep,           \* how many snapshots cleanup_old keeps: 3 in the code
  Remote,         \* whether the application is behind GrpcAppClient
  AttachFirst,    \* whether the application is attached before any commit
  Tears,          \* whether a crash may cut a write short
  MayImport,      \* whether a fresh replica imports the state Donor
  Donor,          \* what the donor of a catch-up exported
  MaxFailures,    \* file operations that return an error (bound)
  MaxFaults,      \* those and the crashes, of a remote server too (bound)
  MaxSnapshots    \* how often a snapshot is begun (bound)

ASSUME PersistenceAssumption ==
  /\ Blocks \subseteq Nat \ {0}
  /\ Views \subseteq Nat
  /\ Keep \in Nat \ {0}
  /\ {Remote, AttachFirst, Tears, MayImport} \subseteq BOOLEAN
  /\ {MaxFailures, MaxFaults, MaxSnapshots} \subseteq Nat

(***************************************************************************)
(* What is kept in memory and on the disk.                                 *)
(***************************************************************************)
Hashes == {0} \cup Blocks

NoOp == [verb |-> "none"]
Set(key, value) == [verb |-> "SET", key |-> key, value |-> value]
Get(key) == [verb |-> "GET", key |-> key]
Del(key) == [verb |-> "DEL", key |-> key]
SetWithoutValue(key) == [verb |-> "INVALID", key |-> key]

Commands == {NoOp} \cup {Set(k, v) : k \in Keys, v \in Values}
                  \cup UNION {{Get(k), Del(k), SetWithoutValue(k)} : k \in Keys}

\* The replica's own state: its blocks, its committed log and its view.
Memory == [tree : UNION {[known -> Commands] : known \in SUBSET Hashes},
           log : Seq(Hashes), view : Nat]

\* The application: its map, and as a history the commands it ran.
AppState == [store : [Keys -> Values \cup {None}],
             ran : Seq([hash : Hashes, cmd : Commands])]

Snapshot == [mem : Memory, app : AppState \cup {None}]

SnapshotFile == [bin : Snapshot \cup {None}, sum : {"absent", "cut", "whole"},
                 of : Snapshot \cup {None}]

WalFile == [file : {"absent", "partial", "whole"}, blocks : SUBSET Hashes,
            commits : Seq([hash : Hashes, index : Nat]),
            view : Nat \cup {None}, tail : {"clean", "short", "torn"}]

ASSUME NoneAssumption == None \notin Nat \cup Memory \cup AppState \cup Snapshot

ASSUME DataAssumption ==
  /\ CommandOf \in [Blocks -> Commands]
  /\ Donor \in [snap : Memory \cup {None}, wal : WalFile]

VARIABLES
  up,         \* whether the process runs
  mem,        \* the replica in its memory
  counter,    \* snapshot_counter
  pending,    \* pending_app_state
  attached,   \* whether an application is attached
  app,        \* the state of the application: its store and what it ran
  wal,        \* the write-ahead log file
  tmp,        \* whether the .tmp file of a truncation exists
  snaps,      \* the snapshot files, by their number
  op,         \* where take_snapshot is, and the snapshot it writes
  dirty,      \* history: the memory has something that was never logged
  owed,       \* history: the longest log that was held while not dirty
  crashes, failures, begun   \* history: what the bounds count

process == <<up, mem, counter, pending, attached, op>>
disk == <<wal, tmp, snaps>>
history == <<dirty, owed, crashes, failures, begun>>
vars == <<process, app, disk, history>>

(***************************************************************************)
(* The key-value application.                                              *)
(***************************************************************************)
EmptyStore == [k \in Keys |-> None]
EmptyApp == [store |-> EmptyStore, ran |-> <<>>]

\* KeyValueApp::apply; an invalid command is an error and changes nothing.
Put(store, cmd) ==
  CASE cmd.verb = "SET" -> [store EXCEPT ![cmd.key] = cmd.value]
    [] cmd.verb = "DEL" -> [store EXCEPT ![cmd.key] = None]
    [] OTHER -> store

Execute(a, hash, cmd) ==
  [store |-> Put(a.store, cmd),
   ran |-> Append(a.ran, [hash |-> hash, cmd |-> cmd])]

(***************************************************************************)
(* The write-ahead log file.                                               *)
(*   file    absent, partial (the header is cut short) or whole            *)
(*   blocks, commits, view    what its entries say                         *)
(*   tail    clean; short: less than a length prefix follows the entries,  *)
(*           which a reader takes for the end; torn: the file cannot be    *)
(*           read any more                                                 *)
(***************************************************************************)
NoWal == [file |-> "absent", blocks |-> {}, commits |-> <<>>, view |-> None,
          tail |-> "clean"]
EmptyWal == [NoWal EXCEPT !.file = "whole"]

BlockInserted(hash) == [kind |-> "block", hash |-> hash]
BlockCommitted(hash, index) ==
  [kind |-> "commit", hash |-> hash, index |-> index]
ViewChanged(view) == [kind |-> "view", view |-> view]
SnapshotTaken == [kind |-> "snapshot"]

AppendEntry(w, e) ==
  CASE e.kind = "block" -> [w EXCEPT !.blocks = @ \cup {e.hash}]
    [] e.kind = "commit" ->
         [w EXCEPT !.commits = Append(@, [hash |-> e.hash, index |-> e.index])]
    [] e.kind = "view" -> [w EXCEPT !.view = e.view]
    [] OTHER -> w

\* append writes at the end of the file, whatever is there.
Appended(w, e) ==
  IF w.tail = "clean" THEN AppendEntry(w, e) ELSE [w EXCEPT !.tail = "torn"]

\* An append that stops half way: nothing is there, some bytes of the length
\* are, or the length and some of the rest.
CutAppend(w) ==
  {w} \cup (IF Tears
            THEN {[w EXCEPT !.tail = IF @ = "clean" THEN t ELSE "torn"] :
                   t \in {"short", "torn"}}
            ELSE {})

(***************************************************************************)
(* Snapshot files and recovery.                                            *)
(***************************************************************************)
FreshMemory == [tree |-> [h \in {0} |-> NoOp], log |-> <<>>, view |-> 0]

\* Slip: the files are sorted the wrong way round.
Oldest == Min(DOMAIN snaps)

\* list_snapshots, whose last element load_latest takes.
Newest == Max(DOMAIN snaps)

\* load_latest: only the newest snapshot is looked at; without a checksum
\* file it is not checked.
Loadable ==
  DOMAIN snaps # {} =>
    /\ snaps[Newest].bin # None
    /\ \/ snaps[Newest].sum = "absent"
       \/ snaps[Newest].sum = "whole" /\ snaps[Newest].of = snaps[Newest].bin

\* The state a replay starts from; genesis goes into an empty tree.
Base == IF DOMAIN snaps = {} THEN FreshMemory ELSE snaps[Newest].bin.mem

\* read_entries_from_file: a length that is cut short ends the log, anything
\* else that is cut short or does not match its checksum is an error.
Readable(w) == w.file # "partial" /\ w.tail # "torn"

\* Slip: the index of a commit is not compared with the length of the log.
ReadableUnchecked == Loadable /\ Readable(wal)

\* recover succeeds: the snapshot loads, the log file can be read to its end
\* and every commit has the next index.
Recoverable ==
  /\ Loadable
  /\ Readable(wal)
  /\ \A i \in DOMAIN wal.commits :
       wal.commits[i].index = Len(Base.log) + i - 1

CommitsOf(w) == [i \in DOMAIN w.commits |-> w.commits[i].hash]

\* replay_entry for every entry; the command of a block is not restored.
Replay(m, w) ==
  [tree |-> [h \in DOMAIN m.tree \cup w.blocks |->
               IF h \in w.blocks THEN NoOp ELSE m.tree[h]],
   log |-> m.log \o CommitsOf(w),
   view |-> IF w.view = None THEN m.view ELSE w.view]

Recovered == Replay(Base, wal)

\* import_catchup_state of what export_catchup_state gave: the fields of the
\* snapshot or else the importer's own, every block inserted without its
\* command, every commit pushed whatever its index.  It gives the importer's
\* epoch to all of them, and leaves its validators alone; neither is in a
\* Memory, nor are high_qc and next_hash.
Imported(m, export) ==
  LET w == export.wal
  IN  [(IF export.snap = None THEN m ELSE export.snap) EXCEPT
         !.tree = [h \in DOMAIN @ \cup w.blocks |->
                     IF h \in w.blocks THEN NoOp ELSE @[h]],
         !.log = @ \o CommitsOf(w),
         !.view = IF w.view = None THEN @ ELSE w.view]

(***************************************************************************)
(* The replica at work.                                                    *)
(***************************************************************************)
Idle == [at |-> "idle", snap |-> None]

Ready == up /\ op = Idle

First(hashes) == {h \in hashes : \A g \in hashes : h <= g}

Arriving == First(Blocks \ DOMAIN mem.tree)

\* commit_all goes through the blocks in the order of their hashes.
Committing ==
  IF AttachFirst /\ ~attached THEN {}
  ELSE First(DOMAIN mem.tree \ Range(mem.log))

NextView == {mem.view + 1} \cap Views

\* What the process may be appending now.
EntriesDue ==
  CASE Ready -> {BlockInserted(h) : h \in Arriving}
                \cup {BlockCommitted(h, Len(mem.log)) : h \in Committing}
                \cup {ViewChanged(v) : v \in NextView}
    [] op.at = "mark" -> {SnapshotTaken}
    [] OTHER -> {}

FileMayFail == failures < MaxFailures /\ crashes + failures < MaxFaults

\* An append whose result nobody looks at.
Logs(e) ==
  \/ /\ wal' = Appended(wal, e)
     /\ UNCHANGED <<dirty, failures>>
  \/ /\ FileMayFail
     /\ failures' = failures + 1
     /\ wal' \in CutAppend(wal)
     /\ dirty' = TRUE

\* validate_and_insert_proposal
InsertBlock(h) ==
  /\ Ready
  /\ Logs(BlockInserted(h))
  /\ mem' = [mem EXCEPT !.tree = [g \in DOMAIN @ \cup {h} |->
                                    IF g = h THEN CommandOf[h] ELSE @[g]]]
  /\ UNCHANGED <<up, counter, pending, attached, op, app, tmp, snaps,
                 owed, crashes, begun>>

\* advance_view_with_reason
AdvanceView(v) ==
  /\ Ready
  /\ Logs(ViewChanged(v))
  /\ mem' = [mem EXCEPT !.view = v]
  /\ UNCHANGED <<up, counter, pending, attached, op, app, tmp, snaps,
                 owed, crashes, begun>>

\* Slip: a request without an answer is sent again.
AppAfterRetry(h) ==
  IF ~attached THEN {app}
  ELSE LET once == Execute(app, h, mem.tree[h])
       IN  {once} \cup (IF Remote THEN {app, Execute(once, h, mem.tree[h])}
                        ELSE {})

\* App::apply: a request to a remote application may get lost, and so may
\* the answer; either error is printed and forgotten.
AppAfter(h) ==
  IF ~attached THEN {app}
  ELSE {Execute(app, h, mem.tree[h])} \cup (IF Remote THEN {app} ELSE {})

\* execute_and_commit: the entry, the log, the application.
CommitBlock(h) ==
  /\ Ready
  /\ Logs(BlockCommitted(h, Len(mem.log)))
  /\ mem' = [mem EXCEPT !.log = Append(@, h)]
  /\ app' \in AppAfter(h)
  /\ owed' = IF dirty' \/ wal'.tail # "clean" THEN owed ELSE mem'.log
  /\ UNCHANGED <<up, counter, pending, attached, op, tmp, snaps,
                 crashes, begun>>

\* App::snapshot, whose error counts as no state at all.
AppSnapshot ==
  {IF attached THEN app ELSE None} \cup (IF Remote THEN {None} ELSE {})

\* App::restore, whose error is printed and forgotten.
AppRestore(state) == {state} \cup (IF Remote THEN {app} ELSE {})

\* attach_app: the state of the loaded snapshot, if it has one, is restored.
AttachApp ==
  /\ Ready /\ ~attached
  /\ attached' = TRUE
  /\ pending' = None
  /\ app' \in IF pending = None THEN {app} ELSE AppRestore(pending)
  /\ UNCHANGED <<up, mem, counter, op, disk, history>>

\* A replica that has just joined imports the state of a donor, as the test of
\* dynamic membership does.  Nothing of it is logged.
ImportCatchup ==
  /\ MayImport
  /\ Ready /\ mem.log = <<>>
  /\ mem' = Imported(mem, Donor)
  /\ dirty' = TRUE
  /\ UNCHANGED <<up, counter, pending, attached, op, app, disk, owed,
                 crashes, failures, begun>>

(***************************************************************************)
(* take_snapshot, one file operation at a time.                            *)
(***************************************************************************)
Reaches(at) == op' = [op EXCEPT !.at = at]

SnapshotFrame == UNCHANGED <<up, mem, pending, attached, app, crashes, begun>>

File(id) == IF id \in DOMAIN snaps THEN snaps[id]
            ELSE [bin |-> None, sum |-> "absent", of |-> None]

Writes(file) ==
  snaps' = [id \in DOMAIN snaps \cup {counter} |->
              IF id = counter THEN file ELSE snaps[id]]

\* Snapshot::capture, and File::create of the .bin, which empties it.  The
\* simulation asks should_snapshot first; take_snapshot itself, which is
\* public, does not, and takes one of an empty log too.
BeginSnapshot ==
  /\ Ready /\ begun < MaxSnapshots
  /\ begun' = begun + 1
  /\ \E state \in AppSnapshot :
       op' = [at |-> "bin", snap |-> [mem |-> mem, app |-> state]]
  /\ Writes([File(counter) EXCEPT !.bin = None])
  /\ UNCHANGED <<up, mem, counter, pending, attached, app, wal, tmp,
                 dirty, owed, crashes, failures>>

WriteBin ==
  /\ op.at = "bin" /\ Reaches("sum")
  /\ Writes([File(counter) EXCEPT !.bin = op.snap])
  /\ SnapshotFrame /\ UNCHANGED <<counter, wal, tmp, dirty, owed, failures>>

CreateSum ==
  /\ op.at = "sum" /\ Reaches("hash")
  /\ Writes([File(counter) EXCEPT !.sum = "cut", !.of = None])
  /\ SnapshotFrame /\ UNCHANGED <<counter, wal, tmp, dirty, owed, failures>>

WriteSum ==
  /\ op.at = "hash" /\ Reaches("mark")
  /\ Writes([File(counter) EXCEPT !.sum = "whole", !.of = op.snap])
  /\ SnapshotFrame /\ UNCHANGED <<counter, wal, tmp, dirty, owed, failures>>

MarkSnapshot ==
  /\ op.at = "mark" /\ Reaches("tmp")
  /\ Logs(SnapshotTaken)
  /\ SnapshotFrame /\ UNCHANGED <<counter, tmp, snaps, owed>>

\* truncate_after_snapshot: create_new fails if the file exists already.
CreateTmp ==
  /\ op.at = "tmp"
  /\ tmp' = TRUE
  /\ IF tmp THEN op' = Idle ELSE Reaches("rename")
  /\ SnapshotFrame /\ UNCHANGED <<counter, wal, snaps, dirty, owed, failures>>

\* The rename, which makes the snapshot the only copy of what it holds.
RenameTmp ==
  /\ op.at = "rename" /\ Reaches("finish")
  /\ tmp' = FALSE
  /\ wal' = EmptyWal
  /\ dirty' = FALSE
  /\ owed' = mem.log
  /\ SnapshotFrame /\ UNCHANGED <<counter, snaps, failures>>

\* Slip: the snapshots kept are the oldest.
OldestKept ==
  {id \in DOMAIN snaps : Cardinality({i \in DOMAIN snaps : i < id}) < Keep}

\* cleanup_old
Kept ==
  {id \in DOMAIN snaps : Cardinality({i \in DOMAIN snaps : i > id}) < Keep}

FinishSnapshot ==
  /\ op.at = "finish" /\ op' = Idle
  /\ counter' = counter + 1
  /\ snaps' = [id \in Kept |-> snaps[id]]
  /\ SnapshotFrame /\ UNCHANGED <<wal, tmp, dirty, owed, failures>>

\* An operation of save or truncate_after_snapshot returns an error, and
\* take_snapshot returns it to a caller that drops it.
SnapshotFails ==
  /\ op.at \in {"bin", "sum", "hash", "tmp", "rename"}
  /\ FileMayFail
  /\ failures' = failures + 1
  /\ op' = Idle
  /\ dirty' = TRUE
  /\ SnapshotFrame /\ UNCHANGED <<counter, disk, owed>>

(***************************************************************************)
(* Crash and recovery.                                                     *)
(***************************************************************************)
\* Slip: a missing log file stays missing.
LogFileAsFound(w) == w

\* The log file that the caller of recover attaches: open, or else create.
LogFile(w) == IF w.file = "absent" THEN EmptyWal ELSE w

\* recover, attach_wal, and the genesis entry its caller logs in an empty
\* file.
Recover ==
  /\ ~up /\ Recoverable
  /\ LET file == LogFile(wal)
     IN  wal' = IF /\ [file EXCEPT !.tail = "clean"] = EmptyWal
                   /\ DOMAIN Recovered.tree = {0}
                THEN Appended(file, BlockInserted(0)) ELSE file
  /\ up' = TRUE
  /\ mem' = Recovered
  /\ counter' = IF DOMAIN snaps = {} THEN 0 ELSE Newest + 1
  /\ pending' = IF DOMAIN snaps = {} THEN None ELSE snaps[Newest].bin.app
  /\ dirty' = FALSE
  /\ owed' = Recovered.log
  /\ UNCHANGED <<attached, op, app, tmp, snaps, crashes, failures, begun>>

\* The process dies: between two steps, or in an append that got nowhere, to
\* some point, or to its end before the memory could follow.
Crash ==
  /\ up /\ crashes + failures < MaxFaults
  /\ crashes' = crashes + 1
  /\ wal' \in CutAppend(wal) \cup {Appended(wal, e) : e \in EntriesDue}
  /\ up' = FALSE
  /\ mem' = FreshMemory
  /\ counter' = 0
  /\ pending' = None
  /\ attached' = FALSE
  /\ op' = Idle
  /\ app' = IF Remote THEN app ELSE EmptyApp
  /\ UNCHANGED <<tmp, snaps, dirty, owed, failures, begun>>

\* The process dies while WAL::create writes the header or while genesis is
\* logged.
CrashAtBoot ==
  /\ Tears /\ ~up /\ wal.file = "absent" /\ crashes + failures < MaxFaults
  /\ crashes' = crashes + 1
  /\ wal' \in {[wal EXCEPT !.file = "partial"]} \cup CutAppend(EmptyWal)
  /\ UNCHANGED <<process, app, tmp, snaps, dirty, owed, failures, begun>>

\* The server of a remote application starts anew, with an empty store.
RestartAppServer ==
  /\ Remote /\ crashes + failures < MaxFaults
  /\ crashes' = crashes + 1
  /\ app # EmptyApp /\ app' = EmptyApp
  /\ UNCHANGED <<process, disk, dirty, owed, failures, begun>>

Init ==
  /\ up = FALSE
  /\ mem = FreshMemory
  /\ counter = 0
  /\ pending = None
  /\ attached = FALSE
  /\ app = EmptyApp
  /\ wal = NoWal
  /\ tmp = FALSE
  /\ snaps = [id \in {} |-> None]
  /\ op = Idle
  /\ dirty = FALSE
  /\ owed = <<>>
  /\ crashes = 0 /\ failures = 0 /\ begun = 0

TakeSnapshot ==
  \/ BeginSnapshot \/ WriteBin \/ CreateSum \/ WriteSum \/ MarkSnapshot
  \/ CreateTmp \/ RenameTmp \/ FinishSnapshot \/ SnapshotFails

Next ==
  \/ \E h \in Arriving : InsertBlock(h)
  \/ \E h \in Committing : CommitBlock(h)
  \/ \E v \in NextView : AdvanceView(v)
  \/ AttachApp
  \/ ImportCatchup
  \/ TakeSnapshot
  \/ Recover
  \/ Crash
  \/ CrashAtBoot
  \/ RestartAppServer

Spec == Init /\ [][Next]_vars

(***************************************************************************)
(* Properties.                                                             *)
(***************************************************************************)
\* The shape of the process and of its files.
TypeOK ==
  /\ up \in BOOLEAN /\ attached \in BOOLEAN
  /\ tmp \in BOOLEAN /\ dirty \in BOOLEAN
  /\ mem \in Memory
  /\ pending \in AppState \cup {None}
  /\ app \in AppState
  /\ wal \in WalFile
  /\ DOMAIN snaps \subseteq Nat
  /\ \A id \in DOMAIN snaps : snaps[id] \in SnapshotFile
  /\ counter \in Nat
  /\ op \in [at : {"idle", "bin", "sum", "hash", "mark", "tmp", "rename",
                   "finish"},
            snap : Snapshot \cup {None}]
  /\ owed \in Seq(Hashes)
  /\ crashes \in Nat /\ failures \in Nat /\ begun \in Nat
  /\ op # Idle => up
  /\ up => wal.file = "whole"

SameState(a, b) ==
  /\ DOMAIN a.tree = DOMAIN b.tree
  /\ a.log = b.log
  /\ a.view = b.view

\* The replica is at work, no operation on its files has failed or was cut
\* short, and no truncation has left its .tmp file behind.
Quiet == Ready /\ ~dirty /\ ~tmp /\ wal.tail = "clean"

\* recovery.rs: snapshot and log give back the state before the crash.  From
\* any number of crashes, recoveries and snapshots, a crash between two
\* operations of a quiet replica loses nothing but the commands.
QuietIsDurable == Quiet => Recoverable /\ SameState(Recovered, mem)

\* Whatever fails, a recovery that succeeds has every commit that was logged
\* without an error, in its place.
NothingCommittedLost == Recoverable => IsPrefix(owed, Recovered.log)

\* Whatever fails, recovery invents no commit, repeats none and leaves out
\* none but the last ones.
RecoveredIsPrefix == up /\ Recoverable => IsPrefix(Recovered.log, mem.log)

RunOf(ran) ==
  FoldLeft(LAMBDA store, step : Put(store, step.cmd), EmptyStore, ran)

\* The commands come from blocks of the log, in its order and none twice.
RunsInOrder(ran, log) ==
  \E at \in [DOMAIN ran -> DOMAIN log] :
    /\ \A i \in DOMAIN ran : log[at[i]] = ran[i].hash
    /\ \A i, j \in DOMAIN ran : i < j => at[i] < at[j]

\* App's contract: commands are applied in the order of their commits, none
\* twice, and restore brings back what snapshot took.  (That none is left out
\* does not hold.)  A failed append can break it, a lost request cannot.  A
\* request whose answer is lost has been executed or never will be: that one
\* is executed after a later connection is left out.
AppInOrder ==
  failures = 0 /\ up /\ attached =>
    /\ app.store = RunOf(app.ran)
    /\ RunsInOrder(app.ran, mem.log)

\* README: replicas automatically recover their last committed state.
AlwaysRecovers == ~up => Recoverable

\* App: apply is called exactly once for each committed block, in order.
AppRunsTheLog ==
  Ready /\ attached => [i \in DOMAIN app.ran |-> app.ran[i].hash] = mem.log
=============================================================================
