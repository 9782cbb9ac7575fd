# PersistHotStuff in TLA+

A model of the consensus core of this repository (`src/src/*.rs`): one replica,
the cluster that `simulation.rs` makes of n replicas with faults, persistence
and recovery, the same cluster with clients and changing validators, the files
of one replica with its application, what the cluster promises, and proofs
about each of them.  The line numbers below are those of `src/src/`.

## 1. The system

### Components, their state and their operations

| component | state | operations | modelled in |
|---|---|---|---|
| Replica (`replica.rs`) | view, block tree (by hash), `high_qc`, vote pool, committed log, validators, epoch, keys, write-ahead log, snapshot counter, client queue | `handle_vote`, `try_form_qc`, `apply_high_qc_from_network`, `propose*`, `validate_and_insert_proposal`, `try_commit_once`, `commit_all`, `start_view`, `advance_view_with_reason`, catch-up export/import, `take_snapshot` | `ReplicaOps`, `Replica` |
| Membership (`replica.rs:580`) | validators, epoch, `config.n` | `JoinValidator`, `RemoveValidator`, applied at commit | `ReplicaOps`, `Replica`, `Pacemaker` |
| Keys (`crypto.rs`) | own key pair, public keys | `sign`, `verify`, `verify_qc`, `add_public_key`, `remove_public_key`, `distribute_keys` | `ReplicaOps`, `Simulation` |
| Simulation (`simulation.rs`) | replicas, crashed and unresponsive replicas, a logical clock, the step | `run_one_round`, `set_replica_unresponsive`, `crash_replica`, `recover_replica`, `new_with_options`, `verify_safety`, `run_one_round_with_pacemaker`, `enqueue_client_command` | `Simulation`, `Progress`, `Pacemaker` |
| Network (`network.rs`) | message queue, counter of hashes | `broadcast_*`, `send_vote`, `generate_unique_hash` | `Simulation` |
| Write-ahead log (`wal.rs`) | a file of entries with checksums | `create`, `open`, `append`, `read_all`, `truncate_after_snapshot` | `Persistence`, by file operation; `Simulation`, by what an entry does on replay |
| Snapshots (`snapshot.rs`) | files and checksums | `capture`, `save`, `load_latest`, `cleanup_old` | `Persistence`, by file operation; `Simulation`, as one step |
| Recovery (`recovery.rs`) | - | `recover`, `replay_entry` | `Persistence`, `Simulation` |
| Dummy proposals and client queue (`replica.rs:755-883`, `simulation.rs:931-1142`) | queue, whether dummies are enabled | `propose_next_with_hash`, `should_propose_dummy` | `Pacemaker` |
| Catch-up (`replica.rs:906-1014`) | - | `export_catchup_state`, `import_catchup_state` | `Persistence` |
| Application (`app.rs`), gRPC (`grpc.rs`) | key-value map | `apply`, `snapshot`, `restore` | `Persistence` |
| Visualiser, command line, examples | - | printing, fixed sequences of calls | not modelled |

### How they interact

Everything runs in one thread.  A round of the simulator is a leader's
proposal, its delivery to the other replicas, their votes, the certificate, its
delivery, `commit_all` at every replica and a view change at every replica; the
message queue is empty again when the round returns.  Faults are injected
between rounds.  A replica writes log entries as it goes, and a snapshot after
every hundredth commit; recovery loads the newest snapshot and replays the log
over it.  A recovered replica then copies blocks, log and certificate from the
first replica that is not crashed.  With the pacemaker a leader proposes the
last command of its queue, or a dummy block when it has none, or nothing.  Each
committed block is handed to the application of the replica, which may be a
process of its own; a snapshot carries the application's state along.

### What is hard

* The commit rule (`find_committed_block`) looks at the first child by hash at
  each level, so it depends on which blocks a replica has seen.
* `high_qc`, the tree and the view of a replica may lag behind, after silence
  or recovery, and a lagging replica may lead.
* What a disk keeps differs from what the memory held: no signatures, no
  proposals of the replica itself, no commands.
* A committed membership command changes the rules for votes already counted.
* A snapshot is six file operations and the log one more file, and a crash or an
  error may come between any two of them; errors of `append` are dropped.
* A change of the validators starts an epoch, in which certificates of the old
  one do not count, and the leader is picked by two rules that disagree.
* There is no view synchronisation and no transfer of a single missed block,
  so one missed proposal matters for ever.

`PROJECT.json` lists each hazard with its line and the properties about it.

### What makes each component correct

* Replica: a block is executed with a certified chain that stays in the tree;
  the votes that wait belong to the epoch; what it carries as its highest
  certificate is one.
* Membership: the validators are 3f+1 after every change, and a join that is
  committed takes effect.
* Cluster: all logs are prefixes of one ledger, in which no block stands twice;
  executed blocks lie on one branch; a view has one block; steady rounds lead to
  commits.
* Persistence: the disk keeps up with the memory; nothing durable is taken
  back; views never fall; whatever fails, what recovery brings back is a prefix
  of what was committed and has all that was logged without an error.
* Pacemaker: a client's command is executed once, and in the end; blocks go on
  without requests; equal logs mean equal validators.
* Application: commands are applied in commit order and none twice.

## 2. The modules

| module | what it is |
|---|---|
| `ReplicaOps` | the operations of a replica as operators from its state, a record, to its next state |
| `Replica` | one replica under every order of calls of its public operations |
| `ReplicaProofs` | theorems about `Replica` |
| `Ledger` | what the cluster promises: one growing ledger, of which every replica holds a prefix |
| `DataLemmas` | what the proofs need about prefixes, finite sets, greatest elements, remainders and reachability |
| `Simulation` | the cluster of `simulation.rs`, which composes n replicas and their disks, and its refinement of `Ledger` |
| `SimulationProofs` | theorems about `Simulation` |
| `CorrectProofs` | theorems about the replicas of `Simulation` that never fail: lockstep, the refinement of `Ledger`, certified rounds |
| `CrashStop` | `Simulation` whose replicas stop for good |
| `CrashStopProofs` | theorems about `CrashStop`: lockstep, the refinement of `Ledger`, one branch |
| `Progress` | `Simulation` with two observers, for liveness within a bound |
| `Pacemaker` | `Simulation` with `run_one_round_with_pacemaker`: client commands, dummy blocks and changes of the validators |
| `PacemakerProofs` | theorems about `Pacemaker` |
| `Persistence` | the files of one replica, one file operation a step, with its application, recovery and catch-up |
| `PersistenceProofs` | theorems about `Persistence` |
| `MCReplica`, `MCSimulation`, `MCProgress`, `MCPacemaker`, `MCPersistence` | the instances for TLC |

`Replica` and `Simulation` share `ReplicaOps`: the operation that is proved
about under every order of calls is the one that the cluster performs.

**State.**  The record `rep` has the fields of `struct Replica`
(`replica.rs:24`) that the protocol reads.  The vote pool, a map from hash to a
list of signatures, is a set of signatures that name their block.  The
committed log holds hashes.  `nodes[r]` in `Simulation` is the memory of a
replica and its disk.  The disk is represented by the state that replaying it
would give (`LogBlock`, `LogHighQC`, `LogView`, `LogCommit` apply one entry,
`Capture` is a snapshot), because `recover` is a fold over the entries; the
entry `QCFormed` is always followed by `HighQCUpdated` and adds nothing to it.
`quiet[r]` counts the rounds since `last_response_ms`.

**Actions.**  In `Replica` each public operation is an action whose guard is
the code's chain of early returns; a call that is refused changes nothing and
is a stuttering step.  `commit_all` is a loop over `try_commit_once`, so
`Replica` has the single step and `Simulation` the closed form of the loop.  In
`Simulation` an action is a round or one fault: `LeaderSilentRound`,
`NoProposalRound` and `ProposalRound` are the three ways through
`run_one_round`.  `Pacemaker` replaces the rounds by `TimeoutRound`,
`SkippedRound`, `CommandRound` and `DummyRound`, the ways through
`run_one_round_with_pacemaker`; of the faults of `Simulation` it has silence,
crashes and recovery, and not the end of a silence (`Resume`) or the restart of
the process (`RestartAll`); it adds the queue of each replica and the set of
those that propose dummies, which a crash empties.  A call past `max_steps`, or
with everybody crashed, returns `false`, but it has moved the clock and crashed
whoever is silent for too long: `RefusedRound` and `RefusedPacemakerRound`.
`Answered` and `Unanswered` say whose `last_response_ms` a call sets:
`run_one_round` that of every replica that is up, the pacemaker's round no one's
when it ends without a proposal (`simulation.rs:982`-`1016`).

**The files.**  `Persistence` takes apart what is one step in `Simulation`.
Its replica inserts, commits and changes views; each of these appends an entry,
which may succeed, fail with an error that nobody looks at, or be cut short by
a crash.  `wal` is the log file: what its entries say, kind by kind, and
whether the end of the file is `clean`, `short` (part of a length prefix, which
`read_entries_from_file` takes for the end) or `torn` (anything else, an
error).  An append behind a short end makes it torn.  `snaps` holds for each
number the content of the `.bin` file and of its checksum.  `op` is where
`take_snapshot` is: `BeginSnapshot` (the file is created, or emptied),
`WriteBin`, `CreateSum`, `WriteSum`, `MarkSnapshot` (the entry `SnapshotTaken`),
`CreateTmp`, `RenameTmp`, `FinishSnapshot`; `SnapshotFails` is an error in any
of them.  `Crash` may come anywhere; `Recover` is enabled when `recover` returns
no error.  `app` is the store of the application and, as a history, the
commands it ran.  `dirty` and `owed` are histories too: whether something in
memory never reached the disk, and the longest log that was safe.

`ImportCatchup` is `import_catchup_state` by a replica that has no commits yet,
which is what its only caller, a test, does; the state it imports is a constant.
`BeginSnapshot` does not ask for a commit: `should_snapshot` does, and the
simulation calls it first, but `take_snapshot` is public and does not.

What `Persistence` leaves out.  The commit rule: any block may be committed once
those before it are, since which blocks are is the matter of `Replica`.
`high_qc`, which is logged and replayed as the view is, and the validators, so
that the epoch which an importer gives to what it imports (`replica.rs:957`) does
not show.  A request to the application that is executed after the connection it
was sent on has been replaced.
Failure to open the log again after a rename that succeeded.  A snapshot whose
bytes change on the disk: checksums are taken to be ideal.

**Abstractions.**  Hashes are natural numbers, as in the code.  A signature is
the record of what was signed; nobody signs for anybody else.  Text of client
transactions, timers below the resolution of a round, printing and
`committed_up_to` are left out.  Machine-word overflow of views and hashes is
out of reach of any run (they grow by one a round) and left out.

The definitions whose comment begins with *Slip* belong to no specification:
each is a plausible mistake in the definition it precedes, and the property
that catches it is listed in `PROJECT.json` under `mutants`.

## 3. The runs

### Runs that hold

| run | instance and bounds | what it shows |
|---|---|---|
| `replica` | replica 0 of five; a chain of four blocks that removes validator 4 and asks for 5 to join, a fork, a block of the next epoch, one block of its own; eleven votes, one of which names another view than its block, two certificates; views 0 and 1 | types; every commit keeps its chain; the pool is of the epoch; `high_qc` verifies, unless its signatures name different views |
| `sim_rounds` | n = 5, f = 1, replica 1 or 2 falls silent, is crashed after two rounds, recovers; 10 rounds; snapshot every 2 commits | the logs implement `Ledger`; the log of the three that never fail is the same and is all of it; whoever of them leads a quorum that is in step gets its block certified; six steady rounds with nobody down make every replica commit, and with one down all the others |
| `sim_faults` | n = 4, replica 2 may fall silent, speak again, be crashed by the timeout after two rounds or by `crash_replica` at any time, and recover; one restart of the process; 6 rounds before and 6 after | until the restart: executed blocks lie on one branch; the disk equals the memory, up to signatures and the replica's own blocks; the three that never fail are in step and accept each other's certificates.  Throughout: certified blocks stay on a quorum of disks; a view has one block; durable logs and views never go back |
| `persistence` | two blocks besides genesis, one view change, two snapshots of which one is kept, two faults of which one may be a failing file operation; a remote application, attached at any time; an import by a fresh replica of a donor's state | a quiet replica loses nothing in a crash; what was logged without an error is recovered in its place; recovery invents, repeats and skips no commit; the application gets its commands in order and none twice |
| `pacemaker` | n = 5, replica 1 falls silent, is crashed by the timeout after two rounds or by `crash_replica`, and recovers; a client transaction and the removal of validator 4, put in before the third round; 9 rounds; snapshot every 2 commits | no command is executed twice or is in two places; some block is committed every six rounds with at most f down; replicas with the same log have the same validators, keys and epoch; a command is executed everywhere in the end |

Why the bounds suffice for what they are meant to show.  A block is committed
by two further blocks, so three good rounds in a row commit; a faulty round
leaves at most one block without a certificate.  Replica 2 of `sim_faults` leads
the third round: the six rounds hold its crash by the timeout and its recovery
before that, its turn as a leader, and the commit of what it proposed.  The ten
of `sim_rounds` hold commits after a recovery as well.  Nine rounds of
`pacemaker` hold a command that is lost with its leader, one whose block gets no
certificate, the change of the validators and the rounds after it.  Two faults
in `persistence` are what it takes to leave a snapshot half way, recover, and
fail again on what was left; two snapshots are what it takes to overwrite one or
to delete one.  The instance of `replica` has a block of each kind that
`validate_and_insert_proposal` tells apart, and quorums in both epochs.
`SnapshotInterval` is 2 where the code has 100, so that both a recovery from
the log alone and one from a snapshot occur.  One replica is faulty at a time,
which is f for n = 4 and n = 5.

What they do not show.  `NoFork` holds in `sim_faults`, where one replica is
faulty; with two, of which one recovers from the other, it does not (`fork`
below).  Nor does it tell the three-chain rule from a two-chain rule within these
bounds; its mutant is a rule that commits on the wrong certificate.

`CHECK_DEADLOCK FALSE` is set for the cluster, where a simulation stops at
`max_steps`, and for the files, where a replica that cannot recover stays down.

### Liveness

`PacemakerSpec` assumes weak fairness of a round, `WF_step(RoundComes)`: the
callers of the simulation run rounds in a loop, so a round that can come does.
`RoundComes` names what a round does to `step`, which nothing else changes; the
four ways through a round are exhaustive, so it is a round in other words.
Nothing is owed by the user of the simulation: no fault, no recovery, no
command.  `CommandsCommitted` is stated under it: in a cluster where nobody is
ever down, each command put in before the third round is executed at every
replica in the end, unless the validators change (after which `epoch_halt` shows
what happens).  A simulation ends after `max_steps` rounds, so this says that
nine rounds are enough.

For the other liveness claims fairness would say nothing: `run_one_round`
returns `false` for ever after `max_steps` rounds, and nothing in the code would
justify fairness of the faults or of recovery.  `Progress` states them as a
bound: it counts the rounds since the last change among the faulty replicas and
requires that every responsive replica has committed after `Patience` of them.
`NoStalls` counts the rounds since the last commit.  These are safety
properties, and a counterexample to one is a real run of that many rounds
without a commit.

### Runs that are violated

Each states what a document or a comment says, and shows that the code does
otherwise.

| run | says | the code |
|---|---|---|
| `agreement_crash` | `README.md:322`, `388`: logs are prefix-consistent whatever fails | the recovered leader's proposal carries a certificate without signatures, stays in its own tree only, and hides the certified child from the commit rule |
| `fork` | `MULTI_REPLICA_IMPLEMENTATION.md:341`: honest replicas do not commit conflicting blocks | with n = 8 and f = 2, two replicas fail and all correct ones execute two branches (below) |
| `stall_fault` | `README.md:374`, `400`: four replicas go on with three | a proposer does not vote, so a quorum of three needs three others |
| `epoch_halt` | `README.md:57`: replicas are added and removed while the system runs | `high_qc` stays of the old epoch, every proposal carries it and everybody rejects it (`replica.rs:453`): nothing is certified any more, with nobody down.  Besides, the simulator and the replicas pick different leaders after a removal (`simulation.rs:290`) |
| `join_refused` | `README.md:57`: 4 -> 5 -> 6 -> 7 validators while the system runs; `README.md:459`, `482`: 4 -> 7 is valid | the number of validators must be 3f+1 after each single command (`replica.rs:167`), so a join by four is committed and dropped, as `README.md:457` says of 4 -> 5; nothing leads from four to seven (`MembershipChangesOnce`) |
| `recovery_blocked` | `README.md:53`: replicas automatically recover | after a crash in the middle of `take_snapshot` recovery fails for good: commits are both in the snapshot and in the log, or the newest snapshot is cut short |
| `app_misses_commits` | `app.rs:89`: `apply` is called exactly once for each block | replay puts commits into the log without calling the application |

The history that `fork` finds has twelve states.  Replica 5 crashes; replica 0 falls
silent after a round; the others go on and commit.  Then 5 recovers, and its
donor is the first replica that is not crashed (`simulation.rs:652`), which is 0:
it ends with the current view, a certificate that is rounds old and, because the
one on its own disk is older still, that certificate with its signatures.  When
its turn comes it extends the old block.  Everybody accepts, since
`validate_and_insert_proposal` asks only that the certificate verifies and its
block is known (`replica.rs:444`-`463`); no replica is locked on its own branch.
The block is certified, the next leaders build on it, and it is committed after
blocks of the other branch.  The correct replicas do so in step, so the logs
stay equal and `verify_safety` reports nothing: `CorrectKeepLedger` below is true
of this history.  What is lost is that the ledger is a branch of the tree.

More disagreements were met with the same modules and have no run of their own.

* `try_form_qc` assigns `high_qc` without comparing (`replica.rs:243`), so a late
  quorum takes it back, although `README.md:115` and `wal.rs:157` call it the
  highest certificate.
* With n = 4 and a replica that falls silent for one round and speaks again
  before the timeout, `Agreement` fails without any crash: the replica misses an
  uncertified block, and commits a block that the others skip.
  `RecoversLiveness` fails too: it rejects all that builds on the block it
  missed, and nothing transfers the block to it.
* With n = 7 and two silent replicas `Agreement` fails because recovery copies
  from a replica that is silent and behind (`simulation.rs:652`).
* A new process starts the counter of the hashes at 1 again
  (`simulation.rs:149`), while the blocks of the earlier one are recovered:
  hashes are not unique across restarts, as `network.rs:188` says they are.
* A proposer does not log its proposal (`replica.rs:415`) although `wal.rs:4`
  says that every state change is logged; `DiskMirrorsMemory` makes the
  exception explicit.
* A recovered replica forgets a change of the validators that its log holds and
  its snapshot does not, since commands are replayed as `NoOp`
  (`recovery.rs:291`); `README.md:60` says that all replicas agree on the
  validators of an epoch.  `StateFollowsLog` is stated for the others.
* After a restart of all replicas the certificate of each has no signatures
  (`recovery.rs:279`) and `validate_and_insert_proposal` rejects every proposal
  (`replica.rs:456`), so nothing is committed any more, although `README.md:323`
  says that liveness always recovers: `RecoversLiveness` fails with
  `MaxRestarts = 1`.
* `README.md:77` claims tolerance of f Byzantine replicas.  `handle_vote` does
  not compare the view of a vote with that of its block (`replica.rs:185`-`227`),
  the pool keeps the bare signature, and the certificate takes the view of the
  last vote (`replica.rs:242`).  One validator that signs another view thus gives
  a leader a certificate that `verify_qc` refuses (`crypto.rs:196`-`204`) at
  every replica.  `HighQCVerifies` excepts this case and no other; its run has
  such a vote.
* Commands do not survive a crash, as `README.md:54` says they do, except those
  that a snapshot has: replay gives every block the command `NoOp`
  (`recovery.rs:291`).  What `NothingCommittedLost` says survives is the log of
  hashes.
* `PERSISTENCE_DESIGN.md:575-588` says of an entry whose payload is cut short
  that the log stops before it; `read_entries_from_file` returns an error
  (`wal.rs:409`).  `recovery_blocked` excludes such cuts, to show that recovery
  is blocked without them.

`ImplementsLedger`, which is about all replicas, holds in `sim_rounds` and fails,
like `Agreement`, in the larger fault models of these runs: it is the promise
kept as long as a replica that stops stops for good, however many of them do
(`CrashStopImplementsLedger`), or is crashed by the timeout and recovers from a
replica that is up to date.  `CorrectLedger`, which is about those that never
fail, holds whatever the others do (`CorrectKeepLedger`).

## 4. The proofs

Each theorem is about every value of the constants that satisfies the named
assumptions of its module; the runs of section 3 are instances of it.

| module | theorem | property |
|---|---|---|
| `ReplicaProofs` | `TypeCorrect` | `TypeOK` |
| | `CommitsStayJustified` | `CommittedHasThreeChain` |
| | `PoolStaysCurrent` | `PoolIsCurrent` |
| | `MembershipChangesOnce` | `MembershipFrozen` of `ReplicaProofs` |
| | `CertificatesVerify` | `HighQCVerifies`, if the announced certificates are like that |
| `SimulationProofs` | `SimulationTypes` | `TypeOK` |
| | `OneBlockInView` | `OneBlockPerView` |
| | `CertificatesAreDurable` | `CertifiedIsDurable` |
| | `DiskLogsGrow` | `DurableLogAppendOnly` |
| | `ViewsGrow` | `ViewsNeverFall` |
| | `DisksMirror` | `DiskMirrorsMemory` |
| `CorrectProofs` | `CorrectStayInLockstep` | `CorrectInLockstep` |
| | `CorrectAreHonoured` | `CorrectHonoured` |
| | `CorrectKeepLedger` | `CorrectLedger` |
| | `CorrectLeadersCertify` | `CorrectRoundCertifies` |
| `CrashStopProofs` | `StandingInLockstep` | `Lockstep` of `CrashStop` |
| | `CertificatesAreHonoured` | `CertificateHonoured` of `CrashStop` |
| | `CrashStopImplementsLedger` | `ImplementsLedger`, when replicas stop for good |
| | `CrashStopAgrees` | `Agreement`, when replicas stop for good |
| | `OneBranch` | `NoFork`, when replicas stop for good |
| `PacemakerProofs` | `PacemakerTypes` | `PacemakerTypeOK` |
| | `CommandsOnce` | `CommandOnce` |
| | `ValidatorsFollowLog` | `StateFollowsLog` |
| `PersistenceProofs` | `PersistenceTypes` | `TypeOK` |
| | `RecoveryInventsNothing` | `RecoveredIsPrefix` |
| | `CommitsSurvive` | `NothingCommittedLost` |
| | `QuietReplicasAreDurable` | `QuietIsDurable` |
| | `AppRunsInOrder` | `AppInOrder` |

### The replica

Assumptions: the initial validators are a finite non-empty set of ids with
known keys; a hash names one block, is not 0, and the hashes of this replica
are its own (what `generate_unique_hash` is for; a restart of the process breaks
it; `spent` are those it has had); views are numbers and commands are commands.
Nothing is assumed about the votes.

The argument.  `NextEffects` classifies the steps by the fields they touch:
a vote, a certificate, an insertion, a commit, a view.  The invariant is
`TypeInv`, which adds `TreeOrigin` to `TypeOK`: each block of the tree is
genesis, a peer's, or has a hash handed out to this replica.  It is needed
because insertions overwrite, those of `propose_with_hash` too: only the origin
of the block found under a hash tells that it is the block inserted
(`InsertKeepsBlocks`).
From it `StepGrows` follows, that a step keeps the tree and appends at most one
committable block; the theorems about the log rest on that.  The membership
theorem rests on `CommitValidators`, that a command changes the cardinality by
one, and on `ValidCountsApart`, that neighbours are not both 1 modulo 3.

`HighQCVerifies` depends on the peers: `apply_high_qc_from_network` adopts what
it is given without a look at the signatures (`replica.rs:295`).  So
`CertificatesVerify` is of the form rely and guarantee: if at all times the
announced certificates of the replica's epoch verify there, unless they mix views
(`PeersCertify`), so does its own.  The votes are any, late, of another epoch or
of another view.  Its invariant `QCInv` says where `high_qc` comes from, and that
the pool has at most one vote of a signer for a block, all by validators of the
epoch whose keys are known: only then is what `try_form_qc` collects a quorum of
signatures that `verify_qc` counts, if they name one view (`OneView`), which
nothing in the code makes sure of.

### The cluster

Assumptions: there is a replica; the key stores are dealt out one to each; the
bounds are numbers.  Any number of replicas may be down, whichever way and
whenever; nothing is assumed about how many.

A round changes every replica and its disk several times.  `Follows` says of one
operation, at one replica, that types are kept, that the view, log and tree of
the disk only grow, and that no block and no certificate appears that is not
among those given; there is a lemma of this form for each operation
(`ProposeAtFollows` to `CommitAllAtFollows`), and they compose (`FollowsTrans`).
The steps of the cluster then concern only which blocks and certificates a round
brings about.  The invariant is `Inv`:

* `FieldsInv` and `NodesInv`: types, what is empty between rounds, and that
  log, view and certificate of a live replica are those of its disk.
* `IdsInv`: a block anywhere, on a disk too, was proposed by the leader of its
  view, and the disk of that leader is past the view.  It is needed for
  `OneBlockPerView`: what was proposed is not on the disk of its proposer
  (`replica.rs:415`), so a recovered leader knows only from its view that it must
  not propose again.
* `CertsInv`: each certificate, on a disk and inside a block too, has a quorum of
  disks that hold its block.  The votes are folded into the leader's pool one by
  one; `VoteFoldCounts` counts them, and a voter has logged what it votes for.
* `FirstRunInv`: in the first run of the process hashes are below the counter.

`DiskMirrorsMemory` and `NoFork` speak of the time before a restart of the
process.  They would be false after one: the counter of the hashes starts at 1
again (`simulation.rs:149`), a leader proposes without logging under a hash that
its disk has for another block, and a hash no longer tells blocks apart.

### The replicas that never fail

`Faulty` is the set of replicas that a user of the simulation lets fail.  The
others, `Correct`, are never silent and never crash until the process restarts.
What the faulty ones do is not restricted: they fall silent, speak again with
what they had, crash and recover from whichever donor the code picks, at any
time and in any combination; only how many are down at once is, by
`MaxFaulty`, which may be any number below N.
Assumptions besides those of the cluster: `FewFaulty`, that at most
`QuorumSize` replicas are faulty, and that `None` is neither a hash nor a
certificate.  `CorrectKeepLedger` also needs that somebody is correct and that
the process does not restart.  With n = 3f+1 `FewFaulty` allows 2f+1 faulty
replicas.  A faulty leader does not get its own vote, since a proposer does not
vote, so a quorum of votes for its block has one of a correct replica
(`CorrectVoteNeeded`).  Whether lockstep also survives more of them is open.

Nothing here contradicts the forks of section 3.  Votes, blocks and certificates
of faulty replicas are honest and only late, and nobody locks; so the correct
replicas may be led to another branch, but they are led there together.

The invariant is `CorrectInv`, on top of `Inv`:

* only faulty replicas are down;
* the correct replicas are in step and `Sound` (next section).  To be in step is
  not inductive alone: what makes one accept a block or a certificate has to make
  all of them, and the next certificate has to be newer than the one they have;
* nobody's view, in memory or on disk, is ahead of theirs.  Else a recovered
  leader could get a certificate for a view still to come, and `NewerQC` would
  keep it over those of the rounds in between.

The argument, round by round, is `CorrectRound`.  The leader is correct: then all
correct replicas accept its block, since each verifies what the others do
(`CorrectLeads`).  Or it is faulty and some correct replica accepts: then all do
(`AcceptAlike`), since the checks read nothing but what they have in common.
In both cases all end with the same certificate (`OutcomeAlike`), the leader's if
it was formed and is newer.  Or no correct replica accepts: then no certificate
is formed, by `CorrectVoteNeeded`, so none reaches them for a block they lack.
Faults and recoveries leave the correct replicas as they are, and the view that
a replica recovers with is one that a disk or a donor had (`RecoveryCorrect`).

`CorrectLeadersCertify` follows the fold of the votes the other way:
`VotesCertify` says that once a quorum of votes is in, in any order, `high_qc` is
a certificate of the block by some of them, which needs that `distribute_keys`
gives no key to two replicas.  It is what safety can say of progress: no round
with a correct leader and a quorum in step is wasted.

### The cluster whose replicas stop for good

`ImplementsLedger` and `NoFork` are false of `Simulation` in general, since
recovery and late speech break them (section 3).  `CrashStop` is the fault model
under which they are proved: it only takes behaviours away from those of
`Simulation`, which the runs explore, and has no run of its own.  `StopsForGood`
keeps whoever is down, by silence or by a crash, down, and the process from
restarting.  Nothing is assumed about when replicas stop, in which order, or how
many, but that one never does: the assumption `MaxFaulty \in 0 .. N - 1` of
`Simulation`.  With fewer than a quorum left no block is certified any more, and
the theorems still hold.

Both need a description of a round that `Inv` does not give: what exactly the
memory of each replica is afterwards.  The lemmas `AdvanceMemory` to
`FollowerMemory` say that of each operation (`Told`: one more block, and one
certificate), and `ProposalMemory` of a whole round.  The invariant is `StopInv`:

* `Lockstep`.  It is not inductive by itself, since a follower that refuses a
  proposal falls out of step for ever.
* `Sound`: the certificate of a replica is of epoch 0 and of an earlier view, its
  block is in the tree and it verifies, so `ProposalAccepted` and so the next one
  is newer (`NewerQC`) and adopted; and the log holds nothing twice.
* The log in the memory of a crashed replica is empty, and at most `MaxFaulty`
  replicas are down, so somebody stands (`SomebodyStands`).

`LongestLog` is then the log of any replica that stands, which the refinement
needs: a step appends to it, and the others keep or lose a prefix of it.

`OneBranch` adds `ForkInv`.  `Spine` says that the certified blocks of a tree,
by hash, are each the parent of the next, up to the highest certificate: that
is what "a leader builds on its highest certificate" comes to, and it is the
reason why the missing lock does no harm here.  Executed blocks are certified,
because the first block of a three-chain is the parent of a block with a
certificate.  `Ordered` says that hashes grow from parent to child.  `NoFork`
speaks of ancestors by a recursive function; `ReachExists` gives a function
that satisfies its equation, and any that does contains the branch
(`AncestryReaches`, by induction over the hash).

Assumption besides those of the cluster: `None` is neither a hash nor a
certificate.  The description of a round and `Sound` are in `CorrectProofs`, which
`CrashStopProofs` extends.

### The cluster with clients

Assumptions: those of the cluster, and that commands are commands other than
`NoOp`.  The validators may change, in different rounds at different replicas.

`PacemakerInv` adds to the types `OnceInv` and `LogInv`.  `OnceInv`: a command
has at most one place in all queues, and once a block has it, in a memory or on
a disk, it is in no queue and under no other hash.  `CommandOnce` is not
inductive without it, because it looks at the memories of live replicas, and the
only copy of a block may be in the snapshot of a crashed one.  `LogInv`: for the replicas that
never lost their memory, the validators, keys and epoch are what the commands of
the log lead to, step by step (`ObeysLog`), and two of them have the same command
under a hash.  It is stated by the steps and not by a fold, so that two equal
logs give equal validators by induction over the log.

### The files

Assumptions: hashes are positive numbers, views are numbers, at least one
snapshot is kept, `None` is none of the values it stands beside, and what a
donor exports has the shape of an export.  There may be any number of blocks,
faults, crashes and snapshots, and the export may be any.

`TypeInv` adds to `TypeOK` that the snapshots have a newest one, behind which
the counter does not fall.  `OpInv` says what `take_snapshot` has written at each of its
steps, and that the memory does not change meanwhile.  `LogInv` says that the
commits of the log file stand in the memory at their index, and that the log of
the newest snapshot and what is owed are prefixes of it.  That is what recovery
needs, and what a partial failure leaves intact: a failed append makes a gap in
the indexes, which replay refuses, and never a wrong commit.
`QuietIsDurable` is
inductive relative to these three: a replica is quiet after an append
only if it was before (`QuietBefore`), and it gets quiet again when a snapshot
that `OpInv` says can be loaded has replaced the log.
`AppInv` says that every state of an application, in the server, in a snapshot
or waiting to be restored, is what the commands it ran give, and that these
stand in order in the log that goes with it.

### How far the prover goes

Induction.  The library's induction theorems take an operator as a parameter
and cannot be cited.  `DataLemmas` states induction as a fact about sets
(`NatSetInduction`, `SubsetInduction`: a set of numbers or of subsets that has
the first and is closed has all), which can; so the folds of a round over votes
and over commits are proved about too (`VoteFoldExists`, `CommitFoldExists`).
`CommitSequence` sorts with an order of its elements and not with `SortSeq`,
of whose definition by recursion nothing can be proved.

Only model-checked:

* `ImplementsLedger` of `sim_rounds` and `NoFork` of `sim_faults`, where a replica
  comes back.  They fail in larger fault models (section 3), and what separates
  these runs from those is a matter of timing that no simple hypothesis states.
* `ToleratesFaults`, `RecoversLiveness` and `NoStalls`: each says that something
  comes within a number of rounds, for the number of replicas of its run
  (`ToleratesFaults` is false for n = 4).
* `CommandsCommitted`: liveness under fairness is out of the prover's reach.

What the refinement is worth where it holds: `CrashStopAgrees` draws from the
one ledger that `verify_safety` never fails in a cluster whose replicas stop for
good.

## 5. Plan

Done in this order: `ReplicaOps`, `Replica`, `Simulation`, `Ledger`,
`Progress`, `ReplicaProofs`, `Persistence`, `Pacemaker`, `PersistenceProofs`,
`SimulationProofs`, `PacemakerProofs`, `CrashStop`, `CrashStopProofs`,
`CorrectProofs`, and the search for a fork.  Left:

1. A cluster that starts with fewer validators than replicas, and a join.
2. The refinement of `Ledger` by all replicas when one is crashed by the timeout
   and recovers before it leads: which conditions on the recovery suffice.
3. A proof of `NoFork` under a condition on donors: the history of `fork` needs
   one that is behind.

### Not modelled

* The visualiser, the command line and the examples: printing and fixed
  sequences of calls, which the runs explore in every order.
* `propose`, `propose_command` and `propose_next`, which number blocks by a
  counter of the replica: no cluster calls them, and in one their hashes would
  collide.
* `append_batch` and `disable_dummy_proposals`, which nothing calls, and dummy
  timeouts other than 0, which no cluster of the repository uses.
* The cryptography, and the encoding and threads of the gRPC bridge: what
  matters of the latter is that calls and answers get lost and that its server
  restarts.
