# pgbattery in TLA+

pgbattery runs PostgreSQL in a highly available cluster: each node supervises
one PostgreSQL server, the nodes agree through Raft on who leads, the leader's
server is the primary, and a gateway on every node sends clients to it. This
directory models the parts of it where several loops, nodes or clusters meet,
model-checks them on small instances with TLC, and proves the most important
facts for every instance with TLAPS.

## The system

| Component | State it keeps | Operations | Talks to |
|---|---|---|---|
| Raft (openraft, `governor/raft.rs`) | vote, log, membership, metrics | campaign, vote, append, apply | every node, by RPC |
| Governor (`governor/raft.rs`, `lease.rs`) | lease (leader flag, expiry), hold-down anchor, last seen term and leader, fence channel | one metrics update, two watchdogs | reads Raft metrics; lease and anchor are read by the fence and the reconciler; the fence channel by the gateway |
| Lease fence (`governor/fence.rs`) | failure count | probe, close writes, shut down | lease; PostgreSQL |
| Reconciler (`governor/reconciler/`) | watchdog, replica book | one pass: read the view, promote or demote, plan sync replication, open writes, level the client fence, sweep slots, report, propose | Raft, lease, PostgreSQL under the supervisor lock |
| Replicated state (`governor/state_machine.rs`) | node registry, sync mode, lineage, feature level, opened term, Track B upgrade record, Track C cutover record | one command each | applied on every node from the log |
| Storage (`governor/storage.rs`) | redb log, vote, snapshots | append, truncate, purge, save, install, replay | Raft |
| Network (`governor/network.rs`) | connections with staging buffers | exchange; vote requests gated by WAL position | peers |
| Management API (`observability/management_api/`) | locks only | join, remove, transfer leadership, cutover and upgrade handlers, backup | proposes commands, triggers elections, asks other clusters |
| Client-write fence (`commands/upgrade/client_fence.rs`) | grants and their snapshot in PostgreSQL | fence, restore, drain sessions, read the sealed position | reconciler, cutover handlers |
| Gateway (`gateway/`) | sessions, replayable state, hold | admit, route, hold, replay, relay | fence channel; PostgreSQL |
| Supervisor (`crates/pgbattery-supervisor`) | postmaster child, files in PGDATA | start, stop, promote, follow, rewind, clone, settings, backup | PostgreSQL |
| Commands (`commands/`, `cli.rs`) | none | operator procedures | management API |

What is hard here: the loops of one node run concurrently and read each other's
state at different times; leaders are deposed without knowing it; metrics, SQL
calls and HTTP calls are late, cancelled or repeated; processes crash and come
back with what is on disk; an operator's procedure stops half-way and is run
again; and a cutover moves authority between two clusters that share no log.
`PROJECT.json` lists these hazards at their lines, with the properties that
would catch each going wrong.

What makes each component correct:

- lease, fence and reconciler: at most one node takes client writes (contract
  L1), and a server that may not take them is closed in the end;
- cutover: at most one cluster takes client writes (U1), authority given away
  leaves no acknowledged write behind (U2), and no sequence value is given twice (U3);
- storage: a restart rebuilds the state the log implies, no applied command is
  lost or applied twice, and a voter keeps the votes it has answered;
- vote gate and sync replication: no acknowledged write is lost by an election (L3);
- membership: concurrent, dropped and deposed handlers leave a sound membership;
- transport: a call gets the answer to its own request;
- election recovery: a cluster with a quorum gets a leader and that leader a primary;
- gateway: a session is replayed or ended, never silently moved mid-transaction;
- provisioning and backup: no step gives up data that is still needed;
- upgrades: an interrupted or repeated procedure loses no acknowledged write.

## Modules

| Module | What it is |
|---|---|
| `LeaseFencing` | contract L1: Raft as the node uses it, the governor, the lease, the fence, the reconciler's promotion and write gate, crashes and restarts, with a clock |
| `NodeProcess` | one node's process and its PostgreSQL: the fence tick, its failure threshold, the shutdown, orphans, the start |
| `Durability` | contracts W1 and L3: synchronous replication, the vote's WAL gate, rewinds |
| `VoteStore` | the vote on one voter's disk |
| `StateStore` | one node's replicated state on disk and in memory: log, purge, apply, snapshots, crash and rebuild |
| `Membership` | join, promotion, removal, finalize-upgrade, leadership transfer |
| `RpcConnection` | the Raft RPC exchange over one cached connection |
| `Recovery` | the election after a leader is lost |
| `LeaderYield` | a leader whose PostgreSQL does not become primary |
| `ReplicationSlots` | the primary's slots and its synchronous standby list |
| `Provisioning` | one node's data directory: join, start, follow, rewind, clone |
| `Backup` | backups, rotation and full restores |
| `Gateway` | one client session |
| `WriteAuthority` | the abstract promise of a cutover: one token of authority |
| `Cutover` | contracts U1 and U2: the authority record of each cluster, the handlers that drive it, the nodes that apply it, fence, gateways, clients and WAL; it instantiates `WriteAuthority` |
| `ClientFence` | the fence inside the donor's database: grants, sessions, DDL |
| `BlueGreen` | logical replication, the seeding and the driver of a cutover |
| `MajorUpgrade` | a PostgreSQL major upgrade in place (Track B) |
| `RollingUpgrade` | a rolling upgrade of the pgbattery binary |
| `MCLeaseFencing`, `MCCutover`, `MCCutoverFaults`, `MCStateStore`, `MCDurability` | instances for TLC: majorities, symmetry, views |
| `MCConsensus` | `Durability`, `VoteStore`, `Membership` and `RpcConnection` in one run |
| `MCOperations` | `Gateway`, `Backup`, `MajorUpgrade`, `RollingUpgrade`, `ClientFence` and `BlueGreen` in one run |
| `MCProgress` | `Recovery`, `Provisioning`, `ReplicationSlots`, `LeaderYield` and `NodeProcess` in one run, with their fairness |
| `LeaseFencingProofs` | type correctness, contract L1 (one writer), the write gate and the bound of a lease, proved |
| `CutoverProofs` | type correctness, uniqueness of authority, contract U1 at the clients, contract U2, and that the records implement the token of `WriteAuthority`, proved |
| `StateStoreProofs` | type correctness, that the store can always rebuild the state, and its membership, proved |
| `DurabilityProofs` | contracts W1 and L3 (the leader holds what was acknowledged), proved |
| `ConsensusProofs` | the RPC exchange, the membership handlers and the promises of a voter, proved |
| `UpgradeProofs` | client fence, blue/green, rolling and major upgrade, proved |
| `ServiceProofs` | backup and restore, the synchronous standby list, and the data a node keeps when it follows a leader, proved |
| `GatewayProofs` | the cancel route of a session, and that a migration leaves nothing of the client's behind, proved |

Operators commented "Faulty variant" are plausible bugs. No specification uses
them; replacing the definition after each by it makes a property fail, which
shows that the property sees that code.

Some modules have a constant that names lapses of the code or of its operator
(`Blind`, `VoteSlips`, `Unrepaired`, `UpgradeLapses`, `CutoverLapses`,
`Impatient`, `LateAlter`, `StartupRaces`, `BuildOverlapsInstall`, `Returning`,
`LateWrites`; `SerialOperator` and `SerialSeals`, where `TRUE` leaves out what
overlapping calls do). The passing runs leave the lapses out, so that the property
is shown for everything else, but for two of `UpgradeLapses`, with which the
properties still hold on that instance; "What the assumptions hide" below says
what each does when it is let in. `DivergedVotes` is the other way round: `TRUE`,
its value in every run, is the code.

How the modules fit together: `Cutover` takes from `LeaseFencing` that a cluster
has one writable primary; `Durability` takes the same, as the guards of
`LeaseOut`, `Promote` and `OpenWrites`; `BlueGreen` takes the seal from
`ClientFence` and the record from `Cutover`; `Recovery` and `Durability` have the
same WAL gate, one for progress and one for safety; `StateStore` and `VoteStore`
are the two halves of `storage.rs`; `NodeProcess` looks into what `LeaseFencing`
calls `FenceTick`.

### LeaseFencing

Time is one global counter: the code uses monotonic clocks, whose rates are
taken as equal. No loop is forced to run early; `Tick` is refused while some
loop has reached its bound, so TLC explores every interleaving within the bounds.

- `vote`, `contact`, `stood`, `granted` and `ack` are openraft's: external, and
  modelled from how the code reads and configures it. `Campaign` stands for the
  election timer, for the leaderless watchdog and for a triggered transfer, each
  of which waits at least the election minimum.
- `Process` is `process_metrics_update`: the anchor (`AnchorAfter`, in the order
  of `update_fencing_state`), the quorum decision, the lease. Its `lag` is the
  time since the metrics it reads were published; the channel keeps only the
  latest value, so updates coalesce.
- `FenceTick` is the closing tick of the lease fence, within `FenceBound`.
- `BeginPass` is the reconciler reading its view; `Promote`, `OpenCheck`,
  `OpenLand`, `OpenFail`, `FindOpen` and `Demote` act on that view, however
  old. Opening is two steps, because the SQL call takes time and the fence runs
  beside it. Whether enough sync standbys are connected for the open is left
  nondeterministic: `OpenCheck` may simply not happen.
- `Crash` and `Restart`: the vote and the server's role are on disk; lease,
  anchor and view are not. PostgreSQL always starts read-only. How long a process
  stays down is the supervisor's affair and the repository does not set it:
  `RestartMin` is that delay, 0 in `LeaseElections` and 1 in `LeaseRestart`.

### NodeProcess

One node. `proc`, `child`, `exited` and `pid` are the process, the supervisor's
child and the pid file; `srv` is the postmaster as the system sees it, owned or
orphaned; `conf` is what `postgresql.auto.conf` holds, `srv` what is in force.

- `Fence` is one tick of `fence.rs`: the probe, the close (the on-disk half), the
  reload and the eviction, each of which may fail; the threshold ends in a
  shutdown. `OpenGate` and `OpenStep` are the reconciler's open over its own
  connection, so a close and an open interleave statement by statement.
- `ProcBoot`, `PassStart`, `PassDied` and `ProbeLiveness` start, find dead and
  restart the server; `cleanup_stale_postgres` sees a pid file, a port that
  answers, or neither. `Killed` leaves the server as an orphan, `LockRefused` is
  the data directory's lock.
- `ServerHangs`, `ServerWakes`, `ServerDies` and `ClientBypasses` (a session that
  set its own read-write) are the environment. A live server whose connections
  break reads as not ready and is taken for fenced (`session.rs:83`,
  `fence.rs:167`, `:218`); this counts as one of the faults.

SIGTERM is not modelled apart from `StopPostgres`; role changes other than a
promotion are `Provisioning`'s.

### Durability

`raft` holds each voter's term, vote, role and log, `wal` the sequence of the
timelines of its records, `pg` its PostgreSQL (role, list, open), `acked` what
clients were told. `Campaign`, `Ask`, `ReadGate` and `AnswerVote` are an election
with `vote_lsn_gate` before openraft's own vote (`network.rs`); the gate compares
the WAL, by the threshold of the mode the voter has applied. Reading the WAL and
voting are two steps with an await between, so everything else may happen between
them. `LateWrites` says whether the voter may write or receive WAL there, or vote as
a leader that is not fenced yet. Nothing in the code prevents it, so `TRUE` is the code: the finding `VoteBeforeWrite`.
`Consensus` has `FALSE`. `LeadFull`, `LeadAsync`
and `OpenWrites` are the planner's list, the committed mode and the write gate;
`CommitAcked` acknowledges under the list; `Follow` discards what a rewind would.
`DivergedVotes` says whether a voter may vote for a candidate whose WAL has
diverged from its own. The gate does not ask, so `TRUE` is the code; `FALSE` is
what the contract would need beyond the second term.

Assumed: `LeaseOut`, a voter forgets a leader only after that leader is fenced
(quorum timeout 1 s and the fence's bound are below the voters' 2 s leader
lease). Not modelled: elections triggered by a transfer, and that a cleanly
stopped standby reports its replay position.

### VoteStore

`store` is the vote, the schema and the state of `raft.db`; `ballotHeld` is the
vote in openraft's memory, `promised` the highest one answered. `HearVote`,
`SaveVote`, `SendAnswer` are the three steps of an answer; `SavePanics` and
`Stops` end the process, `DiskDamages` truncates or corrupts the file.
`StartNode` is `new` with the schema check, the migration and `corruption_error`;
`MoveStoreAside`, `RemovedForRepair` and `RepairDone` are the operator following
its instructions, `RemovedFromCluster` and `MadeVoter` the membership.

### StateStore

One node. `disk` is the redb file: the log, its purge point, `last_applied`,
the applied membership and the snapshot (position, membership, data). In memory
are the `ClusterState` (`state`), `applied_end` and what openraft knows of the
newest snapshot (`snapshot`). A `ClusterState` is abstracted to its position
(`applied`, the recorded index that makes an apply idempotent), the sequence of
entries it reflects (`effects`) and the node registry, the one field that the
configuration writes too. Every redb transaction is a step and every write of
the shared state another, so a crash may fall between any two.

- Log: `AppendEntry`, `DeleteFrom` and `DeleteUpTo` are `append`, `truncate`
  and `purge`. An entry of the log is the one `chosen` at its index or a stale
  one of a deposed leader; a replay of a stale one would put `NoPos` in `effects`.
- Apply: `BeginApply` starts a batch, `SkipEntry`, `ApplyNormal`, `ApplyBlank` and
  `ApplyMembership` take an entry each, `SaveAppliedMembership` persists a
  membership at once and `PersistLastApplied` the batch's end. The duplicate
  test uses the `applied_end` read when the batch began.
- Snapshots: `InstallState` and `InstallSnapshot` are the two halves of
  `install_snapshot`, `SendMeta` and `SendData` the two reads of
  `get_current_snapshot`, `BuildPosition`, `BuildClone` and `BuildSave` the
  builder, which runs beside the task.
- Restart: `LoadSnapshotState` (with the configured nodes), `ReplayEntry`,
  `Started`. A refusal of any check is the outcome `proc = "failed"`.

`replica` records what a node that applied the log in order has at each index:
the state a leader's snapshot carries, and the reference for membership and
registry.

openraft is external. Assumed of it: it appends after its last entry and never
truncates a committed one; it delivers committed entries in order and may
deliver some again; it purges only what the newest snapshot it knows of covers,
and does not go back to an older one; it installs a snapshot only past what it
has applied; at a start it purges a log that ends before `last_applied`; one
task applies, installs and sends, while the builder runs in a task of its own.
Whether a build may overlap an install is the constant `BuildOverlapsInstall`:
nothing in the store excludes it.

### Membership

`config` is openraft's membership, joint or not; `registry`, `intent` and `level`
are what commands have committed; `ops` are the handlers in flight, each with its
process, its step and the locks it holds. `Requested` starts a join, promote,
remove, finalize or transfer handler, `HandlerStep` makes its next step or drops
it (a client that hangs up, a process that dies), `IntentPass` is the loop that
promotes intended voters, `LeaderMoves` an election, `Upgraded` a node that comes
back with a newer binary. openraft accepts an entry from the leader only and
changes voters in two entries, submitting the same change a second time
(`ChangeMembership`, steps "change" and "flatten"). The locks are those of one
process and no handler checks the term it began in, so a node that is deposed and
leads again meets the handlers it left behind: `Returning` says whether that
happens (`MayLead`).

### RpcConnection

`call` is the exchange in progress, `links` the bytes under way and the two ends'
buffers. A frame is two pieces, which stand for any split. `WriteSome`, `Flushed`,
`ReadSome` and `TakeResponse` are `exchange_frames` over `FramedIo`; `Cancelled`
is openraft dropping the future between any two of them; `ServerReads`,
`ProcessRequest` and `ServerCloses` are the peer's connection task.

### Recovery

Timers are what remains of them, terms are relative, nothing writes: a behaviour
that never elects is a cycle. `Stand` is openraft's timer or the leaderless
watchdog by rank (`leaderless_cooldown`), `AnswerCampaign` the WAL gate followed
by openraft's vote, within `VoteBudget`, whose answer may be lost; `RequestLost`
loses the request; `WatchdogPass` lets time pass. `ElectableIsElected` asks for a
foremost voter, and, once a message has been lost, for one that no survivor with a
higher id and less WAL or log can tie (`Unrivalled`).

### LeaderYield

Time moves in ticks; in each every node passes once. `Pass` is the pass of one
node with `watch_leadership`, its LSN report and, for a leader past its bound,
`choose_yield_target`; `TransferEnds` is the transfer endpoint's outcome,
`Elected` an election nobody asked for, `Promoted` a promotion that succeeds.
Assumed: a promotion that can succeed does so within the bound (60 s,
`constants.rs`).

### ReplicationSlots

`slots[n]` are the managed slots on node n, `upstream` where each receiver is
connected, `list` the list in the file and in force. `SweepSlots` is
`sweep_slots_if_due` with any subset of its statements failing; `Join`,
`RemoveNode` and `HandlerEnds` are the handlers' slot steps, on whichever node they run;
`Repoint` is a standby that follows another leader and drops its own slots,
`LoseUpstream` a receiver that loses its connection;
`SetSyncStandbyNames`, `AlterSystem`, `AskReload`, `ReloadLands` and
`EffectiveSeen` are the list, statement by statement.

### Provisioning

`dir` is the data directory as the code looks at it: `PG_VERSION`, the lineage of
the control file, `standby.signal`, its WAL, and whether PostgreSQL opens it.
`at` is where the process is; `NodeStep` makes its next step: the join's
disposition and clone attempts, the start by mode, and following the leader
(`Passes`, `TimelineChecks`, `RepointStandby`, `DemotePrimary`, `Rewind` with its
dry run and budget, `Reprovision`, the new signal). A rewind that fails in its copy
leaves the directory `HalfRewound`, with or without its signal, also when the
re-provision that should replace it is refused. `Crash` falls between any two
steps. The rest of the cluster is one leader address (`LeaderFails`, `LeaderMoves`, `LeaderHeals`), which
may be an impostor for a while; `CommitLineage`, `Reigned` and `Removed` are what
the cluster commits about this node.

### Backup

`store` is the backup directory, `data` where each part of PGDATA came from,
`staged` the directories moved aside. `AskBackup`, `FinishBackup` and `FailBackup`
include the rotation; a restore is `AskRestore`, `BeginRestore`, `CopyPart`,
`FinalizeRestored`, `RemoveStaged`, `RollBack`; the copy, the finalize and the
fsync may each fail. File work is on a blocking thread:
`Disconnect` drops the handler and its locks, not the thread. `PassClears`,
`PassClones` and `RestorePassStarts` are the reconciler beside it, `ProcessDies`
and `ProcessStarts` a crash with the recovery of an interrupted restore.

### Gateway

One session, its backend sessions and its cancel route. SQL is kinds of
statement; there is one channel to listen on and one prepared statement with two
texts, everything else a statement leaves behind is "extra". `Forward` is a
frontend message with its classification (`analysis.rs`), `Backend` and `Deliver`
its answers; `EnterHold`, `EnterFence` and what ends them are the waits;
`FollowRoute`, `Reconnect`, `Greeted`, `ReplayListen` and `ReplayPrepared` a
migration, which may fail or be refused at each step. A session may start on
the primary or on the relay. `sess.sql` is what the
statements left in the backend session, `gw.replay` what the handler would rebuild
of it elsewhere, and `truth` is history: the state the client has established.

The backend is PostgreSQL's: within a COPY a Sync is read past and any other
message than the end costs the session, the end of a COPY that is over is read
past, and after an error in the extended protocol it skips to the next Sync.

Taken as given: the client waits for the first ReadyForQuery; a batch is one
message; statements the deny list does not examine are left out, and so are
asynchronous notifications and TLS.

### Cutover

`rec[c]` is the record in cluster c's log, in commit order; `applied[c][i]` is
what node i has applied. A handler that reads, waits and commits later is a
member of `calls[c]` from its first read to its commit: `StartSeal`,
`ReadSealed`, `Seal`; `ReadDrain`, `DrainObserved`; `ReceiveCall`, `HearDonor`,
`AuthorityReceived`. It may fail at any point (`CallFails`), and its command is
applied only if its node still leads and the apply's own guard accepts it
(`CommitCall`). A receive call exists from its first confirmation: one that
heard nothing changes nothing. A retried round of questions only forgets
answers, so it adds no behaviour. `BeginPass` and `LevelClientFence` are the
reconciler under the supervisor lock, which is why `ReadSealed` waits for a pass
to end. `PrimaryOpened` and `routes` are the term in which gateways route.

The client of a cluster is one session with transactions; WAL positions count
client transactions. A fenced statement is refused when its transaction starts
writing (`BeginTx`), not when it commits (`CommitTx`).

Not modelled here: the recipient's readiness checks (`BlueGreen` has them), the
reverse slot, the break-glass that accepts unverified provenance, an operator
naming a wrong cluster, and a donor list that omits nodes of the donor.

### ClientFence

`grants` are pairs of a grantee and an object, `snapshot` is
`pgbattery.client_fence_revoked`, `trigger` the DDL freeze, `tx` each role's
session. `LevelFreeze`, `ApplyFence` and `LiftFence` are the reconciler's half;
`BeginSealing`, `ObserveFence`, `TerminateBackends`, `BackendsGone`,
`SealedPosition` and `CommitSeal` the seal handler's, which may fail at each
step. The handler does not ask for another one: `ReissueSeal` is a further call,
several may wait for the fence (`waiting`) or hold a position they read
(`positions`), across an abort too. `SerialSeals` says that no call outlives the
attempt it was made for. Clients begin, commit and prepare on the database's own port; an
administrator grants and creates tables in between. Role membership changes,
`DROP`, grant options and a failover of the primary are left out.

### BlueGreen

`log` is blue's rows in commit order, `sub` green's subscription with the state
of each table, `slot` what it has confirmed on blue. `SeedDump`, `SeedRestore` and
`SeedSubscribe` seed green, `CopyTable` and `ApplyRow` are the subscription, the
driver's steps are actions in their order, and it may stop at each
(`DriverStops`); `DrainByHand`, `TransferByHand`, `AdvanceByHand` and
`ReceiveByHand` are an operator calling the endpoints, which ask for less than the
driver does. `Unpublished` are tables the publication does not carry.
`BlueFailsOver` may lose the slot.

### MajorUpgrade

A directory is a lineage, the writes it holds and whether it opens; `dirs` has
two per node, `active` and `pgConfig` say which one the supervisor runs on and the
configuration names. The commands (`BeginApply`, `BeginRollback`, `BeginAbort`,
`BeginResume`, `BeginConfirm`) commit the record and then make calls (`Call`), to
which handlers on the nodes (`Handler`) answer step by step, late, or never;
`OrchestratorEnds` is the command dying. `StandbyFollows` and `LeaderStarts` are
the reconciler beside them, `ProcessRestarts` and `LeadershipMoves` the faults. An
election asks for a majority of processes and for the WAL gate, not for a running
server. An interrupted apply in link mode may have lost the old directory's
`pg_control`.

### RollingUpgrade

`command` is the roll and where it is; `install[n]` the self-upgrade handler of
node n: `Download`, `MoveAside`, `Place`, `StopForRestart`, or `AnswerFailure`.
`exe` and `aside` are the executable and the copy moved aside. `WaitUntilSafe`,
`ExpectUnchanged` and `Postflight` are the gates, `TimeOut` ends any wait.

## Runs

| Run | Expect | Instance | What it shows |
|---|---|---|---|
| `LeaseElections` | pass | 3 voters, 2 of them candidates, 3 terms, lease 4, quorum timeout 2, election minimum 2, fence 1, one crash with the restart at once, followed through the second term | `AtMostOneWriter`, `LeaseWithinDuration`, `GateSeesNoOlderLease` through contested and retried elections |
| `CutoverRetry` | pass | 2 clusters of 2 nodes, 2 epochs, 1 write | `AuthorityUnique`, `CutoverSafe` and the refinement `AuthorityMovesAsToken`, with aborts, second attempts and a way back |
| `CutoverFaults` | pass | 2 clusters of 3 nodes, 1 epoch, 1 write, 1 failover | `CutoverSafe` while a node lags, or while a lagging node becomes leader |
| `Consensus` | pass | see below | `LeaderHoldsAcked`, `PromiseKept`, `MembershipSound`, `VoterLeavesByRemoval`, `CallsKeepApart`; the store: `NoEntryLost`, `MembershipAtPosition`, `SnapshotCoversPurge`, `SentIsInstallable`, `NeverRefused` |
| `Operations` | pass | see below | gateway: `SessionKept`, `NothingForgotten`, `CancelReachesOwnSession`; backup: `GoodBackupKept`, `RunsOnOneOrigin`, `OldDataSurvives`; major upgrade: `ReleasedPrimaryIsCurrent`, `OneMajorUnlessAborted`; rolling upgrade: `OneReleaseAtHand`, `RollKeepsStandby`; client fence: `SealStopsClients`, `GrantsConserved`; blue/green: `AckedReachesGreen`, `SequencesDisjoint` |
| `Progress` | pass | see below | liveness: `ElectableIsElected`, `FollowsAgain`, `LeaderSlotsSettle`, `LeaderServes`, `FenceLands`, `ServesAgain`; safety: `DataIsKept`, `SetListStays` |
| `LeaseRestart` | violation | 3 voters, 1 of them a candidate, 3 terms, lease 4, quorum timeout 2, fence 1, one crash, restart after 1 | a restarted leader has forgotten its hold-down and opens beside the deposed one |
| `CutoverStaleSeal` | violation | as `CutoverRetry`, calls may overlap | a seal pending across an abort seals the next attempt with an old position |
| `StoreStaleSnapshot` | violation | 3 entries, 1 crash, a build may overlap an install | an older snapshot is saved over an installed one, and a restart loses what lay between |
| `VoteAcrossTimelines` | violation | `Durability`, 3 voters, 2 of them candidates, 3 terms, 2 WAL records, synchronous throughout | a deposed leader is elected again without what its successor acknowledged |
| `VoteBeforeWrite` | violation | `Durability`, 3 voters, 1 of them a candidate, 2 terms, 2 WAL records, `LateWrites` | a leader writes after its gate has read the WAL and before it votes |
| `FenceSuperuser` | violation | `ClientFence`, an application role may be a superuser | the preflight does not see it, and it writes past the seal |

`Consensus`, `Operations` and `Progress` put several components into one run. A
behaviour chooses one of them at the start and runs only that one: the state
space is the sum of theirs, not the product, and each property speaks of one
component. The others keep a fixed initial state in which their own properties
hold or, in `Progress`, in which nothing is asked of them.

Instances of those runs:

- `Consensus`: `Durability` with 3 voters, 2 terms, 2 WAL records, votes across
  diverged WALs allowed, no late writes; `VoteStore`
  with 2 terms, 2 deaths, 1 damaged file, 1 removal; `Membership` with 4 nodes, 3
  of them seeds, 2 handlers at once, 2 requests, 2 moves of leadership;
  `RpcConnection` with 3 calls, 2 connections and 1 stale frame per exchange;
  `StateStore` with 3 entries, 2 crashes, no build during an install.
- `Operations`: `Gateway` with 2 servers and a relay, 2 messages, 1 change of
  view, 2 backend sessions; `Backup` with retention 2, 3 backups, 2 restores, 2
  crashes or disconnects; `MajorUpgrade` with 2 nodes, copy and link, 2 writes, 2
  swaps, 3 commands, 2 deaths, and the lapses "election in an upgrade" and "link
  apply fails late"; `RollingUpgrade` with 3 nodes, 2 commands, 1 upset;
  `ClientFence` with 2 cutovers, serial seals and 2 acts of an administrator; `BlueGreen` with
  margin 1, 3 rows, 2 drives.
- `Progress`: `Recovery` with 3 voters, base and stagger 3, vote budget 1, 1 lost
  message; `Provisioning` with 2 join attempts and 3 faults; `ReplicationSlots`
  with 3 nodes, 1 move, 1 change of membership; `LeaderYield` with 3 nodes, bound,
  cooldown and freshness 2, 1 wedged node, 1 slip, 1 election; `NodeProcess` with
  thresholds 2, 3 faults, 2 leases.

Deadlock is not checked where a bounded scenario comes to rest: `Consensus`,
`Operations`, `Progress`, `VoteAcrossTimelines`, `VoteBeforeWrite` and
`FenceSuperuser`.

### Bounds

Three voters give majorities that intersect in one node, the hardest case for a
lease. Two elections after the first term are what a retried election needs: the
deposed leader, the winner that never served, and the winner that does. The
timing constants are the smallest that separate every comparison the code makes
and, but for the crash, meet `TimingMargins`. The shipped constants (lease and
follower lease 2 s, quorum timeout, election minimum and vote budget 1 s) leave
1 s for four metrics delays and the fence together. The code does not enforce
that: it lets each SQL call of the fence and of the open take `TICK_SQL_BUDGET`,
1 s, and with calls that slow the margins fail. They are met where PostgreSQL
answers in a few hundred milliseconds (in units of 100 ms: `MetricsDelay` 1,
`FenceBound` 2, `OpenBound` 2), and a process that crashed stays down for a lease.

Two clusters are what a cutover involves; two epochs allow an abort and a second
attempt, or a cutover there and back. One write per cluster tells a drained donor
from one that is not. Three entries let a snapshot, a purge behind it and a batch past it exist at once,
of every kind the apply path tells apart (four pass as well, with more states); the
second crash falls into the recovery from the first.

Two terms are a failover with everything that is in flight when it happens. A third
lets a deposed leader come back, which is the finding `VoteAcrossTimelines`.

Two moves of leadership with two handlers in flight leave a deposed handler
beside one of the new leader, and a leader with none after both; four nodes let one join while another leaves. Three
calls are a cancelled one, the one that meets its leftovers, and the one after.
Two messages and one change of view put a migration after, between and inside a
client's exchanges (two changes pass as well, with more states). Two restores
and two crashes are an interrupted restore, a crash in its recovery, and another
restore. Three commands are an upgrade, what the operator does after it stopped,
and what follows that. Three rows are one copied, one streamed and one written
across the seal; two drives are one that stops and one that finishes.

For liveness the bounds are on faults, never on the loops: a lost message, a
crash or a wedge stops happening, the passes and timers do not.

### Reductions

`MCLeaseFencing!MCView` keeps the age of each stamp, capped where no guard tells
older ones apart; no action compares two stamps otherwise than by their ages.
`MCCutover!MCView` keeps of a node that will never lead what gateways and a
recipient read of its record; the nodes of a cluster are symmetric, since a
failover may choose any of them. `MCCutoverFaults` starts both clusters with the
leader of the same name, since only the names are shared, and its constraint
`Faults` either keeps the leaders or cuts the node `Third` of each cluster off: of
three nodes, leadership then moves between the other two. `MCConsensus` lets a fixed seed lead
first, as seeds are interchangeable. `MCDurability!DurSeen` drops the list and
timeline of a server that is no primary and a vote for the only candidate.
`MCDurability!MCGates` puts a gate's read off until the vote can follow it, where
nothing is written in between: the read changes nothing else and the vote is
guarded by the gate again. `MCProgress` drops what makes no difference:
what a voter that is down holds, WAL positions shifted alike, and clusters in
which no node is wedged; the wedged node is the one with id 1, since ids only
settle ties among the targets of a leader that does not serve, which are the
others. `MCLeaseFencing!MCCrashTerms` follows a crash through the second term: past
a third one the property fails (`LeaseRestart`).

### Fairness

- `NodeProcess`: weak fairness of the loops (the fence's steps, the pass that
  finds the server dead or starts it), of an open in flight, which its budget
  ends, of a signalled shutdown, which the code bounds by 30 s, and of the restart
  of the process (`restart: on-failure`, which `app.rs` relies on). A server the
  process owns needs no more: it is killed. An orphan cannot be: strong fairness
  that the probe of one succeeds, weak fairness that a hung one wakes, and
  refusals by an orphan and failed evictions end (`<>[][~Refusal]`).
- `Recovery`: weak fairness of `RecNext`: timers run, requests are answered or
  time out within the budget.
- `Provisioning`: weak fairness of the node's own steps (restart included), of the
  leader's return and of the commit of the lineage.
- `ReplicationSlots`: weak fairness of a sweep whose statements all succeed, of
  the handlers' ends, of the repointing of members, and that a removed node is
  stopped.
- `LeaderYield`: weak fairness of the passes, of a transfer's end, of a promotion
  that can succeed, and of time.

The safety modules assume no fairness.

## Proofs

Every theorem is for all values of the constants that meet the modules' named
assumptions. A hypothesis beyond those is named below: it is one of the lapse
constants set to "no lapse", `MaxFailovers = 0`, or a bound on the voters or terms
(durability), or `TimingMargins` (the lease). The long invariants were
checked with TLC before they were proved.

### Lease fencing

`LeaseFencingProofs` proves, for every set of voters, quorum system, number of
terms and crashes: `TypeCorrect` and `LeaseBounded` (`LeaseWithinDuration`) for any
timing, and under the hypothesis `TimingMargins` `OneWriter`
(`Spec => []AtMostOneWriter`, contract L1) and `GateSafe` (`GateSeesNoOlderLease`).
The margins are a condition on the deployment, not a fact about the code: see
"Bounds" for what they ask and "What the assumptions hide" for what happens
outside them. A crash may happen any number of times, but then the margins hold
only where a crashed process stays down long enough (`Hold`).

`AtMostOneWriter` says nothing about time, and what keeps it true is time alone.
The invariant `WriterInv` has three parts:

- `RaftInv`, openraft's part: the votes counted, that whoever leads was elected by
  a quorum, that the voters of a leader's last round still follow it or left it no
  earlier than the election minimum after it (`RoundInv`), and that a later leader
  stood at most one vote budget before that (`SuccessorInv`);
- `LocalInv`, one node's part: what its governor saw was so, a valid lease rests
  on a recent round or on metrics that are due, the hold-down lasts `Hold` from the
  campaign, an open in flight passed the gate under a lease, and a writer without
  a lease is within the fence's bound;
- `PairInv`, two nodes: the sums. An earlier leaseholder or writer is past its time
  when a later one's hold-down ends (`OlderRoundInv`, `OlderLeaseInv`,
  `DeposedInv`), and one node at a time is past the gate (`ArmedInv`).

Two cases make it long. An open that passed its gate lands later than the lease
it passed under. And a leader may lose a term and win a later one before its
governor sees either, so that it goes on writing without ever closing; then it is
the winner in between that must be out of its lease when its hold-down ends
(`LeaderInv`, `DeposedWriterInv`). The second case is the last conjunct of
`TimingMargins`, which the proof asked for; "What the assumptions hide" has the
behaviour without it. A sole voter is a case of its own (`GroupInv`): it is its own
quorum and its lease never needs an acknowledgement.

### Cutover

`CutoverProofs!AuthorityIsUnique` proves `Spec => []AuthorityUnique` for any
number of clusters, nodes, epochs, writes and failovers, with overlapping calls
allowed. `AuthorityUnique` alone is not inductive, since a recipient takes
authority on the word of nodes that applied the donor's record some time ago.
The invariant `AuthorityInv` adds:

- `OneKeeper`: at most one cluster keeps the token, that is, holds authority, has
  withdrawn it for a seal, or has given it to a recipient whose record has not
  reached that epoch;
- `KeeperIsLatest`: the keeper's epoch is at least every other record's, and
  later than every other's while the token is in flight, so that a grant is
  always of a new epoch;
- `ArmedIsLocal` and `UnnamedIsFirst`: what a record can say of its own cluster
  in each phase;
- `CopiesSettled` and `CallsSettled`: what an old copy or a pending call says of
  a handoff is either the handoff in flight now or one the recipient has already
  taken, so a late confirmation finds an epoch that is not later.

Each action then either leaves the token where it is (`KeepToken`), starts a
flight (`GiveToken`) or ends one (`TakeToken`); these are the lemmas.
`CutoverTypeCorrect` is type correctness.

`ClientsOfOneCluster` proves `OneClusterServes`, contract U1 where clients see it,
for any number of failovers, assuming `SerialOperator`. The records say who may
serve; gateways and fences lag behind them. `ServeInv` adds what a withdrawn
record has left behind in its cluster (`Quiet`): no client transaction is open, and
either the primary is fenced and stays so, or no session exists and no gateway
makes one. The first is what a seal waits for, the second what a change of leader
makes of it, since the gateways that follow a new leader have applied the
withdrawal with its opening even when the leader itself lags and lifts the fence.

`CutoverIsSafe` proves `CutoverSafe`, U1 and U2 together, assuming
`SerialOperator` and `MaxFailovers = 0`. `DrainInv` adds that the leader's copy is
the record, that a seal's position is the end of the log and stays it, and that a
drain that was read is one of that position. Both hypotheses are needed: see the
finding `CutoverStaleSeal`. With failovers `DrainComplete` is model-checked only,
for one epoch.

`CutoverProofs!CutoverImplementsToken` proves the refinement
`Spec => AuthorityMovesAsToken`. Besides `AuthorityInv` it needs `SomeKeeper`:
the token is never lost. With it the mapping can be read off the one keeper
(`KeeperIs`), and each kind of commit has a lemma: one by the holder
(`CommitByHolder`), one that sends the token away (`CommitAway`), one that
receives it (`CommitArrived`) and the naming of an unnamed cluster
(`CommitName`). Every other action leaves the records alone (`SameRecords`).

### Storage

`StateStoreProofs` proves `NoEntryLost`, `SnapshotCoversPurge`,
`SentIsInstallable` and `NeverRefused` for every log length, every assignment of
entries to indexes and any number of crashes, assuming `~BuildOverlapsInstall`;
type correctness needs no such assumption. `NoEntryLost` speaks of a serving
node only; what carries it through a crash is the invariant `StoreInv`:

- `DiskInv`: at all times, in every process state, the snapshot on disk reflects
  exactly the entries up to some position at or past its own, that position is
  at most `last_applied`, the chosen entries between the two are in the log, and
  the purge point is behind the snapshot;
- `BatchInv` and `MembershipInv`: a batch continues where the state ends, its
  entries stay in the log until they are persisted, and the persisted position
  never goes back, although `task.end` may be older than `applied_end`;
- `InstallInv` and `BuilderInv`: what is about to be saved is not older than
  what it replaces. This is where the assumption enters: without it the builder
  may hold a position older than an installed one;
- `BootInv`: a replay has reached every entry before its next one, so it finds
  each of them in the log (`DiskInv`) and ends at `last_applied`.

`ApplyWhole` is the lemma about the state itself: applying an entry a state
reflects, or the next one, keeps it a prefix. The clean-up of `Started` needs
`DiskInv` to show that the log it drops is covered by the snapshot.

`MembershipIsAtPosition` proves `MembershipAtPosition` under the same assumption.
A membership is saved as soon as it is applied, the position at the batch's end,
so the two are written apart. `PositionInv` adds that what a batch has applied past
the durable position held no membership (`BatchPosition`), that one in hand is saved
with its own index (`MembershipPosition`), and that a builder carries the membership
of its position.

`ConsensusProofs!PromiseIsKept` proves `VoteSpec => []PromiseKept` for every
number of terms, candidates, deaths, damages and removals, assuming
`VoteSlips = {}`. `PromiseKept` speaks of the vote a running node holds; a crash
throws that away, so the invariant `VoteInv` follows the promise to the disk:

- `HeldInv` and `DurableInv`: the vote in memory of a running node, and the vote
  on disk unless the file has been moved aside, are at or past what was promised;
- `AnswerInv`: an answer leaves only from a running member, of the vote that is
  on disk;
- `RepairInv`: from a refused start to the end of the repair the node stays down;
- `OutsideInv`: nobody counts on a node outside the membership, so a new store
  starts without a promise;
- `ZeroInv`: no vote is below the first one.

`AboveStaysAbove` (votes are ordered by term, then candidate) and `OpenKeepsVote`
(what the start, the schema check and its migration leave of the vote) are the
lemmas it rests on.

### Consensus

`ConsensusProofs!CallsStayApart` proves `CallsKeepApart` for any number of calls,
connections and cancellations, without a hypothesis. `RpcInv` follows the frames: the
bytes on each direction of a connection, buffers included, are whole frames in the
order of their ids (`Framing`), answers are behind requests (`LinkOK`), and the call
in progress has the connection's last id to itself (`CallInv`), whatever cancelled
calls left behind.

`MembershipStaysSound` and `VotersLeaveByRemoval` prove `MembershipSound` and the
action property `VoterLeavesByRemoval` for any number of members, handlers,
requests and moves of leadership, assuming `Returning = FALSE`. `MemberInv` says
which handlers can still commit: those of the leader, of which at most one holds
`membership_lock` (`LockInv`), and what that one read is still so when it commits
(`Knows`): the levels it surveyed, the record it wrote, the voters its new set was
made from.

### Durability

`DurabilityProofs!LeaderKeepsAcked` proves `LeaderHoldsAcked` for any number of
records, log entries, restarts, turns between synchronous and asynchronous mode,
lost and late vote requests, and any candidates, under three hypotheses that the
code does not meet by itself ("Findings" and "What the assumptions hide" have what
happens without each):

- `Cardinality(Voters) <= 4`: a majority then leaves out one voter (`OneLeftOut`);
- `DivergedVotes => MaxTerm <= 2`: as the code is, the theorem covers the cluster's
  first leader and one failover, retried and contested as often as one likes; if no
  vote crosses diverged WALs it covers any number of terms;
- `~LateWrites`: what the gate found still holds when the vote is cast, and a leader
  has been fenced by then. The code reads and votes on either side of an await and
  asks neither.

The property says nothing of votes, so it is far from inductive. `DurInv` adds:

- `ElectInv`: a term has one winner. `Backs` is who can no longer vote otherwise in a
  term; a winner (`Won`) has a majority of them, for ever, so a leader, a primary and
  a timeline of one term are of one node (`OneWinner`);
- `HeardInv` and `OpenInv`: an open primary leads and a majority hears it, which is
  why a vote that could depose it finds it closed;
- `WalInv`: a record stands for the whole WAL up to it (`MatchInv`), the records of a
  primary's timeline are its own (`OwnInv`), a leader's term is on no WAL before it
  promotes (`FreshInv`), and every timeline was won (`TimelineInv`);
- `AckInv`: two voters hold each acknowledged record, and none is promised once async
  is in force;
- `CurrentInv`: the leader and the candidates that no majority has moved past hold
  the record, or, of a candidate, two holders have not voted for it.

The argument is the one the contract's authors make, with its gaps closed. An
election needs all voters but one, so one of the two holders is asked; `GateHolds`
is what its gate then shows of the candidate. Positions alone show it only when
one WAL continues the other, and with two terms they do as long as the election is
open. `AckedCandidate` is the reverse: an acknowledgement while a candidate gathers votes
counts a voter whose vote is still out. A rewind discards only what a timeline's
leader does not hold, and so nothing acknowledged. The invariants were checked by
TLC on 3 and on 4 voters, 3 terms, with `DivergedVotes = FALSE`.

### Upgrades

`UpgradeProofs` has one invariant per procedure:

- `SealHolds` (`SealStopsClients`, assuming `Blind = {}` and `SerialSeals`): any
  number of cutovers and of calls per attempt, none outliving its attempt. `FenceInv` relates the
  seal handler's step to what clients can still do. The roles are covered by the
  check, from the fence on no privilege comes back, sessions only drain, and none
  is left when the position is read. `GrantsAreConserved` (`GrantsConserved`) needs
  only that there are no column grants;
- `GreenHasAllRows` (`AckedReachesGreen`) and `SequencesStayDisjoint`
  (`SequencesDisjoint`), assuming `CutoverLapses = {}`: `BlueGreenInv` has the
  seeding (`SeedInv`), the stream (`StreamInv`: green has every row of a copied table
  up to where the apply worker is) and the driver (`DriveInv`: a drain proved by the
  driver, or by hand where the driver's own gate would pass, stays one, whoever
  finishes it);
- `ReleaseAlwaysAtHand` (`OneReleaseAtHand`, no hypothesis) and `RollKeepsAStandby`
  (`RollKeepsStandby`, assuming `~Impatient`): `RollInv` has `FileInv`, which holds
  through every crash, and `BounceInv`, one node at a time and another standby in
  sync from the check until the node is back, which holds while nothing else fails;
- `PrimaryStaysCurrent` (`ReleasedPrimaryIsCurrent`) and `OneMajorAtRest`
  (`OneMajorUnlessAborted`), assuming `UpgradeLapses = {}`, so in particular no
  election of another node while an upgrade is under way and no late failure of an
  apply in link mode: `UpgradeInv` follows the
  acknowledged writes to the directory a crash in the middle of a swap would take
  the leader back to (`CurrentInv`, `MarkInv`), says whom a handler works for when
  its command is gone (`HandlerInv`, `FreezeInv`), and that one node at most runs on
  the directory beside (`SwapInv`).

### Backup, standby list and data directory

`ServiceProofs` proves `DataAlwaysAtHand` (`OldDataSurvives`), `OneOriginRuns`
(`RunsOnOneOrigin`) and `LastGoodBackupStays` (`GoodBackupKept`) without a
hypothesis. `RestoreInv` has who may work on PGDATA (`RestoreLocks`) and what the
thread has done (`CopyInv`: while it copies or undoes, a whole directory is staged; it
cleans up only beside a whole one that is on disk). `StoreInv` counts the files of a
type apart from the one being written: a good one is among them, or there are at
least as many as are retained. `ReportedListStays` proves `SetListStays`, assuming
`LateAlter = FALSE`; `ListInv` says that no reported list is in force beside another
call, and that from the `ALTER SYSTEM` on the file holds the call's own names.

`DataStays` proves the action property `DataIsKept` for any number of join attempts
and failures, when `Unrepaired` has neither "crash in copy" nor "dry run hangs".
`DirInv` adds what the steps before the one that gives data up have made sure of:
only an empty directory is cloned into, a rewind that copies is within the budget,
and a copy of a leader carries `standby.signal` before a server opens it.

### Gateway

`GatewayProofs!CancelStaysOwn` proves `CancelReachesOwnSession` without a
hypothesis, races with the startup included. `RouteInv` says that the route is the
backend session in use or none, and none in every phase in which there is no such
session yet: from the moment the old backend is left to the greeting of the next.

`MigrationForgetsNothing` proves `NothingForgotten` for any number of messages,
pipelined or one at a time, COPYs, migrations, lost backends and changes of the
view, assuming `StartupRaces = FALSE`; "What the assumptions hide" has what a race
with the startup does. The gateway decides that a session is idle from a count of
exchanges and a few flags of its own, so `PipelineInv` relates these to what is
really between client and backend:

- `InStep`: the exchanges the gateway awaits are at least those the backend has
  answered and the gateway has not read, those it has still to answer, and an open
  COPY; both sides are counted, as the numbers of `ReadyForQuery` given and to come;
- `SyncBehind`: a message of the extended protocol on its way has its `Sync` behind
  it, or the gateway remembers that the `Sync` is still owed;
- `ReadyBehind`: every answer on its way has the end of its exchange behind it, so an
  exchange is not taken for finished while part of it is unread;
- answers lost with a backend leave something awaited, so the gateway does not take
  the loss for the end of an exchange;
- before the greeting the client has sent nothing and the gateway stays where it
  connected (`StartupInv`); this is where the hypothesis enters.

A pinned session is never moved, so nothing is asked of it. Errors and COPY are what
makes the counting subtle: after an error a backend answers nothing until the `Sync`,
and within a COPY it reads past one, so the gateway may await more than will come,
and never less.

### Only model-checked

- `SessionKept` (`Gateway`): it compares two folds, of a text's statements over the
  session (`Ran`) and of its changes over the replay state, and what a fold does is
  induction over data.
- `DrainComplete` with failovers, as said above.
- Liveness: `FenceLands`, `ServesAgain`, `ElectableIsElected`, `FollowsAgain`,
  `LeaderSlotsSettle`, `LeaderServes`. Fairness and ENABLED are beyond the prover.

## Findings

Six runs show the code doing something a comment or a document denies; each is
quoted in `PROJECT.json`.

- `LeaseRestart`: `open_writes` takes a missing anchor for no hold-down
  (`reconciler/mod.rs:675`), and the anchor does not survive a restart. A candidate
  wins a retried election and its pass promotes on the expired anchor of the earlier
  campaign, before the governor stamps the new term. It crashes and is back quickly:
  its server is a primary already, no anchor holds it, and it opens while the
  deposed leader's fence is still under way. `docs/CONTRACTS.md:64` states L1 without
  this condition; `docs/STATE_MACHINE.md:63` says "No anchor holds", which is so of a
  promotion and not of the open over a server that is a primary already.
- `VoteBeforeWrite`: `process_request` reads the WAL for the gate (`network.rs:724`)
  and votes after an await (`network.rs:740`). A leader that takes a write in
  between grants a candidate that lacks it; the write streams to the other standby
  and is acknowledged. `docs/STATE_MACHINE.md:53` and `follow.rs:51` rely on nothing
  having been written since.
- `CutoverStaleSeal`: a seal commits a position read for an earlier attempt. The
  drain has the same gap, and needs no overlap: `CutoverFaults` with `MaxEpoch = 2`
  violates `DrainComplete` with one call at a time, because what a drain observed
  carries neither epoch nor position across a failover. `OneClusterServes` needs
  one call at a time as well: with overlapping calls an old seal call followed by a
  forced transfer leaves two clusters serving.
- `StoreStaleSnapshot`: a snapshot built before an install replaces the installed
  one. It needs openraft to build and install at once.
- `VoteAcrossTimelines`: `vote_lsn_gate` compares positions and not timelines
  (`network.rs:606`; `docs/CONTRACTS.md:98`: "a candidate missing an acknowledged
  write cannot be elected"). A deposed leader keeps unacknowledged records, hears its
  successor, whose acknowledged record is at a position it has passed, and is elected
  before it rewinds. With `DivergedVotes = FALSE`, a gate that asked for the timeline
  too, the property holds in any number of terms: `LeaderKeepsAcked` proves it.
- `FenceSuperuser`: the preflight's check for superusers compares `'true'` with
  `'t'` and finds none.

## What the assumptions hide

Each of these was met while modelling; the constants that show it are named.

- **Restart and the lease.** The hold-down anchor is in memory, and no anchor
  does not hold: the finding `LeaseRestart`. Through the second term a quick restart
  is harmless (`LeaseElections`), in later ones only the time a process was down
  stands in for the hold-down (`Hold`). `Crash` stops PostgreSQL with the process;
  the code leaves an orphan (`postmaster.rs:402`), which `NodeProcess` has and
  `LeaseFencing` does not.
  With `MetricsDelay = 1` a lease outlasts its duration by the age of the metrics
  (`lease.rs:138`, `raft.rs:541`).
- **Slow calls.** With `Lease = FollowerLease = 2`, `ElectionMin = VoteTtl =
  QuorumTimeout = 1`, no metrics delay and `FenceBound = OpenBound = 1`, calls as
  slow as their budgets allow (`fence.rs:28`, `reconciler/mod.rs:705`), no crash
  and one failover, `AtMostOneWriter` is violated: the fence lands in the instant
  in which the successor's hold-down ends.
- **A leader that loses and regains a term unseen.** Metrics coalesce, so a
  governor may see neither the lost nor the won election, and its server goes on
  writing under a renewed lease, without a hold-down. The winner in between waits
  for the old lease only. The margin that excludes two writers is the last conjunct
  of `TimingMargins`; without it, `Lease = 4`, `QuorumTimeout = 3`,
  `FollowerLease = ElectionMin = VoteTtl = 1` and no delays violate
  `AtMostOneWriter`.
- **Restart and the registry.** The configured nodes are added over a snapshot
  that already reflects their removal (`raft.rs:268`; `docs/STATE_MACHINE.md:130`).
- **Membership.** `Returning = TRUE` with `MaxMoves = 2` violates `MembershipSound`: a
  finalize has surveyed, leadership moves to a node that joins a member of the
  older build and moves back, and the finalize, which compares no term, commits a
  level that member does not decode (`cluster.rs:386`, `propose.rs:135`; the comment
  at `cluster.rs:383` relies on a lock of one process). The join proposes `IntendVoter` outside the lock. A removal whose `RemoveNode` was
  lost is not re-issued by the next attempt, which answers 404 first
  (`cluster.rs:930` says otherwise).
- **Durability.** `LateWrites = TRUE` is the finding `VoteBeforeWrite`. Five voters
  (`docker-compose.5node.yml`) violate `LeaderHoldsAcked` with one
  failover and no divergence: two of five may be free of the leader's lease while it
  is open, one votes for the other, goes on streaming, and is counted in an
  acknowledgement that came after its vote. `LeadFull` commits the
  synchronous mode even when setting the list failed, so a primary may acknowledge
  alone while the log says sync (`docs/STATE_MACHINE.md:124`).
- **Votes.** `VoteSlips`: "stale peer", a lagging peer's answer makes a live voter
  drop its store (`app.rs:1626`); "restart in repair", the instructions of
  `corruption_error` (`storage.rs:402`) move the file aside first, and an automatic
  restart before the removal opens an empty store as a voter. Each violates
  `PromiseKept`.
- **Recovery.** "A majority elects" is not unconditional: when no voter is foremost
  in both WAL and log, the WAL gate and openraft's vote refuse each other's
  candidates (`docs/STATE_MACHINE.md:53`; `network.rs:746`, `raft.rs:650`).
  `ElectableIsElected` therefore asks for a foremost voter. `Base = Stagger = 2`
  with `VoteBudget = 1` violates it: campaigns that close to each other can go on
  disturbing one another. One lost answer is enough for a livelock when the
  foremost voter is outranked: voter 1's grant from voter 2 is lost; 2, which is
  behind, stands in the next term, and 1's gate refuses it without showing the
  request to openraft (`network.rs:746-797`), so 1 does not learn the term; 1's next
  campaign ties that term and loses to the higher id; both wait the same cooldowns
  and it repeats (`raft.rs:886-893`; "cannot livelock" at `docs/STATE_MACHINE.md:53`
  and `network.rs:1284`). The property therefore asks for `Unrivalled` once a
  message has been lost; with that it holds with one and with two lost messages.
- **Leader yield.** `MaxWedged = 2`: two stuck nodes may hand leadership back and
  forth. `Freshness = 1`: reports are stale when they are used. A wedged leader
  ahead of its peers by more than the threshold never yields.
- **Slots.** `LateAlter = TRUE` violates `SetListStays`: an `ALTER SYSTEM` whose
  call timed out lands after its successor (`session.rs:259`). Contract R1
  (`docs/CONTRACTS.md:168`) holds on the leader in the end; standbys may keep a
  slot (`follow.rs:697`, `replication.rs:284`, `cluster.rs:594`).
- **Provisioning.** `Unrepaired`: "crash in copy", a directory that looks complete
  and does not open (`rewind.rs:565`; `docs/STATE_MACHINE.md:113`), which covers a
  half-rewound one that is left without `standby.signal` and then refuses every
  start (`rewind.rs:429`, `:579`; `app.rs:457`), and "dry run hangs", the budget is
  not asked (both violate `DataIsKept`); "hole across timelines", the node waits for
  WAL nobody has (`follow.rs:514`, violates `FollowsAgain`).
- **Process.** `pg_isready` asks a port, so a start "succeeds" over a live orphan;
  until the restarted process's first fence tick the orphan may be writable, which
  `docs/STATE_MACHINE.md` section 8 does not say. A tick over broken connections
  counts as fenced while the server may still take writes (`fence.rs:167`);
  `FenceLands` holds because the next tick asks again.
- **Backup.** A client that disconnects drops the handler with its locks while the
  copy goes on, which is why `RunsOnOneOrigin` excludes it. Copies are in directory
  order, so a crash may leave a partial PGDATA that looks valid
  (`backup.rs:1291`); rotation counts partial files; a restore does not check that
  its source is complete; a crash between a restore and its signal file starts a
  primary; `retention_count = 0` is accepted.
- **Gateway.** `StartupRaces = TRUE` violates `NothingForgotten`: a change of
  route or a lost backend during the startup leaves an answer behind
  (`docs/STATE_MACHINE.md:159`; `connection.rs:242`, `failover.rs:603`).
- **Major upgrade.** An abort whose HTTP call timed out after 600 s may be
  committed over a primary that has been swapped (`postgres.rs:880`, `:1029`), which
  `OneMajorUnlessAborted` excludes. `UpgradeLapses`: "retarget not persisted"
  (`postgres.rs:443`), "rollback fails late" and, with 3 nodes, "standby left behind
  elected" (a listed standby of the old major after SERVE; `network.rs:663`,
  `reconciler/mod.rs:440`) each violate one of the two properties. "Election in an
  upgrade" and "link apply fails late" are in `Operations`, and each also passes with
  3 nodes, 2 commands and 1 death. With 3 nodes and 2 deaths the first still passes
  and the second violates `ReleasedPrimaryIsCurrent`: a failed probe, script or
  `vacuumdb` leaves the new directory serving when the old `pg_control` is gone
  (`postgres.rs:2170-2176`, `:2398-2461`; its error says that the primary is down), an
  abort is committed over it, writes go there, and after a restart the configuration
  names the old directory and a standby of the old major is elected. The rejoin that
  wipes a standby does not ask who leads.
- **Rolling upgrade.** `Impatient = TRUE` violates `RollKeepsStandby`: two commands
  are not serialised (`cluster.rs:381`). A crash between the two renames leaves no
  executable at the path; `OneReleaseAtHand` therefore counts the copy beside it.
- **Client fence.** Every other kind of `Blind` violates `SealStopsClients` too:
  a view granted to PUBLIC, a column grant (which also breaks `GrantsConserved`), a
  DDL transaction open at the freeze, a grant or a `PREPARE TRANSACTION` after the
  check (`management_api/cutover.rs:545`; `docs/STATE_MACHINE.md:240`), a
  `SECURITY DEFINER` function the operator accepted (`blue_green.rs:1000-1028`).
  `SerialSeals = FALSE` violates it without any of them: a call that outlives its
  attempt commits its old position into the next one, the race of
  `CutoverStaleSeal`.
- **Blue/green.** Each of `CutoverLapses` violates `AckedReachesGreen` or
  `SequencesDisjoint`: "ddl on both" (`blue_green.rs:889`); "other slot"
  (`management_api/cutover.rs:755`); "unchecked"; "new schema", a table in a schema
  made after the preflight is not published (`seed_green.rs:112`,
  `blue_green.rs:189`); "drain by hand", the endpoint asks the slots only, so a call
  while a table is still being copied commits the drain
  (`management_api/cutover.rs:566-598`; `testing/bluegreen_cutover.py:774` calls it by
  hand; `docs/STATE_MACHINE.md:248` says "no orchestrator can commit DRAINING
  on an undrained seal", but proves the slots' half only); "stale list", a receive
  call with sequence values read earlier.

## Not modelled

- openraft, PostgreSQL, redb and the operating system: modelled from how the code
  uses them, as far as a property needs.
- Configuration parsing, TLS, core types, metrics, logging and the HTTP client:
  no state that another component's correctness depends on. The CLI, doctor (but
  for the verdict that gates a rolling upgrade), status and init are sequential
  operator tools.
- The reconciler's pass as one composition: its parts are in the module of their
  property (`LeaseFencing`, `Durability`, `Provisioning`, `ReplicationSlots`,
  `LeaderYield`, `Cutover`), each under the supervisor lock where the code is.
- Stores written before positions were recorded; snapshot decoding of older
  versions; authentication, rate limits and discovery in the management API.
- Provisioning: `LineageTerm::Unenforced`, an impostor that joins; the node's own
  leadership is only `Reigned`.
- Major upgrade: a crash between move-aside and persist in a rollback, writes through a gateway late in
  a rollback; preflight reports and post-upgrade scripts. Rolling upgrade: the
  check for a fresh backup.
- Backup: a second restore while a detached thread copies; an upgrade's preflight
  backup, which takes another lock.
- Blue/green: descending sequences, a green failover after the receipt (U5), the
  forced transfer, concurrent drivers, the reverse cutover. Client fence: changes
  of role membership, `DROP`, grant options, a failover of the primary.

## Plan

In this order:

1. `Gateway`: `SessionKept` for texts of one statement, which need no fold.
2. The reconciler's pass as a composition of the modules that hold its parts.
