---------------------------- MODULE MajorUpgrade ----------------------------
(***************************************************************************)
(* A PostgreSQL major upgrade in place (Track B): the orchestrating        *)
(* command, the committed upgrade record, the management handlers that     *)
(* swap and wipe data directories, and the reconciler beside them.         *)
(*                                                                         *)
(* A data directory is the lineage it carries, the client writes it holds, *)
(* and whether PostgreSQL opens it.  Lineage 1 is the old major; every     *)
(* pg_upgrade mints another one of the new major.  The orchestrator may    *)
(* die at any step, lose an answer, or be followed by another command.     *)
(***************************************************************************)
EXTENDS Integers, FiniteSets

CONSTANTS
  Nodes,       \* at least two: one primary and its standbys
  Modes,       \* transfer modes the operator may ask for: "copy" (or clone), "link"
  UpgradeLapses, \* what the code does not guard against, see below
  MaxWrites,   \* bound: client writes
  MaxSwaps,    \* bound: pg_upgrade runs
  MaxCommands, \* bound: orchestrator commands
  MaxDeaths    \* bound: process crashes and leadership moves

\* A configuration file that is not rewritten; an apply with --link that fails after
\* pg_upgrade, and a rollback that fails when the old cluster already runs, which
\* leave the configuration naming another directory than the one that serves; an
\* election while the record is frozen, or of a node it awaits; and a majority that
\* elects a standby without the leader's writes, stopped by the upgrade and left
\* behind.
ASSUME MajorUpgradeAssumption ==
  /\ IsFiniteSet(Nodes) /\ Cardinality(Nodes) >= 2
  /\ Modes \subseteq {"copy", "link"} /\ Modes # {}
  /\ UpgradeLapses \subseteq {"retarget not persisted", "link apply fails late",
                             "rollback fails late", "election in an upgrade",
                             "standby left behind elected"}
  /\ {MaxWrites, MaxSwaps, MaxCommands, MaxDeaths} \subseteq Nat

VARIABLES
  record,   \* PgUpgradeState: [frozen, awaiting]
  lineage,  \* ClusterState.lineage
  head,     \* the Raft leader
  dirs,     \* per node, the directories "base" and "sib": <base>_<major>
  active,   \* the directory the supervisor runs on
  pgConfig,   \* the directory the configuration file names
  running,  \* PostgreSQL runs
  marks,    \* .pgbattery_unfreeze_watermark: at most one, the writes below it
  work,     \* the handler at work on the node, under its locks
  orch,     \* the orchestrator: [cmd, pc, on, left, loss]
  acked,    \* client writes acknowledged and never given up
  swaps, writes, commands, deaths,
  lateAbort \* an abort was committed over a swap, done or in progress

upgradeVars == <<record, lineage, head, dirs, active, pgConfig, running, marks, work, orch,
                 acked, swaps, writes, commands, deaths, lateAbort>>

bounds == <<swaps, writes, commands, deaths>>
diskVars == <<dirs, active, pgConfig, marks>>

NoDir == [id |-> 0, has |-> {}, whole |-> FALSE]
Wreck == [id |-> -1, has |-> {}, whole |-> FALSE]  \* there, of no use
Here(n) == dirs[n][active[n]]
Major(d) == IF d.id < 1 THEN "none" ELSE IF d.id = 1 THEN "old" ELSE "new"
Other(x) == IF x = "base" THEN "sib" ELSE "base"
NoOrch == [cmd |-> "none", pc |-> "none", on |-> CHOOSE n \in Nodes : TRUE,
           left |-> {}, loss |-> FALSE, mode |-> "copy"]

Serving(n) == head = n /\ running[n] /\ work[n] = "none"   \* confirms_serving_primary
Open(n) == Serving(n) /\ ~record.frozen

-----------------------------------------------------------------------------
(* The committed record: PgUpgradeState::apply. *)

Freezable(standbys) ==
  \/ record.frozen /\ record.awaiting = standbys
  \/ ~record.frozen /\ record.awaiting = {}

Freeze(standbys) == record' = [frozen |-> TRUE, awaiting |-> standbys]

\* Faulty variant: the release forgets the standbys too.
ServeForgets(id) ==
  /\ lineage' = IF record.frozen THEN id ELSE lineage
  /\ record' = [frozen |-> FALSE, awaiting |-> {}]

\* PgUpgradeServe: the lineage moves in the entry that ends the freeze.
Serve(id) ==
  /\ lineage' = IF record.frozen THEN id ELSE lineage
  /\ record' = [record EXCEPT !.frozen = FALSE]

Rejoined(n) == record' = [record EXCEPT !.awaiting = @ \ {n}]

Abortable == record.frozen \/ record.awaiting = {}

-----------------------------------------------------------------------------
(* The orchestrator. *)

Command(cmd) ==
  /\ orch.pc = "none" /\ commands < MaxCommands
  /\ commands' = commands + 1
  /\ UNCHANGED <<head, diskVars, running, work, acked, swaps, writes, deaths, lateAbort>>

Standbys == Nodes \ {head}

\* apply_experimental: preflight on the primary, then FREEZE.
BeginApply ==
  /\ Command("apply")
  /\ Serving(head) /\ Major(Here(head)) = "old"
  /\ Freezable(Standbys) /\ Freeze(Standbys)
  /\ \E mode \in Modes :
       orch' = [NoOrch EXCEPT !.cmd = "apply", !.pc = "stop", !.on = head,
                              !.left = Standbys, !.mode = mode]
  /\ UNCHANGED lineage

\* run_rollback: FREEZE, with or without --accept-write-loss.
BeginRollback ==
  /\ Command("rollback")
  /\ Freezable(Standbys) /\ Freeze(Standbys)
  /\ \E loss \in BOOLEAN :
       orch' = [NoOrch EXCEPT !.cmd = "rollback", !.pc = "stop", !.on = head,
                              !.left = Standbys, !.loss = loss]
  /\ UNCHANGED lineage

\* run_abort.
BeginAbort ==
  /\ Command("abort")
  /\ orch' = [NoOrch EXCEPT !.cmd = "abort", !.pc = "abort"]
  /\ UNCHANGED <<record, lineage>>

\* run_resume, resume_targets: only a record that served its primary.
BeginResume ==
  /\ Command("resume")
  /\ Serving(head) /\ ~record.frozen /\ record.awaiting # {}
  /\ orch' = [NoOrch EXCEPT !.cmd = "resume", !.pc = "rejoin", !.on = head,
                            !.left = record.awaiting]
  /\ UNCHANGED <<record, lineage>>

\* run_confirm: after verify_post_upgrade.
BeginConfirm ==
  /\ Command("confirm")
  /\ \A n \in Nodes : running[n] /\ Major(Here(n)) = "new" /\ Here(n).id = Here(head).id
  /\ orch' = [NoOrch EXCEPT !.cmd = "confirm", !.pc = "confirm", !.left = Nodes]
  /\ UNCHANGED <<record, lineage>>

\* stop_postgres on each standby; an apply that cannot stop one aborts.
StopStandby ==
  /\ orch.pc = "stop" /\ orch.left # {}
  /\ \E n \in orch.left :
       /\ work[n] = "none"
       /\ \/ /\ running' = [running EXCEPT ![n] = FALSE]
             /\ orch' = [orch EXCEPT !.left = @ \ {n}]
          \/ /\ UNCHANGED running
             /\ orch' = IF orch.cmd = "apply" THEN [orch EXCEPT !.pc = "abort"]
                                              ELSE [orch EXCEPT !.left = @ \ {n}]
  /\ UNCHANGED <<record, lineage, head, diskVars, work, acked, bounds, lateAbort>>

\* The call ends without a success the orchestrator hears of: an error, a
\* crash of the node, or the client's own timeout, the handler working on.
CallFails ==
  /\ orch.pc \in {"call", "wait"}
  /\ orch' = [orch EXCEPT !.pc = "abort"]
  /\ UNCHANGED <<record, lineage, head, diskVars, running, work, acked, bounds, lateAbort>>

\* serve_swapped_primary, after wait_for_serving_primary.
CommitServe ==
  /\ orch.pc = "serve" /\ Serving(head) /\ Serving(orch.on)
  /\ Serve(Here(orch.on).id)
  /\ orch' = [orch EXCEPT !.pc = "rejoin", !.left = Nodes \ {orch.on}]
  /\ UNCHANGED <<head, diskVars, running, work, acked, bounds, lateAbort>>

\* wait_standby_streaming, then Rejoined.
CommitRejoined ==
  /\ orch.pc = "rejoin"
  /\ \E n \in orch.left :
       /\ work[n] = "none" /\ running[n] /\ Here(n).id = Here(head).id
       /\ Rejoined(n)
       /\ orch' = IF orch.left = {n} THEN NoOrch ELSE [orch EXCEPT !.left = @ \ {n}]
  /\ UNCHANGED <<lineage, head, diskVars, running, work, acked, bounds, lateAbort>>

\* No handler is at work on n, its configuration names the directory it runs on,
\* and that is of the leader's major.
AtRest(n) ==
  work[n] = "none" /\ active[n] = pgConfig[n] /\ Major(Here(n)) = Major(Here(head))

\* abort_after_serving_primary, run_abort.
CommitAbort ==
  /\ orch.pc = "abort" /\ Serving(head)
  /\ IF Abortable THEN record' = [frozen |-> FALSE, awaiting |-> {}] ELSE UNCHANGED record
  /\ lateAbort' = (lateAbort \/ (Abortable /\ \E n \in Nodes : ~AtRest(n)))
  /\ orch' = NoOrch
  /\ UNCHANGED <<lineage, head, diskVars, running, work, acked, bounds>>

\* It dies, gives up waiting, or is refused.
OrchestratorEnds ==
  /\ orch.pc # "none"
  /\ orch' = NoOrch
  /\ UNCHANGED <<record, lineage, head, diskVars, running, work, acked, bounds, lateAbort>>

-----------------------------------------------------------------------------
(* run_primary_pg_upgrade_apply on the frozen leader. *)

ApplyRefused(n) == ~record.frozen \/ head # n \/ n \in record.awaiting

\* The handlers of apply, rollback and confirm: one at a time holds the node's
\* upgrade_lock, and an apply is checked against the record first.
ApplyAdmitted(n) ==
  orch.pc = "call" /\ orch.cmd = "apply" /\ orch.on = n /\ ~ApplyRefused(n) /\ work[n] = "none"

RollbackAdmitted(n) ==
  orch.pc = "call" /\ orch.cmd = "rollback" /\ orch.on = n /\ work[n] = "none"

ConfirmAdmitted(n) == orch.pc = "confirm" /\ n \in orch.left /\ work[n] = "none"

\* A leftover target goes only while the old cluster is the viable one and no
\* client resumed on the new one.
Discardable(n) == Here(n).whole /\ marks[n] = {}

Step(n, to) == work' = [work EXCEPT ![n] = to]

\* pg_upgrade ends midway: the target is a wreck, and --link may already have
\* renamed the old cluster's pg_control.
Interrupted(n) ==
  {[dirs EXCEPT ![n]["sib"] = Wreck],
   [dirs EXCEPT ![n]["sib"] = Wreck, ![n]["base"].whole = (work[n] = "copying")]}

ApplyStops(n) ==
  /\ ApplyAdmitted(n)
  /\ running[n] /\ Major(Here(n)) = "old" /\ active[n] = "base"
  /\ dirs[n]["sib"] = NoDir \/ Discardable(n)
  /\ swaps < MaxSwaps
  /\ dirs' = [dirs EXCEPT ![n]["sib"] = NoDir]
  /\ running' = [running EXCEPT ![n] = FALSE]
  /\ Step(n, IF orch.mode = "link" THEN "linking" ELSE "copying")
  /\ orch' = [orch EXCEPT !.pc = "wait"]
  /\ UNCHANGED <<record, lineage, head, active, pgConfig, marks, acked, bounds, lateAbort>>

\* initdb, which makes a lineage of its own, and pg_upgrade; --link renames the old cluster's pg_control.
UpgradesFiles(n) ==
  /\ work[n] \in {"copying", "linking"}
  /\ swaps < MaxSwaps /\ swaps' = swaps + 1
  /\ dirs' = [dirs EXCEPT
       ![n]["sib"] = [id |-> swaps + 2, has |-> dirs[n]["base"].has, whole |-> TRUE],
       ![n]["base"].whole = (work[n] = "copying")]
  /\ Step(n, "upgraded")
  /\ UNCHANGED <<record, lineage, head, active, pgConfig, marks, running, orch, acked, writes,
                 commands, deaths, lateAbort>>

\* write_unfreeze_watermark: what the new cluster held when it was first opened.
WriteMarks(n) == [marks EXCEPT ![n] = {dirs[n]["sib"].has}]

\* Retargeted, started, probed, scripts and vacuumdb run, the watermark written.
ApplyMarks(n) ==
  /\ work[n] = "upgraded"
  /\ active' = [active EXCEPT ![n] = "sib"]
  /\ running' = [running EXCEPT ![n] = TRUE]
  /\ marks' = WriteMarks(n)
  /\ Step(n, "applied")
  /\ UNCHANGED <<record, lineage, head, dirs, pgConfig, orch, acked, bounds, lateAbort>>

\* A step after the stop fails: recover_old_cluster_after_failed_apply.  With its
\* pg_control in place the old cluster is started again, if it starts.  Without it
\* the handler returns as it is: on the old directory, stopped, when pg_upgrade
\* itself failed; on the new one, which may serve, when a later step did.
ApplyFails(n) ==
  /\ work[n] \in {"copying", "linking", "upgraded"}
  /\ \/ work[n] = "upgraded" /\ UNCHANGED dirs
     \/ work[n] # "upgraded" /\ dirs' \in Interrupted(n)
  /\ \E up \in BOOLEAN :
       /\ running' = [running EXCEPT ![n] = up]
       /\ \/ /\ dirs'[n]["base"].whole \/ (work[n] # "upgraded" /\ ~up)
             /\ active' = [active EXCEPT ![n] = "base"]
          \/ /\ ~dirs'[n]["base"].whole /\ work[n] = "upgraded"
             /\ "link apply fails late" \in UpgradeLapses
             /\ active' = [active EXCEPT ![n] = "sib"]
  /\ Step(n, "none")
  /\ UNCHANGED <<record, lineage, head, pgConfig, marks, orch, acked, bounds, lateAbort>>

\* rewrite_config_pg_paths, whole or not at all.
RewritePaths(n) == [pgConfig EXCEPT ![n] = active[n]]

\* persist_retarget, and the answer, if the orchestrator still waits for it.
Persist(n) ==
  /\ work[n] \in {"applied", "rolled back", "cloned"}
  /\ pgConfig' \in {RewritePaths(n)}
                  \union (IF "retarget not persisted" \in UpgradeLapses THEN {pgConfig} ELSE {})
  /\ Step(n, "none")
  /\ orch' = IF orch.pc = "wait" /\ orch.on = n THEN [orch EXCEPT !.pc = "serve"] ELSE orch
  /\ UNCHANGED <<record, lineage, head, dirs, active, marks, running, acked, bounds, lateAbort>>

-----------------------------------------------------------------------------
(* rollback_local. *)

\* Faulty variant: the watermark is not looked at.
MayAlwaysDiscard(n) == TRUE

\* rollback_may_discard_writes: no WAL past the watermark.  pg_upgrade starts the
\* new cluster's WAL past the old one's.
MayDiscard(n) == \E m \in marks[n] : Here(n).id = 1 \/ Here(n).has \subseteq m

Older(n) == dirs[n]["base"]

RollbackStops(n) ==
  /\ RollbackAdmitted(n)
  /\ Older(n).id = 1 /\ Older(n).whole
  /\ (running[n] /\ MayDiscard(n)) \/ orch.loss
  /\ acked' = IF orch.loss THEN acked \intersect Older(n).has ELSE acked
  /\ running' = [running EXCEPT ![n] = FALSE]
  /\ Step(n, "stopped")
  /\ orch' = [orch EXCEPT !.pc = "wait"]
  /\ UNCHANGED <<record, lineage, head, diskVars, bounds, lateAbort>>

\* The old cluster starts.  When it takes the probe's write, the target is moved
\* aside and the watermark removed; when it does not, the handler returns with the
\* old cluster running and the configuration still naming the new one.
RollsBack(n) ==
  /\ work[n] = "stopped"
  /\ active' = [active EXCEPT ![n] = "base"]
  /\ running' = [running EXCEPT ![n] = TRUE]
  /\ \E probed \in {TRUE} \union (IF "rollback fails late" \in UpgradeLapses THEN {FALSE} ELSE {}) :
       /\ dirs' = IF probed THEN [dirs EXCEPT ![n]["sib"] = NoDir] ELSE dirs
       /\ marks' = IF probed THEN [marks EXCEPT ![n] = {}] ELSE marks
       /\ Step(n, IF probed THEN "rolled back" ELSE "none")
  /\ UNCHANGED <<record, lineage, head, pgConfig, orch, acked, bounds, lateAbort>>

-----------------------------------------------------------------------------
(* run_standby_rebasebackup, and confirm_local. *)

\* The handler wipes only a node the record awaits, and only while the primary
\* it clones from answers.
RejoinWipes(n) ==
  /\ orch.pc = "rejoin" /\ n \in orch.left
  /\ work[n] = "none" /\ n \in record.awaiting /\ Serving(orch.on)
  /\ running' = [running EXCEPT ![n] = FALSE]
  /\ dirs' = [dirs EXCEPT ![n][active[n]] = Wreck]
  /\ Step(n, "wiped")
  /\ UNCHANGED <<record, lineage, head, active, pgConfig, marks, orch, acked, bounds, lateAbort>>

RejoinClones(n) ==
  /\ work[n] = "wiped"
  /\ \/ /\ running[head] /\ Here(head).whole
        /\ dirs' = [dirs EXCEPT ![n][active[n]] = Here(head)]
        /\ running' = [running EXCEPT ![n] = TRUE]
        /\ Step(n, "cloned")
     \/ Step(n, "none") /\ UNCHANGED <<dirs, running>>      \* it fails, wiped
  /\ UNCHANGED <<record, lineage, head, active, pgConfig, marks, orch, acked, bounds, lateAbort>>

ConfirmLocal(n) ==
  /\ ConfirmAdmitted(n) /\ Major(Here(n)) = "new"
  /\ IF Major(dirs[n][Other(active[n])]) = "old"
     THEN /\ dirs' = [dirs EXCEPT ![n][Other(active[n])] = NoDir]
          /\ marks' = [marks EXCEPT ![n] = {}]
     ELSE UNCHANGED <<dirs, marks>>
  /\ orch' = IF orch.left = {n} THEN NoOrch ELSE [orch EXCEPT !.left = @ \ {n}]
  /\ UNCHANGED <<record, lineage, head, active, pgConfig, running, work, acked, bounds, lateAbort>>

-----------------------------------------------------------------------------
(* The reconciler, the clients, crashes and elections. *)

Call ==
  /\ orch.pc = "stop" /\ orch.left = {}
  /\ orch' = [orch EXCEPT !.pc = "call"]
  /\ UNCHANGED <<record, lineage, head, diskVars, running, work, acked, bounds, lateAbort>>

\* A leader without a postmaster starts one, unless the upgrade is frozen.
LeaderStarts ==
  /\ ~running[head] /\ work[head] = "none" /\ ~record.frozen /\ Here(head).whole
  /\ running' = [running EXCEPT ![head] = TRUE]
  /\ UNCHANGED <<record, lineage, head, diskVars, work, orch, acked, bounds, lateAbort>>

\* A stopped standby follows, or is cloned from, a leader of the committed lineage
\* and of its own major, unless the record awaits it.
StandbyFollows(n) ==
  /\ n # head /\ ~running[n] /\ work[n] = "none" /\ n \notin record.awaiting
  /\ running[head] /\ Here(head).id = lineage /\ Major(Here(n)) = Major(Here(head))
  /\ dirs' = [dirs EXCEPT ![n][active[n]] = Here(head)]
  /\ running' = [running EXCEPT ![n] = TRUE]
  /\ UNCHANGED <<record, lineage, head, active, pgConfig, marks, work, orch, acked, bounds,
                 lateAbort>>

Streams(n) == n = head \/ (running[n] /\ Here(n).id = Here(head).id)

ClientWrite ==
  /\ Open(head) /\ writes < MaxWrites
  /\ writes' = writes + 1
  /\ acked' = acked \union {writes + 1}
  /\ dirs' = [n \in Nodes |->
       IF Streams(n) THEN [dirs[n] EXCEPT ![active[n]].has = @ \union {writes + 1}]
                     ELSE dirs[n]]
  /\ UNCHANGED <<record, lineage, head, active, pgConfig, marks, running, work, orch, swaps,
                 commands, deaths, lateAbort>>

\* The process dies and starts again on the directory its configuration names.
\* pg_upgrade dies with it.
ProcessRestarts(n) ==
  /\ deaths < MaxDeaths /\ deaths' = deaths + 1
  /\ active' = [active EXCEPT ![n] = pgConfig[n]]
  /\ dirs' \in IF work[n] \in {"copying", "linking"} THEN Interrupted(n) ELSE {dirs}
  /\ running' \in {[running EXCEPT ![n] = up] : up \in {FALSE, dirs'[n][pgConfig[n]].whole}}
  /\ Step(n, "none")
  /\ UNCHANGED <<record, lineage, head, pgConfig, marks, orch, acked, swaps, writes, commands,
                 lateAbort>>

\* vote_lsn_gate: a voter on directory e lets a candidate on d through.  A stopped
\* voter reads its position off the directory and refuses when it cannot, one
\* without a directory refuses nobody, and pg_upgrade starts the new cluster's WAL
\* past the old one's.
GateLetsThrough(d, e) ==
  \/ e.id < 1
  \/ d.whole /\ e.whole /\ (d.id > e.id \/ (d.id = e.id /\ e.has \subseteq d.has))

\* A majority elects n, whether its PostgreSQL runs or not and whether the record
\* awaits it or not.
LeadershipMoves(n) ==
  /\ deaths < MaxDeaths /\ deaths' = deaths + 1
  /\ n # head
  /\ \E Q \in SUBSET Nodes :
       /\ 2 * Cardinality(Q) > Cardinality(Nodes) /\ n \in Q
       /\ \A m \in Q \ {n} : GateLetsThrough(Here(n), Here(m))
  /\ \/ "standby left behind elected" \in UpgradeLapses
     \/ Here(n).id = Here(head).id /\ Here(head).has \subseteq Here(n).has
  /\ \/ "election in an upgrade" \in UpgradeLapses
     \/ ~record.frozen /\ n \notin record.awaiting
  /\ head' = n
  /\ UNCHANGED <<record, lineage, diskVars, running, work, orch, acked, swaps, writes,
                 commands, lateAbort>>

-----------------------------------------------------------------------------
Original == [id |-> 1, has |-> {}, whole |-> TRUE]

UpgradeInit ==
  /\ record = [frozen |-> FALSE, awaiting |-> {}] /\ lineage = 1
  /\ head \in Nodes
  /\ dirs = [n \in Nodes |-> [x \in {"base", "sib"} |-> IF x = "base" THEN Original ELSE NoDir]]
  /\ active = [n \in Nodes |-> "base"] /\ pgConfig = active
  /\ running = [n \in Nodes |-> TRUE] /\ marks = [n \in Nodes |-> {}]
  /\ work = [n \in Nodes |-> "none"] /\ orch = NoOrch /\ acked = {}
  /\ swaps = 0 /\ writes = 0 /\ commands = 0 /\ deaths = 0 /\ lateAbort = FALSE

Handler(n) ==
  \/ ApplyStops(n) \/ UpgradesFiles(n) \/ ApplyMarks(n) \/ ApplyFails(n) \/ Persist(n)
  \/ RollbackStops(n) \/ RollsBack(n)
  \/ RejoinWipes(n) \/ RejoinClones(n) \/ ConfirmLocal(n)

UpgradeNext ==
  \/ BeginApply \/ BeginRollback \/ BeginAbort \/ BeginResume \/ BeginConfirm
  \/ StopStandby \/ Call \/ CallFails \/ CommitServe \/ CommitRejoined \/ CommitAbort
  \/ OrchestratorEnds
  \/ \E n \in Nodes : Handler(n) \/ StandbyFollows(n) \/ ProcessRestarts(n) \/ LeadershipMoves(n)
  \/ LeaderStarts \/ ClientWrite

UpgradeSpec == UpgradeInit /\ [][UpgradeNext]_upgradeVars

-----------------------------------------------------------------------------
\* Whatever the upgrade, its rollback, a crash of the node or of the orchestrator
\* leave behind, the primary clients are released to holds every write ever
\* acknowledged, except those an operator gave up with --accept-write-loss.
ReleasedPrimaryIsCurrent == \A n \in Nodes : Open(n) => acked \subseteq Here(n).has

OneMajor == \A n \in Nodes : Major(Here(n)) \in {"none", Major(Here(head))}

\* When the record is at rest no data directory is of another major than the
\* primary's, a standby leaves awaiting_rejoin only on the primary's major:
\* wherever no abort was committed over a swap, done or in progress.
OneMajorUnlessAborted ==
  ~record.frozen /\ record.awaiting = {} /\ work[head] = "none" /\ ~lateAbort => OneMajor

=============================================================================
