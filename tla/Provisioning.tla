---------------------------- MODULE Provisioning ----------------------------
(***************************************************************************)
(* One node's data directory: joining, starting, and coming back to follow *)
(* the leader.  The directory is looked at from outside, as the code does: *)
(* PG_VERSION, the control file's lineage, standby.signal, and whether     *)
(* PostgreSQL opens it.  The process may die between any two steps.        *)
(*                                                                         *)
(* The rest of the cluster is one leader address: it may be unreachable,   *)
(* and it may for a while be an impostor, a node that lost its state and   *)
(* bootstrapped a new database under a live address.                       *)
(***************************************************************************)
EXTENDS Integers

CONSTANTS
  JoinAttempts,  \* JOIN_CLONE_ATTEMPTS
  MaxFaults,     \* bound: failures of any kind
  Unrepaired     \* failures the code leaves a node stuck after, when included

ASSUME ProvisioningAssumption ==
  /\ JoinAttempts \in Nat \ {0} /\ MaxFaults \in Nat
  /\ Unrepaired \subseteq {"crash in copy", "dry run hangs", "hole across timelines"}

VARIABLES
  launch,   \* how the process is started: "join" or "bootstrap"
  dir,      \* the data directory
  server,   \* the PostgreSQL that runs on it: "down", "standby" or "primary"
  at,       \* where the process is, "off" when there is none
  pointed,  \* postgresql.auto.conf names this leader
  former,   \* the role a rewind stopped
  member,   \* raft.db exists
  listed,   \* the cluster's membership lists this node
  leader,   \* the leader's address: reachable, and whose data it serves
  term,     \* ClusterState.lineage, "none" until it is committed
  budget,   \* rewind_budget
  attempts, \* clones tried by this join
  faults

provVars == <<launch, dir, server, at, pointed, former, member, listed, leader, term,
              budget, attempts, faults>>

Lineages == {"ours", "other"}

(***************************************************************************)
(* has: "none", "debris" (files, no PG_VERSION), "torn" (PG_VERSION, but   *)
(* PostgreSQL will not open it) or "whole".  lineage: what pg_controldata  *)
(* reads.  wal: "behind" the leader, behind it by WAL the leader has       *)
(* recycled (a "hole"), "ahead" of it within the rewind budget, or "far"   *)
(* beyond it.  copy, history: taken from a leader and never promoted.      *)
(***************************************************************************)
Nothing == [has |-> "none", lineage |-> "unknown", wal |-> "behind", signal |-> FALSE,
            copy |-> FALSE]
Debris == [Nothing EXCEPT !.has = "debris"]
TornClone == [Nothing EXCEPT !.has = "torn"]   \* the control file is copied last
Copied == [has |-> "whole", lineage |-> leader.lineage, wal |-> "behind",
           signal |-> FALSE, copy |-> TRUE]
Intact(d) == d.has = "whole"

HasVersion(d) == d.has \in {"torn", "whole"}         \* has_existing_pg_data

Fault == faults < MaxFaults /\ faults' = faults + 1
NoFault == UNCHANGED faults
FailsWhen(certain) == (certain /\ NoFault) \/ Fault   \* it fails, as it may at any time
World == <<launch, leader, term, budget>>

-----------------------------------------------------------------------------
(***************************************************************************)
(* Whose data it is.                                                       *)
(***************************************************************************)

\* peer_speaks_for_lineage: unknown is not a mismatch.
PeerSpeaksForLineage(local, peer) == "unknown" \in {local, peer} \/ local = peer

\* Faulty variant: data is given up on the answer that membership needs.
CloneUnlessForeign(local, peer) == PeerSpeaksForLineage(local, peer)

\* clone_supersedes_local_data: only a proven match.
CloneSupersedesLocalData(local, peer) == local # "unknown" /\ local = peer

\* join_data_dir_disposition; FALSE refuses the join.
MayClear(d, peer) ==
  ~HasVersion(d) \/ CloneSupersedesLocalData(d.lineage, peer)

\* serves_cluster_lineage under LineageTerm::Committed.
ServesClusterLineage(source) == term # "none" /\ source = term

\* An identity request, which may go unanswered.
AnswersIdentity(p) ==
  \/ p = leader.lineage /\ NoFault
  \/ p = "unknown" /\ Fault

\* is_in_committed_membership: an impostor's cluster lists only itself.
ListsThisNode == leader.lineage = "ours" /\ listed

-----------------------------------------------------------------------------
(***************************************************************************)
(* run_join_flow.                                                          *)
(***************************************************************************)
Start ==
  /\ at = "off"
  /\ at' = IF launch = "bootstrap" THEN "boot" ELSE IF member THEN "resume" ELSE "fresh"
  /\ attempts' = 0
  /\ UNCHANGED <<dir, server, pointed, former, member, listed, faults, World>>

\* Raft state exists.
Resume ==
  /\ at = "resume"
  /\ \/ /\ ~leader.up \/ (ListsThisNode /\ HasVersion(dir))
        /\ at' = "boot" /\ NoFault /\ UNCHANGED <<dir, member>>
     \/ /\ leader.up /\ ListsThisNode /\ ~HasVersion(dir)
        /\ at' = "refill" /\ dir' = Nothing /\ NoFault /\ UNCHANGED member
     \/ /\ leader.up /\ ~ListsThisNode
        /\ \E p \in Lineages \cup {"unknown"} :
             /\ AnswersIdentity(p)
             /\ IF PeerSpeaksForLineage(dir.lineage, p)
                THEN at' = "fresh" /\ member' = FALSE      \* wipe_raft_state
                ELSE at' = "boot" /\ UNCHANGED member
        /\ UNCHANGED dir
  /\ UNCHANGED <<server, pointed, former, listed, attempts, World>>

\* discover_join_leader, ensure_join_data_dir_ready, register_as_learner.  A join
\* that an impostor would accept is the operator's mistake, and no step here.
FreshJoin ==
  /\ at = "fresh"
  /\ \/ ~leader.up /\ at' = "off" /\ NoFault /\ UNCHANGED <<dir, listed>>
     \/ /\ leader.up
        /\ \E p \in Lineages \cup {"unknown"} :
             /\ AnswersIdentity(p)
             /\ IF MayClear(dir, p)
                THEN /\ dir' = Nothing
                     /\ IF leader.lineage = "ours" THEN at' = "join" /\ listed' = TRUE
                                                   ELSE at' = "off" /\ UNCHANGED listed
                ELSE at' = "off" /\ UNCHANGED <<dir, listed>>
  /\ UNCHANGED <<server, pointed, former, member, attempts, World>>

\* prepare_join_data: the copy, its standby.signal, its primary_conninfo.
Prepared(d) == [d EXCEPT !.signal = TRUE]

JoinClone ==
  /\ at \in {"join", "refill"} /\ leader.up
  /\ dir' = Prepared(Copied) /\ pointed' = TRUE /\ at' = "boot"
  /\ UNCHANGED <<server, former, member, listed, attempts, faults, World>>

\* clone_from_leader discards what an attempt left, and its last failure takes the
\* registration back, if the leader answers.
JoinCloneFails ==
  /\ at \in {"join", "refill"} /\ FailsWhen(~leader.up)
  /\ dir' = Nothing
  /\ attempts' = IF attempts < JoinAttempts THEN attempts + 1 ELSE attempts
  /\ IF at = "refill" \/ attempts' = JoinAttempts THEN at' = "off" ELSE UNCHANGED at
  /\ IF at = "join" /\ at' = "off" /\ leader.up THEN listed' \in {FALSE, listed}
                                                ELSE UNCHANGED listed
  /\ UNCHANGED <<server, pointed, former, member, World>>

-----------------------------------------------------------------------------
(***************************************************************************)
(* start_supervisor_for_mode.  raft.db is opened before it.                *)
(***************************************************************************)

\* Supervisor::start: a whole directory opens, unless PostgreSQL refuses it.
RoleOpened(d) == IF d.signal THEN "standby" ELSE "primary"

\* start_standby_or_defer_repair
BootStandby ==
  /\ HasVersion(dir) /\ dir.signal /\ at' = "run"
  /\ \/ Intact(dir) /\ server' = "standby" /\ NoFault
     \/ ~Intact(dir) /\ server' = "down" /\ NoFault
     \/ Intact(dir) /\ server' = "down" /\ Fault
  /\ UNCHANGED dir

BootPrimary ==
  /\ HasVersion(dir) /\ ~dir.signal
  /\ \/ Intact(dir) /\ server' = "primary" /\ at' = "run" /\ NoFault
     \/ ~Intact(dir) /\ server' = "down" /\ at' = "off" /\ NoFault
     \/ Intact(dir) /\ server' = "down" /\ at' = "off" /\ Fault
  /\ UNCHANGED dir

\* No data: a bootstrap node that no peer lists runs initdb, which wants an empty
\* directory; one that a peer lists leaves the directory to the reconciler.
BootEmpty ==
  /\ ~HasVersion(dir) /\ NoFault
  /\ \/ /\ launch = "bootstrap" /\ leader.up /\ ListsThisNode
        /\ at' = "run" /\ server' = "down" /\ UNCHANGED dir
     \/ /\ launch = "bootstrap" /\ ~(leader.up /\ ListsThisNode) /\ dir.has = "none"
        /\ dir' = [Nothing EXCEPT !.has = "whole", !.lineage = "other"]
        /\ at' = "run" /\ server' = "primary"
     \/ /\ launch = "join" \/ (dir.has = "debris" /\ ~(leader.up /\ ListsThisNode))
        /\ at' = "off" /\ UNCHANGED <<dir, server>>

Boot ==
  /\ at = "boot" /\ member' = TRUE
  /\ BootStandby \/ BootPrimary \/ BootEmpty
  /\ UNCHANGED <<pointed, former, listed, attempts, World>>

-----------------------------------------------------------------------------
(***************************************************************************)
(* Supervisor::demote, from a reconcile pass that knows the leader.        *)
(***************************************************************************)
Following ==
  server = "standby" /\ pointed /\ dir.lineage = leader.lineage /\ dir.wal = "behind"

Passes == at = "run" /\ leader.up /\ listed

\* reprovision_from: the source's lineage is read again before anything is cleared,
\* and a source that does not answer clears nothing.
Reprovision(d) ==
  /\ server' = "down"
  /\ IF leader.up /\ ServesClusterLineage(leader.lineage)
     THEN dir' = Nothing /\ at' = "reclone"
     ELSE dir' = d /\ at' = "run"

\* restart_or_repair_standby: configure_standby writes into the directory it finds.
RestartOrRepair ==
  /\ Passes /\ server = "down"
  /\ pointed' = TRUE
  /\ LET d == IF dir.has = "none" THEN Debris ELSE dir
     IN \/ Intact(d) /\ server' = RoleOpened(d) /\ NoFault /\ UNCHANGED <<dir, at>>
        \/ ~Intact(d) /\ Reprovision(d) /\ NoFault
        \/ Intact(d) /\ Reprovision(d) /\ Fault
  /\ UNCHANGED <<former, member, listed, attempts, World>>

\* check_timeline_state: what the probe of the leader may come to.  The timelines
\* are not told apart otherwise than by the answer.
TimelineChecks ==
  {"Unknown"} \cup IF ServesClusterLineage(leader.lineage) THEN {"Match", "Mismatch"}
                                                         ELSE {"Foreign"}

LocalAhead == dir.wal \in {"ahead", "far"}   \* local_ahead_of_leader
ReplayCanContinue == dir.wal # "hole"        \* replay_can_continue

\* Faulty variant: a gap in the leader's WAL is left to PostgreSQL.
StreamingGapDefers == IF LocalAhead THEN "Rewind" ELSE "Defer"

\* streaming_gap_action
StreamingGapAction ==
  IF LocalAhead THEN "Rewind" ELSE IF ReplayCanContinue THEN "Defer" ELSE "Reprovision"

\* decide_standby_action.  What defers is as if this pass had not been.
StandbyAction(timeline) ==
  IF timeline \in {"Unknown", "Foreign"} THEN "Defer"
  ELSE CASE ~pointed /\ timeline = "Match"    -> "Repoint"
         [] ~pointed /\ timeline = "Mismatch" -> IF LocalAhead THEN "Rewind" ELSE "Repoint"
         [] Following                         -> "NoOp"
         [] OTHER -> IF timeline = "Mismatch" THEN "Rewind" ELSE StreamingGapAction

\* repoint_standby
RepointStandby ==
  /\ Passes /\ server = "standby"
  /\ \E timeline \in TimelineChecks :
       /\ dir.wal = "hole" /\ timeline = "Mismatch"
          => "hole across timelines" \in Unrepaired
       /\ CASE StandbyAction(timeline) = "Repoint" ->
                 pointed' = TRUE /\ UNCHANGED <<dir, server, at, former>>
            [] StandbyAction(timeline) = "Rewind" ->
                 /\ server' = "down" /\ at' = "rewind" /\ former' = "standby"
                 /\ UNCHANGED <<dir, pointed>>
            [] StandbyAction(timeline) = "Reprovision" ->
                 Reprovision(dir) /\ UNCHANGED <<pointed, former>>
            [] OTHER -> FALSE
  /\ UNCHANGED <<member, listed, attempts, faults, World>>

\* former_primary_action: it defers where it cannot tell, and rewinds otherwise.
FormerPrimaryAction(timeline) ==
  IF timeline \in {"Match", "Mismatch"} THEN "Rewind" ELSE "Defer"

DemotePrimary ==
  /\ Passes /\ server = "primary"
  /\ \E timeline \in TimelineChecks : FormerPrimaryAction(timeline) = "Rewind"
  /\ server' = "down" /\ at' = "rewind" /\ former' = "primary"
  /\ UNCHANGED <<dir, pointed, member, listed, attempts, faults, World>>

\* What run_pg_rewind comes to before it copies.
RewindOutcomes ==
  IF ~leader.up THEN {"untouched"}
  ELSE IF dir.lineage # leader.lineage THEN {"foreign"}
  ELSE IF dir.wal = "far" /\ budget = "bytes"
       THEN {"refused"} \cup IF "dry run hangs" \in Unrepaired THEN {"compromised"} ELSE {}
  ELSE IF LocalAhead THEN {"copy"} ELSE {"nothing"}

\* rewind_recovery
RewindRecovery(outcome) ==
  IF outcome \in {"untouched", "refused"} THEN "RestartInPlace" ELSE "Reprovision"

\* A former standby is marked and started again: it starts, or it does not come back,
\* or PostgreSQL refuses the directory.  A former primary is left stopped, and the
\* next pass starts it as it is.
RestartInPlace ==
  LET marked == [dir EXCEPT !.signal = TRUE]
  IN \/ /\ former = "standby" /\ pointed' = TRUE
        /\ \/ server' = "standby" /\ dir' = marked /\ at' = "run"
           \/ /\ faults' # faults
              /\ Reprovision(marked) \/ (server' = "down" /\ dir' = marked /\ at' = "run")
     \/ former = "primary" /\ server' = "down" /\ at' = "run" /\ UNCHANGED <<dir, pointed>>

\* Whether anything can be put in its place or not, d is what the rewind left.
Recover(outcome, d) ==
  IF RewindRecovery(outcome) = "RestartInPlace" THEN RestartInPlace
  ELSE Reprovision(d) /\ UNCHANGED pointed

\* A copy that ends midway: before the first block, or after it, standby.signal then
\* perhaps removed as the source has none.
HalfRewound(d) ==
  {d} \cup {[d EXCEPT !.has = "torn", !.signal = s] : s \in {FALSE, d.signal}}

\* pg_rewind ends well: standby.signal is written with its success.
Rewound(d) == [d EXCEPT !.signal = TRUE]

StartRewound(d) ==
  dir' = Rewound(d) /\ pointed' = TRUE /\ server' = RoleOpened(dir') /\ at' = "run"

Rewind ==
  /\ at = "rewind"
  /\ \/ \E o \in RewindOutcomes :
          CASE o = "copy" -> NoFault /\ at' = "copy" /\ UNCHANGED <<dir, server, pointed>>
            [] o = "nothing" -> NoFault /\ StartRewound(dir)
            [] OTHER -> (NoFault \/ Fault) /\ Recover(o, dir)
     \/ Fault /\ Recover("untouched", dir)
  /\ UNCHANGED <<former, member, listed, attempts, World>>

Copy ==
  /\ at = "copy"
  /\ \/ leader.up /\ dir.lineage = leader.lineage /\ NoFault /\ StartRewound(Copied)
     \/ /\ FailsWhen(~leader.up \/ dir.lineage # leader.lineage)
        /\ \/ Recover("untouched", dir)
           \/ \E d \in HalfRewound(dir) : Recover("compromised", d)
  /\ UNCHANGED <<former, member, listed, attempts, World>>

Reclone ==
  /\ at = "reclone"
  /\ \/ leader.up /\ ServesClusterLineage(leader.lineage) /\ NoFault /\ StartRewound(Copied)
     \/ /\ FailsWhen(~leader.up \/ ~ServesClusterLineage(leader.lineage))
        /\ dir' = Nothing /\ at' = "run" /\ UNCHANGED <<server, pointed>>
  /\ UNCHANGED <<former, member, listed, attempts, World>>

-----------------------------------------------------------------------------
(***************************************************************************)
(* The world.                                                              *)
(***************************************************************************)
Copying == at \in {"join", "refill", "copy", "reclone"}

\* What a process that dies leaves of the directory it was writing.
Partial ==
  CASE at \in {"join", "refill", "reclone"} -> {Nothing, Debris, TornClone, Copied}
    [] at = "copy" -> {Copied} \cup HalfRewound(dir)
    [] OTHER -> {dir}

\* A directory half written, or half rewound and without standby.signal, is one that
\* every later start of the process fails on.
Crash ==
  /\ at # "off" /\ Fault
  /\ Copying \/ (dir.has = "torn" /\ ~dir.signal) => "crash in copy" \in Unrepaired
  /\ at' = "off" /\ server' = "down"
  /\ dir' \in Partial
  /\ UNCHANGED <<pointed, former, member, listed, attempts, World>>

\* The leader's address falls silent or serves an impostor; or another node leads.
LeaderFails ==
  /\ Fault /\ leader' \in [up : BOOLEAN, lineage : Lineages]
  /\ leader' # leader /\ (leader'.up \/ leader'.lineage = leader.lineage)
  /\ UNCHANGED <<launch, dir, server, at, pointed, former, member, listed, term, budget,
                attempts>>

LeaderMoves ==
  /\ Fault /\ pointed /\ Intact(dir) /\ dir.wal = "behind" /\ ~Copying
  /\ pointed' = FALSE
  /\ \E w \in {"behind", "hole", "ahead"} : dir' = [dir EXCEPT !.wal = w]
  /\ UNCHANGED <<server, at, former, member, listed, attempts, World>>

LeaderHeals ==
  /\ leader # [up |-> TRUE, lineage |-> "ours"]
  /\ leader' = [up |-> TRUE, lineage |-> "ours"]
  /\ UNCHANGED <<launch, dir, server, at, pointed, former, member, listed, term, budget,
                attempts, faults>>

\* A leader whose primary serves commits its lineage once.
CommitLineage ==
  /\ term = "none" /\ leader = [up |-> TRUE, lineage |-> "ours"]
  /\ term' = "ours"
  /\ UNCHANGED <<launch, dir, server, at, pointed, former, member, listed, leader, budget,
                attempts, faults>>

\* This node was promoted and deposed again: promote removes standby.signal, and what
\* it wrote may not be on the new leader.
Reigned ==
  /\ at = "run" /\ Following /\ leader.lineage = "ours" /\ Fault
  /\ server' = "primary"
  /\ \E w \in {"behind", "ahead", "far"} :
       dir' = [dir EXCEPT !.signal = FALSE, !.copy = FALSE, !.wal = w]
  /\ UNCHANGED <<at, pointed, former, member, listed, attempts, World>>

Removed ==
  /\ listed /\ at = "off" /\ Fault /\ listed' = FALSE
  /\ UNCHANGED <<dir, server, at, pointed, former, member, attempts, World>>

-----------------------------------------------------------------------------
StoredDirs ==
  {Nothing, Debris} \cup
  [has : {"whole"}, lineage : {"ours"}, wal : {"behind", "hole", "ahead", "far"},
   signal : BOOLEAN, copy : {FALSE}] \cup
  {[has |-> "torn", lineage |-> "ours", wal |-> "behind", signal |-> TRUE, copy |-> FALSE],
   [has |-> "whole", lineage |-> "other", wal |-> "behind", signal |-> FALSE, copy |-> FALSE]}

ProvInit ==
  /\ launch \in {"join", "bootstrap"} /\ dir \in StoredDirs
  /\ server = "down" /\ at = "off" /\ pointed = FALSE /\ former = "standby"
  /\ member \in BOOLEAN /\ listed \in {member, TRUE}
  /\ leader \in [up : BOOLEAN, lineage : Lineages]
  /\ term \in {"none", "ours"} /\ budget \in {"unbounded", "bytes"}
  /\ attempts = 0 /\ faults = 0

NodeStep ==
  \/ Start \/ Resume \/ FreshJoin \/ JoinClone \/ Boot
  \/ RestartOrRepair \/ RepointStandby \/ DemotePrimary \/ Rewind \/ Copy \/ Reclone

ProvNext ==
  \/ NodeStep \/ JoinCloneFails
  \/ Crash \/ LeaderFails \/ LeaderMoves \/ LeaderHeals \/ CommitLineage \/ Reigned \/ Removed

(***************************************************************************)
(* The process is restarted when it ends (restart: on-failure), its        *)
(* reconcile loop runs, and the cluster's own leader comes back.           *)
(***************************************************************************)
ProvFairness ==
  /\ WF_provVars(NodeStep \/ JoinCloneFails)
  /\ WF_provVars(LeaderHeals)
  /\ WF_provVars(CommitLineage)

ProvSpec == ProvInit /\ [][ProvNext]_provVars /\ ProvFairness

-----------------------------------------------------------------------------
Excess(d) == Intact(d) /\ d.lineage = "ours" /\ d.wal = "far" /\ budget = "bytes"

GivenUp == Intact(dir) /\ dir' # dir /\ ~(Intact(dir') /\ dir'.lineage = dir.lineage)

(***************************************************************************)
(* A node's data is safe whichever path replaces it: the join's            *)
(* disposition, a failed clone's clean-up, pg_rewind, reprovision_from.  A *)
(* complete directory is given up only for a source of its own lineage or  *)
(* of the cluster's; pg_rewind looks at it before it copies.  WAL past the *)
(* rewind budget waits for an operator (RewindDataLossRisk): it goes only  *)
(* with a directory PostgreSQL does not open, or by a join of a node the   *)
(* cluster no longer lists.  A copy of a leader is opened as its standby,  *)
(* never as a primary on the leader's own timeline (ensure_standby_signal). *)
(***************************************************************************)
DataIsKept ==
  [][/\ GivenUp /\ at # "copy" => leader.lineage \in {"ours", dir.lineage}
     /\ at' = "copy" /\ at # "copy" => dir.lineage = leader.lineage
     /\ Excess(dir) /\ ~Excess(dir') =>
          \/ at = "run" /\ server = "down"
          \/ at = "rewind" /\ former = "standby" /\ faults' # faults
          \/ at = "fresh"
     /\ server' = "primary" => ~dir'.copy]_provVars

\* What waits for an operator.
NeedsOperator ==
  \/ Excess(dir)                                            \* RewindDataLossRisk
  \/ ~listed /\ (at = "run" \/ launch = "bootstrap")        \* removed
  \/ ~member /\ launch = "join" /\ HasVersion(dir) /\ dir.lineage # "ours"  \* Refuse
  \/ ~listed /\ HasVersion(dir) /\ dir.lineage = "other"    \* resumes alone
  \/ launch = "bootstrap" /\ dir.has = "debris" /\ ~ListsThisNode

(***************************************************************************)
(* A node that no decision of an operator is needed for follows the leader *)
(* in the end, whatever it was started with and wherever it failed  *)
(* (run_join_flow, demote_to_leader, rewind_onto_leader, reprovision_from). *)
(***************************************************************************)
FollowsAgain == <>[](Following \/ NeedsOperator)

=============================================================================
