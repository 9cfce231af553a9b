----------------------------- MODULE StateStore -----------------------------
(***************************************************************************)
(* The replicated state of one node on its disk: the redb log and its      *)
(* purge point, the applied position and membership, the snapshot; and in  *)
(* memory the ClusterState they must be able to rebuild.                   *)
(*                                                                         *)
(* openraft drives it.  It appends, truncates and purges the log; one      *)
(* state-machine task applies batches, installs a leader's snapshot and    *)
(* hands the current one out; a builder takes snapshots beside that task.  *)
(* Every redb transaction is one step, every write of the shared state     *)
(* another, and the process may crash between any two.  A restart rebuilds *)
(* the state from the snapshot, the configured nodes and the log, since    *)
(* openraft delivers nothing at or below last_applied again.               *)
(*                                                                         *)
(* The rest of the cluster is the log it commits: an entry in this node's  *)
(* log is the one chosen at its index or a stale one of a deposed leader.  *)
(* A ClusterState is the sequence of the entries it reflects, with the     *)
(* node registry, which the configuration writes too.                      *)
(***************************************************************************)
EXTENDS Integers, Sequences

CONSTANTS
  Nodes,               \* node ids
  ConfigNodes,         \* this node and the peers of its configuration
  Payloads,            \* the entries the cluster may commit
  LastIndex,           \* bound: log indexes
  MaxCrashes,          \* bound: crashes
  BuildOverlapsInstall \* a snapshot may be built while one is installed

NoPos == -1
Index == 0..LastIndex
Position == Index \cup {NoPos}
PayloadTypes == {"Membership", "AddNode", "RemoveNode", "Command", "Blank"}

ASSUME StoreAssumption ==
  /\ LastIndex \in Nat /\ MaxCrashes \in Nat
  /\ ConfigNodes \subseteq Nodes
  /\ Payloads \subseteq [type : PayloadTypes, nodes : SUBSET Nodes]
  /\ BuildOverlapsInstall \in BOOLEAN

VARIABLES
  chosen,      \* the entry the cluster commits at each index
  commit,      \* the last index the cluster has committed
  replica,     \* registry and last membership of a node that has applied so far
  disk,        \* log, purged, last_applied, membership, snap
  state,       \* the ClusterState in memory
  applied_end, \* StateMachineStore::applied_end
  snapshot,    \* position of the newest snapshot openraft knows of
  task,        \* what the state-machine task, or the start, is doing
  builder,     \* what the snapshot builder has read
  proc,        \* "up", "down", "boot", or "failed" with a storage error
  crashes      \* crashes so far

clusterVars == <<chosen, commit, replica>>
stateVars == <<state, applied_end>>
procVars == <<proc, crashes>>
vars == <<clusterVars, disk, stateVars, snapshot, task, builder, procVars>>

Log == [Index -> {"absent", "chosen", "stale"}]
States == [applied : Position, effects : Seq(Position), nodes : SUBSET Nodes]
Snapshots == [pos : Position, membership : Position, data : States]
Disks == [log : Log, purged : Position, last_applied : Position,
          membership : Position, snap : Snapshots]

ApplyTasks ==
  [kind : {"apply", "membership"}, next : 0..(LastIndex + 1), last : Index,
   high : Position, end : 0..(LastIndex + 1)]
Tasks ==
  ApplyTasks \cup [kind : {"idle"}] \cup [kind : {"boot"}, next : 0..(LastIndex + 1)]
    \cup [kind : {"install", "send"}, pos : Position]
Builders ==
  [phase : {"idle"}] \cup [phase : {"position"}, pos : Position, membership : Position]
    \cup [phase : {"clone"}, pos : Position, membership : Position, data : States]

Idle == [kind |-> "idle"]
NoBuild == [phase |-> "idle"]

-----------------------------------------------------------------------------
(***************************************************************************)
(* The ClusterState.                                                       *)
(***************************************************************************)
NewState == [applied |-> NoPos, effects |-> <<>>, nodes |-> {}]

\* ClusterState::reflects
Reflects(s, i) == i <= s.applied

\* What an entry does to the registry: AddNode, RemoveNode, or the removal of
\* the nodes a membership no longer has (sync_membership_into).
Registered(p, nodes) ==
  IF p.type = "AddNode" THEN nodes \cup p.nodes
  ELSE IF p.type = "RemoveNode" THEN nodes \ p.nodes
  ELSE IF p.type = "Membership" THEN nodes \cap p.nodes
  ELSE nodes

Reflecting(s, i, e, nodes) ==
  [applied |-> i, effects |-> Append(s.effects, e), nodes |-> nodes]

\* Faulty variant: an entry delivered again is applied again.
ApplyAgain(s, i) ==
  [s EXCEPT !.applied = IF Reflects(s, i) THEN @ ELSE i,
            !.effects = Append(@, i), !.nodes = Registered(chosen[i], @)]

\* apply_entry, and what apply_membership_entry_atomic does to the state: an
\* entry the state reflects changes nothing.
ApplyEntry(s, i) ==
  IF Reflects(s, i) THEN s
  ELSE Reflecting(s, i, i, Registered(chosen[i], s.nodes))

\* Faulty variant: a blank entry has no effect, so nothing is noted.
NoteNothing(s, i) == s

\* note_applied: a blank entry moves the position only.
NoteApplied(s, i) == IF Reflects(s, i) THEN s ELSE Reflecting(s, i, i, s.nodes)

\* The configured nodes, as new_with_tls adds them with AddNode commands.
WithConfig(s) == [s EXCEPT !.nodes = @ \cup ConfigNodes]

\* The state of a node that has applied the chosen entries up to i, in order.
Prefix(i) == [k \in 1..(i + 1) |-> k - 1]

StateAt(i) == [applied |-> i, effects |-> Prefix(i), nodes |-> replica[i].nodes]

MembershipAt(i) == replica[i].membership

\* What a node that had applied all before has once it has applied entry i.
ReplicaWith(i) ==
  [nodes |-> Registered(chosen[i], replica[i - 1].nodes),
   membership |-> IF chosen[i].type = "Membership" THEN i
                  ELSE replica[i - 1].membership]

-----------------------------------------------------------------------------
(***************************************************************************)
(* The log.                                                                *)
(***************************************************************************)
Present == {i \in Index : disk.log[i] # "absent"}

\* LogStorageAdapter::log_state: the last entry, or the purge point.
IsLastLogId(i) ==
  IF Present = {} THEN i = disk.purged
  ELSE i \in Present /\ \A j \in Present : j <= i

LogFrom(i) == [j \in Index |-> IF j >= i THEN "absent" ELSE disk.log[j]]
LogAfter(i) == [j \in Index |-> IF j <= i THEN "absent" ELSE disk.log[j]]

\* Another node of the cluster commits, with or without this one.
CommitNext ==
  /\ commit < LastIndex
  /\ commit' = commit + 1
  /\ replica' = [replica EXCEPT ![commit + 1] = ReplicaWith(commit + 1)]
  /\ UNCHANGED <<chosen, disk, stateVars, snapshot, task, builder, procVars>>

\* append_entries
Appended(i, from) == [disk EXCEPT !.log[i] = from]

\* append: openraft matches an entry's predecessor before it appends.
AppendEntry(i, from) ==
  /\ proc = "up" /\ IsLastLogId(i - 1) /\ i > disk.last_applied
  /\ from = "chosen" => \A j \in Index : disk.log[j] # "stale"
  /\ disk' = Appended(i, from)
  /\ UNCHANGED <<clusterVars, stateVars, snapshot, task, builder, procVars>>

\* truncate: entries that conflict with the leader's, never a committed one.
DeleteFrom(i) ==
  /\ proc = "up" /\ disk.log[i] # "absent"
  /\ \A j \in i..LastIndex : disk.log[j] = "chosen" => j > commit
  /\ disk' = [disk EXCEPT !.log = LogFrom(i)]
  /\ UNCHANGED <<clusterVars, stateVars, snapshot, task, builder, procVars>>

\* delete_up_to: entries and purge point in one transaction.
PurgedTo(i) == [disk EXCEPT !.log = LogAfter(i), !.purged = i]

\* purge, up to and including i; openraft purges what its newest
\* snapshot covers.
DeleteUpTo(i) ==
  /\ proc = "up" /\ disk.purged < i /\ i <= snapshot
  /\ disk' = PurgedTo(i)
  /\ UNCHANGED <<clusterVars, stateVars, snapshot, task, builder, procVars>>

-----------------------------------------------------------------------------
(***************************************************************************)
(* The state-machine task: apply.  A batch moves the state entry by entry; *)
(* a membership entry is persisted at once, the rest with the batch's end. *)
(***************************************************************************)

\* A storage error ends the Raft core.
Fail == proc' = "failed" /\ UNCHANGED <<disk, stateVars, snapshot, task, builder>>

\* openraft delivers committed entries after those it delivered before, or
\* some of these again.
BeginApply(first, last) ==
  /\ proc = "up" /\ task = Idle
  /\ first <= disk.last_applied + 1 /\ first <= last /\ last <= commit
  /\ \A i \in first..last : disk.log[i] = "chosen"
  /\ task' = [kind |-> "apply", next |-> first, last |-> last, high |-> NoPos,
              end |-> applied_end]
  /\ UNCHANGED <<clusterVars, disk, stateVars, snapshot, builder, procVars>>

Applying == proc = "up" /\ task.kind = "apply" /\ task.next <= task.last

\* is_duplicate_entry
IsDuplicateEntry(i, end) == i < end

SkipEntry ==
  /\ Applying /\ IsDuplicateEntry(task.next, task.end)
  /\ task' = [task EXCEPT !.next = @ + 1]
  /\ UNCHANGED <<clusterVars, disk, stateVars, snapshot, builder, procVars>>

ApplyNew(types, s) ==
  /\ Applying /\ ~IsDuplicateEntry(task.next, task.end)
  /\ chosen[task.next].type \in types
  /\ state' = s
  /\ UNCHANGED <<clusterVars, disk, applied_end, snapshot, builder, procVars>>

ApplyNormal ==
  /\ ApplyNew({"AddNode", "RemoveNode", "Command"}, ApplyEntry(state, task.next))
  /\ task' = [task EXCEPT !.high = task.next, !.next = @ + 1]

ApplyBlank ==
  /\ ApplyNew({"Blank"}, NoteApplied(state, task.next))
  /\ task' = [task EXCEPT !.high = task.next, !.next = @ + 1]

\* save_applied_membership_and_last_applied
SavedMembership(i) == [disk EXCEPT !.membership = i, !.last_applied = i]

\* apply_membership_entry_atomic, the state; then membership and position in
\* one transaction.
ApplyMembership ==
  /\ ApplyNew({"Membership"}, ApplyEntry(state, task.next))
  /\ task' = [task EXCEPT !.kind = "membership", !.high = task.next]

SaveAppliedMembership ==
  /\ proc = "up" /\ task.kind = "membership"
  /\ IF ~Reflects(state, task.next) THEN Fail ELSE
     /\ disk' = SavedMembership(task.next)
     /\ applied_end' = task.next + 1
     /\ task' = [task EXCEPT !.kind = "apply", !.next = @ + 1]
     /\ UNCHANGED <<state, snapshot, builder, proc>>
  /\ UNCHANGED <<clusterVars, crashes>>

\* save_last_applied
SavedLastApplied(i) == [disk EXCEPT !.last_applied = i]

\* The batch ends: persist_last_applied, unless nothing advanced, and never
\* ahead of the state (ensure_state_reflects).
NotAdvanced == task.high = NoPos \/ task.high + 1 <= applied_end

PersistLastApplied ==
  /\ proc = "up" /\ task.kind = "apply" /\ task.next > task.last
  /\ IF ~NotAdvanced /\ ~Reflects(state, task.high) THEN Fail ELSE
     /\ IF NotAdvanced THEN UNCHANGED <<disk, applied_end>>
        ELSE /\ disk' = SavedLastApplied(task.high)
             /\ applied_end' = task.high + 1
     /\ task' = Idle
     /\ UNCHANGED <<state, snapshot, builder, proc>>
  /\ UNCHANGED <<clusterVars, crashes>>

-----------------------------------------------------------------------------
(***************************************************************************)
(* The state-machine task: install a leader's snapshot, send one's own.    *)
(***************************************************************************)

\* install_snapshot replaces the state, then persists.  The data is at or ahead
\* of its position; openraft takes a snapshot past what it has committed only.
InstallState(pos, ahead) ==
  /\ proc = "up" /\ task = Idle
  /\ disk.last_applied < pos /\ pos <= ahead /\ ahead <= commit
  /\ BuildOverlapsInstall \/ builder = NoBuild
  /\ state' = StateAt(ahead)
  /\ task' = [kind |-> "install", pos |-> pos]
  /\ UNCHANGED <<clusterVars, disk, applied_end, snapshot, builder, procVars>>

\* Faulty variant: the state is installed but not kept as the current snapshot.
SaveInstalledPosition ==
  [disk EXCEPT !.last_applied = task.pos, !.membership = MembershipAt(task.pos)]

\* Faulty variant: the snapshot is saved, the position and the membership keep
\* their values.
SaveInstalledAlone ==
  [disk EXCEPT !.snap = [pos |-> task.pos, membership |-> MembershipAt(task.pos),
                         data |-> state]]

\* write_snapshot of an installed one: snapshot, position and membership move
\* in one transaction.
SaveInstalledSnapshot ==
  [disk EXCEPT !.snap = [pos |-> task.pos, membership |-> MembershipAt(task.pos),
                         data |-> state],
               !.last_applied = task.pos, !.membership = MembershipAt(task.pos)]

InstallSnapshot ==
  /\ proc = "up" /\ task.kind = "install"
  /\ disk' = SaveInstalledSnapshot
  /\ applied_end' = task.pos + 1
  /\ snapshot' = task.pos
  /\ task' = Idle
  /\ UNCHANGED <<clusterVars, state, builder, procVars>>

\* get_current_snapshot reads the metadata in one transaction and the data in
\* another.
SendMeta ==
  /\ proc = "up" /\ task = Idle /\ disk.snap.pos # NoPos
  /\ task' = [kind |-> "send", pos |-> disk.snap.pos]
  /\ UNCHANGED <<clusterVars, disk, stateVars, snapshot, builder, procVars>>

SendData ==
  /\ proc = "up" /\ task.kind = "send"
  /\ task' = Idle
  /\ UNCHANGED <<clusterVars, disk, stateVars, snapshot, builder, procVars>>

-----------------------------------------------------------------------------
(***************************************************************************)
(* The snapshot builder, beside the task: position and membership from one *)
(* transaction, then a clone of the state, then the save.                  *)
(***************************************************************************)
BuildPosition ==
  /\ proc = "up" /\ builder = NoBuild /\ disk.last_applied # NoPos
  /\ BuildOverlapsInstall \/ task.kind # "install"
  /\ builder' = [phase |-> "position", pos |-> disk.last_applied,
                 membership |-> disk.membership]
  /\ UNCHANGED <<clusterVars, disk, stateVars, snapshot, task, procVars>>

\* A state behind its durable position is refused.
BuildClone ==
  /\ proc = "up" /\ builder.phase = "position"
  /\ IF ~Reflects(state, builder.pos) THEN Fail ELSE
     /\ builder' = [phase |-> "clone", pos |-> builder.pos,
                    membership |-> builder.membership, data |-> state]
     /\ UNCHANGED <<disk, stateVars, snapshot, task, proc>>
  /\ UNCHANGED <<clusterVars, crashes>>

\* Faulty variant: the position is read after the state.
SaveAtLatest ==
  [disk EXCEPT !.snap = [pos |-> disk.last_applied, membership |-> disk.membership,
                         data |-> builder.data]]

\* write_snapshot of a built one, whatever the disk holds by now.
SaveSnapshot ==
  [disk EXCEPT !.snap = [pos |-> builder.pos, membership |-> builder.membership,
                         data |-> builder.data]]

\* openraft does not go back to an older snapshot.
BuildSave ==
  /\ proc = "up" /\ builder.phase = "clone"
  /\ disk' = SaveSnapshot
  /\ snapshot' = IF snapshot < disk'.snap.pos THEN disk'.snap.pos ELSE snapshot
  /\ builder' = NoBuild
  /\ UNCHANGED <<clusterVars, stateVars, task, procVars>>

-----------------------------------------------------------------------------
(***************************************************************************)
(* Crash and restart.                                                      *)
(***************************************************************************)
Crash ==
  /\ proc \in {"up", "boot"} /\ crashes < MaxCrashes
  /\ proc' = "down" /\ crashes' = crashes + 1
  /\ state' = NewState /\ applied_end' = 0 /\ snapshot' = NoPos
  /\ task' = Idle /\ builder' = NoBuild
  /\ UNCHANGED <<clusterVars, disk>>

\* load_snapshot_state, then the configured nodes over it.  Data behind its
\* position is refused (state_at_snapshot_position).
LoadSnapshotState ==
  /\ proc = "down"
  /\ IF disk.snap.data.applied < disk.snap.pos THEN Fail ELSE
     /\ proc' = "boot"
     /\ state' = WithConfig(disk.snap.data)
     /\ task' = [kind |-> "boot", next |-> disk.snap.pos + 1]
     /\ UNCHANGED <<disk, applied_end, snapshot, builder>>
  /\ UNCHANGED <<clusterVars, crashes>>

\* replay_applied_entries, entry by entry, from the log as it is.
Replayed(s, i) ==
  IF disk.log[i] = "absent" \/ Reflects(s, i) THEN s
  ELSE IF disk.log[i] = "stale" THEN Reflecting(s, i, NoPos, s.nodes)
  ELSE IF chosen[i].type = "Blank" THEN NoteApplied(s, i)
  ELSE ApplyEntry(s, i)

ReplayEntry ==
  /\ task.kind = "boot" /\ task.next <= disk.last_applied
  /\ state' = Replayed(state, task.next)
  /\ task' = [task EXCEPT !.next = @ + 1]
  /\ UNCHANGED <<clusterVars, disk, applied_end, snapshot, builder, procVars>>

\* applied_state seeds applied_end; openraft purges a log that ends before what
\* an installed snapshot has applied.
Started ==
  /\ task.kind = "boot" /\ task.next > disk.last_applied
  /\ proc' = "up"
  /\ applied_end' = disk.last_applied + 1
  /\ snapshot' = disk.snap.pos
  /\ disk' = IF \E i \in Position : IsLastLogId(i) /\ i < disk.last_applied
             THEN [disk EXCEPT !.log = LogAfter(disk.last_applied),
                               !.purged = disk.last_applied]
             ELSE disk
  /\ task' = Idle
  /\ UNCHANGED <<clusterVars, state, builder, crashes>>

-----------------------------------------------------------------------------
\* A first start: an empty store and the configured nodes.  The first entry is
\* the membership a cluster is bootstrapped with.
Init ==
  /\ chosen \in {c \in [Index -> Payloads] : c[0].type = "Membership"}
  /\ commit = NoPos
  /\ replica = [i \in Position |-> [nodes |-> ConfigNodes, membership |-> NoPos]]
  /\ disk = [log |-> [i \in Index |-> "absent"], purged |-> NoPos,
             last_applied |-> NoPos, membership |-> NoPos,
             snap |-> [pos |-> NoPos, membership |-> NoPos, data |-> NewState]]
  /\ state = WithConfig(NewState)
  /\ applied_end = 0 /\ snapshot = NoPos
  /\ task = Idle /\ builder = NoBuild
  /\ proc = "up" /\ crashes = 0

LogStep ==
  \/ CommitNext
  \/ \E i \in Index, from \in {"chosen", "stale"} : AppendEntry(i, from)
  \/ \E i \in Index : DeleteFrom(i) \/ DeleteUpTo(i)

TaskStep ==
  \/ \E first, last \in Index : BeginApply(first, last)
  \/ SkipEntry \/ ApplyNormal \/ ApplyBlank
  \/ ApplyMembership \/ SaveAppliedMembership
  \/ PersistLastApplied
  \/ \E pos, ahead \in Index : InstallState(pos, ahead)
  \/ InstallSnapshot \/ SendMeta \/ SendData

BuilderStep == BuildPosition \/ BuildClone \/ BuildSave

ProcessStep == Crash \/ LoadSnapshotState \/ ReplayEntry \/ Started

Next == LogStep \/ TaskStep \/ BuilderStep \/ ProcessStep

Spec == Init /\ [][Next]_vars

-----------------------------------------------------------------------------
TypeOK ==
  /\ chosen \in [Index -> Payloads] /\ commit \in Position
  /\ replica \in [Position -> [nodes : SUBSET Nodes, membership : Position]]
  /\ disk \in Disks /\ state \in States
  /\ applied_end \in 0..(LastIndex + 1) /\ snapshot \in Position
  /\ task \in Tasks /\ builder \in Builders
  /\ proc \in {"up", "down", "boot", "failed"} /\ crashes \in 0..MaxCrashes

(***************************************************************************)
(* A serving node's state reflects every entry up to its durable applied   *)
(* position, each once and in order, whatever was built, installed, purged *)
(* or lost in a crash before (raft.rs: the rebuild in new_with_tls;        *)
(* ClusterState::apply_entry).                                             *)
(***************************************************************************)
NoEntryLost ==
  proc = "up" =>
    /\ disk.last_applied <= state.applied
    /\ state.effects = Prefix(state.applied)

(***************************************************************************)
(* The durable membership is the last one at or below the durable applied  *)
(* position, and a snapshot's the last one at or below its position: a     *)
(* restart never reports a membership of another index (applied_state,     *)
(* load_applied_position, write_snapshot).                                 *)
(***************************************************************************)
MembershipAtPosition ==
  /\ disk.membership = MembershipAt(disk.last_applied)
  /\ disk.snap.membership = MembershipAt(disk.snap.pos)

(***************************************************************************)
(* The log is purged only where the snapshot on disk covers it, so a       *)
(* follower that lacks a purged entry can be given it (purge, and what     *)
(* get_current_snapshot hands out).                                        *)
(***************************************************************************)
SnapshotCoversPurge == disk.purged <= disk.snap.pos

(***************************************************************************)
(* Data read for a follower is at or ahead of the position read before it: *)
(* install_snapshot refuses anything else and stops the follower.          *)
(***************************************************************************)
SentIsInstallable ==
  proc = "up" /\ task.kind = "send" => task.pos <= disk.snap.data.applied

(***************************************************************************)
(* No check of the store stops the node: no position is persisted ahead of *)
(* the state, no builder finds the state behind it, and no restart refuses *)
(* its snapshot (ensure_state_reflects, build_snapshot,                    *)
(* state_at_snapshot_position).                                            *)
(***************************************************************************)
NeverRefused == proc # "failed"

=============================================================================
