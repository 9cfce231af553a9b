-------------------------- MODULE StateStoreProofs --------------------------
(***************************************************************************)
(* The store can always rebuild the state, for every log, every kind of    *)
(* entry and any number of crashes, as long as no snapshot is built while  *)
(* one is installed.                                                       *)
(***************************************************************************)
EXTENDS StateStore, TLAPS

\* A state that reflects the chosen entries up to its position and no other.
Whole(s) == s.effects = Prefix(s.applied) /\ s.applied <= commit

\* The chosen entries past the snapshot, up to n, are in the log.
Logged(n) ==
  \A i \in Index : disk.snap.pos < i /\ i <= n => disk.log[i] = "chosen"

\* What is on disk suffices for a restart.
DiskInv ==
  /\ Whole(disk.snap.data)
  /\ disk.snap.pos <= disk.snap.data.applied
  /\ disk.snap.pos <= disk.last_applied /\ disk.last_applied <= commit
  /\ Logged(disk.last_applied)
  /\ disk.purged <= disk.snap.pos

\* A batch in progress goes on from what the state reflects, and its entries
\* stay in the log.
BatchInv ==
  /\ task.end <= applied_end
  /\ disk.last_applied < task.end \/ disk.last_applied < task.next
  /\ task.next <= state.applied + 1
  /\ task.high <= state.applied /\ task.high <= task.last
  /\ task.last <= commit /\ Logged(task.last)

MembershipInv ==
  /\ task.end <= task.next
  /\ task.next <= state.applied /\ task.next <= task.last
  /\ disk.last_applied < task.next

InstallInv ==
  /\ disk.last_applied < task.pos /\ task.pos <= state.applied
  /\ builder = NoBuild

TaskInv ==
  /\ task.kind # "boot"
  /\ task.kind \in {"apply", "membership"} => BatchInv
  /\ task.kind = "membership" => MembershipInv
  /\ task.kind = "install" => InstallInv
  /\ task.kind = "send" => task.pos <= disk.snap.pos

\* What the builder has read is not older than the snapshot it replaces.
BuilderInv ==
  /\ builder.phase # "idle" =>
       disk.snap.pos <= builder.pos /\ builder.pos <= disk.last_applied
  /\ builder.phase = "clone" =>
       Whole(builder.data) /\ builder.pos <= builder.data.applied

UpInv ==
  /\ Whole(state) /\ disk.last_applied <= state.applied
  /\ applied_end = disk.last_applied + 1
  /\ snapshot <= disk.snap.pos
  /\ TaskInv /\ BuilderInv

\* A restart has replayed every entry before the next one.
BootInv ==
  /\ Whole(state) /\ task.kind = "boot" /\ builder = NoBuild
  /\ disk.snap.pos < task.next /\ task.next <= state.applied + 1

StoreInv ==
  /\ DiskInv
  /\ proc = "up" => UpInv
  /\ proc = "boot" => BootInv
  /\ proc = "down" => task = Idle /\ builder = NoBuild
  /\ proc # "failed"

-----------------------------------------------------------------------------
(***************************************************************************)
(* Typing lemmas.                                                          *)
(***************************************************************************)

\* The fields a task has, by its kind.
LEMMA TaskFields ==
  ASSUME TypeOK
  PROVE  /\ task.kind \in {"idle", "boot", "apply", "membership", "install", "send"}
         /\ task.kind \in {"apply", "membership"} => task \in ApplyTasks
         /\ task.kind = "boot" => task \in [kind : {"boot"}, next : 0..(LastIndex + 1)]
         /\ task.kind \in {"install", "send"} =>
              task \in [kind : {"install", "send"}, pos : Position]
BY DEF TypeOK, Tasks, ApplyTasks

\* The fields a builder has, by its phase.
LEMMA BuilderFields ==
  ASSUME TypeOK
  PROVE  /\ builder.phase \in {"idle", "position", "clone"}
         /\ builder.phase # "idle" =>
              builder.pos \in Position /\ builder.membership \in Position
         /\ builder.phase = "clone" => builder.data \in States
BY DEF TypeOK, Builders

\* The states the model makes are states.
LEMMA PrefixType ==
  ASSUME NEW i \in Position
  PROVE  Prefix(i) \in Seq(Position) /\ Len(Prefix(i)) = i + 1
<1>1. i + 1 \in Nat
  BY StoreAssumption DEF Position, Index, NoPos
<1>2. \A k \in 1..(i + 1) : k - 1 \in Position
  BY StoreAssumption DEF Position, Index, NoPos
<1> QED BY <1>1, <1>2 DEF Prefix

LEMMA RegisteredType ==
  ASSUME NEW p \in Payloads, NEW nodes \in SUBSET Nodes
  PROVE  Registered(p, nodes) \in SUBSET Nodes
BY StoreAssumption DEF Registered

LEMMA ReplicaType ==
  ASSUME TypeOK, NEW i \in Index
  PROVE  ReplicaWith(i) \in [nodes : SUBSET Nodes, membership : Position]
<1> DEFINE before == replica[i - 1]
           m == IF chosen[i].type = "Membership" THEN i ELSE before.membership
<1>1. i - 1 \in Position
  BY StoreAssumption DEF Position, Index, NoPos
<1>2. before \in [nodes : SUBSET Nodes, membership : Position]
  BY <1>1 DEF TypeOK
<1>3. Registered(chosen[i], before.nodes) \in SUBSET Nodes
  BY <1>2, RegisteredType DEF TypeOK
<1>4. m \in Position
  BY <1>2 DEF Position
<1>5. ReplicaWith(i) = [nodes |-> Registered(chosen[i], before.nodes), membership |-> m]
  BY DEF ReplicaWith
<1> HIDE DEF before, m
<1> QED BY <1>3, <1>4, <1>5

LEMMA ApplyType ==
  ASSUME TypeOK, NEW s \in States, NEW i \in Index
  PROVE  ApplyEntry(s, i) \in States /\ NoteApplied(s, i) \in States
<1>1. i \in Position /\ chosen[i] \in Payloads
  BY DEF TypeOK, Position
<1>2. Append(s.effects, i) \in Seq(Position)
  BY <1>1 DEF States
<1>3. Registered(chosen[i], s.nodes) \in SUBSET Nodes
  BY <1>1, RegisteredType DEF States
<1> QED BY <1>1, <1>2, <1>3 DEF ApplyEntry, NoteApplied, Reflecting, States

LEMMA ReplayType ==
  ASSUME TypeOK, NEW s \in States, NEW i \in Index
  PROVE  Replayed(s, i) \in States
<1>1. ApplyEntry(s, i) \in States /\ NoteApplied(s, i) \in States
  BY ApplyType
<1>2. Append(s.effects, NoPos) \in Seq(Position)
  BY DEF States, Position
<1>3. Reflecting(s, i, NoPos, s.nodes) \in States
  BY <1>2 DEF Reflecting, States, Position
<1> QED BY <1>1, <1>3 DEF Replayed

-----------------------------------------------------------------------------
(***************************************************************************)
(* Type correctness.                                                       *)
(***************************************************************************)
LEMMA TypeInit == Init => TypeOK
<1> SUFFICES ASSUME Init PROVE TypeOK
  OBVIOUS
<1>1. NewState \in States
  BY DEF NewState, States, Position
<1>2. WithConfig(NewState) \in States
  BY <1>1, StoreAssumption DEF WithConfig, States
<1>3. disk \in Disks
  BY <1>1 DEF Init, Disks, Snapshots, Log, Position
<1>4. replica \in [Position -> [nodes : SUBSET Nodes, membership : Position]]
  BY StoreAssumption DEF Init, Position
<1>5. task \in Tasks /\ builder \in Builders
  BY DEF Init, Idle, NoBuild, Tasks, Builders
<1> QED BY <1>2, <1>3, <1>4, <1>5, StoreAssumption DEF Init, TypeOK, Position

LEMMA TypeLog == TypeOK /\ LogStep => TypeOK'
<1> SUFFICES ASSUME TypeOK, LogStep PROVE TypeOK'
  OBVIOUS
<1>1. CASE CommitNext
  <2>1. commit \in Position /\ commit + 1 \in Index
    BY <1>1, StoreAssumption DEF CommitNext, TypeOK, Position, Index, NoPos
  <2>2. ReplicaWith(commit + 1) \in [nodes : SUBSET Nodes, membership : Position]
    BY <2>1, ReplicaType DEF Position, Index, NoPos
  <2> QED BY <1>1, <2>1, <2>2 DEF CommitNext, TypeOK, stateVars, procVars, Position
<1>2. ASSUME NEW i \in Index, NEW from \in {"chosen", "stale"}, AppendEntry(i, from)
      PROVE  TypeOK'
  <2>1. Appended(i, from) \in Disks
    BY <1>2 DEF AppendEntry, Appended, TypeOK, Disks, Log
  <2> QED BY <1>2, <2>1 DEF AppendEntry, TypeOK, clusterVars, stateVars, procVars
<1>3. ASSUME NEW i \in Index, DeleteFrom(i) PROVE TypeOK'
  <2>1. LogFrom(i) \in Log
    BY DEF LogFrom, Log, TypeOK, Disks
  <2> QED BY <1>3, <2>1 DEF DeleteFrom, TypeOK, Disks, clusterVars, stateVars, procVars
<1>4. ASSUME NEW i \in Index, DeleteUpTo(i) PROVE TypeOK'
  <2>1. LogAfter(i) \in Log
    BY DEF LogAfter, Log, TypeOK, Disks
  <2>2. PurgedTo(i) \in Disks
    BY <2>1 DEF PurgedTo, TypeOK, Disks, Position
  <2> QED BY <1>4, <2>2 DEF DeleteUpTo, TypeOK, clusterVars, stateVars, procVars
<1> QED BY <1>1, <1>2, <1>3, <1>4 DEF LogStep

LEMMA TypeTask == TypeOK /\ TaskStep => TypeOK'
<1> SUFFICES ASSUME TypeOK, TaskStep PROVE TypeOK'
  OBVIOUS
<1> USE DEF clusterVars, stateVars, procVars
<1>a. LastIndex \in Nat
  BY StoreAssumption
<1>1. ASSUME NEW first \in Index, NEW last \in Index, BeginApply(first, last)
      PROVE  TypeOK'
  <2>1. task' \in ApplyTasks
    BY <1>1, <1>a DEF BeginApply, ApplyTasks, TypeOK, Position, Index
  <2> QED BY <1>1, <2>1 DEF BeginApply, TypeOK, Tasks
<1>2. ASSUME Applying PROVE /\ task \in ApplyTasks /\ task.next \in Index
                            /\ task.next + 1 \in 0..(LastIndex + 1)
  BY <1>2, <1>a, TaskFields DEF Applying, ApplyTasks, Index
<1>3. CASE SkipEntry
  <2>1. task' \in ApplyTasks
    BY <1>2, <1>3 DEF SkipEntry, ApplyTasks
  <2> QED BY <1>3, <2>1 DEF SkipEntry, TypeOK, Tasks
<1>4. ASSUME Applying PROVE /\ ApplyEntry(state, task.next) \in States
                            /\ NoteApplied(state, task.next) \in States
  BY <1>4, <1>2, ApplyType DEF TypeOK
<1>5. CASE ApplyNormal
  <2>1. task' \in ApplyTasks
    BY <1>2, <1>5 DEF ApplyNormal, ApplyNew, ApplyTasks, Position
  <2> QED BY <1>4, <1>5, <2>1 DEF ApplyNormal, ApplyNew, TypeOK, Tasks
<1>6. CASE ApplyBlank
  <2>1. task' \in ApplyTasks
    BY <1>2, <1>6 DEF ApplyBlank, ApplyNew, ApplyTasks, Position
  <2> QED BY <1>4, <1>6, <2>1 DEF ApplyBlank, ApplyNew, TypeOK, Tasks
<1>7. CASE ApplyMembership
  <2>1. task' \in ApplyTasks
    BY <1>2, <1>7 DEF ApplyMembership, ApplyNew, ApplyTasks, Position
  <2> QED BY <1>4, <1>7, <2>1 DEF ApplyMembership, ApplyNew, TypeOK, Tasks
<1>8. CASE SaveAppliedMembership
  <2>1. CASE Reflects(state, task.next)
    <3>1. task \in ApplyTasks /\ state.applied \in Position
      BY <1>8, TaskFields DEF SaveAppliedMembership, TypeOK, States
    <3>2. task.next \in Index /\ task.next + 1 \in 0..(LastIndex + 1)
      BY <2>1, <3>1, <1>a DEF Reflects, ApplyTasks, Position, Index, NoPos
    <3>3. SavedMembership(task.next) \in Disks
      BY <3>2 DEF SavedMembership, TypeOK, Disks, Position
    <3>4. task' \in ApplyTasks
      BY <1>8, <2>1, <3>1, <3>2 DEF SaveAppliedMembership, ApplyTasks
    <3> QED BY <1>8, <2>1, <3>2, <3>3, <3>4 DEF SaveAppliedMembership, TypeOK, Tasks
  <2> QED BY <1>8, <2>1 DEF SaveAppliedMembership, Fail, TypeOK
<1>9. CASE PersistLastApplied
  <2>1. task \in ApplyTasks
    BY <1>9, TaskFields DEF PersistLastApplied
  <2>2. Idle \in Tasks
    BY DEF Idle, Tasks
  <2>3. CASE NotAdvanced
    BY <1>9, <2>2, <2>3 DEF PersistLastApplied, TypeOK
  <2>4. CASE ~NotAdvanced /\ Reflects(state, task.high)
    <3>1. task.high \in Index /\ task.high + 1 \in 0..(LastIndex + 1)
      BY <2>1, <2>4, <1>a DEF NotAdvanced, ApplyTasks, Position, Index
    <3>2. SavedLastApplied(task.high) \in Disks
      BY <3>1 DEF SavedLastApplied, TypeOK, Disks, Position
    <3> QED BY <1>9, <2>2, <2>4, <3>1, <3>2 DEF PersistLastApplied, TypeOK
  <2>5. CASE ~NotAdvanced /\ ~Reflects(state, task.high)
    BY <1>9, <2>5 DEF PersistLastApplied, Fail, TypeOK
  <2> QED BY <2>3, <2>4, <2>5
<1>10. ASSUME NEW pos \in Index, NEW ahead \in Index, InstallState(pos, ahead)
       PROVE  TypeOK'
  <2>1. StateAt(ahead) \in States
    BY PrefixType DEF StateAt, States, TypeOK, Position
  <2>2. [kind |-> "install", pos |-> pos] \in Tasks
    BY DEF Tasks, Position
  <2> QED BY <1>10, <2>1, <2>2 DEF InstallState, TypeOK
<1>11. CASE InstallSnapshot
  <2>1. task.pos \in Position /\ task.pos + 1 \in 0..(LastIndex + 1)
    BY <1>11, <1>a, TaskFields DEF InstallSnapshot, Position, Index, NoPos
  <2>2. MembershipAt(task.pos) \in Position
    BY <2>1 DEF MembershipAt, TypeOK
  <2>3. SaveInstalledSnapshot \in Disks
    BY <2>1, <2>2 DEF SaveInstalledSnapshot, TypeOK, Disks, Snapshots
  <2> QED BY <1>11, <2>1, <2>3 DEF InstallSnapshot, TypeOK, Idle, Tasks
<1>12. CASE SendMeta
  <2>1. task' \in Tasks
    BY <1>12 DEF SendMeta, TypeOK, Disks, Snapshots, Tasks
  <2> QED BY <1>12, <2>1 DEF SendMeta, TypeOK
<1>13. CASE SendData
  BY <1>13 DEF SendData, TypeOK, Idle, Tasks
<1> QED BY <1>1, <1>3, <1>5, <1>6, <1>7, <1>8, <1>9, <1>10, <1>11, <1>12, <1>13
        DEF TaskStep

LEMMA TypeBuilder == TypeOK /\ BuilderStep => TypeOK'
<1> SUFFICES ASSUME TypeOK, BuilderStep PROVE TypeOK'
  OBVIOUS
<1> USE DEF clusterVars, stateVars, procVars
<1>1. CASE BuildPosition
  <2>1. builder' \in Builders
    BY <1>1 DEF BuildPosition, TypeOK, Disks, Builders
  <2> QED BY <1>1, <2>1 DEF BuildPosition, TypeOK
<1>2. CASE BuildClone
  <2>1. CASE Reflects(state, builder.pos)
    <3>1. builder' \in Builders
      BY <1>2, <2>1, BuilderFields DEF BuildClone, TypeOK, Builders
    <3> QED BY <1>2, <2>1, <3>1 DEF BuildClone, TypeOK
  <2> QED BY <1>2, <2>1 DEF BuildClone, Fail, TypeOK
<1>3. CASE BuildSave
  <2>1. SaveSnapshot \in Disks
    BY <1>3, BuilderFields DEF BuildSave, SaveSnapshot, TypeOK, Disks, Snapshots
  <2>2. disk'.snap.pos \in Position
    BY <1>3, <2>1 DEF BuildSave, Disks, Snapshots
  <2> QED BY <1>3, <2>1, <2>2 DEF BuildSave, TypeOK, NoBuild, Builders
<1> QED BY <1>1, <1>2, <1>3 DEF BuilderStep

LEMMA TypeProcess == TypeOK /\ ProcessStep => TypeOK'
<1> SUFFICES ASSUME TypeOK, ProcessStep PROVE TypeOK'
  OBVIOUS
<1> USE DEF clusterVars, stateVars, procVars
<1>a. LastIndex \in Nat /\ MaxCrashes \in Nat
  BY StoreAssumption
<1>b. Idle \in Tasks /\ NoBuild \in Builders
  BY DEF Idle, NoBuild, Tasks, Builders
<1>1. CASE Crash
  <2>1. NewState \in States
    BY DEF NewState, States, Position
  <2> QED BY <1>1, <1>a, <1>b, <2>1 DEF Crash, TypeOK, Position
<1>2. CASE LoadSnapshotState
  <2>1. CASE disk.snap.data.applied < disk.snap.pos
    BY <1>2, <2>1 DEF LoadSnapshotState, Fail, TypeOK
  <2>2. CASE ~(disk.snap.data.applied < disk.snap.pos)
    <3>1. disk.snap.data \in States /\ disk.snap.pos + 1 \in 0..(LastIndex + 1)
      BY <1>a DEF TypeOK, Disks, Snapshots, Position, Index, NoPos
    <3>2. WithConfig(disk.snap.data) \in States
      BY <3>1, StoreAssumption DEF WithConfig, States
    <3>3. task' \in Tasks
      BY <1>2, <2>2, <3>1 DEF LoadSnapshotState, Tasks
    <3> QED BY <1>2, <2>2, <3>2, <3>3 DEF LoadSnapshotState, TypeOK
  <2> QED BY <2>1, <2>2
<1>3. CASE ReplayEntry
  <2>1. /\ task \in [kind : {"boot"}, next : 0..(LastIndex + 1)]
        /\ task.next \in Index /\ task.next + 1 \in 0..(LastIndex + 1)
    BY <1>3, <1>a, TaskFields
       DEF ReplayEntry, TypeOK, Disks, Position, Index, NoPos
  <2>2. Replayed(state, task.next) \in States
    BY <2>1, ReplayType DEF TypeOK
  <2>3. task' \in Tasks
    BY <1>3, <2>1 DEF ReplayEntry, Tasks
  <2> QED BY <1>3, <2>2, <2>3 DEF ReplayEntry, TypeOK
<1>4. CASE Started
  <2>1. disk.last_applied \in Position /\ disk.snap.pos \in Position
        /\ disk.last_applied + 1 \in 0..(LastIndex + 1)
    BY <1>a DEF TypeOK, Disks, Snapshots, Position, Index, NoPos
  <2>2. LogAfter(disk.last_applied) \in Log
    BY DEF LogAfter, Log, TypeOK, Disks
  <2>3. disk' \in Disks
    BY <1>4, <2>1, <2>2 DEF Started, TypeOK, Disks
  <2> QED BY <1>4, <1>b, <2>1, <2>3 DEF Started, TypeOK
<1> QED BY <1>1, <1>2, <1>3, <1>4 DEF ProcessStep

-----------------------------------------------------------------------------
(***************************************************************************)
(* How the operations on a state keep it whole.                            *)
(***************************************************************************)

\* The next entry after a whole state's position extends its prefix.
LEMMA PrefixNext ==
  ASSUME NEW i \in Index
  PROVE  Append(Prefix(i - 1), i) = Prefix(i)
<1>1. i \in Nat /\ i - 1 \in Position
  BY StoreAssumption DEF Index, Position, NoPos
<1>2. Prefix(i - 1) \in Seq(Position) /\ Len(Prefix(i - 1)) = i
  BY <1>1, PrefixType
<1>3. Prefix(i - 1) = [k \in 1..i |-> k - 1] /\ Prefix(i) = [k \in 1..(i + 1) |-> k - 1]
  BY <1>1 DEF Prefix
<1>4. Append(Prefix(i - 1), i)
        = [k \in 1..(i + 1) |-> IF k <= i THEN Prefix(i - 1)[k] ELSE i]
  BY <1>1, <1>2
<1>5. ASSUME NEW k \in 1..(i + 1)
      PROVE  (IF k <= i THEN Prefix(i - 1)[k] ELSE i) = k - 1
  BY <1>1, <1>3, <1>5
<1> QED BY <1>3, <1>4, <1>5

\* A whole state stays whole when an entry it reflects, or the next one, is
\* applied, and reflects it then.
LEMMA ApplyWhole ==
  ASSUME TypeOK, NEW s \in States, NEW i \in Index,
         Whole(s), i <= s.applied + 1, i <= commit, NEW t,
         t = ApplyEntry(s, i) \/ t = NoteApplied(s, i)
  PROVE  Whole(t) /\ i <= t.applied /\ s.applied <= t.applied
<1>1. s.applied \in Position /\ s.effects = Prefix(s.applied)
  BY DEF States, Whole
<1>2. CASE Reflects(s, i)
  BY <1>1, <1>2 DEF ApplyEntry, NoteApplied, Reflects, Position, Index, NoPos
<1>3. CASE ~Reflects(s, i)
  <2>1. s.applied = i - 1
    BY <1>1, <1>3, StoreAssumption DEF Reflects, Position, Index, NoPos
  <2>2. t.applied = i /\ t.effects = Append(s.effects, i)
    BY <1>3 DEF ApplyEntry, NoteApplied, Reflecting
  <2>3. t.effects = Prefix(i)
    BY <1>1, <2>1, <2>2, PrefixNext
  <2> QED BY <1>1, <2>1, <2>2, <2>3, StoreAssumption DEF Whole, Index
<1> QED BY <1>2, <1>3

-----------------------------------------------------------------------------
(***************************************************************************)
(* The inductive invariant.                                                *)
(***************************************************************************)

\* Positions are integers.
LEMMA Numbers ==
  ASSUME TypeOK
  PROVE  /\ LastIndex \in Nat /\ commit \in Int /\ applied_end \in Int
         /\ snapshot \in Int /\ state.applied \in Int /\ disk.purged \in Int
         /\ disk.last_applied \in Int /\ disk.last_applied >= NoPos
         /\ disk.snap.pos \in Int /\ disk.snap.pos >= NoPos
         /\ disk.snap.data \in States /\ disk.snap.data.applied \in Int
         /\ disk.log \in Log
         /\ \A i \in Index : i \in Int
BY StoreAssumption DEF TypeOK, Disks, Snapshots, States, Position, Index, NoPos

LEMMA TaskNumbers ==
  ASSUME TypeOK
  PROVE  /\ task.kind \in {"apply", "membership"} =>
              /\ task.next \in Nat /\ task.last \in Index /\ task.last \in Nat
              /\ task.end \in Nat /\ task.high \in Int
         /\ task.kind = "boot" => task.next \in Nat
         /\ task.kind \in {"install", "send"} => task.pos \in Int
BY TaskFields, StoreAssumption DEF ApplyTasks, Position, Index, NoPos

LEMMA BuilderNumbers ==
  ASSUME TypeOK
  PROVE  /\ builder.phase # "idle" => builder.pos \in Int
         /\ builder.phase = "clone" =>
              builder.data \in States /\ builder.data.applied \in Int
BY BuilderFields, StoreAssumption DEF States, Position, Index, NoPos

LEMMA StoreInit == Init => StoreInv
<1> SUFFICES ASSUME Init PROVE StoreInv
  OBVIOUS
<1>1. Prefix(NoPos) = <<>>
  BY DEF Prefix, NoPos
<1>2. Whole(NewState)
  BY <1>1 DEF Init, Whole, NewState, NoPos
<1>3. Whole(state) /\ state.applied = NoPos
  BY <1>1 DEF Init, Whole, WithConfig, NewState, NoPos
<1>4. DiskInv
  <2>1. /\ disk.snap.data = NewState /\ NewState.applied = NoPos
        /\ disk.snap.pos = NoPos /\ disk.last_applied = NoPos
        /\ disk.purged = NoPos /\ commit = NoPos
    BY DEF Init, NewState
  <2>2. \A i \in Index : ~(i <= NoPos)
    BY StoreAssumption DEF Index, NoPos
  <2>3. NoPos <= NoPos
    BY DEF NoPos
  <2> QED BY <1>2, <2>1, <2>2, <2>3 DEF DiskInv, Logged
<1>5. UpInv
  BY <1>3 DEF Init, UpInv, TaskInv, BuilderInv, Idle, NoBuild, NoPos
<1> QED BY <1>4, <1>5 DEF Init, StoreInv

\* A step that leaves disk, memory and process alone.
LEMMA StoreCommit ==
  ASSUME TypeOK, StoreInv, CommitNext
  PROVE  StoreInv'
<1>1. commit < commit' /\ commit' \in Int
  BY Numbers DEF CommitNext
<1>2. UNCHANGED <<disk, state, applied_end, snapshot, task, builder, proc>>
  BY DEF CommitNext, stateVars, procVars
<1>3. ASSUME NEW n \in Int, n <= commit PROVE n <= commit'
  BY <1>1, <1>3, Numbers
<1>4. DiskInv'
  BY <1>1, <1>2, <1>3, Numbers DEF StoreInv, DiskInv, Logged, Whole
<1>5. TaskInv => TaskInv'
  BY <1>1, <1>2, TaskNumbers, Numbers
     DEF TaskInv, BatchInv, MembershipInv, InstallInv, Logged
<1>6. BuilderInv => BuilderInv'
  BY <1>1, <1>2, <1>3, BuilderNumbers DEF BuilderInv, Whole
<1>7. UpInv => UpInv'
  BY <1>2, <1>3, <1>5, <1>6, Numbers DEF UpInv, Whole
<1>8. BootInv => BootInv'
  BY <1>2, <1>3, Numbers DEF BootInv, Whole
<1> QED BY <1>2, <1>4, <1>7, <1>8 DEF StoreInv

\* A step that changes the log only, and keeps what has to be replayed or is
\* being applied.
LEMMA StoreLog ==
  ASSUME TypeOK, StoreInv, proc = "up",
         UNCHANGED <<commit, state, applied_end, snapshot, task, builder, proc>>,
         UNCHANGED <<disk.snap, disk.last_applied>>,
         disk'.purged <= disk.snap.pos,
         \A n \in Int : n <= commit /\ Logged(n) => Logged(n)'
  PROVE  StoreInv'
<1>1. DiskInv'
  BY Numbers DEF StoreInv, DiskInv, Whole
<1>2. TaskInv'
  BY TaskNumbers DEF StoreInv, UpInv, TaskInv, BatchInv, MembershipInv, InstallInv
<1>3. BuilderInv'
  BY DEF StoreInv, UpInv, BuilderInv, Whole
<1> QED BY <1>1, <1>2, <1>3 DEF StoreInv, UpInv, Whole

LEMMA StoreLogStep ==
  ASSUME TypeOK, StoreInv, LogStep
  PROVE  StoreInv'
<1>1. CASE CommitNext
  BY <1>1, StoreCommit
<1>2. ASSUME NEW i \in Index, NEW from \in {"chosen", "stale"}, AppendEntry(i, from)
      PROVE  StoreInv'
  <2>1. disk'.log = [disk.log EXCEPT ![i] = from]
        /\ disk'.snap = disk.snap /\ disk'.last_applied = disk.last_applied
        /\ disk'.purged = disk.purged
    BY <1>2 DEF AppendEntry, Appended, TypeOK, Disks
  <2>2. disk.log[i] = "absent"
    BY <1>2, Numbers DEF AppendEntry, IsLastLogId, Present
  <2>3. ASSUME NEW n, Logged(n) PROVE Logged(n)'
    BY <2>1, <2>2, <2>3, Numbers DEF Logged, Log
  <2> QED
    BY <1>2, <2>1, <2>3, StoreLog
       DEF AppendEntry, clusterVars, stateVars, procVars, StoreInv, DiskInv
<1>3. ASSUME NEW i \in Index, DeleteFrom(i) PROVE StoreInv'
  <2>1. disk'.log = LogFrom(i)
        /\ disk'.snap = disk.snap /\ disk'.last_applied = disk.last_applied
        /\ disk'.purged = disk.purged
    BY <1>3 DEF DeleteFrom, TypeOK, Disks
  <2>2. ASSUME NEW n \in Int, n <= commit, Logged(n) PROVE Logged(n)'
    <3> SUFFICES ASSUME NEW j \in Index, disk.snap.pos < j, j <= n
                 PROVE  disk'.log[j] = "chosen"
      BY <2>1 DEF Logged
    <3>1. disk.log[j] = "chosen"
      BY <2>2 DEF Logged
    <3>2. j < i
      BY <1>3, <2>2, <3>1, Numbers DEF DeleteFrom, Index
    <3> QED BY <2>1, <3>1, <3>2, Numbers DEF LogFrom
  <2> QED
    BY <1>3, <2>1, <2>2, StoreLog
       DEF DeleteFrom, clusterVars, stateVars, procVars, StoreInv, DiskInv
<1>4. ASSUME NEW i \in Index, DeleteUpTo(i) PROVE StoreInv'
  <2>1. disk'.log = LogAfter(i) /\ disk'.purged = i
        /\ disk'.snap = disk.snap /\ disk'.last_applied = disk.last_applied
    BY <1>4 DEF DeleteUpTo, PurgedTo, TypeOK, Disks
  <2>2. i <= disk.snap.pos
    BY <1>4, Numbers DEF DeleteUpTo, StoreInv, UpInv
  <2>3. ASSUME NEW n, Logged(n) PROVE Logged(n)'
    BY <2>1, <2>2, <2>3, Numbers DEF Logged, LogAfter
  <2> QED
    BY <1>4, <2>1, <2>2, <2>3, StoreLog
       DEF DeleteUpTo, clusterVars, stateVars, procVars
<1> QED BY <1>1, <1>2, <1>3, <1>4 DEF LogStep

\* What does not depend on the state in memory.
LEMMA SameDisk ==
  ASSUME StoreInv, UNCHANGED <<commit, disk>>
  PROVE  DiskInv' /\ (BuilderInv /\ builder' = builder => BuilderInv')
BY DEF StoreInv, DiskInv, BuilderInv, Logged, Whole

\* Starting a batch, and the steps of one that do not write to the disk.
LEMMA StoreBatch ==
  ASSUME TypeOK, TypeOK', StoreInv,
         \/ \E first, last \in Index : BeginApply(first, last)
         \/ SkipEntry \/ ApplyNormal \/ ApplyBlank \/ ApplyMembership
  PROVE  StoreInv'
<1> USE DEF clusterVars, stateVars, procVars
<1>0. /\ proc = "up" /\ proc' = "up" /\ UpInv
      /\ UNCHANGED <<commit, disk, applied_end, snapshot, builder>>
  BY DEF BeginApply, SkipEntry, ApplyNormal, ApplyBlank, ApplyMembership, ApplyNew,
         Applying, StoreInv
<1>a. state'.applied \in Int
  BY StoreAssumption DEF TypeOK, States, Position, Index, NoPos
<1>1. DiskInv' /\ BuilderInv'
  BY <1>0, SameDisk DEF UpInv
<1> SUFFICES Whole(state)' /\ state.applied <= state'.applied /\ TaskInv'
  BY <1>0, <1>1, <1>a, Numbers DEF StoreInv, UpInv
<1>3. ASSUME NEW first \in Index, NEW last \in Index, BeginApply(first, last)
      PROVE  Whole(state)' /\ state.applied <= state'.applied /\ TaskInv'
  <2>1. state' = state
    BY <1>3 DEF BeginApply
  <2>2. /\ task'.kind = "apply" /\ task'.next = first /\ task'.last = last
        /\ task'.high = NoPos /\ task'.end = applied_end
    BY <1>3 DEF BeginApply
  <2>3. ASSUME NEW i \in Index, disk.snap.pos < i, i <= last
        PROVE  disk.log[i] = "chosen"
    <3>1. CASE i <= disk.last_applied
      BY <2>3, <3>1 DEF StoreInv, DiskInv, Logged
    <3>2. CASE ~(i <= disk.last_applied)
      <4>1. i \in first..last
        BY <1>3, <2>3, <3>2, Numbers DEF BeginApply
      <4> QED BY <1>3, <4>1 DEF BeginApply
    <3> QED BY <3>1, <3>2
  <2>4. Logged(last)'
    BY <1>0, <2>3 DEF Logged
  <2>5. NoPos <= state.applied /\ NoPos <= last
    BY StoreAssumption, Numbers DEF UpInv, Index, NoPos, TypeOK, States, Position
  <2>6. BatchInv'
    BY <1>0, <1>3, <2>1, <2>2, <2>4, <2>5, Numbers
       DEF BeginApply, BatchInv, UpInv, Whole
  <2> QED BY <1>0, <2>1, <2>2, <2>6, Numbers DEF TaskInv, UpInv, Whole
<1>4. ASSUME Applying
      PROVE  /\ BatchInv /\ task \in ApplyTasks /\ task.next \in Index
             /\ task.next <= commit
             /\ task.next \in Nat /\ task.last \in Nat /\ task.end \in Nat
             /\ task.high \in Int
  BY <1>0, <1>4, TaskFields, TaskNumbers, Numbers
     DEF Applying, UpInv, TaskInv, BatchInv, Index
<1>5. ASSUME Applying, NEW t, t = ApplyEntry(state, task.next)
                              \/ t = NoteApplied(state, task.next), state' = t
      PROVE  /\ Whole(state)' /\ state.applied <= state'.applied
             /\ task.next <= state'.applied
  <2>1. Whole(t) /\ task.next <= t.applied /\ state.applied <= t.applied
    BY <1>0, <1>4, <1>5, ApplyWhole DEF UpInv, BatchInv, TypeOK
  <2> QED BY <1>0, <1>5, <2>1 DEF Whole
<1>6. CASE SkipEntry
  <2>1. /\ task'.kind = "apply" /\ task'.next = task.next + 1
        /\ task'.last = task.last /\ task'.high = task.high /\ task'.end = task.end
    BY <1>4, <1>6 DEF SkipEntry, Applying, ApplyTasks
  <2>2. state' = state
    BY <1>6 DEF SkipEntry
  <2>3. BatchInv'
    BY <1>0, <1>4, <1>6, <2>1, <2>2, Numbers
       DEF SkipEntry, IsDuplicateEntry, BatchInv, UpInv, Logged
  <2> QED BY <1>0, <2>1, <2>2, <2>3, Numbers DEF TaskInv, UpInv, Whole
<1>7. CASE ApplyNormal \/ ApplyBlank
  <2>1. Applying
    BY <1>7 DEF ApplyNormal, ApplyBlank, ApplyNew
  <2>2. /\ task'.kind = "apply" /\ task'.next = task.next + 1
        /\ task'.last = task.last /\ task'.high = task.next /\ task'.end = task.end
    BY <1>4, <1>7, <2>1 DEF ApplyNormal, ApplyBlank, Applying, ApplyTasks
  <2>3. /\ Whole(state)' /\ state.applied <= state'.applied
        /\ task.next <= state'.applied
    BY <1>5, <1>7, <2>1 DEF ApplyNormal, ApplyBlank, ApplyNew
  <2>4. BatchInv'
    BY <1>0, <1>4, <2>1, <2>2, <2>3, <1>a, Numbers
       DEF Applying, BatchInv, UpInv, Logged
  <2> QED BY <2>2, <2>3, <2>4 DEF TaskInv
<1>8. CASE ApplyMembership
  <2>1. Applying /\ task.end <= task.next
    BY <1>4, <1>8 DEF ApplyMembership, ApplyNew, IsDuplicateEntry
  <2>2. /\ task'.kind = "membership" /\ task'.next = task.next
        /\ task'.last = task.last /\ task'.high = task.next /\ task'.end = task.end
    BY <1>4, <1>8, <2>1 DEF ApplyMembership, ApplyTasks
  <2>3. /\ Whole(state)' /\ state.applied <= state'.applied
        /\ task.next <= state'.applied
    BY <1>5, <1>8, <2>1 DEF ApplyMembership, ApplyNew
  <2>4. BatchInv' /\ MembershipInv'
    BY <1>0, <1>4, <2>1, <2>2, <2>3, <1>a, Numbers
       DEF Applying, BatchInv, MembershipInv, UpInv, Logged
  <2> QED BY <2>2, <2>3, <2>4 DEF TaskInv
<1> QED BY <1>3, <1>6, <1>7, <1>8

\* The steps of a batch that persist its position.  The state is not behind
\* it, so neither refuses.
LEMMA StorePersist ==
  ASSUME TypeOK, StoreInv, SaveAppliedMembership \/ PersistLastApplied
  PROVE  StoreInv'
<1> USE DEF clusterVars, stateVars, procVars
<1>0. /\ proc = "up" /\ UpInv /\ DiskInv /\ BatchInv /\ task \in ApplyTasks
      /\ task.next \in Nat /\ task.last \in Nat /\ task.last \in Index
      /\ task.end \in Nat /\ task.high \in Int
  BY TaskFields, TaskNumbers
     DEF SaveAppliedMembership, PersistLastApplied, StoreInv, UpInv, TaskInv
<1>1. ASSUME NEW n \in Int, disk.last_applied < n, n <= state.applied, n <= task.last,
             UNCHANGED <<commit, state, snapshot, builder, proc>>,
             UNCHANGED <<disk.log, disk.snap, disk.purged>>,
             disk'.last_applied = n, applied_end' = n + 1, TaskInv'
      PROVE  StoreInv'
  <2>1. Logged(n)'
    BY <1>0, <1>1, Numbers DEF BatchInv, Logged
  <2>2. DiskInv'
    BY <1>0, <1>1, <2>1, Numbers DEF DiskInv, BatchInv, Whole
  <2>3. BuilderInv'
    BY <1>0, <1>1, BuilderNumbers, Numbers DEF UpInv, BuilderInv, Whole
  <2>4. UpInv'
    BY <1>0, <1>1, <2>3 DEF UpInv, Whole
  <2> QED BY <1>0, <1>1, <2>2, <2>4 DEF StoreInv
<1>2. CASE SaveAppliedMembership
  <2>1. /\ task.kind = "membership" /\ MembershipInv /\ Reflects(state, task.next)
    BY <1>0, <1>2 DEF SaveAppliedMembership, UpInv, TaskInv, MembershipInv, Reflects
  <2>2. /\ disk' = SavedMembership(task.next) /\ applied_end' = task.next + 1
        /\ task' = [task EXCEPT !.kind = "apply", !.next = @ + 1]
        /\ UNCHANGED <<commit, state, snapshot, builder, proc>>
    BY <1>2, <2>1 DEF SaveAppliedMembership
  <2>3. /\ UNCHANGED <<disk.log, disk.snap, disk.purged>>
        /\ disk'.last_applied = task.next
    BY <2>2 DEF SavedMembership, TypeOK, Disks
  <2>4. /\ task'.kind = "apply" /\ task'.next = task.next + 1
        /\ task'.last = task.last /\ task'.high = task.high /\ task'.end = task.end
    BY <1>0, <2>2 DEF ApplyTasks
  <2>5. BatchInv'
    BY <1>0, <2>1, <2>2, <2>3, <2>4, Numbers
       DEF BatchInv, MembershipInv, UpInv, Logged
  <2>6. TaskInv'
    BY <2>4, <2>5 DEF TaskInv
  <2> QED BY <1>0, <1>1, <2>1, <2>2, <2>3, <2>6 DEF MembershipInv
<1>3. CASE PersistLastApplied
  <2>1. TaskInv' \/ task' # Idle
    BY DEF TaskInv, Idle
  <2>2. CASE NotAdvanced
    <3>1. task' = Idle /\ UNCHANGED <<commit, disk, state, applied_end, snapshot, builder, proc>>
      BY <1>3, <2>2 DEF PersistLastApplied
    <3>2. DiskInv' /\ BuilderInv'
      BY <1>0, <3>1, SameDisk DEF UpInv
    <3>3. UpInv'
      BY <1>0, <2>1, <3>1, <3>2 DEF UpInv, Whole
    <3> QED BY <1>0, <3>1, <3>2, <3>3 DEF StoreInv
  <2>3. CASE ~NotAdvanced
    <3>1. Reflects(state, task.high)
      BY <1>0 DEF BatchInv, Reflects
    <3>2. /\ disk' = SavedLastApplied(task.high) /\ applied_end' = task.high + 1
          /\ task' = Idle /\ UNCHANGED <<commit, state, snapshot, builder, proc>>
      BY <1>3, <2>3, <3>1 DEF PersistLastApplied
    <3>3. /\ UNCHANGED <<disk.log, disk.snap, disk.purged>>
          /\ disk'.last_applied = task.high
      BY <3>2 DEF SavedLastApplied, TypeOK, Disks
    <3>4. disk.last_applied < task.high
      BY <1>0, <2>3, Numbers DEF NotAdvanced, UpInv
    <3> QED BY <1>0, <1>1, <2>1, <3>2, <3>3, <3>4 DEF BatchInv
  <2> QED BY <2>2, <2>3
<1> QED BY <1>2, <1>3

\* Installing and sending a snapshot.
LEMMA StoreSnapshot ==
  ASSUME TypeOK, StoreInv, ~BuildOverlapsInstall,
         \/ \E pos, ahead \in Index : InstallState(pos, ahead)
         \/ InstallSnapshot \/ SendMeta \/ SendData
  PROVE  StoreInv'
<1> USE DEF clusterVars, stateVars, procVars
<1>0. /\ proc = "up" /\ proc' = "up" /\ UpInv /\ DiskInv
      /\ UNCHANGED <<commit, builder>>
  BY DEF InstallState, InstallSnapshot, SendMeta, SendData, StoreInv
<1>1. ASSUME NEW pos \in Index, NEW ahead \in Index, InstallState(pos, ahead)
      PROVE  StoreInv'
  <2>1. /\ state' = StateAt(ahead) /\ task' = [kind |-> "install", pos |-> pos]
        /\ UNCHANGED <<disk, applied_end, snapshot>>
        /\ disk.last_applied < pos /\ pos <= ahead /\ ahead <= commit
        /\ builder = NoBuild
    BY <1>1 DEF InstallState
  <2>2. Whole(state)' /\ state'.applied = ahead
    BY <1>0, <2>1 DEF StateAt, Whole
  <2>3. TaskInv'
    BY <1>0, <2>1, <2>2, Numbers DEF TaskInv, InstallInv
  <2>4. DiskInv' /\ BuilderInv'
    BY <1>0, <2>1, SameDisk DEF UpInv
  <2>5. UpInv'
    BY <1>0, <2>1, <2>2, <2>3, <2>4, Numbers DEF UpInv
  <2> QED BY <1>0, <2>4, <2>5 DEF StoreInv
<1>2. CASE InstallSnapshot
  <2>1. /\ InstallInv /\ task.pos \in Int
    BY <1>0, <1>2, TaskNumbers DEF InstallSnapshot, UpInv, TaskInv
  <2>2. /\ disk'.snap.pos = task.pos /\ disk'.snap.data = state
        /\ disk'.last_applied = task.pos /\ disk'.purged = disk.purged
        /\ applied_end' = task.pos + 1 /\ snapshot' = task.pos
        /\ task' = Idle /\ state' = state
    BY <1>2 DEF InstallSnapshot, SaveInstalledSnapshot, TypeOK, Disks, Snapshots
  <2>3. Logged(disk.last_applied)'
    BY <2>1, <2>2, Numbers DEF Logged
  <2>4. DiskInv'
    BY <1>0, <2>1, <2>2, <2>3, Numbers DEF DiskInv, UpInv, InstallInv, Whole
  <2>5. TaskInv' /\ BuilderInv'
    BY <1>0, <2>1, <2>2 DEF TaskInv, Idle, InstallInv, BuilderInv, NoBuild
  <2>6. UpInv'
    BY <1>0, <2>1, <2>2, <2>5 DEF UpInv, InstallInv, Whole
  <2> QED BY <1>0, <2>4, <2>6 DEF StoreInv
<1>3. CASE SendMeta \/ SendData
  <2>1. UNCHANGED <<disk, state, applied_end, snapshot>>
    BY <1>3 DEF SendMeta, SendData
  <2>2. DiskInv' /\ BuilderInv'
    BY <1>0, <2>1, SameDisk DEF UpInv
  <2>3. TaskInv'
    BY <1>3, <2>1, Numbers DEF SendMeta, SendData, TaskInv, Idle
  <2>4. UpInv'
    BY <1>0, <2>1, <2>2, <2>3 DEF UpInv, Whole
  <2> QED BY <1>0, <2>2, <2>4 DEF StoreInv
<1> QED BY <1>1, <1>2, <1>3

LEMMA StoreTaskStep ==
  ASSUME TypeOK, TypeOK', StoreInv, ~BuildOverlapsInstall, TaskStep
  PROVE  StoreInv'
BY StoreBatch, StorePersist, StoreSnapshot DEF TaskStep

\* The builder finds the state at or ahead of the position it read, and what it
\* saves is not older than what it replaces.
LEMMA StoreBuilderStep ==
  ASSUME TypeOK, StoreInv, ~BuildOverlapsInstall, BuilderStep
  PROVE  StoreInv'
<1> USE DEF clusterVars, stateVars, procVars
<1>0. proc = "up" /\ UpInv /\ DiskInv
  BY DEF BuilderStep, BuildPosition, BuildClone, BuildSave, StoreInv
<1>1. ASSUME UNCHANGED <<commit, disk, state, applied_end, snapshot, task, proc>>,
             task.kind # "install", BuilderInv'
      PROVE  StoreInv'
  <2>1. DiskInv'
    BY <1>1, SameDisk
  <2>2. TaskInv'
    BY <1>0, <1>1 DEF UpInv, TaskInv, BatchInv, MembershipInv, Logged
  <2> QED BY <1>0, <1>1, <2>1, <2>2 DEF StoreInv, UpInv, Whole
<1>2. CASE BuildPosition
  <2>1. BuilderInv'
    BY <1>0, <1>2, Numbers DEF BuildPosition, BuilderInv, DiskInv
  <2> QED BY <1>1, <1>2, <2>1 DEF BuildPosition
<1>3. builder.phase # "idle" => task.kind # "install"
  BY <1>0 DEF UpInv, TaskInv, InstallInv, NoBuild
<1>4. CASE BuildClone
  <2>1. /\ disk.snap.pos <= builder.pos /\ builder.pos <= disk.last_applied
        /\ builder.pos <= state.applied
    BY <1>0, <1>4, BuilderNumbers, Numbers DEF BuildClone, UpInv, BuilderInv
  <2>2. /\ builder'.phase = "clone" /\ builder'.pos = builder.pos
        /\ builder'.data = state
        /\ UNCHANGED <<commit, disk, state, applied_end, snapshot, task, proc>>
    BY <1>4, <2>1 DEF BuildClone, Reflects
  <2>3. BuilderInv'
    BY <1>0, <2>1, <2>2 DEF BuilderInv, UpInv, Whole
  <2> QED BY <1>1, <1>3, <1>4, <2>2, <2>3 DEF BuildClone
<1>5. CASE BuildSave
  <2>1. /\ disk.snap.pos <= builder.pos /\ builder.pos <= disk.last_applied
        /\ Whole(builder.data) /\ builder.pos <= builder.data.applied
        /\ builder.pos \in Int
    BY <1>0, <1>5, BuilderNumbers DEF BuildSave, UpInv, BuilderInv
  <2>2. /\ disk'.snap.pos = builder.pos /\ disk'.snap.data = builder.data
        /\ UNCHANGED <<disk.log, disk.purged, disk.last_applied>>
        /\ builder' = NoBuild
        /\ UNCHANGED <<commit, state, applied_end, task, proc>>
    BY <1>5 DEF BuildSave, SaveSnapshot, TypeOK, Disks, Snapshots
  <2>3. snapshot' <= disk'.snap.pos
    BY <1>0, <1>5, <2>1, <2>2, Numbers DEF BuildSave, UpInv
  <2>4. DiskInv'
    <3>1. Logged(disk.last_applied)'
      BY <1>0, <2>1, <2>2, Numbers DEF Logged, DiskInv
    <3> QED BY <1>0, <2>1, <2>2, <3>1, Numbers DEF DiskInv, Whole
  <2>5. TaskInv'
    <3>1. task.kind \in {"apply", "membership"} => BatchInv'
      BY <1>0, <2>1, <2>2, TaskNumbers, Numbers DEF UpInv, TaskInv, BatchInv, Logged
    <3>2. task.kind = "membership" => MembershipInv'
      BY <1>0, <2>2 DEF UpInv, TaskInv, MembershipInv
    <3>3. task.kind = "send" => task.pos <= disk'.snap.pos
      BY <1>0, <2>1, <2>2, TaskNumbers, Numbers DEF UpInv, TaskInv
    <3>4. task.kind # "install"
      BY <1>3, <1>5 DEF BuildSave
    <3> QED BY <1>0, <2>2, <3>1, <3>2, <3>3, <3>4 DEF UpInv, TaskInv
  <2>6. BuilderInv'
    BY <2>2 DEF BuilderInv, NoBuild
  <2> QED BY <1>0, <2>2, <2>3, <2>4, <2>5, <2>6 DEF StoreInv, UpInv, Whole
<1> QED BY <1>2, <1>4, <1>5 DEF BuilderStep

\* A crash, and a restart up to the state it serves with.
LEMMA StoreProcessStep ==
  ASSUME TypeOK, StoreInv, ProcessStep
  PROVE  StoreInv'
<1> USE DEF clusterVars, stateVars, procVars
<1>0. DiskInv
  BY DEF StoreInv
<1>1. CASE Crash
  <2>1. DiskInv'
    BY <1>1, SameDisk DEF Crash
  <2> QED BY <1>1, <2>1 DEF Crash, StoreInv
<1>2. CASE LoadSnapshotState
  <2>1. ~(disk.snap.data.applied < disk.snap.pos)
    BY <1>0, Numbers DEF DiskInv
  <2>2. /\ proc' = "boot" /\ state' = WithConfig(disk.snap.data)
        /\ task' = [kind |-> "boot", next |-> disk.snap.pos + 1]
        /\ UNCHANGED <<commit, disk, builder>> /\ builder = NoBuild
    BY <1>2, <2>1 DEF LoadSnapshotState, StoreInv
  <2>3. DiskInv'
    BY <2>2, SameDisk
  <2>4. state'.applied = disk.snap.data.applied
        /\ state'.effects = disk.snap.data.effects
    BY <2>2, Numbers DEF WithConfig, States
  <2>5. Whole(state)'
    BY <1>0, <2>2, <2>4 DEF DiskInv, Whole
  <2>6. BootInv'
    BY <1>0, <2>2, <2>4, <2>5, Numbers DEF BootInv, DiskInv
  <2> QED BY <2>2, <2>3, <2>6 DEF StoreInv
<1>3. ASSUME task.kind = "boot" PROVE proc = "boot" /\ BootInv /\ task.next \in Nat
  BY <1>3, TaskNumbers DEF StoreInv, UpInv, TaskInv, Idle, TypeOK
<1>4. CASE ReplayEntry
  <2>1. /\ BootInv /\ task.next <= disk.last_applied /\ proc' = "boot"
        /\ state' = Replayed(state, task.next)
        /\ task' = [task EXCEPT !.next = @ + 1]
        /\ UNCHANGED <<commit, disk, builder>>
    BY <1>3, <1>4 DEF ReplayEntry
  <2>2. task.next \in Index
    BY <1>3, <1>4, StoreAssumption
       DEF ReplayEntry, TypeOK, Disks, Position, Index, NoPos
  <2>3. disk.log[task.next] = "chosen"
    BY <1>0, <2>1, <2>2 DEF DiskInv, BootInv, Logged
  <2>4. \/ state' = ApplyEntry(state, task.next)
        \/ state' = NoteApplied(state, task.next)
    BY <2>1, <2>3 DEF Replayed, ApplyEntry
  <2>5. task.next <= commit
    BY <1>0, <1>3, <1>4, <2>1, Numbers DEF DiskInv, ReplayEntry
  <2>6. /\ state'.effects = Prefix(state'.applied) /\ state'.applied <= commit
        /\ task.next <= state'.applied /\ state.applied <= state'.applied
    <3>1. /\ Whole(state')
          /\ task.next <= state'.applied /\ state.applied <= state'.applied
      BY <2>1, <2>2, <2>4, <2>5, ApplyWhole DEF BootInv, TypeOK
    <3> QED BY <3>1 DEF Whole
  <2>7. Whole(state)'
    BY <2>1, <2>6 DEF Whole
  <2>8. task'.kind = "boot" /\ task'.next = task.next + 1
    BY <1>4, <2>1, TaskFields DEF ReplayEntry
  <2>9. state'.applied \in Int
    <3>1. state' \in States
      BY <2>1, <2>2, ReplayType DEF TypeOK
    <3> QED BY <3>1, StoreAssumption DEF States, Position, Index, NoPos
  <2>10. BootInv'
    BY <1>3, <1>4, <2>1, <2>6, <2>7, <2>8, <2>9, Numbers DEF BootInv, ReplayEntry
  <2>11. DiskInv'
    BY <2>1, SameDisk
  <2> QED BY <2>1, <2>10, <2>11 DEF StoreInv
<1>5. CASE Started
  <2>1. /\ BootInv /\ task.next > disk.last_applied /\ task.next \in Nat
        /\ proc' = "up" /\ applied_end' = disk.last_applied + 1
        /\ snapshot' = disk.snap.pos /\ task' = Idle
        /\ UNCHANGED <<commit, state, builder>>
    BY <1>3, <1>5 DEF Started
  <2>2. /\ disk'.snap = disk.snap /\ disk'.last_applied = disk.last_applied
        /\ \/ disk' = disk
           \/ disk'.purged = disk.last_applied /\ disk.last_applied = disk.snap.pos
    <3>1. CASE disk' = disk
      BY <3>1
    <3>2. CASE disk' # disk
      <4>1. /\ \E i \in Position : IsLastLogId(i) /\ i < disk.last_applied
            /\ disk' = [disk EXCEPT !.log = LogAfter(disk.last_applied),
                                    !.purged = disk.last_applied]
        BY <1>5, <3>2 DEF Started
      <4>2. PICK i \in Position : IsLastLogId(i) /\ i < disk.last_applied
        BY <4>1
      <4>3. ASSUME disk.snap.pos < disk.last_applied PROVE FALSE
        <5>1. disk.last_applied \in Index
          BY <4>3, StoreAssumption, Numbers DEF TypeOK, Disks, Position, Index, NoPos
        <5>2. disk.log[disk.last_applied] = "chosen"
          BY <1>0, <4>3, <5>1, Numbers DEF DiskInv, Logged
        <5>3. disk.last_applied \in Present
          BY <5>1, <5>2 DEF Present
        <5>4. disk.last_applied <= i /\ i \in Int
          BY <4>2, <5>3, StoreAssumption DEF IsLastLogId, Position, Index, NoPos
        <5> QED BY <4>2, <5>4, Numbers
      <4>4. disk.last_applied = disk.snap.pos
        BY <1>0, <4>3, Numbers DEF DiskInv
      <4>5. /\ disk'.snap = disk.snap /\ disk'.last_applied = disk.last_applied
            /\ disk'.purged = disk.last_applied
        BY <4>1 DEF TypeOK, Disks
      <4> QED BY <4>4, <4>5
    <3> QED BY <3>1, <3>2
  <2>3. Logged(disk.last_applied)'
    BY <1>0, <2>2, Numbers DEF DiskInv, Logged
  <2>4. DiskInv'
    BY <1>0, <2>1, <2>2, <2>3, Numbers DEF DiskInv, Whole
  <2>5. TaskInv' /\ BuilderInv'
    BY <2>1 DEF TaskInv, Idle, BootInv, BuilderInv, NoBuild
  <2>6. UpInv'
    BY <2>1, <2>2, <2>5, Numbers DEF BootInv, UpInv, Whole
  <2> QED BY <2>1, <2>4, <2>6 DEF StoreInv
<1> QED BY <1>1, <1>2, <1>4, <1>5 DEF ProcessStep

LEMMA StoreStutter == StoreInv /\ UNCHANGED vars => StoreInv'
BY DEF StoreInv, DiskInv, UpInv, BootInv, TaskInv, BatchInv, MembershipInv,
       InstallInv, BuilderInv, Logged, Whole, vars, clusterVars, stateVars, procVars

-----------------------------------------------------------------------------
(***************************************************************************)
(* The membership on disk is the one at the position on disk.              *)
(***************************************************************************)

\* The membership of a node that has applied up to i is that of i - 1, unless
\* entry i is one.
Chained ==
  \A i \in Index : i <= commit =>
    MembershipAt(i) = IF chosen[i].type = "Membership" THEN i ELSE MembershipAt(i - 1)

\* What a batch has applied past the durable position held no membership, and
\* ends where the batch goes on.
BatchPosition ==
  /\ disk.last_applied < task.next => MembershipAt(task.next - 1) = disk.membership
  /\ disk.last_applied < task.high => task.high = task.next - 1

\* A membership entry in hand is the one its index is about to be saved with.
MembershipPosition ==
  task.high = task.next /\ MembershipAt(task.next) = task.next

PositionInv ==
  /\ Chained /\ MembershipAtPosition
  /\ proc = "up" /\ builder.phase # "idle" =>
       builder.membership = MembershipAt(builder.pos)
  /\ proc = "up" /\ task.kind = "apply" => BatchPosition
  /\ proc = "up" /\ task.kind = "membership" => MembershipPosition

LEMMA PositionInit == Init => PositionInv
<1> SUFFICES ASSUME Init PROVE PositionInv
  OBVIOUS
<1>1. \A i \in Index : ~(i <= NoPos)
  BY StoreAssumption DEF Index, NoPos
<1>2. Chained
  BY <1>1 DEF Init, Chained
<1>3. MembershipAtPosition
  BY DEF Init, MembershipAtPosition, MembershipAt, Position
<1> QED BY <1>2, <1>3 DEF Init, PositionInv, Idle, NoBuild

\* A commit elsewhere appends to the chain, past every position in use.
LEMMA PositionCommit ==
  ASSUME TypeOK, StoreInv, PositionInv, CommitNext
  PROVE  PositionInv'
<1>1. commit \in Int /\ commit + 1 \in Index /\ commit' = commit + 1
  BY StoreAssumption, Numbers DEF CommitNext, TypeOK, Position, Index, NoPos
<1>2. UNCHANGED <<chosen, disk, task, builder, proc>>
  BY DEF CommitNext, procVars
<1>3. \A i \in Position : i <= commit => MembershipAt(i)' = MembershipAt(i)
  BY <1>1, StoreAssumption DEF CommitNext, MembershipAt, TypeOK, Position, Index, NoPos
<1>4. replica'[commit + 1].membership =
        IF chosen[commit + 1].type = "Membership" THEN commit + 1 ELSE MembershipAt(commit)
  <2>1. replica'[commit + 1] = ReplicaWith(commit + 1)
    BY <1>1 DEF CommitNext, TypeOK, Position
  <2> DEFINE c == commit + 1
             m == IF chosen[c].type = "Membership" THEN c ELSE replica[c - 1].membership
             r == Registered(chosen[c], replica[c - 1].nodes)
  <2>2. ReplicaWith(c) = [nodes |-> r, membership |-> m]
    BY DEF ReplicaWith
  <2>3. [nodes |-> r, membership |-> m].membership = m
    <3> HIDE DEF r, m
    <3> QED OBVIOUS
  <2>4. replica'[c].membership = m
    BY <2>1, <2>2, <2>3
  <2>5. replica[c - 1].membership = MembershipAt(commit)
    <3>1. c - 1 = commit
      BY <1>1
    <3> HIDE DEF c
    <3> QED BY <3>1 DEF MembershipAt
  <2>6. m = IF chosen[c].type = "Membership" THEN c ELSE MembershipAt(commit)
    <3> HIDE DEF c
    <3> QED BY <2>5
  <2> QED BY <2>4, <2>6
<1>5. Chained'
  <2> SUFFICES ASSUME NEW i \in Index, i <= commit + 1
               PROVE  MembershipAt(i)' =
                        IF chosen[i].type = "Membership" THEN i ELSE MembershipAt(i - 1)'
    BY <1>1, <1>2 DEF Chained, MembershipAt
  <2>1. i \in Int /\ i - 1 \in Position /\ i \in Position /\ i - 1 <= commit
    BY <1>1, StoreAssumption DEF Position, Index, NoPos
  <2>2. MembershipAt(i - 1)' = MembershipAt(i - 1)
    BY <1>3, <2>1
  <2>3. CASE i <= commit
    BY <1>3, <2>1, <2>2, <2>3 DEF PositionInv, Chained
  <2>4. CASE i = commit + 1
    <3>1. i - 1 = commit
      BY <1>1, <2>4
    <3> QED BY <1>4, <2>2, <2>4, <3>1 DEF MembershipAt
  <2> QED BY <1>1, <2>1, <2>3, <2>4
<1>6. /\ disk.last_applied \in Position /\ disk.last_applied <= commit
      /\ disk.snap.pos \in Position /\ disk.snap.pos <= commit
  BY Numbers DEF StoreInv, DiskInv, TypeOK, Disks, Snapshots
<1>7. MembershipAtPosition'
  BY <1>2, <1>3, <1>6 DEF PositionInv, MembershipAtPosition, MembershipAt
<1>8. ASSUME proc = "up", builder.phase # "idle"
      PROVE  builder.pos \in Position /\ builder.pos <= commit
  BY <1>6, <1>8, BuilderFields, BuilderNumbers, Numbers DEF StoreInv, UpInv, BuilderInv
<1>9. ASSUME proc = "up", builder.phase # "idle"
      PROVE  builder.membership = MembershipAt(builder.pos)'
  BY <1>2, <1>3, <1>8, <1>9 DEF PositionInv, MembershipAt
<1>10. ASSUME proc = "up", task.kind = "apply" PROVE BatchPosition'
  <2>1. BatchInv /\ UpInv /\ BatchPosition /\ Whole(state)
    BY <1>10 DEF StoreInv, UpInv, TaskInv, PositionInv
  <2>2. task.next - 1 \in Position /\ task.next - 1 <= commit
    BY <1>10, <2>1, TaskFields, StoreAssumption, Numbers, <1>1
       DEF BatchInv, Whole, ApplyTasks, Position, Index, NoPos
  <2>3. MembershipAt(task.next - 1)' = MembershipAt(task.next - 1)
    BY <1>2, <1>3, <2>2 DEF MembershipAt
  <2> QED BY <1>2, <2>1, <2>3 DEF BatchPosition
<1>11. ASSUME proc = "up", task.kind = "membership" PROVE MembershipPosition'
  <2>1. BatchInv /\ MembershipInv /\ MembershipPosition
    BY <1>11 DEF StoreInv, UpInv, TaskInv, PositionInv
  <2>2. task.next \in Position /\ task.next <= commit
    BY <1>11, <2>1, TaskFields, TaskNumbers, StoreAssumption, Numbers
       DEF BatchInv, MembershipInv, ApplyTasks, Position, Index, NoPos
  <2>3. MembershipAt(task.next)' = MembershipAt(task.next)
    BY <1>2, <1>3, <2>2 DEF MembershipAt
  <2> QED BY <1>2, <2>1, <2>3 DEF MembershipPosition
<1>12. proc' = "up" /\ builder'.phase # "idle" =>
         builder'.membership = MembershipAt(builder.pos)'
  BY <1>2, <1>9
<1> QED BY <1>2, <1>5, <1>7, <1>10, <1>11, <1>12 DEF PositionInv

\* A step that leaves the committed entries and what is on disk besides the log
\* alone.
LEMMA PositionSame ==
  ASSUME PositionInv, UNCHANGED clusterVars,
         UNCHANGED <<disk.membership, disk.last_applied, disk.snap>>
  PROVE  /\ Chained' /\ MembershipAtPosition'
         /\ proc = "up" /\ UNCHANGED builder =>
              (builder'.phase # "idle" =>
                 builder'.membership = MembershipAt(builder.pos)')
         /\ proc = "up" /\ UNCHANGED task =>
              /\ task'.kind = "apply" => BatchPosition'
              /\ task'.kind = "membership" => MembershipPosition'
<1>1. Chained'
  BY DEF PositionInv, Chained, MembershipAt, clusterVars
<1>2. MembershipAtPosition'
  BY DEF PositionInv, MembershipAtPosition, MembershipAt, clusterVars
<1> QED BY <1>1, <1>2
  DEF PositionInv, MembershipAt, BatchPosition, MembershipPosition, clusterVars

\* What happens to the log does not touch position or membership.
LEMMA PositionLogStep ==
  ASSUME TypeOK, StoreInv, PositionInv, LogStep
  PROVE  PositionInv'
<1>1. CASE CommitNext
  BY <1>1, PositionCommit
<1>2. ASSUME UNCHANGED <<disk.membership, disk.last_applied, disk.snap>>,
             UNCHANGED <<clusterVars, task, builder, proc>>
      PROVE  PositionInv'
  <2>1. UNCHANGED clusterVars /\ UNCHANGED task /\ UNCHANGED builder /\ proc' = proc
    BY <1>2
  <2> QED BY <1>2, <2>1, PositionSame DEF PositionInv
<1>3. ASSUME NEW i \in Index, NEW from \in {"chosen", "stale"}, AppendEntry(i, from)
      PROVE  PositionInv'
  BY <1>2, <1>3 DEF AppendEntry, Appended, procVars, TypeOK, Disks
<1>4. ASSUME NEW i \in Index, DeleteFrom(i) PROVE PositionInv'
  BY <1>2, <1>4 DEF DeleteFrom, procVars, TypeOK, Disks
<1>5. ASSUME NEW i \in Index, DeleteUpTo(i) PROVE PositionInv'
  BY <1>2, <1>5 DEF DeleteUpTo, PurgedTo, procVars, TypeOK, Disks
<1> QED BY <1>1, <1>3, <1>4, <1>5 DEF LogStep

\* Starting a batch, and the steps of one that do not write to the disk.
LEMMA PositionBatch ==
  ASSUME TypeOK, StoreInv, PositionInv,
         \/ \E first, last \in Index : BeginApply(first, last)
         \/ SkipEntry \/ ApplyNormal \/ ApplyBlank \/ ApplyMembership
  PROVE  PositionInv'
<1>0. /\ proc = "up" /\ proc' = "up" /\ UpInv
      /\ UNCHANGED clusterVars /\ UNCHANGED disk /\ UNCHANGED builder
  BY DEF BeginApply, SkipEntry, ApplyNormal, ApplyBlank, ApplyMembership, ApplyNew,
         Applying, StoreInv, procVars
<1>1. /\ disk'.membership = disk.membership /\ disk'.last_applied = disk.last_applied
      /\ disk'.snap = disk.snap /\ replica' = replica
  BY <1>0 DEF clusterVars
<1> SUFFICES /\ task'.kind = "apply" => BatchPosition'
             /\ task'.kind = "membership" => MembershipPosition'
  BY <1>0, <1>1, PositionSame DEF PositionInv
<1>2. disk.membership = MembershipAt(disk.last_applied)
  BY DEF PositionInv, MembershipAtPosition
<1>3. ASSUME NEW first \in Index, NEW last \in Index, BeginApply(first, last)
      PROVE  task'.kind = "apply" /\ BatchPosition'
  <2>1. task'.kind = "apply" /\ task'.next = first /\ task'.high = NoPos
    BY <1>3 DEF BeginApply
  <2>2. disk.last_applied < first => first - 1 = disk.last_applied
    BY <1>3, Numbers DEF BeginApply
  <2>3. ~(disk.last_applied < NoPos)
    BY Numbers DEF NoPos
  <2> QED BY <1>1, <1>2, <2>1, <2>2, <2>3 DEF BatchPosition, MembershipAt
<1>4. ASSUME Applying
      PROVE  /\ BatchInv /\ task \in ApplyTasks /\ task.next \in Index
             /\ task.next <= commit /\ BatchPosition
             /\ task.next \in Nat /\ task.end \in Nat /\ task.high \in Int
  BY <1>0, <1>4, TaskFields, TaskNumbers, Numbers
     DEF Applying, UpInv, TaskInv, BatchInv, Index, PositionInv
<1>5. CASE SkipEntry
  <2>1. /\ task'.kind = "apply" /\ task'.next = task.next + 1
        /\ task'.high = task.high
    BY <1>4, <1>5 DEF SkipEntry, Applying, ApplyTasks
  <2>2. task.next <= disk.last_applied
    BY <1>0, <1>4, <1>5, Numbers DEF SkipEntry, IsDuplicateEntry, BatchInv, UpInv
  <2>3. disk.last_applied < task'.next => task'.next - 1 = disk.last_applied
    BY <1>4, <1>5, <2>1, <2>2, Numbers DEF SkipEntry
  <2>4. ~(disk.last_applied < task.high)
    BY <1>4, <1>5, <2>2, Numbers DEF SkipEntry, BatchPosition
  <2> QED BY <1>1, <1>2, <2>1, <2>3, <2>4 DEF BatchPosition, MembershipAt
<1>6. ASSUME Applying, ~IsDuplicateEntry(task.next, task.end)
      PROVE  /\ MembershipAt(task.next - 1) = disk.membership
             /\ MembershipAt(task.next) = IF chosen[task.next].type = "Membership"
                                          THEN task.next ELSE disk.membership
  <2>1. disk.last_applied < task.next
    BY <1>4, <1>6, Numbers DEF IsDuplicateEntry, BatchInv
  <2> QED BY <1>4, <1>6, <2>1 DEF BatchPosition, PositionInv, Chained
<1>7. CASE ApplyNormal \/ ApplyBlank
  <2>1. /\ Applying /\ ~IsDuplicateEntry(task.next, task.end)
        /\ chosen[task.next].type # "Membership"
    BY <1>7 DEF ApplyNormal, ApplyBlank, ApplyNew
  <2>2. /\ task'.kind = "apply" /\ task'.next = task.next + 1
        /\ task'.high = task.next
    BY <1>4, <1>7, <2>1 DEF ApplyNormal, ApplyBlank, Applying, ApplyTasks
  <2>3. task'.next - 1 = task.next
    BY <1>4, <2>1, <2>2
  <2> QED BY <1>1, <1>6, <2>1, <2>2, <2>3 DEF BatchPosition, MembershipAt
<1>8. CASE ApplyMembership
  <2>1. /\ Applying /\ ~IsDuplicateEntry(task.next, task.end)
        /\ chosen[task.next].type = "Membership"
    BY <1>8 DEF ApplyMembership, ApplyNew
  <2>2. task'.kind = "membership" /\ task'.next = task.next /\ task'.high = task.next
    BY <1>4, <1>8, <2>1 DEF ApplyMembership, ApplyTasks
  <2> QED BY <1>1, <1>6, <2>1, <2>2 DEF MembershipPosition, MembershipAt
<1> QED BY <1>3, <1>5, <1>7, <1>8

\* The steps that persist a position persist the membership at it.
LEMMA PositionPersist ==
  ASSUME TypeOK, StoreInv, PositionInv, ~BuildOverlapsInstall,
         SaveAppliedMembership \/ PersistLastApplied \/ InstallSnapshot
  PROVE  PositionInv'
<1>0. proc = "up" /\ UpInv
  BY DEF SaveAppliedMembership, PersistLastApplied, InstallSnapshot, StoreInv
<1>1. ASSUME UNCHANGED clusterVars, UNCHANGED builder, MembershipAtPosition',
             task'.kind = "apply" => BatchPosition', task'.kind # "membership"
      PROVE  PositionInv'
  <2>1. Chained'
    BY <1>1 DEF PositionInv, Chained, MembershipAt, clusterVars
  <2>2. builder'.phase # "idle" => builder'.membership = MembershipAt(builder.pos)'
    BY <1>0, <1>1 DEF PositionInv, MembershipAt, clusterVars
  <2> QED BY <1>1, <2>1, <2>2 DEF PositionInv
<1>2. CASE SaveAppliedMembership
  <2>1. /\ task.kind = "membership" /\ MembershipInv /\ MembershipPosition
        /\ Reflects(state, task.next) /\ task \in ApplyTasks /\ task.next \in Nat
    BY <1>0, <1>2, TaskFields, TaskNumbers
       DEF SaveAppliedMembership, UpInv, TaskInv, MembershipInv, Reflects, PositionInv
  <2>2. /\ disk' = SavedMembership(task.next)
        /\ task' = [task EXCEPT !.kind = "apply", !.next = @ + 1]
        /\ UNCHANGED clusterVars /\ UNCHANGED builder
    BY <1>2, <2>1 DEF SaveAppliedMembership
  <2>3. /\ disk'.snap = disk.snap /\ disk'.membership = task.next
        /\ disk'.last_applied = task.next /\ replica' = replica
    BY <2>2 DEF SavedMembership, TypeOK, Disks, clusterVars
  <2>4. task'.kind = "apply" /\ task'.next = task.next + 1 /\ task'.high = task.high
    BY <2>1, <2>2 DEF ApplyTasks
  <2>5. task'.next - 1 = task.next /\ ~(task.next < task.next)
    BY <2>1, <2>4
  <2>6. MembershipAtPosition' /\ BatchPosition'
    BY <2>1, <2>3, <2>4, <2>5
       DEF MembershipPosition, MembershipAtPosition, MembershipAt, BatchPosition,
           PositionInv
  <2> QED BY <1>1, <2>2, <2>4, <2>6
<1>3. CASE PersistLastApplied
  <2>1. /\ BatchPosition /\ BatchInv /\ task \in ApplyTasks
        /\ task.high \in Int /\ task.next \in Nat
    BY <1>0, <1>3, TaskFields, TaskNumbers
       DEF PersistLastApplied, PositionInv, UpInv, TaskInv
  <2>2. ASSUME ~NotAdvanced PROVE Reflects(state, task.high)
    BY <2>1 DEF BatchInv, Reflects
  <2>3. task' = Idle /\ UNCHANGED clusterVars /\ UNCHANGED builder
    BY <1>3, <2>2 DEF PersistLastApplied
  <2>4. CASE NotAdvanced
    <3>1. UNCHANGED disk
      BY <1>3, <2>4 DEF PersistLastApplied
    <3>2. MembershipAtPosition'
      BY <2>3, <3>1 DEF MembershipAtPosition, MembershipAt, PositionInv, clusterVars
    <3> QED BY <1>1, <2>3, <3>2 DEF Idle
  <2>5. CASE ~NotAdvanced
    <3>1. disk' = SavedLastApplied(task.high)
      BY <1>3, <2>2, <2>5 DEF PersistLastApplied
    <3>2. /\ disk'.snap = disk.snap /\ disk'.membership = disk.membership
          /\ disk'.last_applied = task.high /\ replica' = replica
      BY <2>3, <3>1 DEF SavedLastApplied, TypeOK, Disks, clusterVars
    <3>3. disk.last_applied < task.high
      BY <1>0, <2>1, <2>5, Numbers DEF NotAdvanced, UpInv
    <3>4. task.high = task.next - 1 /\ disk.last_applied < task.next
      BY <2>1, <3>3, Numbers DEF BatchPosition
    <3>5. MembershipAt(task.high) = disk.membership
      BY <2>1, <3>4 DEF BatchPosition
    <3>6. MembershipAtPosition'
      BY <3>2, <3>5 DEF MembershipAtPosition, MembershipAt, PositionInv
    <3> QED BY <1>1, <2>3, <3>6 DEF Idle
  <2> QED BY <2>4, <2>5
<1>4. CASE InstallSnapshot
  <2>1. /\ disk'.snap.pos = task.pos /\ disk'.snap.membership = MembershipAt(task.pos)
        /\ disk'.last_applied = task.pos /\ disk'.membership = MembershipAt(task.pos)
    BY <1>4 DEF InstallSnapshot, SaveInstalledSnapshot, TypeOK, Disks, Snapshots
  <2>2. task' = Idle /\ UNCHANGED clusterVars /\ UNCHANGED builder
    BY <1>4 DEF InstallSnapshot
  <2>3. MembershipAtPosition'
    BY <2>1, <2>2 DEF MembershipAtPosition, MembershipAt, clusterVars
  <2> QED BY <1>1, <2>2, <2>3 DEF Idle
<1> QED BY <1>2, <1>3, <1>4

\* Beginning an install, and sending a snapshot, leave the disk alone.
LEMMA PositionTaskStep ==
  ASSUME TypeOK, StoreInv, PositionInv, ~BuildOverlapsInstall, TaskStep
  PROVE  PositionInv'
<1>1. ASSUME (\E pos, ahead \in Index : InstallState(pos, ahead)) \/ SendMeta \/ SendData
      PROVE  PositionInv'
  <2>1. /\ proc = "up" /\ proc' = "up" /\ task'.kind \in {"install", "send", "idle"}
        /\ UNCHANGED clusterVars /\ UNCHANGED disk /\ UNCHANGED builder
    BY <1>1 DEF InstallState, SendMeta, SendData, Idle, procVars
  <2>2. UNCHANGED <<disk.membership, disk.last_applied, disk.snap>>
    BY <2>1
  <2> QED BY <2>1, <2>2, PositionSame DEF PositionInv
<1> QED BY <1>1, PositionBatch, PositionPersist DEF TaskStep

\* The builder reads position and membership together, and saves what it read.
LEMMA PositionBuilderStep ==
  ASSUME TypeOK, StoreInv, PositionInv, BuilderStep
  PROVE  PositionInv'
<1> USE DEF clusterVars, stateVars, procVars
<1>0. /\ proc = "up" /\ UNCHANGED clusterVars /\ UNCHANGED task
      /\ UNCHANGED <<disk.membership, disk.last_applied>>
  BY DEF BuilderStep, BuildPosition, BuildClone, BuildSave, Fail, SaveSnapshot, TypeOK,
         Disks
<1>1. CASE BuildPosition
  <2>1. /\ builder'.pos = disk.last_applied /\ builder'.membership = disk.membership
        /\ UNCHANGED disk
    BY <1>1 DEF BuildPosition
  <2>2. disk'.snap = disk.snap
    BY <2>1
  <2>3. builder'.membership = MembershipAt(builder.pos)'
    BY <1>0, <2>1 DEF PositionInv, MembershipAtPosition, MembershipAt
  <2> QED BY <1>0, <2>2, <2>3, PositionSame DEF PositionInv
<1>2. CASE BuildClone
  <2>1. /\ builder.phase # "idle" /\ UNCHANGED disk
        /\ \/ builder' = builder
           \/ builder'.pos = builder.pos /\ builder'.membership = builder.membership
    BY <1>2 DEF BuildClone, Fail
  <2>2. disk'.snap = disk.snap
    BY <2>1
  <2>3. builder'.membership = MembershipAt(builder.pos)'
    BY <1>0, <2>1 DEF PositionInv, MembershipAt
  <2> QED BY <1>0, <2>2, <2>3, PositionSame DEF PositionInv
<1>3. CASE BuildSave
  <2>1. /\ disk'.snap.pos = builder.pos /\ disk'.snap.membership = builder.membership
        /\ builder'.phase = "idle" /\ builder.phase # "idle"
    BY <1>3 DEF BuildSave, SaveSnapshot, TypeOK, Disks, Snapshots, NoBuild
  <2>2. MembershipAtPosition'
    BY <1>0, <2>1 DEF PositionInv, MembershipAtPosition, MembershipAt
  <2>3. Chained'
    BY <1>0 DEF PositionInv, Chained, MembershipAt
  <2>4. /\ task'.kind = "apply" => BatchPosition'
        /\ task'.kind = "membership" => MembershipPosition'
    BY <1>0 DEF PositionInv, BatchPosition, MembershipPosition, MembershipAt
  <2> QED BY <2>1, <2>2, <2>3, <2>4 DEF PositionInv
<1> QED BY <1>1, <1>2, <1>3 DEF BuilderStep

\* A restart finds what the disk holds.
LEMMA PositionProcessStep ==
  ASSUME TypeOK, StoreInv, PositionInv, ProcessStep
  PROVE  PositionInv'
<1>1. UNCHANGED clusterVars
  BY DEF ProcessStep, Crash, LoadSnapshotState, ReplayEntry, Started
<1>2. UNCHANGED <<disk.membership, disk.last_applied, disk.snap>>
  BY DEF ProcessStep, Crash, LoadSnapshotState, Fail, ReplayEntry, Started, TypeOK, Disks
<1>3. proc' # "up" \/ (task'.kind = "idle" /\ builder'.phase = "idle")
  <2>1. CASE Crash
    BY <2>1 DEF Crash
  <2>2. CASE LoadSnapshotState
    BY <2>2 DEF LoadSnapshotState, Fail
  <2>3. ASSUME task.kind = "boot" PROVE proc = "boot" /\ builder = NoBuild
    BY <2>3 DEF StoreInv, UpInv, TaskInv, BootInv, Idle, TypeOK
  <2>4. CASE ReplayEntry
    BY <2>3, <2>4 DEF ReplayEntry, procVars
  <2>5. CASE Started
    BY <2>3, <2>5 DEF Started, Idle, NoBuild
  <2> QED BY <2>1, <2>2, <2>4, <2>5 DEF ProcessStep
<1> QED BY <1>1, <1>2, <1>3, PositionSame DEF PositionInv

-----------------------------------------------------------------------------
(***************************************************************************)
(* Every variable keeps its type: no position leaves the log's range, and  *)
(* no task or builder holds a field its kind does not have, in any         *)
(* interleaving of openraft's calls, crashes and restarts.                 *)
(***************************************************************************)
THEOREM StoreTypeCorrect == Spec => []TypeOK
<1>1. TypeOK /\ [Next]_vars => TypeOK'
  <2>1. TypeOK /\ UNCHANGED vars => TypeOK'
    BY DEF TypeOK, vars, clusterVars, stateVars, procVars
  <2> QED BY <2>1, TypeLog, TypeTask, TypeBuilder, TypeProcess DEF Next
<1> QED BY <1>1, TypeInit, PTL DEF Spec

(***************************************************************************)
(* The inductive invariant holds while no snapshot is built during an      *)
(* install.                                                                *)
(***************************************************************************)
THEOREM StoreInvariant ==
  ASSUME ~BuildOverlapsInstall
  PROVE  Spec => []StoreInv
<1>1. TypeOK /\ TypeOK' /\ StoreInv /\ [Next]_vars => StoreInv'
  <2> SUFFICES ASSUME TypeOK, TypeOK', StoreInv, [Next]_vars PROVE StoreInv'
    OBVIOUS
  <2>1. CASE LogStep
    BY <2>1, StoreLogStep
  <2>2. CASE TaskStep
    BY <2>2, StoreTaskStep
  <2>3. CASE BuilderStep
    BY <2>3, StoreBuilderStep
  <2>4. CASE ProcessStep
    BY <2>4, StoreProcessStep
  <2>5. CASE UNCHANGED vars
    BY <2>5, StoreStutter
  <2> QED BY <2>1, <2>2, <2>3, <2>4, <2>5 DEF Next
<1> QED BY <1>1, StoreInit, StoreTypeCorrect, PTL DEF Spec

(***************************************************************************)
(* A serving node's state reflects every entry up to its durable applied   *)
(* position, each once and in order, whatever was snapshotted, purged,     *)
(* installed or lost in a crash (new_with_tls, apply_entry).               *)
(***************************************************************************)
THEOREM NoEntryIsLost ==
  ASSUME ~BuildOverlapsInstall
  PROVE  Spec => []NoEntryLost
<1>1. StoreInv => NoEntryLost
  BY DEF StoreInv, UpInv, Whole, NoEntryLost
<1> QED BY <1>1, StoreInvariant, PTL

(***************************************************************************)
(* The log is purged only where the snapshot on disk covers it             *)
(* (delete_up_to, get_current_snapshot).                                   *)
(***************************************************************************)
THEOREM PurgeIsCovered ==
  ASSUME ~BuildOverlapsInstall
  PROVE  Spec => []SnapshotCoversPurge
<1>1. StoreInv => SnapshotCoversPurge
  BY DEF StoreInv, DiskInv, SnapshotCoversPurge
<1> QED BY <1>1, StoreInvariant, PTL

(***************************************************************************)
(* The data get_current_snapshot reads is at or ahead of the position it   *)
(* read before, so the follower installs it.                               *)
(***************************************************************************)
THEOREM WhatIsSentIsInstallable ==
  ASSUME ~BuildOverlapsInstall
  PROVE  Spec => []SentIsInstallable
<1>1. TypeOK /\ StoreInv => SentIsInstallable
  BY Numbers, TaskNumbers DEF StoreInv, DiskInv, UpInv, TaskInv, SentIsInstallable
<1> QED BY <1>1, StoreInvariant, StoreTypeCorrect, PTL

(***************************************************************************)
(* No check of the store ever stops the node: ensure_state_reflects,       *)
(* build_snapshot's and state_at_snapshot_position's refusals are          *)
(* unreachable.                                                            *)
(***************************************************************************)
THEOREM StoreNeverRefuses ==
  ASSUME ~BuildOverlapsInstall
  PROVE  Spec => []NeverRefused
<1>1. StoreInv => NeverRefused
  BY DEF StoreInv, NeverRefused
<1> QED BY <1>1, StoreInvariant, PTL

(***************************************************************************)
(* The durable membership is the one at the durable applied position, and  *)
(* a snapshot's the one at its position, wherever a crash falls between a  *)
(* batch's membership entry and its end (applied_state, write_snapshot,    *)
(* save_applied_membership_and_last_applied).                              *)
(***************************************************************************)
THEOREM MembershipIsAtPosition ==
  ASSUME ~BuildOverlapsInstall
  PROVE  Spec => []MembershipAtPosition
<1>1. TypeOK /\ StoreInv /\ PositionInv /\ [Next]_vars => PositionInv'
  <2> SUFFICES ASSUME TypeOK, StoreInv, PositionInv, [Next]_vars PROVE PositionInv'
    OBVIOUS
  <2>1. CASE UNCHANGED vars
    <3>1. /\ UNCHANGED clusterVars /\ UNCHANGED task /\ UNCHANGED builder
          /\ proc' = proc /\ UNCHANGED disk
      BY <2>1 DEF vars, procVars
    <3>2. UNCHANGED <<disk.membership, disk.last_applied, disk.snap>>
      BY <3>1
    <3> QED BY <3>1, <3>2, PositionSame DEF PositionInv
  <2> QED BY <2>1, PositionLogStep, PositionTaskStep, PositionBuilderStep,
             PositionProcessStep DEF Next
<1>2. PositionInv => MembershipAtPosition
  BY DEF PositionInv
<1> QED BY <1>1, <1>2, PositionInit, StoreTypeCorrect, StoreInvariant, PTL DEF Spec

=============================================================================
