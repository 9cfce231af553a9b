--------------------------- MODULE ServiceProofs ----------------------------
(***************************************************************************)
(* What a node does with its PostgreSQL, for any number of backups,        *)
(* restores, clones, crashes and changes of leadership: the data directory *)
(* through every failure of a restore and the backups that rotation keeps  *)
(* (Backup), the synchronous standby list of a primary (ReplicationSlots), *)
(* and the data a node gives up to follow a leader (Provisioning).         *)
(***************************************************************************)
EXTENDS Backup, ReplicationSlots, Provisioning, FiniteSetTheorems, WellFoundedInduction, TLAPS

-----------------------------------------------------------------------------
(* Backup and restore. *)

Origins == {"none", "own", "backup", "clone"}
Dirs == [Parts -> Origins]
Backups == [type : Types, time : Nat, whole : BOOLEAN]

\* What every part of the node's backups and restores may hold.
RestoreType ==
  /\ data \in Dirs /\ staged \in Seq(Dirs) /\ unsynced \subseteq Parts
  /\ task \in {"none", "asked", "waits"} /\ slock \in {"free", "restore", "pass"}
  /\ thread \in [op : {"none", "copy", "cleanup", "undo"}, left : SUBSET Parts]
  /\ postgres \in BOOLEAN /\ process \in BOOLEAN /\ cut \in BOOLEAN

StagedCopy == \E i \in DOMAIN staged : Whole(staged[i])

\* Who works on PGDATA: a restore that still waits for its thread has the
\* supervisor lock, and a new one begins only when no thread is left.
RestoreLocks ==
  /\ task = "waits" => slock = "restore" /\ thread.op # "none"
  /\ task = "asked" => thread = Idle
  /\ ~process => task = "none" /\ thread = Idle /\ slock = "free" /\ unsynced = {} /\ ~postgres
  /\ slock # "free" => ~postgres

\* What the thread has done: while it copies or undoes, a whole directory is
\* staged; it cleans up only beside a whole one that is on disk.
CopyInv ==
  /\ StagedCopy \/ (Whole(data) /\ unsynced = {})
  /\ thread.op \in {"copy", "undo"} => StagedCopy
  /\ thread.op = "copy" /\ task = "waits" =>
       \A p \in Parts : data[p] = IF p \in thread.left THEN "none" ELSE "backup"
  /\ thread.op = "undo" /\ task = "waits" => data = Absent
  /\ thread.op = "cleanup" => Whole(data) /\ unsynced = {}
  /\ \A p \in unsynced : data[p] # "none"

\* Without a lost client every thread has its handler, and no two origins meet.
OriginInv ==
  ~cut =>
    /\ thread.op # "none" => task = "waits"
    /\ OneOrigin(data) /\ \A i \in DOMAIN staged : OneOrigin(staged[i])

RestoreInv == RestoreType /\ RestoreLocks /\ CopyInv /\ OriginInv

\* The files of one type, the one being written aside.
Kept(t) == {b \in store \ making : b.type = t}

\* The backup being made is the newest file, and not a good one yet.
StoreInv ==
  /\ IsFiniteSet(store) /\ store \subseteq Backups /\ askedBackups \in Nat
  /\ completed \subseteq Types /\ making \subseteq store
  /\ \A b \in store : b.time <= askedBackups
  /\ \A b \in making : ~b.whole /\ b.time = askedBackups /\ making = {b}
  /\ \A t \in completed : (\E b \in Kept(t) : b.whole) \/ Cardinality(Kept(t)) >= Retention

-----------------------------------------------------------------------------
(* Directories. *)

\* A directory all of whose files come from one place.
LEMMA FromOne ==
  ASSUME NEW d \in Dirs, NEW x, \A p \in Parts : d[p] \in {"none", x}
  PROVE  OneOrigin(d)
<1>1. Range(d) \ {"none"} \subseteq {x}
  BY DEF Range, Dirs
<1>2. IsFiniteSet({x}) /\ Cardinality({x}) = 1
  BY FS_Singleton
<1>3. Cardinality(Range(d) \ {"none"}) <= Cardinality({x})
  BY <1>1, <1>2, FS_Subset
<1> QED BY <1>2, <1>3 DEF OneOrigin

\* A whole directory has all its files, of one origin, and looks valid.
LEMMA WholeIs ==
  ASSUME NEW d \in Dirs
  PROVE  /\ Whole(d) => LooksValid(d) /\ OneOrigin(d) /\ d # Absent
         /\ (\A p \in Parts : d[p] # "none") /\ OneOrigin(d) => Whole(d)
BY DEF Whole, LooksValid, Range, Dirs, Parts, Absent

\* A data directory as initdb, a clone, a restore and a wipe leave it.
LEMMA DirTypes ==
  /\ Absent \in Dirs /\ Remnant \in Dirs /\ OneOrigin(Absent) /\ OneOrigin(Remnant)
  /\ \A x \in Origins \ {"none"} : From(x) \in Dirs /\ Whole(From(x)) /\ OneOrigin(From(x))
<1>1. /\ Absent \in Dirs /\ \A p \in Parts : Absent[p] \in {"none", "own"}
  BY DEF Absent, Dirs, Origins
<1>2. /\ Remnant \in Dirs /\ \A p \in Parts : Remnant[p] \in {"none", "own"}
  BY DEF Absent, Remnant, Dirs, Origins
<1>3. ASSUME NEW x \in Origins \ {"none"}
      PROVE  From(x) \in Dirs /\ Whole(From(x)) /\ OneOrigin(From(x))
  <2>1. /\ From(x) \in Dirs /\ \A p \in Parts : From(x)[p] \in {"none", x}
        /\ \A p \in Parts : From(x)[p] # "none"
    BY <1>3 DEF From, Dirs
  <2> QED BY <2>1, FromOne, WholeIs
<1> QED BY <1>1, <1>2, <1>3, FromOne

\* The newest staged directory and the others.
LEMMA StagedSplit ==
  ASSUME RestoreType, staged # <<>>
  PROVE  /\ Front(staged) \in Seq(Dirs) /\ Last(staged) \in Dirs
         /\ Len(staged) \in DOMAIN staged /\ Last(staged) = staged[Len(staged)]
         /\ \A i \in DOMAIN Front(staged) : i \in DOMAIN staged /\ Front(staged)[i] = staged[i]
         /\ \A i \in DOMAIN staged :
              i = Len(staged) \/ (i \in DOMAIN Front(staged) /\ Front(staged)[i] = staged[i])
<1>1. /\ staged \in Seq(Dirs) /\ Len(staged) \in Nat /\ Len(staged) # 0
      /\ DOMAIN staged = 1..Len(staged)
  BY DEF RestoreType
<1>2. /\ Front(staged) \in Seq(Dirs) /\ Len(Front(staged)) = Len(staged) - 1
      /\ \A i \in 1..(Len(staged) - 1) : Front(staged)[i] = staged[i]
  BY <1>1 DEF Front
<1>3. DOMAIN Front(staged) = 1..(Len(staged) - 1)
  BY <1>2
<1> QED BY <1>1, <1>2, <1>3 DEF Last

\* One more on top.
LEMMA StagedMore ==
  ASSUME NEW s \in Seq(Dirs), NEW d \in Dirs
  PROVE  /\ Append(s, d) \in Seq(Dirs)
         /\ \A i \in DOMAIN Append(s, d) :
              (i \in DOMAIN s /\ Append(s, d)[i] = s[i]) \/ Append(s, d)[i] = d
         /\ \A i \in DOMAIN s : i \in DOMAIN Append(s, d) /\ Append(s, d)[i] = s[i]
         /\ Len(s) + 1 \in DOMAIN Append(s, d) /\ Append(s, d)[Len(s) + 1] = d
BY DEF Dirs

-----------------------------------------------------------------------------
(* The steps of a restore. *)

\* Files and handler left alone.
LEMMA RestoreSame ==
  ASSUME RestoreInv, UNCHANGED <<data, unsynced, staged, thread, slock, cut, process>>,
         UNCHANGED task \/ (task' \in {"none", "asked"} /\ thread = Idle /\ process),
         task = "waits" => UNCHANGED task,
         postgres' \in BOOLEAN, postgres' => postgres \/ (process /\ slock = "free")
  PROVE  RestoreInv'
<1>1. RestoreType' /\ RestoreLocks'
  BY DEF RestoreInv, RestoreType, RestoreLocks, Idle
<1>2. CopyInv' /\ OriginInv'
  BY DEF RestoreInv, CopyInv, OriginInv, StagedCopy, Idle
<1> QED BY <1>1, <1>2 DEF RestoreInv

\* A restore moves PGDATA aside.
LEMMA RestoreBegins ==
  ASSUME RestoreInv, BeginRestore
  PROVE  RestoreInv'
<1> USE DEF storeVars
<1>1. /\ RestoreType /\ RestoreLocks /\ CopyInv /\ OriginInv /\ process /\ thread = Idle
      /\ data \in Dirs /\ staged \in Seq(Dirs)
  BY DEF RestoreInv, RestoreLocks, RestoreType, BeginRestore
<1>2. staged' \in Seq(Dirs) /\ StagedCopy' /\ (~cut => \A i \in DOMAIN staged' : OneOrigin(staged'[i]))
  <2>1. CASE data = Absent
    BY <1>1, <2>1, WholeIs DEF BeginRestore, CopyInv, OriginInv, StagedCopy
  <2>2. CASE data # Absent
    <3>1. staged' = Append(staged, data)
      BY <2>2 DEF BeginRestore
    <3>2. CASE StagedCopy
      BY <3>1, <3>2, <1>1, StagedMore DEF StagedCopy, OriginInv
    <3>3. CASE ~StagedCopy
      BY <3>1, <3>3, <1>1, StagedMore DEF StagedCopy, OriginInv, CopyInv
    <3> QED BY <3>2, <3>3
  <2> QED BY <2>1, <2>2
<1>3. /\ data' = Absent /\ unsynced' = {} /\ slock' = "restore" /\ task' = "waits" /\ postgres' = FALSE
      /\ thread' = [op |-> "copy", left |-> Parts] /\ UNCHANGED <<cut, process>>
  BY DEF BeginRestore
<1>4. RestoreType' /\ RestoreLocks'
  BY <1>1, <1>2, <1>3, DirTypes DEF RestoreType, RestoreLocks
<1>5. CopyInv' /\ OriginInv'
  BY <1>1, <1>2, <1>3, DirTypes DEF CopyInv, OriginInv, Absent
<1> QED BY <1>4, <1>5 DEF RestoreInv

\* The thread copies one part of the backup.
LEMMA RestoreCopies ==
  ASSUME RestoreInv, CopyPart
  PROVE  RestoreInv'
<1> USE DEF storeVars, processVars
<1>1. /\ RestoreType /\ RestoreLocks /\ CopyInv /\ OriginInv /\ process /\ StagedCopy
      /\ data \in Dirs /\ thread.op = "copy" /\ thread.left \subseteq Parts
  BY DEF RestoreInv, RestoreLocks, RestoreType, CopyPart, CopyInv, Idle
<1>2. PICK p \in thread.left :
        /\ data' = [data EXCEPT ![p] = "backup"] /\ unsynced' = unsynced \union {p}
        /\ thread' = [thread EXCEPT !.left = @ \ {p}]
  BY DEF CopyPart
<1>3. /\ data' \in Dirs /\ data'[p] = "backup" /\ p \in Parts
      /\ \A q \in Parts \ {p} : data'[q] = data[q]
  BY <1>1, <1>2 DEF Dirs, Origins
<1>4. /\ thread' \in [op : {"none", "copy", "cleanup", "undo"}, left : SUBSET Parts]
      /\ thread'.op = "copy" /\ thread'.left = thread.left \ {p}
  BY <1>1, <1>2 DEF RestoreType
<1>5. UNCHANGED <<staged, task, slock, cut, postgres, process>>
  BY DEF CopyPart
<1>6. RestoreType' /\ RestoreLocks'
  BY <1>1, <1>2, <1>3, <1>4, <1>5 DEF RestoreType, RestoreLocks, Idle
<1>7. StagedCopy'
  BY <1>1, <1>5 DEF StagedCopy
<1>8. task = "waits" => \A q \in Parts : data'[q] = IF q \in thread'.left THEN "none" ELSE "backup"
  BY <1>1, <1>3, <1>4 DEF CopyInv
<1>9. ~cut => OneOrigin(data')
  <2> SUFFICES ASSUME ~cut PROVE OneOrigin(data')
    OBVIOUS
  <2>1. \A q \in Parts : data'[q] \in {"none", "backup"}
    BY <1>1, <1>8 DEF OriginInv
  <2> QED BY <2>1, <1>3, FromOne
<1>10. \A q \in unsynced' : data'[q] # "none"
  BY <1>1, <1>2, <1>3 DEF CopyInv, RestoreType
<1>11. CopyInv' /\ OriginInv'
  BY <1>1, <1>4, <1>5, <1>7, <1>8, <1>9, <1>10 DEF CopyInv, OriginInv
<1> QED BY <1>6, <1>11 DEF RestoreInv

\* The copy is complete, on disk, and the staged directory goes.
LEMMA RestoreFinalizes ==
  ASSUME RestoreInv, FinalizeRestored
  PROVE  RestoreInv'
<1> USE DEF storeVars, processVars
<1>1. /\ RestoreType /\ RestoreLocks /\ CopyInv /\ OriginInv /\ process /\ StagedCopy
      /\ data \in Dirs /\ thread.op = "copy" /\ thread.left = {}
  BY DEF RestoreInv, RestoreLocks, RestoreType, FinalizeRestored, CopyInv, Idle
<1>2. /\ UNCHANGED <<data, staged, task, slock, cut, postgres, process>> /\ unsynced' = {}
      /\ thread' = IF task = "waits" THEN [op |-> "cleanup", left |-> {}] ELSE Idle
  BY DEF FinalizeRestored
<1>3. task = "waits" => Whole(data)
  <2> SUFFICES ASSUME task = "waits" PROVE Whole(data)
    OBVIOUS
  <2>1. \A q \in Parts : data[q] = "backup"
    BY <1>1 DEF CopyInv
  <2> QED BY <2>1, <1>1, FromOne, WholeIs
<1>4. RestoreType' /\ RestoreLocks'
  BY <1>1, <1>2 DEF RestoreType, RestoreLocks, Idle
<1>5. StagedCopy'
  BY <1>1, <1>2 DEF StagedCopy
<1>6. CopyInv' /\ OriginInv'
  BY <1>1, <1>2, <1>3, <1>5 DEF CopyInv, OriginInv, Idle
<1> QED BY <1>4, <1>6 DEF RestoreInv

\* The handler's last steps, and a thread that ends without its handler.
LEMMA RestoreEnds ==
  ASSUME RestoreInv, RemoveStaged \/ RollBack \/ DetachedEnds
  PROVE  RestoreInv'
<1> USE DEF storeVars, processVars
<1>1. /\ RestoreType /\ RestoreLocks /\ CopyInv /\ OriginInv /\ process
      /\ data \in Dirs /\ staged \in Seq(Dirs) /\ thread.op # "none"
  BY DEF RestoreInv, RestoreLocks, RestoreType, RemoveStaged, RollBack, DetachedEnds, Idle
<1>2. /\ thread' = Idle /\ UNCHANGED <<unsynced, cut, process>> /\ task' = "none"
      /\ \/ task = "waits" /\ slock' = "free" /\ postgres' \in BOOLEAN
         \/ task = "none" /\ slock' = slock /\ postgres' = postgres
  <2>1. CASE RemoveStaged \/ RollBack
    <3>1. task = "waits" /\ EndRestore /\ unsynced' = unsynced
      BY <2>1 DEF RemoveStaged, RollBack
    <3> QED BY <3>1 DEF EndRestore
  <2>2. CASE DetachedEnds
    BY <2>2 DEF DetachedEnds
  <2> QED BY <2>1, <2>2
<1>3. \/ thread.op = "cleanup" /\ data' = data /\ staged' = staged
      \/ thread.op = "cleanup" /\ data' = data /\ staged # <<>> /\ staged' = Front(staged)
      \/ thread.op = "cleanup" /\ data' = data /\ staged # <<>>
         /\ staged' = Append(Front(staged), Remnant)
      \/ thread.op = "undo" /\ data = Absent /\ staged # <<>>
         /\ data' = Last(staged) /\ staged' = Front(staged)
      \/ thread.op = "undo" /\ data' = data /\ staged' = staged
  BY <1>1 DEF RemoveStaged, RollBack, DetachedEnds, CopyInv
<1>4. /\ data' \in Dirs /\ staged' \in Seq(Dirs)
      /\ ~cut => OneOrigin(data') /\ \A i \in DOMAIN staged' : OneOrigin(staged'[i])
      /\ StagedCopy' \/ (Whole(data') /\ unsynced = {})
      /\ \A p \in unsynced : data'[p] # "none"
  <2>1. CASE thread.op = "cleanup" /\ data' = data /\ staged' = staged
    BY <2>1, <1>1 DEF CopyInv, OriginInv, StagedCopy
  <2>2. CASE thread.op = "cleanup" /\ data' = data /\ staged # <<>> /\ staged' = Front(staged)
    BY <2>2, <1>1, StagedSplit DEF CopyInv, OriginInv
  <2>3. CASE thread.op = "cleanup" /\ data' = data /\ staged # <<>>
             /\ staged' = Append(Front(staged), Remnant)
    <3>1. /\ Front(staged) \in Seq(Dirs) /\ Remnant \in Dirs /\ OneOrigin(Remnant)
          /\ \A i \in DOMAIN Front(staged) : i \in DOMAIN staged /\ Front(staged)[i] = staged[i]
      BY <2>3, <1>1, StagedSplit, DirTypes
    <3>2. /\ staged' \in Seq(Dirs)
          /\ \A i \in DOMAIN staged' :
               (i \in DOMAIN Front(staged) /\ staged'[i] = Front(staged)[i]) \/ staged'[i] = Remnant
      BY <2>3, <3>1, StagedMore
    <3> QED BY <2>3, <1>1, <3>1, <3>2 DEF CopyInv, OriginInv
  <2>4. CASE thread.op = "undo" /\ data = Absent /\ staged # <<>>
             /\ data' = Last(staged) /\ staged' = Front(staged)
    <3>1. unsynced = {}
      BY <2>4, <1>1 DEF CopyInv, Absent, RestoreType
    <3>2. StagedCopy' \/ Whole(data')
      BY <2>4, <1>1, StagedSplit DEF CopyInv, StagedCopy
    <3> QED BY <2>4, <1>1, <3>1, <3>2, StagedSplit DEF OriginInv
  <2>5. CASE thread.op = "undo" /\ data' = data /\ staged' = staged
    BY <2>5, <1>1 DEF CopyInv, OriginInv, StagedCopy
  <2> QED BY <1>3, <2>1, <2>2, <2>3, <2>4, <2>5
<1>5. RestoreType' /\ RestoreLocks'
  <2>2. postgres' \in BOOLEAN
    BY <1>1, <1>2 DEF RestoreType
  <2>3. RestoreType'
    BY <1>1, <1>2, <1>4, <2>2 DEF RestoreType, Idle
  <2>4. RestoreLocks'
    BY <1>1, <1>2 DEF RestoreLocks, Idle
  <2> QED BY <2>3, <2>4
<1>6. CopyInv' /\ OriginInv'
  BY <1>1, <1>2, <1>4 DEF CopyInv, OriginInv, Idle
<1> QED BY <1>5, <1>6 DEF RestoreInv

\* The copy fails, or the client goes.
LEMMA RestoreFails ==
  ASSUME RestoreInv, CopyFails \/ Disconnect
  PROVE  RestoreInv'
<1> USE DEF storeVars, fileVars, processVars
<1>1. /\ RestoreType /\ RestoreLocks /\ CopyInv /\ OriginInv
  BY DEF RestoreInv
<1>2. CASE CopyFails
  <2>1. /\ process /\ StagedCopy /\ thread.op = "copy"
        /\ UNCHANGED <<staged, task, slock, cut, postgres, process>>
    BY <1>1, <1>2 DEF CopyFails, RestoreLocks, CopyInv, Idle
  <2>2. StagedCopy'
    BY <2>1 DEF StagedCopy
  <2>3. CASE task = "waits"
    <3>1. thread' = [op |-> "undo", left |-> {}] /\ data' = Absent /\ unsynced' = {}
      BY <1>2, <2>3 DEF CopyFails
    <3>2. RestoreType' /\ RestoreLocks'
      BY <1>1, <2>1, <2>3, <3>1, DirTypes DEF RestoreType, RestoreLocks
    <3>3. CopyInv' /\ OriginInv'
      BY <1>1, <2>1, <2>2, <2>3, <3>1, DirTypes DEF CopyInv, OriginInv
    <3> QED BY <3>2, <3>3 DEF RestoreInv
  <2>4. CASE task # "waits"
    <3>1. thread' = Idle /\ data' = data /\ unsynced' = unsynced
      BY <1>2, <2>4 DEF CopyFails
    <3>2. RestoreType' /\ RestoreLocks'
      BY <1>1, <2>1, <2>4, <3>1 DEF RestoreType, RestoreLocks, Idle
    <3>3. CopyInv' /\ OriginInv'
      BY <1>1, <2>1, <2>2, <2>4, <3>1 DEF CopyInv, OriginInv, Idle
    <3> QED BY <3>2, <3>3 DEF RestoreInv
  <2> QED BY <2>3, <2>4
<1>3. CASE Disconnect
  <2>1. /\ UNCHANGED <<data, unsynced, staged, thread, postgres, process>> /\ task' = "none"
        /\ cut' = (cut \/ task = "waits") /\ slock' = IF task = "waits" THEN "free" ELSE slock
    BY <1>3 DEF Disconnect
  <2>2. RestoreType' /\ RestoreLocks'
    BY <1>1, <2>1 DEF RestoreType, RestoreLocks
  <2>3. CopyInv' /\ OriginInv'
    BY <1>1, <2>1 DEF CopyInv, OriginInv, StagedCopy, RestoreLocks, RestoreType
  <2> QED BY <2>2, <2>3 DEF RestoreInv
<1> QED BY <1>2, <1>3

\* The reconciler clears and clones PGDATA.
LEMMA RestorePasses ==
  ASSUME RestoreInv, PassClears \/ PassClones
  PROVE  RestoreInv'
<1> USE DEF storeVars, processVars
<1>1. /\ RestoreType /\ RestoreLocks /\ CopyInv /\ OriginInv /\ task # "waits" /\ process
  BY DEF RestoreInv, RestoreLocks, PassClears, PassClones
<1>2. UNCHANGED <<staged, task, thread, cut, process>> /\ unsynced' = {}
  BY DEF PassClears, PassClones
<1>3. CASE PassClears
  <2>1. /\ StagedCopy /\ thread.op # "cleanup"
        /\ slock' = "pass" /\ data' = Absent /\ postgres' = postgres /\ ~postgres
    BY <1>1, <1>3 DEF PassClears, CopyInv
  <2>2. RestoreType' /\ RestoreLocks'
    BY <1>1, <1>2, <2>1, DirTypes DEF RestoreType, RestoreLocks
  <2>3. CopyInv' /\ OriginInv'
    BY <1>1, <1>2, <2>1, DirTypes DEF CopyInv, OriginInv, StagedCopy
  <2> QED BY <2>2, <2>3 DEF RestoreInv
<1>4. CASE PassClones
  <2>1. slock' = "free" /\ data' = From("clone") /\ postgres' = TRUE
    BY <1>4 DEF PassClones
  <2>2. data' \in Dirs /\ Whole(data') /\ OneOrigin(data')
    BY <2>1, DirTypes DEF Origins
  <2>3. RestoreType' /\ RestoreLocks'
    BY <1>1, <1>2, <2>1, <2>2 DEF RestoreType, RestoreLocks
  <2>4. CopyInv' /\ OriginInv'
    BY <1>1, <1>2, <2>2 DEF CopyInv, OriginInv, StagedCopy
  <2> QED BY <2>3, <2>4 DEF RestoreInv
<1> QED BY <1>3, <1>4

\* The process dies with what was not fsynced, and starts on what is there.
LEMMA RestoreCrashes ==
  ASSUME RestoreInv, ProcessDies \/ ProcessStarts
  PROVE  RestoreInv'
<1> USE DEF storeVars, handlerVars
<1>1. /\ RestoreType /\ RestoreLocks /\ CopyInv /\ OriginInv /\ data \in Dirs /\ staged \in Seq(Dirs)
  BY DEF RestoreInv, RestoreType
<1>2. CASE ProcessDies
  <2>1. /\ UNCHANGED <<staged, cut>> /\ unsynced' = {} /\ process' = FALSE /\ postgres' = FALSE
        /\ task' = "none" /\ thread' = Idle /\ slock' = "free"
    BY <1>2 DEF ProcessDies
  <2>2. PICK lost \in SUBSET unsynced :
          data' = [p \in Parts |-> IF p \in lost THEN "none" ELSE data[p]]
    BY <1>2 DEF ProcessDies
  <2>3. data' \in Dirs /\ \A p \in Parts : data'[p] \in {"none", data[p]}
    BY <1>1, <2>2 DEF Dirs, Origins
  <2>4. unsynced = {} => data' = data
    BY <1>1, <2>2 DEF Dirs
  <2>5. OneOrigin(data) => OneOrigin(data')
    <3>1. Range(data') \ {"none"} \subseteq Range(data) \ {"none"}
      BY <1>1, <2>3 DEF Range, Dirs
    <3>2. IsFiniteSet(Range(data) \ {"none"})
      <4>1. Range(data) = {data["version"], data["control"], data["rest"]}
        BY <1>1 DEF Range, Dirs, Parts
      <4>2. IsFiniteSet(Range(data))
        <5>1. IsFiniteSet({data["version"]})
          BY FS_Singleton
        <5>2. IsFiniteSet({data["version"]} \cup {data["control"]})
          BY <5>1, FS_AddElement
        <5>3. IsFiniteSet(({data["version"]} \cup {data["control"]}) \cup {data["rest"]})
          BY <5>2, FS_AddElement
        <5> QED BY <5>3, <4>1
      <4> QED BY <4>2, FS_Subset
    <3>3. /\ Cardinality(Range(data') \ {"none"}) <= Cardinality(Range(data) \ {"none"})
          /\ Cardinality(Range(data') \ {"none"}) \in Nat /\ Cardinality(Range(data) \ {"none"}) \in Nat
      BY <3>1, <3>2, FS_Subset, FS_CardinalityType
    <3> QED BY <3>3 DEF OneOrigin
  <2>6. RestoreType' /\ RestoreLocks'
    BY <1>1, <2>1, <2>3 DEF RestoreType, RestoreLocks, Idle
  <2>7. CopyInv' /\ OriginInv'
    BY <1>1, <2>1, <2>4, <2>5 DEF CopyInv, OriginInv, StagedCopy, Idle
  <2> QED BY <2>6, <2>7 DEF RestoreInv
<1>3. CASE ProcessStarts
  <2>1. /\ UNCHANGED <<unsynced, task, thread, slock, cut>> /\ process' = TRUE
        /\ postgres' = LooksValid(data')
        /\ thread = Idle /\ task = "none" /\ unsynced = {} /\ slock = "free"
    BY <1>1, <1>3 DEF ProcessStarts, RestoreLocks
  <2>2. /\ data' \in Dirs /\ staged' \in Seq(Dirs) /\ (StagedCopy' \/ Whole(data'))
        /\ ~cut => OneOrigin(data') /\ \A i \in DOMAIN staged' : OneOrigin(staged'[i])
    <3>1. CASE staged # <<>> /\ ~LooksValid(data)
      <4>1. data' = Last(staged) /\ staged' = Front(staged) /\ StagedCopy
        BY <1>1, <1>3, <3>1, WholeIs DEF ProcessStarts, CopyInv
      <4> QED BY <1>1, <3>1, <4>1, StagedSplit DEF StagedCopy, OriginInv
    <3>2. CASE ~(staged # <<>> /\ ~LooksValid(data))
      BY <1>1, <1>3, <3>2 DEF ProcessStarts, CopyInv, OriginInv, StagedCopy
    <3> QED BY <3>1, <3>2
  <2>3. RestoreType' /\ RestoreLocks'
    BY <1>1, <2>1, <2>2 DEF RestoreType, RestoreLocks, LooksValid
  <2>4. CopyInv' /\ OriginInv'
    BY <2>1, <2>2 DEF CopyInv, OriginInv, Idle
  <2> QED BY <2>3, <2>4 DEF RestoreInv
<1> QED BY <1>2, <1>3

\* The files and their locks, from the start and through every step.
LEMMA RestoreInvariant == BackupSpec => []RestoreInv
<1>1. BackupInit => RestoreInv
  <2> SUFFICES ASSUME BackupInit PROVE RestoreInv
    OBVIOUS
  <2>1. data \in Dirs /\ Whole(data) /\ OneOrigin(data) /\ staged = <<>>
    BY DirTypes DEF BackupInit, Origins
  <2>2. RestoreType /\ RestoreLocks
    <3>1. thread = Idle /\ Idle \in [op : {"none", "copy", "cleanup", "undo"}, left : SUBSET Parts]
      BY DEF BackupInit, Idle
    <3>2. /\ staged \in Seq(Dirs) /\ unsynced = {} /\ task = "none" /\ slock = "free"
          /\ postgres = TRUE /\ process = TRUE /\ cut = FALSE
      BY <2>1 DEF BackupInit
    <3>3. RestoreType
      BY <2>1, <3>1, <3>2 DEF RestoreType
    <3> QED BY <3>1, <3>2, <3>3 DEF RestoreLocks
  <2>3. CopyInv
    BY <2>1 DEF BackupInit, CopyInv, Idle
  <2>4. OriginInv
    BY <2>1 DEF BackupInit, OriginInv, Idle
  <2> QED BY <2>2, <2>3, <2>4 DEF RestoreInv
<1>2. RestoreInv /\ [BackupNext]_backupVars => RestoreInv'
  <2> SUFFICES ASSUME RestoreInv, [BackupNext]_backupVars PROVE RestoreInv'
    OBVIOUS
  <2> USE DEF storeVars, fileVars, handlerVars, processVars
  <2>0. RestoreType /\ RestoreLocks
    BY DEF RestoreInv
  <2>1. CASE (\E t \in Types : AskBackup(t)) \/ FinishBackup \/ FailBackup
             \/ RestoreLeaderMoves \/ UNCHANGED backupVars
    <3>1. UNCHANGED <<data, unsynced, staged, thread, slock, cut, process, task, postgres>>
      BY <2>1 DEF AskBackup, FinishBackup, FailBackup, RestoreLeaderMoves, backupVars
    <3> QED BY <2>0, <3>1, RestoreSame DEF RestoreType
  <2>2. CASE AskRestore \/ RefuseRestore
    <3>1. /\ UNCHANGED <<data, unsynced, staged, thread, slock, cut, process, postgres>>
          /\ task # "waits" /\ task' \in {"none", "asked"} /\ thread = Idle /\ process
      BY <2>0, <2>2 DEF AskRestore, RefuseRestore, RestoreLocks, BackupLocked, RestoreType
    <3> QED BY <2>0, <3>1, RestoreSame DEF RestoreType
  <2>3. CASE RestorePassStarts
    BY <2>0, <2>3, RestoreSame DEF RestorePassStarts, RestoreType
  <2> QED BY <2>1, <2>2, <2>3, RestoreBegins, RestoreCopies, RestoreFinalizes, RestoreEnds,
             RestoreFails, RestorePasses, RestoreCrashes DEF BackupNext
<1> QED BY <1>1, <1>2, PTL DEF BackupSpec

(***************************************************************************)
(* No restore, whatever fails, crashes or disconnects in it and however    *)
(* often it is repeated, leaves the node without a whole data directory    *)
(* (execute_full_restore, recover_interrupted_restore).                    *)
(***************************************************************************)
THEOREM DataAlwaysAtHand == BackupSpec => []OldDataSurvives
<1>1. RestoreInv => OldDataSurvives
  BY DEF RestoreInv, CopyInv, StagedCopy, OldDataSurvives
<1> QED BY <1>1, RestoreInvariant, PTL

(***************************************************************************)
(* Unless a client disconnected in the middle of a restore, PostgreSQL     *)
(* runs on files of one origin.                                            *)
(***************************************************************************)
THEOREM OneOriginRuns == BackupSpec => []RunsOnOneOrigin
<1>1. RestoreInv => RunsOnOneOrigin
  BY DEF RestoreInv, OriginInv, RunsOnOneOrigin
<1> QED BY <1>1, RestoreInvariant, PTL

-----------------------------------------------------------------------------
(* The backup directory. *)

\* Of a non-empty set of files up to some time, one has no later one in the set.
LEMMA LatestExists ==
  ASSUME NEW S \in SUBSET Backups, S # {}, NEW top \in Nat, \A b \in S : b.time <= top
  PROVE  \E b \in S : \A c \in S : c.time <= b.time
<1> DEFINE R == OpToRel(<, Nat)
           T == {top - b.time : b \in S}
<1>1. T \subseteq Nat /\ T # {}
  BY DEF Backups
<1>2. IsWellFoundedOn(R, Nat)
  BY NatLessThanWellFounded
<1>3. PICK x \in T : \A y \in T : ~(<<y, x>> \in R)
  <2> HIDE DEF R, T
  <2> QED BY <1>1, <1>2, WFMin
<1>4. \A y \in T : ~(y < x)
  BY <1>1, <1>3 DEF OpToRel
<1>5. PICK b \in S : x = top - b.time
  OBVIOUS
<1>6. \A c \in S : c.time <= b.time
  <2> TAKE c \in S
  <2>1. top - c.time \in T /\ c.time \in Nat /\ b.time \in Nat
    BY DEF Backups
  <2>2. ~(top - c.time < top - b.time)
    BY <1>4, <1>5, <2>1
  <2> QED BY <2>1, <2>2
<1> QED BY <1>6

\* The newest file is not rotated out.
LEMMA NewestStays ==
  ASSUME NEW S \in SUBSET Backups, NEW b \in S, \A c \in S : c.time <= b.time
  PROVE  b \notin RotationVictims(S)
<1>1. {c \in S : c.type = b.type /\ c.time > b.time} = {}
  BY DEF Backups
<1>2. Cardinality({}) = 0 /\ ~(0 >= Retention)
  BY FS_EmptySet, BackupAssumption
<1> QED BY <1>1, <1>2 DEF RotationVictims

\* When one file of a type is rotated out, Retention files of that type stay.
LEMMA RotationKeeps ==
  ASSUME NEW S \in SUBSET Backups, IsFiniteSet(S), NEW top \in Nat, \A b \in S : b.time <= top,
         NEW t, NEW v \in RotationVictims(S), v.type = t
  PROVE  Cardinality({b \in S \ RotationVictims(S) : b.type = t}) >= Retention
<1> DEFINE V == {b \in RotationVictims(S) : b.type = t}
<1>1. V \in SUBSET Backups /\ V # {} /\ V \subseteq S /\ \A b \in V : b.time <= top
  BY DEF RotationVictims
<1>2. PICK b \in V : \A c \in V : c.time <= b.time
  <2> HIDE DEF V
  <2> QED BY <1>1, LatestExists
<1> DEFINE N == {c \in S : c.type = b.type /\ c.time > b.time}
           K == {c \in S \ RotationVictims(S) : c.type = t}
<1>3. N \subseteq K
  <2>1. b \in S /\ b.type = t /\ \A c \in S : c.time \in Nat
    BY <1>1 DEF Backups
  <2>2. \A c \in N : c \notin RotationVictims(S)
    BY <1>2, <2>1
  <2> QED BY <2>1, <2>2
<1>4. IsFiniteSet(K)
  BY FS_Subset
<1>5. Cardinality(N) >= Retention
  BY <1>2 DEF RotationVictims
<1>6. Cardinality(N) <= Cardinality(K) /\ Cardinality(N) \in Nat /\ Cardinality(K) \in Nat
  BY <1>3, <1>4, FS_Subset, FS_CardinalityType
<1> HIDE DEF N, K
<1>7. Cardinality(K) >= Retention
  BY <1>5, <1>6, BackupAssumption
<1> QED BY <1>7 DEF K

\* What stays of a type stays good.
LEMMA KeptSame ==
  ASSUME StoreInv, NEW t \in completed, Kept(t) \subseteq Kept(t)', IsFiniteSet(store')
  PROVE  (\E b \in Kept(t)' : b.whole) \/ Cardinality(Kept(t)') >= Retention
<1>1. IsFiniteSet(Kept(t)')
  BY FS_Subset DEF Kept
<1>2. /\ Cardinality(Kept(t)) <= Cardinality(Kept(t)') /\ Cardinality(Kept(t)) \in Nat
      /\ Cardinality(Kept(t)') \in Nat
  BY <1>1, FS_Subset, FS_CardinalityType
<1>3. (\E b \in Kept(t) : b.whole) \/ Cardinality(Kept(t)) >= Retention
  BY DEF StoreInv
<1>4. CASE \E b \in Kept(t) : b.whole
  BY <1>4
<1>5. CASE Cardinality(Kept(t)) >= Retention
  BY <1>2, <1>5, BackupAssumption
<1> QED BY <1>3, <1>4, <1>5

\* A backup ends: rotation, and what it may delete.
LEMMA StoreFinishes ==
  ASSUME StoreInv, FinishBackup
  PROVE  StoreInv'
<1>1. PICK b \in making :
        LET made == (store \ {b}) \union {[b EXCEPT !.whole = TRUE]}
        IN /\ completed' = completed \union {b.type}
           /\ \E deleted \in SUBSET RotationVictims(made) : store' = made \ deleted
           /\ making' = {} /\ askedBackups' = askedBackups
  BY DEF FinishBackup
<1> DEFINE done == [b EXCEPT !.whole = TRUE]
           made == (store \ {b}) \union {done}
<1>2. /\ b \in store /\ b \in Backups /\ b.time = askedBackups /\ making = {b}
      /\ store \subseteq Backups /\ IsFiniteSet(store) /\ askedBackups \in Nat
      /\ \A c \in store : c.time <= askedBackups
  BY DEF StoreInv
<1>3. done \in Backups /\ done.whole /\ done.time = askedBackups /\ done.type = b.type
  BY <1>2 DEF Backups
<1>4. PICK deleted \in SUBSET RotationVictims(made) : store' = made \ deleted
  BY <1>1
<1>5. completed' = completed \union {b.type} /\ making' = {} /\ askedBackups' = askedBackups
  BY <1>1
<1> HIDE DEF done
<1>6. /\ made \in SUBSET Backups /\ IsFiniteSet(made) /\ \A c \in made : c.time <= askedBackups
      /\ done \in made
  <2>1. IsFiniteSet(store \ {b})
    BY <1>2, FS_Subset
  <2>2. IsFiniteSet(made)
    BY <2>1, FS_AddElement
  <2> QED BY <1>2, <1>3, <2>2
<1>7. done \in store'
  BY <1>3, <1>4, <1>6, NewestStays
<1>8. IsFiniteSet(store') /\ store' \subseteq made
  BY <1>4, <1>6, FS_Subset
<1>9. ASSUME NEW t \in completed'
      PROVE  (\E c \in Kept(t)' : c.whole) \/ Cardinality(Kept(t)') >= Retention
  <2>1. Kept(t)' = {c \in store' : c.type = t}
    BY <1>5 DEF Kept
  <2>2. CASE t = b.type
    BY <1>3, <1>7, <2>1, <2>2
  <2>3. CASE t # b.type
    <3>1. t \in completed
      BY <1>5, <2>3
    <3>2. CASE \E v \in deleted : v.type = t
      <4> DEFINE K == {c \in made \ RotationVictims(made) : c.type = t}
      <4> HIDE DEF made
      <4>1. Cardinality(K) >= Retention
        BY <1>2, <1>6, <3>2, RotationKeeps
      <4>2. K \subseteq Kept(t)'
        BY <1>4, <2>1
      <4>3. IsFiniteSet(Kept(t)')
        BY <1>8, <2>1, FS_Subset
      <4>4. Cardinality(K) <= Cardinality(Kept(t)') /\ Cardinality(K) \in Nat
            /\ Cardinality(Kept(t)') \in Nat
        BY <4>2, <4>3, FS_Subset, FS_CardinalityType
      <4> HIDE DEF K
      <4> QED BY <4>1, <4>4, BackupAssumption
    <3>3. CASE ~\E v \in deleted : v.type = t
      <4>1. Kept(t) \subseteq Kept(t)'
        BY <1>2, <1>4, <2>1, <3>3 DEF Kept
      <4> QED BY <3>1, <4>1, <1>8, KeptSame
    <3> QED BY <3>2, <3>3
  <2> QED BY <2>2, <2>3
<1>10. /\ store' \subseteq Backups /\ \A c \in store' : c.time <= askedBackups'
       /\ completed' \subseteq Types /\ making' \subseteq store' /\ askedBackups' \in Nat
       /\ \A c \in making' : ~c.whole /\ c.time = askedBackups' /\ making' = {c}
  BY <1>2, <1>5, <1>6, <1>8 DEF StoreInv, Backups
<1> QED BY <1>8, <1>9, <1>10 DEF StoreInv

\* Every other step keeps what is not being made.
LEMMA StoreStep ==
  ASSUME StoreInv, [BackupNext]_backupVars
  PROVE  StoreInv'
<1> USE DEF storeVars, handlerVars
<1>0. IsFiniteSet(store) /\ store \subseteq Backups /\ making \subseteq store
  BY DEF StoreInv
<1>1. ASSUME NEW t \in Types, AskBackup(t) PROVE StoreInv'
  <2> DEFINE new == [type |-> t, time |-> askedBackups + 1, whole |-> FALSE]
  <2>1. /\ making' = {new} /\ store' = store \union {new} /\ making = {}
        /\ askedBackups' = askedBackups + 1 /\ completed' = completed /\ askedBackups \in Nat
    BY <1>1 DEF AskBackup, BackupLocked, StoreInv
  <2>2. new \in Backups /\ ~new.whole /\ new.time = askedBackups + 1
    BY <2>1 DEF Backups
  <2> HIDE DEF new
  <2>3. new \notin store
    BY <2>1, <2>2 DEF StoreInv
  <2>4. IsFiniteSet(store')
    BY <1>0, <2>1, FS_AddElement
  <2>5. \A x : Kept(x) \subseteq Kept(x)'
    BY <2>1, <2>3 DEF Kept
  <2>6. \A x \in completed' : (\E b \in Kept(x)' : b.whole) \/ Cardinality(Kept(x)') >= Retention
    BY <2>1, <2>4, <2>5, KeptSame
  <2>7. \A b \in store' : b.time <= askedBackups'
    BY <2>1, <2>2 DEF StoreInv, Backups
  <2> QED BY <1>0, <2>1, <2>2, <2>4, <2>6, <2>7 DEF StoreInv
<1>2. CASE FailBackup
  <2>1. PICK b \in making : /\ store' = store \ {b} \/ store' = store
                            /\ making' = {} /\ UNCHANGED <<completed, askedBackups>>
    BY <1>2 DEF FailBackup
  <2>2. making = {b} /\ IsFiniteSet(store') /\ store' \subseteq store
    BY <1>0, <2>1, FS_Subset DEF StoreInv
  <2>3. \A x : Kept(x) \subseteq Kept(x)'
    BY <2>1, <2>2 DEF Kept
  <2>4. \A x \in completed' : (\E c \in Kept(x)' : c.whole) \/ Cardinality(Kept(x)') >= Retention
    BY <2>1, <2>2, <2>3, KeptSame
  <2> QED BY <2>1, <2>2, <2>4 DEF StoreInv
<1>3. CASE Disconnect \/ ProcessDies
  <2>1. UNCHANGED <<store, completed, askedBackups>> /\ making' = {}
    BY <1>3 DEF Disconnect, ProcessDies
  <2>2. \A x : Kept(x) \subseteq Kept(x)'
    BY <2>1 DEF Kept
  <2>3. \A x \in completed' : (\E c \in Kept(x)' : c.whole) \/ Cardinality(Kept(x)') >= Retention
    BY <1>0, <2>1, <2>2, KeptSame
  <2> QED BY <2>1, <2>3 DEF StoreInv
<1>4. CASE \/ AskRestore \/ BeginRestore \/ RefuseRestore
           \/ CopyPart \/ FinalizeRestored \/ RemoveStaged \/ CopyFails \/ RollBack
           \/ DetachedEnds \/ RestorePassStarts \/ PassClears \/ PassClones
           \/ ProcessStarts \/ RestoreLeaderMoves \/ UNCHANGED backupVars
  <2>1. UNCHANGED <<store, making, completed, askedBackups>>
    BY <1>4 DEF AskRestore, BeginRestore, RefuseRestore, CopyPart, FinalizeRestored,
       RemoveStaged, CopyFails, RollBack, EndRestore, DetachedEnds, RestorePassStarts,
       PassClears, PassClones, ProcessStarts, RestoreLeaderMoves, backupVars
  <2> QED BY <2>1 DEF StoreInv, Kept
<1> QED BY <1>1, <1>2, <1>3, <1>4, StoreFinishes DEF BackupNext

(***************************************************************************)
(* Rotation never takes the last good backup of a type, however backups of *)
(* both types fail, are killed and follow each other, unless Retention     *)
(* files of failed attempts of that type are left (rotate_backups_in).     *)
(***************************************************************************)
THEOREM LastGoodBackupStays == BackupSpec => []GoodBackupKept
<1>1. BackupInit => StoreInv
  BY FS_EmptySet DEF BackupInit, StoreInv
<1>2. StoreInv /\ [BackupNext]_backupVars => StoreInv'
  BY StoreStep
<1>3. StoreInv => GoodBackupKept
  <2> SUFFICES ASSUME StoreInv, NEW t \in completed
               PROVE  (\E b \in {b \in store : b.type = t} : b.whole)
                      \/ Cardinality({b \in store : b.type = t}) >= Retention
    BY DEF GoodBackupKept
  <2> DEFINE T == {b \in store : b.type = t}
  <2>1. Kept(t) \subseteq T /\ IsFiniteSet(T)
    BY FS_Subset DEF StoreInv, Kept
  <2>2. Cardinality(Kept(t)) <= Cardinality(T) /\ Cardinality(Kept(t)) \in Nat
        /\ Cardinality(T) \in Nat
    BY <2>1, FS_Subset, FS_CardinalityType
  <2>3. (\E b \in Kept(t) : b.whole) \/ Cardinality(Kept(t)) >= Retention
    BY DEF StoreInv
  <2> HIDE DEF T
  <2>4. (\E b \in T : b.whole) \/ Cardinality(T) >= Retention
    BY <2>1, <2>2, <2>3, BackupAssumption
  <2> QED BY <2>4 DEF T
<1> QED BY <1>1, <1>2, <1>3, PTL DEF BackupSpec

-----------------------------------------------------------------------------
(* The synchronous standby list. *)

\* The call in progress, and the list as PostgreSQL has it.  No list is in
\* force that a call reported as set while another call is on its way.
ListInv ==
  /\ members \subseteq SlotNodes /\ late = {} /\ asking.step \in {"none", "alter", "reload", "wait"}
  /\ list \in [live : SUBSET SlotNodes, file : SUBSET SlotNodes]
  /\ asking.step = "none" <=> asking = NotAsking
  /\ asking # NotAsking => kept = {} /\ asking \in [step : {"alter", "reload", "wait"}, names : SUBSET SlotNodes]
  /\ asking.step \in {"reload", "wait"} => list.file = asking.names
  /\ \A names \in kept : list.live = names /\ list.file = names

\* The steps of a call, and the reloads that land in it.
LEMMA ListSteps ==
  ASSUME LateAlter = FALSE, ListInv, UNCHANGED members,
         \/ \E names \in Lists, answered \in BOOLEAN : SetSyncStandbyNames(names, answered)
         \/ AlterSystem \/ AskReload \/ EffectiveSeen \/ AskingFails
         \/ \E names \in SUBSET SlotNodes : ReloadLands(names)
  PROVE  ListInv'
<1>1. ASSUME NEW names \in Lists, NEW answered \in BOOLEAN, SetSyncStandbyNames(names, answered)
      PROVE  ListInv'
  <2>1. names \in SUBSET SlotNodes
    BY DEF Lists, ListInv
  <2> QED BY <1>1, <2>1 DEF SetSyncStandbyNames, ListInv, NotAsking, Current, Lists
<1>2. CASE AlterSystem
  BY <1>2 DEF AlterSystem, ListInv, NotAsking
<1>3. CASE AskReload
  BY <1>3 DEF AskReload, ListInv, NotAsking
<1>4. CASE EffectiveSeen
  BY <1>4 DEF EffectiveSeen, ListInv, NotAsking
<1>5. CASE AskingFails
  BY <1>5 DEF AskingFails, ListInv, NotAsking
<1>6. ASSUME NEW names \in SUBSET SlotNodes, ReloadLands(names)
      PROVE  ListInv'
  BY <1>6 DEF ReloadLands, ListInv, NotAsking
<1> QED BY <1>1, <1>2, <1>3, <1>4, <1>5, <1>6

\* A new primary starts without a call; every other step leaves the list alone.
LEMMA ListStays ==
  ASSUME ListInv, NEW n \in SlotNodes, MoveLeadership(n)
  PROVE  ListInv'
<1>1. PICK l \in {{}, members \ {n}} : list' = [live |-> l, file |-> l]
  BY DEF MoveLeadership
<1>2. l \in SUBSET SlotNodes
  BY <1>1 DEF ListInv
<1> QED BY <1>1, <1>2 DEF MoveLeadership, ListInv, NotAsking

\* The list, from the start and through every step.
LEMMA ListInvariant ==
  ASSUME LateAlter = FALSE
  PROVE  (SlotsInit => ListInv) /\ (ListInv /\ [SlotsNext]_slotVars => ListInv')
<1>1. SlotsInit => ListInv
  BY DEF SlotsInit, ListInv, NotAsking
<1> SUFFICES ASSUME ListInv, [SlotsNext]_slotVars PROVE ListInv'
  BY <1>1
<1>2. CASE /\ members' \subseteq SlotNodes /\ UNCHANGED listVars
  BY <1>2 DEF listVars, ListInv, NotAsking
<1>3. CASE UNCHANGED slotVars
  BY <1>2, <1>3 DEF slotVars, listVars, ListInv
<1>4. ASSUME NEW n \in SlotNodes, Join(n) \/ RemoveNode(n) \/ Repoint(n) \/ LoseUpstream(n)
      PROVE  ListInv'
  BY <1>2, <1>4 DEF Join, RemoveNode, Repoint, LoseUpstream, ListInv
<1>5. ASSUME \/ \E made \in SUBSET PlanSlots.create, gone \in SUBSET PlanSlots.drop : SweepSlots(made, gone)
             \/ \E fails \in BOOLEAN : HandlerEnds(fails)
      PROVE  ListInv'
  BY <1>2, <1>5 DEF SweepSlots, HandlerEnds, ListInv
<1>6. ASSUME \/ \E names \in Lists, answered \in BOOLEAN : SetSyncStandbyNames(names, answered)
             \/ AlterSystem \/ AskReload \/ EffectiveSeen \/ AskingFails
             \/ \E names \in SUBSET SlotNodes : ReloadLands(names)
      PROVE  ListInv'
  <2>1. UNCHANGED members
    BY <1>6 DEF SetSyncStandbyNames, AlterSystem, AskReload, EffectiveSeen, AskingFails,
                ReloadLands, slotsVars
  <2> QED BY <1>6, <2>1, ListSteps
<1> QED BY <1>3, <1>4, <1>5, <1>6, ListStays DEF SlotsNext

(***************************************************************************)
(* Unless an abandoned ALTER SYSTEM lands after its call, the synchronous  *)
(* standby list that set_sync_standby_names reported as set stays in force *)
(* until another call changes it, whichever reloads land.                  *)
(***************************************************************************)
THEOREM ReportedListStays ==
  ASSUME LateAlter = FALSE
  PROVE  SlotsSpec => []SetListStays
<1>1. ListInv => SetListStays
  BY DEF ListInv, SetListStays
<1> QED BY <1>1, ListInvariant, PTL DEF SlotsSpec

-----------------------------------------------------------------------------
(* One node's data directory. *)

AnyDir ==
  [has : {"none", "debris", "torn", "whole"}, lineage : Lineages \cup {"unknown"},
   wal : {"behind", "hole", "ahead", "far"}, signal : BOOLEAN, copy : BOOLEAN]

ProvType ==
  /\ dir \in AnyDir /\ server \in {"down", "standby", "primary"}
  /\ at \in {"off", "boot", "resume", "fresh", "join", "refill", "run", "rewind", "copy", "reclone"}
  /\ leader \in [up : BOOLEAN, lineage : Lineages] /\ term \in {"none", "ours"}

\* A server runs only under a process that has come up.  What is being cloned is
\* empty, a rewind copies only within the budget, and a copy of a leader is
\* marked as a standby's.
DirInv ==
  /\ ProvType
  /\ at # "run" => server = "down"
  /\ at \in {"join", "refill", "reclone"} => dir = Nothing
  /\ at = "copy" => ~Excess(dir)
  /\ Intact(dir) /\ dir.copy => dir.signal
  /\ server = "primary" => ~dir.copy

\* What DataIsKept says of one step.
KeepsData ==
  /\ GivenUp /\ at # "copy" => leader.lineage \in {"ours", dir.lineage}
  /\ at' = "copy" /\ at # "copy" => dir.lineage = leader.lineage
  /\ Excess(dir) /\ ~Excess(dir') =>
       \/ at = "run" /\ server = "down"
       \/ at = "rewind" /\ former = "standby" /\ faults' # faults
       \/ at = "fresh"
  /\ server' = "primary" => ~dir'.copy

\* Only the committed lineage is cloned from, and that is the cluster's.
LEMMA ClonesOfOurs ==
  ASSUME DirInv, ServesClusterLineage(leader.lineage)
  PROVE  leader.lineage = "ours"
  BY DEF DirInv, ProvType, ServesClusterLineage

\* A data directory that is empty, written into, or copied from the leader.
LEMMA DataDirsTyped ==
  ASSUME leader \in [up : BOOLEAN, lineage : Lineages]
  PROVE  Nothing \in AnyDir /\ Debris \in AnyDir /\ Copied \in AnyDir
  BY DEF Nothing, Debris, Copied, AnyDir, Lineages

\* Coming up: the join and the start.
LEMMA JoinKeepsData ==
  ASSUME DirInv, Start \/ Resume \/ FreshJoin \/ JoinClone \/ JoinCloneFails
  PROVE  DirInv' /\ KeepsData
<1> USE DataDirsTyped DEF DirInv, ProvType, World, KeepsData, GivenUp, Excess, Intact
<1>1. CASE Start
  BY <1>1 DEF Start, AnyDir
<1>2. CASE Resume
  BY <1>2 DEF Resume, HasVersion, NoFault, AnyDir, Nothing
<1>3. CASE FreshJoin
  BY <1>3 DEF FreshJoin, HasVersion, MayClear, CloneSupersedesLocalData, AnswersIdentity, AnyDir, Nothing
<1>4. CASE JoinClone
  BY <1>4 DEF JoinClone, Prepared, Copied, Nothing, AnyDir
<1>5. CASE JoinCloneFails
  BY <1>5 DEF JoinCloneFails, Nothing, AnyDir
<1> QED BY <1>1, <1>2, <1>3, <1>4, <1>5

\* The start opens the directory it finds, or makes a new one.
LEMMA BootKeepsData ==
  ASSUME DirInv, Boot
  PROVE  DirInv' /\ KeepsData
<1> USE DataDirsTyped DEF DirInv, ProvType, World, KeepsData, GivenUp, Excess, Intact, Boot, HasVersion
<1>1. CASE BootStandby
  BY <1>1 DEF BootStandby, AnyDir
<1>2. CASE BootPrimary
  BY <1>2 DEF BootPrimary, AnyDir
<1>3. CASE BootEmpty
  BY <1>3 DEF BootEmpty, AnyDir, Nothing, Lineages
<1> QED BY <1>1, <1>2, <1>3

\* A standby that is given up for a clone, in any of the ways that lead there.
LEMMA ReprovisionKeeps ==
  ASSUME DirInv, NEW d \in AnyDir, Reprovision(d),
         Intact(d) /\ d.copy => d.signal,
         Intact(dir) /\ at # "copy" => Intact(d) /\ d.lineage = dir.lineage,
         UNCHANGED World
  PROVE  /\ DirInv'
         /\ GivenUp /\ at # "copy" => leader.lineage \in {"ours", dir.lineage}
         /\ server' = "down" /\ at' # "copy"
         /\ dir' = d \/ leader.lineage = "ours"
<1> USE DataDirsTyped DEF DirInv, ProvType, World, Excess, Intact, GivenUp
<1>1. CASE leader.up /\ ServesClusterLineage(leader.lineage)
  BY <1>1, ClonesOfOurs DEF Reprovision, Nothing, AnyDir
<1>2. CASE ~(leader.up /\ ServesClusterLineage(leader.lineage))
  BY <1>2 DEF Reprovision
<1> QED BY <1>1, <1>2

\* Coming back to follow the leader.
LEMMA PassKeepsData ==
  ASSUME DirInv, RestartOrRepair \/ RepointStandby \/ DemotePrimary
  PROVE  DirInv' /\ KeepsData
<1> USE DEF DirInv, ProvType, KeepsData
<1>1. CASE RestartOrRepair
  <2> DEFINE d == IF dir.has = "none" THEN Debris ELSE dir
  <2>1. /\ at = "run" /\ server = "down" /\ UNCHANGED World
        /\ \/ Intact(d) /\ server' = RoleOpened(d) /\ UNCHANGED <<dir, at>>
           \/ Reprovision(d)
    BY <1>1 DEF RestartOrRepair, Passes
  <2>2. /\ d \in AnyDir /\ (Intact(d) /\ d.copy => d.signal)
        /\ Intact(dir) => d = dir
        /\ Intact(d) => d = dir
    BY DataDirsTyped DEF Debris, Nothing, Intact
  <2>3. CASE Intact(d) /\ server' = RoleOpened(d) /\ UNCHANGED <<dir, at>>
    BY <2>1, <2>2, <2>3 DEF World, RoleOpened, Excess, GivenUp
  <2> HIDE DEF d
  <2>4. CASE Reprovision(d)
    BY <2>1, <2>2, <2>4, ReprovisionKeeps
  <2> QED BY <2>1, <2>3, <2>4
<1>2. CASE RepointStandby
  <2>1. at = "run" /\ server = "standby" /\ UNCHANGED World
    BY <1>2 DEF RepointStandby, Passes
  <2>2. PICK timeline \in TimelineChecks :
          CASE StandbyAction(timeline) = "Repoint" -> UNCHANGED <<dir, server, at>>
            [] StandbyAction(timeline) = "Rewind" ->
                 server' = "down" /\ at' = "rewind" /\ UNCHANGED dir
            [] StandbyAction(timeline) = "Reprovision" -> Reprovision(dir)
            [] OTHER -> FALSE
    BY <1>2 DEF RepointStandby
  <2>3. CASE UNCHANGED <<dir, server, at>>
    BY <2>1, <2>3 DEF World, Excess, GivenUp
  <2>4. CASE server' = "down" /\ at' = "rewind" /\ UNCHANGED dir
    BY <2>1, <2>4 DEF World, Excess, GivenUp
  <2>5. CASE StandbyAction(timeline) = "Reprovision" /\ Reprovision(dir)
    <3>1. ~Excess(dir)
      BY <2>5 DEF StandbyAction, StreamingGapAction, LocalAhead, Excess
    <3> QED BY <2>1, <2>5, <3>1, ReprovisionKeeps
  <2> QED BY <2>2, <2>3, <2>4, <2>5
<1>3. CASE DemotePrimary
  BY <1>3 DEF DemotePrimary, Passes, World, Excess, GivenUp
<1> QED BY <1>1, <1>2, <1>3

\* A rewind that gave up before it copied.
LEMMA RestartKeepsData ==
  ASSUME DirInv, at \in {"rewind", "copy"}, RestartInPlace, UNCHANGED World
  PROVE  DirInv' /\ KeepsData
<1> DEFINE marked == [dir EXCEPT !.signal = TRUE]
<1>1. /\ marked \in AnyDir /\ marked.signal /\ marked.has = dir.has
      /\ marked.lineage = dir.lineage /\ marked.wal = dir.wal /\ marked.copy = dir.copy
  BY DEF DirInv, ProvType, AnyDir
<1> HIDE DEF marked
<1>2. CASE at' = "run" /\ server' \in {"down", "standby"} /\ dir' \in {marked, dir}
  <2>1. DirInv'
    BY <1>1, <1>2 DEF DirInv, ProvType, World, Intact
  <2> QED BY <1>1, <1>2, <2>1 DEF DirInv, ProvType, World, KeepsData, GivenUp, Excess, Intact
<1>3. CASE former = "standby" /\ faults' # faults /\ Reprovision(marked)
  <2>1. /\ DirInv' /\ server' = "down" /\ at' # "copy"
        /\ GivenUp /\ at # "copy" => leader.lineage \in {"ours", dir.lineage}
    BY <1>1, <1>3, ReprovisionKeeps DEF Intact
  <2>2. at = "copy" => ~Excess(dir)
    BY DEF DirInv
  <2> QED BY <1>3, <2>1, <2>2 DEF KeepsData
<1> QED BY <1>2, <1>3 DEF RestartInPlace, marked

\* A rewind or a clone that ended well starts the standby.
LEMMA RewoundKeepsData ==
  ASSUME DirInv, NEW d \in AnyDir, StartRewound(d), UNCHANGED World,
         Intact(dir) => Intact(d) /\ d.lineage = dir.lineage /\ (d.wal = dir.wal \/ ~Excess(dir))
  PROVE  DirInv' /\ KeepsData
<1>1. dir' \in AnyDir /\ dir'.signal /\ server' = "standby" /\ at' = "run"
  BY DEF StartRewound, Rewound, RoleOpened, AnyDir
<1>2. dir'.has = d.has /\ dir'.lineage = d.lineage /\ dir'.wal = d.wal
  BY DEF StartRewound, Rewound, AnyDir
<1>3. DirInv'
  BY <1>1 DEF DirInv, ProvType, World
<1>4. KeepsData
  BY <1>1, <1>2 DEF KeepsData, GivenUp, Excess, Intact, World
<1> QED BY <1>3, <1>4

\* The rewind, its copy and the clone that replaces it.
LEMMA RewindKeepsData ==
  ASSUME DirInv, "dry run hangs" \notin Unrepaired, Rewind \/ Copy \/ Reclone
  PROVE  DirInv' /\ KeepsData
<1>1. CASE Rewind
  <2>1. at = "rewind" /\ UNCHANGED World
    BY <1>1 DEF Rewind
  <2>2. CASE Recover("untouched", dir)
    BY <2>1, <2>2, RestartKeepsData DEF Recover, RewindRecovery
  <2>3. ASSUME NEW o \in RewindOutcomes,
               CASE o = "copy" -> at' = "copy" /\ UNCHANGED <<dir, server, pointed>>
                 [] o = "nothing" -> StartRewound(dir)
                 [] OTHER -> Recover(o, dir)
        PROVE  DirInv' /\ KeepsData
    <3>1. CASE o = "copy"
      <4>1. ~Excess(dir) /\ dir.lineage = leader.lineage
        BY <3>1 DEF RewindOutcomes, Excess
      <4> QED BY <2>1, <2>3, <3>1, <4>1 DEF DirInv, ProvType, World, KeepsData, GivenUp, Excess
    <3>2. CASE o = "nothing"
      BY <2>1, <2>3, <3>2, RewoundKeepsData DEF DirInv, ProvType
    <3>3. CASE o \in {"untouched", "refused"}
      BY <2>1, <2>3, <3>3, RestartKeepsData DEF Recover, RewindRecovery
    <3>4. CASE o = "foreign"
      <4>1. Reprovision(dir)
        BY <2>3, <3>4 DEF Recover, RewindRecovery
      <4>2. leader.lineage # dir.lineage
        BY <3>4 DEF RewindOutcomes
      <4> QED BY <2>1, <4>1, <4>2, ReprovisionKeeps DEF DirInv, ProvType, KeepsData, Excess, World
    <3> QED BY <3>1, <3>2, <3>3, <3>4 DEF RewindOutcomes
  <2> QED BY <1>1, <2>2, <2>3 DEF Rewind
<1>2. CASE Copy
  <2>1. at = "copy" /\ UNCHANGED World /\ ~Excess(dir)
    BY <1>2 DEF Copy, DirInv
  <2>2. CASE leader.up /\ dir.lineage = leader.lineage /\ StartRewound(Copied)
    BY <2>1, <2>2, DataDirsTyped, RewoundKeepsData DEF DirInv, ProvType, Copied, Intact
  <2>3. CASE Recover("untouched", dir)
    BY <2>1, <2>3, RestartKeepsData DEF Recover, RewindRecovery
  <2>4. ASSUME NEW d \in HalfRewound(dir), Recover("compromised", d) PROVE DirInv' /\ KeepsData
    <3>1. Reprovision(d)
      BY <2>4 DEF Recover, RewindRecovery
    <3>2. d \in AnyDir /\ (Intact(d) /\ d.copy => d.signal)
      <4>1. CASE d = dir
        BY <4>1 DEF DirInv, ProvType
      <4>2. CASE d # dir
        <5>1. PICK s \in {FALSE, dir.signal} : d = [dir EXCEPT !.has = "torn", !.signal = s]
          BY <4>2 DEF HalfRewound
        <5> QED BY <5>1 DEF DirInv, ProvType, AnyDir, Intact
      <4> QED BY <4>1, <4>2
    <3>3. DirInv' /\ server' = "down" /\ at' # "copy"
      BY <2>1, <3>1, <3>2, ReprovisionKeeps
    <3> QED BY <2>1, <3>3 DEF KeepsData
  <2> QED BY <1>2, <2>2, <2>3, <2>4 DEF Copy
<1>3. CASE Reclone
  <2>1. at = "reclone" /\ UNCHANGED World /\ dir = Nothing /\ server = "down"
    BY <1>3 DEF Reclone, DirInv
  <2>2. ~Intact(dir) /\ ~Excess(dir)
    BY <2>1 DEF Nothing, Intact, Excess
  <2>3. CASE StartRewound(Copied)
    BY <2>1, <2>2, <2>3, DataDirsTyped, RewoundKeepsData DEF DirInv, ProvType
  <2>4. CASE dir' = Nothing /\ at' = "run" /\ UNCHANGED server
    BY <2>1, <2>2, <2>4 DEF DirInv, ProvType, World, KeepsData, GivenUp, Nothing
  <2> QED BY <1>3, <2>3, <2>4 DEF Reclone
<1> QED BY <1>1, <1>2, <1>3

\* The world around the node.
LEMMA WorldKeepsData ==
  ASSUME DirInv, "crash in copy" \notin Unrepaired,
         \/ Crash \/ LeaderFails \/ LeaderMoves \/ LeaderHeals \/ CommitLineage \/ Reigned \/ Removed
  PROVE  DirInv' /\ KeepsData
<1>1. CASE Crash
  <2>1. dir' = dir
    BY <1>1 DEF Crash, Copying, Partial
  <2> QED BY <1>1, <2>1 DEF Crash, World, DirInv, ProvType, KeepsData, GivenUp, Excess
<1>2. CASE LeaderFails \/ LeaderHeals \/ CommitLineage
  <2>1. /\ UNCHANGED <<dir, server, at, budget>>
        /\ leader' \in [up : BOOLEAN, lineage : Lineages] /\ term' \in {"none", "ours"}
    <3>1. CASE LeaderFails
      BY <3>1 DEF LeaderFails, DirInv, ProvType
    <3>2. CASE LeaderHeals
      <4>1. [up |-> TRUE, lineage |-> "ours"] \in [up : BOOLEAN, lineage : Lineages]
        BY DEF Lineages
      <4> QED BY <3>2, <4>1 DEF LeaderHeals, DirInv, ProvType
    <3>3. CASE CommitLineage
      BY <3>3 DEF CommitLineage, DirInv, ProvType
    <3> QED BY <1>2, <3>1, <3>2, <3>3
  <2> QED BY <2>1 DEF DirInv, ProvType, KeepsData, GivenUp, Excess
<1>3. CASE LeaderMoves
  <2>1. /\ UNCHANGED <<server, at, World>> /\ Intact(dir) /\ dir.wal = "behind" /\ ~Copying
        /\ \E w \in {"behind", "hole", "ahead"} : dir' = [dir EXCEPT !.wal = w]
    BY <1>3 DEF LeaderMoves
  <2>2. /\ dir' \in AnyDir /\ dir'.has = dir.has /\ dir'.lineage = dir.lineage
        /\ dir'.copy = dir.copy /\ dir'.signal = dir.signal
    BY <2>1 DEF AnyDir, DirInv, ProvType
  <2> QED BY <2>1, <2>2 DEF DirInv, ProvType, KeepsData, GivenUp, Excess, Intact, Copying, World
<1>4. CASE Reigned
  <2>1. /\ UNCHANGED <<at, World>> /\ at = "run" /\ dir.wal = "behind" /\ server' = "primary"
        /\ \E w \in {"behind", "ahead", "far"} :
             dir' = [dir EXCEPT !.signal = FALSE, !.copy = FALSE, !.wal = w]
    BY <1>4 DEF Reigned, Following
  <2>2. /\ dir' \in AnyDir /\ dir'.has = dir.has /\ dir'.lineage = dir.lineage /\ ~dir'.copy
    BY <2>1 DEF AnyDir, DirInv, ProvType
  <2> QED BY <2>1, <2>2 DEF DirInv, ProvType, KeepsData, GivenUp, Excess, Intact, World
<1>5. CASE Removed
  BY <1>5 DEF Removed, World, DirInv, ProvType, KeepsData, GivenUp, Excess
<1> QED BY <1>1, <1>2, <1>3, <1>4, <1>5

(***************************************************************************)
(* A node's data is given up only for a source of its own lineage or of    *)
(* the cluster's, WAL past the rewind budget waits for an operator, and a  *)
(* copy of a leader opens as its standby, for any number of join attempts, *)
(* failures and restarts (ensure_join_data_dir_ready, rewind_onto_leader,  *)
(* reprovision_from), unless a crash falls into a copy, or onto the half   *)
(* rewound directory one left, or pg_rewind's dry run hangs.               *)
(***************************************************************************)
THEOREM DataStays ==
  ASSUME Unrepaired \cap {"crash in copy", "dry run hangs"} = {}
  PROVE  ProvSpec => DataIsKept
<1>1. ProvInit => DirInv
  <2> SUFFICES ASSUME ProvInit PROVE DirInv
    OBVIOUS
  <2>1. dir \in AnyDir /\ ~dir.copy
    <3> DEFINE Torn == [has |-> "torn", lineage |-> "ours", wal |-> "behind", signal |-> TRUE,
                        copy |-> FALSE]
               Foreign == [has |-> "whole", lineage |-> "other", wal |-> "behind",
                           signal |-> FALSE, copy |-> FALSE]
    <3>1. Nothing \in AnyDir /\ ~Nothing.copy
      BY DEF AnyDir, Nothing
    <3>2. Debris \in AnyDir /\ ~Debris.copy
      BY DEF AnyDir, Nothing, Debris
    <3>3. Torn \in AnyDir /\ ~Torn.copy /\ Foreign \in AnyDir /\ ~Foreign.copy
      BY DEF AnyDir, Lineages
    <3>4. ASSUME NEW d \in [has : {"whole"}, lineage : {"ours"},
                            wal : {"behind", "hole", "ahead", "far"},
                            signal : BOOLEAN, copy : {FALSE}]
          PROVE  d \in AnyDir /\ ~d.copy
      BY DEF AnyDir, Lineages
    <3>5. \/ dir \in {Nothing, Debris, Torn, Foreign}
          \/ dir \in [has : {"whole"}, lineage : {"ours"},
                      wal : {"behind", "hole", "ahead", "far"}, signal : BOOLEAN, copy : {FALSE}]
      BY Zenon DEF ProvInit, StoredDirs
    <3> HIDE DEF Torn, Foreign
    <3> QED BY <3>1, <3>2, <3>3, <3>4, <3>5
  <2> QED BY <2>1 DEF ProvInit, DirInv, ProvType
<1>2. DirInv /\ [ProvNext]_provVars => DirInv' /\ [KeepsData]_provVars
  <2> SUFFICES ASSUME DirInv, [ProvNext]_provVars PROVE DirInv' /\ [KeepsData]_provVars
    OBVIOUS
  <2>1. CASE ProvNext
    <3>1. DirInv' /\ KeepsData
      BY <2>1, JoinKeepsData, BootKeepsData, PassKeepsData, RewindKeepsData, WorldKeepsData
         DEF ProvNext, NodeStep
    <3> QED BY <3>1
  <2>2. CASE UNCHANGED provVars
    BY <2>2 DEF provVars, DirInv, ProvType, Excess
  <2> QED BY <2>1, <2>2
<1>3. DataIsKept <=> [][KeepsData]_provVars
  BY DEF DataIsKept, KeepsData
<1> QED BY <1>1, <1>2, <1>3, PTL DEF ProvSpec


=============================================================================
