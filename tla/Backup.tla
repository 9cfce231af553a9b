------------------------------- MODULE Backup -------------------------------
(***************************************************************************)
(* Backups and full restores on one node: BackupManager, the management    *)
(* API's handlers, the supervisor lock they share with the reconciler, and *)
(* the recovery of an interrupted restore when the process starts.         *)
(*                                                                         *)
(* File work runs on a blocking thread.  A handler's future is dropped     *)
(* when its HTTP client disconnects: the locks go with it, the thread and  *)
(* what it has still to copy do not.                                       *)
(***************************************************************************)
EXTENDS Integers, Sequences, FiniteSets, FiniteSetsExt, SequencesExt

CONSTANTS
  Retention,   \* retention_count
  MaxBackups,  \* bound: backups asked for
  MaxRestores, \* bound: full restores asked for
  MaxCrashes   \* bound: process crashes and client disconnects

ASSUME BackupAssumption ==
  /\ Retention \in Nat \ {0}
  /\ MaxBackups \in Nat /\ MaxRestores \in Nat /\ MaxCrashes \in Nat

VARIABLES
  store,     \* the backup directory: [type, time, whole]
  making,    \* the backup being made, as a set of at most one
  completed, \* types of which some backup was ever reported successful
  task,      \* the restore handler: "none", "asked" or "waits" for its thread
  thread,    \* the blocking thread: [op, left]
  data,      \* PGDATA: where each part came from
  unsynced,  \* its parts not fsynced yet
  staged,    \* pre-restore staging directories, oldest first
  slock,     \* who holds the supervisor lock: "free", "restore" or "pass"
  postgres,  \* PostgreSQL runs on PGDATA
  process,   \* the pgbattery process runs
  leading,   \* Raft metrics name this node the leader
  cut,       \* a client disconnected in the middle of a restore
  askedBackups,     \* backups asked for: their timestamps
  restores,
  mishaps

backupVars == <<store, making, completed, task, thread, data, unsynced, staged, slock,
                postgres, process, leading, cut, askedBackups, restores, mishaps>>

storeVars == <<store, making, completed, askedBackups>>
fileVars == <<data, unsynced, staged>>
handlerVars == <<task, thread, slock, cut, restores>>
processVars == <<postgres, process, leading, mishaps>>

Types == {"full", "dump"}
Parts == {"version", "control", "rest"}
Absent == [p \in Parts |-> "none"]
From(origin) == [p \in Parts |-> origin]
Remnant == [Absent EXCEPT !["version"] = "own"]
Idle == [op |-> "none", left |-> {}]

OneOrigin(d) == Cardinality(Range(d) \ {"none"}) <= 1
Whole(d) == "none" \notin Range(d) /\ OneOrigin(d)

LooksValid(d) == d["version"] # "none" /\ d["control"] # "none"   \* pgdata_looks_valid

Mishap == mishaps < MaxCrashes /\ mishaps' = mishaps + 1

BackupLocked == making # {} \/ task # "none"     \* backup_lock, taken with try_lock

-----------------------------------------------------------------------------
(* Making a backup, and rotation. *)

\* Faulty: both types counted together.
RotationVictimsAnyType(s) ==
  {b \in s : Cardinality({c \in s : c.time > b.time}) >= Retention}

\* select_rotation_victims: beyond the newest Retention of its own type.
RotationVictims(s) ==
  {b \in s : Cardinality({c \in s : c.type = b.type /\ c.time > b.time}) >= Retention}

AskBackup(t) ==
  /\ process /\ postgres /\ ~BackupLocked /\ askedBackups < MaxBackups
  /\ askedBackups' = askedBackups + 1
  /\ making' = {[type |-> t, time |-> askedBackups + 1, whole |-> FALSE]}
  /\ store' = store \union making'
  /\ UNCHANGED <<completed, fileVars, handlerVars, processVars>>

\* The backup is verified and fsynced, then older ones are rotated out: each
\* deletion may fail, which is only logged.
FinishBackup ==
  \E b \in making :
    LET made == (store \ {b}) \union {[b EXCEPT !.whole = TRUE]}
    IN /\ completed' = completed \union {b.type}
       /\ \E deleted \in SUBSET RotationVictims(made) : store' = made \ deleted
       /\ making' = {}
       /\ UNCHANGED <<askedBackups, fileVars, handlerVars, processVars>>

\* pg_basebackup, its verification or pg_dumpall fails or runs out of time.  A
\* pg_dumpall that exits with an error leaves its uncompressed file behind.
FailBackup ==
  \E b \in making :
    /\ store' \in {store \ {b}} \union (IF b.type = "dump" THEN {store} ELSE {})
    /\ making' = {}
    /\ UNCHANGED <<completed, askedBackups, fileVars, handlerVars, processVars>>

-----------------------------------------------------------------------------
(* Restoring a full backup. *)

\* restore_backup, resolve_restore.  The operator names a backup that was
\* reported successful: nothing in a restore tells a partial one apart.
AskRestore ==
  /\ process /\ ~BackupLocked /\ ~leading /\ thread = Idle
  /\ restores < MaxRestores /\ restores' = restores + 1
  /\ \E b \in store : b.type = "full" /\ b.whole
  /\ task' = "asked"
  /\ UNCHANGED <<storeVars, fileVars, thread, slock, cut, processVars>>

\* Faulty: the supervisor lock is dropped before the copy.
BeginRestoreUnlocked ==
  /\ task = "asked" /\ slock = "free" /\ ~leading
  /\ slock' = "free" /\ task' = "waits"
  /\ postgres' = FALSE
  /\ staged' = IF data = Absent THEN staged ELSE Append(staged, data)
  /\ data' = Absent /\ unsynced' = {}
  /\ thread' = [op |-> "copy", left |-> Parts]
  /\ UNCHANGED <<storeVars, cut, restores, process, leading, mishaps>>

\* execute_full_restore under the supervisor lock: the leadership is asked for
\* again, PostgreSQL stopped, PGDATA renamed aside and the copy begun.
BeginRestore ==
  /\ task = "asked" /\ slock = "free" /\ ~leading
  /\ slock' = "restore" /\ task' = "waits"
  /\ postgres' = FALSE
  /\ staged' = IF data = Absent THEN staged ELSE Append(staged, data)
  /\ data' = Absent /\ unsynced' = {}
  /\ thread' = [op |-> "copy", left |-> Parts]
  /\ UNCHANGED <<storeVars, cut, restores, process, leading, mishaps>>

\* It leads by now, or PostgreSQL does not stop.
RefuseRestore ==
  /\ task = "asked" /\ slock = "free"
  /\ task' = "none"
  /\ UNCHANGED <<storeVars, fileVars, thread, slock, cut, restores, processVars>>

\* copy_directory_contents walks in directory order, so any part may come next.
CopyPart ==
  /\ thread.op = "copy"
  /\ \E p \in thread.left :
       /\ data' = [data EXCEPT ![p] = "backup"]
       /\ unsynced' = unsynced \union {p}
       /\ thread' = [thread EXCEPT !.left = @ \ {p}]
  /\ UNCHANGED <<storeVars, staged, task, slock, cut, restores, processVars>>

\* Faulty: the copy is not fsynced before the staged directory goes.
FinalizeUnsynced ==
  /\ thread.op = "copy" /\ thread.left = {}
  /\ thread' = IF task = "waits" THEN [op |-> "cleanup", left |-> {}] ELSE Idle
  /\ UNCHANGED <<storeVars, data, unsynced, staged, task, slock, cut, restores, processVars>>

\* finalize_restored_data_dir: only then may the staged directory go.
FinalizeRestored ==
  /\ thread.op = "copy" /\ thread.left = {}
  /\ unsynced' = {}
  /\ thread' = IF task = "waits" THEN [op |-> "cleanup", left |-> {}] ELSE Idle
  /\ UNCHANGED <<storeVars, data, staged, task, slock, cut, restores, processVars>>

\* The handler's last steps, with or without its staged directory gone:
\* standby.signal, start, and both locks released.
EndRestore ==
  /\ postgres' = (task = "waits" /\ LooksValid(data'))
  /\ task' = "none" /\ slock' = IF task = "waits" THEN "free" ELSE slock
  /\ thread' = Idle
  /\ UNCHANGED <<storeVars, cut, restores, process, leading, mishaps>>

\* remove_staged_pre_restore: a failure leaves it, or some of it, and is only
\* logged.
RemoveStaged ==
  /\ thread.op = "cleanup" /\ task = "waits"
  /\ IF staged = <<>> THEN UNCHANGED staged
     ELSE staged' \in {staged, Front(staged), Append(Front(staged), Remnant)}
  /\ UNCHANGED <<data, unsynced>>
  /\ EndRestore

\* The copy, the mode or the sync of the restored directory fails:
\* rollback_failed_restore removes what was copied first.
CopyFails ==
  /\ thread.op = "copy"
  /\ thread' = IF task = "waits" THEN [op |-> "undo", left |-> {}] ELSE Idle
  /\ IF task = "waits" THEN data' = Absent /\ unsynced' = {} ELSE UNCHANGED <<data, unsynced>>
  /\ UNCHANGED <<storeVars, staged, task, slock, cut, restores, processVars>>

RollBack ==
  /\ thread.op = "undo" /\ task = "waits"
  /\ IF staged = <<>> THEN UNCHANGED <<data, staged>>
                      ELSE data' = Last(staged) /\ staged' = Front(staged)
  /\ UNCHANGED unsynced
  /\ EndRestore

\* The thread of a handler that is gone: what it began still happens.
DetachedEnds ==
  /\ task = "none"
  /\ \/ /\ thread.op = "cleanup" /\ staged # <<>>
        /\ staged' = Front(staged) /\ UNCHANGED data
     \/ /\ thread.op = "undo" /\ staged # <<>> /\ data = Absent
        /\ data' = Last(staged) /\ staged' = Front(staged)
     \/ /\ thread.op \in {"cleanup", "undo"}        \* it fails: the staging stays
        /\ UNCHANGED <<data, staged>>
  /\ thread' = Idle
  /\ UNCHANGED <<storeVars, unsynced, task, slock, cut, restores, processVars>>

\* The HTTP client disconnects: pg_basebackup is killed, a thread is not.
Disconnect ==
  /\ BackupLocked /\ Mishap
  /\ making' = {} /\ task' = "none"
  /\ cut' = (cut \/ task = "waits")
  /\ slock' = IF task = "waits" THEN "free" ELSE slock
  /\ UNCHANGED <<store, completed, askedBackups, fileVars, thread, restores,
                 postgres, process, leading>>

-----------------------------------------------------------------------------
(* The reconciler's pass over a stopped server, the process, and Raft. *)

RestorePassStarts ==
  /\ process /\ slock = "free" /\ ~postgres /\ Whole(data)
  /\ postgres' = TRUE
  /\ UNCHANGED <<storeVars, fileVars, handlerVars, process, leading, mishaps>>

\* A standby that will not start on what is there is cloned anew.
PassClears ==
  /\ process /\ slock = "free" /\ ~postgres /\ ~leading /\ ~Whole(data)
  /\ slock' = "pass"
  /\ data' = Absent /\ unsynced' = {}
  /\ UNCHANGED <<storeVars, staged, task, thread, cut, restores, processVars>>

PassClones ==
  /\ slock = "pass"
  /\ slock' = "free"
  /\ data' = From("clone") /\ unsynced' = {} /\ postgres' = TRUE
  /\ UNCHANGED <<storeVars, staged, task, thread, cut, restores, process, leading, mishaps>>

\* The process dies, with the machine or without it: parts of PGDATA that were
\* not fsynced may be gone.
ProcessDies ==
  /\ process /\ Mishap
  /\ process' = FALSE /\ postgres' = FALSE
  /\ making' = {} /\ task' = "none" /\ thread' = Idle /\ slock' = "free"
  /\ \E lost \in SUBSET unsynced :
       data' = [p \in Parts |-> IF p \in lost THEN "none" ELSE data[p]]
  /\ unsynced' = {}
  /\ UNCHANGED <<store, completed, askedBackups, staged, cut, restores, leading>>

\* recover_interrupted_restore at start: the newest staging comes back unless
\* PGDATA looks valid, which is then started as it is.
ProcessStarts ==
  /\ ~process /\ process' = TRUE
  /\ IF staged # <<>> /\ ~LooksValid(data)
     THEN data' = Last(staged) /\ staged' = Front(staged)
     ELSE UNCHANGED <<data, staged>>
  /\ postgres' = LooksValid(data')
  /\ UNCHANGED <<storeVars, unsynced, handlerVars, leading, mishaps>>

RestoreLeaderMoves ==
  /\ leading' = ~leading
  /\ UNCHANGED <<storeVars, fileVars, handlerVars, postgres, process, mishaps>>

-----------------------------------------------------------------------------
BackupInit ==
  /\ store = {} /\ making = {} /\ completed = {} /\ askedBackups = 0
  /\ task = "none" /\ thread = Idle /\ slock = "free" /\ cut = FALSE /\ restores = 0
  /\ data = From("own") /\ unsynced = {} /\ staged = <<>>
  /\ postgres = TRUE /\ process = TRUE /\ leading = FALSE /\ mishaps = 0

BackupNext ==
  \/ \E t \in Types : AskBackup(t)
  \/ FinishBackup \/ FailBackup
  \/ AskRestore \/ BeginRestore \/ RefuseRestore
  \/ CopyPart \/ FinalizeRestored \/ RemoveStaged \/ CopyFails \/ RollBack
  \/ DetachedEnds \/ Disconnect
  \/ RestorePassStarts \/ PassClears \/ PassClones
  \/ ProcessDies \/ ProcessStarts \/ RestoreLeaderMoves

BackupSpec == BackupInit /\ [][BackupNext]_backupVars

-----------------------------------------------------------------------------
\* Once a backup of a type was reported successful, a whole one of that type
\* stays, unless Retention files that killed or failed attempts left behind stand
\* in its place: backups of the other type, made and rotated in any order, never
\* push the last one out (rotate_backups_in).
GoodBackupKept ==
  \A t \in completed :
    LET ofType == {b \in store : b.type = t}
    IN (\E b \in ofType : b.whole) \/ Cardinality(ofType) >= Retention

\* A restore never leaves the node without one whole data directory, in PGDATA or
\* staged beside it, through any crash, failed copy, lost page, disconnected
\* client and re-clone (execute_full_restore, recover_interrupted_restore).
OldDataSurvives == Whole(data) \/ \E i \in DOMAIN staged : Whole(staged[i])

\* While no client disconnected in the middle of a restore, PostgreSQL never runs
\* on files of two origins: the supervisor lock keeps the reconciler's start and
\* re-clone away from a directory that is still being copied into.
RunsOnOneOrigin == postgres /\ ~cut => OneOrigin(data)

=============================================================================
