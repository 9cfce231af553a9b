----------------------------- MODULE NodeProcess -----------------------------
(***************************************************************************)
(* One node's process and its PostgreSQL: the start that fences on disk    *)
(* before it spawns, the lease fence loop with its failure threshold, the  *)
(* reconciler's liveness checks, the shutdown, a killed process and the    *)
(* orphaned server it leaves, and the restart by the process supervisor    *)
(* (governor/fence.rs, supervisor process/postmaster.rs and session.rs,    *)
(* app.rs).                                                                *)
(*                                                                         *)
(* The fence and the opener each work over an SQL connection of their own, *)
(* so a close and an open interleave statement by statement.  Role changes *)
(* other than a promotion are not modelled here.                           *)
(***************************************************************************)
EXTENDS Integers

CONSTANTS
  FenceThreshold,   \* FENCE_FAILURE_SHUTDOWN_THRESHOLD
  ProbeThreshold,   \* PG_PROBE_FAILURE_THRESHOLD
  MaxProcFaults,        \* bound: kills, server crashes, hangs and failed starts
  MaxLeases         \* bound: leases granted

ASSUME NodeProcessAssumption ==
  /\ FenceThreshold \in Nat \ {0} /\ ProbeThreshold \in Nat \ {0}
  /\ MaxProcFaults \in Nat /\ MaxLeases \in Nat

VARIABLES
  proc,     \* the pgbattery process: down, run, or end once shutdown is signalled
  leased,   \* LeaseState::is_valid
  srv,      \* the postmaster on the data directory, as the system sees it
  conf,     \* the read-only default that postgresql.auto.conf holds
  pid,      \* what postmaster.pid names: none, a live process, or a zombie
  child,    \* Supervisor.child: none, run, or gone (exited and not reaped)
  exited,   \* Supervisor.exited: the reaped exit every poll still reads
  fence,    \* where the fence tick is: idle, close, reload
  failures, \* consecutive closes that failed
  opening,  \* where the reconciler's open is: none, alter, reload
  probes,   \* consecutive liveness probes that failed
  bypass,   \* a client session writes past the read-only default
  opened,   \* this server was opened by the write gate since it started
  procFaults, leases

procVars == <<proc, leased, srv, conf, pid, child, exited, fence, failures,
              opening, probes, bypass, opened, procFaults, leases>>

-----------------------------------------------------------------------------
(***************************************************************************)
(* What the loops read.                                                    *)
(***************************************************************************)

Down == [up |-> FALSE, own |-> FALSE, hung |-> FALSE, recovery |-> FALSE, live |-> TRUE]

\* ReadOnlyGuc::settled
SettledTo(readOnly) == srv.live = readOnly /\ conf = readOnly

\* PgWriteState::client_writable: writable now or after anyone's next reload.
ClientWritable == ~srv.recovery /\ ~SettledTo(TRUE)

\* Client transactions commit on this server.
Exposed == srv.up /\ ~srv.recovery /\ (~srv.live \/ bypass)

\* Faulty variant: an unreadable write state is taken as fenced.
FenceActionOpen(valid, writable, recovery) ==
  IF valid THEN "none"
  ELSE IF writable = "yes" THEN "close"
  ELSE IF recovery = "no" THEN "terminate" ELSE "none"

\* action: what one tick does; a write state the probe could not read is closed.
FenceAction(valid, writable, recovery) ==
  IF valid THEN "none"
  ELSE IF writable # "no" THEN "close"
  ELSE IF recovery = "no" THEN "terminate" ELSE "none"

\* A session that queries this server gets an answer only if it serves; one
\* that answers may also refuse (no connection slot, an SQL error).  A driver
\* error that is not the server's reads as a server that is not ready, so a
\* connection that breaks twice over a live server does too (classify, run).  A
\* connection to a hung one is waited for longer than the tick's budget.
Answers ==
  IF ~srv.up THEN {"notready"}
  ELSE IF srv.hung THEN {"late"}
  ELSE {"ok", "error"} \cup (IF procFaults < MaxProcFaults THEN {"notready"} ELSE {})

\* A live server behind connections that broke is one of the faults counted.
CountBroken(a) == procFaults' = IF srv.up /\ a = "notready" THEN procFaults + 1 ELSE procFaults

-----------------------------------------------------------------------------
(***************************************************************************)
(* Supervisor::start.                                                      *)
(***************************************************************************)

\* postmaster_pid_is_stale: only what is positively dead.
PidIsStale(p) == p = "zombie"

\* Faulty variant: the pid file of a zombie is kept.
KeepStale(p) == p

\* cleanup_stale_postgres: a pid file whose process is positively dead goes; one
\* that names a live server stays, and PostgreSQL's own lock arbitrates.
CleanupStale(p) == IF PidIsStale(p) THEN "none" ELSE p

\* fence_writes_at_start: the read-only default is on disk before the spawn.
FenceWritesAtStart(c) == TRUE

\* wait_for_ready: pg_isready asks the port, not the child, so a live orphan that
\* answers makes the start succeed while the spawned postmaster is about to exit.
PortAnswers == srv.up /\ ~srv.hung

\* start: clean up, fence on disk, spawn, wait_for_ready.  The spawn gets the
\* directory unless a live or zombie pid holds it.  ok says whether start
\* returns Ok.
SupervisorStart(ok) ==
  /\ exited' = FALSE
  /\ conf' = FenceWritesAtStart(conf)
  /\ \/ /\ CleanupStale(pid) = "none"
        /\ ok
        /\ srv' = [Down EXCEPT !.up = TRUE, !.own = TRUE, !.live = conf',
                               !.recovery = srv.recovery]
        /\ pid' = "live" /\ child' = "run" /\ opened' = FALSE
        /\ UNCHANGED procFaults
     \/ /\ CleanupStale(pid) = "none"        \* not ready in time: stopped or killed
        /\ ~ok /\ procFaults < MaxProcFaults
        /\ procFaults' = procFaults + 1
        /\ pid' = "none" /\ child' = "none"
        /\ UNCHANGED <<srv, opened>>
     \/ /\ pid = "live" /\ srv.up            \* an orphan holds the directory
        /\ ok = PortAnswers
        /\ child' = IF ok THEN "run" ELSE "none"
        /\ UNCHANGED <<srv, pid, opened, procFaults>>
     \/ /\ CleanupStale(pid) = "zombie"      \* the lock is taken, nobody answers
        /\ ~ok
        /\ child' = "none" /\ pid' = CleanupStale(pid)
        /\ UNCHANGED <<srv, opened, procFaults>>

\* run_data_node: a primary that does not start ends the process again; a stored
\* standby is left down for the reconciler.  The new process holds no lease.
ProcBoot ==
  /\ proc = "down"
  /\ \E ok \in BOOLEAN :
       /\ SupervisorStart(ok)
       /\ proc' = IF ok \/ srv.recovery THEN "run" ELSE "down"
  /\ fence' = "idle" /\ failures' = 0 /\ probes' = 0
  /\ UNCHANGED <<leased, opening, bypass, leases>>

\* The postmaster spawned beside a live orphan exits on the directory's lock.
LockRefused ==
  /\ proc # "down" /\ child = "run" /\ ~srv.own
  /\ child' = "gone"
  /\ UNCHANGED <<proc, leased, srv, conf, pid, exited, fence, failures, opening, probes,
                 bypass, opened, procFaults, leases>>

-----------------------------------------------------------------------------
(***************************************************************************)
(* The lease fence.                                                        *)
(***************************************************************************)

\* The eviction of client backends: it succeeds, or it fails and is only logged.
Evict(done) == bypass' = (bypass /\ ~done)

\* tick up to the action: probe, then the lease read after it.  An action other
\* than a close resets the failures.
FenceProbe(a) ==
  /\ proc = "run" /\ fence = "idle" /\ a \in Answers
  /\ LET writable == IF a = "ok" THEN (IF ClientWritable THEN "yes" ELSE "no")
                     ELSE IF a = "notready" THEN "no" ELSE "unknown"
         recovery == IF a = "ok" THEN (IF srv.recovery THEN "yes" ELSE "no") ELSE "unknown"
         act == FenceAction(leased, writable, recovery)
     IN /\ fence' = IF act = "close" THEN "close" ELSE "idle"
        /\ failures' = IF act = "close" THEN failures ELSE 0
        /\ IF act = "terminate" THEN \E done \in BOOLEAN : Evict(done)
           ELSE UNCHANGED bypass
  /\ CountBroken(a)
  /\ UNCHANGED <<proc, leased, srv, conf, pid, child, exited, opening, probes, opened, leases>>

\* close, an error or an overrun of the budget: counted, and at the threshold the
\* process is told to shut down.
CloseFailed ==
  /\ failures' = failures + 1
  /\ proc' = IF failures' >= FenceThreshold THEN "end" ELSE proc

\* close up to ALTER SYSTEM: set_readonly asks for the role, a standby is closed
\* already, and so is a default that is settled read-only.  A server that is not
\* ready counts as fenced; where its connection broke, the statement may have
\* landed.
FenceClose(a) ==
  /\ proc # "down" /\ fence = "close" /\ a \in Answers
  /\ \/ /\ a = "notready"
        /\ fence' = "idle"
        /\ \E landed \in BOOLEAN : conf' = (conf \/ (landed /\ srv.up /\ ~srv.recovery))
        /\ UNCHANGED <<proc, failures, bypass>>
     \/ /\ a \in {"late", "error"}
        /\ fence' = "idle"
        /\ CloseFailed
        /\ UNCHANGED <<conf, bypass>>
     \/ /\ a = "ok" /\ (srv.recovery \/ SettledTo(TRUE))
        /\ fence' = "idle" /\ failures' = 0
        /\ \E done \in BOOLEAN : Evict(done)
        /\ UNCHANGED <<proc, conf>>
     \/ /\ a = "ok" /\ ~srv.recovery /\ ~SettledTo(TRUE)
        /\ conf' = TRUE
        /\ fence' = "reload"
        /\ UNCHANGED <<proc, failures, bypass>>
  /\ CountBroken(a)
  /\ UNCHANGED <<leased, srv, pid, child, exited, opening, probes, opened, leases>>

\* The reload, the settle poll and the verdict: only a verified read-only default
\* evicts and resets the failures.
FenceReload(a) ==
  /\ proc # "down" /\ fence = "reload" /\ a \in Answers
  /\ fence' = "idle"
  /\ \/ /\ a = "ok"
        /\ srv' = [srv EXCEPT !.live = conf]
        /\ IF conf
             THEN /\ failures' = 0
                  /\ \E done \in BOOLEAN : Evict(done)
                  /\ UNCHANGED proc
             ELSE CloseFailed /\ UNCHANGED bypass
     \/ /\ a = "notready"
        /\ \E landed \in BOOLEAN :
             srv' = [srv EXCEPT !.live = IF landed /\ srv.up THEN conf ELSE @]
        /\ UNCHANGED <<failures, proc, bypass>>
     \/ /\ a \in {"late", "error"}
        /\ CloseFailed
        /\ UNCHANGED <<srv, bypass>>
  /\ CountBroken(a)
  /\ UNCHANGED <<leased, conf, pid, child, exited, opening, probes, opened, leases>>

-----------------------------------------------------------------------------
(***************************************************************************)
(* The reconciler's pass: it holds the supervisor, so it does nothing else *)
(* while an open is under way.                                             *)
(***************************************************************************)

\* postmaster_state reaps an exited child, and every poll reads the exit until
\* the next start or stop.
StickyExit == exited' = TRUE

\* Any other reader of postmaster_state, a transfer's readiness probe for one.
Poll ==
  /\ proc = "run" /\ opening = "none" /\ child = "gone"
  /\ child' = "none"
  /\ StickyExit
  /\ UNCHANGED <<proc, leased, srv, conf, pid, fence, failures, opening, probes, bypass,
                 opened, procFaults, leases>>

\* pass finds the exit: the node hands off by shutting down.
PassDied ==
  /\ proc = "run" /\ opening = "none"
  /\ child = "gone" \/ exited
  /\ child' = "none" /\ exited' = TRUE
  /\ proc' = "end"
  /\ UNCHANGED <<leased, srv, conf, pid, fence, failures, opening, probes, bypass, opened,
                 procFaults, leases>>

\* pass without a postmaster, none having exited under it: a leader starts its
\* server, and a follower's demote restarts or repairs its standby.
PassStart ==
  /\ proc = "run" /\ opening = "none"
  /\ child = "none" /\ ~exited
  /\ \E ok \in BOOLEAN : SupervisorStart(ok)
  /\ UNCHANGED <<proc, leased, fence, failures, opening, probes, bypass, leases>>

\* probe_liveness: SELECT 1 over a connection of its own, in a row.
ProbeLiveness ==
  /\ proc = "run" /\ opening = "none" /\ child = "run"
  /\ IF srv.up /\ ~srv.hung
       THEN probes # 0 /\ probes' = 0 /\ UNCHANGED proc
       ELSE /\ probes' = probes + 1
            /\ proc' = IF probes' >= ProbeThreshold THEN "end" ELSE proc
  /\ UNCHANGED <<leased, srv, conf, pid, child, exited, fence, failures, opening, bypass,
                 opened, procFaults, leases>>

\* promote_local_postgres, armed read-only before pg_ctl promote.
PromoteHere ==
  /\ proc = "run" /\ opening = "none" /\ child # "gone" /\ ~exited
  /\ srv.up /\ ~srv.hung /\ srv.recovery
  /\ conf' = TRUE
  /\ srv' = [srv EXCEPT !.recovery = FALSE, !.live = TRUE]
  /\ opened' = FALSE
  /\ UNCHANGED <<proc, leased, pid, child, exited, fence, failures, opening, probes, bypass,
                 procFaults, leases>>

\* open_writes: the lease is read right before the call.
OpenGate ==
  /\ proc = "run" /\ opening = "none" /\ child # "gone" /\ ~exited
  /\ srv.up /\ ~srv.hung /\ ~srv.recovery /\ ~SettledTo(FALSE)
  /\ leased
  /\ opening' = "alter"
  /\ UNCHANGED <<proc, leased, srv, conf, pid, child, exited, fence, failures, probes, bypass,
                 opened, procFaults, leases>>

\* ALTER SYSTEM, then the reload, on the supervisor's own session.
OpenStep ==
  /\ proc # "down" /\ opening # "none"
  /\ srv.up /\ ~srv.hung
  /\ IF opening = "alter"
       THEN conf' = FALSE /\ opened' = TRUE /\ opening' = "reload" /\ UNCHANGED srv
       ELSE srv' = [srv EXCEPT !.live = conf] /\ opening' = "none" /\ UNCHANGED <<conf, opened>>
  /\ UNCHANGED <<proc, leased, pid, child, exited, fence, failures, probes, bypass, procFaults,
                 leases>>

\* The open fails or exceeds its budget between two statements.
OpenGivesUp ==
  /\ proc # "down" /\ opening # "none"
  /\ opening' = "none"
  /\ UNCHANGED <<proc, leased, srv, conf, pid, child, exited, fence, failures, probes, bypass,
                 opened, procFaults, leases>>

-----------------------------------------------------------------------------
(***************************************************************************)
(* Shutdown, and the faults around the process.                            *)
(***************************************************************************)

\* stop_postgres: without a child there is nothing to stop.  pg_ctl stops the
\* server whose pid the directory names, an orphan too.
StopPostgres ==
  /\ proc = "end" /\ opening = "none" /\ child # "none" /\ srv.up /\ ~srv.hung
  /\ srv' = [Down EXCEPT !.recovery = srv.recovery]
  /\ pid' = "none" /\ child' = "none" /\ exited' = FALSE /\ bypass' = FALSE
  /\ UNCHANGED <<proc, leased, conf, fence, failures, opening, probes, opened, procFaults, leases>>

\* Drop for Supervisor kills the child it still has.
DropKillsChild ==
  IF child = "run" /\ srv.own
    THEN srv' = [Down EXCEPT !.recovery = srv.recovery] /\ pid' = "none" /\ bypass' = FALSE
    ELSE UNCHANGED <<srv, pid, bypass>>

\* The tasks have ended, a fence tick within its budgets, or their 30 s are over;
\* main returns an error and the process supervisor starts it again.
ProcessExit ==
  /\ proc = "end" /\ fence = "idle"
  /\ proc' = "down"
  /\ DropKillsChild
  /\ child' = "none" /\ exited' = FALSE /\ leased' = FALSE
  /\ opening' = "none"
  /\ UNCHANGED <<conf, fence, failures, probes, opened, procFaults, leases>>

\* The process is killed: its server runs on as an orphan, and a statement of an
\* open that was on the wire may still land there.
Killed ==
  /\ proc # "down" /\ procFaults < MaxProcFaults
  /\ procFaults' = procFaults + 1
  /\ proc' = "down"
  /\ \E landed \in BOOLEAN :
       /\ conf' = (conf /\ ~(landed /\ srv.up /\ opening = "alter"))
       /\ srv' = [srv EXCEPT !.own = FALSE,
                    !.live = IF landed /\ srv.up /\ opening = "reload" THEN conf ELSE @]
  /\ child' = "none" /\ exited' = FALSE /\ leased' = FALSE
  /\ opening' = "none" /\ fence' = "idle"
  /\ UNCHANGED <<pid, failures, probes, bypass, opened, leases>>

\* The server dies.  A child is reaped by its process; an orphan's pid stays
\* behind as a zombie.
ServerDies ==
  /\ srv.up /\ procFaults < MaxProcFaults
  /\ procFaults' = procFaults + 1
  /\ srv' = [Down EXCEPT !.recovery = srv.recovery]
  /\ pid' = IF srv.own THEN "none" ELSE "zombie"
  /\ child' = IF srv.own /\ child = "run" THEN "gone" ELSE child
  /\ bypass' = FALSE
  /\ UNCHANGED <<proc, leased, conf, exited, fence, failures, opening, probes, opened, leases>>

ServerHangs ==
  /\ srv.up /\ ~srv.hung /\ procFaults < MaxProcFaults
  /\ procFaults' = procFaults + 1
  /\ srv' = [srv EXCEPT !.hung = TRUE]
  /\ UNCHANGED <<proc, leased, conf, pid, child, exited, fence, failures, opening, probes,
                 bypass, opened, leases>>

ServerWakes ==
  /\ srv.hung
  /\ srv' = [srv EXCEPT !.hung = FALSE]
  /\ UNCHANGED <<proc, leased, conf, pid, child, exited, fence, failures, opening, probes,
                 bypass, opened, procFaults, leases>>

\* A client session writes past the default: BEGIN READ WRITE, or one that was
\* open before the default changed.
ClientBypasses ==
  /\ srv.up /\ ~srv.hung /\ ~srv.recovery /\ ~bypass
  /\ bypass' = TRUE
  /\ UNCHANGED <<proc, leased, srv, conf, pid, child, exited, fence, failures, opening, probes,
                 opened, procFaults, leases>>

LeaseGranted ==
  /\ proc = "run" /\ ~leased /\ leases < MaxLeases
  /\ leased' = TRUE /\ leases' = leases + 1
  /\ UNCHANGED <<proc, srv, conf, pid, child, exited, fence, failures, opening, probes, bypass,
                 opened, procFaults>>

LeaseLapses ==
  /\ leased
  /\ leased' = FALSE
  /\ UNCHANGED <<proc, srv, conf, pid, child, exited, fence, failures, opening, probes, bypass,
                 opened, procFaults, leases>>

-----------------------------------------------------------------------------
ProcInit ==
  /\ proc = "down" /\ leased = FALSE
  /\ srv \in [up : {FALSE}, own : {FALSE}, hung : {FALSE}, recovery : BOOLEAN, live : {TRUE}]
  /\ conf \in BOOLEAN
  /\ pid = "none" /\ child = "none" /\ exited = FALSE
  /\ fence = "idle" /\ failures = 0 /\ opening = "none" /\ probes = 0
  /\ bypass = FALSE /\ opened = FALSE /\ procFaults = 0 /\ leases = 0

Fence == \E a \in {"ok", "error", "late", "notready"} :
           FenceProbe(a) \/ FenceClose(a) \/ FenceReload(a)

ProcNext ==
  \/ ProcBoot \/ LockRefused \/ Fence
  \/ Poll \/ PassDied \/ PassStart \/ ProbeLiveness \/ PromoteHere
  \/ OpenGate \/ OpenStep \/ OpenGivesUp
  \/ StopPostgres \/ ProcessExit \/ Killed
  \/ ServerDies \/ ServerHangs \/ ServerWakes \/ ClientBypasses
  \/ LeaseGranted \/ LeaseLapses

\* The scheduling the code relies on: the loops run, a signalled shutdown ends
\* within its timeout and the process supervisor restarts the process.
ProcProgress ==
  /\ WF_procVars(ProcBoot) /\ WF_procVars(LockRefused) /\ WF_procVars(Fence)
  /\ WF_procVars(PassDied) /\ WF_procVars(PassStart) /\ WF_procVars(ProcessExit)
  /\ WF_procVars(OpenStep \/ OpenGivesUp)

\* An orphan refuses a statement of the fence, or an eviction fails.
Refusal ==
  \/ ~srv.own /\ (FenceProbe("error") \/ FenceClose("error") \/ FenceReload("error"))
  \/ /\ bypass /\ bypass' /\ ~leased /\ fence' = "idle" /\ failures' = 0
     /\ FenceProbe("ok") \/ FenceClose("ok") \/ FenceReload("ok")

\* A server the process owns needs no more; one it cannot kill is probed in one
\* life of the process or another, and has to answer and to stop refusing in the
\* end; an eviction that is repeated every tick has to stop failing.
OrphanAnswers ==
  /\ SF_procVars(~srv.own /\ FenceProbe("ok"))
  /\ WF_procVars(~srv.own /\ ServerWakes)
  /\ <>[][~Refusal]_procVars

ProcSpec == ProcInit /\ [][ProcNext]_procVars /\ ProcProgress /\ OrphanAnswers

-----------------------------------------------------------------------------
(***************************************************************************)
(* Properties.                                                             *)
(***************************************************************************)

StartsFenced == srv.up /\ srv.own /\ ~srv.live => opened

\* A lapsed lease over a server that takes client writes ends with the server
\* closed or stopped: by a tick, by the failure threshold and the shutdown that
\* kills the server, or, for the orphan of a killed process, by the fence of the
\* restarted one (fence.rs tick and close, postmaster.rs Drop).  And every start
\* comes up fenced: a server this process spawned takes writes only after the
\* write gate opened it, whatever its files held when an earlier server or
\* process died (fence_writes_at_start, postmaster.rs start).
FenceLands == []StartsFenced /\ ((Exposed /\ ~leased) ~> (~Exposed \/ leased))

\* A node whose server is gone serves again, whatever pid file the dead server
\* left (cleanup_stale_postgres, start).
ServesAgain == (proc = "down" /\ ~srv.up) ~> srv.up

=============================================================================
