----------------------------- MODULE MCProgress -----------------------------
(***************************************************************************)
(* What must happen in the end, for TLC: survivors elect a leader          *)
(* (Recovery), a node comes to follow it (Provisioning), its slots are     *)
(* those of its members (ReplicationSlots), it serves (LeaderYield), and   *)
(* its process fences and restarts its server (NodeProcess).  A behaviour  *)
(* runs one of them, and the fairness of that one holds; the others keep a *)
(* state in which nothing is asked of them.                                *)
(***************************************************************************)
EXTENDS Recovery, Provisioning, ReplicationSlots, LeaderYield, NodeProcess

CONSTANT Concerns   \* the components this run explores

VARIABLE concern

progressVars == <<recVars, provVars, slotVars, yieldVars, procVars, concern>>

\* No survivor is foremost.
RecoveryRests ==
  /\ alive = {1, 2} /\ rwal = <<1, 2, 1>> /\ rlog = <<2, 1, 1>> /\ wait = <<1, 1, 1>>

\* The node waits for an operator.
ProvisioningRests ==
  /\ launch = "join" /\ member = TRUE /\ listed = TRUE
  /\ dir = [has |-> "whole", lineage |-> "ours", wal |-> "far", signal |-> TRUE, copy |-> FALSE]
  /\ leader = [up |-> TRUE, lineage |-> "ours"] /\ term = "none" /\ budget = "bytes"

\* No node could serve and holds all the WAL.
YieldRests ==
  /\ health = <<"stuck", "good", "good">> /\ place = <<2, 1, 1>> /\ led = 1

\* A fenced primary without a lease.
ProcessRests ==
  /\ proc = "run" /\ leased = FALSE /\ conf = TRUE
  /\ srv = [up |-> TRUE, own |-> TRUE, hung |-> FALSE, recovery |-> FALSE, live |-> TRUE]
  /\ pid = "live" /\ child = "run" /\ exited = FALSE
  /\ fence = "idle" /\ failures = 0 /\ opening = "none" /\ probes = 0
  /\ bypass = FALSE /\ opened = FALSE /\ procFaults = 0 /\ leases = 0

\* What a voter that is down holds makes no difference, and WAL positions count
\* from the lowest.  A cluster without a wedged node has nothing to yield for, and
\* its id makes no difference: ids settle ties among the targets of a leader that
\* does not serve, which are the other nodes.
ProgressInit ==
  /\ concern \in Concerns
  /\ concern = "recovery" \/ RecoveryRests
  /\ concern = "provisioning" \/ ProvisioningRests
  /\ concern = "slots" \/ members = SlotNodes
  /\ concern = "yield" \/ YieldRests
  /\ IF concern = "process" THEN ProcInit ELSE ProcessRests
  /\ RecInit /\ ProvInit /\ SlotsInit /\ YieldInit
  /\ \A n \in RVoters \ alive : rwal[n] = 1 /\ rlog[n] = 1 /\ wait[n] = 1
  /\ \E n \in YieldNodes : place[n] = 1
  /\ health[1] # "good"

ProgressNext ==
  /\ UNCHANGED concern
  /\ \/ concern = "recovery" /\ RecNext /\ UNCHANGED <<provVars, slotVars, yieldVars, procVars>>
     \/ concern = "provisioning" /\ ProvNext /\ UNCHANGED <<recVars, slotVars, yieldVars, procVars>>
     \/ concern = "slots" /\ SlotsNext /\ UNCHANGED <<recVars, provVars, yieldVars, procVars>>
     \/ concern = "yield" /\ YieldNext /\ UNCHANGED <<recVars, provVars, slotVars, procVars>>
     \/ concern = "process" /\ ProcNext /\ UNCHANGED <<recVars, provVars, slotVars, yieldVars>>

Fair(c, A) == concern = c /\ A

\* The fairness of each component, where it is the one that runs: RecFairness,
\* ProvFairness, SlotsFairness, YieldFairness, and ProcProgress and OrphanAnswers.
ProgressFairness ==
  /\ WF_recVars(Fair("recovery", RecNext))
  /\ WF_provVars(Fair("provisioning", NodeStep \/ JoinCloneFails))
  /\ WF_provVars(Fair("provisioning", LeaderHeals))
  /\ WF_provVars(Fair("provisioning", CommitLineage))
  /\ WF_slotVars(Fair("slots", SweepSlots(PlanSlots.create, PlanSlots.drop)))
  /\ WF_slotVars(Fair("slots", \E fails \in BOOLEAN : HandlerEnds(fails)))
  /\ \A n \in SlotNodes : /\ WF_slotVars(Fair("slots", n \notin members /\ LoseUpstream(n)))
                          /\ WF_slotVars(Fair("slots", Repoint(n)))
  /\ WF_yieldVars(Fair("yield", \E n \in YieldNodes : Pass(n, TRUE)))
  /\ WF_yieldVars(Fair("yield", \E n \in YieldNodes, ok \in BOOLEAN : TransferEnds(n, ok)))
  /\ WF_yieldVars(Fair("yield", Promoted))
  /\ WF_yieldVars(Fair("yield", Tick))
  /\ WF_procVars(Fair("process", ProcBoot)) /\ WF_procVars(Fair("process", LockRefused))
  /\ WF_procVars(Fair("process", Fence)) /\ WF_procVars(Fair("process", PassDied))
  /\ WF_procVars(Fair("process", PassStart)) /\ WF_procVars(Fair("process", ProcessExit))
  /\ WF_procVars(Fair("process", OpenStep \/ OpenGivesUp))
  /\ SF_procVars(Fair("process", ~srv.own /\ FenceProbe("ok")))
  /\ WF_procVars(Fair("process", ~srv.own /\ ServerWakes))
  /\ <>[][~Refusal]_procVars

ProgressSpec == ProgressInit /\ [][ProgressNext]_progressVars /\ ProgressFairness

=============================================================================
