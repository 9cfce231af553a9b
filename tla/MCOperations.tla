---------------------------- MODULE MCOperations ----------------------------
(***************************************************************************)
(* The client path and the operator's procedures, for TLC: the gateway's   *)
(* sessions (Gateway), backup and restore (Backup), the major upgrade      *)
(* (MajorUpgrade), the rolling upgrade (RollingUpgrade), and the client    *)
(* fence and the blue/green cutover (ClientFence, BlueGreen).  A behaviour *)
(* runs one of them; the others stay as they started.                      *)
(***************************************************************************)
EXTENDS Gateway, Backup, MajorUpgrade, RollingUpgrade, ClientFence, BlueGreen

CONSTANT Procedures   \* the components this run explores

VARIABLE procedure

operationsVars == <<gatewayVars, backupVars, upgradeVars, rollVars, clientFenceVars,
                    blueGreenVars, procedure>>

MCTexts == {<<"listen">>, <<"listen", "rollback">>, <<"begin">>, <<"set">>, <<"discard">>,
            <<"copy">>}

\* The members are interchangeable, so one of them may lead first; a component
\* that does not run keeps one of its initial states.
OperationsInit ==
  /\ procedure \in Procedures
  /\ GatewayInit /\ BackupInit /\ UpgradeInit /\ RollInit /\ ClientFenceInit /\ BlueGreenInit
  /\ view.leader = CHOOSE s \in Servers : TRUE
  /\ procedure = "gateway" \/ view.authority = "local"
  /\ head = CHOOSE n \in Nodes : TRUE
  /\ chief = CHOOSE n \in RollNodes : TRUE
  /\ procedure = "fence" \/
       /\ shape = [member |-> FALSE, owner |-> "dba", secdef |-> FALSE, super |-> {}]
       /\ grants = {}
  /\ procedure = "cutover" \/ blue.stray = {}

OperationsNext ==
  /\ UNCHANGED procedure
  /\ \/ /\ procedure = "gateway" /\ GatewayNext
        /\ UNCHANGED <<backupVars, upgradeVars, rollVars, clientFenceVars, blueGreenVars>>
     \/ /\ procedure = "backup" /\ BackupNext
        /\ UNCHANGED <<gatewayVars, upgradeVars, rollVars, clientFenceVars, blueGreenVars>>
     \/ /\ procedure = "major" /\ UpgradeNext
        /\ UNCHANGED <<gatewayVars, backupVars, rollVars, clientFenceVars, blueGreenVars>>
     \/ /\ procedure = "rolling" /\ RollNext
        /\ UNCHANGED <<gatewayVars, backupVars, upgradeVars, clientFenceVars, blueGreenVars>>
     \/ /\ procedure = "fence" /\ ClientFenceNext
        /\ UNCHANGED <<gatewayVars, backupVars, upgradeVars, rollVars, blueGreenVars>>
     \/ /\ procedure = "cutover" /\ BlueGreenNext
        /\ UNCHANGED <<gatewayVars, backupVars, upgradeVars, rollVars, clientFenceVars>>

OperationsSpec == OperationsInit /\ [][OperationsNext]_operationsVars

=============================================================================
