-------------------------- MODULE MCCutoverFaults ---------------------------
(***************************************************************************)
(* Cutover with three nodes per cluster, in two scenarios: a node lags     *)
(* behind and leadership stays, or leadership moves while one node of each *)
(* cluster is cut off: it applies nothing, and neither clients nor the     *)
(* other cluster reach it.                                                 *)
(***************************************************************************)
EXTENDS MCCutover

CONSTANT Third   \* the node that is cut off, where one is

OneCutOff == \E c \in Clusters : Third \notin routes[c]

\* The two clusters' nodes only share their names, so their first leaders may too.
FaultsInit ==
  /\ Init
  /\ \/ /\ routes = [c \in Clusters |-> Replicas]
        /\ leader = [c \in Clusters |-> Third]
     \/ /\ routes = [c \in Clusters |-> Replicas \ {Third}]
        /\ \E i \in Replicas \ {Third} : leader = [c \in Clusters |-> i]

FaultsSpec == FaultsInit /\ [][Next]_vars

\* The states of the two scenarios.
Faults ==
  IF ~OneCutOff THEN failovers = 0
  ELSE \A c \in Clusters :
         /\ leader[c] # Third /\ Third \notin routes[c]
         /\ applied[c][Third] = FirstRecord
         /\ \A call \in calls[c] : call.kind = "receive" => Third \notin call.heard

FaultsSymmetry == Permutations(Replicas \ {Third})

\* MCView, where a node that will not lead again is one that is cut off too.
FaultsView ==
  <<rec,
    [c \in Clusters |-> [i \in Replicas |->
       IF OneCutOff /\ i # Third /\ failovers < MaxFailovers THEN applied[c][i]
       ELSE IF i = leader[c] THEN applied[c][i]
       ELSE IF Holds(c, applied[c][i]) THEN "admits"
       ELSE IF applied[c][i].phase = "Transferred"
         THEN <<applied[c][i].epoch, applied[c][i].authority>>
       ELSE "holds"]],
    nodeVars, fenced, pass, calls, dataVars>>

=============================================================================
