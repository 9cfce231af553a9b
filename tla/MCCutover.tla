----------------------------- MODULE MCCutover ------------------------------
(***************************************************************************)
(* Cutover for TLC: majorities of the nodes; the nodes of a cluster are    *)
(* interchangeable.                                                        *)
(***************************************************************************)
EXTENDS Cutover, TLC

MCMajorities == {Q \in SUBSET Replicas : 2 * Cardinality(Q) > Cardinality(Replicas)}

MCSymmetry == Permutations(Replicas)

(***************************************************************************)
(* A view that keeps of a node that will not lead again what anybody reads *)
(* of its record: whether its gateway may admit, and the handoff it        *)
(* confirms.                                                               *)
(***************************************************************************)
Seen(c, i) ==
  LET r == applied[c][i] IN
  IF i = leader[c] \/ failovers < MaxFailovers THEN r
  ELSE IF Holds(c, r) THEN "admits"
  ELSE IF r.phase = "Transferred" THEN <<r.epoch, r.authority>>
  ELSE "holds"

MCView ==
  <<rec, [c \in Clusters |-> [i \in Replicas |-> Seen(c, i)]],
    nodeVars, fenced, pass, calls, dataVars>>

=============================================================================
