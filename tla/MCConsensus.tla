---------------------------- MODULE MCConsensus -----------------------------
(***************************************************************************)
(* What consensus rests on, for TLC: the commits that survive an election  *)
(* (Durability), the vote on disk (VoteStore), the change of membership    *)
(* (Membership), the transport of Raft calls (RpcConnection) and the       *)
(* replicated state on disk (StateStore).  A behaviour runs one of them;   *)
(* the others stay as they started.                                        *)
(***************************************************************************)
EXTENDS MCDurability, VoteStore, Membership, RpcConnection, StateStore

CONSTANT Scenarios   \* the components this run explores

VARIABLE scenario

consensusVars == <<durVars, voteVars, memVars, rpcVars, vars, scenario>>

\* One of each kind of entry the apply path tells apart.
StoreKinds ==
  [type : {"Membership"}, nodes : {Nodes}] \cup [type : {"Command", "Blank"}, nodes : {{}}]

\* The seeds are interchangeable, so one of them may lead first.
ConsensusInit ==
  /\ scenario \in Scenarios
  /\ DurInit /\ VoteInit /\ MembershipInit /\ RpcInit /\ Init
  /\ lead = CHOOSE m \in Seeds : TRUE
  /\ scenario = "vote" \/ (store.schema = 1 /\ store.snap = "v1")
  /\ scenario = "membership" \/ build = [m \in Members |-> 1]
  /\ scenario = "store" \/ \A i \in Index : chosen[i].type = "Membership"

ConsensusNext ==
  /\ UNCHANGED scenario
  /\ \/ scenario = "durability" /\ DurNext /\ UNCHANGED <<voteVars, memVars, rpcVars, vars>>
     \/ scenario = "vote" /\ VoteNext /\ UNCHANGED <<durVars, memVars, rpcVars, vars>>
     \/ scenario = "membership" /\ MembershipNext /\ UNCHANGED <<durVars, voteVars, rpcVars, vars>>
     \/ scenario = "rpc" /\ RpcNext /\ UNCHANGED <<durVars, voteVars, memVars, vars>>
     \/ scenario = "store" /\ Next /\ UNCHANGED <<durVars, voteVars, memVars, rpcVars>>

\* The component that runs; the others are as they started.
ConsensusView ==
  <<scenario,
    CASE scenario = "durability" -> DurSeen
      [] scenario = "vote" -> voteVars
      [] scenario = "membership" -> memVars
      [] scenario = "rpc" -> rpcVars
      [] scenario = "store" -> vars>>

ConsensusSpec == ConsensusInit /\ [][ConsensusNext]_consensusVars

=============================================================================
