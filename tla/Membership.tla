---------------------------- MODULE Membership -----------------------------
(***************************************************************************)
(* Who belongs to the cluster: the management API's join, promote, remove, *)
(* finalize-upgrade and transfer handlers, and the loop that promotes      *)
(* intended voters (management_api/cluster.rs).                            *)
(*                                                                         *)
(* Each process serialises its own handlers with membership_lock, but a    *)
(* handler is a future: it awaits between its steps, it is dropped when    *)
(* its client hangs up or its process dies, and leadership may move under  *)
(* it.  What a handler commits goes through openraft (external): an entry  *)
(* is accepted from the leader only, a change of the voters takes two      *)
(* entries, a joint configuration and the one it leads to, and a leader    *)
(* that dies between them leaves the joint configuration to the next.      *)
(***************************************************************************)
EXTENDS Integers, Sequences, FiniteSets, FiniteSetsExt, SequencesExt

CONSTANTS
  Members,     \* every node there is
  Seeds,       \* the members and voters at the start
  Handlers,    \* bound: handlers in flight at once
  MaxRequests, \* bound: requests
  MaxMoves,    \* bound: times leadership moves
  Returning    \* a deposed node may lead again while handlers it began still run

ASSUME MembershipAssumption ==
  /\ Seeds \subseteq Members /\ Seeds # {} /\ IsFiniteSet(Members)
  /\ MaxRequests \in Nat /\ MaxMoves \in Nat /\ Returning \in BOOLEAN

Builds == 1 .. 2   \* feature levels: of this release and of the next one

NoOp == [kind |-> "none", at |-> {}, node |-> {}, voter |-> FALSE, step |-> "done",
         goal |-> {}, level |-> 0]

VARIABLES
  config,   \* openraft's membership: voter sets (two while joint), and nodes
  registry, \* ClusterState.nodes: the ids that have a record
  intent,   \* ClusterState.voter_intent
  level,    \* ClusterState.feature_level
  lead,     \* the leader
  silent,   \* the processes whose heartbeats are off
  build,    \* the feature level each node's binary decodes
  ops,      \* the handlers
  requests, moves

memVars == <<config, registry, intent, level, lead, silent, build, ops, requests, moves>>

-----------------------------------------------------------------------------
\* The configuration (openraft).

VoterIds   == UNION ToSet(config.voters)
LearnerIds == config.nodes \ VoterIds

\* Membership::next_coherent with retain = false.
NextCoherent(goal) ==
  LET sets == IF goal \in ToSet(config.voters) THEN <<goal>>
              ELSE <<Last(config.voters), goal>>
  IN  [voters |-> sets,
       nodes  |-> config.nodes \ (VoterIds \ UNION ToSet(sets))]

Role(n) == IF n \in VoterIds THEN "Voter" ELSE IF n \in LearnerIds THEN "Learner" ELSE "Removed"

-----------------------------------------------------------------------------
\* A handler and its lock.

MembershipLocked(p) ==
  \E i \in Handlers : ops[i].at = p /\ ops[i].step \notin {"done", "lock", "applied", "intend"}

TransferLocked(p) ==
  \E i \in Handlers : ops[i].at = p /\ ops[i].kind = "transfer"

Op(kind, p, n, voter) ==
  [NoOp EXCEPT !.kind = kind, !.at = p, !.node = n, !.voter = voter, !.step = "lock"]

Goes(i, step) == ops' = [ops EXCEPT ![i].step = step]

\* The handler returns, or its future is dropped: guards fall with it, the
\* heartbeat guard included.
Ends(i) ==
  /\ ops' = [ops EXCEPT ![i] = NoOp]
  /\ silent' = IF ops[i].kind = "transfer" THEN silent \ {ops[i].at} ELSE silent

Commits(i) == ops[i].at = lead

\* An entry proposed by a node that does not lead is refused.
Refused(i) == ~Commits(i) /\ Ends(i) /\ UNCHANGED <<config, registry, intent, level>>

Standing == UNCHANGED <<lead, build, requests, moves>>

MembershipInit ==
  /\ config = [voters |-> <<Seeds>>, nodes |-> Seeds]
  /\ registry = Seeds /\ intent = {} /\ level = 1
  /\ lead \in Seeds /\ silent = {}
  /\ build \in [Members -> Builds] /\ \A m, n \in Seeds : build[m] = build[n]
  /\ ops = [i \in Handlers |-> NoOp]
  /\ requests = 0 /\ moves = 0

\* A request reaches a node; it waits for the lock.  A second transfer is
\* refused at once (transfer_lock.try_lock).
Asks(i, kind, p, n, voter) ==
  /\ ops[i] = NoOp /\ \A j \in Handlers : ops[j] = NoOp => j >= i
  /\ requests < MaxRequests /\ requests' = requests + 1
  /\ kind = "transfer" => ~TransferLocked(p)
  /\ ops' = [ops EXCEPT ![i] = Op(kind, p, n, voter)]
  /\ UNCHANGED <<config, registry, intent, level, lead, silent, build, moves>>

\* promote_intended_voters: intent and learners are read outside the lock.
IntentPass(i, p) ==
  /\ ops[i] = NoOp /\ \A j \in Handlers : ops[j] = NoOp => j >= i
  /\ p = lead
  /\ \A j \in Handlers : ~(ops[j].at = p /\ ops[j].kind = "promote")
  /\ \E n \in intent \cap LearnerIds : ops' = [ops EXCEPT ![i] = Op("promote", p, n, FALSE)]
  /\ UNCHANGED <<config, registry, intent, level, lead, silent, build, requests, moves>>

-----------------------------------------------------------------------------
\* What a handler checks when it has the lock.

\* Faulty variant: the joiner's feature level is not compared.
JoinAllowedAnyBuild(n) == n \notin VoterIds

JoinAllowed(n) == build[n] >= level /\ n \notin VoterIds

JoinStep(n) == IF n \in LearnerIds THEN "resume" ELSE "record"

PromoteAllowed(n) == n \in config.nodes

RemoveAllowed(p, n) ==
  /\ n # p /\ n \in config.nodes
  /\ n \in VoterIds => Cardinality(VoterIds \ {n}) >= 2

\* resolve_transfer_target
TransferAllowed(p, n) == n # p /\ n \in VoterIds /\ n \in registry

\* The handler's first look at the cluster, under the lock.  Refusals of
\* the moment (WAL behind, target not ready) may come at any time.
Admitted(i) ==
  LET o == ops[i] IN
  /\ o.at = lead
  /\ \/ o.kind = "join" /\ JoinAllowed(o.node)
     \/ o.kind = "promote" /\ PromoteAllowed(o.node)
     \/ o.kind = "remove" /\ RemoveAllowed(o.at, o.node)
     \/ o.kind = "finalize"
     \/ o.kind = "transfer" /\ TransferAllowed(o.at, o.node)

FirstStep(i) ==
  LET o == ops[i] IN
  CASE o.kind = "join"     -> [o EXCEPT !.step = JoinStep(o.node)]
    [] o.kind = "promote"  -> [o EXCEPT !.step = "change", !.goal = VoterIds \cup {o.node}]
    [] o.kind = "remove"   ->
         [o EXCEPT !.step = "change",
                   !.goal = IF o.node \in VoterIds THEN VoterIds \ {o.node} ELSE {}]
    [] o.kind = "finalize" -> [o EXCEPT !.step = "survey"]
    [] o.kind = "transfer" -> [o EXCEPT !.step = "drain"]

\* Faulty variant: the lock is not taken.
LocksNothing(i) ==
  /\ ops[i].step = "lock"
  /\ \/ Admitted(i) /\ ops' = [ops EXCEPT ![i] = FirstStep(i)]
        /\ silent' = IF ops[i].kind = "transfer" THEN silent \cup {ops[i].at} ELSE silent
     \/ ~Admitted(i) /\ Ends(i)
  /\ Standing /\ UNCHANGED <<config, registry, intent, level>>

\* membership_lock, and the reads under it.
Locks(i) ==
  /\ ops[i].step = "lock" /\ ~MembershipLocked(ops[i].at)
  /\ \/ Admitted(i) /\ ops' = [ops EXCEPT ![i] = FirstStep(i)]
        /\ silent' = IF ops[i].kind = "transfer" THEN silent \cup {ops[i].at} ELSE silent
     \/ ~Admitted(i) /\ Ends(i)
  /\ Standing /\ UNCHANGED <<config, registry, intent, level>>

-----------------------------------------------------------------------------
\* join_cluster

\* replicate_node_info, for a resumed join too.
ReplicateNodeInfo(i) ==
  /\ ops[i].step \in {"record", "resume"} /\ Standing
  /\ \/ /\ Commits(i)
        /\ registry' = registry \cup {ops[i].node}
        /\ Goes(i, IF ops[i].step = "record" THEN "learn" ELSE "applied")
        /\ UNCHANGED <<config, intent, level, silent>>
     \/ Refused(i)

\* add_learner_with_retry; the lock is released after it.
AddLearner(i) ==
  /\ ops[i].step = "learn" /\ Standing
  /\ \/ /\ Commits(i)
        /\ config' = [config EXCEPT !.nodes = @ \cup {ops[i].node}]
        /\ Goes(i, "applied")
        /\ UNCHANGED <<registry, intent, level, silent>>
     \/ Refused(i)

\* wait_for_membership_applied and the slot; a role that is not reached ends
\* in a timeout.
JoinApplied(i) ==
  /\ ops[i].kind = "join" /\ ops[i].step = "applied" /\ Standing
  /\ IF Role(ops[i].node) = "Learner" /\ ops[i].voter
     THEN Goes(i, "intend") /\ UNCHANGED silent
     ELSE Ends(i)
  /\ UNCHANGED <<config, registry, intent, level>>

\* IntendVoter
IntendVoter(i) ==
  /\ ops[i].step = "intend" /\ Standing
  /\ \/ /\ Commits(i) /\ intent' = intent \cup {ops[i].node}
        /\ Ends(i) /\ UNCHANGED <<config, registry, level>>
     \/ Refused(i)

-----------------------------------------------------------------------------
\* promote and remove_node

\* What change_membership asks for: an absolute voter set, or a learner's node
\* taken out (RemoveNodes).
Changed(o) ==
  IF o.kind = "remove" /\ o.goal = {}
  THEN [config EXCEPT !.nodes = @ \ {o.node}]
  ELSE NextCoherent(o.goal)

\* change_membership: the entry, and the same change again when the first one
\* leads to a joint configuration.  A voter openraft has no node for is an
\* error.
ChangeMembership(i) ==
  LET o     == ops[i]
      valid == UNION ToSet(Changed(o).voters) \subseteq Changed(o).nodes
  IN
  /\ o.step \in {"change", "flatten"} /\ Standing
  /\ \/ /\ Commits(i) /\ valid
        /\ config' = Changed(o)
        /\ Goes(i, IF o.step = "change" /\ Len(Changed(o).voters) = 2 THEN "flatten" ELSE "wait")
        /\ UNCHANGED <<registry, intent, level, silent>>
     \/ Refused(i)
     \/ ~valid /\ Ends(i) /\ UNCHANGED <<config, registry, intent, level>>

\* wait_for_membership_applied, under the lock.
ChangeApplied(i) ==
  /\ ops[i].step = "wait" /\ Standing
  /\ IF ops[i].kind = "remove" /\ Role(ops[i].node) = "Removed"
     THEN Goes(i, "forget") /\ UNCHANGED silent
     ELSE Ends(i)
  /\ UNCHANGED <<config, registry, intent, level>>

\* forget_removed_node: RemoveNode, best effort.
Forget(i) ==
  /\ ops[i].step = "forget" /\ Standing
  /\ \/ /\ Commits(i)
        /\ registry' = registry \ {ops[i].node} /\ intent' = intent \ {ops[i].node}
        /\ Ends(i) /\ UNCHANGED <<config, level>>
     \/ Refused(i)

-----------------------------------------------------------------------------
\* finalize_upgrade

\* survey_feature_levels and finalize_target: a member without a record or
\* that does not answer blocks the raise, and so does nothing to raise to.
Survey(i) ==
  LET target == Min({build[n] : n \in config.nodes}) IN
  /\ ops[i].step = "survey" /\ Standing
  /\ \/ /\ config.nodes \ {ops[i].at} \subseteq registry /\ target > level
        /\ ops' = [ops EXCEPT ![i].step = "raise", ![i].level = target]
        /\ UNCHANGED silent
     \/ Ends(i)
  /\ UNCHANGED <<config, registry, intent, level>>

\* SetFeatureLevel: the level only rises.
Raise(i) ==
  /\ ops[i].step = "raise" /\ Standing
  /\ \/ /\ Commits(i) /\ level' = Max({level, ops[i].level})
        /\ Ends(i) /\ UNCHANGED <<config, registry, intent>>
     \/ Refused(i)

-----------------------------------------------------------------------------
\* transfer_leadership, from the drain on: heartbeats are off.

\* The lease has drained: a deposed leader stops here, the others ask the
\* target to stand, which it may refuse (trigger_elect).
Drained(i) ==
  /\ ops[i].step = "drain" /\ Standing
  /\ \/ ops[i].at = lead /\ Goes(i, "observe") /\ UNCHANGED silent
     \/ Ends(i)
  /\ UNCHANGED <<config, registry, intent, level>>

\* No handler checks the term it began in.
MayLead(n) == n \in VoterIds /\ (Returning \/ \A j \in Handlers : ops[j].at # n)

\* The target stands and wins, or nothing comes of it.
Elected(i) ==
  /\ ops[i].step = "observe" /\ ops[i].at = lead /\ MayLead(ops[i].node)
  /\ moves < MaxMoves /\ moves' = moves + 1 /\ lead' = ops[i].node
  /\ UNCHANGED <<config, registry, intent, level, silent, build, ops, requests>>

\* The observation ends; the guard is dropped and the outcome polled.
Observed(i) ==
  /\ ops[i].step = "observe" /\ Standing /\ Ends(i)
  /\ UNCHANGED <<config, registry, intent, level>>

-----------------------------------------------------------------------------
\* What happens to a handler.

\* The client hangs up: the future is dropped where it awaits.
HangUp(i) ==
  /\ ops[i] # NoOp /\ Ends(i) /\ Standing
  /\ UNCHANGED <<config, registry, intent, level>>

\* Another voter leads; the old leader's process may have died with its
\* handlers, or runs on with them.
LeaderMoves ==
  /\ moves < MaxMoves /\ moves' = moves + 1
  /\ \E n \in Members \ {lead} : MayLead(n) /\ lead' = n
  /\ \/ UNCHANGED <<ops, silent>>
     \/ /\ ops' = [i \in Handlers |-> IF ops[i].at = lead THEN NoOp ELSE ops[i]]
        /\ silent' = silent \ {lead}
  /\ UNCHANGED <<config, registry, intent, level, build, requests>>

\* A rolling upgrade installs the next release on a node.
Upgraded(n) ==
  /\ build[n] = 1 /\ build' = [build EXCEPT ![n] = 2]
  /\ UNCHANGED <<config, registry, intent, level, lead, silent, ops, requests, moves>>

HandlerStep(i) ==
  \/ Locks(i)
  \/ ReplicateNodeInfo(i) \/ AddLearner(i) \/ JoinApplied(i) \/ IntendVoter(i)
  \/ ChangeMembership(i) \/ ChangeApplied(i) \/ Forget(i)
  \/ Survey(i) \/ Raise(i)
  \/ Drained(i) \/ Elected(i) \/ Observed(i)
  \/ HangUp(i)

\* A request elsewhere than at the leader is refused when it has the lock.
Requested(i) ==
  \E p \in {lead}, n \in Members :
    \/ \E v \in BOOLEAN : Asks(i, "join", p, n, v)
    \/ Asks(i, "promote", p, n, FALSE)
    \/ Asks(i, "remove", p, n, FALSE)
    \/ Asks(i, "transfer", p, n, FALSE)
    \/ n = p /\ Asks(i, "finalize", p, n, FALSE)

MembershipNext ==
  \/ \E i \in Handlers : HandlerStep(i) \/ Requested(i)
  \/ \E i \in Handlers, p \in Members : IntentPass(i, p)
  \/ LeaderMoves
  \/ \E n \in Members : Upgraded(n)

MembershipSpec == MembershipInit /\ [][MembershipNext]_memVars

-----------------------------------------------------------------------------
EveryMemberDecodes == \A n \in config.nodes : build[n] >= level

MembersAreRecorded == config.nodes \subseteq registry

NoLastingSilence == \A p \in silent : TransferLocked(p)

(***************************************************************************)
(* Whatever handlers interleave, are dropped or deposed: every member      *)
(* decodes the committed feature level, so no entry admitted under it is   *)
(* unreadable on a member (the survey of finalize_upgrade and the check of *)
(* a joiner exclude each other); every member has a record in              *)
(* ClusterState.nodes, without which it has no address, a transfer to it   *)
(* is refused and finalize-upgrade is blocked (a removal's late RemoveNode *)
(* does not meet a join); a leader that a transfer silenced sends          *)
(* heartbeats again however the transfer ended.                            *)
(***************************************************************************)
MembershipSound == EveryMemberDecodes /\ MembersAreRecorded /\ NoLastingSilence

(***************************************************************************)
(* A voter leaves only by the removal of that voter.  promote and          *)
(* remove_node submit absolute voter sets (with retain = false, so a voter *)
(* left out loses its membership); a set computed before another handler's *)
(* change would undo it.                                                   *)
(***************************************************************************)
VoterLeavesByRemoval ==
  [][\A n \in VoterIds \ VoterIds' :
       \E i \in Handlers : ops[i].kind = "remove" /\ ops[i].node = n]_memVars

=============================================================================
