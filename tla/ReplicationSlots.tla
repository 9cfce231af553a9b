-------------------------- MODULE ReplicationSlots --------------------------
(***************************************************************************)
(* Physical replication slots and the synchronous standby list of the      *)
(* primary.  A leader's reconciler keeps one slot per other member and     *)
(* sets the list; join and remove handlers touch slots as well; a standby  *)
(* that is pointed at another leader drops what its own leadership left.   *)
(***************************************************************************)
EXTENDS Integers, FiniteSets

CONSTANTS
  SlotNodes,         \* nodes that may be members
  LateAlter,         \* TRUE: an ALTER SYSTEM whose call was cut may still land
  MaxMoves,          \* bound: changes of leadership
  MaxMemberChanges   \* bound: joins and removals

ASSUME ReplicationSlotsAssumption ==
  /\ IsFiniteSet(SlotNodes) /\ Cardinality(SlotNodes) >= 3
  /\ LateAlter \in BOOLEAN
  /\ {MaxMoves, MaxMemberChanges} \subseteq Nat

VARIABLES
  primary,   \* the leader
  members,   \* the committed members
  slots,     \* the managed slots on each node, by the node they are for
  upstream,  \* where each node's WAL receiver is connected
  handler,   \* a join's or a removal's last step: [does, at, for]
  list,      \* the primary's list: [live, file], each the set of peers it names
  asking,    \* the step of set_sync_standby_names, and the list it sets
  late,      \* the lists of such statements
  kept,      \* the lists a call that succeeded left in force: none or one
  moves, memberChanges

slotVars ==
  <<primary, members, slots, upstream, handler, list, asking, late, kept, moves, memberChanges>>

Nobody == "nobody"
NoHandler == [does |-> "nothing"]
NotAsking == [step |-> "none"]

listVars == <<list, asking, late, kept>>

-----------------------------------------------------------------------------
(* Slots. *)

Active(n) == {m \in SlotNodes : upstream[m] = n}

\* Faulty variant: slots are made and never taken away.
PlanCreatesOnly == [create |-> (members \ {primary}) \ slots[primary], drop |-> {}]

PlanSlots == [create |-> (members \ {primary}) \ slots[primary],
              drop   |-> slots[primary] \ (members \ {primary})]

\* Creating a slot that is there succeeds; a slot in use is not dropped.
CreateSlots(n, ids) == slots[n] \cup ids

DropSlots(n, here, ids) == here \ (ids \ Active(n))

\* The sweep of a pass: every statement may fail by itself.
SweepSlots(made, gone) ==
  /\ made \subseteq PlanSlots.create /\ gone \subseteq PlanSlots.drop
  /\ slots' = [slots EXCEPT ![primary] = DropSlots(primary, CreateSlots(primary, made), gone)]
  /\ slots' # slots
  /\ UNCHANGED <<primary, members, upstream, handler, listVars, moves, memberChanges>>

\* The handlers do this after the change has applied, on the node they run
\* on, whoever leads by then.
Join(n) ==
  /\ handler = NoHandler /\ n \notin members /\ memberChanges < MaxMemberChanges
  /\ members' = members \cup {n} /\ memberChanges' = memberChanges + 1
  /\ handler' = [does |-> "create", at |-> primary, for |-> n]
  /\ UNCHANGED <<primary, slots, upstream, listVars, moves>>

RemoveNode(n) ==
  /\ handler = NoHandler /\ n \in members \ {primary} /\ Cardinality(members) > 2
  /\ memberChanges < MaxMemberChanges
  /\ members' = members \ {n} /\ memberChanges' = memberChanges + 1
  /\ handler' = [does |-> "drop", at |-> primary, for |-> n]
  /\ UNCHANGED <<primary, slots, upstream, listVars, moves>>

HandlerEnds(fails) ==
  /\ handler # NoHandler
  /\ handler' = NoHandler
  /\ LET at == handler.at IN
     slots' = [slots EXCEPT ![at] =
       IF fails THEN @
       ELSE IF handler.does = "create" THEN CreateSlots(at, {handler.for})
       ELSE DropSlots(at, @, {handler.for})]
  /\ UNCHANGED <<primary, members, upstream, listVars, moves, memberChanges>>

\* A demoted node drops the slots nobody uses, once; the query may fail.
DropInactiveSlots(n) == {slots[n], slots[n] \cap Active(n)}

\* A node whose upstream is not the leader is pointed at it, and drops the
\* slots it has that nobody uses.
Repoint(n) ==
  /\ n \in members \ {primary} /\ upstream[n] # primary
  /\ upstream' = [upstream EXCEPT ![n] = primary]
  /\ \E left \in DropInactiveSlots(n) : slots' = [slots EXCEPT ![n] = left]
  /\ UNCHANGED <<primary, members, handler, listVars, moves, memberChanges>>

\* A removed node is stopped, or a member's connection goes.
LoseUpstream(n) ==
  /\ upstream[n] # Nobody
  /\ upstream' = [upstream EXCEPT ![n] = Nobody]
  /\ UNCHANGED <<primary, members, slots, handler, listVars, moves, memberChanges>>

\* The new primary has the list it was last started with.
MoveLeadership(n) ==
  /\ n \in members \ {primary} /\ moves < MaxMoves
  /\ primary' = n /\ moves' = moves + 1
  /\ upstream' = [upstream EXCEPT ![n] = Nobody]
  /\ list' \in {[live |-> l, file |-> l] : l \in {{}, members \ {n}}}
  /\ asking' = NotAsking /\ kept' = {} /\ late' = {}
  /\ UNCHANGED <<members, slots, handler, memberChanges>>

-----------------------------------------------------------------------------
(* The list.  ALTER SYSTEM writes the file; a reload brings it in force,   *)
(* this one or any later one.                                              *)

slotsVars == <<primary, members, slots, upstream, handler, moves, memberChanges>>

\* All other voters, or nobody once the fallback to asynchronous is committed.
Lists == {members \ {primary}, {}}

\* Faulty variant: only what is in force is compared.
CurrentLive(names) == list.live = names

Current(names) == list.live = names /\ list.file = names

\* A probe without an answer writes the list again.
SetSyncStandbyNames(names, answered) ==
  /\ asking = NotAsking
  /\ IF answered /\ Current(names) THEN kept' = {names} /\ UNCHANGED asking
     ELSE kept' = {} /\ asking' = [step |-> "alter", names |-> names]
  /\ UNCHANGED <<list, late, slotsVars>>

AlterSystem ==
  /\ asking.step = "alter"
  /\ list' = [list EXCEPT !.file = asking.names]
  /\ asking' = [asking EXCEPT !.step = "reload"]
  /\ UNCHANGED <<late, kept, slotsVars>>

AskReload ==
  /\ asking.step = "reload"
  /\ asking' = [asking EXCEPT !.step = "wait"]
  /\ UNCHANGED <<list, late, kept, slotsVars>>

\* The postmaster reads the file when a reload reaches it.
ReloadLands(names) ==
  /\ names \in late \cup {list.file}
  /\ list' = [live |-> names, file |-> names] /\ list' # list
  /\ late' = late \ {names}
  /\ UNCHANGED <<asking, kept, slotsVars>>

EffectiveSeen ==
  /\ asking.step = "wait" /\ list.live = asking.names
  /\ kept' = {asking.names} /\ asking' = NotAsking
  /\ UNCHANGED <<list, late, slotsVars>>

\* A statement fails, or the tick's budget cuts the call anywhere; the
\* session is dropped, the statement in it may go on.
AskingFails ==
  /\ asking # NotAsking
  /\ asking' = NotAsking
  /\ late' = IF LateAlter /\ asking.step = "alter" THEN late \cup {asking.names} ELSE late
  /\ UNCHANGED <<list, kept, slotsVars>>

-----------------------------------------------------------------------------
SlotsInit ==
  /\ primary = CHOOSE n \in SlotNodes : TRUE
  /\ members \in {m \in SUBSET SlotNodes : primary \in m /\ Cardinality(m) >= Cardinality(SlotNodes) - 1}
  /\ slots = [n \in SlotNodes |-> IF n = primary THEN members \ {n} ELSE {}]
  /\ upstream = [n \in SlotNodes |-> IF n \in members \ {primary} THEN primary ELSE Nobody]
  /\ handler = NoHandler
  /\ list = [live |-> members \ {primary}, file |-> members \ {primary}]
  /\ asking = NotAsking /\ kept = {} /\ late = {}
  /\ moves = 0 /\ memberChanges = 0

SlotsNext ==
  \/ \E made \in SUBSET PlanSlots.create, gone \in SUBSET PlanSlots.drop : SweepSlots(made, gone)
  \/ \E n \in SlotNodes : Join(n) \/ RemoveNode(n) \/ Repoint(n) \/ LoseUpstream(n) \/ MoveLeadership(n)
  \/ \E fails \in BOOLEAN : HandlerEnds(fails)
  \/ \E names \in Lists, answered \in BOOLEAN : SetSyncStandbyNames(names, answered)
  \/ AlterSystem \/ AskReload \/ EffectiveSeen \/ AskingFails
  \/ \E names \in SUBSET SlotNodes : ReloadLands(names)

\* Passes go on, so a sweep comes back until its statements succeed; a
\* removed node is stopped; a member is pointed at its leader; a handler ends.
SlotsFairness ==
  /\ WF_slotVars(SweepSlots(PlanSlots.create, PlanSlots.drop))
  /\ WF_slotVars(\E fails \in BOOLEAN : HandlerEnds(fails))
  /\ \A n \in SlotNodes : /\ WF_slotVars(n \notin members /\ LoseUpstream(n))
                          /\ WF_slotVars(Repoint(n))

SlotsSpec == SlotsInit /\ [][SlotsNext]_slotVars /\ SlotsFairness

-----------------------------------------------------------------------------
\* Once leadership and membership rest, the leader ends with exactly one
\* slot per other member, whatever failed on the way, whichever node a
\* handler ran on and whoever was still connected (sweep_slots_if_due,
\* create_replication_slot, drop_replication_slot).
LeaderSlotsSettle == <>[](slots[primary] = members \ {primary})

\* The list that a call reported as set stays in force until another call
\* changes it: no reload that an abandoned call left behind replaces it
\* (set_sync_standby_names, wait_for_sync_standby_names_effective).
SetListStays == \A names \in kept : list.live = names
=============================================================================
