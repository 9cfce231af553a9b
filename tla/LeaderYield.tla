---------------------------- MODULE LeaderYield ----------------------------
(***************************************************************************)
(* A Raft leader whose PostgreSQL does not become primary gives leadership  *)
(* up: the promotion watchdog of the reconciler measures its tenure, picks *)
(* a peer from the book of WAL positions and asks its own transfer         *)
(* endpoint.  Positions reach the book through the followers' reports.     *)
(*                                                                         *)
(* Time moves in ticks; in each every node passes once and probes its LSN. *)
(***************************************************************************)
EXTENDS Integers, FiniteSetsExt

CONSTANTS
  YieldNodes,      \* the voters, by id
  YieldBound,      \* LEADER_WITHOUT_PRIMARY_YIELD_MS, in ticks
  YieldCooldown,   \* LEADER_YIELD_COOLDOWN_MS
  Freshness,       \* POSITION_FRESHNESS
  CatchupSlack,    \* lsn_catchup_threshold_bytes
  WalPlaces,       \* WAL positions
  MaxWedged,       \* nodes whose PostgreSQL cannot become primary
  MaxSlips,        \* bound: passes, reports and transfers that fail
  MaxElections     \* bound: elections nobody asked for

ASSUME LeaderYieldAssumption ==
  /\ IsFiniteSet(YieldNodes) /\ YieldNodes \subseteq Nat /\ YieldNodes # {}
  /\ IsFiniteSet(WalPlaces) /\ WalPlaces \subseteq Nat /\ WalPlaces # {}
  /\ {YieldBound, Freshness} \subseteq Nat \ {0}
  /\ {YieldCooldown, CatchupSlack, MaxWedged, MaxSlips, MaxElections} \subseteq Nat

VARIABLES
  health,    \* each node's PostgreSQL: "good", "stuck" in recovery, or "unreadable"
  place,     \* each node's WAL position
  led,       \* the Raft leader
  serving,   \* the leader's PostgreSQL is primary
  tenure,    \* leader_since of each node's watchdog, as an age; NoTenure without
  rested,    \* age of each node's last_yield, up to the cooldown
  book,      \* each node's WalPositions: the age of every node's report
  passed,    \* nodes that have passed in this tick
  transfer,  \* the targets of the yield that is under way: none or one
  slips, elections

yieldVars == <<health, place, led, serving, tenure, rested, book, passed, transfer,
               slips, elections>>

NoTenure == -1

-----------------------------------------------------------------------------
(* The book. *)

Fresh(n, m) == book[n][m] < Freshness

FreshPlaces(n) == {place[m] : m \in {m \in YieldNodes : Fresh(n, m)}}

\* No fresh report proves nothing.
CaughtUp(n, m) == Fresh(n, m) /\ place[m] + CatchupSlack >= Max(FreshPlaces(n))

\* report_lsn of the pass: a node records its own position and a follower
\* reports it to the leader; an unreadable PostgreSQL yields none, and the
\* report may be lost.
ReportArrives(n, m, arrives) ==
  health[n] # "unreadable" /\ (m = n \/ (m = led /\ arrives))

Recorded(n, arrives) ==
  [m \in YieldNodes |->
    IF ReportArrives(n, m, arrives) THEN [book[m] EXCEPT ![n] = 0] ELSE book[m]]

-----------------------------------------------------------------------------
(* The watchdog. *)

PgPrimary(n) == IF health[n] = "unreadable" THEN "unknown"
                ELSE IF n = led /\ serving THEN "primary" ELSE "standby"

\* Faulty variant: a probe without an answer clears the watchdog.
WedgeVerdictAnswered(n, age) ==
  IF n = led /\ PgPrimary(n) = "standby" /\ age >= YieldBound /\ rested[n] >= YieldCooldown
  THEN "yield" ELSE "hold"

WedgeVerdict(n, age) ==
  IF n = led /\ PgPrimary(n) # "primary" /\ age >= YieldBound /\ rested[n] >= YieldCooldown
  THEN "yield" ELSE "hold"

\* The acceptable peer with the most WAL, the lower id of equals.
ChooseYieldTarget(n) ==
  LET acceptable == {m \in YieldNodes \ {n} : CaughtUp(n, m)}
      most == {m \in acceptable : \A o \in acceptable : place[m] >= place[o]}
  IN  IF most = {} THEN {} ELSE {Min(most)}

\* The tenure a pass finds: it begins on the pass that first sees the
\* leadership and goes with the one that does not see it.
TenureSeen(n) == IF n # led THEN NoTenure ELSE IF tenure[n] = NoTenure THEN 0 ELSE tenure[n]

\* One pass.  The transfer is asked for after the pass; the endpoint refuses
\* a second one while the first is under way.
Pass(n, arrives) ==
  /\ n \notin passed /\ passed' = passed \cup {n}
  /\ arrives \/ slips < MaxSlips
  /\ slips' = IF arrives THEN slips ELSE slips + 1
  /\ tenure' = [tenure EXCEPT ![n] = TenureSeen(n)]
  /\ IF WedgeVerdict(n, TenureSeen(n)) = "yield"
     THEN /\ rested' = [rested EXCEPT ![n] = 0]
          /\ transfer' = IF transfer = {} THEN ChooseYieldTarget(n) ELSE transfer
     ELSE UNCHANGED <<rested, transfer>>
  /\ book' = Recorded(n, arrives)
  /\ UNCHANGED <<health, place, led, serving, elections>>

\* Promotion ends after the pass that asks for it.
Promoted ==
  /\ ~serving /\ health[led] = "good"
  /\ serving' = TRUE
  /\ UNCHANGED <<health, place, led, tenure, rested, book, passed, transfer, slips, elections>>

-----------------------------------------------------------------------------
(* The endpoint. *)

BecomesLeader(n) == led' = n /\ serving' = FALSE

\* The endpoint checks the position again; whatever else it requires, the
\* readiness of the target, the drain and the election, may fail.
TransferEnds(m, succeeds) ==
  /\ transfer = {m} /\ transfer' = {}
  /\ IF m # led /\ CaughtUp(led, m) /\ succeeds
     THEN BecomesLeader(m) /\ UNCHANGED slips
     ELSE /\ UNCHANGED <<led, serving>>
          /\ (CaughtUp(led, m) /\ m # led) => slips < MaxSlips
          /\ slips' = IF CaughtUp(led, m) /\ m # led THEN slips + 1 ELSE slips
  /\ UNCHANGED <<health, place, tenure, rested, book, passed, elections>>

\* Any node that a majority does not find behind, wedged or not.
Elected(n) ==
  /\ n # led /\ elections < MaxElections
  /\ 2 * Cardinality({m \in YieldNodes : place[m] <= place[n]}) > Cardinality(YieldNodes)
  /\ BecomesLeader(n)
  /\ elections' = elections + 1
  /\ UNCHANGED <<health, place, tenure, rested, book, passed, transfer, slips>>

-----------------------------------------------------------------------------
Older(age, limit) == IF age < limit THEN age + 1 ELSE limit

\* A pass that has not come by the end of the tick is late.  A promotion that
\* can succeed does so within the bound, which is far above what one takes.
Tick ==
  /\ passed = YieldNodes \/ slips < MaxSlips
  /\ slips' = IF passed = YieldNodes THEN slips ELSE slips + 1
  /\ serving \/ health[led] # "good" \/ tenure[led] < YieldBound - 1
  /\ passed' = {}
  /\ tenure' = [n \in YieldNodes |->
                 IF tenure[n] = NoTenure THEN NoTenure ELSE Older(tenure[n], YieldBound)]
  /\ rested' = [n \in YieldNodes |-> Older(rested[n], YieldCooldown)]
  /\ book' = [n \in YieldNodes |-> [m \in YieldNodes |-> Older(book[n][m], Freshness)]]
  /\ UNCHANGED <<health, place, led, serving, transfer, elections>>

-----------------------------------------------------------------------------
YieldInit ==
  /\ health \in {h \in [YieldNodes -> {"good", "stuck", "unreadable"}] :
                  Cardinality({n \in YieldNodes : h[n] # "good"}) <= MaxWedged}
  /\ place \in [YieldNodes -> WalPlaces]
  /\ led \in YieldNodes /\ serving = FALSE
  /\ 2 * Cardinality({m \in YieldNodes : place[m] <= place[led]}) > Cardinality(YieldNodes)
  /\ tenure = [n \in YieldNodes |-> NoTenure]
  /\ rested = [n \in YieldNodes |-> YieldCooldown]
  /\ book = [n \in YieldNodes |-> [m \in YieldNodes |-> Freshness]]
  /\ passed = {} /\ transfer = {} /\ slips = 0 /\ elections = 0

YieldNext ==
  \/ \E n \in YieldNodes, ok \in BOOLEAN : Pass(n, ok) \/ TransferEnds(n, ok)
  \/ \E n \in YieldNodes : Elected(n)
  \/ Promoted
  \/ Tick

\* Passes come, a transfer ends, a promotion that can succeed does, and time
\* goes on.
YieldFairness ==
  /\ WF_yieldVars(\E n \in YieldNodes : Pass(n, TRUE))
  /\ WF_yieldVars(\E n \in YieldNodes, ok \in BOOLEAN : TransferEnds(n, ok))
  /\ WF_yieldVars(Promoted)
  /\ WF_yieldVars(Tick)

YieldSpec == YieldInit /\ [][YieldNext]_yieldVars /\ YieldFairness

-----------------------------------------------------------------------------
\* Some node could serve and holds the WAL that every other node holds.
AbleNode ==
  \E n \in YieldNodes : health[n] = "good" /\ \A m \in YieldNodes : place[n] + CatchupSlack >= place[m]

\* A cluster with such a node ends with a leader that serves: one that leads
\* with a PostgreSQL that never becomes primary, or whose state cannot even be
\* read, gives leadership to another node, across late passes, lost position
\* reports, refused transfers and elections that bring the wedge back
\* (watch_leadership, wedge_verdict, choose_yield_target, report_lsn).
LeaderServes == <>[](AbleNode => serving)
=============================================================================
