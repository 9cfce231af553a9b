---------------------------- MODULE LeaseFencing ----------------------------
(***************************************************************************)
(* Contract L1 of pgbattery: at most one node takes client writes.         *)
(*                                                                         *)
(* Four loops of every node meet here, each at the grain at which it can   *)
(* be interrupted by the others:                                           *)
(*   - openraft (external): campaigns, votes, the heartbeat round;         *)
(*   - the governor, which turns Raft metrics into the write lease and     *)
(*     stamps the promotion hold-down anchor (governor/raft.rs, lease.rs); *)
(*   - the lease fence, which closes writes (governor/fence.rs);           *)
(*   - the node reconciler, which promotes, opens writes and demotes       *)
(*     (governor/reconciler).                                              *)
(*                                                                         *)
(* Time is a global counter.  Nothing forces a loop to run early; Tick is  *)
(* refused while some loop is past its bound, so every interleaving within *)
(* the bounds is explored.  A node's clock is its monotonic clock, so the  *)
(* clocks run at one rate.                                                 *)
(***************************************************************************)
EXTENDS Integers, FiniteSets

CONSTANTS
  Nodes,          \* the Raft voters; numbers, since openraft orders votes by id
  Quorums,        \* the majorities of Nodes
  Founder,        \* the node whose PostgreSQL was initdb'ed
  Lease,          \* DEFAULT_LEASE_DURATION, also the hold-down
  FollowerLease,  \* how long a voter that heard a leader refuses candidates
  ElectionMin,    \* election_timeout_min
  VoteTtl,        \* how long a candidate accepts an answer to its vote request
  QuorumTimeout,  \* QUORUM_TIMEOUT_MS
  MetricsDelay,   \* longest time from a Raft metrics change to its processing
  FenceBound,     \* longest time from a lapsed lease to closed writes, the
                  \* landing of an open in flight included
  OpenBound,      \* longest time the call that opens writes takes
  RestartMin,     \* least time the supervisor leaves a crashed process down
  MaxCrashes,     \* bound: process crashes
  Candidates,     \* bound: the voters that may stand for election
  MaxTerm         \* bound: terms a campaign may reach

NoNode == 0
NoTime == -1

(***************************************************************************)
(* Quorums intersect, and a sole voter is its own quorum.                  *)
(***************************************************************************)
ASSUME QuorumAssumption ==
  /\ Nodes \subseteq Nat \ {NoNode}
  /\ IsFiniteSet(Nodes)
  /\ Founder \in Nodes
  /\ Candidates \subseteq Nodes
  /\ Quorums \subseteq SUBSET Nodes
  /\ \A Q, R \in Quorums : Q \cap R # {}

\* The least time from a campaign to the writes its winner opens: the hold-down,
\* which a restart forgets.
Hold == IF MaxCrashes = 0 \/ Lease <= RestartMin THEN Lease ELSE RestartMin

ASSUME NumbersAssumption ==
  /\ \A d \in {Lease, FollowerLease, ElectionMin, VoteTtl, QuorumTimeout,
               MetricsDelay, FenceBound, OpenBound, RestartMin, MaxCrashes,
               MaxTerm} : d \in Nat
  /\ MaxTerm > 0

(***************************************************************************)
(* The margins under which the hold-down outlasts a deposed writer.  They  *)
(* are a condition on the deployment and nothing in the code enforces      *)
(* them.  Lease and follower lease are 2 s, quorum timeout, election       *)
(* minimum and vote budget 1 s; MetricsDelay, FenceBound and OpenBound are *)
(* what the node and its PostgreSQL really take, and the margins ask that  *)
(* 4 * MetricsDelay + FenceBound is below 1 s.  The code cancels a call    *)
(* only after TICK_SQL_BUDGET = 1 s: a server that takes that long to close *)
(* is outside them.  So is a crashed process that comes back before a      *)
(* lease has passed: its hold-down is forgotten, and then only its time    *)
(* down counts.  The last margin is for a leader that loses a term and     *)
(* wins a later one before its governor sees either, so that it never      *)
(* closes: the winner in between must be out of its lease when its own     *)
(* hold-down ends.                                                         *)
(***************************************************************************)
TimingMargins ==
  /\ VoteTtl <= ElectionMin
  /\ VoteTtl <= QuorumTimeout + MetricsDelay
  /\ ElectionMin <= FollowerLease
  /\ OpenBound <= FenceBound
  /\ QuorumTimeout + 3 * MetricsDelay + FenceBound < Hold
  /\ 2 * QuorumTimeout + 4 * MetricsDelay + FenceBound < Hold + ElectionMin

VARIABLES
  now,        \* the clock
  alive,      \* the pgbattery process runs
  crashes,    \* crashes so far
  downAt,     \* when the process last stopped
  vote,       \* openraft's persisted vote: term, node, committed
  contact,    \* when this voter last accepted an append from a leader
  stood,      \* when this node last campaigned
  granted,    \* votes counted for this node's campaign
  ack,        \* send time of the leader's last quorum-acknowledged round
  dirtyAt,    \* when the oldest unprocessed Raft metrics change was published
  seenTerm,   \* GovernorRunState.prev_term
  seenLeader, \* GovernorRunState.prev_leader_id
  leaseLeader,\* LeaseState.is_leader
  leaseExp,   \* LeaseState.expires_at
  anchor,     \* LeaseState.failover_anchor
  view,       \* the role the reconciler's current pass read
  pg,         \* the role of the local PostgreSQL: standby or primary
  ro,         \* default_transaction_read_only, live and after a reload
  opening,    \* when the open in flight passed its checks
  openAnchor  \* the anchor that open saw

raftVars  == <<alive, crashes, downAt, vote, contact, stood, granted, ack, dirtyAt>>
govVars   == <<seenTerm, seenLeader, leaseLeader, leaseExp>>
pgVars    == <<view, pg, ro, opening, openAnchor>>
vars == <<now, raftVars, govVars, anchor, pgVars>>

-----------------------------------------------------------------------------
(***************************************************************************)
(* What the loops read.                                                    *)
(***************************************************************************)

\* RaftMetrics::current_leader of n: the node its vote is committed to.
RaftLeader(n) == IF vote[n].committed THEN vote[n].node ELSE NoNode

\* The order openraft puts on votes: term first, then node id.
Before(t1, n1, t2, n2) == t1 < t2 \/ (t1 = t2 /\ n1 < n2)

\* The Raft metrics differ from the ones the governor last processed.
Dirty(n) == RaftLeader(n) # seenLeader[n] \/ vote[n].term # seenTerm[n]

LeaseValid(n) == leaseLeader[n] /\ now < leaseExp[n]

\* Faulty variant: a hold-down of the quorum timeout only.
HeldBriefly(a) == a # NoTime /\ now - a < QuorumTimeout

\* promotion_lease_holddown: one lease has not passed since the anchor.
Held(a) == a # NoTime /\ now - a < Lease

\* Client writes reach n's PostgreSQL and are accepted.
Writable(n) == alive[n] /\ pg[n] = "primary" /\ ~ro[n]

\* has_quorum_decision, age being the time since the last quorum ack.
HasQuorumDecision(isLeader, leader, age) ==
  IF isLeader
    THEN Cardinality(Nodes) = 1 \/ (age # NoTime /\ age < QuorumTimeout)
    ELSE leader # NoNode

\* Faulty variant: only losing a leader stamps, a retried election does not.
NoTermAnchor(prevTerm, term, leader, isLeader) == term < prevTerm

\* should_anchor_term_advance
ShouldAnchorTermAdvance(prevTerm, term, leader, isLeader) ==
  /\ leader = NoNode \/ isLeader
  /\ prevTerm > 0
  /\ term > prevTerm

\* should_clear_stale_failover_anchor
ShouldClearStaleFailoverAnchor(leader, isLeader) == leader # NoNode /\ ~isLeader

\* The anchor after one metrics update: the leader-lost edge, the clearing and
\* the term advance, in the order the governor applies them.  leader_lost_at is
\* set only while prev_leader_id is None, so the edge needs no state of its own.
AnchorAfter(n, leader) ==
  LET isLeader == leader = n
      lostNow  == seenLeader[n] # NoNode /\ leader = NoNode
  IN  IF ShouldAnchorTermAdvance(seenTerm[n], vote[n].term, leader, isLeader) THEN now
      ELSE IF ShouldClearStaleFailoverAnchor(leader, isLeader) THEN NoTime
      ELSE IF lostNow THEN now
      ELSE anchor[n]

\* Faulty variant: measured from the update.
RenewedFromNow(age) == now + Lease

\* LeaseState::renew: anchored at the acknowledgement, not at the update.
RenewedExpiry(age) == now - age + Lease

\* The immediate expiry of update_from_raft.  A lease that had lapsed keeps the
\* instant at which it did, from which the fence's bound runs.
ExpiredBy(exp) == IF exp > now THEN now ELSE exp

-----------------------------------------------------------------------------
(***************************************************************************)
(* openraft, as the node uses it.                                          *)
(***************************************************************************)

\* n's vote becomes v: its metrics change, and the governor has yet to see it.
SetVotes(new) ==
  /\ vote' = new
  /\ dirtyAt' = [n \in Nodes |->
       IF new[n] = vote[n] \/ Dirty(n) THEN dirtyAt[n] ELSE now]

\* n's campaign as far as the answers in G have come: a quorum makes it leader,
\* with no round acknowledged yet.
Tally(n, t, G) ==
  [term |-> t, node |-> n, committed |-> G \in Quorums]

\* n campaigns: its election timer fired, the leaderless watchdog forced it, or
\* a leadership transfer triggered it after the drain.  Each of them waits at
\* least ElectionMin from n's last leader contact.
Campaign(n) ==
  /\ alive[n] /\ n \in Candidates
  /\ RaftLeader(n) # n
  /\ vote[n].term < MaxTerm
  /\ now >= contact[n] + ElectionMin
  /\ SetVotes([vote EXCEPT ![n] = Tally(n, @.term + 1, {n})])
  /\ stood' = [stood EXCEPT ![n] = now]
  /\ granted' = [granted EXCEPT ![n] = {n}]
  /\ ack' = [ack EXCEPT ![n] = NoTime]
  /\ UNCHANGED <<now, alive, crashes, downAt, contact, govVars, anchor, pgVars>>

\* m answers candidate n's vote request; the answer may be lost or too late.
\* A voter that heard a leader within FollowerLease refuses; a leader does not
\* hear itself, so it may grant.
GrantVote(m, n) ==
  /\ alive[m] /\ alive[n] /\ m # n
  /\ vote[n].node = n /\ ~vote[n].committed
  /\ Before(vote[m].term, vote[m].node, vote[n].term, n)
  /\ RaftLeader(m) \in Nodes \ {m} => now > contact[m] + FollowerLease
  /\ \E counted \in BOOLEAN :
       /\ counted => now <= stood[n] + VoteTtl
       /\ LET G == IF counted THEN granted[n] \cup {m} ELSE granted[n] IN
          /\ granted' = [granted EXCEPT ![n] = G]
          /\ SetVotes([vote EXCEPT ![m] = vote[n], ![n] = Tally(n, @.term, G)])
  /\ ack' = [ack EXCEPT ![m] = NoTime]
  /\ UNCHANGED <<now, alive, crashes, downAt, contact, stood, govVars, anchor, pgVars>>

\* Leader n's append reaches the voters in S, which follow it from then on.
\* A quorum of answers is the acknowledgement its lease is measured from.
Heartbeat(n, S) ==
  /\ alive[n] /\ RaftLeader(n) = n /\ n \in S
  /\ \A m \in S \ {n} : /\ alive[m]
                        /\ ~Before(vote[n].term, n, vote[m].term, vote[m].node)
  /\ SetVotes([m \in Nodes |-> IF m \in S THEN vote[n] ELSE vote[m]])
  /\ contact' = [m \in Nodes |-> IF m \in S \ {n} THEN now ELSE contact[m]]
  /\ ack' = [m \in Nodes |-> IF m = n /\ S \in Quorums THEN now
                             ELSE IF m \in S \ {n} THEN NoTime ELSE ack[m]]
  /\ UNCHANGED <<now, alive, crashes, downAt, stood, granted, govVars, anchor, pgVars>>

-----------------------------------------------------------------------------
(***************************************************************************)
(* The governor.                                                           *)
(***************************************************************************)

\* process_metrics_update: the governor reads the latest metrics, which were
\* published lag ago, so the acknowledgement age they carry is that much short.
Process(n, lag) ==
  LET leader   == RaftLeader(n)
      isLeader == leader = n
      age      == IF Cardinality(Nodes) = 1 THEN 0
                  ELSE IF ack[n] = NoTime THEN NoTime ELSE now - lag - ack[n]
      quorum   == HasQuorumDecision(isLeader, leader, age)
  IN
  /\ alive[n]
  /\ lag \in 0..MetricsDelay
  /\ ack[n] # NoTime => lag <= now - ack[n]
  /\ anchor' = [anchor EXCEPT ![n] = AnchorAfter(n, leader)]
  /\ seenTerm' = [seenTerm EXCEPT ![n] = vote[n].term]
  /\ seenLeader' = [seenLeader EXCEPT ![n] = leader]
  /\ leaseLeader' = [leaseLeader EXCEPT ![n] = isLeader]
  /\ leaseExp' = [leaseExp EXCEPT ![n] =
       IF isLeader /\ quorum THEN RenewedExpiry(age) ELSE ExpiredBy(@)]
  /\ UNCHANGED <<now, raftVars, pgVars>>

-----------------------------------------------------------------------------
(***************************************************************************)
(* The lease fence.                                                        *)
(***************************************************************************)

\* The tick that closes a server which takes writes under a lapsed lease: the
\* read-only default is settled and the client backends are evicted.  A tick that
\* fails only leaves the closing to a later one within FenceBound; failures up to
\* the threshold end the process, which is Crash.
FenceTick(n) ==
  /\ alive[n] /\ ~LeaseValid(n) /\ Writable(n)
  /\ ro' = [ro EXCEPT ![n] = TRUE]
  /\ UNCHANGED <<now, raftVars, govVars, anchor, view, pg, opening, openAnchor>>

-----------------------------------------------------------------------------
(***************************************************************************)
(* The node reconciler.  A pass reads its view once and then acts on it,   *)
(* whatever Raft says by then.                                             *)
(***************************************************************************)

BeginPass(n) ==
  /\ alive[n] /\ opening[n] = NoTime
  /\ view[n] # RaftLeader(n)
  /\ view' = [view EXCEPT ![n] = RaftLeader(n)]
  /\ UNCHANGED <<now, raftVars, govVars, anchor, pg, ro, opening, openAnchor>>

\* promote_local_postgres on a standby: a promotion with no anchor stamps one
\* and holds; one inside the hold-down holds; otherwise PostgreSQL is promoted,
\* read-only.
Promote(n) ==
  /\ alive[n] /\ view[n] = n /\ pg[n] = "standby"
  /\ \/ /\ anchor[n] = NoTime
        /\ anchor' = [anchor EXCEPT ![n] = now]
        /\ UNCHANGED <<pg, ro>>
     \/ /\ anchor[n] # NoTime /\ ~Held(anchor[n])
        /\ pg' = [pg EXCEPT ![n] = "primary"]
        /\ ro' = [ro EXCEPT ![n] = TRUE]
        /\ UNCHANGED anchor
  /\ UNCHANGED <<now, raftVars, govVars, view, opening, openAnchor>>

\* open_writes up to its gate: lease and anchor are read together, right before
\* the call that opens.
OpenCheck(n) ==
  /\ alive[n] /\ view[n] = n /\ pg[n] = "primary" /\ ro[n]
  /\ opening[n] = NoTime
  /\ LeaseValid(n) /\ ~Held(anchor[n])
  /\ opening' = [opening EXCEPT ![n] = now]
  /\ openAnchor' = [openAnchor EXCEPT ![n] = anchor[n]]
  /\ UNCHANGED <<now, raftVars, govVars, anchor, view, pg, ro>>

\* spend_failover_anchor: an anchor stamped since belongs to a later term.
SpendAnchor(n, seen) ==
  anchor' = [anchor EXCEPT ![n] = IF @ = seen THEN NoTime ELSE @]

\* set_readonly(false) lands, at any time within OpenBound.
OpenLand(n) ==
  /\ alive[n] /\ opening[n] # NoTime
  /\ ro' = [ro EXCEPT ![n] = FALSE]
  /\ SpendAnchor(n, openAnchor[n])
  /\ opening' = [opening EXCEPT ![n] = NoTime]
  /\ openAnchor' = [openAnchor EXCEPT ![n] = NoTime]
  /\ UNCHANGED <<now, raftVars, govVars, view, pg>>

\* set_readonly(false) fails or exceeds its budget, landed or not; nothing is
\* spent.
OpenFail(n) ==
  /\ alive[n] /\ opening[n] # NoTime
  /\ \E landed \in BOOLEAN : ro' = [ro EXCEPT ![n] = @ /\ ~landed]
  /\ opening' = [opening EXCEPT ![n] = NoTime]
  /\ openAnchor' = [openAnchor EXCEPT ![n] = NoTime]
  /\ UNCHANGED <<now, raftVars, govVars, anchor, view, pg>>

\* open_writes on a primary that is already open.
FindOpen(n) ==
  /\ alive[n] /\ view[n] = n /\ Writable(n)
  /\ opening[n] = NoTime
  /\ anchor[n] # NoTime /\ ~Held(anchor[n])
  /\ SpendAnchor(n, anchor[n])
  /\ UNCHANGED <<now, raftVars, govVars, pgVars>>

\* demote_to_leader: fence, then restart as a standby of the leader in view.
Demote(n) ==
  /\ alive[n] /\ view[n] \notin {NoNode, n} /\ pg[n] = "primary"
  /\ opening[n] = NoTime
  /\ pg' = [pg EXCEPT ![n] = "standby"]
  /\ ro' = [ro EXCEPT ![n] = TRUE]
  /\ UNCHANGED <<now, raftVars, govVars, anchor, view, opening, openAnchor>>

-----------------------------------------------------------------------------
(***************************************************************************)
(* Process lifecycle and time.                                             *)
(***************************************************************************)

\* The process and its PostgreSQL stop.  What stays is on disk: Raft's vote and
\* PostgreSQL's role.
Crash(n) ==
  /\ alive[n] /\ crashes < MaxCrashes
  /\ alive' = [alive EXCEPT ![n] = FALSE]
  /\ crashes' = crashes + 1
  /\ downAt' = [downAt EXCEPT ![n] = now]
  /\ granted' = [granted EXCEPT ![n] = {}]
  /\ ack' = [ack EXCEPT ![n] = NoTime]
  /\ seenTerm' = [seenTerm EXCEPT ![n] = 0]
  /\ seenLeader' = [seenLeader EXCEPT ![n] = NoNode]
  /\ leaseLeader' = [leaseLeader EXCEPT ![n] = FALSE]
  /\ leaseExp' = [leaseExp EXCEPT ![n] = 0]
  /\ anchor' = [anchor EXCEPT ![n] = NoTime]
  /\ view' = [view EXCEPT ![n] = NoNode]
  /\ ro' = [ro EXCEPT ![n] = TRUE]
  /\ opening' = [opening EXCEPT ![n] = NoTime]
  /\ openAnchor' = [openAnchor EXCEPT ![n] = NoTime]
  /\ UNCHANGED <<now, vote, contact, stood, dirtyAt, pg>>

\* PostgreSQL starts read-only in the role it had, the governor seeds its term
\* from Raft's, and openraft dates the persisted vote to its own start: a node
\* whose committed vote is its own leads again.
Restart(n) ==
  /\ ~alive[n] /\ now >= downAt[n] + RestartMin
  /\ alive' = [alive EXCEPT ![n] = TRUE]
  /\ contact' = [contact EXCEPT ![n] = now]
  /\ seenTerm' = [seenTerm EXCEPT ![n] = vote[n].term]
  /\ leaseExp' = [leaseExp EXCEPT ![n] = now]
  /\ dirtyAt' = [dirtyAt EXCEPT ![n] = now]
  /\ UNCHANGED <<now, crashes, downAt, vote, stood, granted, ack, seenLeader,
                 leaseLeader, anchor, pgVars>>

\* Some loop of n is at the end of its bound.
Overdue(n) ==
  /\ alive[n]
  /\ \/ Dirty(n) /\ now >= dirtyAt[n] + MetricsDelay
     \/ LeaseValid(n) /\ ack[n] # NoTime /\ now >= ack[n] + QuorumTimeout + MetricsDelay
     \/ Writable(n) /\ ~LeaseValid(n) /\ now >= leaseExp[n] + FenceBound
     \/ opening[n] # NoTime /\ now >= opening[n] + OpenBound

Tick ==
  /\ \A n \in Nodes : ~Overdue(n)
  /\ now' = now + 1
  /\ UNCHANGED <<raftVars, govVars, anchor, pgVars>>

-----------------------------------------------------------------------------
\* The cluster was bootstrapped in term 1 by the founder, whose PostgreSQL
\* started read-only; the others are its standbys.
Init ==
  /\ now = 0
  /\ alive = [n \in Nodes |-> TRUE]
  /\ crashes = 0
  /\ downAt = [n \in Nodes |-> 0]
  /\ vote = [n \in Nodes |-> [term |-> 1, node |-> Founder, committed |-> TRUE]]
  /\ contact = [n \in Nodes |-> 0]
  /\ stood = [n \in Nodes |-> 0]
  /\ granted = [n \in Nodes |-> {}]
  /\ ack = [n \in Nodes |-> NoTime]
  /\ dirtyAt = [n \in Nodes |-> 0]
  /\ seenTerm = [n \in Nodes |-> 1]
  /\ seenLeader = [n \in Nodes |-> NoNode]
  /\ leaseLeader = [n \in Nodes |-> FALSE]
  /\ leaseExp = [n \in Nodes |-> 0]
  /\ anchor = [n \in Nodes |-> NoTime]
  /\ view = [n \in Nodes |-> NoNode]
  /\ pg = [n \in Nodes |-> IF n = Founder THEN "primary" ELSE "standby"]
  /\ ro = [n \in Nodes |-> TRUE]
  /\ opening = [n \in Nodes |-> NoTime]
  /\ openAnchor = [n \in Nodes |-> NoTime]

Next ==
  \/ Tick
  \/ \E n \in Nodes :
       \/ Campaign(n)
       \/ \E m \in Nodes : GrantVote(m, n)
       \/ \E S \in SUBSET Nodes : Heartbeat(n, S)
       \/ \E lag \in 0..MetricsDelay : Process(n, lag)
       \/ FenceTick(n)
       \/ BeginPass(n) \/ Promote(n) \/ OpenCheck(n) \/ OpenLand(n) \/ OpenFail(n)
       \/ FindOpen(n) \/ Demote(n)
       \/ Crash(n) \/ Restart(n)

Spec == Init /\ [][Next]_vars

-----------------------------------------------------------------------------
Stamps == Nat \cup {NoTime}
Votes == [term : 0..MaxTerm, node : Nodes, committed : BOOLEAN]

\* Every variable has its type: in particular no lease ends before time began,
\* however old the acknowledgement it was renewed from.
TypeOK ==
  /\ now \in Nat
  /\ alive \in [Nodes -> BOOLEAN]
  /\ crashes \in 0..MaxCrashes
  /\ downAt \in [Nodes -> Nat]
  /\ vote \in [Nodes -> Votes]
  /\ contact \in [Nodes -> Nat]
  /\ stood \in [Nodes -> Nat]
  /\ granted \in [Nodes -> SUBSET Nodes]
  /\ ack \in [Nodes -> Stamps]
  /\ dirtyAt \in [Nodes -> Nat]
  /\ seenTerm \in [Nodes -> 0..MaxTerm]
  /\ seenLeader \in [Nodes -> Nodes \cup {NoNode}]
  /\ leaseLeader \in [Nodes -> BOOLEAN]
  /\ leaseExp \in [Nodes -> Nat]
  /\ anchor \in [Nodes -> Stamps]
  /\ view \in [Nodes -> Nodes \cup {NoNode}]
  /\ pg \in [Nodes -> {"standby", "primary"}]
  /\ ro \in [Nodes -> BOOLEAN]
  /\ opening \in [Nodes -> Stamps]
  /\ openAnchor \in [Nodes -> Stamps]

(***************************************************************************)
(* Contract L1: two nodes never take client writes at the same time,       *)
(* however elections, metrics, fence and passes interleave.                *)
(***************************************************************************)
AtMostOneWriter ==
  \A n, m \in Nodes : Writable(n) /\ Writable(m) => n = m

(***************************************************************************)
(* open_writes lets a leader through only when every other valid lease is  *)
(* a later leader's: the hold-down outlives any lease granted to a leader  *)
(* this one deposed, even when the governor has not seen the term yet when *)
(* the pass promotes.                                                      *)
(***************************************************************************)
GateSeesNoOlderLease ==
  [][\A n, m \in Nodes :
       /\ n # m /\ alive[m] /\ LeaseValid(m)
       /\ opening[n] = NoTime /\ opening'[n] # NoTime
       => Before(seenTerm[n], n, seenTerm[m], m)]_vars

(***************************************************************************)
(* LeaseState::renew: with more than one voter a valid lease ends at most   *)
(* one lease duration, and the delay of the metrics it was read from, after *)
(* the send time of the leader's last acknowledged round.                  *)
(***************************************************************************)
LeaseWithinDuration ==
  \A n \in Nodes : Cardinality(Nodes) > 1 /\ LeaseValid(n) /\ ack[n] # NoTime
                   => leaseExp[n] <= ack[n] + Lease + MetricsDelay

=============================================================================
