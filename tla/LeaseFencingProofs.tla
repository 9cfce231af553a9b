------------------------- MODULE LeaseFencingProofs -------------------------
(***************************************************************************)
(* Theorems about LeaseFencing for any voters and quorums.  The ones about *)
(* writers ask for a deployment within TimingMargins, and say so.          *)
(***************************************************************************)
EXTENDS LeaseFencing, FiniteSetTheorems, TLAPS

(***************************************************************************)
(* The numeric constants are natural numbers.                              *)
(***************************************************************************)
LEMMA ConstantsAreNat ==
  /\ Lease \in Nat /\ FollowerLease \in Nat /\ ElectionMin \in Nat
  /\ VoteTtl \in Nat /\ QuorumTimeout \in Nat /\ MetricsDelay \in Nat
  /\ FenceBound \in Nat /\ OpenBound \in Nat /\ RestartMin \in Nat
  /\ MaxCrashes \in Nat /\ MaxTerm \in Nat \ {0}
  BY NumbersAssumption DEF NumbersAssumption

(***************************************************************************)
(* A vote assignment of the right type keeps vote and dirtyAt typed.       *)
(***************************************************************************)
LEMMA SetVotesType ==
  ASSUME TypeOK, NEW new \in [Nodes -> Votes], SetVotes(new)
  PROVE  vote' \in [Nodes -> Votes] /\ dirtyAt' \in [Nodes -> Nat]
  BY DEF TypeOK, SetVotes

(***************************************************************************)
(* Every step keeps the state typed.                                       *)
(***************************************************************************)
LEMMA TypeStep == TypeOK /\ [Next]_vars => TypeOK'
<1> SUFFICES ASSUME TypeOK, [Next]_vars PROVE TypeOK'
  OBVIOUS
<1> USE ConstantsAreNat DEF Stamps
<1>1. CASE Tick
  BY <1>1 DEF Tick, TypeOK, raftVars, govVars, pgVars
<1>2. ASSUME NEW n \in Nodes, Campaign(n) PROVE TypeOK'
  <2> DEFINE new == [vote EXCEPT ![n] = Tally(n, @.term + 1, {n})]
  <2>1. new \in [Nodes -> Votes]
    BY <1>2 DEF Campaign, TypeOK, Tally, Votes
  <2>2. vote' \in [Nodes -> Votes] /\ dirtyAt' \in [Nodes -> Nat]
    BY <1>2, <2>1, SetVotesType DEF Campaign
  <2>3. /\ stood' \in [Nodes -> Nat]
        /\ granted' \in [Nodes -> SUBSET Nodes]
        /\ ack' \in [Nodes -> Nat \cup {NoTime}]
    BY <1>2 DEF Campaign, TypeOK
  <2> QED
    BY <1>2, <2>2, <2>3 DEF Campaign, TypeOK, govVars, pgVars
<1>3. ASSUME NEW n \in Nodes, NEW m \in Nodes, GrantVote(m, n) PROVE TypeOK'
  <2>1. PICK G \in SUBSET Nodes :
          /\ granted' = [granted EXCEPT ![n] = G]
          /\ SetVotes([vote EXCEPT ![m] = vote[n], ![n] = Tally(n, @.term, G)])
    BY <1>3 DEF GrantVote, TypeOK
  <2> DEFINE new == [vote EXCEPT ![m] = vote[n], ![n] = Tally(n, @.term, G)]
  <2>2. new \in [Nodes -> Votes]
    <3>1. vote[n] \in Votes /\ Tally(n, vote[n].term, G) \in Votes /\ m # n
      BY <1>3 DEF TypeOK, Tally, Votes, GrantVote
    <3> QED
      BY <3>1 DEF TypeOK
  <2>3. vote' \in [Nodes -> Votes] /\ dirtyAt' \in [Nodes -> Nat]
    BY <2>1, <2>2, SetVotesType
  <2> QED
    BY <1>3, <2>1, <2>3 DEF GrantVote, TypeOK, govVars, pgVars
<1>4. ASSUME NEW n \in Nodes, NEW S \in SUBSET Nodes, Heartbeat(n, S) PROVE TypeOK'
  <2> DEFINE new == [m \in Nodes |-> IF m \in S THEN vote[n] ELSE vote[m]]
  <2>1. new \in [Nodes -> Votes]
    BY <1>4 DEF TypeOK
  <2>2. vote' \in [Nodes -> Votes] /\ dirtyAt' \in [Nodes -> Nat]
    BY <1>4, <2>1, SetVotesType DEF Heartbeat
  <2> QED
    BY <1>4, <2>2 DEF Heartbeat, TypeOK, govVars, pgVars
<1>5. ASSUME NEW n \in Nodes, NEW lag \in 0..MetricsDelay, Process(n, lag) PROVE TypeOK'
  <2> DEFINE leader == RaftLeader(n)
             age == IF Cardinality(Nodes) = 1 THEN 0
                    ELSE IF ack[n] = NoTime THEN NoTime ELSE now - lag - ack[n]
             quorum == HasQuorumDecision(leader = n, leader, age)
             exp == IF leader = n /\ quorum THEN RenewedExpiry(age)
                    ELSE ExpiredBy(leaseExp[n])
  <2>1. leader \in Nodes \cup {NoNode}
    BY DEF TypeOK, RaftLeader, Votes
  <2>2. AnchorAfter(n, leader) \in Nat \cup {NoTime}
    BY DEF TypeOK, AnchorAfter
  <2>3. exp \in Nat
    <3>1. CASE leader = n /\ quorum
      <4>1. age # NoTime
        BY <3>1 DEF HasQuorumDecision, NoTime
      <4>2. age = 0 \/ (ack[n] \in Nat /\ age = now - lag - ack[n])
        BY <4>1 DEF TypeOK
      <4> QED
        BY <3>1, <4>2 DEF RenewedExpiry, TypeOK
    <3>2. CASE ~(leader = n /\ quorum)
      BY <3>2 DEF ExpiredBy, TypeOK
    <3> QED
      BY <3>1, <3>2
  <2>4. vote[n].term \in 0..MaxTerm
    BY DEF TypeOK, Votes
  <2>5. /\ leaseExp' = [leaseExp EXCEPT ![n] = exp]
        /\ anchor' = [anchor EXCEPT ![n] = AnchorAfter(n, leader)]
        /\ seenTerm' = [seenTerm EXCEPT ![n] = vote[n].term]
        /\ seenLeader' = [seenLeader EXCEPT ![n] = leader]
        /\ leaseLeader' = [leaseLeader EXCEPT ![n] = (leader = n)]
        /\ UNCHANGED <<now, raftVars, pgVars>>
    BY <1>5 DEF Process
  <2> HIDE DEF leader, exp
  <2> QED
    BY <2>1, <2>2, <2>3, <2>4, <2>5 DEF TypeOK, raftVars, pgVars
<1>6. ASSUME NEW n \in Nodes, FenceTick(n) PROVE TypeOK'
  BY <1>6 DEF FenceTick, TypeOK, raftVars, govVars
<1>7. ASSUME NEW n \in Nodes, BeginPass(n) PROVE TypeOK'
  BY <1>7 DEF BeginPass, TypeOK, raftVars, govVars, RaftLeader, Votes
<1>8. ASSUME NEW n \in Nodes, Promote(n) PROVE TypeOK'
  <2>1. pg' \in [Nodes -> {"standby", "primary"}]
    BY <1>8 DEF Promote, TypeOK
  <2>2. ro' \in [Nodes -> BOOLEAN]
    BY <1>8 DEF Promote, TypeOK
  <2>3. anchor' \in [Nodes -> Nat \cup {NoTime}]
    BY <1>8 DEF Promote, TypeOK
  <2> QED
    BY <1>8, <2>1, <2>2, <2>3 DEF Promote, TypeOK, raftVars, govVars
<1>9. ASSUME NEW n \in Nodes, OpenCheck(n) PROVE TypeOK'
  BY <1>9 DEF OpenCheck, TypeOK, raftVars, govVars
<1>10. ASSUME NEW n \in Nodes, OpenLand(n) PROVE TypeOK'
  BY <1>10 DEF OpenLand, SpendAnchor, TypeOK, raftVars, govVars
<1>11. ASSUME NEW n \in Nodes, OpenFail(n) PROVE TypeOK'
  <2>1. PICK landed \in BOOLEAN : ro' = [ro EXCEPT ![n] = @ /\ ~landed]
    BY <1>11 DEF OpenFail
  <2>2. ro' \in [Nodes -> BOOLEAN]
    BY <2>1 DEF TypeOK
  <2> QED
    BY <1>11, <2>2 DEF OpenFail, TypeOK, raftVars, govVars
<1>12. ASSUME NEW n \in Nodes, FindOpen(n) PROVE TypeOK'
  BY <1>12 DEF FindOpen, SpendAnchor, TypeOK, raftVars, govVars, pgVars
<1>13. ASSUME NEW n \in Nodes, Demote(n) PROVE TypeOK'
  BY <1>13 DEF Demote, TypeOK, raftVars, govVars
<1>14. ASSUME NEW n \in Nodes, Crash(n) PROVE TypeOK'
  BY <1>14 DEF Crash, TypeOK
<1>15. ASSUME NEW n \in Nodes, Restart(n) PROVE TypeOK'
  BY <1>15 DEF Restart, TypeOK, pgVars, Votes
<1>16. CASE UNCHANGED vars
  BY <1>16 DEF vars, TypeOK, raftVars, govVars, pgVars
<1> QED
  BY <1>1, <1>2, <1>3, <1>4, <1>5, <1>6, <1>7, <1>8, <1>9, <1>10, <1>11, <1>12,
     <1>13, <1>14, <1>15, <1>16 DEF Next

(***************************************************************************)
(* A bootstrapped cluster is typed.                                        *)
(***************************************************************************)
LEMMA InitTypeOK == Init => TypeOK
<1>1. Founder \in Nodes
  BY QuorumAssumption DEF QuorumAssumption
<1> QED
  BY <1>1, ConstantsAreNat DEF Init, TypeOK, Votes, Stamps, NoTime

(***************************************************************************)
(* Type correctness: every reachable state of the specification is typed,  *)
(* for any set of voters and any timing.                                   *)
(***************************************************************************)
THEOREM TypeCorrect == Spec => []TypeOK
  BY InitTypeOK, TypeStep, PTL DEF Spec

-----------------------------------------------------------------------------
(***************************************************************************)
(* The inductive invariant behind contract L1.                             *)
(*                                                                         *)
(* openraft's part says when a deposed leader's last round was: its voters *)
(* leave it no earlier than ElectionMin after it, and the successor stood  *)
(* at most VoteTtl before they could.  The node's own part says how long a *)
(* lease outlives the round it rests on and how long a writer outlives its *)
(* lease.  The part about pairs of nodes adds the two up: an earlier       *)
(* leaseholder or writer is past its time when a later one's hold-down     *)
(* ends.  Two cases make it long.  A leader may lose a term and win a      *)
(* later one before its governor sees either, so that it goes on writing   *)
(* (LeaderInv, second disjunct), and an open that passed its gate lands    *)
(* later than the lease it passed under (Armed).                           *)
(***************************************************************************)

\* Vote v is at least, or above, node n's claim to term t.
Reaches(v, t, n) == ~Before(v.term, v.node, t, n)
Above(v, t, n)   == Before(t, n, v.term, v.node)

\* Some quorum has moved to n's claim to term t or beyond it, or beyond it.
QuorumReaches(t, n) == \E Q \in Quorums : \A j \in Q : Reaches(vote[j], t, n)
QuorumAbove(t, n)   == \E Q \in Quorums : \A j \in Q : Above(vote[j], t, n)

\* Clocks and votes: term 1 is the founder's, stamps are in the past, and only a
\* running leader has an acknowledged round.
VoteInv ==
  \A n \in Nodes :
    /\ vote[n].term >= 1
    /\ vote[n].term = 1 => vote[n].node = Founder /\ vote[n].committed
    /\ stood[n] <= now /\ contact[n] <= now /\ dirtyAt[n] <= now
    /\ downAt[n] <= now /\ ack[n] <= now
    /\ ~alive[n] => stood[n] <= downAt[n] /\ crashes > 0
    /\ ack[n] # NoTime => alive[n] /\ RaftLeader(n) = n

\* The voters a candidate counts are no quorum yet, and have its vote or a later
\* one.
GrantedInv ==
  \A n \in Nodes : vote[n].node = n /\ ~vote[n].committed =>
    /\ granted[n] \notin Quorums
    /\ \A j \in granted[n] : Reaches(vote[j], vote[n].term, n)

\* Whoever is led after term 1 is led by a node that a quorum elected.
ElectedInv ==
  \A n \in Nodes : vote[n].committed /\ vote[n].term > 1 =>
    QuorumReaches(vote[n].term, vote[n].node)

\* The voters of an acknowledged round still follow that leader, or left it no
\* earlier than ElectionMin after the round.
Kept(n, v) ==
  \/ vote[v] = vote[n] /\ contact[v] >= ack[n]
  \/ Above(vote[v], vote[n].term, n) /\ now >= ack[n] + ElectionMin

RoundInv ==
  \A n \in Nodes : ack[n] # NoTime =>
    \E Q \in Quorums : n \in Q /\ \A v \in Q \ {n} : Kept(n, v)

\* A later leader stood for election at most VoteTtl before the round's voters
\* could leave.
SuccessorInv ==
  \A m, n \in Nodes :
    /\ m # n /\ RaftLeader(m) = m
    /\ ack[n] # NoTime /\ Above(vote[m], vote[n].term, n)
    => ack[n] + ElectionMin <= stood[m] + VoteTtl

RaftInv == VoteInv /\ GrantedInv /\ ElectedInv /\ RoundInv /\ SuccessorInv

\* What the governor saw last was so: a node that holds a lease was elected to
\* the term it saw and has not gone back behind it.
SeenInv ==
  \A n \in Nodes :
    /\ seenTerm[n] <= vote[n].term
    /\ alive[n] => seenTerm[n] >= 1
    /\ leaseLeader[n] =>
         /\ alive[n] /\ seenLeader[n] = n
         /\ Reaches(vote[n], seenTerm[n], n)
         /\ vote[n].term = seenTerm[n] /\ vote[n].node = n => vote[n].committed
         /\ seenTerm[n] > 1 => QuorumReaches(seenTerm[n], n)
         /\ seenTerm[n] = 1 => n = Founder

\* A valid lease rests on a recent round, or its leader's metrics are due.
LeaseInv ==
  \A n \in Nodes :
    /\ ~leaseLeader[n] => leaseExp[n] <= now
    /\ LeaseValid(n) /\ ~Dirty(n) =>
         ack[n] # NoTime /\ now <= ack[n] + QuorumTimeout + MetricsDelay
    /\ alive[n] /\ Dirty(n) => now <= dirtyAt[n] + MetricsDelay

\* When n's hold-down ends; while it has none, now.
Ripe(n) == IF anchor[n] = NoTime THEN now ELSE anchor[n] + Lease

\* When n stood for the term it is in; the founder did before time began.
Start(n) == IF vote[n].term = 1 THEN 0 - Hold ELSE stood[n]

\* The hold-down of a term a node stood for lasts Hold from then.
AnchorInv ==
  \A n \in Nodes :
    /\ anchor[n] <= now /\ (~alive[n] => anchor[n] = NoTime)
    /\ alive[n] /\ vote[n].node = n /\ seenTerm[n] = vote[n].term =>
         Start(n) + Hold <= Ripe(n)

\* n takes client writes, or an open that passed its gate is in flight.
Armed(n) == Writable(n) \/ opening[n] # NoTime

\* An open in flight started under a lease and past the hold-down it saw, and a
\* writer without a lease is within the fence's bound.
FenceInv ==
  \A n \in Nodes :
    /\ ~alive[n] => ro[n]
    /\ opening[n] # NoTime =>
         /\ alive[n] /\ opening[n] <= now
         /\ now <= opening[n] + OpenBound
         /\ opening[n] <= leaseExp[n]
         /\ openAnchor[n] # NoTime => openAnchor[n] + Lease <= opening[n]
    /\ Writable(n) => LeaseValid(n) \/ now <= leaseExp[n] + FenceBound

LocalInv == SeenInv /\ LeaseInv /\ AnchorInv /\ FenceInv

\* The latest time at which n still takes writes unless its lease is renewed.
Until(n) ==
  IF ~LeaseValid(n) THEN leaseExp[n] + FenceBound
  ELSE IF Dirty(n) THEN dirtyAt[n] + MetricsDelay + FenceBound
  ELSE ack[n] + QuorumTimeout + 2 * MetricsDelay + FenceBound

\* m's lease, if it has one, ends before m's hold-down does or has ended.
Late(m) ==
  \/ ack[m] = NoTime
  \/ ack[m] + QuorumTimeout + 2 * MetricsDelay < Start(m) + Hold
  \/ ack[m] + QuorumTimeout + MetricsDelay < now

\* Leader m against another writer n: n stops before m's hold-down ends, or a
\* quorum has left m for good and m's lease does not last to that end.
LeaderInv ==
  \A m, n \in Nodes :
    m # n /\ RaftLeader(m) = m /\ Armed(n) =>
      \/ Until(n) <= Start(m) + QuorumTimeout + 2 * MetricsDelay + FenceBound
      \/ QuorumAbove(vote[m].term, m) /\ Late(m)

\* A leaseholder that a later leader m deposed was so soon after m stood.
DeposedInv ==
  \A m, n \in Nodes :
    /\ RaftLeader(m) = m /\ LeaseValid(n) /\ Dirty(n)
    /\ Above(vote[m], seenTerm[n], n)
    => dirtyAt[n] <= stood[m] + QuorumTimeout + MetricsDelay

\* An earlier leader's last round is over, fence and all, when the hold-down of
\* a later leaseholder ends.
OlderRoundInv ==
  \A n, m \in Nodes :
    /\ LeaseValid(n) /\ ack[m] # NoTime
    /\ Before(vote[m].term, m, seenTerm[n], n)
    => ack[m] + QuorumTimeout + 3 * MetricsDelay + FenceBound < Ripe(n)

\* So is an earlier leaseholder that has been deposed.
OlderLeaseInv ==
  \A n, m \in Nodes :
    /\ LeaseValid(n) /\ LeaseValid(m) /\ Dirty(m)
    /\ Before(seenTerm[m], m, seenTerm[n], n)
    => dirtyAt[m] + 2 * MetricsDelay + FenceBound < Ripe(n)

\* While another node writes, a deposed leaseholder's governor acts before its
\* hold-down ends.
DeposedWriterInv ==
  \A n, m \in Nodes :
    n # m /\ LeaseValid(n) /\ Dirty(n) /\ Armed(m) =>
      dirtyAt[n] + MetricsDelay < Ripe(n)

\* One node at a time is past the gate.
ArmedInv == \A n, m \in Nodes : Armed(n) /\ Armed(m) => n = m

PairInv == /\ LeaderInv /\ DeposedInv /\ OlderRoundInv /\ OlderLeaseInv
           /\ DeposedWriterInv /\ ArmedInv

WriterInv == TypeOK /\ RaftInv /\ LocalInv /\ PairInv

-----------------------------------------------------------------------------
(***************************************************************************)
(* The margins, as the proofs use them.                                    *)
(***************************************************************************)
LEMMA Margins ==
  ASSUME TimingMargins
  PROVE
  /\ Hold \in Nat /\ Hold <= Lease /\ (MaxCrashes > 0 => Hold <= RestartMin)
  /\ VoteTtl <= ElectionMin /\ VoteTtl <= QuorumTimeout + MetricsDelay
  /\ ElectionMin <= FollowerLease /\ OpenBound <= FenceBound
  /\ QuorumTimeout + 3 * MetricsDelay + FenceBound < Hold
  /\ 2 * QuorumTimeout + 4 * MetricsDelay + FenceBound < Hold + ElectionMin
  BY ConstantsAreNat DEF TimingMargins, Hold

(***************************************************************************)
(* The components of a typed state.                                        *)
(***************************************************************************)
Components ==
  /\ now \in Nat
  /\ \A n \in Nodes :
       /\ n \in Nat /\ n # NoNode
       /\ vote[n].term \in Nat /\ vote[n].node \in Nodes /\ vote[n].node \in Nat
       /\ vote[n].committed \in BOOLEAN
       /\ downAt[n] \in Nat /\ contact[n] \in Nat /\ stood[n] \in Nat
       /\ dirtyAt[n] \in Nat /\ leaseExp[n] \in Nat /\ seenTerm[n] \in Nat
       /\ ack[n] \in Int /\ (ack[n] # NoTime => ack[n] \in Nat)
       /\ anchor[n] \in Int /\ (anchor[n] # NoTime => anchor[n] \in Nat)
       /\ opening[n] \in Int /\ (opening[n] # NoTime => opening[n] \in Nat)
       /\ openAnchor[n] \in Int /\ (openAnchor[n] # NoTime => openAnchor[n] \in Nat)
       /\ alive[n] \in BOOLEAN /\ leaseLeader[n] \in BOOLEAN /\ ro[n] \in BOOLEAN
       /\ seenLeader[n] \in Nat /\ view[n] \in Nat

\* What TypeOK says of each variable at each node.
LEMMA Typed == TypeOK => Components
<1> SUFFICES ASSUME TypeOK PROVE Components
  OBVIOUS
<1>0. now \in Nat
  BY DEF TypeOK
<1> SUFFICES ASSUME NEW n \in Nodes
             PROVE  Components!2!(n)
  BY <1>0 DEF Components
<1>1. n \in Nat /\ n # NoNode
  BY QuorumAssumption DEF QuorumAssumption
<1>2. vote[n] \in Votes
  BY DEF TypeOK
<1>3. /\ vote[n].term \in 0..MaxTerm /\ vote[n].node \in Nodes
      /\ vote[n].committed \in BOOLEAN
  BY <1>2 DEF Votes
<1>4. vote[n].term \in Nat /\ vote[n].node \in Nat
  <2>1. Nodes \subseteq Nat
    BY QuorumAssumption DEF QuorumAssumption
  <2>2. vote[n].node \in Nat
    BY <1>3, <2>1
  <2>3. vote[n].term \in Nat
    BY <1>3, ConstantsAreNat
  <2> QED
    BY <2>2, <2>3
<1>5. seenLeader[n] \in Nat /\ view[n] \in Nat
  <2>1. seenLeader[n] \in Nodes \cup {NoNode} /\ view[n] \in Nodes \cup {NoNode}
    BY DEF TypeOK
  <2>2. Nodes \subseteq Nat /\ NoNode \in Nat
    BY QuorumAssumption DEF QuorumAssumption, NoNode
  <2> QED
    BY <2>1, <2>2
<1> QED
  BY <1>1, <1>3, <1>4, <1>5, ConstantsAreNat DEF TypeOK, Stamps, NoTime

\* The same in the next state.
LEMMA TypedNext == TypeOK' => Components'
  BY Typed, PTL

(***************************************************************************)
(* Two quorums share a voter.                                              *)
(***************************************************************************)
LEMMA QuorumsMeet ==
  /\ \A Q \in Quorums : Q \subseteq Nodes
  /\ \A Q, R \in Quorums : \E v \in Nodes : v \in Q /\ v \in R
<1>1. \A Q \in Quorums : Q \subseteq Nodes
  BY QuorumAssumption DEF QuorumAssumption
<1>2. \A Q, R \in Quorums : Q \cap R # {}
  BY QuorumAssumption DEF QuorumAssumption
<1> QED
  BY <1>1, <1>2

(***************************************************************************)
(* A quorum that a claim has reached stays there while votes only grow.    *)
(***************************************************************************)
VotesGrow == \A j \in Nodes : Reaches(vote'[j], vote[j].term, vote[j].node)

\* A voter that has reached a claim, or passed it, has done so for good.
LEMMA ReachesStays ==
  ASSUME TypeOK, TypeOK', VotesGrow, NEW t \in Nat, NEW n \in Nat, NEW j \in Nodes
  PROVE  /\ Reaches(vote[j], t, n) => Reaches(vote'[j], t, n)
         /\ Above(vote[j], t, n) => Above(vote'[j], t, n)
<1>1. /\ vote[j].term \in Nat /\ vote[j].node \in Nat
      /\ vote'[j].term \in Nat /\ vote'[j].node \in Nat
  BY Typed, TypedNext DEF Components
<1> QED
  BY <1>1 DEF VotesGrow, Reaches, Above, Before

\* So has a quorum.
LEMMA QuorumStays ==
  ASSUME TypeOK, TypeOK', VotesGrow, NEW t \in Nat, NEW n \in Nat
  PROVE  /\ QuorumReaches(t, n) => QuorumReaches(t, n)'
         /\ QuorumAbove(t, n) => QuorumAbove(t, n)'
  BY ReachesStays, QuorumsMeet DEF QuorumReaches, QuorumAbove

(***************************************************************************)
(* What every step of openraft does to votes, rounds and leaders, and when *)
(* it makes the governor's view stale.                                     *)
(***************************************************************************)
RaftStep ==
  /\ UNCHANGED <<now, alive, govVars, anchor, pgVars>>
  /\ VotesGrow
  /\ \A n \in Nodes :
       /\ /\ vote'[n].term = vote[n].term /\ vote'[n].node = vote[n].node
          /\ vote[n].committed
          => vote'[n].committed
       /\ Dirty(n) => dirtyAt'[n] = dirtyAt[n]
       /\ ~Dirty(n) /\ Dirty(n)' => dirtyAt'[n] = now
       /\ \/ ack'[n] = NoTime /\ (RaftLeader(n) # n \/ RaftLeader(n)' # n)
          \/ ack'[n] = ack[n] /\ vote'[n] = vote[n]
          \/ /\ ack'[n] = now /\ vote'[n] = vote[n] /\ RaftLeader(n) = n
             /\ \E S \in Quorums : \A j \in S : vote'[j] = vote[n]
       /\ RaftLeader(n)' = n =>
            \/ RaftLeader(n) = n /\ vote'[n] = vote[n] /\ stood'[n] = stood[n]
            \/ ack'[n] = NoTime /\ now <= stood'[n] + VoteTtl /\ vote'[n].term > 1
       /\ vote'[n].node = n =>
            \/ vote'[n].term > vote[n].term
            \/ vote[n].node = n /\ vote'[n].term = vote[n].term /\ stood'[n] = stood[n]

\* A changed vote makes a fresh view stale now, and leaves a stale one as old as it was.
LEMMA DirtyStep ==
  ASSUME TypeOK, VoteInv, NEW new, SetVotes(new), UNCHANGED <<now, govVars>>,
         NEW n \in Nodes
  PROVE  /\ Dirty(n) => dirtyAt'[n] = dirtyAt[n]
         /\ ~Dirty(n) /\ Dirty(n)' => dirtyAt'[n] = now
         /\ dirtyAt'[n] <= now
<1>1. /\ vote'[n] = new[n]
      /\ dirtyAt'[n] = IF new[n] = vote[n] \/ Dirty(n) THEN dirtyAt[n] ELSE now
  BY DEF SetVotes
<1>2. vote'[n] = vote[n] => (Dirty(n)' <=> Dirty(n))
  BY DEF Dirty, RaftLeader, govVars
<1>3. dirtyAt[n] <= now /\ now \in Nat
  BY DEF VoteInv, TypeOK
<1> QED
  BY <1>1, <1>2, <1>3

(***************************************************************************)
(* A quorum above a leader's vote includes a voter of its last round, so   *)
(* the round is at least ElectionMin old.                                  *)
(***************************************************************************)
LeftLate ==
  \A k \in Nodes, t \in Nat, n \in Nat :
    ack[k] # NoTime /\ QuorumReaches(t, n) /\ Before(vote[k].term, k, t, n)
    => ack[k] + ElectionMin <= now

\* That follows from the rounds' voters alone.
LEMMA LeftLateHolds == TypeOK /\ VoteInv /\ RoundInv => LeftLate
<1> SUFFICES ASSUME TypeOK, VoteInv, RoundInv,
                    NEW k \in Nodes, NEW t \in Nat, NEW n \in Nat,
                    ack[k] # NoTime, QuorumReaches(t, n), Before(vote[k].term, k, t, n)
             PROVE  ack[k] + ElectionMin <= now
  BY DEF LeftLate
<1>1. Components
  BY Typed
<1>2. PICK Q \in Quorums : k \in Q /\ \A v \in Q \ {k} : Kept(k, v)
  BY DEF RoundInv
<1>3. PICK R \in Quorums : \A j \in R : Reaches(vote[j], t, n)
  BY DEF QuorumReaches
<1>4. PICK v \in Nodes : v \in Q /\ v \in R
  BY QuorumsMeet
<1>5. vote[k].node = k
  BY <1>1 DEF VoteInv, RaftLeader, Components
<1>6. Reaches(vote[v], t, n)
  BY <1>3, <1>4
<1>7. ~Reaches(vote[k], t, n)
  BY <1>5 DEF Reaches
<1>8. Kept(k, v)
  BY <1>2, <1>4, <1>6, <1>7
<1>9. vote[v] # vote[k]
  BY <1>6, <1>7
<1> QED
  BY <1>1, <1>8, <1>9, ConstantsAreNat DEF Kept, Components

\* The same in the next state.
LEMMA LeftLateNext == TypeOK' /\ VoteInv' /\ RoundInv' => LeftLate'
  BY LeftLateHolds, PTL

\* A campaign moves one vote to a new term: it counts one voter, keeps every
\* quorum that was reached, and takes the round of a leader it deposes.
LEMMA CampaignStep ==
  ASSUME TypeOK, TypeOK', RaftInv, NEW n \in Nodes, Campaign(n)
  PROVE  RaftStep /\ RaftInv'
<1> USE ConstantsAreNat
<1>1. Components /\ Components'
  BY Typed, TypedNext
<1>2. /\ vote'[n].term = vote[n].term + 1 /\ vote'[n].node = n
      /\ vote'[n].committed = ({n} \in Quorums)
      /\ \A j \in Nodes \ {n} : vote'[j] = vote[j]
  BY DEF Campaign, SetVotes, Tally, TypeOK
<1>3. /\ stood' = [stood EXCEPT ![n] = now] /\ granted' = [granted EXCEPT ![n] = {n}]
      /\ ack' = [ack EXCEPT ![n] = NoTime]
      /\ UNCHANGED <<now, alive, crashes, downAt, contact, govVars, anchor, pgVars>>
      /\ RaftLeader(n) # n /\ now >= contact[n] + ElectionMin /\ alive[n]
  BY DEF Campaign
<1>4. /\ stood'[n] = now /\ granted'[n] = {n} /\ ack'[n] = NoTime
      /\ \A j \in Nodes \ {n} : /\ stood'[j] = stood[j] /\ granted'[j] = granted[j]
                                /\ ack'[j] = ack[j]
  BY <1>3 DEF TypeOK
<1>5. VotesGrow
  BY <1>1, <1>2 DEF VotesGrow, Reaches, Before, Components
<1>6. RaftStep
  <2>1. \A j \in Nodes : /\ Dirty(j) => dirtyAt'[j] = dirtyAt[j]
                         /\ ~Dirty(j) /\ Dirty(j)' => dirtyAt'[j] = now
    BY <1>3, DirtyStep DEF Campaign, RaftInv
  <2>2. vote'[n].term > vote[n].term /\ vote'[n].term > 1
    BY <1>1, <1>2 DEF Components, RaftInv, VoteInv
  <2>3. \A j \in Nodes \ {n} : RaftLeader(j)' = RaftLeader(j)
    BY <1>2 DEF RaftLeader
  <2>4. now <= stood'[n] + VoteTtl
    BY <1>4, <1>1 DEF Components
  <2> QED
    BY <1>1, <1>2, <1>3, <1>4, <1>5, <2>1, <2>2, <2>3, <2>4 DEF RaftStep, Components
<1>7. VoteInv'
  <2>1. \A j \in Nodes : dirtyAt'[j] <= now
    BY <1>3, DirtyStep DEF Campaign, RaftInv
  <2>2. \A j \in Nodes \ {n} : RaftLeader(j)' = RaftLeader(j)
    BY <1>2 DEF RaftLeader
  <2>3. ack'[n] <= now' /\ stood'[n] <= now'
    BY <1>1, <1>3, <1>4 DEF Components, NoTime
  <2> QED
    BY <1>1, <1>2, <1>3, <1>4, <2>1, <2>2, <2>3 DEF VoteInv, RaftInv, Components
<1>8. GrantedInv'
  <2> SUFFICES ASSUME NEW k \in Nodes, vote'[k].node = k /\ ~vote'[k].committed
               PROVE  /\ granted'[k] \notin Quorums
                      /\ \A j \in granted'[k] : Reaches(vote'[j], vote'[k].term, k)
    BY DEF GrantedInv
  <2>1. CASE k = n
    <3>1. {n} \notin Quorums
      BY <1>2, <2>1
    <3>2. Reaches(vote'[n], vote'[n].term, n)
      BY <1>1, <1>2 DEF Reaches, Before, Components
    <3> QED
      BY <1>4, <2>1, <3>1, <3>2
  <2>2. CASE k # n
    <3>1. /\ granted'[k] \notin Quorums
          /\ \A j \in granted'[k] : j \in Nodes /\ Reaches(vote[j], vote[k].term, k)
      BY <1>2, <1>4, <2>2 DEF RaftInv, GrantedInv, TypeOK
    <3> QED
      BY <1>1, <1>2, <1>5, <2>2, <3>1, ReachesStays DEF Components
  <2> QED
    BY <2>1, <2>2
<1>9. ElectedInv'
  <2> SUFFICES ASSUME NEW k \in Nodes, vote'[k].committed, vote'[k].term > 1
               PROVE  QuorumReaches(vote[k].term, vote[k].node)'
    BY DEF ElectedInv
  <2>1. CASE k = n
    <3>1. {n} \in Quorums /\ Reaches(vote'[n], vote'[n].term, vote'[n].node)
      BY <1>1, <1>2, <2>1 DEF Components, Reaches, Before
    <3> QED
      BY <3>1, <2>1 DEF QuorumReaches
  <2>2. CASE k # n
    BY <1>1, <1>2, <1>5, <2>2, QuorumStays DEF RaftInv, ElectedInv, Components
  <2> QED
    BY <2>1, <2>2
<1>10. RoundInv'
  <2> SUFFICES ASSUME NEW k \in Nodes, ack'[k] # NoTime
               PROVE  \E Q \in Quorums : k \in Q /\ \A v \in Q \ {k} : Kept(k, v)'
    BY DEF RoundInv
  <2>1. k # n /\ ack[k] # NoTime /\ vote'[k] = vote[k] /\ ack'[k] = ack[k]
    BY <1>2, <1>4
  <2>2. PICK Q \in Quorums : k \in Q /\ \A v \in Q \ {k} : Kept(k, v)
    BY <2>1 DEF RaftInv, RoundInv
  <2>3. ASSUME NEW v \in Q \ {k} PROVE Kept(k, v)'
    <3>1. v \in Nodes /\ Kept(k, v)
      BY <2>2, QuorumsMeet
    <3>2. CASE v # n
      BY <1>2, <1>3, <2>1, <3>1, <3>2 DEF Kept
    <3>3. CASE v = n
      <4>1. vote[k].node = k
        BY <2>1, <1>1 DEF RaftInv, VoteInv, RaftLeader, Components
      <4>2. now >= ack[k] + ElectionMin
        BY <1>1, <1>3, <3>1, <3>3 DEF Kept, Components
      <4>3. Above(vote'[n], vote[k].term, k)
        BY <1>1, <1>2, <3>1, <3>3, <4>1 DEF Kept, Above, Before, Components
      <4> QED
        BY <1>3, <2>1, <3>3, <4>2, <4>3 DEF Kept
    <3> QED
      BY <3>2, <3>3
  <2> QED
    BY <2>2, <2>3
<1>11. SuccessorInv'
  <2> SUFFICES ASSUME NEW m \in Nodes, NEW k \in Nodes, m # k, RaftLeader(m)' = m,
                      ack'[k] # NoTime, Above(vote'[m], vote'[k].term, k)
               PROVE  ack'[k] + ElectionMin <= stood'[m] + VoteTtl
    BY DEF SuccessorInv
  <2>1. k # n /\ vote'[k] = vote[k] /\ ack'[k] = ack[k]
    BY <1>2, <1>4
  <2>2. CASE m = n
    <3>1. vote'[n].committed /\ vote'[n].node = n /\ vote'[n].term > 1
      BY <2>2, <1>1, <1>2 DEF RaftLeader, Components, RaftInv, VoteInv
    <3>2. QuorumReaches(vote[n].term, vote[n].node)'
      BY <1>9, <3>1 DEF ElectedInv
    <3>3. ack'[k] + ElectionMin <= now'
      BY <1>1, <1>7, <1>10, <2>2, <3>1, <3>2, LeftLateNext DEF LeftLate, Above, Components
    <3> QED
      BY <1>1, <1>3, <1>4, <2>2, <3>3 DEF Components
  <2>3. CASE m # n
    BY <1>2, <1>4, <2>1, <2>3 DEF RaftInv, SuccessorInv, RaftLeader
  <2> QED
    BY <2>2, <2>3
<1> QED
  BY <1>6, <1>7, <1>8, <1>9, <1>10, <1>11 DEF RaftInv

\* A granted vote moves the voter to the candidate's claim.  The voter of a round
\* leaves it no earlier than FollowerLease after it, and a winner is elected
\* within VoteTtl of its campaign.
LEMMA GrantVoteStep ==
  ASSUME TimingMargins, TypeOK, TypeOK', RaftInv, NEW n \in Nodes, NEW m \in Nodes, GrantVote(m, n)
  PROVE  RaftStep /\ RaftInv'
<1> USE ConstantsAreNat
<1>1. Components /\ Components'
  BY Typed, TypedNext
<1>2. /\ m # n /\ vote[n].node = n /\ ~vote[n].committed
      /\ Before(vote[m].term, vote[m].node, vote[n].term, n)
      /\ RaftLeader(m) \in Nodes \ {m} => now > contact[m] + FollowerLease
      /\ ack' = [ack EXCEPT ![m] = NoTime]
      /\ UNCHANGED <<now, alive, crashes, downAt, contact, stood, govVars, anchor, pgVars>>
  BY DEF GrantVote
<1>3. PICK G \in SUBSET Nodes :
        /\ \A j \in G : j \in granted[n] \/ j = m
        /\ G # granted[n] => now <= stood[n] + VoteTtl
        /\ granted' = [granted EXCEPT ![n] = G]
        /\ SetVotes([vote EXCEPT ![m] = vote[n], ![n] = Tally(n, @.term, G)])
  <2> DEFINE Counted(c) == IF c THEN granted[n] \cup {m} ELSE granted[n]
  <2>1. PICK c \in BOOLEAN :
          /\ c => now <= stood[n] + VoteTtl
          /\ granted' = [granted EXCEPT ![n] = Counted(c)]
          /\ SetVotes([vote EXCEPT ![m] = vote[n], ![n] = Tally(n, @.term, Counted(c))])
    BY DEF GrantVote
  <2>2. /\ Counted(c) \in SUBSET Nodes
        /\ \A j \in Counted(c) : j \in granted[n] \/ j = m
        /\ Counted(c) # granted[n] => c
    BY DEF TypeOK
  <2> HIDE DEF Counted
  <2> QED
    BY <2>1, <2>2
<1>4. /\ vote'[m] = vote[n]
      /\ vote'[n].term = vote[n].term /\ vote'[n].node = n
      /\ vote'[n].committed = (G \in Quorums)
      /\ \A j \in Nodes \ {m, n} : vote'[j] = vote[j]
  BY <1>2, <1>3 DEF SetVotes, Tally, TypeOK
<1>5. /\ ack'[m] = NoTime /\ \A j \in Nodes \ {m} : ack'[j] = ack[j]
      /\ granted'[n] = G /\ \A j \in Nodes \ {n} : granted'[j] = granted[j]
  BY <1>2, <1>3 DEF TypeOK
<1>6. /\ ack[n] = NoTime /\ ack'[n] = NoTime /\ RaftLeader(n) # n
      /\ G \in Quorums => now <= stood[n] + VoteTtl
  <2>1. RaftLeader(n) # n
    BY <1>1, <1>2 DEF RaftLeader, Components
  <2> QED
    BY <1>2, <1>3, <1>5, <2>1 DEF RaftInv, VoteInv, GrantedInv
<1>7. VotesGrow
  BY <1>1, <1>2, <1>4 DEF VotesGrow, Reaches, Before, Components
<1>8. /\ vote'[m].node # m /\ vote'[n].term > 1
      /\ RaftLeader(m)' # m
  BY <1>1, <1>2, <1>4 DEF Before, Components, RaftInv, VoteInv, RaftLeader
<1>9. \A j \in Nodes \ {m, n} : RaftLeader(j)' = RaftLeader(j)
  BY <1>4 DEF RaftLeader
<1>10. RaftLeader(n)' = n => G \in Quorums
  BY <1>1, <1>4 DEF RaftLeader, Components
<1>11. RaftStep
  <2>1. \A j \in Nodes : /\ Dirty(j) => dirtyAt'[j] = dirtyAt[j]
                         /\ ~Dirty(j) /\ Dirty(j)' => dirtyAt'[j] = now
    BY <1>2, <1>3, DirtyStep DEF RaftInv
  <2>2. ~(vote'[m].term = vote[m].term /\ vote'[m].node = vote[m].node)
    BY <1>1, <1>2, <1>4 DEF Before, Components
  <2> QED
    BY <1>1, <1>2, <1>4, <1>5, <1>6, <1>7, <1>8, <1>9, <1>10, <2>1, <2>2
       DEF RaftStep, Components
<1>12. VoteInv'
  <2>1. \A j \in Nodes : dirtyAt'[j] <= now
    BY <1>2, <1>3, DirtyStep DEF RaftInv
  <2>2. ack'[m] <= now'
    BY <1>1, <1>2, <1>5 DEF Components, NoTime
  <2>3. vote'[m].term > 1
    BY <1>1, <1>4, <1>8
  <2> QED
    BY <1>1, <1>2, <1>4, <1>5, <1>6, <1>8, <1>9, <2>1, <2>2, <2>3
       DEF VoteInv, RaftInv, Components
<1>13. GrantedInv'
  <2> SUFFICES ASSUME NEW k \in Nodes, vote'[k].node = k /\ ~vote'[k].committed
               PROVE  /\ granted'[k] \notin Quorums
                      /\ \A j \in granted'[k] : Reaches(vote'[j], vote'[k].term, k)
    BY DEF GrantedInv
  <2>1. CASE k = n
    <3>1. Reaches(vote'[m], vote[n].term, n)
      BY <1>1, <1>2, <1>4 DEF Reaches, Before, Components
    <3>2. \A j \in granted[n] : j \in Nodes /\ Reaches(vote[j], vote[n].term, n)
      BY <1>2 DEF RaftInv, GrantedInv, TypeOK
    <3>3. \A j \in granted[n] : Reaches(vote'[j], vote[n].term, n)
      BY <1>1, <1>7, <3>2, ReachesStays DEF Components
    <3> QED
      BY <1>3, <1>4, <1>5, <2>1, <3>1, <3>3
  <2>2. CASE k # n
    <3>1. vote'[k] = vote[k] /\ granted'[k] = granted[k]
      BY <1>4, <1>5, <1>8, <2>2
    <3>2. /\ granted'[k] \notin Quorums
          /\ \A j \in granted'[k] : j \in Nodes /\ Reaches(vote[j], vote[k].term, k)
      BY <3>1 DEF RaftInv, GrantedInv, TypeOK
    <3> QED
      BY <1>1, <1>7, <3>1, <3>2, ReachesStays DEF Components
  <2> QED
    BY <2>1, <2>2
<1>14. ElectedInv'
  <2> SUFFICES ASSUME NEW k \in Nodes, vote'[k].committed, vote'[k].term > 1
               PROVE  QuorumReaches(vote[k].term, vote[k].node)'
    BY DEF ElectedInv
  <2>1. CASE k = n
    <3>1. G \in Quorums
      BY <1>1, <1>4, <2>1 DEF Components
    <3>2. \A j \in G : Reaches(vote'[j], vote'[n].term, n)
      <4>1. Reaches(vote'[m], vote[n].term, n)
        BY <1>1, <1>2, <1>4 DEF Reaches, Before, Components
      <4>2. \A j \in granted[n] : j \in Nodes /\ Reaches(vote[j], vote[n].term, n)
        BY <1>2 DEF RaftInv, GrantedInv, TypeOK
      <4>3. \A j \in granted[n] : Reaches(vote'[j], vote[n].term, n)
        BY <1>1, <1>7, <4>2, ReachesStays DEF Components
      <4> QED
        BY <1>3, <1>4, <4>1, <4>3
    <3> QED
      BY <1>4, <2>1, <3>1, <3>2 DEF QuorumReaches
  <2>2. CASE k # n
    <3>1. k # m
      BY <1>2, <1>4
    <3> QED
      BY <1>1, <1>4, <1>7, <2>2, <3>1, QuorumStays DEF RaftInv, ElectedInv, Components
  <2> QED
    BY <2>1, <2>2
<1>15. RoundInv'
  <2> SUFFICES ASSUME NEW k \in Nodes, ack'[k] # NoTime
               PROVE  \E Q \in Quorums : k \in Q /\ \A v \in Q \ {k} : Kept(k, v)'
    BY DEF RoundInv
  <2>1. /\ k \notin {m, n} /\ vote'[k] = vote[k]
        /\ ack[k] # NoTime /\ ack'[k] = ack[k]
    BY <1>4, <1>5, <1>6
  <2>2. PICK Q \in Quorums : k \in Q /\ \A v \in Q \ {k} : Kept(k, v)
    BY <2>1 DEF RaftInv, RoundInv
  <2>3. vote[k].node = k /\ vote[k].committed
    BY <2>1, <1>1 DEF RaftInv, VoteInv, RaftLeader, Components
  <2>4. ASSUME NEW v \in Q \ {k} PROVE Kept(k, v)'
    <3>1. v \in Nodes /\ Kept(k, v)
      BY <2>2, QuorumsMeet
    <3>2. CASE v \notin {m, n}
      BY <1>2, <1>4, <2>1, <3>1, <3>2 DEF Kept
    <3>3. CASE Above(vote[v], vote[k].term, k) /\ now >= ack[k] + ElectionMin
      <4>1. Above(vote'[v], vote[k].term, k)
        BY <1>1, <1>7, <3>1, <3>3, ReachesStays DEF Components
      <4> QED
        BY <1>2, <2>1, <3>3, <4>1 DEF Kept
    <3>4. CASE v = m /\ vote[v] = vote[k] /\ contact[v] >= ack[k]
      <4>1. now > contact[m] + FollowerLease
        BY <1>2, <2>1, <2>3, <3>4 DEF RaftLeader
      <4>2. now >= ack[k] + ElectionMin
        BY <1>1, <3>4, <4>1, Margins DEF Components
      <4>3. Above(vote'[m], vote[k].term, k)
        BY <1>2, <1>4, <2>3, <3>4 DEF Above
      <4> QED
        BY <1>2, <2>1, <3>4, <4>2, <4>3 DEF Kept
    <3>5. CASE v = n /\ vote[v] = vote[k]
      BY <1>2, <2>1, <2>3, <3>5
    <3> QED
      BY <3>1, <3>2, <3>3, <3>4, <3>5 DEF Kept
  <2> QED
    BY <2>2, <2>4
<1>16. SuccessorInv'
  <2> SUFFICES ASSUME NEW a \in Nodes, NEW k \in Nodes, a # k, RaftLeader(a)' = a,
                      ack'[k] # NoTime, Above(vote'[a], vote'[k].term, k)
               PROVE  ack'[k] + ElectionMin <= stood'[a] + VoteTtl
    BY DEF SuccessorInv
  <2>1. k \notin {m, n} /\ vote'[k] = vote[k] /\ ack'[k] = ack[k] /\ a # m
    BY <1>4, <1>5, <1>6, <1>8
  <2>2. CASE a = n
    <3>1. G \in Quorums /\ now <= stood[n] + VoteTtl
      BY <1>6, <1>10, <2>2
    <3>2. QuorumReaches(vote[n].term, vote[n].node)'
      BY <1>4, <1>8, <1>14, <3>1 DEF ElectedInv
    <3>3. ack'[k] + ElectionMin <= now'
      BY <1>1, <1>4, <1>12, <1>15, <2>2, <3>2, LeftLateNext DEF LeftLate, Above, Components
    <3> QED
      BY <1>1, <1>2, <2>1, <2>2, <3>1, <3>3 DEF Components
  <2>3. CASE a # n
    BY <1>2, <1>4, <1>9, <2>1, <2>3 DEF RaftInv, SuccessorInv
  <2> QED
    BY <2>2, <2>3
<1> QED
  BY <1>11, <1>12, <1>13, <1>14, <1>15, <1>16 DEF RaftInv

\* An append brings its voters to the leader's vote.  The quorum that answers is
\* the new round, and no later leader can have been elected before.
LEMMA HeartbeatStep ==
  ASSUME TypeOK, TypeOK', RaftInv, NEW n \in Nodes, NEW S \in SUBSET Nodes,
         Heartbeat(n, S)
  PROVE  RaftStep /\ RaftInv'
<1> USE ConstantsAreNat
<1>1. Components /\ Components'
  BY Typed, TypedNext
<1>2. /\ alive[n] /\ RaftLeader(n) = n /\ n \in S
      /\ \A j \in S \ {n} : /\ alive[j]
                            /\ ~Before(vote[n].term, n, vote[j].term, vote[j].node)
      /\ UNCHANGED <<now, alive, crashes, downAt, stood, granted, govVars, anchor, pgVars>>
  BY DEF Heartbeat
<1>3. vote[n].node = n /\ vote[n].committed
  BY <1>1, <1>2 DEF RaftLeader, Components
<1>4. /\ \A j \in S : vote'[j] = vote[n]
      /\ \A j \in Nodes \ S : vote'[j] = vote[j]
      /\ \A j \in S \ {n} : contact'[j] = now
      /\ \A j \in Nodes : j \notin S \ {n} => contact'[j] = contact[j]
  BY DEF Heartbeat, SetVotes
<1>5. /\ \A j \in S \ {n} : ack'[j] = NoTime
      /\ \A j \in Nodes \ S : ack'[j] = ack[j]
      /\ ack'[n] = IF S \in Quorums THEN now ELSE ack[n]
  BY <1>2 DEF Heartbeat
<1>6. VotesGrow
  <2> SUFFICES ASSUME NEW j \in Nodes
               PROVE  Reaches(vote'[j], vote[j].term, vote[j].node)
    BY DEF VotesGrow
  <2>1. CASE j \in S \ {n}
    BY <1>2, <1>3, <1>4, <2>1 DEF Reaches
  <2>2. CASE j \notin S \ {n}
    BY <1>1, <1>2, <1>4, <2>2 DEF Reaches, Before, Components
  <2> QED
    BY <2>1, <2>2
<1>7. /\ \A j \in S \ {n} : RaftLeader(j)' # j /\ vote'[j].node # j
      /\ \A j \in Nodes : j \notin S \ {n} =>
           RaftLeader(j)' = RaftLeader(j) /\ vote'[j] = vote[j]
  BY <1>2, <1>3, <1>4 DEF RaftLeader
<1>8. RaftStep
  <2>1. \A j \in Nodes : /\ Dirty(j) => dirtyAt'[j] = dirtyAt[j]
                         /\ ~Dirty(j) /\ Dirty(j)' => dirtyAt'[j] = now
    BY <1>2, DirtyStep DEF Heartbeat, RaftInv
  <2> SUFFICES ASSUME NEW j \in Nodes
               PROVE  /\ /\ vote'[j].term = vote[j].term /\ vote'[j].node = vote[j].node
                         /\ vote[j].committed
                         => vote'[j].committed
                      /\ \/ ack'[j] = NoTime /\ RaftLeader(j)' # j
                         \/ ack'[j] = ack[j] /\ vote'[j] = vote[j]
                         \/ /\ ack'[j] = now /\ vote'[j] = vote[j] /\ RaftLeader(j) = j
                            /\ \E R \in Quorums : \A i \in R : vote'[i] = vote[j]
                      /\ RaftLeader(j)' = j =>
                           RaftLeader(j) = j /\ vote'[j] = vote[j] /\ stood'[j] = stood[j]
                      /\ vote'[j].node = j =>
                           /\ vote[j].node = j /\ vote'[j].term = vote[j].term
                           /\ stood'[j] = stood[j]
    BY <1>2, <1>6, <2>1 DEF RaftStep
  <2>2. CASE j \in S \ {n}
    BY <1>3, <1>4, <1>5, <1>7, <2>2
  <2>3. CASE j = n
    BY <1>2, <1>4, <1>5, <1>7, <2>3
  <2>4. CASE j \notin S
    BY <1>2, <1>4, <1>5, <1>7, <2>4
  <2> QED
    BY <2>2, <2>3, <2>4
<1>9. VoteInv'
  <2>1. \A j \in Nodes : dirtyAt'[j] <= now
    BY <1>2, DirtyStep DEF Heartbeat, RaftInv
  <2>2. \A j \in Nodes : ack'[j] <= now
    BY <1>1, <1>2, <1>5 DEF Components, NoTime, RaftInv, VoteInv
  <2>3. \A j \in Nodes : contact'[j] <= now
    BY <1>1, <1>2, <1>4 DEF Components, RaftInv, VoteInv
  <2>4. \A j \in Nodes : /\ vote'[j].term >= 1
                         /\ vote'[j].term = 1 => vote'[j].node = Founder /\ vote'[j].committed
    BY <1>4 DEF RaftInv, VoteInv
  <2>5. \A j \in Nodes : ack'[j] # NoTime => alive'[j] /\ RaftLeader(j)' = j
    BY <1>2, <1>5, <1>7 DEF RaftInv, VoteInv
  <2> QED
    BY <1>2, <2>1, <2>2, <2>3, <2>4, <2>5 DEF VoteInv, RaftInv
<1>10. GrantedInv'
  <2> SUFFICES ASSUME NEW k \in Nodes, vote'[k].node = k /\ ~vote'[k].committed
               PROVE  /\ granted'[k] \notin Quorums
                      /\ \A j \in granted'[k] : Reaches(vote'[j], vote'[k].term, k)
    BY DEF GrantedInv
  <2>1. vote'[k] = vote[k] /\ granted'[k] = granted[k]
    BY <1>2, <1>3, <1>4
  <2>2. /\ granted'[k] \notin Quorums
        /\ \A j \in granted'[k] : j \in Nodes /\ Reaches(vote[j], vote[k].term, k)
    BY <2>1 DEF RaftInv, GrantedInv, TypeOK
  <2> QED
    BY <1>1, <1>6, <2>1, <2>2, ReachesStays DEF Components
<1>11. ElectedInv'
  <2> SUFFICES ASSUME NEW k \in Nodes, vote'[k].committed, vote'[k].term > 1
               PROVE  QuorumReaches(vote[k].term, vote[k].node)'
    BY DEF ElectedInv
  <2>1. PICK i \in Nodes : vote'[k] = vote[i]
    BY <1>4
  <2>2. QuorumReaches(vote[i].term, vote[i].node)
    BY <2>1 DEF RaftInv, ElectedInv
  <2>3. vote[i].term \in Nat /\ vote[i].node \in Nat
    BY <1>1 DEF Components
  <2>4. \E Q \in Quorums : \A j \in Q : Reaches(vote'[j], vote[i].term, vote[i].node)
    BY <1>6, <2>2, <2>3, ReachesStays, QuorumsMeet DEF QuorumReaches
  <2> QED
    BY <2>1, <2>4 DEF QuorumReaches
<1>12. RoundInv'
  <2> SUFFICES ASSUME NEW k \in Nodes, ack'[k] # NoTime
               PROVE  \E Q \in Quorums : k \in Q /\ \A v \in Q \ {k} : Kept(k, v)'
    BY DEF RoundInv
  <2>1. CASE k = n /\ S \in Quorums
    <3>1. \A v \in S \ {n} : Kept(n, v)'
      BY <1>1, <1>2, <1>4, <1>5, <2>1 DEF Kept, Components
    <3> QED
      BY <1>2, <2>1, <3>1
  <2>2. CASE ~(k = n /\ S \in Quorums)
    <3>1. /\ k \notin S \ {n} /\ vote'[k] = vote[k]
          /\ ack[k] # NoTime /\ ack'[k] = ack[k]
      BY <1>4, <1>5, <2>2
    <3>2. PICK Q \in Quorums : k \in Q /\ \A v \in Q \ {k} : Kept(k, v)
      BY <3>1 DEF RaftInv, RoundInv
    <3>3. vote[k].node = k
      BY <3>1, <1>1 DEF RaftInv, VoteInv, RaftLeader, Components
    <3>4. ASSUME NEW v \in Q \ {k} PROVE Kept(k, v)'
      <4>1. v \in Nodes /\ Kept(k, v)
        BY <3>2, QuorumsMeet
      <4>2. CASE v \notin S \ {n}
        BY <1>2, <1>4, <1>7, <3>1, <4>1, <4>2 DEF Kept
      <4>3. CASE v \in S \ {n} /\ k = n
        <5>1. vote'[v] = vote'[k] /\ contact'[v] = now /\ ack'[k] <= now
          BY <1>2, <1>4, <3>1, <4>3 DEF RaftInv, VoteInv
        <5> QED
          BY <1>1, <5>1 DEF Kept, Components
      <4>4. CASE Above(vote[v], vote[k].term, k) /\ now >= ack[k] + ElectionMin
        <5>1. Above(vote'[v], vote[k].term, k)
          BY <1>1, <1>6, <4>1, <4>4, ReachesStays DEF Components
        <5> QED
          BY <1>2, <3>1, <4>4, <5>1 DEF Kept
      <4>5. CASE v \in S \ {n} /\ k # n /\ vote[v] = vote[k]
        <5>1. Before(vote[k].term, k, vote[n].term, n)
          <6>1. ~Before(vote[n].term, n, vote[k].term, k)
            BY <1>2, <3>3, <4>5
          <6>2. /\ vote[n].term \in Nat /\ vote[k].term \in Nat
                /\ n \in Nat /\ k \in Nat /\ k # n
            BY <1>1, <4>5 DEF Components
          <6> QED
            BY <6>1, <6>2 DEF Before
        <5>2. vote[n].term > 1
          BY <1>1, <1>3, <3>3, <4>5, <5>1 DEF Before, Components, RaftInv, VoteInv
        <5>3. QuorumReaches(vote[n].term, n)
          BY <1>3, <5>2 DEF RaftInv, ElectedInv
        <5>4. now >= ack[k] + ElectionMin
          BY <1>1, <3>1, <5>1, <5>3, LeftLateHolds DEF LeftLate, Components, RaftInv
        <5>5. Above(vote'[v], vote[k].term, k)
          BY <1>3, <1>4, <4>5, <5>1 DEF Above
        <5> QED
          BY <1>2, <3>1, <5>4, <5>5 DEF Kept
      <4> QED
        BY <4>1, <4>2, <4>3, <4>4, <4>5 DEF Kept
    <3> QED
      BY <3>2, <3>4
  <2> QED
    BY <2>1, <2>2
<1>13. SuccessorInv'
  <2> SUFFICES ASSUME NEW a \in Nodes, NEW k \in Nodes, a # k, RaftLeader(a)' = a,
                      ack'[k] # NoTime, Above(vote'[a], vote'[k].term, k)
               PROVE  ack'[k] + ElectionMin <= stood'[a] + VoteTtl
    BY DEF SuccessorInv
  <2>1. a \notin S \ {n} /\ vote'[a] = vote[a] /\ RaftLeader(a) = a
    BY <1>7
  <2>2. CASE k = n /\ S \in Quorums
    <3>1. vote'[a].committed /\ vote'[a].node = a
      BY <1>1, <2>1 DEF RaftLeader, Components
    <3>2. vote'[a].term > 1
      BY <1>1, <1>3, <1>4, <1>2, <2>2, <3>1, <1>9 DEF Above, Before, Components, VoteInv
    <3>3. PICK R \in Quorums : \A j \in R : Reaches(vote'[j], vote'[a].term, a)
      BY <1>11, <3>1, <3>2 DEF ElectedInv, QuorumReaches
    <3>4. PICK v \in Nodes : v \in R /\ v \in S
      BY <2>2, QuorumsMeet
    <3>5. Reaches(vote[n], vote'[a].term, a)
      BY <1>4, <3>3, <3>4
    <3> QED
      BY <1>2, <1>3, <1>4, <2>2, <3>1, <3>5 DEF Reaches, Above
  <2>3. CASE ~(k = n /\ S \in Quorums)
    <3>1. vote'[k] = vote[k] /\ ack'[k] = ack[k]
      BY <1>4, <1>5, <1>7, <2>3
    <3> QED
      BY <1>2, <2>1, <3>1 DEF RaftInv, SuccessorInv
  <2> QED
    BY <2>2, <2>3
<1> QED
  BY <1>8, <1>9, <1>10, <1>11, <1>12, <1>13 DEF RaftInv

(***************************************************************************)
(* The clock, a crash, a restart and every step that leaves openraft alone *)
(* keep its part of the invariant.                                         *)
(***************************************************************************)
LEMMA RaftKept ==
  ASSUME RaftInv, UNCHANGED <<now, raftVars>>
  PROVE  RaftInv'
<1>1. \A t, n : QuorumReaches(t, n)' <=> QuorumReaches(t, n)
  BY DEF QuorumReaches, raftVars
<1>2. \A n, v : Kept(n, v)' <=> Kept(n, v)
  BY DEF Kept, raftVars
<1>3. \A n : RaftLeader(n)' = RaftLeader(n)
  BY DEF RaftLeader, raftVars
<1>4. VoteInv'
  BY <1>3 DEF RaftInv, VoteInv, raftVars
<1>5. GrantedInv'
  BY DEF RaftInv, GrantedInv, raftVars
<1>6. ElectedInv'
  BY <1>1 DEF RaftInv, ElectedInv, raftVars
<1>7. RoundInv'
  BY <1>2 DEF RaftInv, RoundInv, raftVars
<1>8. SuccessorInv'
  BY <1>3 DEF RaftInv, SuccessorInv, raftVars
<1> QED
  BY <1>4, <1>5, <1>6, <1>7, <1>8 DEF RaftInv

\* Time only lets the voters of a round leave it.
LEMMA RaftTick ==
  ASSUME TypeOK, RaftInv, Tick
  PROVE  RaftInv'
<1> USE ConstantsAreNat
<1>1. Components
  BY Typed
<1>2. now' = now + 1 /\ UNCHANGED raftVars
  BY DEF Tick
<1>3. VoteInv'
  BY <1>1, <1>2 DEF RaftInv, VoteInv, raftVars, RaftLeader, Components
<1>4. GrantedInv'
  BY <1>2 DEF RaftInv, GrantedInv, raftVars
<1>5. ElectedInv'
  BY <1>2 DEF RaftInv, ElectedInv, raftVars, QuorumReaches
<1>6. RoundInv'
  <2>1. ASSUME NEW n \in Nodes, NEW v \in Nodes, Kept(n, v) PROVE Kept(n, v)'
    BY <1>1, <1>2, <2>1 DEF Kept, raftVars, Components
  <2> SUFFICES ASSUME NEW n \in Nodes, ack'[n] # NoTime
               PROVE  \E Q \in Quorums : n \in Q /\ \A v \in Q \ {n} : Kept(n, v)'
    BY DEF RoundInv
  <2>2. PICK Q \in Quorums : n \in Q /\ \A v \in Q \ {n} : Kept(n, v)
    BY <1>2 DEF RaftInv, RoundInv, raftVars
  <2>3. \A v \in Q \ {n} : Kept(n, v)'
    BY <2>1, <2>2, QuorumsMeet
  <2> QED
    BY <2>2, <2>3
<1>7. SuccessorInv'
  BY <1>2 DEF RaftInv, SuccessorInv, raftVars, RaftLeader
<1> QED
  BY <1>3, <1>4, <1>5, <1>6, <1>7 DEF RaftInv

\* A crash takes the round and the counted votes, and no vote.
LEMMA RaftCrash ==
  ASSUME TypeOK, RaftInv, NEW n \in Nodes, Crash(n)
  PROVE  RaftInv'
<1>1. Components
  BY Typed
<1>2. /\ UNCHANGED <<now, vote, contact, stood, dirtyAt>>
      /\ alive' = [alive EXCEPT ![n] = FALSE]
      /\ downAt' = [downAt EXCEPT ![n] = now]
      /\ granted' = [granted EXCEPT ![n] = {}]
      /\ ack' = [ack EXCEPT ![n] = NoTime] /\ crashes' = crashes + 1
  BY DEF Crash
<1>3. /\ ~alive'[n] /\ downAt'[n] = now /\ granted'[n] = {} /\ ack'[n] = NoTime
      /\ \A j \in Nodes \ {n} : /\ alive'[j] = alive[j] /\ downAt'[j] = downAt[j]
                                /\ granted'[j] = granted[j] /\ ack'[j] = ack[j]
  BY <1>2 DEF TypeOK
<1>4. \A j : RaftLeader(j)' = RaftLeader(j)
  BY <1>2 DEF RaftLeader
<1>5. VoteInv'
  <2>1. ack'[n] <= now
    BY <1>1, <1>3 DEF Components, NoTime
  <2>2. now <= now /\ crashes' > 0
    BY <1>1, <1>2 DEF Components, TypeOK
  <2> QED
    BY <1>2, <1>3, <1>4, <2>1, <2>2 DEF RaftInv, VoteInv
<1>6. GrantedInv'
  <2>1. {} \notin Quorums
    BY QuorumsMeet
  <2> QED
    BY <1>2, <1>3, <2>1 DEF RaftInv, GrantedInv
<1>7. ElectedInv'
  BY <1>2 DEF RaftInv, ElectedInv, QuorumReaches
<1>8. RoundInv'
  <2> SUFFICES ASSUME NEW k \in Nodes, ack'[k] # NoTime
               PROVE  \E Q \in Quorums : k \in Q /\ \A v \in Q \ {k} : Kept(k, v)'
    BY DEF RoundInv
  <2>1. ack'[k] = ack[k]
    BY <1>3
  <2>2. \A v \in Nodes : Kept(k, v)' <=> Kept(k, v)
    BY <1>2, <2>1 DEF Kept
  <2> QED
    BY <2>1, <2>2, QuorumsMeet DEF RaftInv, RoundInv
<1>9. SuccessorInv'
  BY <1>2, <1>3, <1>4 DEF RaftInv, SuccessorInv
<1> QED
  BY <1>5, <1>6, <1>7, <1>8, <1>9 DEF RaftInv

\* A restart dates the leader contact to now, so its voters leave no earlier.
LEMMA RaftRestart ==
  ASSUME TypeOK, RaftInv, NEW n \in Nodes, Restart(n)
  PROVE  RaftInv'
<1>1. Components
  BY Typed
<1>2. /\ UNCHANGED <<now, crashes, vote, stood, downAt, granted, ack>>
      /\ alive' = [alive EXCEPT ![n] = TRUE]
      /\ contact' = [contact EXCEPT ![n] = now]
      /\ dirtyAt' = [dirtyAt EXCEPT ![n] = now]
  BY DEF Restart
<1>3. /\ alive'[n] /\ contact'[n] = now /\ dirtyAt'[n] = now
      /\ \A j \in Nodes \ {n} : /\ alive'[j] = alive[j] /\ contact'[j] = contact[j]
                                /\ dirtyAt'[j] = dirtyAt[j]
  BY <1>2 DEF TypeOK
<1>4. \A j : RaftLeader(j)' = RaftLeader(j)
  BY <1>2 DEF RaftLeader
<1>5. VoteInv'
  <2>1. now <= now
    BY <1>1 DEF Components
  <2> QED
    BY <1>2, <1>3, <1>4, <2>1 DEF RaftInv, VoteInv
<1>6. GrantedInv'
  BY <1>2 DEF RaftInv, GrantedInv
<1>7. ElectedInv'
  BY <1>2 DEF RaftInv, ElectedInv, QuorumReaches
<1>8. RoundInv'
  <2> SUFFICES ASSUME NEW k \in Nodes, ack'[k] # NoTime
               PROVE  \E Q \in Quorums : k \in Q /\ \A v \in Q \ {k} : Kept(k, v)'
    BY DEF RoundInv
  <2>1. ASSUME NEW v \in Nodes, Kept(k, v) PROVE Kept(k, v)'
    <3>1. contact'[v] >= contact[v] /\ ack[k] <= now
      BY <1>1, <1>3 DEF RaftInv, VoteInv, Components
    <3> QED
      BY <1>1, <1>2, <1>3, <2>1, <3>1 DEF Kept, Components
  <2> QED
    BY <1>2, <2>1, QuorumsMeet DEF RaftInv, RoundInv
<1>9. SuccessorInv'
  BY <1>2, <1>4 DEF RaftInv, SuccessorInv
<1> QED
  BY <1>5, <1>6, <1>7, <1>8, <1>9 DEF RaftInv

-----------------------------------------------------------------------------
(***************************************************************************)
(* A leaseholder's view is stale exactly when its vote has moved on.       *)
(***************************************************************************)
DirtyMeans ==
  \A n \in Nodes : leaseLeader[n] =>
    /\ Dirty(n) => Above(vote[n], seenTerm[n], n)
    /\ ~Dirty(n) => /\ vote[n].term = seenTerm[n] /\ vote[n].node = n
                    /\ vote[n].committed /\ RaftLeader(n) = n

\* That follows from what the governor saw last.
LEMMA DirtyMeansHolds == TypeOK /\ SeenInv => DirtyMeans
<1> SUFFICES ASSUME TypeOK, SeenInv, NEW n \in Nodes, leaseLeader[n]
             PROVE  /\ Dirty(n) => Above(vote[n], seenTerm[n], n)
                    /\ ~Dirty(n) => /\ vote[n].term = seenTerm[n] /\ vote[n].node = n
                                    /\ vote[n].committed /\ RaftLeader(n) = n
  BY DEF DirtyMeans
<1>1. Components
  BY Typed
<1>2. /\ seenLeader[n] = n /\ Reaches(vote[n], seenTerm[n], n)
      /\ vote[n].term = seenTerm[n] /\ vote[n].node = n => vote[n].committed
  BY DEF SeenInv
<1>3. Dirty(n) => Above(vote[n], seenTerm[n], n)
  <2>1. Dirty(n) => ~(vote[n].term = seenTerm[n] /\ vote[n].node = n)
    BY <1>2 DEF Dirty, RaftLeader
  <2>2. /\ vote[n].term \in Nat /\ vote[n].node \in Nat /\ seenTerm[n] \in Nat
        /\ n \in Nat
    BY <1>1 DEF Components
  <2> QED
    BY <1>2, <2>1, <2>2 DEF Reaches, Above, Before
<1>4. ASSUME ~Dirty(n)
      PROVE  /\ vote[n].term = seenTerm[n] /\ vote[n].node = n
             /\ vote[n].committed /\ RaftLeader(n) = n
  <2>1. RaftLeader(n) = n /\ vote[n].term = seenTerm[n] /\ n # NoNode
    BY <1>1, <1>2, <1>4 DEF Dirty, Components
  <2> QED
    BY <2>1 DEF RaftLeader
<1> QED
  BY <1>3, <1>4

\* The same in the next state.
LEMMA DirtyMeansNext == TypeOK' /\ SeenInv' => DirtyMeans'
  BY DirtyMeansHolds, PTL

(***************************************************************************)
(* A node that takes writes is before the end of its time.                 *)
(***************************************************************************)
LEMMA ArmedUntil ==
  ASSUME TimingMargins, TypeOK, LocalInv, NEW n \in Nodes, Armed(n)
  PROVE  now <= Until(n) /\ Until(n) \in Int
<1>1. Components /\ Until(n) \in Int
  BY Typed, ConstantsAreNat DEF Until, Components
<1>2. CASE ~LeaseValid(n)
  <2>1. now <= leaseExp[n] + FenceBound
    BY <1>1, <1>2, Margins, ConstantsAreNat DEF LocalInv, FenceInv, Armed, Components
  <2> QED
    BY <1>1, <1>2, <2>1 DEF Until
<1>3. CASE LeaseValid(n) /\ Dirty(n)
  BY <1>1, <1>3, ConstantsAreNat
     DEF LocalInv, SeenInv, LeaseInv, LeaseValid, Until, Components
<1>4. CASE LeaseValid(n) /\ ~Dirty(n)
  BY <1>1, <1>4, ConstantsAreNat DEF LocalInv, LeaseInv, Until, Components
<1> QED
  BY <1>1, <1>2, <1>3, <1>4

(***************************************************************************)
(* A step of openraft keeps what each node's own loops rely on.            *)
(***************************************************************************)
LEMMA LocalRaftStep ==
  ASSUME TypeOK, TypeOK', RaftInv, LocalInv, RaftStep
  PROVE  LocalInv'
<1> USE ConstantsAreNat
<1>1. Components /\ Components' /\ DirtyMeans
  BY Typed, TypedNext, DirtyMeansHolds DEF LocalInv
<1>2. /\ UNCHANGED <<now, alive, seenTerm, seenLeader, leaseLeader, leaseExp, anchor>>
      /\ UNCHANGED <<view, pg, ro, opening, openAnchor>> /\ VotesGrow
  BY DEF RaftStep, govVars, pgVars
<1>3. \A n : LeaseValid(n)' <=> LeaseValid(n)
  BY <1>2 DEF LeaseValid
<1>4. SeenInv'
  <2> SUFFICES ASSUME NEW n \in Nodes
               PROVE  /\ seenTerm[n] <= vote'[n].term
                      /\ alive[n] => seenTerm[n] >= 1
                      /\ leaseLeader[n] =>
                           /\ alive[n] /\ seenLeader[n] = n
                           /\ Reaches(vote'[n], seenTerm[n], n)
                           /\ /\ vote'[n].term = seenTerm[n] /\ vote'[n].node = n
                              => vote'[n].committed
                           /\ seenTerm[n] > 1 => QuorumReaches(seenTerm[n], n)'
                           /\ seenTerm[n] = 1 => n = Founder
    BY <1>2 DEF SeenInv, QuorumReaches
  <2>1. seenTerm[n] <= vote'[n].term /\ (alive[n] => seenTerm[n] >= 1)
    BY <1>1, <1>2 DEF LocalInv, SeenInv, VotesGrow, Reaches, Before, Components
  <2>2. ASSUME leaseLeader[n]
        PROVE  /\ Reaches(vote'[n], seenTerm[n], n)
               /\ seenTerm[n] > 1 => QuorumReaches(seenTerm[n], n)'
    BY <1>1, <1>2, <2>2, ReachesStays, QuorumStays DEF LocalInv, SeenInv, Components
  <2>3. ASSUME leaseLeader[n], vote'[n].term = seenTerm[n], vote'[n].node = n
        PROVE  vote'[n].committed
    <3>1. Reaches(vote[n], seenTerm[n], n) /\ Reaches(vote'[n], vote[n].term, vote[n].node)
      BY <1>2, <2>3 DEF LocalInv, SeenInv, VotesGrow
    <3>2. vote[n].term = seenTerm[n] /\ vote[n].node = n
      <4>1. /\ vote[n].term \in Nat /\ vote[n].node \in Nat /\ seenTerm[n] \in Nat
            /\ n \in Nat
        BY <1>1 DEF Components
      <4> QED
        BY <2>3, <3>1, <4>1 DEF Reaches, Before
    <3> QED
      BY <2>3, <3>2 DEF LocalInv, SeenInv, RaftStep
  <2> QED
    BY <2>1, <2>2, <2>3 DEF LocalInv, SeenInv
<1>5. LeaseInv'
  <2> SUFFICES ASSUME NEW n \in Nodes
               PROVE  /\ LeaseValid(n) /\ ~Dirty(n)' =>
                           /\ ack'[n] # NoTime
                           /\ now <= ack'[n] + QuorumTimeout + MetricsDelay
                      /\ alive[n] /\ Dirty(n)' => now <= dirtyAt'[n] + MetricsDelay
    BY <1>2, <1>3 DEF LocalInv, LeaseInv
  <2>1. ASSUME LeaseValid(n), ~Dirty(n)'
        PROVE  ack'[n] # NoTime /\ now <= ack'[n] + QuorumTimeout + MetricsDelay
    <3>1. leaseLeader'[n] /\ DirtyMeans'
      BY <1>2, <1>4, <2>1, DirtyMeansNext DEF LeaseValid
    <3>2. vote'[n].term = seenTerm[n] /\ vote'[n].node = n /\ RaftLeader(n)' = n
      BY <1>2, <2>1, <3>1 DEF DirtyMeans
    <3>3. ~Above(vote'[n], seenTerm[n], n)
      BY <1>1, <3>2 DEF Above, Before, Components
    <3>4. ~Above(vote[n], seenTerm[n], n)
      BY <1>1, <1>2, <3>3, ReachesStays DEF Components
    <3>5. ~Dirty(n) /\ RaftLeader(n) = n
      BY <1>1, <1>2, <3>1, <3>4 DEF DirtyMeans
    <3>6. ack[n] # NoTime /\ now <= ack[n] + QuorumTimeout + MetricsDelay
      BY <2>1, <3>5 DEF LocalInv, LeaseInv
    <3>7. ack'[n] = ack[n] \/ ack'[n] = now
      BY <3>2, <3>5 DEF RaftStep
    <3> QED
      BY <1>1, <3>6, <3>7 DEF Components, NoTime
  <2>2. ASSUME alive[n], Dirty(n)' PROVE now <= dirtyAt'[n] + MetricsDelay
    <3>1. (Dirty(n) /\ dirtyAt'[n] = dirtyAt[n]) \/ dirtyAt'[n] = now
      BY <2>2 DEF RaftStep
    <3> QED
      BY <1>1, <2>2, <3>1 DEF LocalInv, LeaseInv, Components
  <2> QED
    BY <2>1, <2>2
<1>6. AnchorInv'
  <2> SUFFICES ASSUME NEW n \in Nodes
               PROVE  /\ anchor[n] <= now /\ (~alive[n] => anchor[n] = NoTime)
                      /\ alive[n] /\ vote'[n].node = n /\ seenTerm[n] = vote'[n].term =>
                           Start(n)' + Hold <= Ripe(n)'
    BY <1>2 DEF AnchorInv
  <2>1. ASSUME alive[n], vote'[n].node = n, seenTerm[n] = vote'[n].term
        PROVE  Start(n)' + Hold <= Ripe(n)'
    <3>1. seenTerm[n] <= vote[n].term
      BY DEF LocalInv, SeenInv
    <3>2. vote[n].node = n /\ vote'[n].term = vote[n].term /\ stood'[n] = stood[n]
      BY <1>1, <2>1, <3>1 DEF RaftStep, Components
    <3>3. Start(n)' = Start(n) /\ Ripe(n)' = Ripe(n)
      BY <1>2, <3>2 DEF Start, Ripe
    <3> QED
      BY <2>1, <3>2, <3>3 DEF LocalInv, AnchorInv
  <2> QED
    BY <2>1 DEF LocalInv, AnchorInv
<1>7. FenceInv'
  BY <1>2, <1>3 DEF LocalInv, FenceInv, Writable
<1> QED
  BY <1>4, <1>5, <1>6, <1>7 DEF LocalInv

(***************************************************************************)
(* A leader above another, and a quorum behind it.                         *)
(***************************************************************************)
Ranked ==
  \A m, n \in Nodes :
    m # n /\ RaftLeader(m) = m /\ RaftLeader(n) = n =>
      \/ Above(vote[m], vote[n].term, n) /\ vote[m].term > 1
      \/ /\ Above(vote[n], vote[m].term, m) /\ vote[n].term > 1
         /\ QuorumAbove(vote[m].term, m)

\* That follows from the elections: a quorum moved to the later leader.
LEMMA RankedHolds == TypeOK /\ VoteInv /\ ElectedInv => Ranked
<1> SUFFICES ASSUME TypeOK, VoteInv, ElectedInv, NEW m \in Nodes, NEW n \in Nodes,
                    m # n, RaftLeader(m) = m, RaftLeader(n) = n
             PROVE  \/ Above(vote[m], vote[n].term, n) /\ vote[m].term > 1
                    \/ /\ Above(vote[n], vote[m].term, m) /\ vote[n].term > 1
                       /\ QuorumAbove(vote[m].term, m)
  BY DEF Ranked
<1>1. Components
  BY Typed
<1>2. /\ vote[m].node = m /\ vote[m].committed /\ vote[n].node = n /\ vote[n].committed
  BY <1>1 DEF RaftLeader, Components
<1>3. vote[m].term > 1 \/ vote[n].term > 1
  BY <1>1, <1>2 DEF VoteInv, Components
<1>4. vote[m].term = 1 => Above(vote[n], vote[m].term, m)
  BY <1>1, <1>2, <1>3 DEF VoteInv, Above, Before, Components
<1>5. Above(vote[m], vote[n].term, n) \/ Above(vote[n], vote[m].term, m)
  BY <1>1, <1>2 DEF Above, Before, Components
<1>6. ASSUME Above(vote[n], vote[m].term, m)
      PROVE  vote[n].term > 1 /\ QuorumAbove(vote[m].term, m)
  <2>1. vote[n].term > 1
    BY <1>1, <1>2, <1>3, <1>6 DEF Above, Before, Components, VoteInv
  <2>2. PICK Q \in Quorums : \A j \in Q : Reaches(vote[j], vote[n].term, n)
    BY <1>2, <2>1 DEF ElectedInv, QuorumReaches
  <2>3. ASSUME NEW j \in Q PROVE Above(vote[j], vote[m].term, m)
    <3>1. j \in Nodes /\ Reaches(vote[j], vote[n].term, n)
      BY <2>2, QuorumsMeet
    <3> QED
      BY <1>1, <1>2, <1>6, <3>1 DEF Above, Before, Reaches, Components
  <2> QED
    BY <2>1, <2>3 DEF QuorumAbove
<1>7. vote[m].term >= 1 /\ vote[m].term \in Nat
  BY <1>1 DEF VoteInv, Components
<1> QED
  BY <1>4, <1>5, <1>6, <1>7

\* The same in the next state.
LEMMA RankedNext == TypeOK' /\ VoteInv' /\ ElectedInv' => Ranked'
  BY RankedHolds, PTL

(***************************************************************************)
(* A step of openraft keeps what the nodes owe each other.                 *)
(***************************************************************************)
LEMMA PairRaftStep ==
  ASSUME TimingMargins, TypeOK, TypeOK', RaftInv, RaftInv', LocalInv, LocalInv', PairInv, RaftStep
  PROVE  PairInv'
<1> USE ConstantsAreNat
<1>1. Components /\ Components'
  BY Typed, TypedNext
<1>2. DirtyMeans /\ DirtyMeans' /\ Ranked /\ Ranked' /\ LeftLate'
  BY DirtyMeansHolds, DirtyMeansNext, RankedHolds, RankedNext, LeftLateNext
     DEF LocalInv, RaftInv
<1>3. /\ UNCHANGED <<now, alive, seenTerm, seenLeader, leaseLeader, leaseExp, anchor>>
      /\ UNCHANGED <<view, pg, ro, opening, openAnchor>> /\ VotesGrow
  BY DEF RaftStep, govVars, pgVars
<1>4. \A n : /\ LeaseValid(n)' <=> LeaseValid(n)
             /\ Armed(n)' <=> Armed(n)
             /\ Ripe(n)' = Ripe(n)
  BY <1>3 DEF LeaseValid, Armed, Writable, Ripe
<1>5. \A n \in Nodes : dirtyAt'[n] <= now /\ now <= now
  BY <1>1, <1>3 DEF RaftInv, VoteInv, Components
<1>6. \A n \in Nodes : Hold \in Nat /\ Start(n) \in Int /\ Start(n)' \in Int /\ Ripe(n) \in Int
  BY <1>1, Margins DEF Components, Start, Ripe
<1>7. ASSUME NEW n \in Nodes, LeaseValid(n), ~Dirty(n)
      PROVE  /\ RaftLeader(n) = n /\ vote[n].node = n /\ vote[n].term = seenTerm[n]
             /\ alive[n] /\ ack[n] # NoTime /\ ack[n] \in Nat
             /\ now <= ack[n] + QuorumTimeout + MetricsDelay
  BY <1>1, <1>2, <1>7 DEF DirtyMeans, LeaseValid, LocalInv, LeaseInv, SeenInv, Components
<1>8. LeaderInv'
  <2> SUFFICES ASSUME NEW m \in Nodes, NEW n \in Nodes, m # n, RaftLeader(m)' = m, Armed(n)
               PROVE  \/ Until(n)' <= Start(m)' + QuorumTimeout + 2 * MetricsDelay + FenceBound
                      \/ QuorumAbove(vote[m].term, m)' /\ Late(m)'
    BY <1>4 DEF LeaderInv, QuorumAbove
  <2>1. CASE ack'[m] = NoTime /\ now <= stood'[m] + VoteTtl /\ vote'[m].term > 1
    <3>1. Late(m)' /\ Start(m)' = stood'[m]
      BY <1>1, <2>1 DEF Late, Start, Components
    <3>2. CASE ~LeaseValid(n)
      <4>1. Until(n)' = leaseExp[n] + FenceBound
        BY <1>3, <1>4, <3>2 DEF Until
      <4>2. leaseExp[n] <= now
        BY <1>1, <3>2 DEF LocalInv, LeaseInv, LeaseValid, Components
      <4> QED
        BY <1>1, <2>1, <3>1, <4>1, <4>2, Margins DEF Components
    <3>3. CASE LeaseValid(n) /\ Dirty(n)'
      <4>1. Until(n)' = dirtyAt'[n] + MetricsDelay + FenceBound
        BY <1>4, <3>3 DEF Until
      <4> QED
        BY <1>1, <1>5, <2>1, <3>1, <4>1, Margins DEF Components
    <3>4. CASE LeaseValid(n) /\ ~Dirty(n)'
      <4>1. Until(n)' = ack'[n] + QuorumTimeout + 2 * MetricsDelay + FenceBound
        BY <1>4, <3>4 DEF Until
      <4>2. RaftLeader(n)' = n /\ ack'[n] # NoTime
        BY <1>2, <1>3, <1>4, <3>4 DEF DirtyMeans, LeaseValid, LocalInv, LeaseInv
      <4>3. CASE Above(vote'[m], vote'[n].term, n)
        <5>1. ack'[n] + ElectionMin <= stood'[m] + VoteTtl
          BY <4>2, <4>3 DEF RaftInv, SuccessorInv
        <5> QED
          BY <1>1, <3>1, <4>1, <5>1, Margins DEF Components
      <4>4. CASE QuorumAbove(vote[m].term, m)'
        BY <3>1, <4>4
      <4> QED
        BY <1>2, <4>2, <4>3, <4>4 DEF Ranked
    <3> QED
      BY <3>2, <3>3, <3>4
  <2>2. CASE RaftLeader(m) = m /\ vote'[m] = vote[m] /\ stood'[m] = stood[m]
    <3>1. Start(m)' = Start(m) /\ vote[m].node = m /\ vote[m].committed
      BY <1>1, <2>2 DEF Start, RaftLeader, Components
    <3>2. CASE QuorumAbove(vote[m].term, m) /\ Late(m)
      <4>1. QuorumAbove(vote[m].term, m)'
        <5>1. \E Q \in Quorums : \A j \in Q : Above(vote'[j], vote[m].term, m)
          BY <1>1, <1>3, <3>2, ReachesStays, QuorumsMeet DEF QuorumAbove, Components
        <5> QED
          BY <2>2, <5>1 DEF QuorumAbove
      <4>2. ack'[m] = NoTime \/ ack'[m] = ack[m]
        <5>1. ASSUME NEW R \in Quorums, \A j \in R : vote'[j] = vote[m] PROVE FALSE
          <6>1. PICK Q \in Quorums : \A j \in Q : Above(vote'[j], vote'[m].term, m)
            BY <4>1 DEF QuorumAbove
          <6>2. PICK v \in Nodes : v \in Q /\ v \in R
            BY <5>1, QuorumsMeet
          <6>3. Above(vote[m], vote[m].term, m)
            BY <2>2, <5>1, <6>1, <6>2
          <6> QED
            BY <1>1, <3>1, <6>3 DEF Above, Before, Components
        <5> QED
          BY <5>1 DEF RaftStep
      <4>3. Late(m)'
        BY <1>3, <3>1, <3>2, <4>2 DEF Late
      <4> QED
        BY <4>1, <4>3
    <3>3. CASE Until(n) <= Start(m) + QuorumTimeout + 2 * MetricsDelay + FenceBound
      <4>0. now <= Until(n) /\ Until(n) \in Int
        BY ArmedUntil
      <4>1. CASE ~LeaseValid(n) \/ Dirty(n)
        <5>1. Until(n)' = Until(n)
          <6>1. CASE ~LeaseValid(n)
            BY <1>3, <1>4, <6>1 DEF Until
          <6>2. CASE LeaseValid(n) /\ Dirty(n)
            <7>1. leaseLeader[n]
              BY <6>2 DEF LeaseValid
            <7>2. Above(vote'[n], seenTerm[n], n)
              BY <1>1, <1>2, <1>3, <6>2, <7>1, ReachesStays DEF DirtyMeans, Components
            <7>3. Dirty(n)'
              <8>1. ASSUME ~Dirty(n)' PROVE FALSE
                <9>1. vote'[n].term = seenTerm[n] /\ vote'[n].node = n
                  BY <1>2, <1>3, <7>1, <8>1 DEF DirtyMeans
                <9> QED
                  BY <1>1, <7>2, <9>1 DEF Above, Before, Components
              <8> QED
                BY <8>1
            <7> QED
              BY <1>4, <6>2, <7>3 DEF Until, RaftStep
          <6> QED
            BY <4>1, <6>1, <6>2
        <5> QED
          BY <3>1, <3>3, <5>1
      <4>2. CASE LeaseValid(n) /\ ~Dirty(n) /\ Dirty(n)'
        <5>1. Until(n)' = now + MetricsDelay + FenceBound
          BY <1>4, <4>2 DEF Until, RaftStep
        <5>2. Until(n) = ack[n] + QuorumTimeout + 2 * MetricsDelay + FenceBound
          BY <4>2 DEF Until
        <5>3. Until(n)' <= Until(n)
          BY <1>1, <1>7, <4>2, <5>1, <5>2 DEF Components
        <5> QED
          BY <1>1, <1>6, <3>1, <3>3, <4>0, <5>1, <5>3 DEF Components
      <4>3. CASE LeaseValid(n) /\ ~Dirty(n) /\ ~Dirty(n)'
        <5>1. /\ Until(n) = ack[n] + QuorumTimeout + 2 * MetricsDelay + FenceBound
              /\ Until(n)' = ack'[n] + QuorumTimeout + 2 * MetricsDelay + FenceBound
          BY <1>4, <4>3 DEF Until
        <5>2. RaftLeader(n) = n /\ RaftLeader(n)' = n
          BY <1>2, <1>3, <4>3 DEF DirtyMeans, LeaseValid
        <5>3. CASE ack'[n] = ack[n]
          BY <3>1, <3>3, <5>1, <5>3
        <5>4. ASSUME NEW S \in Quorums, \A j \in S : vote'[j] = vote[n],
                     vote'[n] = vote[n]
              PROVE  QuorumAbove(vote[m].term, m)' /\ Late(m)'
          <6>1. vote[n].node = n
            BY <1>7, <4>3
          <6>2. ~Above(vote'[m], vote'[n].term, n)
            <7>1. ASSUME Above(vote'[m], vote'[n].term, n), vote'[m].term > 1
                  PROVE  FALSE
              <8>1. PICK Q \in Quorums : \A j \in Q : Reaches(vote'[j], vote'[m].term, m)
                BY <2>2, <3>1, <7>1 DEF RaftInv, ElectedInv, QuorumReaches
              <8>2. PICK v \in Nodes : v \in Q /\ v \in S
                BY <5>4, QuorumsMeet
              <8>3. Reaches(vote[n], vote'[m].term, m)
                BY <5>4, <8>1, <8>2
              <8> QED
                BY <2>2, <3>1, <5>4, <6>1, <7>1, <8>3 DEF Reaches, Above
            <7>2. Above(vote'[m], vote'[n].term, n) => vote'[m].term > 1
              BY <1>1, <2>2, <3>1, <5>4, <6>1 DEF Above, Before, Components, RaftInv, VoteInv
            <7> QED
              BY <7>1, <7>2
          <6>3. Above(vote'[n], vote'[m].term, m) /\ QuorumAbove(vote[m].term, m)'
            BY <1>2, <5>2, <6>2 DEF Ranked
          <6>4. CASE ack'[m] = NoTime
            BY <6>3, <6>4 DEF Late
          <6>5. CASE ack'[m] # NoTime
            <7>1. QuorumReaches(vote[n].term, n)'
              <8>1. Reaches(vote[n], vote[n].term, n)
                BY <1>1, <6>1 DEF Reaches, Before, Components
              <8> QED
                BY <5>4, <8>1 DEF QuorumReaches
            <7>2. Before(vote'[m].term, m, vote'[n].term, n)
              BY <5>4, <6>1, <6>3 DEF Above
            <7>3. ack'[m] + ElectionMin <= now
              BY <1>1, <1>2, <1>3, <6>5, <7>1, <7>2 DEF LeftLate, Components
            <7>4. ack'[m] + QuorumTimeout + 2 * MetricsDelay < Start(m)' + Hold
              BY <1>1, <1>6, <3>1, <3>3, <4>0, <7>3, Margins DEF Components
            <7> QED
              BY <6>3, <7>4 DEF Late
          <6> QED
            BY <6>4, <6>5
        <5> QED
          BY <5>2, <5>3, <5>4 DEF RaftStep
      <4> QED
        BY <4>1, <4>2, <4>3
    <3> QED
      BY <2>2, <3>2, <3>3 DEF PairInv, LeaderInv
  <2> QED
    BY <2>1, <2>2 DEF RaftStep
<1>9. DeposedInv'
  <2> SUFFICES ASSUME NEW m \in Nodes, NEW n \in Nodes, RaftLeader(m)' = m,
                      LeaseValid(n), Dirty(n)', Above(vote'[m], seenTerm[n], n)
               PROVE  dirtyAt'[n] <= stood'[m] + QuorumTimeout + MetricsDelay
    BY <1>3, <1>4 DEF DeposedInv
  <2>1. CASE now <= stood'[m] + VoteTtl
    BY <1>1, <1>5, <2>1, Margins DEF Components
  <2>2. CASE RaftLeader(m) = m /\ vote'[m] = vote[m] /\ stood'[m] = stood[m]
    <3>1. CASE Dirty(n)
      BY <2>2, <3>1 DEF PairInv, DeposedInv, RaftStep
    <3>2. CASE ~Dirty(n)
      <4>1. dirtyAt'[n] = now
        BY <3>2 DEF RaftStep
      <4>2. vote[m] # vote[n]
        BY <1>1, <1>7, <2>2, <3>2 DEF Above, Before, Components
      <4>3. ack[n] + ElectionMin <= stood[m] + VoteTtl
        BY <1>7, <2>2, <3>2, <4>2 DEF RaftInv, SuccessorInv
      <4> QED
        BY <1>1, <1>7, <2>2, <3>2, <4>1, <4>3, Margins DEF Components
    <3> QED
      BY <3>1, <3>2
  <2> QED
    BY <2>1, <2>2 DEF RaftStep
<1>10. OlderRoundInv'
  <2> SUFFICES ASSUME NEW n \in Nodes, NEW m \in Nodes, LeaseValid(n), ack'[m] # NoTime,
                      Before(vote'[m].term, m, seenTerm[n], n)
               PROVE  ack'[m] + QuorumTimeout + 3 * MetricsDelay + FenceBound < Ripe(n)
    BY <1>3, <1>4 DEF OlderRoundInv
  <2>1. CASE ack'[m] = ack[m] /\ vote'[m] = vote[m]
    BY <2>1 DEF PairInv, OlderRoundInv
  <2>2. ASSUME NEW S \in Quorums, \A j \in S : vote'[j] = vote[m],
               vote'[m] = vote[m], RaftLeader(m) = m
        PROVE  FALSE
    <3>1. vote[m].node = m
      BY <1>1, <2>2 DEF RaftLeader, Components
    <3>2. leaseLeader[n] /\ alive[n]
      BY DEF LeaseValid, LocalInv, SeenInv
    <3>3. CASE seenTerm[n] > 1
      <4>1. PICK Q \in Quorums : \A j \in Q : Reaches(vote'[j], seenTerm[n], n)
        BY <1>3, <3>2, <3>3 DEF LocalInv, SeenInv, QuorumReaches
      <4>2. PICK v \in Nodes : v \in Q /\ v \in S
        BY <2>2, QuorumsMeet
      <4>3. Reaches(vote[m], seenTerm[n], n)
        BY <2>2, <4>1, <4>2
      <4> QED
        BY <2>2, <3>1, <4>3 DEF Reaches
    <3>4. CASE seenTerm[n] = 1
      <4>1. n = Founder /\ vote[m].term >= 1 /\ (vote[m].term = 1 => vote[m].node = Founder)
        BY <3>2, <3>4 DEF LocalInv, SeenInv, RaftInv, VoteInv
      <4> QED
        BY <1>1, <2>2, <3>1, <3>4, <4>1 DEF Before, Components
    <3> QED
      BY <1>1, <3>2, <3>3, <3>4 DEF LocalInv, SeenInv, Components
  <2> QED
    BY <2>1, <2>2 DEF RaftStep
<1>11. OlderLeaseInv'
  <2> SUFFICES ASSUME NEW n \in Nodes, NEW m \in Nodes, LeaseValid(n), LeaseValid(m),
                      Dirty(m)', Before(seenTerm[m], m, seenTerm[n], n)
               PROVE  dirtyAt'[m] + 2 * MetricsDelay + FenceBound < Ripe(n)
    BY <1>3, <1>4 DEF OlderLeaseInv
  <2>1. CASE Dirty(m)
    BY <2>1 DEF PairInv, OlderLeaseInv, RaftStep
  <2>2. CASE ~Dirty(m)
    <3>1. dirtyAt'[m] = now
      BY <2>2 DEF RaftStep
    <3>2. ack[m] + QuorumTimeout + 3 * MetricsDelay + FenceBound < Ripe(n)
      BY <1>7, <2>2 DEF PairInv, OlderRoundInv
    <3> QED
      BY <1>1, <1>6, <1>7, <2>2, <3>1, <3>2 DEF Components
  <2> QED
    BY <2>1, <2>2
<1>12. DeposedWriterInv'
  <2> SUFFICES ASSUME NEW n \in Nodes, NEW m \in Nodes, n # m, LeaseValid(n), Dirty(n)',
                      Armed(m)
               PROVE  dirtyAt'[n] + MetricsDelay < Ripe(n)
    BY <1>4 DEF DeposedWriterInv
  <2>1. CASE Dirty(n)
    BY <2>1 DEF PairInv, DeposedWriterInv, RaftStep
  <2>2. CASE ~Dirty(n)
    <3>1. dirtyAt'[n] = now
      BY <2>2 DEF RaftStep
    <3>2. now <= Until(m) /\ Until(m) \in Int
      BY ArmedUntil
    <3>3. Start(n) + Hold <= Ripe(n)
      BY <1>7, <2>2 DEF LocalInv, AnchorInv
    <3>4. CASE Until(m) <= Start(n) + QuorumTimeout + 2 * MetricsDelay + FenceBound
      BY <1>1, <1>6, <3>1, <3>2, <3>3, <3>4, Margins DEF Components
    <3>5. CASE Late(n)
      BY <1>1, <1>6, <1>7, <2>2, <3>1, <3>3, <3>5 DEF Late, Components
    <3> QED
      BY <1>7, <2>2, <3>4, <3>5 DEF PairInv, LeaderInv
  <2> QED
    BY <2>1, <2>2
<1>13. ArmedInv'
  BY <1>4 DEF PairInv, ArmedInv
<1> QED
  BY <1>8, <1>9, <1>10, <1>11, <1>12, <1>13 DEF PairInv

-----------------------------------------------------------------------------
(***************************************************************************)
(* What the fence and the passes do: Raft and the governor are left alone, *)
(* no hold-down gets shorter, and only a leaseholder past its hold-down    *)
(* comes to take writes.                                                   *)
(***************************************************************************)
PassStep ==
  /\ UNCHANGED <<now, raftVars, govVars>>
  /\ \A n \in Nodes :
       /\ Ripe(n) <= Ripe(n)'
       /\ Armed(n)' /\ ~Armed(n) => LeaseValid(n) /\ Ripe(n) <= now
  /\ \A n, m \in Nodes : Armed(n)' /\ ~Armed(n) /\ Armed(m)' /\ ~Armed(m) => n = m

\* What such a step of node n does to n.
OwnStep(n) ==
  /\ UNCHANGED <<now, raftVars, govVars>>
  /\ \A j \in Nodes \ {n} :
       /\ anchor'[j] = anchor[j] /\ pg'[j] = pg[j] /\ ro'[j] = ro[j]
       /\ opening'[j] = opening[j] /\ openAnchor'[j] = openAnchor[j]
  /\ anchor'[n] <= now /\ Ripe(n) <= Ripe(n)'
  /\ alive[n]
  /\ Armed(n)' /\ ~Armed(n) => LeaseValid(n) /\ Ripe(n) <= now
  /\ opening'[n] # NoTime =>
       /\ alive[n] /\ opening'[n] <= now /\ now <= opening'[n] + OpenBound
       /\ opening'[n] <= leaseExp[n]
       /\ openAnchor'[n] # NoTime => openAnchor'[n] + Lease <= opening'[n]
  /\ Writable(n)' => LeaseValid(n) \/ now <= leaseExp[n] + FenceBound

\* A step of one node that does no more than that keeps what its loops rely on.
LEMMA OwnStepSuffices ==
  ASSUME TimingMargins, TypeOK, TypeOK', LocalInv, NEW n \in Nodes, OwnStep(n)
  PROVE  PassStep /\ LocalInv'
<1>1. Components /\ Components'
  BY Typed, TypedNext
<1>2. /\ UNCHANGED <<now, alive, crashes, downAt, vote, contact, stood, granted>>
      /\ UNCHANGED <<ack, dirtyAt, seenTerm, seenLeader, leaseLeader, leaseExp>>
  BY DEF OwnStep, raftVars, govVars
<1>3. \A j : /\ LeaseValid(j)' <=> LeaseValid(j)
             /\ Dirty(j)' <=> Dirty(j)
             /\ Start(j)' = Start(j)
  BY <1>2 DEF LeaseValid, Dirty, Start, RaftLeader
<1>4. \A j \in Nodes \ {n} : /\ Ripe(j)' = Ripe(j) /\ Ripe(j) <= Ripe(j)'
                             /\ Armed(j)' <=> Armed(j)
                             /\ Writable(j)' <=> Writable(j)
  BY <1>1, <1>2, ConstantsAreNat DEF OwnStep, Ripe, Armed, Writable, Components
<1>5. \A j \in Nodes : Ripe(j) <= Ripe(j)'
  BY <1>4 DEF OwnStep
<1>6. PassStep
  BY <1>4, <1>5 DEF OwnStep, PassStep
<1>7. SeenInv'
  <2>1. \A t, k : QuorumReaches(t, k)' <=> QuorumReaches(t, k)
    BY <1>2 DEF QuorumReaches
  <2> QED
    BY <1>2, <2>1 DEF LocalInv, SeenInv
<1>8. LeaseInv'
  BY <1>2, <1>3 DEF LocalInv, LeaseInv
<1>9. AnchorInv'
  <2> SUFFICES ASSUME NEW j \in Nodes
               PROVE  /\ anchor'[j] <= now /\ (~alive[j] => anchor'[j] = NoTime)
                      /\ alive[j] /\ vote[j].node = j /\ seenTerm[j] = vote[j].term =>
                           Start(j) + Hold <= Ripe(j)'
    BY <1>2, <1>3 DEF AnchorInv
  <2>1. anchor'[j] <= now /\ (~alive[j] => anchor'[j] = NoTime)
    BY DEF OwnStep, LocalInv, AnchorInv
  <2>2. Start(j) \in Int /\ Hold \in Int /\ Ripe(j) \in Int /\ Ripe(j)' \in Int
    BY <1>1, ConstantsAreNat, Margins DEF Start, Ripe, Components
  <2> QED
    BY <1>5, <2>1, <2>2 DEF LocalInv, AnchorInv
<1>10. FenceInv'
  BY <1>2, <1>3, <1>4 DEF LocalInv, FenceInv, OwnStep
<1> QED
  BY <1>6, <1>7, <1>8, <1>9, <1>10 DEF LocalInv

(***************************************************************************)
(* An open in flight is within the fence's bound, and past the hold-down   *)
(* it may spend.                                                           *)
(***************************************************************************)
LEMMA OpenInFlight ==
  ASSUME TimingMargins, TypeOK, LocalInv, NEW n \in Nodes, opening[n] # NoTime
  PROVE  /\ now <= leaseExp[n] + FenceBound
         /\ anchor[n] = openAnchor[n] => Ripe(n) <= now
<1>1. Components
  BY Typed
<1> QED
  BY <1>1, Margins, ConstantsAreNat DEF LocalInv, FenceInv, Ripe, Components

(***************************************************************************)
(* Outside its hold-down a node may open.                                  *)
(***************************************************************************)
LEMMA NotHeld ==
  ASSUME TypeOK, NEW n \in Nodes, ~Held(anchor[n])
  PROVE  Ripe(n) <= now
<1>1. Components
  BY Typed
<1> QED
  BY <1>1, ConstantsAreNat DEF Held, Ripe, Components

\* The fence's tick and every step of a pass do no more than that: an open starts
\* under a lease and past the hold-down, and lands within its budget.
LEMMA PassSteps ==
  ASSUME TimingMargins, TypeOK, TypeOK', LocalInv, NEW n \in Nodes,
         \/ FenceTick(n) \/ BeginPass(n) \/ Promote(n) \/ OpenCheck(n) \/ OpenLand(n)
         \/ OpenFail(n) \/ FindOpen(n) \/ Demote(n)
  PROVE  PassStep /\ LocalInv'
<1> USE ConstantsAreNat
<1> SUFFICES OwnStep(n)
  BY OwnStepSuffices
<1>1. Components /\ Components'
  BY Typed, TypedNext
<1>2. /\ anchor[n] <= now /\ Ripe(n) <= Ripe(n)
      /\ opening[n] # NoTime =>
           /\ alive[n] /\ opening[n] <= now /\ now <= opening[n] + OpenBound
           /\ opening[n] <= leaseExp[n]
           /\ openAnchor[n] # NoTime => openAnchor[n] + Lease <= opening[n]
      /\ Writable(n) => LeaseValid(n) \/ now <= leaseExp[n] + FenceBound
  BY <1>1 DEF LocalInv, AnchorInv, FenceInv, Ripe, Components
<1>3. UNCHANGED <<now, anchor>> => Ripe(n)' = Ripe(n)
  BY DEF Ripe
<1>4. UNCHANGED raftVars => alive' = alive
  BY DEF raftVars
<1>5. CASE FenceTick(n)
  <2>1. /\ ro' = [ro EXCEPT ![n] = TRUE] /\ alive[n]
        /\ UNCHANGED <<now, raftVars, govVars, anchor, view, pg, opening, openAnchor>>
    BY <1>5 DEF FenceTick
  <2>2. ro'[n] = TRUE /\ \A j \in Nodes \ {n} : ro'[j] = ro[j]
    BY <2>1 DEF TypeOK
  <2>3. ~Writable(n)' /\ (Armed(n)' => Armed(n))
    BY <2>1, <2>2 DEF Writable, Armed
  <2> QED
    BY <1>2, <1>3, <2>1, <2>2, <2>3 DEF OwnStep
<1>6. CASE BeginPass(n)
  <2>1. UNCHANGED <<now, raftVars, govVars, anchor, pg, ro, opening, openAnchor>> /\ alive[n]
    BY <1>6 DEF BeginPass
  <2>2. (Writable(n)' <=> Writable(n)) /\ (Armed(n)' <=> Armed(n))
    BY <1>4, <2>1 DEF Writable, Armed
  <2> QED
    BY <1>2, <1>3, <2>1, <2>2 DEF OwnStep
<1>7. CASE Promote(n)
  <2>1. UNCHANGED <<now, raftVars, govVars, view, opening, openAnchor>> /\ alive[n]
    BY <1>7 DEF Promote
  <2>2. CASE /\ anchor[n] = NoTime
             /\ anchor' = [anchor EXCEPT ![n] = now]
             /\ UNCHANGED <<pg, ro>>
    <3>1. anchor'[n] = now /\ \A j \in Nodes \ {n} : anchor'[j] = anchor[j]
      BY <2>2 DEF TypeOK
    <3>2. Ripe(n) <= Ripe(n)' /\ now <= now
      BY <1>1, <2>1, <2>2, <3>1 DEF Ripe, Components
    <3>3. (Writable(n)' <=> Writable(n)) /\ (Armed(n)' <=> Armed(n))
      BY <1>4, <2>1, <2>2 DEF Writable, Armed
    <3> QED
      BY <1>2, <2>1, <2>2, <3>1, <3>2, <3>3 DEF OwnStep
  <2>3. CASE /\ pg' = [pg EXCEPT ![n] = "primary"]
             /\ ro' = [ro EXCEPT ![n] = TRUE]
             /\ UNCHANGED anchor
    <3>1. ro'[n] = TRUE /\ \A j \in Nodes \ {n} : ro'[j] = ro[j] /\ pg'[j] = pg[j]
      BY <2>3 DEF TypeOK
    <3>2. ~Writable(n)' /\ (Armed(n)' => Armed(n))
      BY <2>1, <3>1 DEF Writable, Armed
    <3> QED
      BY <1>2, <1>3, <2>1, <2>3, <3>1, <3>2 DEF OwnStep
  <2> QED
    BY <1>7, <2>2, <2>3 DEF Promote
<1>8. CASE OpenCheck(n)
  <2>1. /\ alive[n] /\ LeaseValid(n) /\ ~Held(anchor[n]) /\ ro[n]
        /\ opening' = [opening EXCEPT ![n] = now]
        /\ openAnchor' = [openAnchor EXCEPT ![n] = anchor[n]]
        /\ UNCHANGED <<now, raftVars, govVars, anchor, view, pg, ro>>
    BY <1>8 DEF OpenCheck
  <2>2. /\ opening'[n] = now /\ openAnchor'[n] = anchor[n]
        /\ \A j \in Nodes \ {n} : opening'[j] = opening[j] /\ openAnchor'[j] = openAnchor[j]
    BY <2>1 DEF TypeOK
  <2>3. Ripe(n) <= now
    BY <2>1, NotHeld
  <2>4. /\ now <= now + OpenBound /\ now <= leaseExp[n] /\ now <= now
        /\ anchor[n] # NoTime => anchor[n] + Lease <= now
    BY <1>1, <2>1, <2>3 DEF Components, LeaseValid, Ripe
  <2>5. ~Writable(n)'
    BY <2>1 DEF Writable
  <2> QED
    BY <1>2, <1>3, <2>1, <2>2, <2>3, <2>4, <2>5 DEF OwnStep
<1>9. CASE OpenLand(n)
  <2>1. /\ alive[n] /\ opening[n] # NoTime
        /\ ro' = [ro EXCEPT ![n] = FALSE] /\ SpendAnchor(n, openAnchor[n])
        /\ opening' = [opening EXCEPT ![n] = NoTime]
        /\ openAnchor' = [openAnchor EXCEPT ![n] = NoTime]
        /\ UNCHANGED <<now, raftVars, govVars, view, pg>>
    BY <1>9 DEF OpenLand
  <2>2. /\ opening'[n] = NoTime
        /\ anchor'[n] = IF anchor[n] = openAnchor[n] THEN NoTime ELSE anchor[n]
        /\ \A j \in Nodes \ {n} : /\ opening'[j] = opening[j] /\ anchor'[j] = anchor[j]
                                  /\ openAnchor'[j] = openAnchor[j] /\ ro'[j] = ro[j]
    BY <2>1 DEF TypeOK, SpendAnchor
  <2>3. /\ now <= leaseExp[n] + FenceBound
        /\ anchor[n] = openAnchor[n] => Ripe(n) <= now
    BY <2>1, OpenInFlight
  <2>4. Ripe(n) <= Ripe(n)' /\ anchor'[n] <= now
    BY <1>1, <1>2, <2>1, <2>2, <2>3 DEF Ripe, Components, NoTime
  <2> QED
    BY <1>2, <2>1, <2>2, <2>3, <2>4 DEF OwnStep, Armed
<1>10. CASE OpenFail(n)
  <2>1. /\ alive[n] /\ opening[n] # NoTime
        /\ \E landed \in BOOLEAN : ro' = [ro EXCEPT ![n] = @ /\ ~landed]
        /\ opening' = [opening EXCEPT ![n] = NoTime]
        /\ openAnchor' = [openAnchor EXCEPT ![n] = NoTime]
        /\ UNCHANGED <<now, raftVars, govVars, anchor, view, pg>>
    BY <1>10 DEF OpenFail
  <2>2. /\ opening'[n] = NoTime
        /\ \A j \in Nodes \ {n} : /\ opening'[j] = opening[j] /\ ro'[j] = ro[j]
                                  /\ openAnchor'[j] = openAnchor[j]
    BY <2>1 DEF TypeOK
  <2>3. now <= leaseExp[n] + FenceBound
    BY <2>1, OpenInFlight
  <2> QED
    BY <1>2, <1>3, <2>1, <2>2, <2>3 DEF OwnStep, Armed
<1>11. CASE FindOpen(n)
  <2>1. /\ alive[n] /\ anchor[n] # NoTime /\ ~Held(anchor[n]) /\ SpendAnchor(n, anchor[n])
        /\ UNCHANGED <<now, raftVars, govVars, view, pg, ro, opening, openAnchor>>
    BY <1>11 DEF FindOpen, pgVars
  <2>2. anchor'[n] = NoTime /\ \A j \in Nodes \ {n} : anchor'[j] = anchor[j]
    BY <2>1 DEF TypeOK, SpendAnchor
  <2>3. Ripe(n) <= Ripe(n)' /\ anchor'[n] <= now
    BY <1>1, <2>1, <2>2, NotHeld DEF Ripe, Components, NoTime
  <2>4. (Writable(n)' <=> Writable(n)) /\ (Armed(n)' <=> Armed(n))
    BY <1>4, <2>1 DEF Writable, Armed
  <2> QED
    BY <1>2, <2>1, <2>2, <2>3, <2>4 DEF OwnStep
<1>12. CASE Demote(n)
  <2>1. /\ alive[n] /\ pg' = [pg EXCEPT ![n] = "standby"] /\ ro' = [ro EXCEPT ![n] = TRUE]
        /\ UNCHANGED <<now, raftVars, govVars, anchor, view, opening, openAnchor>>
    BY <1>12 DEF Demote
  <2>2. ro'[n] = TRUE /\ \A j \in Nodes \ {n} : ro'[j] = ro[j] /\ pg'[j] = pg[j]
    BY <2>1 DEF TypeOK
  <2>3. ~Writable(n)' /\ (Armed(n)' => Armed(n))
    BY <2>1, <2>2 DEF Writable, Armed
  <2> QED
    BY <1>2, <1>3, <2>1, <2>2, <2>3 DEF OwnStep
<1> QED
  BY <1>5, <1>6, <1>7, <1>8, <1>9, <1>10, <1>11, <1>12

(***************************************************************************)
(* A leader's vote against another node's claim to a lease.                *)
(***************************************************************************)
LEMMA ClaimRanked ==
  ASSUME TypeOK, RaftInv, LocalInv, NEW m \in Nodes, NEW n \in Nodes, m # n,
         RaftLeader(m) = m, LeaseValid(n)
  PROVE  \/ Above(vote[m], seenTerm[n], n) /\ vote[m].term > 1
         \/ Before(vote[m].term, m, seenTerm[n], n) /\ QuorumAbove(vote[m].term, m)
<1>1. Components
  BY Typed
<1>2. vote[m].node = m
  BY <1>1 DEF RaftLeader, Components
<1>3. /\ seenTerm[n] >= 1 /\ (seenTerm[n] = 1 => n = Founder)
      /\ seenTerm[n] > 1 => QuorumReaches(seenTerm[n], n)
  BY DEF LeaseValid, LocalInv, SeenInv
<1>4. vote[m].term >= 1 /\ (vote[m].term = 1 => m = Founder)
  BY <1>2 DEF RaftInv, VoteInv
<1>5. CASE Above(vote[m], seenTerm[n], n)
  <2>1. vote[m].term > 1
    BY <1>1, <1>2, <1>3, <1>4, <1>5 DEF Above, Before, Components
  <2> QED
    BY <1>5, <2>1
<1>6. CASE ~Above(vote[m], seenTerm[n], n)
  <2>1. Before(vote[m].term, m, seenTerm[n], n)
    BY <1>1, <1>2, <1>6 DEF Above, Before, Components
  <2>2. seenTerm[n] > 1
    BY <1>1, <1>3, <1>4, <2>1 DEF Before, Components
  <2>3. PICK Q \in Quorums : \A j \in Q : Reaches(vote[j], seenTerm[n], n)
    BY <1>3, <2>2 DEF QuorumReaches
  <2>4. ASSUME NEW j \in Q PROVE Above(vote[j], vote[m].term, m)
    <3>1. j \in Nodes /\ Reaches(vote[j], seenTerm[n], n)
      BY <2>3, QuorumsMeet
    <3> QED
      BY <1>1, <2>1, <3>1 DEF Above, Before, Reaches, Components
  <2> QED
    BY <2>1, <2>4 DEF QuorumAbove
<1> QED
  BY <1>5, <1>6

(***************************************************************************)
(* Two leaseholders' claims differ, and the later one is of a later term.  *)
(***************************************************************************)
LEMMA ClaimsDiffer ==
  ASSUME TypeOK, LocalInv, NEW m \in Nodes, NEW n \in Nodes, m # n,
         LeaseValid(m), LeaseValid(n)
  PROVE  \/ Before(seenTerm[m], m, seenTerm[n], n) /\ seenTerm[n] > 1
         \/ Before(seenTerm[n], n, seenTerm[m], m) /\ seenTerm[m] > 1
<1>1. Components
  BY Typed
<1>2. /\ seenTerm[n] >= 1 /\ (seenTerm[n] = 1 => n = Founder)
      /\ seenTerm[m] >= 1 /\ (seenTerm[m] = 1 => m = Founder)
  BY DEF LeaseValid, LocalInv, SeenInv
<1> QED
  BY <1>1, <1>2 DEF Before, Components

(***************************************************************************)
(* What a leaseholder's invariants say of it.                              *)
(***************************************************************************)
LEMMA Leaseholder ==
  ASSUME TypeOK, RaftInv, LocalInv, NEW n \in Nodes, LeaseValid(n)
  PROVE  /\ alive[n] /\ leaseLeader[n]
         /\ Dirty(n) => now <= dirtyAt[n] + MetricsDelay /\ dirtyAt[n] <= now
         /\ ~Dirty(n) =>
              /\ RaftLeader(n) = n /\ vote[n].node = n /\ vote[n].term = seenTerm[n]
              /\ ack[n] # NoTime /\ ack[n] \in Nat
              /\ now <= ack[n] + QuorumTimeout + MetricsDelay
              /\ Start(n) + Hold <= Ripe(n)
<1>1. Components /\ DirtyMeans
  BY Typed, DirtyMeansHolds DEF LocalInv
<1>2. alive[n] /\ leaseLeader[n]
  BY DEF LeaseValid, LocalInv, SeenInv
<1>3. ASSUME ~Dirty(n)
      PROVE  /\ RaftLeader(n) = n /\ vote[n].node = n /\ vote[n].term = seenTerm[n]
             /\ ack[n] # NoTime /\ ack[n] \in Nat
             /\ now <= ack[n] + QuorumTimeout + MetricsDelay
    BY <1>1, <1>2, <1>3 DEF DirtyMeans, LocalInv, LeaseInv, Components
<1>4. ~Dirty(n) => Start(n) + Hold <= Ripe(n)
  BY <1>2, <1>3 DEF LocalInv, AnchorInv
<1>5. Dirty(n) => now <= dirtyAt[n] + MetricsDelay /\ dirtyAt[n] <= now
  BY <1>2 DEF LocalInv, LeaseInv, RaftInv, VoteInv
<1> QED
  BY <1>2, <1>3, <1>4, <1>5

(***************************************************************************)
(* A pass or a tick of the fence keeps what the nodes owe each other.      *)
(***************************************************************************)
LEMMA PairPassStep ==
  ASSUME TimingMargins, TypeOK, TypeOK', RaftInv, LocalInv, PairInv, PassStep
  PROVE  PairInv'
<1> USE ConstantsAreNat
<1>1. Components /\ Components' /\ Ranked
  BY Typed, TypedNext, RankedHolds DEF RaftInv
<1>2. /\ UNCHANGED <<now, alive, crashes, downAt, vote, contact, stood, granted>>
      /\ UNCHANGED <<ack, dirtyAt, seenTerm, seenLeader, leaseLeader, leaseExp>>
  BY DEF PassStep, raftVars, govVars
<1>3. \A j : /\ LeaseValid(j)' <=> LeaseValid(j)
             /\ Dirty(j)' <=> Dirty(j)
             /\ Start(j)' = Start(j)
             /\ Until(j)' = Until(j)
             /\ Late(j)' <=> Late(j)
             /\ RaftLeader(j)' = RaftLeader(j)
             /\ QuorumAbove(vote[j].term, j)' <=> QuorumAbove(vote[j].term, j)
  BY <1>2 DEF LeaseValid, Dirty, Start, RaftLeader, Until, Late, QuorumAbove
<1>4. \A j \in Nodes : /\ Hold \in Nat /\ Start(j) \in Int /\ Ripe(j) \in Int
                       /\ Ripe(j)' \in Int /\ Ripe(j) <= Ripe(j)'
  BY <1>1, Margins DEF Components, Start, Ripe, PassStep
<1>5. ASSUME NEW n \in Nodes, Armed(n)', ~Armed(n)
      PROVE  LeaseValid(n) /\ Ripe(n) <= now
  BY <1>5 DEF PassStep
<1>6. LeaderInv'
  <2> SUFFICES ASSUME NEW m \in Nodes, NEW n \in Nodes, m # n, RaftLeader(m) = m, Armed(n)'
               PROVE  \/ Until(n) <= Start(m) + QuorumTimeout + 2 * MetricsDelay + FenceBound
                      \/ QuorumAbove(vote[m].term, m) /\ Late(m)
    BY <1>3 DEF LeaderInv
  <2>1. CASE Armed(n)
    BY <2>1 DEF PairInv, LeaderInv
  <2>2. CASE ~Armed(n) /\ ~Dirty(n)
    <3>1. /\ LeaseValid(n) /\ Ripe(n) <= now /\ RaftLeader(n) = n
          /\ ack[n] # NoTime /\ ack[n] \in Nat /\ Start(n) + Hold <= Ripe(n)
      BY <1>5, <2>2, Leaseholder
    <3>2. Until(n) = ack[n] + QuorumTimeout + 2 * MetricsDelay + FenceBound
      BY <2>2, <3>1 DEF Until
    <3>3. CASE Above(vote[m], vote[n].term, n) /\ vote[m].term > 1
      <4>1. ack[n] + ElectionMin <= stood[m] + VoteTtl
        BY <3>1, <3>3 DEF RaftInv, SuccessorInv
      <4>2. Start(m) = stood[m]
        BY <1>1, <3>3 DEF Start, Components
      <4> QED
        BY <1>1, <3>1, <3>2, <4>1, <4>2, Margins DEF Components
    <3>4. CASE /\ Above(vote[n], vote[m].term, m) /\ vote[n].term > 1
               /\ QuorumAbove(vote[m].term, m) /\ ack[m] # NoTime
      <4>1. ack[m] + ElectionMin <= stood[n] + VoteTtl
        BY <3>1, <3>4 DEF RaftInv, SuccessorInv
      <4>2. Start(n) = stood[n]
        BY <1>1, <3>4 DEF Start, Components
      <4>3. ack[m] + QuorumTimeout + MetricsDelay < now
        BY <1>1, <1>4, <3>1, <4>1, <4>2, Margins DEF Components
      <4> QED
        BY <3>4, <4>3 DEF Late
    <3> QED
      BY <1>1, <3>1, <3>3, <3>4 DEF Ranked, Late
  <2>3. CASE ~Armed(n) /\ Dirty(n)
    <3>1. LeaseValid(n) /\ Ripe(n) <= now
      BY <1>5, <2>3
    <3>2. Until(n) = dirtyAt[n] + MetricsDelay + FenceBound
      BY <2>3, <3>1 DEF Until
    <3>3. CASE Above(vote[m], seenTerm[n], n) /\ vote[m].term > 1
      <4>1. dirtyAt[n] <= stood[m] + QuorumTimeout + MetricsDelay
        BY <2>3, <3>1, <3>3 DEF PairInv, DeposedInv
      <4>2. Start(m) = stood[m]
        BY <1>1, <3>3 DEF Start, Components
      <4> QED
        BY <1>1, <3>2, <4>1, <4>2 DEF Components
    <3>4. CASE Before(vote[m].term, m, seenTerm[n], n) /\ QuorumAbove(vote[m].term, m)
      <4>1. CASE ack[m] = NoTime
        BY <3>4, <4>1 DEF Late
      <4>2. CASE ack[m] # NoTime
        <5>1. ack[m] + QuorumTimeout + 3 * MetricsDelay + FenceBound < Ripe(n)
          BY <3>1, <3>4, <4>2 DEF PairInv, OlderRoundInv
        <5>2. ack[m] + QuorumTimeout + MetricsDelay < now
          BY <1>1, <1>4, <3>1, <5>1 DEF Components
        <5> QED
          BY <3>4, <5>2 DEF Late
      <4> QED
        BY <4>1, <4>2
    <3> QED
      BY <3>1, <3>3, <3>4, ClaimRanked
  <2> QED
    BY <2>1, <2>2, <2>3
<1>7. DeposedInv'
  BY <1>2, <1>3 DEF PairInv, DeposedInv
<1>8. OlderRoundInv'
  <2> SUFFICES ASSUME NEW n \in Nodes, NEW m \in Nodes, LeaseValid(n), ack[m] # NoTime,
                      Before(vote[m].term, m, seenTerm[n], n)
               PROVE  ack[m] + QuorumTimeout + 3 * MetricsDelay + FenceBound < Ripe(n)'
    BY <1>2, <1>3 DEF OlderRoundInv
  <2>1. ack[m] + QuorumTimeout + 3 * MetricsDelay + FenceBound < Ripe(n)
    BY DEF PairInv, OlderRoundInv
  <2> QED
    BY <1>1, <1>4, <2>1 DEF Components
<1>9. OlderLeaseInv'
  <2> SUFFICES ASSUME NEW n \in Nodes, NEW m \in Nodes, LeaseValid(n), LeaseValid(m),
                      Dirty(m), Before(seenTerm[m], m, seenTerm[n], n)
               PROVE  dirtyAt[m] + 2 * MetricsDelay + FenceBound < Ripe(n)'
    BY <1>2, <1>3 DEF OlderLeaseInv
  <2>1. dirtyAt[m] + 2 * MetricsDelay + FenceBound < Ripe(n)
    BY DEF PairInv, OlderLeaseInv
  <2> QED
    BY <1>1, <1>4, <2>1 DEF Components
<1>10. DeposedWriterInv'
  <2> SUFFICES ASSUME NEW n \in Nodes, NEW m \in Nodes, n # m, LeaseValid(n), Dirty(n),
                      Armed(m)'
               PROVE  dirtyAt[n] + MetricsDelay < Ripe(n)
    BY <1>1, <1>2, <1>3, <1>4 DEF DeposedWriterInv, Components
  <2>1. CASE Armed(m)
    BY <2>1 DEF PairInv, DeposedWriterInv
  <2>2. CASE ~Armed(m)
    <3>1. LeaseValid(m) /\ Ripe(m) <= now
      BY <1>5, <2>2
    <3>2. now <= dirtyAt[n] + MetricsDelay /\ dirtyAt[n] <= now
      BY Leaseholder
    <3>3. CASE Before(seenTerm[n], n, seenTerm[m], m) /\ seenTerm[m] > 1 /\ ~Dirty(m)
      <4>1. RaftLeader(m) = m /\ vote[m].node = m /\ vote[m].term = seenTerm[m]
            /\ Start(m) + Hold <= Ripe(m)
        BY <3>1, <3>3, Leaseholder
      <4>2. dirtyAt[n] <= stood[m] + QuorumTimeout + MetricsDelay
        BY <3>3, <4>1 DEF PairInv, DeposedInv, Above
      <4>3. Start(m) = stood[m]
        BY <1>1, <3>3, <4>1 DEF Start, Components
      <4> QED
        BY <1>1, <1>4, <3>1, <3>2, <4>1, <4>2, <4>3, Margins DEF Components
    <3>4. CASE Before(seenTerm[n], n, seenTerm[m], m) /\ Dirty(m)
      <4>1. dirtyAt[n] + 2 * MetricsDelay + FenceBound < Ripe(m)
        BY <3>1, <3>4 DEF PairInv, OlderLeaseInv
      <4> QED
        BY <1>1, <1>4, <3>1, <3>2, <4>1 DEF Components
    <3>5. CASE Before(seenTerm[m], m, seenTerm[n], n) /\ ~Dirty(m)
      <4>1. /\ vote[m].term = seenTerm[m] /\ ack[m] # NoTime /\ ack[m] \in Nat
            /\ now <= ack[m] + QuorumTimeout + MetricsDelay
        BY <3>1, <3>5, Leaseholder
      <4>2. ack[m] + QuorumTimeout + 3 * MetricsDelay + FenceBound < Ripe(n)
        BY <3>5, <4>1 DEF PairInv, OlderRoundInv
      <4> QED
        BY <1>1, <1>4, <3>2, <4>1, <4>2 DEF Components
    <3>6. CASE Before(seenTerm[m], m, seenTerm[n], n) /\ Dirty(m)
      <4>1. dirtyAt[m] + 2 * MetricsDelay + FenceBound < Ripe(n)
        BY <3>1, <3>6 DEF PairInv, OlderLeaseInv
      <4>2. now <= dirtyAt[m] + MetricsDelay
        BY <3>1, <3>6, Leaseholder
      <4> QED
        BY <1>1, <1>4, <3>2, <4>1, <4>2 DEF Components
    <3> QED
      BY <3>1, <3>3, <3>4, <3>5, <3>6, ClaimsDiffer
  <2> QED
    BY <2>1, <2>2
<1>11. ArmedInv'
  <2>1. ASSUME NEW n \in Nodes, NEW m \in Nodes, n # m, Armed(n)', ~Armed(n), Armed(m)
        PROVE  FALSE
    <3>1. LeaseValid(n) /\ Ripe(n) <= now
      BY <1>5, <2>1
    <3>2. CASE ~Dirty(n)
      <4>1. /\ RaftLeader(n) = n /\ ack[n] # NoTime /\ ack[n] \in Nat
            /\ now <= ack[n] + QuorumTimeout + MetricsDelay
            /\ Start(n) + Hold <= Ripe(n)
        BY <3>1, <3>2, Leaseholder
      <4>2. now <= Until(m) /\ Until(m) \in Int
        BY <2>1, ArmedUntil
      <4>3. CASE Until(m) <= Start(n) + QuorumTimeout + 2 * MetricsDelay + FenceBound
        BY <1>1, <1>4, <3>1, <4>1, <4>2, <4>3, Margins DEF Components
      <4>4. CASE Late(n)
        BY <1>1, <1>4, <3>1, <4>1, <4>4 DEF Late, Components
      <4> QED
        BY <2>1, <4>1, <4>3, <4>4 DEF PairInv, LeaderInv
    <3>3. CASE Dirty(n)
      <4>1. dirtyAt[n] + MetricsDelay < Ripe(n)
        BY <2>1, <3>1, <3>3 DEF PairInv, DeposedWriterInv
      <4>2. now <= dirtyAt[n] + MetricsDelay
        BY <3>1, <3>3, Leaseholder
      <4> QED
        BY <1>1, <1>4, <3>1, <4>1, <4>2 DEF Components
    <3> QED
      BY <3>2, <3>3
  <2> SUFFICES ASSUME NEW n \in Nodes, NEW m \in Nodes, n # m, Armed(n)', Armed(m)'
               PROVE  FALSE
    BY DEF ArmedInv
  <2>2. CASE Armed(n) /\ Armed(m)
    BY <2>2 DEF PairInv, ArmedInv
  <2>3. CASE ~Armed(n) /\ ~Armed(m)
    BY <2>3 DEF PassStep
  <2> QED
    BY <2>1, <2>2, <2>3
<1> QED
  BY <1>6, <1>7, <1>8, <1>9, <1>10, <1>11 DEF PairInv

-----------------------------------------------------------------------------
(***************************************************************************)
(* One metrics update, with more than one voter: the view is fresh, a      *)
(* lease is valid only on a round inside the quorum timeout, and the       *)
(* hold-down of a node that stood or leads does not get shorter.           *)
(***************************************************************************)
LEMMA ProcessFacts ==
  ASSUME TimingMargins, TypeOK, TypeOK', RaftInv, LocalInv, Cardinality(Nodes) # 1,
         NEW n \in Nodes, NEW lag \in 0..MetricsDelay, Process(n, lag)
  PROVE  /\ UNCHANGED <<now, raftVars, pgVars>> /\ alive[n]
         /\ \A j \in Nodes \ {n} :
              /\ anchor'[j] = anchor[j] /\ seenTerm'[j] = seenTerm[j]
              /\ seenLeader'[j] = seenLeader[j] /\ leaseLeader'[j] = leaseLeader[j]
              /\ leaseExp'[j] = leaseExp[j]
         /\ seenTerm'[n] = vote[n].term /\ seenLeader'[n] = RaftLeader(n)
         /\ leaseLeader'[n] <=> RaftLeader(n) = n
         /\ ~Dirty(n)'
         /\ anchor'[n] <= now
         /\ vote[n].node = n =>
              /\ Ripe(n) <= Ripe(n)'
              /\ seenTerm[n] # vote[n].term => anchor'[n] = now
         /\ \/ /\ LeaseValid(n)' /\ RaftLeader(n) = n
               /\ ack[n] # NoTime /\ now <= ack[n] + QuorumTimeout + MetricsDelay
            \/ /\ ~LeaseValid(n)' /\ leaseExp'[n] <= now
               /\ leaseExp'[n] = leaseExp[n] \/ (leaseExp'[n] = now /\ now < leaseExp[n])
<1> USE ConstantsAreNat
<1>1. Components
  BY Typed
<1> DEFINE leader == RaftLeader(n)
           age == IF Cardinality(Nodes) = 1 THEN 0
                  ELSE IF ack[n] = NoTime THEN NoTime ELSE now - lag - ack[n]
           quorum == HasQuorumDecision(leader = n, leader, age)
           exp == IF leader = n /\ quorum THEN RenewedExpiry(age) ELSE ExpiredBy(leaseExp[n])
<1>2. /\ alive[n] /\ UNCHANGED <<now, raftVars, pgVars>>
      /\ anchor' = [anchor EXCEPT ![n] = AnchorAfter(n, leader)]
      /\ seenTerm' = [seenTerm EXCEPT ![n] = vote[n].term]
      /\ seenLeader' = [seenLeader EXCEPT ![n] = leader]
      /\ leaseLeader' = [leaseLeader EXCEPT ![n] = (leader = n)]
      /\ leaseExp' = [leaseExp EXCEPT ![n] = exp]
  BY DEF Process
<1>3. \/ leader = n /\ exp > now /\ ack[n] # NoTime
         /\ now <= ack[n] + QuorumTimeout + MetricsDelay
      \/ /\ exp <= now
         /\ exp = leaseExp[n] \/ (exp = now /\ now < leaseExp[n])
  <2>1. CASE leader = n /\ quorum
    <3>1. age # NoTime /\ age < QuorumTimeout
      <4> HIDE DEF age
      <4> QED
        BY <2>1 DEF HasQuorumDecision
    <3>2. ack[n] # NoTime /\ age = now - lag - ack[n]
      BY <3>1
    <3>3. exp = now - age + Lease
      BY <2>1 DEF RenewedExpiry
    <3> QED
      BY <1>1, <2>1, <3>1, <3>2, <3>3, Margins DEF Components
  <2>2. CASE ~(leader = n /\ quorum)
    <3>1. exp = ExpiredBy(leaseExp[n])
      BY <2>2
    <3> QED
      BY <1>1, <3>1 DEF ExpiredBy, Components
  <2> QED
    BY <2>1, <2>2
<1>4. vote[n].node = n => leader = n \/ leader = NoNode
  BY DEF RaftLeader
<1>5. /\ seenTerm[n] >= 1 /\ seenTerm[n] <= vote[n].term /\ anchor[n] <= now
  BY <1>2 DEF LocalInv, SeenInv, AnchorInv
<1>6. /\ AnchorAfter(n, leader) <= now
      /\ vote[n].node = n =>
           /\ AnchorAfter(n, leader) = anchor[n] \/ AnchorAfter(n, leader) = now
           /\ seenTerm[n] # vote[n].term => AnchorAfter(n, leader) = now
  <2>1. AnchorAfter(n, leader) \in {now, NoTime, anchor[n]}
    BY DEF AnchorAfter
  <2>2. AnchorAfter(n, leader) <= now
    BY <1>1, <1>5, <2>1 DEF Components, NoTime
  <2>3. ASSUME vote[n].node = n
        PROVE  /\ AnchorAfter(n, leader) = anchor[n] \/ AnchorAfter(n, leader) = now
               /\ seenTerm[n] # vote[n].term => AnchorAfter(n, leader) = now
    <3>1. ~ShouldClearStaleFailoverAnchor(leader, leader = n)
      BY <1>4, <2>3 DEF ShouldClearStaleFailoverAnchor
    <3>2. seenTerm[n] # vote[n].term =>
            ShouldAnchorTermAdvance(seenTerm[n], vote[n].term, leader, leader = n)
      BY <1>1, <1>4, <1>5, <2>3 DEF ShouldAnchorTermAdvance, Components
    <3> QED
      BY <3>1, <3>2 DEF AnchorAfter
  <2> QED
    BY <2>2, <2>3
<1> HIDE DEF leader, exp
<1>7. /\ anchor'[n] = AnchorAfter(n, leader) /\ seenTerm'[n] = vote[n].term
      /\ seenLeader'[n] = leader /\ leaseExp'[n] = exp /\ leaseLeader'[n] = (leader = n)
      /\ \A j \in Nodes \ {n} :
           /\ anchor'[j] = anchor[j] /\ seenTerm'[j] = seenTerm[j]
           /\ seenLeader'[j] = seenLeader[j] /\ leaseLeader'[j] = leaseLeader[j]
           /\ leaseExp'[j] = leaseExp[j]
  BY <1>2 DEF TypeOK
<1>8. vote' = vote /\ RaftLeader(n)' = leader
  BY <1>2 DEF raftVars, leader, RaftLeader
<1>9. ~Dirty(n)'
  BY <1>7, <1>8 DEF Dirty
<1>10. vote[n].node = n => Ripe(n) <= Ripe(n)'
  <2>1. vote[n].node = n => anchor'[n] = anchor[n] \/ anchor'[n] = now
    BY <1>6, <1>7
  <2>2. now' = now /\ now \in Nat /\ anchor[n] \in Int /\ Lease \in Nat
    BY <1>1, <1>2 DEF Components
  <2> QED
    BY <1>5, <2>1, <2>2 DEF Ripe, NoTime
<1>11. \/ /\ LeaseValid(n)' /\ leader = n
          /\ ack[n] # NoTime /\ now <= ack[n] + QuorumTimeout + MetricsDelay
       \/ /\ ~LeaseValid(n)' /\ leaseExp'[n] <= now
          /\ leaseExp'[n] = leaseExp[n] \/ (leaseExp'[n] = now /\ now < leaseExp[n])
  <2>1. exp \in Nat /\ now \in Nat /\ now' = now
    BY <1>1, <1>2, <1>7 DEF TypeOK, Components
  <2>2. LeaseValid(n)' <=> leader = n /\ now < exp
    BY <1>7, <2>1 DEF LeaseValid
  <2> QED
    BY <1>3, <1>7, <2>1, <2>2
<1> QED
  BY <1>2, <1>6, <1>7, <1>9, <1>10, <1>11 DEF leader

\* A metrics update keeps what each node's loops rely on and what the nodes owe
\* each other: a renewed lease rests on the last round, a revoked one ends now.
LEMMA ProcessStep ==
  ASSUME TimingMargins, TypeOK, TypeOK', RaftInv, LocalInv, PairInv, Cardinality(Nodes) # 1,
         NEW n \in Nodes, NEW lag \in 0..MetricsDelay, Process(n, lag)
  PROVE  LocalInv' /\ PairInv'
<1> USE ConstantsAreNat
<1>1. Components /\ Components' /\ Ranked /\ LeftLate
  BY Typed, TypedNext, RankedHolds, LeftLateHolds DEF RaftInv
<1>2. /\ alive[n]
      /\ UNCHANGED <<now, alive, crashes, downAt, vote, contact, stood, granted, ack, dirtyAt>>
      /\ UNCHANGED <<view, pg, ro, opening, openAnchor>>
  BY ProcessFacts DEF raftVars, pgVars
<1>3. \A j \in Nodes \ {n} :
        /\ anchor'[j] = anchor[j] /\ seenTerm'[j] = seenTerm[j]
        /\ seenLeader'[j] = seenLeader[j] /\ leaseLeader'[j] = leaseLeader[j]
        /\ leaseExp'[j] = leaseExp[j]
  BY ProcessFacts
<1>4. /\ seenTerm'[n] = vote[n].term /\ seenLeader'[n] = RaftLeader(n)
      /\ leaseLeader'[n] <=> RaftLeader(n) = n
      /\ ~Dirty(n)' /\ anchor'[n] <= now
      /\ vote[n].node = n =>
           /\ Ripe(n) <= Ripe(n)'
           /\ seenTerm[n] # vote[n].term => anchor'[n] = now
  BY ProcessFacts
<1>5. \/ /\ LeaseValid(n)' /\ RaftLeader(n) = n
         /\ ack[n] # NoTime /\ now <= ack[n] + QuorumTimeout + MetricsDelay
      \/ /\ ~LeaseValid(n)' /\ leaseExp'[n] <= now
         /\ leaseExp'[n] = leaseExp[n] \/ (leaseExp'[n] = now /\ now < leaseExp[n])
  BY ProcessFacts
<1>6. \A j : /\ RaftLeader(j)' = RaftLeader(j) /\ Start(j)' = Start(j)
             /\ Armed(j)' <=> Armed(j)
             /\ Writable(j)' <=> Writable(j)
             /\ Late(j)' <=> Late(j)
             /\ QuorumAbove(vote[j].term, j)' <=> QuorumAbove(vote[j].term, j)
  BY <1>2 DEF RaftLeader, Start, Armed, Writable, Late, QuorumAbove
<1>7. \A j \in Nodes \ {n} : /\ LeaseValid(j)' <=> LeaseValid(j)
                             /\ Dirty(j)' <=> Dirty(j)
                             /\ Ripe(j)' = Ripe(j) /\ Until(j)' = Until(j)
  BY <1>2, <1>3, <1>6 DEF LeaseValid, Dirty, Ripe, Until
<1>8. \A j \in Nodes : /\ Hold \in Nat /\ Start(j) \in Int /\ Ripe(j) \in Int
                       /\ Ripe(j)' \in Int
  BY <1>1, Margins DEF Components, Start, Ripe
<1>9. \A t, k : QuorumReaches(t, k)' <=> QuorumReaches(t, k)
  BY <1>2 DEF QuorumReaches
<1>10. RaftLeader(n) = n => vote[n].node = n /\ vote[n].committed
  BY <1>1 DEF RaftLeader, Components
<1>11. SeenInv'
  <2>1. ASSUME NEW j \in Nodes \ {n} PROVE SeenInv!(j)'
    BY <1>2, <1>3, <1>9 DEF LocalInv, SeenInv
  <2>2. /\ seenTerm'[n] <= vote'[n].term
        /\ alive'[n] => seenTerm'[n] >= 1
    BY <1>1, <1>2, <1>4 DEF RaftInv, VoteInv, Components
  <2>3. ASSUME leaseLeader'[n]
        PROVE  /\ alive'[n] /\ seenLeader'[n] = n
               /\ Reaches(vote'[n], seenTerm'[n], n)
               /\ vote'[n].committed
               /\ seenTerm'[n] > 1 => QuorumReaches(seenTerm[n], n)'
               /\ seenTerm'[n] = 1 => n = Founder
    <3>1. RaftLeader(n) = n /\ vote[n].node = n /\ vote[n].committed
      BY <1>4, <1>10, <2>3
    <3>2. Reaches(vote[n], vote[n].term, n)
      BY <1>1, <3>1 DEF Reaches, Before, Components
    <3>3. seenTerm'[n] > 1 => QuorumReaches(vote[n].term, n)
      BY <1>4, <3>1 DEF RaftInv, ElectedInv
    <3>4. seenTerm'[n] > 1 => QuorumReaches(seenTerm[n], n)'
      BY <1>2, <1>4, <3>3 DEF QuorumReaches
    <3> QED
      BY <1>2, <1>4, <3>1, <3>2, <3>4 DEF RaftInv, VoteInv
  <2> QED
    BY <2>1, <2>2, <2>3 DEF SeenInv
<1>12. LeaseInv'
  <2>1. ASSUME NEW j \in Nodes \ {n}
        PROVE  /\ ~leaseLeader'[j] => leaseExp'[j] <= now'
               /\ LeaseValid(j)' /\ ~Dirty(j)' =>
                    /\ ack'[j] # NoTime
                    /\ now' <= ack'[j] + QuorumTimeout + MetricsDelay
               /\ alive'[j] /\ Dirty(j)' => now' <= dirtyAt'[j] + MetricsDelay
    BY <1>2, <1>3, <1>7 DEF LocalInv, LeaseInv
  <2>2. /\ ~leaseLeader'[n] => leaseExp'[n] <= now'
        /\ LeaseValid(n)' => /\ ack'[n] # NoTime
                            /\ now' <= ack'[n] + QuorumTimeout + MetricsDelay
    BY <1>2, <1>4, <1>5
  <2> QED
    BY <1>4, <2>1, <2>2 DEF LeaseInv
<1>13. AnchorInv'
  <2> SUFFICES ASSUME NEW j \in Nodes
               PROVE  /\ anchor'[j] <= now /\ (~alive[j] => anchor'[j] = NoTime)
                      /\ alive[j] /\ vote[j].node = j /\ seenTerm'[j] = vote[j].term =>
                           Start(j) + Hold <= Ripe(j)'
    BY <1>2, <1>6 DEF AnchorInv
  <2>1. CASE j # n
    BY <1>3, <1>7, <2>1 DEF LocalInv, AnchorInv
  <2>2. CASE j = n /\ vote[n].node = n
    <3>1. CASE seenTerm[n] = vote[n].term
      <4>1. Start(n) + Hold <= Ripe(n)
        BY <1>2, <2>2, <3>1 DEF LocalInv, AnchorInv
      <4> QED
        BY <1>2, <1>4, <1>8, <2>2, <4>1
    <3>2. CASE seenTerm[n] # vote[n].term
      <4>1. Ripe(n)' = now + Lease
        BY <1>1, <1>4, <2>2, <3>2 DEF Ripe, Components, NoTime
      <4>2. Start(n) <= now
        BY <1>1, <1>8 DEF Start, RaftInv, VoteInv, Components
      <4> QED
        BY <1>1, <1>2, <1>4, <1>8, <2>2, <4>1, <4>2, Margins DEF Components
    <3> QED
      BY <3>1, <3>2
  <2> QED
    BY <1>2, <1>4, <2>1, <2>2
<1>14. FenceInv'
  <2> SUFFICES ASSUME NEW j \in Nodes
               PROVE  /\ opening[j] # NoTime => opening[j] <= leaseExp'[j]
                      /\ Writable(j) => LeaseValid(j)' \/ now <= leaseExp'[j] + FenceBound
    BY <1>2, <1>6 DEF LocalInv, FenceInv
  <2>1. CASE j # n
    BY <1>3, <1>7, <2>1 DEF LocalInv, FenceInv
  <2>2. CASE j = n
    <3>1. opening[n] # NoTime => opening[n] <= now /\ opening[n] <= leaseExp[n]
      BY DEF LocalInv, FenceInv
    <3>2. Writable(n) => LeaseValid(n) \/ now <= leaseExp[n] + FenceBound
      BY DEF LocalInv, FenceInv
    <3>3. CASE LeaseValid(n)'
      BY <1>1, <1>2, <2>2, <3>1, <3>3 DEF LeaseValid, Components
    <3>4. CASE ~LeaseValid(n)'
      BY <1>1, <1>5, <2>2, <3>1, <3>2, <3>4 DEF LeaseValid, Components
    <3> QED
      BY <3>3, <3>4
  <2> QED
    BY <2>1, <2>2
<1>15. LocalInv'
  BY <1>11, <1>12, <1>13, <1>14 DEF LocalInv
<1>16. LeaderInv'
  <2> SUFFICES ASSUME NEW m \in Nodes, NEW k \in Nodes, m # k, RaftLeader(m) = m, Armed(k)
               PROVE  \/ Until(k)' <= Start(m) + QuorumTimeout + 2 * MetricsDelay + FenceBound
                      \/ QuorumAbove(vote[m].term, m) /\ Late(m)
    BY <1>6 DEF LeaderInv
  <2>0. \/ Until(k) <= Start(m) + QuorumTimeout + 2 * MetricsDelay + FenceBound
        \/ QuorumAbove(vote[m].term, m) /\ Late(m)
    BY DEF PairInv, LeaderInv
  <2>1. CASE k # n
    BY <1>7, <2>0, <2>1
  <2>2. now <= Until(k) /\ Until(k) \in Int
    BY ArmedUntil
  <2>3. CASE k = n /\ LeaseValid(n)'
    <3>1. /\ RaftLeader(n) = n /\ ack[n] # NoTime /\ vote[n].node = n /\ vote[n].committed
      BY <1>5, <1>10, <2>3
    <3>2. Until(n)' = ack[n] + QuorumTimeout + 2 * MetricsDelay + FenceBound
      BY <1>2, <1>4, <2>3 DEF Until
    <3>3. CASE Above(vote[m], vote[n].term, n) /\ vote[m].term > 1
      <4>1. ack[n] + ElectionMin <= stood[m] + VoteTtl
        BY <2>3, <3>1, <3>3 DEF RaftInv, SuccessorInv
      <4>2. Start(m) = stood[m]
        BY <1>1, <3>3 DEF Start, Components
      <4> QED
        BY <1>1, <2>3, <3>1, <3>2, <4>1, <4>2, Margins DEF Components
    <3>4. CASE /\ Above(vote[n], vote[m].term, m) /\ vote[n].term > 1
               /\ QuorumAbove(vote[m].term, m) /\ ack[m] # NoTime
      <4>1. QuorumReaches(vote[n].term, n)
        BY <3>1, <3>4 DEF RaftInv, ElectedInv
      <4>2. ack[m] + ElectionMin <= now
        BY <1>1, <3>1, <3>4, <4>1 DEF LeftLate, Above, Components
      <4>3. CASE Until(n) <= Start(m) + QuorumTimeout + 2 * MetricsDelay + FenceBound
        <5>1. ack[m] + QuorumTimeout + 2 * MetricsDelay < Start(m) + Hold
          BY <1>1, <1>8, <2>2, <2>3, <4>2, <4>3, Margins DEF Components
        <5> QED
          BY <3>4, <5>1 DEF Late
      <4> QED
        BY <2>0, <2>3, <4>3
    <3> QED
      BY <1>1, <2>3, <3>1, <3>3, <3>4 DEF Ranked, Late
  <2>4. CASE k = n /\ ~LeaseValid(n)'
    <3>1. Until(n)' = leaseExp'[n] + FenceBound
      BY <2>4 DEF Until
    <3>2. Until(n)' <= Until(n)
      <4>1. CASE ~LeaseValid(n)
        <5>1. Until(n) = leaseExp[n] + FenceBound
          BY <4>1 DEF Until
        <5> QED
          BY <1>1, <1>5, <2>4, <3>1, <5>1 DEF Components
      <4>2. CASE LeaseValid(n) /\ Dirty(n)
        <5>1. Until(n) = dirtyAt[n] + MetricsDelay + FenceBound
          BY <4>2 DEF Until
        <5>2. now <= dirtyAt[n] + MetricsDelay
          BY <4>2, Leaseholder
        <5> QED
          BY <1>1, <1>5, <2>4, <3>1, <5>1, <5>2 DEF Components
      <4>3. CASE LeaseValid(n) /\ ~Dirty(n)
        <5>1. Until(n) = ack[n] + QuorumTimeout + 2 * MetricsDelay + FenceBound
          BY <4>3 DEF Until
        <5>2. now <= ack[n] + QuorumTimeout + MetricsDelay
          BY <4>3, Leaseholder
        <5> QED
          BY <1>1, <1>5, <2>4, <3>1, <5>1, <5>2 DEF Components
      <4> QED
        BY <4>1, <4>2, <4>3
    <3> QED
      BY <1>1, <1>8, <2>0, <2>2, <2>4, <3>1, <3>2 DEF Components
  <2> QED
    BY <2>1, <2>3, <2>4
<1>17. DeposedInv'
  BY <1>2, <1>3, <1>4, <1>6, <1>7 DEF PairInv, DeposedInv
<1>18. OlderRoundInv'
  <2> SUFFICES ASSUME NEW k \in Nodes, NEW m \in Nodes, LeaseValid(k)', ack[m] # NoTime,
                      Before(vote[m].term, m, seenTerm'[k], k)
               PROVE  ack[m] + QuorumTimeout + 3 * MetricsDelay + FenceBound < Ripe(k)'
    BY <1>2 DEF OlderRoundInv
  <2>1. CASE k # n
    BY <1>3, <1>7, <2>1 DEF PairInv, OlderRoundInv
  <2>2. CASE k = n
    <3>1. RaftLeader(n) = n /\ vote[n].node = n
      BY <1>5, <1>10, <2>2
    <3>2. RaftLeader(m) = m
      BY DEF RaftInv, VoteInv
    <3>3. m # n
      BY <1>1, <1>4, <2>2 DEF Before, Components
    <3>4. Above(vote[n], vote[m].term, m)
      BY <1>4, <2>2, <3>1 DEF Above
    <3>5. ack[m] + ElectionMin <= stood[n] + VoteTtl
      BY <3>1, <3>3, <3>4 DEF RaftInv, SuccessorInv
    <3>6. vote[n].term > 1
      BY <1>1, <3>1, <3>2, <3>3, <3>4 DEF Ranked, Above, Before, Components
    <3>7. Start(n) = stood[n]
      BY <1>1, <3>6 DEF Start, Components
    <3>8. Start(n) + Hold <= Ripe(n)'
      BY <1>2, <1>4, <1>6, <1>13, <3>1 DEF AnchorInv
    <3> QED
      BY <1>1, <1>8, <2>2, <3>5, <3>7, <3>8, Margins DEF Components
  <2> QED
    BY <2>1, <2>2
<1>19. OlderLeaseInv'
  <2> SUFFICES ASSUME NEW k \in Nodes, NEW m \in Nodes, LeaseValid(k)', LeaseValid(m)',
                      Dirty(m)', Before(seenTerm'[m], m, seenTerm'[k], k)
               PROVE  dirtyAt[m] + 2 * MetricsDelay + FenceBound < Ripe(k)'
    BY <1>2 DEF OlderLeaseInv
  <2>0. m # n
    BY <1>4
  <2>1. CASE k # n
    BY <1>3, <1>7, <2>0, <2>1 DEF PairInv, OlderLeaseInv
  <2>2. CASE k = n
    <3>1. RaftLeader(n) = n /\ vote[n].node = n
      BY <1>5, <1>10, <2>2
    <3>2. Above(vote[n], seenTerm[m], m) /\ LeaseValid(m) /\ Dirty(m)
      BY <1>3, <1>4, <1>7, <2>0, <2>2, <3>1 DEF Above
    <3>3. dirtyAt[m] <= stood[n] + QuorumTimeout + MetricsDelay
      BY <3>1, <3>2 DEF PairInv, DeposedInv
    <3>4. vote[n].term > 1
      BY <1>1, <2>0, <3>1, <3>2, ClaimRanked DEF Above, Before, Components
    <3>5. Start(n) = stood[n]
      BY <1>1, <3>4 DEF Start, Components
    <3>6. Start(n) + Hold <= Ripe(n)'
      BY <1>2, <1>4, <1>6, <1>13, <3>1 DEF AnchorInv
    <3> QED
      BY <1>1, <1>8, <2>2, <3>3, <3>5, <3>6, Margins DEF Components
  <2> QED
    BY <2>1, <2>2
<1>20. DeposedWriterInv'
  BY <1>2, <1>4, <1>6, <1>7 DEF PairInv, DeposedWriterInv
<1>21. ArmedInv'
  BY <1>6 DEF PairInv, ArmedInv
<1> QED
  BY <1>15, <1>16, <1>17, <1>18, <1>19, <1>20, <1>21 DEF PairInv

(***************************************************************************)
(* The clock moves only while no loop is overdue, so that everyone who is  *)
(* due to act by a deadline still is before it.                            *)
(***************************************************************************)
LEMMA TickStep ==
  ASSUME TimingMargins, TypeOK, TypeOK', RaftInv, LocalInv, PairInv, Tick
  PROVE  LocalInv' /\ PairInv'
<1> USE ConstantsAreNat
<1>1. Components /\ Components'
  BY Typed, TypedNext
<1>2. /\ now' = now + 1
      /\ UNCHANGED <<alive, crashes, downAt, vote, contact, stood, granted, ack, dirtyAt>>
      /\ UNCHANGED <<seenTerm, seenLeader, leaseLeader, leaseExp, anchor>>
      /\ UNCHANGED <<view, pg, ro, opening, openAnchor>>
  BY DEF Tick, raftVars, govVars, pgVars
<1>3. \A j \in Nodes : alive[j] =>
        /\ Dirty(j) => now < dirtyAt[j] + MetricsDelay
        /\ LeaseValid(j) /\ ack[j] # NoTime => now < ack[j] + QuorumTimeout + MetricsDelay
        /\ Writable(j) /\ ~LeaseValid(j) => now < leaseExp[j] + FenceBound
        /\ opening[j] # NoTime => now < opening[j] + OpenBound
  BY <1>1 DEF Tick, Overdue, Components
<1>4. \A j : /\ RaftLeader(j)' = RaftLeader(j) /\ Start(j)' = Start(j)
             /\ Armed(j)' <=> Armed(j)
             /\ Writable(j)' <=> Writable(j)
             /\ Dirty(j)' <=> Dirty(j)
             /\ QuorumAbove(vote[j].term, j)' <=> QuorumAbove(vote[j].term, j)
  BY <1>2 DEF RaftLeader, Start, Armed, Writable, Dirty, QuorumAbove
<1>5. \A j \in Nodes : /\ LeaseValid(j)' => LeaseValid(j)
                       /\ LeaseValid(j) /\ ~LeaseValid(j)' => leaseExp[j] = now + 1
  BY <1>1, <1>2 DEF LeaseValid, Components
<1>6. \A j \in Nodes : /\ Hold \in Nat /\ Start(j) \in Int /\ Ripe(j) \in Int
                       /\ Ripe(j)' \in Int /\ Ripe(j) <= Ripe(j)'
  BY <1>1, <1>2, Margins DEF Components, Start, Ripe
<1>7. SeenInv'
  <2>1. \A t, k : QuorumReaches(t, k)' <=> QuorumReaches(t, k)
    BY <1>2 DEF QuorumReaches
  <2> QED
    BY <1>2, <2>1 DEF LocalInv, SeenInv
<1>8. LeaseInv'
  <2> SUFFICES ASSUME NEW j \in Nodes
               PROVE  /\ ~leaseLeader[j] => leaseExp[j] <= now + 1
                      /\ LeaseValid(j)' /\ ~Dirty(j) =>
                           ack[j] # NoTime /\ now + 1 <= ack[j] + QuorumTimeout + MetricsDelay
                      /\ alive[j] /\ Dirty(j) => now + 1 <= dirtyAt[j] + MetricsDelay
    BY <1>2, <1>4 DEF LeaseInv
  <2>1. ~leaseLeader[j] => leaseExp[j] <= now + 1
    BY <1>1 DEF LocalInv, LeaseInv, Components
  <2>2. LeaseValid(j)' /\ ~Dirty(j) =>
          ack[j] # NoTime /\ now + 1 <= ack[j] + QuorumTimeout + MetricsDelay
    <3>1. LeaseValid(j) => alive[j]
      BY Leaseholder
    <3>2. LeaseValid(j) /\ ~Dirty(j) => ack[j] # NoTime
      BY Leaseholder
    <3> QED
      BY <1>1, <1>3, <1>5, <3>1, <3>2 DEF Components
  <2>3. alive[j] /\ Dirty(j) => now + 1 <= dirtyAt[j] + MetricsDelay
    BY <1>1, <1>3 DEF Components
  <2> QED
    BY <2>1, <2>2, <2>3
<1>9. AnchorInv'
  <2> SUFFICES ASSUME NEW j \in Nodes
               PROVE  /\ anchor[j] <= now + 1 /\ (~alive[j] => anchor[j] = NoTime)
                      /\ alive[j] /\ vote[j].node = j /\ seenTerm[j] = vote[j].term =>
                           Start(j) + Hold <= Ripe(j)'
    BY <1>2, <1>4 DEF AnchorInv
  <2>1. anchor[j] <= now /\ (~alive[j] => anchor[j] = NoTime)
    BY DEF LocalInv, AnchorInv
  <2>2. alive[j] /\ vote[j].node = j /\ seenTerm[j] = vote[j].term =>
          Start(j) + Hold <= Ripe(j)
    BY DEF LocalInv, AnchorInv
  <2> QED
    BY <1>1, <1>6, <2>1, <2>2 DEF Components
<1>10. FenceInv'
  <2> SUFFICES ASSUME NEW j \in Nodes
               PROVE  /\ ~alive[j] => ro[j]
                      /\ opening[j] # NoTime =>
                           /\ alive[j] /\ opening[j] <= now + 1
                           /\ now + 1 <= opening[j] + OpenBound
                           /\ opening[j] <= leaseExp[j]
                           /\ openAnchor[j] # NoTime => openAnchor[j] + Lease <= opening[j]
                      /\ Writable(j) => LeaseValid(j)' \/ now + 1 <= leaseExp[j] + FenceBound
    BY <1>2, <1>4 DEF FenceInv
  <2>1. /\ ~alive[j] => ro[j]
        /\ opening[j] # NoTime =>
             /\ alive[j] /\ opening[j] <= now /\ opening[j] <= leaseExp[j]
             /\ openAnchor[j] # NoTime => openAnchor[j] + Lease <= opening[j]
    BY DEF LocalInv, FenceInv
  <2>2. opening[j] # NoTime => opening[j] <= now + 1 /\ now + 1 <= opening[j] + OpenBound
    BY <1>1, <1>3, <2>1 DEF Components
  <2>3. Writable(j) => LeaseValid(j)' \/ now + 1 <= leaseExp[j] + FenceBound
    <3>1. Writable(j) => alive[j]
      BY DEF Writable
    <3> QED
      BY <1>1, <1>3, <1>5, <3>1 DEF Components
  <2> QED
    BY <2>1, <2>2, <2>3
<1>11. LocalInv'
  BY <1>7, <1>8, <1>9, <1>10 DEF LocalInv
<1>12. LeaderInv'
  <2> SUFFICES ASSUME NEW m \in Nodes, NEW k \in Nodes, m # k, RaftLeader(m) = m, Armed(k)
               PROVE  \/ Until(k)' <= Start(m) + QuorumTimeout + 2 * MetricsDelay + FenceBound
                      \/ QuorumAbove(vote[m].term, m) /\ Late(m)'
    BY <1>4 DEF LeaderInv
  <2>1. Until(k)' <= Until(k) /\ Until(k)' \in Int /\ Until(k) \in Int
    <3>1. CASE LeaseValid(k) /\ ~LeaseValid(k)'
      <4>1. Until(k)' = now + 1 + FenceBound
        BY <1>2, <1>5, <3>1 DEF Until
      <4>2. CASE Dirty(k)
        <5>1. alive[k] /\ Until(k) = dirtyAt[k] + MetricsDelay + FenceBound
          BY <3>1, <4>2, Leaseholder DEF Until
        <5> QED
          BY <1>1, <1>3, <4>1, <4>2, <5>1 DEF Components
      <4>3. CASE ~Dirty(k)
        <5>1. /\ alive[k] /\ ack[k] # NoTime
              /\ Until(k) = ack[k] + QuorumTimeout + 2 * MetricsDelay + FenceBound
          BY <3>1, <4>3, Leaseholder DEF Until
        <5> QED
          BY <1>1, <1>3, <3>1, <4>1, <5>1 DEF Components
      <4> QED
        BY <4>2, <4>3
    <3>2. CASE LeaseValid(k) <=> LeaseValid(k)'
      <4>1. Until(k)' = Until(k)
        BY <1>2, <1>4, <3>2 DEF Until
      <4> QED
        BY <1>1, <4>1, ArmedUntil
    <3> QED
      BY <1>5, <3>1, <3>2
  <2>2. Late(m) => Late(m)'
    BY <1>1, <1>2, <1>4, <1>6 DEF Late, Components
  <2>3. \/ Until(k) <= Start(m) + QuorumTimeout + 2 * MetricsDelay + FenceBound
        \/ QuorumAbove(vote[m].term, m) /\ Late(m)
    BY DEF PairInv, LeaderInv
  <2> QED
    BY <1>6, <2>1, <2>2, <2>3
<1>13. DeposedInv'
  BY <1>2, <1>4, <1>5 DEF PairInv, DeposedInv
<1>14. OlderRoundInv'
  <2> SUFFICES ASSUME NEW k \in Nodes, NEW m \in Nodes, LeaseValid(k), ack[m] # NoTime,
                      Before(vote[m].term, m, seenTerm[k], k)
               PROVE  ack[m] + QuorumTimeout + 3 * MetricsDelay + FenceBound < Ripe(k)'
    BY <1>2, <1>5 DEF OlderRoundInv
  <2>1. ack[m] + QuorumTimeout + 3 * MetricsDelay + FenceBound < Ripe(k)
    BY DEF PairInv, OlderRoundInv
  <2> QED
    BY <1>1, <1>6, <2>1 DEF Components
<1>15. OlderLeaseInv'
  <2> SUFFICES ASSUME NEW k \in Nodes, NEW m \in Nodes, LeaseValid(k), LeaseValid(m),
                      Dirty(m), Before(seenTerm[m], m, seenTerm[k], k)
               PROVE  dirtyAt[m] + 2 * MetricsDelay + FenceBound < Ripe(k)'
    BY <1>2, <1>4, <1>5 DEF OlderLeaseInv
  <2>1. dirtyAt[m] + 2 * MetricsDelay + FenceBound < Ripe(k)
    BY DEF PairInv, OlderLeaseInv
  <2> QED
    BY <1>1, <1>6, <2>1 DEF Components
<1>16. DeposedWriterInv'
  <2> SUFFICES ASSUME NEW k \in Nodes, NEW m \in Nodes, k # m, LeaseValid(k), Dirty(k),
                      Armed(m)
               PROVE  dirtyAt[k] + MetricsDelay < Ripe(k)'
    BY <1>2, <1>4, <1>5 DEF DeposedWriterInv
  <2>1. dirtyAt[k] + MetricsDelay < Ripe(k)
    BY DEF PairInv, DeposedWriterInv
  <2> QED
    BY <1>1, <1>6, <2>1 DEF Components
<1>17. ArmedInv'
  BY <1>4 DEF PairInv, ArmedInv
<1> QED
  BY <1>11, <1>12, <1>13, <1>14, <1>15, <1>16, <1>17 DEF PairInv

(***************************************************************************)
(* A crashed process takes no writes, holds no lease and has no round.     *)
(***************************************************************************)
LEMMA CrashStep ==
  ASSUME TypeOK, TypeOK', RaftInv, LocalInv, PairInv, NEW n \in Nodes, Crash(n)
  PROVE  LocalInv' /\ PairInv'
<1> USE ConstantsAreNat
<1>1. Components /\ Components'
  BY Typed, TypedNext
<1>2. /\ UNCHANGED <<now, vote, contact, stood, dirtyAt, pg>>
      /\ ~alive'[n] /\ ack'[n] = NoTime /\ seenTerm'[n] = 0 /\ ~leaseLeader'[n]
      /\ leaseExp'[n] = 0 /\ anchor'[n] = NoTime /\ ro'[n]
      /\ opening'[n] = NoTime /\ openAnchor'[n] = NoTime
      /\ \A j \in Nodes \ {n} :
           /\ alive'[j] = alive[j] /\ ack'[j] = ack[j] /\ seenTerm'[j] = seenTerm[j]
           /\ seenLeader'[j] = seenLeader[j] /\ leaseLeader'[j] = leaseLeader[j]
           /\ leaseExp'[j] = leaseExp[j] /\ anchor'[j] = anchor[j] /\ ro'[j] = ro[j]
           /\ opening'[j] = opening[j] /\ openAnchor'[j] = openAnchor[j]
  BY DEF Crash, TypeOK
<1>3. \A j : /\ RaftLeader(j)' = RaftLeader(j) /\ Start(j)' = Start(j)
             /\ QuorumAbove(vote[j].term, j)' <=> QuorumAbove(vote[j].term, j)
  BY <1>2 DEF RaftLeader, Start, QuorumAbove
<1>4. \A j \in Nodes \ {n} : /\ LeaseValid(j)' <=> LeaseValid(j)
                             /\ Dirty(j)' <=> Dirty(j)
                             /\ Ripe(j)' = Ripe(j) /\ Until(j)' = Until(j)
                             /\ Armed(j)' <=> Armed(j)
                             /\ Writable(j)' <=> Writable(j)
  BY <1>2, <1>3 DEF LeaseValid, Dirty, Ripe, Until, Armed, Writable
<1>5. \A j \in Nodes : Late(j) => Late(j)'
  BY <1>2, <1>3 DEF Late
<1>6. ~LeaseValid(n)' /\ ~Armed(n)' /\ ~Writable(n)'
  BY <1>2 DEF LeaseValid, Armed, Writable
<1>7. SeenInv'
  <2>1. \A t, k : QuorumReaches(t, k)' <=> QuorumReaches(t, k)
    BY <1>2 DEF QuorumReaches
  <2>2. 0 <= vote[n].term
    BY <1>1 DEF Components
  <2> QED
    BY <1>2, <2>1, <2>2 DEF LocalInv, SeenInv
<1>8. LeaseInv'
  <2>1. 0 <= now
    BY <1>1 DEF Components
  <2> QED
    BY <1>2, <1>4, <1>6, <2>1 DEF LocalInv, LeaseInv
<1>9. AnchorInv'
  <2>1. NoTime <= now
    BY <1>1 DEF Components, NoTime
  <2> QED
    BY <1>2, <1>3, <1>4, <2>1 DEF LocalInv, AnchorInv
<1>10. FenceInv'
  BY <1>2, <1>4, <1>6 DEF LocalInv, FenceInv
<1>11. LocalInv'
  BY <1>7, <1>8, <1>9, <1>10 DEF LocalInv
<1>12. LeaderInv'
  BY <1>3, <1>4, <1>5, <1>6 DEF PairInv, LeaderInv
<1>13. DeposedInv'
  BY <1>2, <1>3, <1>4, <1>6 DEF PairInv, DeposedInv
<1>14. OlderRoundInv'
  BY <1>2, <1>4, <1>6 DEF PairInv, OlderRoundInv
<1>15. OlderLeaseInv'
  BY <1>2, <1>4, <1>6 DEF PairInv, OlderLeaseInv
<1>16. DeposedWriterInv'
  BY <1>2, <1>4, <1>6 DEF PairInv, DeposedWriterInv
<1>17. ArmedInv'
  BY <1>4, <1>6 DEF PairInv, ArmedInv
<1> QED
  BY <1>11, <1>12, <1>13, <1>14, <1>15, <1>16, <1>17 DEF PairInv

(***************************************************************************)
(* A restarted process starts without a lease, and its hold-down, which    *)
(* it has forgotten, is over: it was down for RestartMin.                  *)
(***************************************************************************)
LEMMA RestartStep ==
  ASSUME TimingMargins, TypeOK, TypeOK', RaftInv, LocalInv, PairInv, NEW n \in Nodes, Restart(n)
  PROVE  LocalInv' /\ PairInv'
<1> USE ConstantsAreNat
<1>1. Components /\ Components'
  BY Typed, TypedNext
<1>2. /\ UNCHANGED <<now, crashes, vote, stood, downAt, ack, seenLeader, leaseLeader>>
      /\ UNCHANGED <<anchor, pg, ro, opening, openAnchor>>
      /\ ~alive[n] /\ now >= downAt[n] + RestartMin
      /\ alive'[n] /\ seenTerm'[n] = vote[n].term /\ leaseExp'[n] = now /\ dirtyAt'[n] = now
      /\ \A j \in Nodes \ {n} :
           /\ alive'[j] = alive[j] /\ seenTerm'[j] = seenTerm[j]
           /\ leaseExp'[j] = leaseExp[j] /\ dirtyAt'[j] = dirtyAt[j]
  BY DEF Restart, TypeOK, pgVars
<1>3. \A j : /\ RaftLeader(j)' = RaftLeader(j) /\ Start(j)' = Start(j)
             /\ QuorumAbove(vote[j].term, j)' <=> QuorumAbove(vote[j].term, j)
  BY <1>2 DEF RaftLeader, Start, QuorumAbove
<1>4. \A j \in Nodes \ {n} : /\ LeaseValid(j)' <=> LeaseValid(j)
                             /\ Dirty(j)' <=> Dirty(j)
                             /\ Ripe(j)' = Ripe(j) /\ Until(j)' = Until(j)
                             /\ Armed(j)' <=> Armed(j)
                             /\ Writable(j)' <=> Writable(j)
  BY <1>2, <1>3 DEF LeaseValid, Dirty, Ripe, Until, Armed, Writable
<1>5. ~leaseLeader[n] /\ ro[n] /\ opening[n] = NoTime /\ anchor[n] = NoTime
  BY <1>2 DEF LocalInv, SeenInv, FenceInv, AnchorInv
<1>6. /\ ~LeaseValid(n)' /\ ~Armed(n)' /\ ~Writable(n)' /\ Ripe(n)' = Ripe(n)
      /\ \A j \in Nodes : Late(j) => Late(j)'
  BY <1>2, <1>3, <1>5 DEF LeaseValid, Armed, Writable, Ripe, Late
<1>7. SeenInv'
  <2>1. \A t, k : QuorumReaches(t, k)' <=> QuorumReaches(t, k)
    BY <1>2 DEF QuorumReaches
  <2>2. vote[n].term <= vote[n].term /\ vote[n].term >= 1
    BY <1>1 DEF Components, RaftInv, VoteInv
  <2> QED
    BY <1>2, <1>5, <2>1, <2>2 DEF LocalInv, SeenInv
<1>8. LeaseInv'
  <2>1. now <= now /\ now <= now + MetricsDelay
    BY <1>1 DEF Components
  <2> QED
    BY <1>2, <1>4, <1>6, <2>1 DEF LocalInv, LeaseInv
<1>9. AnchorInv'
  <2>1. Start(n) + Hold <= Ripe(n)
    <3>1. stood[n] <= downAt[n] /\ crashes > 0
      BY <1>2 DEF RaftInv, VoteInv
    <3>2. Hold <= RestartMin /\ Hold \in Nat
      BY <3>1, Margins DEF TypeOK
    <3>3. Ripe(n) = now
      BY <1>5 DEF Ripe
    <3> QED
      BY <1>1, <1>2, <3>1, <3>2, <3>3 DEF Start, Components
  <2> QED
    BY <1>2, <1>3, <1>4, <1>5, <1>6, <2>1 DEF LocalInv, AnchorInv
<1>10. FenceInv'
  BY <1>2, <1>4, <1>5, <1>6 DEF LocalInv, FenceInv
<1>11. LocalInv'
  BY <1>7, <1>8, <1>9, <1>10 DEF LocalInv
<1>12. LeaderInv'
  BY <1>3, <1>4, <1>6 DEF PairInv, LeaderInv
<1>13. DeposedInv'
  BY <1>2, <1>3, <1>4, <1>6 DEF PairInv, DeposedInv
<1>14. OlderRoundInv'
  BY <1>2, <1>4, <1>6 DEF PairInv, OlderRoundInv
<1>15. OlderLeaseInv'
  BY <1>2, <1>4, <1>6 DEF PairInv, OlderLeaseInv
<1>16. DeposedWriterInv'
  BY <1>2, <1>4, <1>6 DEF PairInv, DeposedWriterInv
<1>17. ArmedInv'
  BY <1>4, <1>6 DEF PairInv, ArmedInv
<1> QED
  BY <1>11, <1>12, <1>13, <1>14, <1>15, <1>16, <1>17 DEF PairInv

(***************************************************************************)
(* A bootstrapped cluster satisfies the invariant.                         *)
(***************************************************************************)
LEMMA InitWriterInv ==
  ASSUME TimingMargins PROVE Init => WriterInv
<1> SUFFICES ASSUME Init PROVE WriterInv
  OBVIOUS
<1> USE ConstantsAreNat
<1>1. TypeOK
  BY InitTypeOK
<1>2. Components
  BY <1>1, Typed
<1>3. /\ now = 0 /\ crashes = 0
      /\ \A n \in Nodes :
           /\ alive[n] /\ downAt[n] = 0 /\ contact[n] = 0 /\ stood[n] = 0
           /\ vote[n].term = 1 /\ vote[n].node = Founder /\ vote[n].committed
           /\ ack[n] = NoTime /\ dirtyAt[n] = 0 /\ seenTerm[n] = 1
           /\ ~leaseLeader[n] /\ leaseExp[n] = 0 /\ anchor[n] = NoTime
           /\ ro[n] /\ opening[n] = NoTime
  BY DEF Init
<1>4. \A n \in Nodes : ~LeaseValid(n) /\ ~Writable(n) /\ ~Armed(n)
  BY <1>3 DEF LeaseValid, Writable, Armed
<1>5. RaftInv
  <2>1. VoteInv
    BY <1>3 DEF VoteInv, NoTime
  <2>2. GrantedInv /\ ElectedInv /\ RoundInv /\ SuccessorInv
    BY <1>3 DEF GrantedInv, ElectedInv, RoundInv, SuccessorInv
  <2> QED
    BY <2>1, <2>2 DEF RaftInv
<1>6. LocalInv
  <2>1. SeenInv
    BY <1>3 DEF SeenInv
  <2>2. LeaseInv
    BY <1>3, <1>4 DEF LeaseInv
  <2>3. AnchorInv
    BY <1>3, Margins DEF AnchorInv, Start, Ripe, NoTime
  <2>4. FenceInv
    BY <1>3, <1>4 DEF FenceInv
  <2> QED
    BY <2>1, <2>2, <2>3, <2>4 DEF LocalInv
<1>7. PairInv
  BY <1>4 DEF PairInv, LeaderInv, DeposedInv, OlderRoundInv, OlderLeaseInv,
              DeposedWriterInv, ArmedInv
<1> QED
  BY <1>1, <1>5, <1>6, <1>7 DEF WriterInv

(***************************************************************************)
(* Every step keeps the invariant, with more than one voter.  A step of    *)
(* openraft, of the governor, of the fence and the passes, of the process  *)
(* and of the clock each has its own argument.                             *)
(***************************************************************************)
LEMMA WriterStep ==
  ASSUME TimingMargins, WriterInv, [Next]_vars, Cardinality(Nodes) # 1
  PROVE  WriterInv'
<1>1. TypeOK /\ TypeOK' /\ RaftInv /\ LocalInv /\ PairInv
  BY TypeStep DEF WriterInv
<1>2. RaftStep /\ RaftInv' => WriterInv'
  BY <1>1, LocalRaftStep, PairRaftStep DEF WriterInv
<1>3. UNCHANGED <<now, raftVars>> => RaftInv'
  BY <1>1, RaftKept
<1>4. ASSUME NEW n \in Nodes,
             \/ FenceTick(n) \/ BeginPass(n) \/ Promote(n) \/ OpenCheck(n) \/ OpenLand(n)
             \/ OpenFail(n) \/ FindOpen(n) \/ Demote(n)
      PROVE  WriterInv'
  <2>1. PassStep /\ LocalInv'
    BY <1>1, <1>4, PassSteps
  <2>2. PairInv'
    BY <1>1, <2>1, PairPassStep
  <2>3. RaftInv'
    BY <1>3, <2>1 DEF PassStep
  <2> QED
    BY <1>1, <2>1, <2>2, <2>3 DEF WriterInv
<1>5. ASSUME NEW n \in Nodes, NEW lag \in 0..MetricsDelay, Process(n, lag)
      PROVE  WriterInv'
  <2>1. LocalInv' /\ PairInv'
    BY <1>1, <1>5, ProcessStep
  <2>2. RaftInv'
    BY <1>3, <1>5 DEF Process
  <2> QED
    BY <1>1, <2>1, <2>2 DEF WriterInv
<1>6. CASE Tick
  BY <1>1, <1>6, TickStep, RaftTick DEF WriterInv
<1>7. ASSUME NEW n \in Nodes, Crash(n) PROVE WriterInv'
  BY <1>1, <1>7, CrashStep, RaftCrash DEF WriterInv
<1>8. ASSUME NEW n \in Nodes, Restart(n) PROVE WriterInv'
  BY <1>1, <1>8, RestartStep, RaftRestart DEF WriterInv
<1>9. ASSUME NEW n \in Nodes, Campaign(n) PROVE WriterInv'
  BY <1>1, <1>2, <1>9, CampaignStep
<1>10. ASSUME NEW n \in Nodes, NEW m \in Nodes, GrantVote(m, n) PROVE WriterInv'
  BY <1>1, <1>2, <1>10, GrantVoteStep
<1>11. ASSUME NEW n \in Nodes, NEW S \in SUBSET Nodes, Heartbeat(n, S) PROVE WriterInv'
  BY <1>1, <1>2, <1>11, HeartbeatStep
<1>12. CASE UNCHANGED vars
  <2>1. UNCHANGED <<now, raftVars, govVars, anchor, pgVars>>
    BY <1>12 DEF vars
  <2>2. /\ UNCHANGED <<now, alive, crashes, downAt, vote, contact, stood, granted, ack>>
        /\ UNCHANGED <<dirtyAt, seenTerm, seenLeader, leaseLeader, leaseExp, anchor>>
        /\ UNCHANGED <<view, pg, ro, opening, openAnchor>>
    BY <2>1 DEF raftVars, govVars, pgVars
  <2>3. \A j : /\ Ripe(j)' = Ripe(j) /\ Start(j)' = Start(j)
               /\ LeaseValid(j)' <=> LeaseValid(j)
               /\ Dirty(j)' <=> Dirty(j)
               /\ Armed(j)' <=> Armed(j)
               /\ Writable(j)' <=> Writable(j)
    BY <2>2 DEF Ripe, Start, LeaseValid, Dirty, RaftLeader, Armed, Writable
  <2>4. \A t, k : QuorumReaches(t, k)' <=> QuorumReaches(t, k)
    BY <2>2 DEF QuorumReaches
  <2>5. SeenInv'
    BY <1>1, <2>2, <2>4 DEF LocalInv, SeenInv
  <2>6. LeaseInv'
    BY <1>1, <2>2, <2>3 DEF LocalInv, LeaseInv
  <2>7. AnchorInv'
    BY <1>1, <2>2, <2>3 DEF LocalInv, AnchorInv
  <2>8. FenceInv'
    BY <1>1, <2>2, <2>3 DEF LocalInv, FenceInv
  <2>9. PassStep
    <3>1. \A j \in Nodes : Ripe(j) \in Int
      BY <1>1, Typed, ConstantsAreNat DEF Components, Ripe
    <3> QED
      BY <2>1, <2>3, <3>1 DEF PassStep
  <2>10. PairInv'
    BY <1>1, <2>9, PairPassStep
  <2> QED
    BY <1>1, <1>3, <2>1, <2>5, <2>6, <2>7, <2>8, <2>10 DEF WriterInv, LocalInv
<1> QED
  BY <1>4, <1>5, <1>6, <1>7, <1>8, <1>9, <1>10, <1>11, <1>12 DEF Next

-----------------------------------------------------------------------------
(***************************************************************************)
(* A sole voter is its own quorum, and its lease needs no round.           *)
(***************************************************************************)
GroupInv == Cardinality(Nodes) = 1 \/ WriterInv

\* With one voter there is one node.
LEMMA SoleVoter ==
  ASSUME Cardinality(Nodes) = 1, NEW n \in Nodes, NEW m \in Nodes
  PROVE  n = m
<1>1. IsFiniteSet(Nodes)
  BY QuorumAssumption DEF QuorumAssumption
<1>2. PICK x : Nodes = {x}
  BY <1>1, FS_Singleton
<1> QED
  BY <1>2

\* Every reachable state of a group of several voters satisfies the invariant.
LEMMA GroupInvariant ==
  ASSUME TimingMargins PROVE Spec => []GroupInv
<1>1. Init => GroupInv
  BY InitWriterInv DEF GroupInv
<1>2. GroupInv /\ [Next]_vars => GroupInv'
  BY WriterStep DEF GroupInv
<1> QED
  BY <1>1, <1>2, PTL DEF Spec

(***************************************************************************)
(* Contract L1: whatever the number of voters, crashes, elections and      *)
(* terms, two nodes never take client writes at the same time, in a        *)
(* deployment within the margins: PostgreSQL answers the fence and the     *)
(* open well within a second, metrics are processed promptly, and a        *)
(* crashed process stays down long enough for the lease it does not        *)
(* remember.  The code's own budgets do not add up to that.                *)
(***************************************************************************)
THEOREM OneWriter ==
  ASSUME TimingMargins PROVE Spec => []AtMostOneWriter
<1>1. GroupInv => AtMostOneWriter
  BY SoleVoter DEF GroupInv, WriterInv, PairInv, ArmedInv, Armed, AtMostOneWriter
<1> QED
  BY <1>1, GroupInvariant, PTL

(***************************************************************************)
(* The gate of open_writes: a leader that starts to open past its          *)
(* hold-down sees no valid lease of an earlier claim, within the margins.  *)
(***************************************************************************)
THEOREM GateSafe ==
  ASSUME TimingMargins PROVE Spec => GateSeesNoOlderLease
<1> DEFINE Gate == \A n, m \in Nodes :
                     /\ n # m /\ alive[m] /\ LeaseValid(m)
                     /\ opening[n] = NoTime /\ opening'[n] # NoTime
                     => Before(seenTerm[n], n, seenTerm[m], m)
<1>1. GroupInv /\ [Next]_vars => Gate
  <2> SUFFICES ASSUME GroupInv, [Next]_vars, NEW n \in Nodes, NEW m \in Nodes,
                      n # m, LeaseValid(m), opening[n] = NoTime, opening'[n] # NoTime
               PROVE  Before(seenTerm[n], n, seenTerm[m], m)
    OBVIOUS
  <2>1. WriterInv
    BY SoleVoter DEF GroupInv
  <2>2. TypeOK /\ RaftInv /\ LocalInv /\ PairInv
    BY <2>1 DEF WriterInv
  <2>3. Components
    BY <2>2, Typed
  <2>4. OpenCheck(n)
    <3>1. opening \in [Nodes -> Stamps]
      BY <2>2 DEF TypeOK
    <3>2. UNCHANGED opening => FALSE
      OBVIOUS
    <3>3. ASSUME NEW k \in Nodes, opening' = [opening EXCEPT ![k] = NoTime]
          PROVE  FALSE
      BY <3>1, <3>3
    <3>4. ASSUME NEW k \in Nodes, OpenCheck(k) PROVE k = n
      BY <3>1, <3>4 DEF OpenCheck
    <3>5. ~Tick /\ ~UNCHANGED vars
      BY <3>2 DEF Tick, vars, pgVars
    <3>6. ASSUME NEW k \in Nodes
          PROVE  /\ ~Campaign(k) /\ \A j \in Nodes : ~GrantVote(j, k)
                 /\ \A S \in SUBSET Nodes : ~Heartbeat(k, S)
                 /\ \A lag \in 0..MetricsDelay : ~Process(k, lag)
      BY <3>2 DEF Campaign, GrantVote, Heartbeat, Process, pgVars
    <3>7. ASSUME NEW k \in Nodes
          PROVE  /\ ~FenceTick(k) /\ ~BeginPass(k) /\ ~Promote(k) /\ ~FindOpen(k)
                 /\ ~Demote(k) /\ ~Restart(k)
      BY <3>2 DEF FenceTick, BeginPass, Promote, FindOpen, Demote, Restart, pgVars
    <3>8. ASSUME NEW k \in Nodes
          PROVE  ~OpenLand(k) /\ ~OpenFail(k) /\ ~Crash(k)
      BY <3>3 DEF OpenLand, OpenFail, Crash
    <3> QED
      BY <3>4, <3>5, <3>6, <3>7, <3>8 DEF Next
  <2>5. LeaseValid(n) /\ Ripe(n) <= now
    BY <2>2, <2>4, NotHeld DEF OpenCheck
  <2>6. CASE Before(seenTerm[m], m, seenTerm[n], n)
    <3>1. Ripe(n) \in Int
      BY <2>3, ConstantsAreNat DEF Ripe, Components
    <3>2. CASE Dirty(m)
      <4>1. now <= dirtyAt[m] + MetricsDelay
        BY <2>2, <3>2, Leaseholder
      <4>2. dirtyAt[m] + 2 * MetricsDelay + FenceBound < Ripe(n)
        BY <2>2, <2>5, <2>6, <3>2 DEF PairInv, OlderLeaseInv
      <4> QED
        BY <2>3, <2>5, <3>1, <4>1, <4>2, ConstantsAreNat DEF Components
    <3>3. CASE ~Dirty(m)
      <4>1. /\ ack[m] # NoTime /\ now <= ack[m] + QuorumTimeout + MetricsDelay
            /\ vote[m].term = seenTerm[m]
        BY <2>2, <3>3, Leaseholder
      <4>2. ack[m] + QuorumTimeout + 3 * MetricsDelay + FenceBound < Ripe(n)
        BY <2>2, <2>5, <2>6, <4>1 DEF PairInv, OlderRoundInv
      <4> QED
        BY <2>3, <2>5, <3>1, <4>1, <4>2, ConstantsAreNat DEF Components
    <3> QED
      BY <3>2, <3>3
  <2> QED
    BY <2>2, <2>5, <2>6, ClaimsDiffer
<1>2. Gate => [Gate]_vars
  OBVIOUS
<1>3. Spec => [][Gate]_vars
  BY <1>1, <1>2, GroupInvariant, PTL DEF Spec
<1> QED
  BY <1>3 DEF GateSeesNoOlderLease

\* No lease of a group of several voters lasts longer than one duration from
\* now, nor, while it is valid, from its leader's last acknowledged round.
DurationInv ==
  \A n \in Nodes :
    /\ leaseExp[n] <= now + Lease
    /\ LeaseValid(n) /\ ack[n] # NoTime => leaseExp[n] <= ack[n] + Lease + MetricsDelay

(***************************************************************************)
(* LeaseState::renew measures from the acknowledgement the metrics carry,  *)
(* a later round moves only what the lease is compared with, and no other  *)
(* step extends a lease.                                                   *)
(***************************************************************************)
LEMMA DurationStep ==
  ASSUME TypeOK, TypeOK', DurationInv, [Next]_vars, Cardinality(Nodes) # 1
  PROVE  DurationInv'
<1> USE ConstantsAreNat
<1>1. Components /\ Components'
  BY Typed, TypedNext
<1>2. ASSUME UNCHANGED <<now, leaseLeader, leaseExp>>,
             \A n \in Nodes : ack'[n] \in {ack[n], NoTime, now}
      PROVE  DurationInv'
  <2> SUFFICES ASSUME NEW n \in Nodes
               PROVE  /\ leaseExp[n] <= now + Lease
                      /\ LeaseValid(n) /\ ack'[n] # NoTime =>
                           leaseExp[n] <= ack'[n] + Lease + MetricsDelay
    BY <1>2 DEF DurationInv, LeaseValid
  <2>1. /\ leaseExp[n] <= now + Lease
        /\ LeaseValid(n) /\ ack[n] # NoTime => leaseExp[n] <= ack[n] + Lease + MetricsDelay
    BY DEF DurationInv
  <2>2. ack'[n] \in {ack[n], NoTime, now}
    BY <1>2
  <2> QED
    BY <1>1, <2>1, <2>2 DEF Components
<1>3. CASE Tick
  <2>1. now' = now + 1 /\ UNCHANGED <<leaseLeader, leaseExp, ack>>
    BY <1>3 DEF Tick, raftVars, govVars
  <2> QED
    BY <1>1, <2>1 DEF DurationInv, LeaseValid, Components
<1>4. ASSUME NEW n \in Nodes, Campaign(n) PROVE DurationInv'
  <2>1. /\ UNCHANGED <<now, leaseLeader, leaseExp>>
        /\ ack' = [ack EXCEPT ![n] = NoTime]
    BY <1>4 DEF Campaign, govVars
  <2> QED
    BY <1>2, <2>1 DEF TypeOK
<1>5. ASSUME NEW n \in Nodes, NEW m \in Nodes, GrantVote(m, n) PROVE DurationInv'
  <2>1. /\ UNCHANGED <<now, leaseLeader, leaseExp>>
        /\ ack' = [ack EXCEPT ![m] = NoTime]
    BY <1>5 DEF GrantVote, govVars
  <2> QED
    BY <1>2, <2>1 DEF TypeOK
<1>6. ASSUME NEW n \in Nodes, NEW S \in SUBSET Nodes, Heartbeat(n, S) PROVE DurationInv'
  BY <1>2, <1>6 DEF Heartbeat, govVars
<1>7. ASSUME NEW n \in Nodes, NEW lag \in 0..MetricsDelay, Process(n, lag)
      PROVE  DurationInv'
  <2> DEFINE leader == RaftLeader(n)
             age == IF Cardinality(Nodes) = 1 THEN 0
                    ELSE IF ack[n] = NoTime THEN NoTime ELSE now - lag - ack[n]
             quorum == HasQuorumDecision(leader = n, leader, age)
             exp == IF leader = n /\ quorum THEN RenewedExpiry(age)
                    ELSE ExpiredBy(leaseExp[n])
  <2>1. /\ UNCHANGED <<now, raftVars, pgVars>>
        /\ ack[n] # NoTime => lag <= now - ack[n]
        /\ leaseExp' = [leaseExp EXCEPT ![n] = exp]
        /\ leaseLeader' = [leaseLeader EXCEPT ![n] = (leader = n)]
    BY <1>7 DEF Process
  <2>2. now' = now /\ ack' = ack
    BY <2>1 DEF raftVars
  <2>3. /\ exp <= now + Lease
        /\ exp <= now \/ (ack[n] # NoTime /\ exp <= ack[n] + Lease + MetricsDelay)
    <3>1. CASE leader = n /\ quorum
      <4>1. age # NoTime
        <5> HIDE DEF age
        <5> QED
          BY <3>1 DEF HasQuorumDecision
      <4>2. ack[n] # NoTime /\ age = now - lag - ack[n]
        BY <4>1
      <4>3. exp = now - age + Lease
        BY <3>1 DEF RenewedExpiry
      <4> QED
        BY <1>1, <2>1, <4>2, <4>3 DEF Components
    <3>2. CASE ~(leader = n /\ quorum)
      <4>1. exp = ExpiredBy(leaseExp[n])
        BY <3>2
      <4> QED
        BY <1>1, <4>1 DEF ExpiredBy, Components
    <3> QED
      BY <3>1, <3>2
  <2> HIDE DEF exp
  <2>4. /\ leaseExp'[n] = exp
        /\ \A j \in Nodes \ {n} : /\ leaseExp'[j] = leaseExp[j]
                                  /\ leaseLeader'[j] = leaseLeader[j]
    BY <2>1 DEF TypeOK
  <2>5. ASSUME NEW j \in Nodes \ {n}
        PROVE  /\ leaseExp'[j] <= now + Lease
               /\ LeaseValid(j)' /\ ack[j] # NoTime =>
                    leaseExp'[j] <= ack[j] + Lease + MetricsDelay
    BY <2>2, <2>4 DEF DurationInv, LeaseValid
  <2>6. LeaseValid(n)' => now < exp
    BY <2>2, <2>4 DEF LeaseValid
  <2>7. exp \in Nat
    BY <1>1, <2>4 DEF Components
  <2>8. LeaseValid(n)' /\ ack[n] # NoTime => leaseExp'[n] <= ack[n] + Lease + MetricsDelay
    BY <1>1, <2>3, <2>4, <2>6, <2>7 DEF Components
  <2> QED
    BY <2>2, <2>3, <2>4, <2>5, <2>8 DEF DurationInv
<1>8. ASSUME NEW n \in Nodes,
             \/ FenceTick(n) \/ BeginPass(n) \/ Promote(n) \/ OpenCheck(n) \/ OpenLand(n)
             \/ OpenFail(n) \/ FindOpen(n) \/ Demote(n)
      PROVE  DurationInv'
  <2>1. UNCHANGED <<now, raftVars, govVars>>
    BY <1>8 DEF FenceTick, BeginPass, Promote, OpenCheck, OpenLand, OpenFail, FindOpen,
                Demote
  <2> QED
    BY <1>2, <2>1 DEF raftVars, govVars
<1>9. ASSUME NEW n \in Nodes, Crash(n) PROVE DurationInv'
  <2>1. /\ now' = now /\ leaseExp'[n] = 0 /\ ack'[n] = NoTime
        /\ \A j \in Nodes \ {n} : /\ leaseExp'[j] = leaseExp[j] /\ ack'[j] = ack[j]
                                  /\ leaseLeader'[j] = leaseLeader[j]
    BY <1>9 DEF Crash, TypeOK
  <2>2. 0 <= now + Lease
    BY <1>1 DEF Components
  <2> QED
    BY <2>1, <2>2 DEF DurationInv, LeaseValid
<1>10. ASSUME NEW n \in Nodes, Restart(n) PROVE DurationInv'
  <2>1. /\ now' = now /\ ack' = ack /\ leaseLeader' = leaseLeader
        /\ leaseExp'[n] = now
        /\ \A j \in Nodes \ {n} : leaseExp'[j] = leaseExp[j]
    BY <1>10 DEF Restart, TypeOK
  <2>2. now <= now + Lease /\ ~(now < now)
    BY <1>1 DEF Components
  <2> QED
    BY <2>1, <2>2 DEF DurationInv, LeaseValid
<1>11. CASE UNCHANGED vars
  BY <1>2, <1>11 DEF vars, raftVars, govVars
<1> QED
  BY <1>3, <1>4, <1>5, <1>6, <1>7, <1>8, <1>9, <1>10, <1>11 DEF Next

(***************************************************************************)
(* LeaseState::renew: a valid lease of several voters ends at most one     *)
(* lease duration, and the delay of the metrics it was read from, after    *)
(* the send time of the leader's last acknowledged round.                  *)
(***************************************************************************)
THEOREM LeaseBounded == Spec => []LeaseWithinDuration
<1> DEFINE Inv == Cardinality(Nodes) = 1 \/ DurationInv
<1>1. Init => Inv
  BY ConstantsAreNat DEF Init, DurationInv, LeaseValid
<1>2. Inv /\ TypeOK /\ TypeOK' /\ [Next]_vars => Inv'
  BY DurationStep
<1>3. Inv => LeaseWithinDuration
  BY DEF DurationInv, LeaseWithinDuration
<1> QED
  BY <1>1, <1>2, <1>3, TypeCorrect, PTL DEF Spec

=============================================================================
