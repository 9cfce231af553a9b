-------------------------- MODULE DurabilityProofs --------------------------
(***************************************************************************)
(* Contracts W1 and L3 for any number of records, restarts and changes of  *)
(* the replication mode, in a cluster of at most four voters: the leader   *)
(* that no majority has moved past holds every acknowledged record, up to  *)
(* the second term and, as long as no vote crosses diverged WALs, in any.  *)
(***************************************************************************)
EXTENDS Durability, SequenceTheorems, FiniteSetTheorems, WellFoundedInduction, TLAPS

-----------------------------------------------------------------------------
(* Majorities. *)

\* Any two majorities share a voter.
LEMMA MajoritiesMeet ==
  ASSUME NEW S \in SUBSET Voters, NEW T \in SUBSET Voters, IsMajority(S), IsMajority(T)
  PROVE  \E x \in Voters : x \in S /\ x \in T
<1> USE DurabilityAssumption
<1> SUFFICES ASSUME S \cap T = {} PROVE FALSE
  OBVIOUS
<1>1. IsFiniteSet(S) /\ IsFiniteSet(T)
  BY FS_Subset
<1>2. /\ IsFiniteSet(S \cup T)
      /\ Cardinality(S \cup T) = Cardinality(S) + Cardinality(T) - Cardinality(S \cap T)
  BY <1>1, FS_Union
<1>3. Cardinality(S \cap T) = 0
  BY FS_EmptySet
<1>4. Cardinality(S \cup T) <= Cardinality(Voters)
  BY FS_Subset
<1>5. Cardinality(S) \in Nat /\ Cardinality(T) \in Nat /\ Cardinality(Voters) \in Nat
  BY <1>1, FS_CardinalityType
<1> QED BY <1>2, <1>3, <1>4, <1>5 DEF IsMajority

\* What contains a majority is one.
LEMMA MajorityGrows ==
  ASSUME NEW S, NEW T \in SUBSET Voters, S \subseteq T, IsMajority(S)
  PROVE  IsMajority(T)
<1> USE DurabilityAssumption
<1>1. IsFiniteSet(T)
  BY FS_Subset
<1>2. IsFiniteSet(S) /\ Cardinality(S) <= Cardinality(T)
  BY <1>1, FS_Subset
<1>3. Cardinality(S) \in Nat /\ Cardinality(T) \in Nat /\ Cardinality(Voters) \in Nat
  BY <1>1, <1>2, FS_CardinalityType
<1> QED BY <1>2, <1>3 DEF IsMajority

\* Of at most four voters a majority leaves out one.
LEMMA OneLeftOut ==
  ASSUME Cardinality(Voters) <= 4, NEW S \in SUBSET Voters, IsMajority(S),
         NEW x \in Voters, NEW y \in Voters, x \notin S, y \notin S
  PROVE  x = y
<1> USE DurabilityAssumption
<1> SUFFICES ASSUME x # y PROVE FALSE
  OBVIOUS
<1> DEFINE V == Voters \ {x}
           W == V \ {y}
<1>1. IsFiniteSet(V) /\ Cardinality(V) = Cardinality(Voters) - 1
  BY FS_RemoveElement
<1>2. IsFiniteSet(W) /\ Cardinality(W) = Cardinality(V) - 1
  BY <1>1, FS_RemoveElement
<1>3. S \subseteq W
  OBVIOUS
<1>4. IsFiniteSet(S) /\ Cardinality(S) <= Cardinality(W)
  BY <1>2, <1>3, FS_Subset
<1>5. Cardinality(S) \in Nat /\ Cardinality(Voters) \in Nat
  BY <1>4, FS_CardinalityType
<1> QED BY <1>1, <1>2, <1>4, <1>5 DEF IsMajority

-----------------------------------------------------------------------------
(* What each step does to votes, servers and WALs. *)

Roles == {"follower", "candidate", "leader"}

RaftShape ==
  /\ DOMAIN raft = Voters /\ raft = [n \in Voters |-> raft[n]]
  /\ \A n \in Voters :
       /\ {"term", "vote", "role", "tally", "log", "applied", "mode"} \subseteq DOMAIN raft[n]
       /\ raft[n].term \in Nat /\ raft[n].tally \subseteq Voters
Server ==
  [primary : BOOLEAN, open : BOOLEAN, list : {"empty", "full"}, tl : Nat,
   follows : Voters \cup {None}]
AskShape(a) ==
  /\ {"from", "term", "lsn", "passed"} \subseteq DOMAIN a
  /\ a.from \in Voters /\ a.term \in Nat /\ a.lsn \in Nat
\* The theorem's hypothesis goes with the shape into every step.
Shape ==
  /\ ~LateWrites
  /\ RaftShape
  /\ heard \in [Voters -> Voters \cup {None}]
  /\ \A a \in asks : AskShape(a)
  /\ pg \in [Voters -> Server]
  /\ wal \in [Voters -> Seq(Nat)]
  /\ \A r \in acked : r[1] \in Nat \ {0}
  /\ \A n \in Voters : pg[n].list = "full" => Required > 0

\* What an election reads of a node.
SameVote(n) ==
  /\ raft'[n].term = raft[n].term /\ raft'[n].vote = raft[n].vote
  /\ raft'[n].role = raft[n].role /\ raft'[n].tally = raft[n].tally
VotesStay == \A n \in Voters : SameVote(n)

\* A node whose raft state is replaced.
LEMMA RaftSet ==
  ASSUME RaftShape, NEW n \in Voters, NEW r,
         {"term", "vote", "role", "tally", "log", "applied", "mode"} \subseteq DOMAIN r,
         r.term \in Nat, r.tally \subseteq Voters,
         SetRaft(n, r)
  PROVE  RaftShape' /\ raft'[n] = r /\ \A m \in Voters \ {n} : raft'[m] = raft[m] /\ SameVote(m)
BY DEF RaftShape, SetRaft, SameVote

\* A campaign takes the next term and votes for itself.
LEMMA CampaignVotes ==
  ASSUME RaftShape, NEW n \in Voters, Campaign(n)
  PROVE  /\ RaftShape' /\ \A m \in Voters \ {n} : SameVote(m)
         /\ raft'[n].term = raft[n].term + 1 /\ raft'[n].vote = n
         /\ raft'[n].role = "candidate" /\ raft'[n].tally = {n}
         /\ raft'[n].mode = raft[n].mode
         /\ \A m \in Voters \ {n} : raft'[m].mode = raft[m].mode
<1> DEFINE r == [raft[n] EXCEPT !.term = @ + 1, !.vote = n, !.role = "candidate", !.tally = {n}]
<1>1. /\ {"term", "vote", "role", "tally", "log", "applied", "mode"} \subseteq DOMAIN r
      /\ r.term = raft[n].term + 1 /\ r.vote = n /\ r.role = "candidate" /\ r.tally = {n}
      /\ r.mode = raft[n].mode /\ raft[n].term \in Nat
  BY DEF RaftShape
<1>2. SetRaft(n, r)
  BY DEF Campaign
<1> HIDE DEF r
<1> QED BY <1>1, <1>2, RaftSet

\* What an answer changes: m's vote, and the tally of a campaign that is still on.
Answered(m, a) ==
  /\ RaftShape' /\ \A n \in Voters \ {m, a.from} : SameVote(n)
  /\ a.from \in Voters /\ a.from # m /\ a.term \in Nat
  /\ raft'[m].term = a.term /\ raft'[m].vote = a.from
  /\ raft'[m].role = "follower" /\ raft'[m].tally = raft[m].tally
  /\ raft'[a.from].term = raft[a.from].term /\ raft'[a.from].vote = raft[a.from].vote
  /\ raft'[a.from].role = raft[a.from].role
  /\ raft'[a.from].tally =
       IF raft[a.from].role = "candidate" /\ raft[a.from].term = a.term
       THEN raft[a.from].tally \cup {m} ELSE raft[a.from].tally
  /\ \A n \in Voters : raft'[n].mode = raft[n].mode

\* What an answered vote does to the raft states.
LEMMA AnswerVotes ==
  ASSUME Shape, NEW m \in Voters, NEW a \in asks, AnswerVote(m, a)
  PROVE  Answered(m, a)
<1> DEFINE f == a.from
           c == raft[f]
           v == [raft[m] EXCEPT !.term = a.term, !.vote = f, !.role = "follower"]
           d == [c EXCEPT !.tally = @ \cup {m}]
           w == IF c.role = "candidate" /\ c.term = a.term THEN d ELSE c
           Fields == {"term", "vote", "role", "tally", "log", "applied", "mode"}
<1>1. f \in Voters /\ a.term \in Nat /\ f # m
  BY DEF Shape, AskShape, AnswerVote
<1>2. /\ Fields \subseteq DOMAIN raft[m] /\ Fields \subseteq DOMAIN c
      /\ raft[m].term \in Nat /\ raft[m].tally \subseteq Voters
      /\ c.term \in Nat /\ c.tally \subseteq Voters
  BY <1>1 DEF Shape, RaftShape
<1>3. /\ Fields \subseteq DOMAIN v /\ v.term = a.term /\ v.vote = f /\ v.role = "follower"
      /\ v.tally = raft[m].tally /\ v.mode = raft[m].mode
  BY <1>2
<1>4. /\ Fields \subseteq DOMAIN d /\ d.term = c.term /\ d.vote = c.vote /\ d.role = c.role
      /\ d.tally = c.tally \cup {m} /\ d.mode = c.mode
  BY <1>2
<1>5. raft' = [raft EXCEPT ![m] = v, ![f] = w]
  BY DEF AnswerVote
<1>6. /\ Fields \subseteq DOMAIN w /\ w.term = c.term /\ w.vote = c.vote /\ w.role = c.role
      /\ w.tally = (IF c.role = "candidate" /\ c.term = a.term THEN c.tally \cup {m} ELSE c.tally)
      /\ w.mode = c.mode
  <2> HIDE DEF d, c, Fields
  <2> QED BY <1>2, <1>4
<1> HIDE DEF v, d, w
<1>7. /\ DOMAIN raft' = Voters /\ raft' = [n \in Voters |-> raft'[n]]
      /\ raft'[m] = v /\ raft'[f] = w /\ \A n \in Voters \ {m, f} : raft'[n] = raft[n]
  BY <1>1, <1>5 DEF Shape, RaftShape
<1>8. w.tally \subseteq Voters
  BY <1>2, <1>6
<1>9. RaftShape'
  BY <1>1, <1>2, <1>3, <1>6, <1>7, <1>8 DEF Shape, RaftShape
<1> QED BY <1>1, <1>3, <1>6, <1>7, <1>9 DEF SameVote, Answered

\* The winner's role changes, its term and vote do not.
LEMMA TakesTermVotes ==
  ASSUME RaftShape, NEW n \in Voters, TakesTerm(n)
  PROVE  /\ RaftShape' /\ \A m \in Voters \ {n} : SameVote(m)
         /\ raft'[n].term = raft[n].term /\ raft'[n].vote = raft[n].vote
         /\ raft'[n].role = "leader" /\ raft'[n].tally = {}
         /\ \A m \in Voters : raft'[m].mode = raft[m].mode
<1> DEFINE r == [raft[n] EXCEPT !.role = "leader", !.tally = {},
                   !.log = Append(@, [term |-> raft[n].term, mode |-> "blank"])]
<1>1. /\ {"term", "vote", "role", "tally", "log", "applied", "mode"} \subseteq DOMAIN r
      /\ r.term = raft[n].term /\ r.vote = raft[n].vote /\ r.role = "leader" /\ r.tally = {}
      /\ r.mode = raft[n].mode /\ raft[n].term \in Nat
  BY DEF RaftShape
<1>2. SetRaft(n, r)
  BY DEF TakesTerm
<1> HIDE DEF r
<1> QED BY <1>1, <1>2, RaftSet

\* A voter that hears a leader follows it in its term.
LEMMA HearVotes ==
  ASSUME RaftShape, NEW m \in Voters, NEW l \in Voters, Hear(m, l)
  PROVE  /\ RaftShape' /\ \A n \in Voters \ {m} : SameVote(n)
         /\ raft'[m].term = raft[l].term /\ raft'[m].role = "follower" /\ raft'[m].tally = {}
         /\ raft[m].term = raft[l].term => raft'[m].vote = raft[m].vote
         /\ \A n \in Voters : raft'[n].mode = raft[n].mode
<1> DEFINE r == [raft[m] EXCEPT !.log = raft[l].log, !.role = "follower",
                   !.tally = {}, !.term = raft[l].term,
                   !.vote = IF raft[m].term = raft[l].term THEN @ ELSE None]
<1>1. /\ {"term", "vote", "role", "tally", "log", "applied", "mode"} \subseteq DOMAIN r
      /\ r.term = raft[l].term /\ r.role = "follower" /\ r.tally = {}
      /\ raft[m].term = raft[l].term => r.vote = raft[m].vote
      /\ r.mode = raft[m].mode /\ raft[l].term \in Nat
  BY DEF RaftShape
<1>2. SetRaft(m, r)
  BY DEF Hear
<1> HIDE DEF r
<1> QED BY <1>1, <1>2, RaftSet

\* A restart keeps term and vote.
LEMMA RestartVotes ==
  ASSUME RaftShape, NEW n \in Voters, Restart(n)
  PROVE  /\ RaftShape' /\ \A m \in Voters \ {n} : SameVote(m)
         /\ raft'[n].term = raft[n].term /\ raft'[n].vote = raft[n].vote
         /\ raft'[n].role = "follower" /\ raft'[n].tally = {}
         /\ \A m \in Voters : raft'[m].mode = raft[m].mode
<1> DEFINE r == [raft[n] EXCEPT !.role = "follower", !.tally = {}]
<1>1. /\ {"term", "vote", "role", "tally", "log", "applied", "mode"} \subseteq DOMAIN r
      /\ r.term = raft[n].term /\ r.vote = raft[n].vote /\ r.role = "follower" /\ r.tally = {}
      /\ r.mode = raft[n].mode /\ raft[n].term \in Nat
  BY DEF RaftShape
<1>2. SetRaft(n, r)
  BY DEF Restart
<1> HIDE DEF r
<1> QED BY <1>1, <1>2, RaftSet

\* Applying moves the mode, and nothing an election reads.
LEMMA ApplyVotes ==
  ASSUME RaftShape, NEW n \in Voters, Apply(n)
  PROVE  /\ RaftShape' /\ VotesStay
         /\ raft'[n].mode = ModeOf(clog) /\ \A m \in Voters \ {n} : raft'[m].mode = raft[m].mode
<1> DEFINE r == [raft[n] EXCEPT !.applied = Len(clog), !.mode = ModeOf(clog)]
<1>1. /\ {"term", "vote", "role", "tally", "log", "applied", "mode"} \subseteq DOMAIN r
      /\ r.term = raft[n].term /\ r.vote = raft[n].vote /\ r.role = raft[n].role
      /\ r.tally = raft[n].tally /\ r.mode = ModeOf(clog)
      /\ raft[n].term \in Nat /\ raft[n].tally \subseteq Voters
  BY DEF RaftShape
<1>2. SetRaft(n, r)
  BY DEF Apply
<1> HIDE DEF r
<1>3. RaftShape' /\ raft'[n] = r /\ \A m \in Voters \ {n} : raft'[m] = raft[m] /\ SameVote(m)
  BY <1>1, <1>2, RaftSet
<1>4. SameVote(n)
  BY <1>1, <1>3 DEF SameVote
<1> QED BY <1>1, <1>3, <1>4 DEF VotesStay

\* Proposing moves nothing an election reads.
LEMMA ProposeVotes ==
  ASSUME RaftShape, NEW l \in Voters, NEW mode, Propose(l, mode)
  PROVE  RaftShape' /\ VotesStay /\ \A m \in Voters : raft'[m].mode = raft[m].mode
<1> DEFINE r == [raft[l] EXCEPT !.log = Append(@, [term |-> raft[l].term, mode |-> mode])]
<1>1. CASE UNCHANGED raft
  BY <1>1 DEF RaftShape, VotesStay, SameVote
<1>2. CASE SetRaft(l, r)
  <2>1. /\ {"term", "vote", "role", "tally", "log", "applied", "mode"} \subseteq DOMAIN r
        /\ r.term = raft[l].term /\ r.vote = raft[l].vote /\ r.role = raft[l].role
        /\ r.tally = raft[l].tally /\ r.mode = raft[l].mode
        /\ raft[l].term \in Nat /\ raft[l].tally \subseteq Voters
    BY DEF RaftShape
  <2> HIDE DEF r
  <2>2. RaftShape' /\ raft'[l] = r /\ \A m \in Voters \ {l} : raft'[m] = raft[m] /\ SameVote(m)
    BY <1>2, <2>1, RaftSet
  <2>3. SameVote(l)
    BY <2>1, <2>2 DEF SameVote
  <2> QED BY <2>1, <2>2, <2>3 DEF VotesStay
<1> QED BY <1>1, <1>2 DEF Propose

-----------------------------------------------------------------------------
(* The inductive invariant. *)

Candidate(n, t) == raft[n].role = "candidate" /\ raft[n].term = t
Leader(n) == raft[n].role = "leader"

\* m has voted for n in term t, or is past that term.
Gave(m, n, t) == raft[m].term > t \/ (raft[m].term = t /\ raft[m].vote = n)

\* Q is out of reach for everybody else who campaigns in term t.
Backs(Q, n, t) ==
  /\ IsMajority(Q)
  /\ \A m \in Q : Gave(m, n, t)
  /\ \A c \in Voters \ {n} : Candidate(c, t) => raft[c].tally \cap Q = {}
Settled(n, t) == \E Q \in SUBSET Voters : Backs(Q, n, t)

\* n was elected in term t.
Won(n, t) == Settled(n, t) /\ raft[n].term >= t /\ ~Candidate(n, t)

\* Votes are counted once, and a term has one winner.
TallyInv ==
  /\ \A n \in Voters : raft[n].role \in {"candidate", "leader"} => raft[n].vote = n
  /\ \A n, m \in Voters :
       raft[n].role = "candidate" /\ m \in raft[n].tally => Gave(m, n, raft[n].term)
  /\ \A n, c \in Voters :
       n # c /\ raft[n].role = "candidate" /\ Candidate(c, raft[n].term)
         => raft[n].tally \cap raft[c].tally = {}
WonInv ==
  /\ \A n \in Voters : Leader(n) => Won(n, raft[n].term)
  /\ \A n \in Voters : pg[n].primary => Won(n, pg[n].tl)
OneWinner ==
  \A n, m \in Voters : n # m =>
    /\ Leader(n) /\ Leader(m) => raft[n].term # raft[m].term
    /\ Leader(n) /\ pg[m].primary => raft[n].term # pg[m].tl
    /\ pg[n].primary /\ pg[m].primary => pg[n].tl # pg[m].tl
AskInv ==
  \A a \in asks : Candidate(a.from, a.term) => Len(wal[a.from]) >= a.lsn

\* A lease is not older than its leader's term, and an open leader has its majority's.
HeardInv ==
  /\ \A m, l \in Voters : heard[m] = l => raft[m].term <= raft[l].term
  /\ \A m \in Voters : raft[m].role = "candidate" => heard[m] = None
OpenInv ==
  \A l \in Voters : pg[l].open =>
    Leader(l) /\ pg[l].primary /\ heard[l] = l /\ IsMajority({n \in Voters : heard[n] = l})

\* A record stands for the WAL up to it, and a timeline is its primary's.
MatchInv ==
  \A n, m \in Voters : \A p \in 1..Len(wal[n]) :
    p <= Len(wal[m]) /\ wal[n][p] = wal[m][p] => \A q \in 1..p : wal[n][q] = wal[m][q]
OwnInv ==
  \A l, n \in Voters : \A q \in 1..Len(wal[n]) :
    pg[l].primary /\ wal[n][q] = pg[l].tl => q <= Len(wal[l]) /\ wal[l][q] = pg[l].tl
FreshInv ==
  \A l, n \in Voters : \A q \in 1..Len(wal[n]) :
    Leader(l) /\ wal[n][q] = raft[l].term => pg[l].primary /\ pg[l].tl = raft[l].term
TimelineInv ==
  \A n \in Voters : \A q \in 1..Len(wal[n]) : \E x \in Voters : Won(x, wal[n][q])

\* Terms and timelines count from 1, and a campaign is for a later one.
BoundInv ==
  /\ \A n \in Voters :
       /\ raft[n].term >= 1 /\ (raft[n].term = 1 \/ raft[n].term <= MaxTerm)
       /\ raft[n].role = "candidate" => raft[n].term > 1
  /\ \A a \in asks : a.term > 1 /\ a.term <= MaxTerm
  /\ \A n \in Voters : pg[n].primary => pg[n].tl >= 1
  /\ \A n \in Voters : \A q \in 1..Len(wal[n]) : wal[n][q] >= 1

\* A majority is past n's term.
Superseded(n) == IsMajority({m \in Voters : raft[m].term > raft[n].term})

\* Two voters outside the set hold the record.
HeldOutside(S, r) == \E x, y \in Voters \ S : x # y /\ Holds(x, r) /\ Holds(y, r)

AckInv ==
  /\ \A r \in acked : HeldOutside({}, r)
  /\ \A n \in Voters : AppliedMode(n) = "async" => acked = {}
CurrentInv ==
  /\ \A n \in Voters : Leader(n) /\ ~Superseded(n) => \A r \in acked : Holds(n, r)
  /\ \A n \in Voters : raft[n].role = "candidate" /\ ~Superseded(n) =>
       \A r \in acked : Holds(n, r) \/ HeldOutside(raft[n].tally, r)

ElectInv == TallyInv /\ WonInv /\ OneWinner
WalInv == MatchInv /\ OwnInv /\ FreshInv /\ TimelineInv
DurInv ==
  Shape /\ ElectInv /\ AskInv /\ HeardInv /\ OpenInv /\ WalInv /\ BoundInv /\ AckInv /\ CurrentInv

-----------------------------------------------------------------------------
(* What was won stays won. *)

\* Terms go up, a vote is given once, a campaign begins with a term, and only those
\* free to vote join a tally.
VotesAdvance ==
  /\ \A m \in Voters :
       \/ raft'[m].term > raft[m].term
       \/ raft'[m].term = raft[m].term /\ raft'[m].vote = raft[m].vote
       \/ raft'[m].term = raft[m].term /\ raft[m].vote \notin Voters
  /\ \A c \in Voters : raft'[c].role = "candidate" =>
       \/ raft[c].role = "candidate" /\ raft'[c].term = raft[c].term
       \/ raft'[c].term > raft[c].term
  /\ \A c, m \in Voters : raft'[c].role = "candidate" /\ m \in raft'[c].tally =>
       \/ /\ raft[c].role = "candidate" /\ raft'[c].term = raft[c].term
          /\ m \in raft[c].tally
       \/ raft[m].term < raft'[c].term
       \/ raft[m].term = raft'[c].term /\ raft[m].vote \notin Voters \ {c}

\* What was won stays won while votes only advance.
LEMMA WonStays ==
  ASSUME RaftShape, RaftShape', VotesAdvance, NEW n \in Voters, NEW t \in Nat, Won(n, t)
  PROVE  Won(n, t)'
<1>1. PICK Q \in SUBSET Voters : Backs(Q, n, t)
  BY DEF Won, Settled
<1>t. \A m \in Voters : raft[m].term \in Nat /\ raft'[m].term \in Nat
  BY DEF RaftShape
<1>2. ASSUME NEW m \in Q PROVE Gave(m, n, t)'
  <2>1. Gave(m, n, t) /\ m \in Voters
    BY <1>1 DEF Backs
  <2>2. raft'[m].term > raft[m].term \/ (raft'[m].term = raft[m].term
           /\ (raft'[m].vote = raft[m].vote \/ raft[m].vote \notin Voters))
    BY <2>1 DEF VotesAdvance
  <2> QED BY <1>t, <2>1, <2>2 DEF Gave
<1>3. ASSUME NEW c \in Voters \ {n}, Candidate(c, t)' PROVE raft'[c].tally \cap Q = {}
  <2> SUFFICES ASSUME NEW m \in Q, m \in raft'[c].tally PROVE FALSE
    OBVIOUS
  <2>1. raft'[c].role = "candidate" /\ raft'[c].term = t /\ m \in Voters
    BY <1>3 DEF Candidate
  <2>2. Gave(m, n, t)
    BY <1>1 DEF Backs
  <2>3. CASE raft[c].role = "candidate" /\ raft'[c].term = raft[c].term /\ m \in raft[c].tally
    BY <1>1, <2>1, <2>3 DEF Backs, Candidate
  <2>4. CASE raft[m].term < t
    BY <1>t, <2>1, <2>2, <2>4 DEF Gave
  <2>5. CASE raft[m].term = t /\ raft[m].vote \notin Voters \ {c}
    BY <1>t, <2>1, <2>2, <2>5 DEF Gave
  <2> QED BY <2>1, <2>3, <2>4, <2>5 DEF VotesAdvance
<1>4. Settled(n, t)'
  BY <1>1, <1>2, <1>3 DEF Settled, Backs
<1>5. raft'[n].term >= t
  BY <1>t DEF Won, VotesAdvance
<1>6. ~Candidate(n, t)'
  BY <1>t DEF Won, VotesAdvance, Candidate
<1> QED BY <1>4, <1>5, <1>6 DEF Won

\* Nobody else can win what was won.
LEMMA WonOnce ==
  ASSUME NEW n \in Voters, NEW c \in Voters, NEW t, Won(n, t), Candidate(c, t),
         raft[c].tally \in SUBSET Voters, IsMajority(raft[c].tally)
  PROVE  FALSE
<1>1. PICK Q \in SUBSET Voters : Backs(Q, n, t)
  BY DEF Won, Settled
<1>2. n # c
  BY DEF Won
<1>3. \E x \in Voters : x \in Q /\ x \in raft[c].tally
  BY <1>1, MajoritiesMeet DEF Backs
<1> QED BY <1>1, <1>2, <1>3 DEF Backs

\* Each step lets votes advance only.
LEMMA StayAdvances ==
  ASSUME VotesStay PROVE VotesAdvance
BY DEF VotesStay, SameVote, VotesAdvance

LEMMA CampaignAdvances ==
  ASSUME RaftShape, NEW n \in Voters, Campaign(n) PROVE VotesAdvance
<1>1. /\ RaftShape' /\ \A m \in Voters \ {n} : SameVote(m)
      /\ raft'[n].term = raft[n].term + 1 /\ raft'[n].vote = n
      /\ raft'[n].role = "candidate" /\ raft'[n].tally = {n}
  BY CampaignVotes
<1>2. raft[n].term \in Nat
  BY DEF RaftShape
<1> QED BY <1>1, <1>2 DEF SameVote, VotesAdvance

LEMMA AnswerAdvances ==
  ASSUME Shape, NEW m \in Voters, NEW a \in asks, AnswerVote(m, a) PROVE VotesAdvance
<1>1. Answered(m, a)
  BY AnswerVotes
<1>2. a.term > raft[m].term \/ (a.term = raft[m].term /\ raft[m].vote \in {None, a.from})
  BY DEF AnswerVote
<1>3. None \notin Voters /\ \A n \in Voters : raft[n].term \in Nat
  BY DurabilityAssumption DEF Shape, RaftShape
<1>4. ASSUME NEW n \in Voters
      PROVE  \/ raft'[n].term > raft[n].term
             \/ raft'[n].term = raft[n].term /\ raft'[n].vote = raft[n].vote
             \/ raft'[n].term = raft[n].term /\ raft[n].vote \notin Voters
  BY <1>1, <1>2, <1>3 DEF SameVote, Answered
<1>5. ASSUME NEW c \in Voters, raft'[c].role = "candidate"
      PROVE  raft[c].role = "candidate" /\ raft'[c].term = raft[c].term
  BY <1>1, <1>5 DEF SameVote, Answered
<1>6. ASSUME NEW c \in Voters, NEW n \in Voters, raft'[c].role = "candidate",
             n \in raft'[c].tally, n \notin raft[c].tally
      PROVE  \/ raft[n].term < raft'[c].term
             \/ raft[n].term = raft'[c].term /\ raft[n].vote \notin Voters \ {c}
  <2>1. c = a.from /\ n = m /\ raft[c].term = a.term
    BY <1>1, <1>6 DEF SameVote, Answered
  <2> QED BY <1>1, <1>2, <1>3, <2>1 DEF Answered
<1> QED BY <1>4, <1>5, <1>6 DEF VotesAdvance

LEMMA TakesTermAdvances ==
  ASSUME RaftShape, NEW n \in Voters, TakesTerm(n) PROVE VotesAdvance
BY TakesTermVotes DEF SameVote, VotesAdvance

LEMMA HearAdvances ==
  ASSUME RaftShape, NEW m \in Voters, NEW l \in Voters, Hear(m, l) PROVE VotesAdvance
<1>1. raft[l].term >= raft[m].term /\ raft[l].term \in Nat /\ raft[m].term \in Nat
  BY DEF Hear, RaftShape
<1> QED BY <1>1, HearVotes DEF SameVote, VotesAdvance

LEMMA RestartAdvances ==
  ASSUME RaftShape, NEW n \in Voters, Restart(n) PROVE VotesAdvance
BY RestartVotes DEF SameVote, VotesAdvance

-----------------------------------------------------------------------------
(* What each step does to the WALs. *)

\* The list is full only where a standby is required.
LEMMA RequiredType == Required \in Nat /\ FullList \in {"empty", "full"}
                      /\ (FullList = "full" => Required > 0)
<1> USE DurabilityAssumption
<1>1. Cardinality(Voters) \in Nat
  BY FS_CardinalityType
<1>2. Cardinality(Voters) # 0
  BY FS_EmptySet
<1>3. Required \in Nat
  BY <1>1, <1>2 DEF Required
<1> QED BY <1>3 DEF FullList

\* Where the WALs of two nodes part.
LEMMA CommonIs ==
  ASSUME NEW m \in Voters, NEW l \in Voters, wal[m] \in Seq(Nat), wal[l] \in Seq(Nat)
  PROVE  /\ Common(m, l) \in 0..Len(wal[m])
         /\ \A k \in 0..Len(wal[m]) :
              k <= Len(wal[l]) /\ SubSeq(wal[m], 1, k) = SubSeq(wal[l], 1, k) => k <= Common(m, l)
<1> DEFINE S == {k \in 0..Len(wal[m]) :
                   k <= Len(wal[l]) /\ SubSeq(wal[m], 1, k) = SubSeq(wal[l], 1, k)}
           top == Len(wal[m])
           R == OpToRel(<, Nat)
           T == {top - k : k \in S}
<1>1. top \in Nat /\ Len(wal[l]) \in Nat
  BY LenProperties
<1>2. 0 \in S
  <2>1. SubSeq(wal[m], 1, 0) = << >> /\ SubSeq(wal[l], 1, 0) = << >>
    BY <1>1, SubSeqEmpty
  <2> QED BY <1>1, <2>1
<1>3. T \subseteq Nat /\ T # {}
  BY <1>1, <1>2
<1>4. IsWellFoundedOn(R, Nat)
  BY NatLessThanWellFounded
<1>5. PICK x \in T : \A y \in T : ~(<<y, x>> \in R)
  <2> HIDE DEF R, T
  <2> QED BY <1>3, <1>4, WFMin
<1>6. \A y \in T : ~(y < x)
  BY <1>3, <1>5 DEF OpToRel
<1>7. PICK k \in S : x = top - k
  OBVIOUS
<1>8. S \subseteq 0..top
  OBVIOUS
<1>9. \A j \in S : k >= j
  <2> TAKE j \in S
  <2>1. top - j \in T
    OBVIOUS
  <2>2. ~(top - j < top - k)
    BY <1>6, <1>7, <2>1
  <2> HIDE DEF S, T
  <2> QED BY <1>1, <1>8, <2>2
<1>10. Max(S) \in S /\ \A j \in S : Max(S) >= j
  <2> HIDE DEF S
  <2> QED BY <1>9 DEF Max
<1>11. Common(m, l) = Max(S)
  BY DEF Common
<1> QED BY <1>1, <1>8, <1>10, <1>11

WalKept(n) ==
  Len(wal'[n]) >= Len(wal[n]) /\ \A q \in 1..Len(wal[n]) : wal'[n][q] = wal[n][q]

\* The WAL of n gets one more record.
Extends(n, t) ==
  /\ \A m \in Voters \ {n} : wal'[m] = wal[m]
  /\ Len(wal'[n]) = Len(wal[n]) + 1 /\ wal'[n][Len(wal[n]) + 1] = t
  /\ \A q \in 1..Len(wal[n]) : wal'[n][q] = wal[n][q]
  /\ wal' \in [Voters -> Seq(Nat)]
  /\ Len(wal[n]) \in Nat

\* Append, record by record.
LEMMA ExtendsWal ==
  ASSUME wal \in [Voters -> Seq(Nat)], NEW n \in Voters, NEW t \in Nat,
         wal' = [wal EXCEPT ![n] = Append(@, t)]
  PROVE  Extends(n, t)
<1> DEFINE w == wal[n]
<1>1. w \in Seq(Nat)
  OBVIOUS
<1>2. Append(w, t) \in Seq(Nat) /\ Len(Append(w, t)) = Len(w) + 1
      /\ Append(w, t)[Len(w) + 1] = t /\ Len(w) \in Nat
      /\ \A q \in 1..Len(w) : Append(w, t)[q] = w[q]
  <2> HIDE DEF w
  <2> QED BY <1>1, AppendProperties, LenProperties
<1>3. wal'[n] = Append(w, t) /\ \A m \in Voters \ {n} : wal'[m] = wal[m]
  OBVIOUS
<1>4. wal' \in [Voters -> Seq(Nat)]
  BY <1>2
<1> QED BY <1>2, <1>3, <1>4 DEF Extends

\* The WAL of n is cut.
Cut(n, k) ==
  /\ \A m \in Voters \ {n} : wal'[m] = wal[m]
  /\ Len(wal'[n]) = k /\ k \in 0..Len(wal[n])
  /\ \A q \in 1..k : wal'[n][q] = wal[n][q]
  /\ wal' \in [Voters -> Seq(Nat)]
  /\ Len(wal[n]) \in Nat

\* SubSeq, record by record.
LEMMA CutWal ==
  ASSUME wal \in [Voters -> Seq(Nat)], NEW n \in Voters, NEW k \in 0..Len(wal[n]),
         wal' = [wal EXCEPT ![n] = SubSeq(@, 1, k)]
  PROVE  Cut(n, k)
<1> DEFINE w == wal[n]
           v == SubSeq(w, 1, k)
<1>1. w \in Seq(Nat) /\ k \in 0..Len(w) /\ Len(w) \in Nat
  BY LenProperties
<1>2. v \in Seq(Nat) /\ Len(v) = k /\ \A q \in 1..k : v[q] = w[q]
  <2> HIDE DEF w
  <2>1. CASE k = 0
    <3>1. SubSeq(w, 1, 0) = << >>
      BY <1>1, SubSeqEmpty
    <3> QED BY <2>1, <3>1
  <2>2. CASE k # 0
    <3>1. k \in 1..Len(w)
      BY <1>1, <2>2
    <3> QED BY <1>1, <3>1, SubSeqProperties
  <2> QED BY <2>1, <2>2
<1>3. wal'[n] = v /\ \A m \in Voters \ {n} : wal'[m] = wal[m]
  OBVIOUS
<1>4. wal' \in [Voters -> Seq(Nat)]
  BY <1>2
<1> QED BY <1>1, <1>2, <1>3, <1>4 DEF Cut

\* Which WALs change, and how.
LEMMA PromoteWal ==
  ASSUME Shape, NEW l \in Voters, Promote(l) PROVE Extends(l, raft[l].term)
BY ExtendsWal DEF Shape, RaftShape, Promote

\* A write adds a record of the primary's timeline.
LEMMA WriteWal ==
  ASSUME Shape, NEW l \in Voters, Write(l) PROVE Extends(l, pg[l].tl)
<1>1. pg[l].tl \in Nat
  BY DEF Shape, Server
<1> QED BY <1>1, ExtendsWal DEF Shape, Write

\* Streaming adds the next record of the server it follows.
LEMMA StreamWal ==
  ASSUME Shape, NEW m \in Voters, Stream(m)
  PROVE  LET l == pg[m].follows
         IN  /\ l \in Voters /\ m # l /\ ~pg[m].primary
             /\ IsPrefix(wal[m], wal[l]) /\ Len(wal[m]) < Len(wal[l])
             /\ Extends(m, wal[l][Len(wal[m]) + 1])
<1> DEFINE l == pg[m].follows
<1>1. l \in Voters \cup {None} /\ l # None
  BY DEF Shape, Server, Stream
<1>2. l \in Voters
  BY <1>1
<1>3. /\ Streams(m, l) /\ Len(wal[m]) < Len(wal[l])
      /\ wal' = [wal EXCEPT ![m] = Append(@, wal[l][Len(wal[m]) + 1])]
  BY DEF Stream
<1> HIDE DEF l
<1>4. wal[m] \in Seq(Nat) /\ wal[l] \in Seq(Nat) /\ Len(wal[m]) \in Nat /\ Len(wal[l]) \in Nat
  BY <1>2, LenProperties DEF Shape
<1>5. wal[l][Len(wal[m]) + 1] \in Nat
  <2>1. Len(wal[m]) + 1 \in 1..Len(wal[l])
    BY <1>3, <1>4
  <2> QED BY <1>4, <2>1, ElementOfSeq
<1>6. Extends(m, wal[l][Len(wal[m]) + 1])
  BY <1>3, <1>5, ExtendsWal DEF Shape
<1> QED BY <1>2, <1>3, <1>6 DEF Streams, l

\* Following cuts the WAL where the two part.
LEMMA FollowWal ==
  ASSUME Shape, NEW m \in Voters, NEW l \in Voters, Follow(m, l)
  PROVE  Cut(m, Common(m, l))
<1>1. wal[m] \in Seq(Nat) /\ wal[l] \in Seq(Nat)
  BY DEF Shape
<1>2. Common(m, l) \in 0..Len(wal[m])
  BY <1>1, CommonIs
<1> QED BY <1>2, CutWal DEF Shape, Follow

-----------------------------------------------------------------------------
(* Which actions change which variable. *)

\* The actions that change raft.
LEMMA RaftActions ==
  ASSUME DurNext
  PROVE  \/ \E n \in Voters : Campaign(n) \/ TakesTerm(n) \/ Restart(n)
         \/ \E n \in Voters : Apply(n) \/ LeadFull(n) \/ LeadAsync(n)
         \/ \E m, l \in Voters : Hear(m, l)
         \/ \E m \in Voters, a \in asks : AnswerVote(m, a)
         \/ UNCHANGED raft
<1>1. ASSUME NEW n \in Voters,
             Ask(n) \/ Commit(n) \/ LeaseOut(n) \/ Promote(n) \/ OpenWrites(n) \/ Write(n) \/ Stream(n)
      PROVE  UNCHANGED raft
  BY <1>1 DEF Ask, Commit, LeaseOut, Promote, OpenWrites, Write, Stream
<1>2. ASSUME NEW m \in Voters, NEW l \in Voters, Follow(m, l) PROVE UNCHANGED raft
  BY <1>2 DEF Follow
<1>3. ASSUME NEW l \in Voters, NEW p \in 1..MaxWal, CommitAcked(l, p) PROVE UNCHANGED raft
  BY <1>3 DEF CommitAcked
<1>4. ASSUME NEW m \in Voters, NEW a \in asks, ReadGate(m, a) PROVE UNCHANGED raft
  BY <1>4 DEF ReadGate
<1> QED BY <1>1, <1>2, <1>3, <1>4 DEF DurNext

\* The actions that change leases.
LEMMA HeardActions ==
  ASSUME DurNext
  PROVE  \/ \E n \in Voters : TakesTerm(n) \/ LeaseOut(n)
         \/ \E m, l \in Voters : Hear(m, l)
         \/ UNCHANGED heard
<1>1. ASSUME NEW n \in Voters,
             \/ Campaign(n) \/ Ask(n) \/ Commit(n) \/ Apply(n) \/ Promote(n) \/ LeadFull(n)
             \/ LeadAsync(n) \/ OpenWrites(n) \/ Write(n) \/ Stream(n) \/ Restart(n)
      PROVE  UNCHANGED heard
  BY <1>1 DEF Campaign, Ask, Commit, Apply, Promote, LeadFull, LeadAsync, OpenWrites, Write,
       Stream, Restart
<1>2. ASSUME NEW m \in Voters, NEW l \in Voters, Follow(m, l) PROVE UNCHANGED heard
  BY <1>2 DEF Follow
<1>3. ASSUME NEW l \in Voters, NEW p \in 1..MaxWal, CommitAcked(l, p) PROVE UNCHANGED heard
  BY <1>3 DEF CommitAcked
<1>4. ASSUME NEW m \in Voters, NEW a \in asks, ReadGate(m, a) \/ AnswerVote(m, a) PROVE UNCHANGED heard
  BY <1>4 DEF ReadGate, AnswerVote
<1> QED BY <1>1, <1>2, <1>3, <1>4 DEF DurNext

\* The actions that change vote requests.
LEMMA AskActions ==
  ASSUME DurNext
  PROVE  \/ \E n \in Voters : Ask(n)
         \/ \E n \in Voters : /\ asks' = {a \in asks : a.from # n}
                              /\ Campaign(n) \/ TakesTerm(n) \/ Restart(n)
         \/ /\ UNCHANGED asks
            /\ \A n \in Voters : ~Campaign(n)
         \/ \E m \in Voters, a \in asks : ReadGate(m, a)
<1>1. ASSUME NEW n \in Voters,
             \/ Commit(n) \/ Apply(n) \/ Promote(n) \/ LeadFull(n) \/ LeaseOut(n)
             \/ LeadAsync(n) \/ OpenWrites(n) \/ Write(n) \/ Stream(n)
      PROVE  UNCHANGED asks
  BY <1>1 DEF Commit, Apply, Promote, LeadFull, LeaseOut, LeadAsync, OpenWrites, Write, Stream
<1>2. ASSUME NEW m \in Voters, NEW l \in Voters, Follow(m, l) \/ Hear(m, l) PROVE UNCHANGED asks
  BY <1>2 DEF Follow, Hear
<1>3. ASSUME NEW l \in Voters, NEW p \in 1..MaxWal, CommitAcked(l, p) PROVE UNCHANGED asks
  BY <1>3 DEF CommitAcked
<1>4. ASSUME NEW m \in Voters, NEW a \in asks, AnswerVote(m, a) PROVE UNCHANGED asks
  BY <1>4 DEF AnswerVote
<1>5. ASSUME NEW n \in Voters, Campaign(n) \/ TakesTerm(n) \/ Restart(n)
      PROVE  asks' = {a \in asks : a.from # n}
  BY <1>5 DEF Campaign, TakesTerm, Restart
<1>6. CASE \E n \in Voters : Campaign(n)
  BY <1>5, <1>6
<1>7. CASE ~\E n \in Voters : Campaign(n)
  BY <1>1, <1>2, <1>3, <1>4, <1>5, <1>7 DEF DurNext
<1> QED BY <1>6, <1>7

\* A gate that was read leaves the requests as they were, but for who has passed.
LEMMA AsksRead ==
  ASSUME Shape, NEW m \in Voters, NEW c \in asks, ReadGate(m, c), NEW a \in asks'
  PROVE  /\ UNCHANGED <<raft, wal>> /\ AskShape(a)
         /\ \E b \in asks : a.from = b.from /\ a.term = b.term /\ a.lsn = b.lsn
<1>1. UNCHANGED <<raft, wal>> /\ (a \in asks \/ a = [c EXCEPT !.passed = @ \cup {m}])
  BY DEF ReadGate
<1>2. AskShape(c) /\ (a \in asks => AskShape(a))
  BY DEF Shape
<1>3. CASE a = [c EXCEPT !.passed = @ \cup {m}]
  BY <1>1, <1>2, <1>3 DEF AskShape
<1> QED BY <1>1, <1>2, <1>3

\* The actions that change servers.
LEMMA PgActions ==
  ASSUME DurNext
  PROVE  \/ \E n \in Voters : LeaseOut(n) \/ Promote(n) \/ LeadFull(n) \/ LeadAsync(n)
                              \/ OpenWrites(n) \/ Restart(n)
         \/ \E m, l \in Voters : Hear(m, l) \/ Follow(m, l)
         \/ UNCHANGED pg
<1>1. ASSUME NEW n \in Voters,
             \/ Campaign(n) \/ Ask(n) \/ TakesTerm(n) \/ Commit(n) \/ Apply(n) \/ Write(n) \/ Stream(n)
      PROVE  UNCHANGED pg
  BY <1>1 DEF Campaign, Ask, TakesTerm, Commit, Apply, Write, Stream
<1>2. ASSUME NEW l \in Voters, NEW p \in 1..MaxWal, CommitAcked(l, p) PROVE UNCHANGED pg
  BY <1>2 DEF CommitAcked
<1>3. ASSUME NEW m \in Voters, NEW a \in asks, ReadGate(m, a) \/ AnswerVote(m, a) PROVE UNCHANGED pg
  BY <1>3 DEF ReadGate, AnswerVote
<1> QED BY <1>1, <1>2, <1>3 DEF DurNext

\* The actions that change WALs.
LEMMA WalActions ==
  ASSUME DurNext
  PROVE  \/ \E n \in Voters : Promote(n) \/ Write(n) \/ Stream(n)
         \/ \E m, l \in Voters : Follow(m, l)
         \/ UNCHANGED wal
<1>1. ASSUME NEW n \in Voters,
             \/ Campaign(n) \/ Ask(n) \/ TakesTerm(n) \/ Commit(n) \/ Apply(n) \/ LeaseOut(n)
             \/ LeadFull(n) \/ LeadAsync(n) \/ OpenWrites(n) \/ Restart(n)
      PROVE  UNCHANGED wal
  BY <1>1 DEF Campaign, Ask, TakesTerm, Commit, Apply, LeaseOut, LeadFull, LeadAsync, OpenWrites,
       Restart
<1>2. ASSUME NEW l \in Voters, NEW p \in 1..MaxWal, CommitAcked(l, p) PROVE UNCHANGED wal
  BY <1>2 DEF CommitAcked
<1>3. ASSUME NEW m \in Voters, NEW a \in asks, ReadGate(m, a) \/ AnswerVote(m, a) PROVE UNCHANGED wal
  BY <1>3 DEF ReadGate, AnswerVote
<1>4. ASSUME NEW m \in Voters, NEW l \in Voters, Hear(m, l) PROVE UNCHANGED wal
  BY <1>4 DEF Hear
<1> QED BY <1>1, <1>2, <1>3, <1>4 DEF DurNext

\* The actions that change what is acknowledged.
LEMMA AckActions ==
  ASSUME DurNext
  PROVE  \/ \E l \in Voters, p \in 1..MaxWal : CommitAcked(l, p)
         \/ \E n \in Voters : Apply(n)
         \/ UNCHANGED acked
<1>1. ASSUME NEW n \in Voters,
             \/ Campaign(n) \/ Ask(n) \/ TakesTerm(n) \/ Commit(n) \/ LeaseOut(n) \/ Promote(n)
             \/ LeadFull(n) \/ LeadAsync(n) \/ OpenWrites(n) \/ Write(n) \/ Stream(n) \/ Restart(n)
      PROVE  UNCHANGED acked
  BY <1>1 DEF Campaign, Ask, TakesTerm, Commit, LeaseOut, Promote, LeadFull, LeadAsync, OpenWrites,
       Write, Stream, Restart
<1>2. ASSUME NEW m \in Voters, NEW a \in asks, ReadGate(m, a) \/ AnswerVote(m, a) PROVE UNCHANGED acked
  BY <1>2 DEF ReadGate, AnswerVote
<1>3. ASSUME NEW m \in Voters, NEW l \in Voters, Hear(m, l) \/ Follow(m, l) PROVE UNCHANGED acked
  BY <1>3 DEF Hear, Follow
<1> QED BY <1>1, <1>2, <1>3 DEF DurNext

-----------------------------------------------------------------------------
(* What each step does to raft and to the servers, and that all variables keep
   their shape. *)

\* Every step keeps the shape of raft, and lets votes advance only.
LEMMA RaftStep ==
  ASSUME Shape, DurNext
  PROVE  RaftShape' /\ VotesAdvance
<1>0. RaftShape
  BY DEF Shape
<1>1. ASSUME UNCHANGED raft PROVE RaftShape' /\ VotesAdvance
  <2>1. RaftShape' /\ VotesStay
    BY <1>0, <1>1 DEF RaftShape, VotesStay, SameVote
  <2> QED BY <2>1, StayAdvances
<1>2. ASSUME NEW n \in Voters, Campaign(n) PROVE RaftShape' /\ VotesAdvance
  BY <1>0, <1>2, CampaignVotes, CampaignAdvances
<1>3. ASSUME NEW n \in Voters, TakesTerm(n) PROVE RaftShape' /\ VotesAdvance
  BY <1>0, <1>3, TakesTermVotes, TakesTermAdvances
<1>4. ASSUME NEW n \in Voters, Apply(n) PROVE RaftShape' /\ VotesAdvance
  BY <1>0, <1>4, ApplyVotes, StayAdvances
<1>5. ASSUME NEW n \in Voters, LeadFull(n) \/ LeadAsync(n) PROVE RaftShape' /\ VotesAdvance
  <2>1. Propose(n, "sync") \/ Propose(n, "async")
    BY <1>5 DEF LeadFull, LeadAsync
  <2> QED BY <1>0, <2>1, ProposeVotes, StayAdvances
<1>6. ASSUME NEW n \in Voters, Restart(n) PROVE RaftShape' /\ VotesAdvance
  BY <1>0, <1>6, RestartVotes, RestartAdvances
<1>7. ASSUME NEW m \in Voters, NEW l \in Voters, Hear(m, l) PROVE RaftShape' /\ VotesAdvance
  BY <1>0, <1>7, HearVotes, HearAdvances
<1>8. ASSUME NEW m \in Voters, NEW a \in asks, AnswerVote(m, a) PROVE RaftShape' /\ VotesAdvance
  <2>1. Answered(m, a)
    BY <1>8, AnswerVotes
  <2>2. VotesAdvance
    BY <1>8, AnswerAdvances
  <2> QED BY <2>1, <2>2 DEF Answered
<1> QED BY <1>1, <1>2, <1>3, <1>4, <1>5, <1>6, <1>7, <1>8, RaftActions

\* A server whose state is replaced.
LEMMA ServerSet ==
  ASSUME pg \in [Voters -> Server], NEW n \in Voters, NEW p \in Server, SetPg(n, p)
  PROVE  pg' \in [Voters -> Server] /\ pg'[n] = p /\ \A m \in Voters \ {n} : pg'[m] = pg[m]
BY DEF SetPg

\* A server that is closed is otherwise as it was.
LEMMA ServerClosed ==
  ASSUME pg \in [Voters -> Server], NEW n \in Voters, pg' = [pg EXCEPT ![n].open = FALSE]
  PROVE  /\ pg' \in [Voters -> Server] /\ \A m \in Voters \ {n} : pg'[m] = pg[m]
         /\ ~pg'[n].open /\ pg'[n].primary = pg[n].primary /\ pg'[n].tl = pg[n].tl
         /\ pg'[n].list = pg[n].list
BY DEF Server

PgShape == pg \in [Voters -> Server] /\ \A n \in Voters : pg[n].list = "full" => Required > 0

\* Promotion makes a primary on the leader's term.
LEMMA PromotePg ==
  ASSUME Shape, NEW l \in Voters, Promote(l)
  PROVE  /\ PgShape' /\ \A n \in Voters \ {l} : pg'[n] = pg[n]
         /\ pg'[l].primary /\ pg'[l].tl = raft[l].term /\ pg'[l].open = pg[l].open
<1> DEFINE p == [pg[l] EXCEPT !.primary = TRUE, !.list = FullList, !.tl = raft[l].term,
                            !.follows = None]
<1>0. pg[l] \in Server /\ raft[l].term \in Nat /\ FullList \in {"empty", "full"}
  BY RequiredType DEF Shape, RaftShape
<1>1. /\ p \in Server /\ p.primary /\ p.tl = raft[l].term /\ p.open = pg[l].open
      /\ p.list = FullList
  BY <1>0 DEF Server
<1>2. SetPg(l, p)
  BY DEF Promote
<1> HIDE DEF p
<1>3. pg' \in [Voters -> Server] /\ pg'[l] = p /\ \A m \in Voters \ {l} : pg'[m] = pg[m]
  BY <1>1, <1>2, ServerSet DEF Shape
<1> QED BY <1>1, <1>3, RequiredType DEF Shape, PgShape

\* A server that follows is a closed standby.
LEMMA FollowPg ==
  ASSUME Shape, NEW m \in Voters, NEW l \in Voters, Follow(m, l)
  PROVE  /\ PgShape' /\ \A n \in Voters \ {m} : pg'[n] = pg[n]
         /\ ~pg'[m].primary /\ ~pg'[m].open
<1> DEFINE p == [pg[m] EXCEPT !.primary = FALSE, !.open = FALSE, !.follows = l]
<1>0. pg[m] \in Server
  BY DEF Shape
<1>1. p \in Server /\ ~p.primary /\ ~p.open /\ p.list = pg[m].list
  BY <1>0 DEF Server
<1>2. SetPg(m, p)
  BY DEF Follow
<1> HIDE DEF p
<1>3. pg' \in [Voters -> Server] /\ pg'[m] = p /\ \A n \in Voters \ {m} : pg'[n] = pg[n]
  BY <1>1, <1>2, ServerSet DEF Shape
<1> QED BY <1>1, <1>3 DEF Shape, PgShape

\* Setting the list changes nothing else.
LEMMA ListPg ==
  ASSUME Shape, NEW l \in Voters, NEW list \in {"empty", "full"}, list = "full" => Required > 0,
         SetPg(l, [pg[l] EXCEPT !.list = list])
  PROVE  /\ PgShape' /\ \A n \in Voters : /\ pg'[n].primary = pg[n].primary
                                          /\ pg'[n].open = pg[n].open /\ pg'[n].tl = pg[n].tl
<1> DEFINE p == [pg[l] EXCEPT !.list = list]
<1>1. /\ p \in Server /\ p.primary = pg[l].primary /\ p.open = pg[l].open /\ p.tl = pg[l].tl
      /\ p.list = list
  <2>1. pg[l] \in Server
    BY DEF Shape
  <2> QED BY <2>1 DEF Server
<1> HIDE DEF p
<1>3. pg' \in [Voters -> Server] /\ pg'[l] = p /\ \A m \in Voters \ {l} : pg'[m] = pg[m]
  BY <1>1, ServerSet DEF Shape, p
<1> QED BY <1>1, <1>3 DEF Shape, PgShape

\* A leader's pass sets its list, if anything.
LEMMA LeadPg ==
  ASSUME Shape, NEW l \in Voters, LeadFull(l) \/ LeadAsync(l)
  PROVE  /\ PgShape' /\ \A n \in Voters : /\ pg'[n].primary = pg[n].primary
                                          /\ pg'[n].open = pg[n].open /\ pg'[n].tl = pg[n].tl
<1>1. CASE UNCHANGED pg
  BY <1>1 DEF Shape, PgShape
<1>2. CASE LeadFull(l) /\ SetPg(l, [pg[l] EXCEPT !.list = "full"])
  <2>1. Required > 0
    BY <1>2, RequiredType DEF LeadFull
  <2> QED BY <1>2, <2>1, ListPg
<1>3. CASE SetPg(l, [pg[l] EXCEPT !.list = "empty"])
  BY <1>3, ListPg
<1> QED BY <1>1, <1>2, <1>3 DEF LeadFull, LeadAsync

\* Opening changes nothing but whether the server is open.
LEMMA OpenPg ==
  ASSUME Shape, NEW l \in Voters, OpenWrites(l)
  PROVE  /\ PgShape' /\ \A n \in Voters : /\ pg'[n].primary = pg[n].primary
                                          /\ pg'[n].tl = pg[n].tl
         /\ \A n \in Voters \ {l} : pg'[n].open = pg[n].open
<1> DEFINE p == [pg[l] EXCEPT !.open = TRUE]
<1>1. p \in Server /\ p.primary = pg[l].primary /\ p.tl = pg[l].tl /\ p.list = pg[l].list
  BY DEF Shape, Server
<1>2. SetPg(l, p)
  BY DEF OpenWrites
<1> HIDE DEF p
<1>3. pg' \in [Voters -> Server] /\ pg'[l] = p /\ \A m \in Voters \ {l} : pg'[m] = pg[m]
  BY <1>1, <1>2, ServerSet DEF Shape
<1> QED BY <1>1, <1>3 DEF Shape, PgShape

\* A step that closes the server of n, and leaves the others alone.
ClosesPg(n) ==
  /\ PgShape' /\ ~pg'[n].open
  /\ \A m \in Voters : pg'[m].primary = pg[m].primary /\ pg'[m].tl = pg[m].tl
  /\ \A m \in Voters \ {n} : pg'[m].open = pg[m].open

\* A lease that runs out, a restart and hearing another leader close the server.
LEMMA ClosingPg ==
  ASSUME Shape, NEW n \in Voters,
         \/ LeaseOut(n)
         \/ Restart(n)
         \/ \E l \in Voters : Hear(n, l)
  PROVE  ClosesPg(n)
<1>1. CASE pg' = [pg EXCEPT ![n].open = FALSE]
  <2>1. /\ pg' \in [Voters -> Server] /\ \A m \in Voters \ {n} : pg'[m] = pg[m]
        /\ ~pg'[n].open /\ pg'[n].primary = pg[n].primary /\ pg'[n].tl = pg[n].tl
        /\ pg'[n].list = pg[n].list
    BY <1>1, ServerClosed DEF Shape
  <2> QED BY <2>1 DEF Shape, PgShape, ClosesPg
<1>2. CASE SetPg(n, [pg[n] EXCEPT !.open = FALSE])
  <2> DEFINE p == [pg[n] EXCEPT !.open = FALSE]
  <2>1. /\ p \in Server /\ ~p.open /\ p.primary = pg[n].primary /\ p.tl = pg[n].tl
        /\ p.list = pg[n].list
    <3>1. pg[n] \in Server
      BY DEF Shape
    <3> QED BY <3>1 DEF Server
  <2> HIDE DEF p
  <2>2. pg' \in [Voters -> Server] /\ pg'[n] = p /\ \A m \in Voters \ {n} : pg'[m] = pg[m]
    BY <1>2, <2>1, ServerSet DEF Shape, p
  <2> QED BY <2>1, <2>2 DEF Shape, PgShape, ClosesPg
<1> QED BY <1>1, <1>2 DEF LeaseOut, Restart, Hear

\* Servers keep their shape.
LEMMA PgStep ==
  ASSUME Shape, DurNext PROVE PgShape'
<1>1. CASE UNCHANGED pg
  BY <1>1 DEF Shape, PgShape
<1>2. ASSUME NEW n \in Voters, LeaseOut(n) \/ Restart(n) \/ \E l \in Voters : Hear(n, l) PROVE PgShape'
  BY <1>2, ClosingPg DEF ClosesPg
<1>3. ASSUME NEW n \in Voters, Promote(n) PROVE PgShape'
  BY <1>3, PromotePg
<1>4. ASSUME NEW n \in Voters, LeadFull(n) \/ LeadAsync(n) PROVE PgShape'
  BY <1>4, LeadPg
<1>5. ASSUME NEW n \in Voters, OpenWrites(n) PROVE PgShape'
  BY <1>5, OpenPg
<1>6. ASSUME NEW m \in Voters, NEW l \in Voters, Follow(m, l) PROVE PgShape'
  BY <1>6, FollowPg
<1> QED BY <1>1, <1>2, <1>3, <1>4, <1>5, <1>6, PgActions

\* Every variable keeps its shape.
LEMMA ShapeStep ==
  ASSUME Shape, DurNext PROVE Shape'
<1>1. RaftShape'
  BY RaftStep
<1>2. heard' \in [Voters -> Voters \cup {None}]
  <2>1. ASSUME NEW n \in Voters, TakesTerm(n) \/ LeaseOut(n)
        PROVE  heard' = [heard EXCEPT ![n] = n] \/ heard' = [heard EXCEPT ![n] = None]
    BY <2>1 DEF TakesTerm, LeaseOut
  <2>2. ASSUME NEW m \in Voters, NEW l \in Voters, Hear(m, l)
        PROVE  heard' = [heard EXCEPT ![m] = l, ![l] = l]
    BY <2>2 DEF Hear
  <2>3. heard \in [Voters -> Voters \cup {None}]
    BY DEF Shape
  <2> QED BY <2>1, <2>2, <2>3, HeardActions
<1>3. \A a \in asks' : AskShape(a)
  <2>1. \A a \in asks : AskShape(a)
    BY DEF Shape
  <2>2. ASSUME NEW n \in Voters, Ask(n) PROVE \A a \in asks' : AskShape(a)
    <3>1. raft[n].term \in Nat /\ OwnPosition(n) \in Nat
      BY LenProperties DEF Shape, RaftShape, OwnPosition
    <3> QED BY <2>1, <2>2, <3>1 DEF Ask, AskShape
  <2>3. ASSUME NEW m \in Voters, NEW c \in asks, ReadGate(m, c) PROVE \A a \in asks' : AskShape(a)
    BY <2>3, AsksRead
  <2> QED BY <2>1, <2>2, <2>3, AskActions
<1>4. PgShape'
  BY PgStep
<1>5. wal' \in [Voters -> Seq(Nat)]
  <2>1. ASSUME NEW n \in Voters, Promote(n) \/ Write(n) \/ Stream(n)
        PROVE  wal' \in [Voters -> Seq(Nat)]
    BY <2>1, PromoteWal, WriteWal, StreamWal DEF Extends
  <2>2. ASSUME NEW m \in Voters, NEW l \in Voters, Follow(m, l) PROVE wal' \in [Voters -> Seq(Nat)]
    BY <2>2, FollowWal DEF Cut
  <2>3. wal \in [Voters -> Seq(Nat)]
    BY DEF Shape
  <2> QED BY <2>1, <2>2, <2>3, WalActions
<1>6. \A r \in acked' : r[1] \in Nat \ {0}
  <2>1. \A r \in acked : r[1] \in Nat \ {0}
    BY DEF Shape
  <2>2. ASSUME NEW l \in Voters, NEW p \in 1..MaxWal, CommitAcked(l, p)
        PROVE  acked' = acked \cup {<<p, wal[l][p]>>} /\ p \in Nat \ {0}
    BY <2>2, DurabilityAssumption DEF CommitAcked
  <2>3. ASSUME NEW n \in Voters, Apply(n) PROVE acked' \subseteq acked
    BY <2>3 DEF Apply
  <2> QED BY <2>1, <2>2, <2>3, AckActions
<1> QED BY <1>1, <1>2, <1>3, <1>4, <1>5, <1>6 DEF Shape, PgShape

-----------------------------------------------------------------------------
(* Elections: votes are counted once, and a term has one winner. *)

\* How a node comes to lead, to campaign, and to count a vote.
RoleMoves(n) ==
  /\ Leader(n)' =>
       /\ raft'[n].term = raft[n].term /\ raft'[n].vote = raft[n].vote
       /\ Leader(n) \/ TakesTerm(n)
  /\ raft'[n].role = "candidate" =>
       \/ /\ raft[n].role = "candidate" /\ raft'[n].term = raft[n].term
          /\ raft'[n].vote = raft[n].vote
       \/ raft'[n].vote = n /\ Campaign(n)
  /\ \A x \in Voters : raft'[n].role = "candidate" /\ x \in raft'[n].tally =>
       \/ raft[n].role = "candidate" /\ raft'[n].term = raft[n].term /\ x \in raft[n].tally
       \/ raft'[x].term = raft'[n].term /\ raft'[x].vote = n

\* Every step moves roles that way.
LEMMA RoleStep ==
  ASSUME Shape, DurNext, NEW n \in Voters PROVE RoleMoves(n)
<1>0. RaftShape
  BY DEF Shape
<1>1. ASSUME VotesStay PROVE RoleMoves(n)
  BY <1>1 DEF VotesStay, SameVote, RoleMoves, Leader
<1>2. ASSUME NEW c \in Voters, Campaign(c) PROVE RoleMoves(n)
  BY <1>0, <1>2, CampaignVotes DEF SameVote, RoleMoves, Leader
<1>3. ASSUME NEW c \in Voters, TakesTerm(c) PROVE RoleMoves(n)
  BY <1>0, <1>3, TakesTermVotes DEF SameVote, RoleMoves, Leader
<1>4. ASSUME NEW c \in Voters, Restart(c) PROVE RoleMoves(n)
  BY <1>0, <1>4, RestartVotes DEF SameVote, RoleMoves, Leader
<1>5. ASSUME NEW m \in Voters, NEW l \in Voters, Hear(m, l) PROVE RoleMoves(n)
  BY <1>0, <1>5, HearVotes DEF SameVote, RoleMoves, Leader
<1>6. ASSUME NEW m \in Voters, NEW a \in asks, AnswerVote(m, a) PROVE RoleMoves(n)
  <2>1. Answered(m, a)
    BY <1>6, AnswerVotes
  <2>2. CASE n = m
    BY <2>1, <2>2 DEF Answered, RoleMoves, Leader
  <2>3. CASE n = a.from
    BY <2>1, <2>3 DEF Answered, RoleMoves, Leader
  <2>4. CASE n \notin {m, a.from}
    BY <2>1, <2>4 DEF Answered, SameVote, RoleMoves, Leader
  <2> QED BY <2>2, <2>3, <2>4
<1>7. ASSUME NEW c \in Voters, Apply(c) \/ LeadFull(c) \/ LeadAsync(c) PROVE VotesStay
  BY <1>0, <1>7, ApplyVotes, ProposeVotes DEF LeadFull, LeadAsync
<1>8. ASSUME UNCHANGED raft PROVE VotesStay
  BY <1>8 DEF VotesStay, SameVote
<1> QED BY <1>1, <1>2, <1>3, <1>4, <1>5, <1>6, <1>7, <1>8, RaftActions

\* A server becomes a primary by promotion only.
LEMMA PrimaryStep ==
  ASSUME Shape, DurNext, NEW n \in Voters, pg'[n].primary
  PROVE  Promote(n) \/ (pg[n].primary /\ pg'[n].tl = pg[n].tl)
<1>1. ASSUME NEW c \in Voters, LeaseOut(c) \/ Restart(c) \/ \E l \in Voters : Hear(c, l)
      PROVE  pg'[n].primary = pg[n].primary /\ pg'[n].tl = pg[n].tl
  BY <1>1, ClosingPg DEF ClosesPg
<1>2. ASSUME NEW c \in Voters, Promote(c), c # n PROVE pg'[n] = pg[n]
  BY <1>2, PromotePg
<1>3. ASSUME NEW c \in Voters, LeadFull(c) \/ LeadAsync(c) \/ OpenWrites(c)
      PROVE  pg'[n].primary = pg[n].primary /\ pg'[n].tl = pg[n].tl
  BY <1>3, LeadPg, OpenPg
<1>4. ASSUME NEW m \in Voters, NEW l \in Voters, Follow(m, l) PROVE pg'[n] = pg[n]
  BY <1>4, FollowPg
<1> QED BY <1>1, <1>2, <1>3, <1>4, PgActions

\* Votes are counted once.
LEMMA TallyStep ==
  ASSUME Shape, TallyInv, DurNext PROVE TallyInv'
<1>1. RaftShape' /\ RaftShape /\ VotesAdvance
  BY RaftStep DEF Shape
<1>t. \A m \in Voters : raft[m].term \in Nat /\ raft'[m].term \in Nat
  BY <1>1 DEF RaftShape
<1>2. \A n \in Voters : RoleMoves(n)
  BY RoleStep
<1>3. ASSUME NEW n \in Voters, raft'[n].role \in {"candidate", "leader"} PROVE raft'[n].vote = n
  <2>1. TakesTerm(n) => raft[n].role = "candidate"
    BY DEF TakesTerm
  <2> QED BY <1>2, <1>3, <2>1 DEF RoleMoves, TallyInv, Leader
<1>4. ASSUME NEW n \in Voters, NEW m \in Voters, raft'[n].role = "candidate", m \in raft'[n].tally
      PROVE  Gave(m, n, raft[n].term)'
  <2>1. CASE raft'[m].term = raft'[n].term /\ raft'[m].vote = n
    BY <2>1 DEF Gave
  <2>2. CASE raft[n].role = "candidate" /\ raft'[n].term = raft[n].term /\ m \in raft[n].tally
    <3>1. Gave(m, n, raft[n].term)
      BY <2>2 DEF TallyInv
    <3> QED BY <1>1, <1>t, <2>2, <3>1 DEF Gave, VotesAdvance
  <2> QED BY <1>2, <1>4, <2>1, <2>2 DEF RoleMoves
<1>5. ASSUME NEW n \in Voters, NEW c \in Voters, n # c, raft'[n].role = "candidate",
             Candidate(c, raft[n].term)', NEW x \in Voters, x \in raft'[n].tally, x \in raft'[c].tally
      PROVE  FALSE
  <2>1. raft'[c].role = "candidate" /\ raft'[c].term = raft'[n].term
    BY <1>5 DEF Candidate
  <2>2. Gave(x, n, raft[n].term)' /\ Gave(x, c, raft[c].term)'
    BY <1>4, <1>5, <2>1
  <2>3. ~(raft'[x].term = raft'[n].term)
    BY <1>5, <1>t, <2>1, <2>2 DEF Gave
  <2>4. /\ raft[n].role = "candidate" /\ raft'[n].term = raft[n].term /\ x \in raft[n].tally
        /\ raft[c].role = "candidate" /\ raft'[c].term = raft[c].term /\ x \in raft[c].tally
    BY <1>2, <1>5, <2>1, <2>3 DEF RoleMoves
  <2> QED BY <1>5, <2>1, <2>4 DEF TallyInv, Candidate
<1>6. \A n \in Voters : raft'[n].tally \subseteq Voters
  BY <1>1 DEF RaftShape
<1>7. ASSUME NEW n \in Voters, NEW c \in Voters, n # c, raft'[n].role = "candidate",
             Candidate(c, raft[n].term)'
      PROVE  raft'[n].tally \cap raft'[c].tally = {}
  BY <1>5, <1>6, <1>7
<1> QED BY <1>3, <1>4, <1>7 DEF TallyInv

\* A candidate with a majority of votes has won its term.
LEMMA TakesTermWon ==
  ASSUME Shape, TallyInv, NEW n \in Voters, TakesTerm(n)
  PROVE  Won(n, raft[n].term)'
<1>1. /\ RaftShape' /\ \A m \in Voters \ {n} : SameVote(m)
      /\ raft'[n].term = raft[n].term /\ raft'[n].vote = raft[n].vote /\ raft'[n].role = "leader"
  BY TakesTermVotes DEF Shape
<1>2. raft[n].role = "candidate" /\ IsMajority(raft[n].tally)
  BY DEF TakesTerm
<1> DEFINE Q == raft[n].tally
           t == raft[n].term
<1>3. Q \in SUBSET Voters /\ t \in Nat
  BY DEF Shape, RaftShape
<1>4. ASSUME NEW m \in Q PROVE Gave(m, n, t)'
  <2>1. Gave(m, n, t)
    BY <1>2, <1>3 DEF TallyInv
  <2> QED BY <1>1, <1>3, <2>1 DEF Gave, SameVote
<1>5. ASSUME NEW c \in Voters \ {n}, Candidate(c, t)' PROVE raft'[c].tally \cap Q = {}
  <2>1. Candidate(c, t) /\ raft'[c].tally = raft[c].tally
    BY <1>1, <1>5 DEF Candidate, SameVote
  <2> QED BY <1>2, <2>1 DEF TallyInv
<1>6. ASSUME NEW s, s = t PROVE Settled(n, s)' /\ raft'[n].term >= s /\ ~Candidate(n, s)'
  <2>1. Settled(n, t)'
    BY <1>2, <1>3, <1>4, <1>5 DEF Settled, Backs
  <2> QED BY <1>1, <1>3, <1>6, <2>1 DEF Candidate
<1> QED BY <1>1, <1>6 DEF Won

\* Leaders and primaries have won their terms.
LEMMA WonStep ==
  ASSUME Shape, TallyInv, WonInv, DurNext PROVE WonInv'
<1>1. RaftShape' /\ RaftShape /\ VotesAdvance
  BY RaftStep DEF Shape
<1>2. ASSUME NEW n \in Voters, Leader(n)' PROVE Won(n, raft[n].term)'
  <2>1. CASE TakesTerm(n)
    BY <2>1, TakesTermWon
  <2>2. CASE Leader(n) /\ raft'[n].term = raft[n].term
    <3>1. Won(n, raft[n].term) /\ raft[n].term \in Nat
      BY <1>1, <2>2 DEF WonInv, RaftShape
    <3>2. ASSUME NEW t \in Nat, Won(n, t) PROVE Won(n, t)'
      BY <1>1, <3>2, WonStays
    <3> QED BY <2>2, <3>1, <3>2
  <2> QED BY <1>2, <2>1, <2>2, RoleStep DEF RoleMoves
<1>3. ASSUME NEW n \in Voters, pg'[n].primary PROVE Won(n, pg[n].tl)'
  <2>1. ASSUME NEW t \in Nat, Won(n, t) PROVE Won(n, t)'
    BY <1>1, <2>1, WonStays
  <2>2. CASE Promote(n)
    <3>1. pg'[n].tl = raft[n].term /\ Leader(n)
      BY <2>2, PromotePg DEF Promote, Leader
    <3> QED BY <1>1, <2>1, <3>1 DEF WonInv, RaftShape
  <2>3. CASE pg[n].primary /\ pg'[n].tl = pg[n].tl
    <3>1. pg[n].tl \in Nat
      BY DEF Shape, Server
    <3> QED BY <2>1, <2>3, <3>1 DEF WonInv
  <2> QED BY <1>3, <2>2, <2>3, PrimaryStep
<1> QED BY <1>2, <1>3 DEF WonInv

\* The candidate that takes a term is the first to.
LEMMA TermIsNew ==
  ASSUME Shape, NEW n \in Voters, TakesTerm(n), NEW x \in Voters
  PROVE  ~Won(x, raft[n].term)
<1>1. Candidate(n, raft[n].term) /\ IsMajority(raft[n].tally) /\ raft[n].tally \in SUBSET Voters
  BY DEF TakesTerm, Candidate, Shape, RaftShape
<1> QED BY <1>1, WonOnce

\* A term has one leader and one primary.
LEMMA WinnerStep ==
  ASSUME Shape, WonInv, OneWinner, DurNext PROVE OneWinner'
<1>1. ASSUME NEW n \in Voters, TakesTerm(n) PROVE OneWinner'
  <2>1. UNCHANGED pg /\ \A c \in Voters \ {n} : SameVote(c)
    BY <1>1, TakesTermVotes DEF TakesTerm, Shape
  <2>2. raft'[n].term = raft[n].term
    BY <1>1, TakesTermVotes DEF Shape
  <2>3. \A x \in Voters : ~Won(x, raft[n].term)
    BY <1>1, TermIsNew
  <2>4. \A x \in Voters \ {n} : Leader(x)' => Leader(x) /\ raft'[x].term = raft[x].term
                                /\ raft[x].term # raft[n].term
    BY <2>1, <2>3 DEF SameVote, Leader, WonInv
  <2>5. \A x \in Voters : pg'[x].primary => pg[x].primary /\ pg'[x].tl = pg[x].tl
                                            /\ pg[x].tl # raft[n].term
    BY <2>1, <2>3 DEF WonInv
  <2> QED BY <2>2, <2>4, <2>5 DEF OneWinner
<1>2. ASSUME NEW n \in Voters, Promote(n) PROVE OneWinner'
  <2>1. UNCHANGED raft /\ Leader(n)
    BY <1>2 DEF Promote, Leader
  <2>2. pg'[n].tl = raft[n].term /\ \A x \in Voters \ {n} : pg'[x] = pg[x]
    BY <1>2, PromotePg
  <2> QED BY <2>1, <2>2 DEF OneWinner, Leader
<1>3. CASE \A n \in Voters : ~TakesTerm(n) /\ ~Promote(n)
  <2>1. \A x \in Voters : Leader(x)' => Leader(x) /\ raft'[x].term = raft[x].term
    BY <1>3, RoleStep DEF RoleMoves
  <2>2. \A x \in Voters : pg'[x].primary => pg[x].primary /\ pg'[x].tl = pg[x].tl
    BY <1>3, PrimaryStep
  <2> QED BY <2>1, <2>2 DEF OneWinner
<1> QED BY <1>1, <1>2, <1>3

-----------------------------------------------------------------------------
(* Leases, vote requests and the open server. *)

\* A candidate's WAL has not fallen behind the position it asked with.
LEMMA AskStep ==
  ASSUME Shape, AskInv, DurNext PROVE AskInv'
<1> SUFFICES ASSUME NEW a \in asks', Candidate(a.from, a.term)'
             PROVE  Len(wal'[a.from]) >= a.lsn
  BY DEF AskInv
<1> DEFINE f == a.from
<1>0. Shape'
  BY ShapeStep
<1>1. f \in Voters /\ a.lsn \in Nat
  BY <1>0 DEF Shape, AskShape
<1>2. ASSUME NEW n \in Voters, Ask(n), a \notin asks PROVE Len(wal'[f]) >= a.lsn
  <2>1. f = n /\ a.lsn = OwnPosition(n) /\ UNCHANGED wal
    BY <1>2 DEF Ask
  <2> QED BY <1>1, <2>1 DEF OwnPosition
<1>3. CASE a \in asks /\ Candidate(f, a.term)
  <2>1. Len(wal[f]) >= a.lsn /\ Len(wal[f]) \in Nat
    BY <1>1, <1>3, LenProperties DEF AskInv, Shape
  <2>2. Len(wal'[f]) >= Len(wal[f])
    <3>1. ASSUME NEW n \in Voters, Promote(n) \/ Write(n) \/ Stream(n)
          PROVE  Len(wal'[f]) >= Len(wal[f])
      <4>1. \E t : Extends(n, t)
        BY <3>1, PromoteWal, WriteWal, StreamWal
      <4> QED BY <1>1, <2>1, <4>1 DEF Extends
    <3>2. ASSUME NEW m \in Voters, NEW l \in Voters, Follow(m, l) PROVE wal'[f] = wal[f]
      <4>1. raft[m].role = "follower"
        BY <3>2 DEF Follow
      <4>2. f # m
        BY <1>3, <4>1 DEF Candidate
      <4> QED BY <1>1, <3>2, <4>2, FollowWal DEF Cut
    <3> QED BY <2>1, <3>1, <3>2, WalActions
  <2>3. Len(wal'[f]) \in Nat
    BY <1>0, <1>1, LenProperties DEF Shape
  <2> QED BY <1>1, <2>1, <2>2, <2>3
<1>4. CASE a \in asks /\ ~Candidate(f, a.term)
  <2>1. Campaign(f)
    BY <1>1, <1>4, RoleStep DEF RoleMoves, Candidate
  <2>2. a \notin asks'
    BY <2>1 DEF Campaign
  <2> QED BY <2>2
<1>5. ASSUME NEW m \in Voters, NEW c \in asks, ReadGate(m, c) PROVE Len(wal'[f]) >= a.lsn
  <2>1. UNCHANGED <<raft, wal>>
    BY <1>5, AsksRead
  <2>2. PICK b \in asks : a.from = b.from /\ a.term = b.term /\ a.lsn = b.lsn
    BY <1>5, AsksRead
  <2>3. Candidate(b.from, b.term)
    BY <2>1, <2>2 DEF Candidate
  <2> QED BY <2>1, <2>2, <2>3 DEF AskInv
<1>6. a \in asks \/ (\E n \in Voters : Ask(n)) \/ \E m \in Voters, c \in asks : ReadGate(m, c)
  BY AskActions
<1> QED BY <1>2, <1>3, <1>4, <1>5, <1>6

\* Who takes another leader's lease, and whose term moves.
HeardMoves(m) ==
  /\ \/ heard'[m] = heard[m] \/ heard'[m] = None
     \/ heard'[m] = m /\ (TakesTerm(m) \/ Leader(m))
     \/ \E l \in Voters : Hear(m, l) /\ heard'[m] = l
  /\ raft'[m].term # raft[m].term =>
       \/ heard'[m] = heard[m] /\ heard[m] = None
       \/ \E l \in Voters : Hear(m, l) /\ heard'[m] = l

\* Every step moves leases and terms that way.
LEMMA HeardStep ==
  ASSUME Shape, DurNext, NEW m \in Voters PROVE HeardMoves(m)
<1>0. RaftShape /\ heard \in [Voters -> Voters \cup {None}]
  BY DEF Shape
<1>1. \/ heard'[m] = heard[m] \/ heard'[m] = None
      \/ heard'[m] = m /\ (TakesTerm(m) \/ Leader(m))
      \/ \E l \in Voters : Hear(m, l) /\ heard'[m] = l
  <2>1. ASSUME NEW n \in Voters, TakesTerm(n)
        PROVE  heard'[m] = heard[m] \/ (heard'[m] = m /\ TakesTerm(m))
    BY <1>0, <2>1 DEF TakesTerm
  <2>2. ASSUME NEW n \in Voters, LeaseOut(n) PROVE heard'[m] = heard[m] \/ heard'[m] = None
    BY <1>0, <2>2 DEF LeaseOut
  <2>3. ASSUME NEW n \in Voters, NEW l \in Voters, Hear(n, l)
        PROVE  \/ heard'[m] = heard[m] \/ (heard'[m] = m /\ Leader(m))
               \/ m = n /\ heard'[m] = l
    BY <1>0, <2>3 DEF Hear, Leader
  <2> QED BY <2>1, <2>2, <2>3, HeardActions
<1>2. ASSUME raft'[m].term # raft[m].term
      PROVE  \/ heard'[m] = heard[m] /\ heard[m] = None
             \/ \E l \in Voters : Hear(m, l) /\ heard'[m] = l
  <2>1. ASSUME NEW n \in Voters, Campaign(n)
        PROVE  heard'[m] = heard[m] /\ heard[m] = None
    <3>1. m = n
      BY <1>0, <1>2, <2>1, CampaignVotes DEF SameVote
    <3> QED BY <2>1, <3>1 DEF Campaign
  <2>2. ASSUME NEW n \in Voters, TakesTerm(n) \/ Restart(n) PROVE FALSE
    BY <1>0, <1>2, <2>2, TakesTermVotes, RestartVotes DEF SameVote
  <2>3. ASSUME NEW n \in Voters, Apply(n) \/ LeadFull(n) \/ LeadAsync(n) PROVE FALSE
    <3>1. VotesStay
      BY <1>0, <2>3, ApplyVotes, ProposeVotes DEF LeadFull, LeadAsync
    <3> QED BY <1>2, <3>1 DEF VotesStay, SameVote
  <2>4. ASSUME NEW n \in Voters, NEW l \in Voters, Hear(n, l) PROVE m = n /\ heard'[m] = l
    <3>1. m = n
      BY <1>0, <1>2, <2>4, HearVotes DEF SameVote
    <3> QED BY <1>0, <2>4, <3>1 DEF Hear
  <2>5. ASSUME NEW n \in Voters, NEW a \in asks, AnswerVote(n, a)
        PROVE  heard'[m] = heard[m] /\ heard[m] = None
    <3>1. Answered(n, a)
      BY <2>5, AnswerVotes
    <3>2. m = n
      BY <1>2, <3>1 DEF Answered, SameVote
    <3> QED BY <2>5, <3>2 DEF AnswerVote, Shape
  <2> QED BY <1>2, <2>1, <2>2, <2>3, <2>4, <2>5, RaftActions
<1> QED BY <1>1, <1>2 DEF HeardMoves

\* No lease is older than its leader's term, and a candidate grants none.
LEMMA LeaseStep ==
  ASSUME Shape, HeardInv, DurNext PROVE HeardInv'
<1>0. RaftShape /\ RaftShape' /\ VotesAdvance /\ heard \in [Voters -> Voters \cup {None}]
  BY RaftStep DEF Shape
<1>t. \A m \in Voters : raft[m].term \in Nat /\ raft'[m].term \in Nat /\ raft'[m].term >= raft[m].term
  BY <1>0 DEF RaftShape, VotesAdvance
<1>n. None \notin Voters
  BY DurabilityAssumption
<1>1. ASSUME NEW m \in Voters, NEW l \in Voters, heard'[m] = l PROVE raft'[m].term <= raft'[l].term
  <2>1. CASE m = l
    BY <1>t, <2>1
  <2>2. ASSUME NEW k \in Voters, Hear(m, k), heard'[m] = k PROVE raft'[m].term <= raft'[l].term
    <3>1. m # k /\ raft'[m].term = raft[k].term
      BY <1>0, <2>2, HearVotes DEF Hear
    <3> QED BY <1>1, <1>t, <2>2, <3>1
  <2>3. CASE m # l /\ ~\E k \in Voters : Hear(m, k) /\ heard'[m] = k
    <3>1. HeardMoves(m)
      BY HeardStep
    <3>2. heard[m] = l /\ raft'[m].term = raft[m].term
      BY <1>1, <1>n, <2>3, <3>1 DEF HeardMoves
    <3>3. raft[m].term <= raft[l].term
      BY <3>2 DEF HeardInv
    <3> QED BY <1>t, <3>2, <3>3
  <2> QED BY <2>1, <2>2, <2>3
<1>2. ASSUME NEW m \in Voters, raft'[m].role = "candidate" PROVE heard'[m] = None
  <2>1. raft[m].role # "leader" /\ heard[m] = None
    <3>1. Campaign(m) => heard[m] = None /\ raft[m].role # "leader"
      BY DEF Campaign
    <3> QED BY <1>2, <3>1, RoleStep DEF RoleMoves, HeardInv
  <2>2. ~TakesTerm(m)
    BY <1>0, <1>2, TakesTermVotes
  <2>3. \A l \in Voters : ~Hear(m, l)
    BY <1>0, <1>2, HearVotes
  <2> QED BY <2>1, <2>2, <2>3, HeardStep DEF HeardMoves, Leader
<1> QED BY <1>1, <1>2 DEF HeardInv

\* Whoever won a term has a majority in it or past it.
LEMMA WonMajority ==
  ASSUME NEW n \in Voters, NEW t \in Nat, RaftShape, Won(n, t)
  PROVE  IsMajority({m \in Voters : raft[m].term >= t})
<1>1. PICK Q \in SUBSET Voters : Backs(Q, n, t)
  BY DEF Won, Settled
<1>2. Q \subseteq {m \in Voters : raft[m].term >= t} /\ IsMajority(Q)
  BY <1>1 DEF Backs, Gave, RaftShape
<1> QED BY <1>2, MajorityGrows

\* A node that a majority has granted its lease leads in the latest term that was won.
LEMMA LatestTerm ==
  ASSUME Shape, WonInv, HeardInv, OneWinner, NEW l \in Voters, Leader(l),
         IsMajority({n \in Voters : heard[n] = l}),
         NEW k \in Voters, k # l, Leader(k)
  PROVE  raft[k].term < raft[l].term
<1> DEFINE S == {n \in Voters : heard[n] = l}
           T == {n \in Voters : raft[n].term >= raft[k].term}
<1>1. RaftShape /\ raft[k].term \in Nat /\ raft[l].term \in Nat
  BY DEF Shape, RaftShape
<1>2. IsMajority(T)
  BY <1>1, WonMajority DEF WonInv
<1>3. PICK x \in Voters : x \in S /\ x \in T
  BY <1>2, MajoritiesMeet
<1>4. raft[x].term <= raft[l].term /\ raft[x].term >= raft[k].term /\ raft[x].term \in Nat
  BY <1>1, <1>3 DEF HeardInv, RaftShape
<1>5. raft[k].term # raft[l].term
  BY DEF OneWinner
<1> QED BY <1>1, <1>4, <1>5

\* At most one voter is behind the term of a leader.
LEMMA OneBehind ==
  ASSUME Cardinality(Voters) <= 4, Shape, WonInv, NEW l \in Voters, Leader(l),
         NEW x \in Voters, NEW y \in Voters, raft[x].term < raft[l].term, raft[y].term < raft[l].term
  PROVE  x = y
<1> DEFINE T == {n \in Voters : raft[n].term >= raft[l].term}
<1>1. RaftShape /\ raft[l].term \in Nat /\ raft[x].term \in Nat /\ raft[y].term \in Nat
  BY DEF Shape, RaftShape
<1>2. IsMajority(T)
  BY <1>1, WonMajority DEF WonInv
<1>3. x \notin T /\ y \notin T
  BY <1>1
<1> HIDE DEF T
<1>4. T \in SUBSET Voters
  BY DEF T
<1> QED BY <1>2, <1>3, <1>4, OneLeftOut

\* Nobody that an open leader's majority has heard turns to another leader.
LEMMA OpenHear ==
  ASSUME Cardinality(Voters) <= 4, Shape, WonInv, HeardInv, OneWinner, OpenInv,
         NEW l \in Voters, pg[l].open, NEW m \in Voters, NEW k \in Voters, Hear(m, k)
  PROVE  k = l
<1> SUFFICES ASSUME k # l PROVE FALSE
  OBVIOUS
<1>1. Leader(l) /\ IsMajority({n \in Voters : heard[n] = l})
  BY DEF OpenInv
<1>2. Leader(k) /\ m # k /\ raft[k].term >= raft[m].term
  BY DEF Hear, Leader
<1>3. raft[k].term < raft[l].term
  BY <1>1, <1>2, LatestTerm
<1>4. raft[m].term < raft[l].term
  BY <1>2, <1>3 DEF Shape, RaftShape
<1> QED BY <1>1, <1>2, <1>3, <1>4, OneBehind

\* A server is opened by OpenWrites only.
LEMMA OpenedStep ==
  ASSUME Shape, OpenInv, DurNext, NEW n \in Voters, pg'[n].open, ~OpenWrites(n)
  PROVE  /\ pg[n].open /\ pg'[n].primary
         /\ ~Restart(n) /\ ~LeaseOut(n) /\ \A l \in Voters : ~Hear(n, l)
<1>1. ~Restart(n) /\ ~LeaseOut(n) /\ \A l \in Voters : ~Hear(n, l)
  BY ClosingPg DEF ClosesPg
<1>2. ASSUME NEW c \in Voters, LeaseOut(c) \/ Restart(c) \/ \E l \in Voters : Hear(c, l)
      PROVE  pg'[n].primary = pg[n].primary /\ pg[n].open
  <2>1. c # n
    BY <1>1, <1>2
  <2> QED BY <1>2, <2>1, ClosingPg DEF ClosesPg
<1>3. ASSUME NEW c \in Voters, Promote(c)
      PROVE  pg'[n].primary /\ pg[n].open
  <2>1. CASE c = n
    <3>1. ~pg[n].primary /\ pg'[n].open = pg[n].open
      BY <1>3, <2>1, PromotePg DEF Promote
    <3> QED BY <3>1 DEF OpenInv
  <2>2. CASE c # n
    BY <1>3, <2>2, PromotePg DEF OpenInv
  <2> QED BY <2>1, <2>2
<1>4. ASSUME NEW c \in Voters, LeadFull(c) \/ LeadAsync(c) \/ (OpenWrites(c) /\ c # n)
      PROVE  pg'[n].primary = pg[n].primary /\ pg[n].open
  BY <1>4, LeadPg, OpenPg
<1>5. ASSUME NEW m \in Voters, NEW l \in Voters, Follow(m, l) PROVE pg'[n] = pg[n]
  BY <1>5, FollowPg
<1>6. pg[n].open => pg[n].primary
  BY DEF OpenInv
<1> QED BY <1>1, <1>2, <1>3, <1>4, <1>5, <1>6, PgActions

\* An open server leads, and has its majority's lease.
LEMMA OpenStep ==
  ASSUME Cardinality(Voters) <= 4, Shape, WonInv, HeardInv, OneWinner, OpenInv, DurNext
  PROVE  OpenInv'
<1> SUFFICES ASSUME NEW l \in Voters, pg'[l].open
             PROVE  /\ Leader(l)' /\ pg'[l].primary /\ heard'[l] = l
                    /\ IsMajority({n \in Voters : heard'[n] = l})
  BY DEF OpenInv, IsMajority
<1>0. RaftShape /\ heard \in [Voters -> Voters \cup {None}] /\ None \notin Voters
  BY DurabilityAssumption DEF Shape
<1>1. CASE OpenWrites(l)
  <2>1. /\ raft[l].role = "leader" /\ pg[l].primary /\ heard[l] = l
        /\ IsMajority({n \in Voters : heard[n] = l}) /\ UNCHANGED <<raft, heard>>
    BY <1>1 DEF OpenWrites, Leads
  <2>2. pg'[l].primary = pg[l].primary
    BY <1>1, OpenPg
  <2> QED BY <2>1, <2>2 DEF Leader
<1>2. CASE ~OpenWrites(l)
  <2>1. /\ pg[l].open /\ pg'[l].primary
        /\ ~Restart(l) /\ ~LeaseOut(l) /\ \A k \in Voters : ~Hear(l, k)
    BY <1>2, OpenedStep
  <2>2. Leader(l) /\ heard[l] = l /\ IsMajority({n \in Voters : heard[n] = l})
    BY <2>1 DEF OpenInv
  <2>3. Leader(l)'
    <3>1. ASSUME NEW n \in Voters, Campaign(n) PROVE raft'[l].role = raft[l].role
      <4>1. n # l
        BY <2>2, <3>1 DEF Campaign, Leader
      <4> QED BY <1>0, <3>1, <4>1, CampaignVotes DEF SameVote
    <3>2. ASSUME NEW n \in Voters, TakesTerm(n) PROVE raft'[l].role = "leader"
      BY <1>0, <2>2, <3>2, TakesTermVotes DEF SameVote, Leader
    <3>3. ASSUME NEW n \in Voters, Restart(n) PROVE raft'[l].role = raft[l].role
      BY <1>0, <2>1, <3>3, RestartVotes DEF SameVote
    <3>4. ASSUME NEW m \in Voters, NEW k \in Voters, Hear(m, k) PROVE raft'[l].role = raft[l].role
      BY <1>0, <2>1, <3>4, HearVotes DEF SameVote
    <3>5. ASSUME NEW m \in Voters, NEW a \in asks, AnswerVote(m, a) PROVE raft'[l].role = raft[l].role
      <4>1. m # l
        BY <1>0, <2>2, <3>5 DEF AnswerVote, Shape
      <4>2. Answered(m, a)
        BY <3>5, AnswerVotes
      <4> QED BY <4>1, <4>2 DEF Answered, SameVote
    <3>6. ASSUME NEW n \in Voters, Apply(n) \/ LeadFull(n) \/ LeadAsync(n)
          PROVE  raft'[l].role = raft[l].role
      <4>1. VotesStay
        BY <1>0, <3>6, ApplyVotes, ProposeVotes DEF LeadFull, LeadAsync
      <4> QED BY <4>1 DEF VotesStay, SameVote
    <3> QED BY <2>2, <3>1, <3>2, <3>3, <3>4, <3>5, <3>6, RaftActions DEF Leader
  <2>4. ASSUME NEW n \in Voters, TakesTerm(n)
        PROVE  heard'[l] = l /\ IsMajority({x \in Voters : heard'[x] = l})
    <3>1. heard[n] = None /\ heard' = [heard EXCEPT ![n] = n]
      BY <2>4 DEF TakesTerm, HeardInv
    <3>2. {x \in Voters : heard[x] = l} \subseteq {x \in Voters : heard'[x] = l}
      BY <1>0, <3>1
    <3> QED BY <1>0, <2>2, <3>1, <3>2, MajorityGrows
  <2>5. ASSUME NEW n \in Voters, LeaseOut(n)
        PROVE  heard'[l] = l /\ IsMajority({x \in Voters : heard'[x] = l})
    <3>1. n # l /\ heard' = [heard EXCEPT ![n] = None]
      BY <2>1, <2>5 DEF LeaseOut
    <3>2. CASE heard[n] = l
      <4>1. IsMajority({x \in Voters \ {n} : heard[x] = l})
        BY <2>1, <2>5, <3>1, <3>2 DEF LeaseOut
      <4>2. {x \in Voters \ {n} : heard[x] = l} \subseteq {x \in Voters : heard'[x] = l}
        BY <1>0, <3>1
      <4> QED BY <1>0, <2>2, <3>1, <4>1, <4>2, MajorityGrows
    <3>3. CASE heard[n] # l
      <4>1. {x \in Voters : heard[x] = l} \subseteq {x \in Voters : heard'[x] = l}
        BY <1>0, <3>1, <3>3
      <4> QED BY <1>0, <2>2, <3>1, <4>1, MajorityGrows
    <3> QED BY <3>2, <3>3
  <2>6. ASSUME NEW m \in Voters, NEW k \in Voters, Hear(m, k)
        PROVE  heard'[l] = l /\ IsMajority({x \in Voters : heard'[x] = l})
    <3>1. k = l
      BY <2>1, <2>6, OpenHear
    <3>2. heard' = [heard EXCEPT ![m] = l, ![l] = l]
      BY <2>6, <3>1 DEF Hear
    <3>3. {x \in Voters : heard[x] = l} \subseteq {x \in Voters : heard'[x] = l}
      BY <1>0, <3>2
    <3> QED BY <1>0, <2>2, <3>2, <3>3, MajorityGrows
  <2>7. heard'[l] = l /\ IsMajority({n \in Voters : heard'[n] = l})
    BY <2>2, <2>4, <2>5, <2>6, HeardActions
  <2> QED BY <2>1, <2>3, <2>7
<1> QED BY <1>1, <1>2

-----------------------------------------------------------------------------
(* The WALs: a record stands for the WAL up to it. *)

\* The records of a WAL that grew, and of one that was cut.
Grown(n, t) ==
  /\ \A v \in Voters : \A q \in 1..Len(wal'[v]) :
       \/ q \in 1..Len(wal[v]) /\ wal'[v][q] = wal[v][q]
       \/ v = n /\ q = Len(wal[n]) + 1 /\ wal'[v][q] = t
  /\ \A v \in Voters : \A q \in 1..Len(wal[v]) : q \in 1..Len(wal'[v]) /\ wal'[v][q] = wal[v][q]
Trimmed ==
  \A v \in Voters : \A q \in 1..Len(wal'[v]) : q \in 1..Len(wal[v]) /\ wal'[v][q] = wal[v][q]

LEMMA ExtendsGrown ==
  ASSUME Shape, NEW n \in Voters, NEW t, Extends(n, t) PROVE Grown(n, t)
<1>1. \A v \in Voters : Len(wal[v]) \in Nat
  BY LenProperties DEF Shape
<1>2. ASSUME NEW v \in Voters, v # n PROVE wal'[v] = wal[v]
  BY <1>2 DEF Extends
<1>3. ASSUME NEW q \in 1..Len(wal'[n])
      PROVE  \/ q \in 1..Len(wal[n]) /\ wal'[n][q] = wal[n][q]
             \/ q = Len(wal[n]) + 1 /\ wal'[n][q] = t
  <2>1. q \in 1..Len(wal[n]) \/ q = Len(wal[n]) + 1
    BY <1>1 DEF Extends
  <2> QED BY <2>1 DEF Extends
<1>4. ASSUME NEW q \in 1..Len(wal[n]) PROVE q \in 1..Len(wal'[n]) /\ wal'[n][q] = wal[n][q]
  BY <1>1 DEF Extends
<1> QED BY <1>2, <1>3, <1>4 DEF Grown

LEMMA CutTrimmed ==
  ASSUME Shape, NEW n \in Voters, NEW k, Cut(n, k) PROVE Trimmed
<1>1. \A v \in Voters : Len(wal[v]) \in Nat
  BY LenProperties DEF Shape
<1>2. ASSUME NEW v \in Voters, v # n PROVE wal'[v] = wal[v]
  BY <1>2 DEF Cut
<1>3. ASSUME NEW q \in 1..Len(wal'[n]) PROVE q \in 1..Len(wal[n]) /\ wal'[n][q] = wal[n][q]
  <2>1. q \in 1..k /\ q \in 1..Len(wal[n])
    BY <1>1 DEF Cut
  <2> QED BY <2>1 DEF Cut
<1> QED BY <1>2, <1>3 DEF Trimmed

\* A record that no other WAL has at its position.
LEMMA MatchFresh ==
  ASSUME Shape, MatchInv, NEW n \in Voters, NEW t, Extends(n, t),
         \A m \in Voters \ {n} : Len(wal[n]) + 1 <= Len(wal[m]) => wal[m][Len(wal[n]) + 1] # t
  PROVE  MatchInv'
<1> SUFFICES ASSUME NEW x \in Voters, NEW y \in Voters, NEW p \in 1..Len(wal'[x]),
                    p <= Len(wal'[y]), wal'[x][p] = wal'[y][p], NEW q \in 1..p
             PROVE  wal'[x][q] = wal'[y][q]
  BY DEF MatchInv
<1>1. Grown(n, t) /\ \A v \in Voters : Len(wal[v]) \in Nat /\ Len(wal'[v]) \in Nat
  BY ExtendsGrown, LenProperties DEF Shape, Extends
<1>2. q \in 1..Len(wal'[x]) /\ p \in 1..Len(wal'[y]) /\ q \in 1..Len(wal'[y])
  BY <1>1
<1>3. CASE p \in 1..Len(wal[x]) /\ wal'[x][p] = wal[x][p] /\ p \in 1..Len(wal[y]) /\ wal'[y][p] = wal[y][p]
  <2>1. wal[x][q] = wal[y][q]
    <3>1. wal[x][p] = wal[y][p] /\ p \in 1..Len(wal[x]) /\ p \in 1..Len(wal[y])
      BY <1>3, Zenon
    <3>2. p <= Len(wal[y])
      BY <3>1, <1>1
    <3> QED BY <3>1, <3>2 DEF MatchInv
  <2>2. q \in 1..Len(wal[x]) /\ q \in 1..Len(wal[y])
    BY <1>1, <1>3
  <2>3. wal'[x][q] = wal[x][q] /\ wal'[y][q] = wal[y][q]
    BY <1>1, <2>2 DEF Grown
  <2> QED BY <2>1, <2>3
<1>4. CASE x = y
  BY <1>4
<1>5. CASE x = n /\ p = Len(wal[n]) + 1 /\ wal'[x][p] = t /\ y # n
  BY <1>1, <1>2, <1>5 DEF Grown
<1>6. CASE y = n /\ p = Len(wal[n]) + 1 /\ wal'[y][p] = t /\ x # n
  BY <1>1, <1>2, <1>6 DEF Grown
<1> QED BY <1>1, <1>2, <1>3, <1>4, <1>5, <1>6 DEF Grown

\* A record copied with all that precedes it.
LEMMA MatchCopy ==
  ASSUME Shape, MatchInv, NEW n \in Voters, NEW l \in Voters, n # l,
         Len(wal[n]) < Len(wal[l]), \A q \in 1..Len(wal[n]) : wal[n][q] = wal[l][q],
         Extends(n, wal[l][Len(wal[n]) + 1])
  PROVE  MatchInv'
<1> SUFFICES ASSUME NEW x \in Voters, NEW y \in Voters, NEW p \in 1..Len(wal'[x]),
                    p <= Len(wal'[y]), wal'[x][p] = wal'[y][p], NEW q \in 1..p
             PROVE  wal'[x][q] = wal'[y][q]
  BY DEF MatchInv
<1>1. \A v \in Voters : Len(wal[v]) \in Nat
  BY LenProperties DEF Shape
<1>2. Len(wal'[n]) <= Len(wal[l]) /\ \A k \in 1..Len(wal'[n]) : wal'[n][k] = wal[l][k]
  <2>1. Grown(n, wal[l][Len(wal[n]) + 1]) /\ Len(wal'[n]) = Len(wal[n]) + 1
    BY ExtendsGrown DEF Extends
  <2>2. Len(wal'[n]) <= Len(wal[l])
    BY <1>1, <2>1
  <2>3. ASSUME NEW k \in 1..Len(wal'[n]) PROVE wal'[n][k] = wal[l][k]
    <3>1. CASE k \in 1..Len(wal[n]) /\ wal'[n][k] = wal[n][k]
      BY <3>1
    <3>2. CASE k = Len(wal[n]) + 1 /\ wal'[n][k] = wal[l][Len(wal[n]) + 1]
      BY <3>2
    <3> QED BY <2>1, <3>1, <3>2 DEF Grown
  <2> QED BY <2>2, <2>3
<1>3. \A v \in Voters \ {n} : wal'[v] = wal[v]
  BY DEF Extends
<1>4. Len(wal'[n]) \in Nat
  BY <1>1 DEF Extends
<1>5. CASE x = y
  BY <1>5
<1>6. CASE x # n /\ y # n
  <2>1. wal'[x] = wal[x] /\ wal'[y] = wal[y]
    BY <1>3, <1>6
  <2>2. p \in 1..Len(wal[x]) /\ p <= Len(wal[y]) /\ wal[x][p] = wal[y][p]
    BY <2>1
  <2>3. wal[x][q] = wal[y][q]
    BY <2>2 DEF MatchInv
  <2> QED BY <2>1, <2>3
<1>7. CASE x = n /\ y # n
  <2>1. p \in 1..Len(wal[l]) /\ p \in 1..Len(wal'[n]) /\ q \in 1..Len(wal'[n])
    BY <1>1, <1>2, <1>4, <1>7
  <2>2. p <= Len(wal[y]) /\ wal[l][p] = wal[y][p]
    BY <1>2, <1>3, <1>7, <2>1
  <2>3. wal[l][q] = wal[y][q]
    BY <2>1, <2>2 DEF MatchInv
  <2> QED BY <1>2, <1>3, <1>7, <2>1, <2>3
<1>8. CASE x # n /\ y = n
  <2>1. p \in 1..Len(wal[x]) /\ p <= Len(wal[l]) /\ p \in 1..Len(wal'[n]) /\ q \in 1..Len(wal'[n])
    BY <1>1, <1>2, <1>3, <1>4, <1>8
  <2>2. wal[x][p] = wal[l][p]
    BY <1>2, <1>3, <1>8, <2>1
  <2>3. wal[x][q] = wal[l][q]
    BY <2>1, <2>2 DEF MatchInv
  <2> QED BY <1>2, <1>3, <1>8, <2>1, <2>3
<1> QED BY <1>5, <1>6, <1>7, <1>8

\* A WAL that is cut still matches the others.
LEMMA MatchCut ==
  ASSUME Shape, MatchInv, NEW n \in Voters, NEW k, Cut(n, k)
  PROVE  MatchInv'
<1>1. \A v \in Voters : Len(wal[v]) \in Nat
  BY LenProperties DEF Shape
<1>2. \A v \in Voters : Len(wal'[v]) \in Nat /\ Len(wal'[v]) <= Len(wal[v])
                        /\ \A q \in 1..Len(wal'[v]) : wal'[v][q] = wal[v][q]
  BY <1>1 DEF Cut
<1> SUFFICES ASSUME NEW x \in Voters, NEW y \in Voters, NEW p \in 1..Len(wal'[x]),
                    p <= Len(wal'[y]), wal'[x][p] = wal'[y][p], NEW q \in 1..p
             PROVE  wal'[x][q] = wal'[y][q]
  BY DEF MatchInv
<1>3. /\ p \in 1..Len(wal'[y]) /\ q \in 1..Len(wal'[x]) /\ q \in 1..Len(wal'[y])
      /\ p \in 1..Len(wal[x]) /\ p <= Len(wal[y])
  BY <1>1, <1>2
<1>4. wal[x][p] = wal[y][p]
  BY <1>2, <1>3
<1>5. wal[x][q] = wal[y][q]
  BY <1>3, <1>4 DEF MatchInv
<1> QED BY <1>2, <1>3, <1>5

\* A prefix, record by record.
LEMMA PrefixIs ==
  ASSUME NEW s \in Seq(Nat), NEW t \in Seq(Nat), IsPrefix(s, t)
  PROVE  Len(s) <= Len(t) /\ \A q \in 1..Len(s) : s[q] = t[q]
BY DEF IsPrefix

\* What every WAL keeps and gains in a step.
StreamSource(m, l) ==
  /\ l \in Voters /\ m # l /\ ~pg[m].primary /\ Len(wal[m]) < Len(wal[l])
  /\ \A q \in 1..Len(wal[m]) : wal[m][q] = wal[l][q]
  /\ Extends(m, wal[l][Len(wal[m]) + 1])

\* Where the streamed record comes from.
LEMMA StreamFrom ==
  ASSUME Shape, NEW m \in Voters, Stream(m) PROVE \E l \in Voters : StreamSource(m, l)
<1> DEFINE l == pg[m].follows
<1>1. /\ l \in Voters /\ m # l /\ ~pg[m].primary
      /\ IsPrefix(wal[m], wal[l]) /\ Len(wal[m]) < Len(wal[l])
      /\ Extends(m, wal[l][Len(wal[m]) + 1])
  BY StreamWal
<1> HIDE DEF l
<1>2. wal[m] \in Seq(Nat) /\ wal[l] \in Seq(Nat)
  BY <1>1 DEF Shape
<1>3. \A q \in 1..Len(wal[m]) : wal[m][q] = wal[l][q]
  BY <1>1, <1>2, PrefixIs
<1> QED BY <1>1, <1>3 DEF StreamSource

\* A record stands for the WAL up to it.
LEMMA MatchStep ==
  ASSUME Shape, OpenInv, MatchInv, OwnInv, FreshInv, DurNext PROVE MatchInv'
<1>0. \A v \in Voters : Len(wal[v]) \in Nat
  BY LenProperties DEF Shape
<1>1. ASSUME NEW n \in Voters, Write(n) PROVE MatchInv'
  <2>1. pg[n].primary /\ Extends(n, pg[n].tl)
    BY <1>1, WriteWal DEF Write, OpenInv
  <2>2. ASSUME NEW m \in Voters \ {n}, Len(wal[n]) + 1 <= Len(wal[m]),
               wal[m][Len(wal[n]) + 1] = pg[n].tl
        PROVE  FALSE
    <3>1. Len(wal[n]) + 1 \in 1..Len(wal[m])
      BY <1>0, <2>2
    <3> QED BY <1>0, <2>1, <2>2, <3>1 DEF OwnInv
  <2> QED BY <2>1, <2>2, MatchFresh
<1>2. ASSUME NEW n \in Voters, Promote(n) PROVE MatchInv'
  <2>1. ~pg[n].primary /\ Leader(n) /\ Extends(n, raft[n].term)
    BY <1>2, PromoteWal DEF Promote, Leader
  <2>2. ASSUME NEW m \in Voters \ {n}, Len(wal[n]) + 1 <= Len(wal[m]),
               wal[m][Len(wal[n]) + 1] = raft[n].term
        PROVE  FALSE
    <3>1. Len(wal[n]) + 1 \in 1..Len(wal[m])
      BY <1>0, <2>2
    <3> QED BY <2>1, <2>2, <3>1 DEF FreshInv
  <2> QED BY <2>1, <2>2, MatchFresh
<1>3. ASSUME NEW n \in Voters, Stream(n) PROVE MatchInv'
  <2>1. PICK l \in Voters : StreamSource(n, l)
    BY <1>3, StreamFrom
  <2> QED BY <2>1, MatchCopy DEF StreamSource
<1>4. ASSUME NEW m \in Voters, NEW l \in Voters, Follow(m, l) PROVE MatchInv'
  BY <1>4, FollowWal, MatchCut
<1>5. ASSUME UNCHANGED wal PROVE MatchInv'
  BY <1>5 DEF MatchInv
<1> QED BY <1>1, <1>2, <1>3, <1>4, <1>5, WalActions

\* A primary holds every record of its timeline.
LEMMA OwnStep ==
  ASSUME Shape, OneWinner, OpenInv, OwnInv, FreshInv, DurNext PROVE OwnInv'
<1>0. \A v \in Voters : Len(wal[v]) \in Nat
  BY LenProperties DEF Shape
<1> SUFFICES ASSUME NEW l \in Voters, NEW n \in Voters, NEW q \in 1..Len(wal'[n]),
                    pg'[l].primary, wal'[n][q] = pg'[l].tl
             PROVE  q <= Len(wal'[l]) /\ wal'[l][q] = pg'[l].tl
  BY DEF OwnInv
<1>1. ASSUME NEW x \in Voters, Promote(x) PROVE q <= Len(wal'[l]) /\ wal'[l][q] = pg'[l].tl
  <2>1. ~pg[x].primary /\ Leader(x) /\ Extends(x, raft[x].term)
    BY <1>1, PromoteWal DEF Promote, Leader
  <2>2. pg'[x].tl = raft[x].term /\ \A y \in Voters \ {x} : pg'[y] = pg[y]
    BY <1>1, PromotePg
  <2>3. CASE l = x
    <3>1. \A y \in Voters : \A k \in 1..Len(wal[y]) : wal[y][k] # raft[x].term
      BY <2>1 DEF FreshInv
    <3>2. n = x /\ q = Len(wal[x]) + 1
      <4>1. wal'[n][q] = raft[x].term
        BY <2>2, <2>3
      <4>2. Grown(x, raft[x].term)
        BY <2>1, ExtendsGrown
      <4> QED BY <3>1, <4>1, <4>2 DEF Grown
    <3>3. Len(wal'[x]) \in Nat
      BY <1>0, <2>1 DEF Extends
    <3> QED BY <2>2, <2>3, <3>2, <3>3
  <2>4. CASE l # x
    <3>1. pg[l].primary /\ pg'[l].tl = pg[l].tl /\ wal'[l] = wal[l] /\ pg[l].tl # raft[x].term
      BY <2>1, <2>2, <2>4 DEF Extends, OneWinner
    <3>2. q \in 1..Len(wal[n]) /\ wal[n][q] = pg[l].tl
      <4>1. Grown(x, raft[x].term)
        BY <2>1, ExtendsGrown
      <4>2. wal'[n][q] # raft[x].term
        BY <3>1
      <4> QED BY <3>1, <4>1, <4>2 DEF Grown
    <3> QED BY <3>1, <3>2 DEF OwnInv
  <2> QED BY <2>3, <2>4
<1>2. CASE ~\E x \in Voters : Promote(x)
  <2>1. pg[l].primary /\ pg'[l].tl = pg[l].tl
    BY <1>2, PrimaryStep
  <2>2. ASSUME NEW x \in Voters, Write(x) PROVE q <= Len(wal'[l]) /\ wal'[l][q] = pg'[l].tl
    <3>1. pg[x].primary /\ Extends(x, pg[x].tl)
      BY <2>2, WriteWal DEF Write, OpenInv
    <3>2. CASE n = x /\ q = Len(wal[x]) + 1
      <4>1. pg[x].tl = pg[l].tl
        BY <2>1, <3>1, <3>2 DEF Extends
      <4>2. l = x
        BY <2>1, <3>1, <4>1 DEF OneWinner
      <4> QED BY <3>2, <4>2
    <3>3. CASE ~(n = x /\ q = Len(wal[x]) + 1)
      <4>0. Grown(x, pg[x].tl)
        BY <3>1, ExtendsGrown
      <4>1. q \in 1..Len(wal[n]) /\ wal[n][q] = pg[l].tl
        BY <2>1, <3>3, <4>0 DEF Grown
      <4>2. q \in 1..Len(wal[l]) /\ wal[l][q] = pg[l].tl
        BY <1>0, <2>1, <4>1 DEF OwnInv
      <4>3. q \in 1..Len(wal'[l]) /\ wal'[l][q] = pg[l].tl
        BY <4>0, <4>2 DEF Grown
      <4> QED BY <2>1, <4>3
    <3> QED BY <3>2, <3>3
  <2>3. ASSUME NEW x \in Voters, Stream(x) PROVE q <= Len(wal'[l]) /\ wal'[l][q] = pg'[l].tl
    <3>1. PICK y \in Voters : StreamSource(x, y)
      BY <2>3, StreamFrom
    <3>2. l # x /\ wal'[l] = wal[l]
      BY <2>1, <3>1 DEF StreamSource, Extends
    <3>3. CASE n = x /\ q = Len(wal[x]) + 1
      <4>1. q \in 1..Len(wal[y]) /\ wal[y][q] = pg[l].tl
        BY <1>0, <2>1, <3>1, <3>3 DEF StreamSource, Extends
      <4> QED BY <2>1, <3>2, <4>1 DEF OwnInv
    <3>4. CASE ~(n = x /\ q = Len(wal[x]) + 1)
      <4>1. q \in 1..Len(wal[n]) /\ wal[n][q] = pg[l].tl
        BY <2>1, <3>1, <3>4, ExtendsGrown DEF StreamSource, Grown
      <4> QED BY <2>1, <3>2, <4>1 DEF OwnInv
    <3> QED BY <3>3, <3>4
  <2>4. ASSUME NEW x \in Voters, NEW y \in Voters, Follow(x, y)
        PROVE  q <= Len(wal'[l]) /\ wal'[l][q] = pg'[l].tl
    <3>1. Cut(x, Common(x, y)) /\ ~pg'[x].primary
      BY <2>4, FollowWal, FollowPg
    <3>2. wal'[l] = wal[l]
      BY <3>1 DEF Cut
    <3>3. q \in 1..Len(wal[n]) /\ wal[n][q] = pg[l].tl
      BY <2>1, <3>1, CutTrimmed DEF Trimmed
    <3> QED BY <2>1, <3>2, <3>3 DEF OwnInv
  <2>5. ASSUME UNCHANGED wal PROVE q <= Len(wal'[l]) /\ wal'[l][q] = pg'[l].tl
    BY <2>1, <2>5 DEF OwnInv
  <2> QED BY <1>2, <2>2, <2>3, <2>4, <2>5, WalActions
<1> QED BY <1>1, <1>2

\* Where a record of a step's WALs comes from.
LEMMA RecordStep ==
  ASSUME Shape, OpenInv, DurNext, NEW n \in Voters, NEW q \in 1..Len(wal'[n])
  PROVE  \/ \E y \in Voters : q \in 1..Len(wal[y]) /\ wal[y][q] = wal'[n][q]
         \/ Write(n) /\ pg[n].primary /\ wal'[n][q] = pg[n].tl
         \/ Promote(n) /\ wal'[n][q] = raft[n].term
<1>0. \A v \in Voters : Len(wal[v]) \in Nat
  BY LenProperties DEF Shape
<1>1. ASSUME NEW x \in Voters, NEW t, Extends(x, t)
      PROVE  (q \in 1..Len(wal[n]) /\ wal[n][q] = wal'[n][q])
             \/ (n = x /\ q = Len(wal[x]) + 1 /\ wal'[n][q] = t)
  BY <1>1, ExtendsGrown DEF Grown
<1>2. ASSUME NEW x \in Voters, Write(x)
      PROVE  (q \in 1..Len(wal[n]) /\ wal[n][q] = wal'[n][q])
             \/ (Write(n) /\ pg[n].primary /\ wal'[n][q] = pg[n].tl)
  BY <1>1, <1>2, WriteWal DEF Write, OpenInv
<1>3. ASSUME NEW x \in Voters, Promote(x)
      PROVE  (q \in 1..Len(wal[n]) /\ wal[n][q] = wal'[n][q]) \/ (Promote(n) /\ wal'[n][q] = raft[n].term)
  BY <1>1, <1>3, PromoteWal
<1>4. ASSUME NEW x \in Voters, Stream(x)
      PROVE  \E y \in Voters : q \in 1..Len(wal[y]) /\ wal[y][q] = wal'[n][q]
  <2>1. PICK l \in Voters : StreamSource(x, l)
    BY <1>4, StreamFrom
  <2>2. CASE n = x /\ q = Len(wal[x]) + 1 /\ wal'[n][q] = wal[l][Len(wal[x]) + 1]
    <3>1. q \in 1..Len(wal[l])
      BY <1>0, <2>1, <2>2 DEF StreamSource
    <3> QED BY <2>2, <3>1
  <2> QED BY <1>1, <2>1, <2>2 DEF StreamSource
<1>5. ASSUME NEW x \in Voters, NEW y \in Voters, Follow(x, y)
      PROVE  q \in 1..Len(wal[n]) /\ wal[n][q] = wal'[n][q]
  BY <1>5, FollowWal, CutTrimmed DEF Trimmed
<1> QED BY <1>2, <1>3, <1>4, <1>5, WalActions

\* There is no record of a leader's term before it is promoted.
LEMMA FreshStep ==
  ASSUME Shape, WonInv, OneWinner, OpenInv, FreshInv, TimelineInv, DurNext PROVE FreshInv'
<1> SUFFICES ASSUME NEW l \in Voters, NEW n \in Voters, NEW q \in 1..Len(wal'[n]),
                    Leader(l)', wal'[n][q] = raft'[l].term
             PROVE  pg'[l].primary /\ pg'[l].tl = raft'[l].term
  BY DEF FreshInv
<1>1. CASE TakesTerm(l)
  <2>1. UNCHANGED wal /\ raft'[l].term = raft[l].term
    BY <1>1, TakesTermVotes DEF TakesTerm, Shape
  <2>2. \E x \in Voters : Won(x, raft[l].term)
    BY <2>1 DEF TimelineInv
  <2> QED BY <1>1, <2>2, TermIsNew
<1>2. CASE ~TakesTerm(l)
  <2>1. Leader(l) /\ raft'[l].term = raft[l].term
    BY <1>2, RoleStep DEF RoleMoves
  <2>2. ASSUME pg[l].primary, pg[l].tl = raft[l].term
        PROVE  pg'[l].primary /\ pg'[l].tl = raft'[l].term
    <3>1. ASSUME NEW c \in Voters, LeaseOut(c) \/ Restart(c) \/ \E k \in Voters : Hear(c, k)
          PROVE  pg'[l].primary = pg[l].primary /\ pg'[l].tl = pg[l].tl
      BY <3>1, ClosingPg DEF ClosesPg
    <3>2. ASSUME NEW c \in Voters, Promote(c) PROVE pg'[l] = pg[l]
      <4>1. c # l
        BY <2>2, <3>2 DEF Promote
      <4> QED BY <3>2, <4>1, PromotePg
    <3>3. ASSUME NEW c \in Voters, LeadFull(c) \/ LeadAsync(c) \/ OpenWrites(c)
          PROVE  pg'[l].primary = pg[l].primary /\ pg'[l].tl = pg[l].tl
      BY <3>3, LeadPg, OpenPg
    <3>4. ASSUME NEW m \in Voters, NEW k \in Voters, Follow(m, k) PROVE pg'[l] = pg[l]
      <4>1. m # l
        BY <2>1, <3>4 DEF Follow, Leader
      <4> QED BY <3>4, <4>1, FollowPg
    <3> QED BY <2>1, <2>2, <3>1, <3>2, <3>3, <3>4, PgActions
  <2>3. ASSUME NEW y \in Voters, q \in 1..Len(wal[y]), wal[y][q] = wal'[n][q]
        PROVE  pg'[l].primary /\ pg'[l].tl = raft'[l].term
    BY <2>1, <2>2, <2>3 DEF FreshInv
  <2>4. CASE Write(n) /\ pg[n].primary /\ wal'[n][q] = pg[n].tl
    <3>1. n = l
      BY <2>1, <2>4 DEF OneWinner
    <3> QED BY <2>1, <2>2, <2>4, <3>1
  <2>5. CASE Promote(n) /\ wal'[n][q] = raft[n].term
    <3>1. Leader(n) /\ raft[n].term = raft[l].term
      BY <2>1, <2>5 DEF Promote, Leader
    <3>2. n = l
      BY <2>1, <3>1 DEF OneWinner
    <3> QED BY <2>1, <2>5, <3>2, PromotePg
  <2> QED BY <2>3, <2>4, <2>5, RecordStep
<1> QED BY <1>1, <1>2

\* Every timeline was won by somebody.
LEMMA TimelineStep ==
  ASSUME Shape, WonInv, OpenInv, TimelineInv, DurNext PROVE TimelineInv'
<1>1. RaftShape /\ RaftShape' /\ VotesAdvance
  BY RaftStep DEF Shape
<1>2. Shape'
  BY ShapeStep
<1> SUFFICES ASSUME NEW n \in Voters, NEW q \in 1..Len(wal'[n])
             PROVE  \E x \in Voters : Won(x, wal[n][q])'
  BY DEF TimelineInv
<1>3. wal'[n][q] \in Nat
  BY <1>2, ElementOfSeq DEF Shape
<1>4. ASSUME NEW t \in Nat, NEW x \in Voters, Won(x, t) PROVE Won(x, t)'
  BY <1>1, <1>4, WonStays
<1>5. \E x \in Voters : Won(x, wal'[n][q])
  <2>1. CASE Promote(n) /\ wal'[n][q] = raft[n].term
    BY <2>1 DEF Promote, Leader, WonInv
  <2>2. CASE pg[n].primary /\ wal'[n][q] = pg[n].tl
    BY <2>2 DEF WonInv
  <2>3. ASSUME NEW y \in Voters, q \in 1..Len(wal[y]), wal[y][q] = wal'[n][q]
        PROVE  \E x \in Voters : Won(x, wal'[n][q])
    BY <2>3 DEF TimelineInv
  <2> QED BY <2>1, <2>2, <2>3, RecordStep
<1> QED BY <1>3, <1>4, <1>5

\* Terms, campaigns and timelines stay within their bounds.
LEMMA BoundStep ==
  ASSUME Shape, OpenInv, BoundInv, DurNext PROVE BoundInv'
<1>0. RaftShape /\ RaftShape' /\ VotesAdvance
  BY RaftStep DEF Shape
<1>t. \A n \in Voters : raft[n].term \in Nat /\ raft'[n].term \in Nat /\ raft'[n].term >= raft[n].term
  BY <1>0 DEF RaftShape, VotesAdvance
<1>1. ASSUME NEW n \in Voters, raft'[n].term # raft[n].term PROVE raft'[n].term = 1 \/ raft'[n].term <= MaxTerm
  <2>1. ASSUME NEW c \in Voters, Campaign(c) PROVE raft'[n].term <= MaxTerm
    <3>1. n = c
      BY <1>0, <1>1, <2>1, CampaignVotes DEF SameVote
    <3>2. raft'[n].term = raft[n].term + 1 /\ raft[n].term < MaxTerm
      BY <1>0, <2>1, <3>1, CampaignVotes DEF Campaign
    <3> QED BY <1>t, <3>2, DurabilityAssumption
  <2>2. ASSUME NEW c \in Voters, TakesTerm(c) \/ Restart(c) PROVE FALSE
    BY <1>0, <1>1, <2>2, TakesTermVotes, RestartVotes DEF SameVote
  <2>3. ASSUME NEW c \in Voters, Apply(c) \/ LeadFull(c) \/ LeadAsync(c) PROVE FALSE
    <3>1. VotesStay
      BY <1>0, <2>3, ApplyVotes, ProposeVotes DEF LeadFull, LeadAsync
    <3> QED BY <1>1, <3>1 DEF VotesStay, SameVote
  <2>4. ASSUME NEW m \in Voters, NEW l \in Voters, Hear(m, l) PROVE raft'[n].term = raft[l].term
    BY <1>0, <1>1, <2>4, HearVotes DEF SameVote
  <2>5. ASSUME NEW m \in Voters, NEW a \in asks, AnswerVote(m, a) PROVE raft'[n].term = a.term
    <3>1. Answered(m, a)
      BY <2>5, AnswerVotes
    <3> QED BY <1>1, <3>1 DEF Answered, SameVote
  <2> QED BY <1>1, <2>1, <2>2, <2>3, <2>4, <2>5, RaftActions DEF BoundInv
<1>2. ASSUME NEW n \in Voters, raft'[n].role = "candidate" PROVE raft'[n].term > 1
  <2>1. CASE Campaign(n)
    BY <1>0, <1>t, <2>1, CampaignVotes DEF BoundInv
  <2>2. CASE ~Campaign(n)
    BY <1>2, <2>2, RoleStep DEF RoleMoves, BoundInv
  <2> QED BY <2>1, <2>2
<1>3. ASSUME NEW n \in Voters
      PROVE  raft'[n].term >= 1 /\ (raft'[n].term = 1 \/ raft'[n].term <= MaxTerm)
  BY <1>1, <1>t DEF BoundInv
<1>4. ASSUME NEW a \in asks' PROVE a.term > 1 /\ a.term <= MaxTerm
  <2>1. ASSUME NEW n \in Voters, Ask(n), a \notin asks PROVE a.term > 1 /\ a.term <= MaxTerm
    <3>1. a.term = raft[n].term /\ raft[n].role = "candidate"
      BY <2>1 DEF Ask
    <3> QED BY <1>t, <3>1 DEF BoundInv
  <2>2. ASSUME NEW m \in Voters, NEW c \in asks, ReadGate(m, c) PROVE a.term > 1 /\ a.term <= MaxTerm
    BY <2>2, AsksRead DEF BoundInv
  <2>3. a \in asks \/ (\E n \in Voters : Ask(n)) \/ \E m \in Voters, c \in asks : ReadGate(m, c)
    BY AskActions
  <2> QED BY <2>1, <2>2, <2>3 DEF BoundInv
<1>5. ASSUME NEW n \in Voters, pg'[n].primary PROVE pg'[n].tl >= 1
  <2>1. CASE Promote(n)
    BY <2>1, PromotePg DEF BoundInv
  <2>2. CASE ~Promote(n)
    BY <1>5, <2>2, PrimaryStep DEF BoundInv
  <2> QED BY <2>1, <2>2
<1>6. ASSUME NEW n \in Voters, NEW q \in 1..Len(wal'[n]) PROVE wal'[n][q] >= 1
  <2>1. ASSUME NEW y \in Voters, q \in 1..Len(wal[y]), wal[y][q] = wal'[n][q] PROVE wal'[n][q] >= 1
    BY <2>1 DEF BoundInv
  <2> QED BY <2>1, RecordStep DEF BoundInv
<1> QED BY <1>2, <1>3, <1>4, <1>5, <1>6 DEF BoundInv

-----------------------------------------------------------------------------
(* Acknowledged records. *)

\* What a standby discards to follow a leader is behind every acknowledged record
\* it holds: the leader holds it too, and a record stands for all that precedes it.
LEMMA FollowKeeps ==
  ASSUME Cardinality(Voters) <= 4, Shape, HeardInv, MatchInv, CurrentInv,
         NEW m \in Voters, NEW l \in Voters, Follow(m, l), NEW r \in acked, Holds(m, r)
  PROVE  r[1] <= Common(m, l)
<1>1. Leader(l) /\ m # l /\ heard[m] = l
  BY DEF Follow, Leader
<1>2. /\ wal[m] \in Seq(Nat) /\ wal[l] \in Seq(Nat) /\ Len(wal[m]) \in Nat /\ Len(wal[l]) \in Nat
      /\ r[1] \in Nat \ {0} /\ raft[m].term \in Nat /\ raft[l].term \in Nat
  BY LenProperties DEF Shape, RaftShape
<1>3. ~Superseded(l)
  <2> DEFINE S == {x \in Voters : raft[x].term > raft[l].term}
  <2>1. raft[m].term <= raft[l].term
    BY <1>1 DEF HeardInv
  <2>2. m \notin S /\ l \notin S
    BY <1>2, <2>1
  <2> SUFFICES ASSUME IsMajority(S) PROVE FALSE
    BY DEF Superseded
  <2>3. S \in SUBSET Voters
    OBVIOUS
  <2> HIDE DEF S
  <2> QED BY <1>1, <2>2, <2>3, OneLeftOut
<1>4. Holds(l, r)
  BY <1>1, <1>3 DEF CurrentInv
<1> DEFINE p == r[1]
<1>5. p <= Len(wal[m]) /\ p <= Len(wal[l]) /\ wal[m][p] = wal[l][p]
  BY <1>4 DEF Holds
<1>6. p \in 1..Len(wal[m]) /\ p \in 0..Len(wal[m]) /\ p \in 1..Len(wal[l])
  BY <1>2, <1>5
<1>7. \A q \in 1..p : wal[m][q] = wal[l][q]
  BY <1>5, <1>6 DEF MatchInv
<1> HIDE DEF p
<1>8. SubSeq(wal[m], 1, p) = SubSeq(wal[l], 1, p)
  <2>1. /\ SubSeq(wal[m], 1, p) \in Seq(Nat) /\ Len(SubSeq(wal[m], 1, p)) = p
        /\ SubSeq(wal[l], 1, p) \in Seq(Nat) /\ Len(SubSeq(wal[l], 1, p)) = p
        /\ \A q \in 1..p : SubSeq(wal[m], 1, p)[q] = wal[m][q]
        /\ \A q \in 1..p : SubSeq(wal[l], 1, p)[q] = wal[l][q]
    <3>1. ASSUME NEW s \in Seq(Nat), p \in 1..Len(s)
          PROVE  /\ SubSeq(s, 1, p) \in Seq(Nat) /\ Len(SubSeq(s, 1, p)) = p
                 /\ \A q \in 1..p : SubSeq(s, 1, p)[q] = s[q]
      BY <1>2, <3>1, SubSeqProperties DEF p
    <3> QED BY <1>2, <1>6, <3>1
  <2>2. \A q \in 1..p : SubSeq(wal[m], 1, p)[q] = SubSeq(wal[l], 1, p)[q]
    BY <1>7, <2>1
  <2> QED BY <2>1, <2>2, SeqEqual
<1>9. p <= Common(m, l)
  BY <1>2, <1>5, <1>6, <1>8, CommonIs
<1> QED BY <1>9 DEF p

\* Nobody loses an acknowledged record that it holds.
LEMMA HoldsKept ==
  ASSUME Cardinality(Voters) <= 4, Shape, HeardInv, MatchInv, CurrentInv, DurNext,
         NEW n \in Voters, NEW r \in acked, Holds(n, r)
  PROVE  Holds(n, r)'
<1>0. \A v \in Voters : Len(wal[v]) \in Nat /\ Len(wal'[v]) \in Nat
  BY ShapeStep, LenProperties DEF Shape
<1>1. r[1] \in 1..Len(wal[n]) /\ wal[n][r[1]] = r[2] /\ r[1] \in Nat \ {0}
  BY <1>0 DEF Shape, Holds
<1>2. ASSUME NEW x \in Voters, NEW t, Extends(x, t) PROVE Holds(n, r)'
  <2>1. r[1] \in 1..Len(wal'[n]) /\ wal'[n][r[1]] = r[2]
    BY <1>1, <1>2, ExtendsGrown DEF Grown
  <2> QED BY <1>0, <2>1 DEF Holds
<1>3. ASSUME NEW x \in Voters, Promote(x) \/ Write(x) \/ Stream(x) PROVE Holds(n, r)'
  <2>1. \E t : Extends(x, t)
    BY <1>3, PromoteWal, WriteWal, StreamWal
  <2> QED BY <1>2, <2>1
<1>4. ASSUME NEW m \in Voters, NEW l \in Voters, Follow(m, l) PROVE Holds(n, r)'
  <2>1. Cut(m, Common(m, l))
    BY <1>4, FollowWal
  <2>2. CASE n = m
    <3>1. r[1] <= Common(m, l)
      BY <1>4, <2>2, FollowKeeps
    <3>2. Len(wal'[m]) = Common(m, l) /\ \A q \in 1..Common(m, l) : wal'[m][q] = wal[m][q]
      BY <2>1 DEF Cut
    <3>3. r[1] \in 1..Common(m, l)
      BY <1>0, <1>1, <3>1, <3>2
    <3> QED BY <1>1, <2>2, <3>1, <3>2, <3>3 DEF Holds
  <2>3. CASE n # m
    BY <2>1, <2>3 DEF Cut, Holds
  <2> QED BY <2>2, <2>3
<1>5. ASSUME UNCHANGED wal PROVE Holds(n, r)'
  BY <1>5 DEF Holds
<1> QED BY <1>3, <1>4, <1>5, WalActions

\* Two who hold a record keep it, and stay outside a set that does not grow.
LEMMA OutsideKept ==
  ASSUME Cardinality(Voters) <= 4, Shape, HeardInv, MatchInv, CurrentInv, DurNext,
         NEW r \in acked, NEW S, HeldOutside(S, r)
  PROVE  HeldOutside(S, r)'
<1>1. PICK x \in Voters \ S, y \in Voters \ S : x # y /\ Holds(x, r) /\ Holds(y, r)
  BY DEF HeldOutside
<1>2. Holds(x, r)' /\ Holds(y, r)'
  BY <1>1, HoldsKept
<1> QED BY <1>1, <1>2 DEF HeldOutside

\* The record that is acknowledged is held by the open leader and by a standby.
LEMMA AckedHeld ==
  ASSUME Shape, OpenInv, NEW l \in Voters, NEW p \in 1..MaxWal, CommitAcked(l, p)
  PROVE  /\ acked' = acked \cup {<<p, wal[l][p]>>}
         /\ UNCHANGED <<raft, wal>>
         /\ Leader(l) /\ heard[l] = l /\ IsMajority({n \in Voters : heard[n] = l})
         /\ Holds(l, <<p, wal[l][p]>>)
         /\ \E m \in Voters \ {l} : Holds(m, <<p, wal[l][p]>>)
<1>1. /\ pg[l].open /\ p <= Len(wal[l]) /\ pg[l].list = "full" /\ UNCHANGED <<raft, wal>>
      /\ Cardinality({m \in Streaming(l) : Len(wal[m]) >= p}) >= Required
      /\ acked' = acked \cup {<<p, wal[l][p]>>}
  BY DEF CommitAcked
<1> DEFINE S == {m \in Streaming(l) : Len(wal[m]) >= p}
<1>2. Required > 0 /\ Required \in Nat
  BY <1>1, RequiredType DEF Shape
<1>3. S # {}
  <2> SUFFICES ASSUME S = {} PROVE FALSE
    OBVIOUS
  <2>1. Cardinality(S) = 0
    BY FS_EmptySet
  <2> HIDE DEF S
  <2>2. Cardinality(S) >= Required
    BY <1>1 DEF S
  <2> QED BY <1>2, <2>1, <2>2
<1>4. PICK m \in S : TRUE
  BY <1>3
<1>5. m \in Voters \ {l} /\ Len(wal[m]) >= p /\ IsPrefix(wal[m], wal[l])
  BY <1>4 DEF Streaming, Streams
<1>6. wal[m] \in Seq(Nat) /\ wal[l] \in Seq(Nat) /\ Len(wal[m]) \in Nat /\ p \in Nat \ {0}
  BY <1>5, LenProperties, DurabilityAssumption DEF Shape
<1>7. p \in 1..Len(wal[m])
  BY <1>5, <1>6
<1>8. wal[m][p] = wal[l][p]
  BY <1>5, <1>6, <1>7, PrefixIs
<1>9. Holds(m, <<p, wal[l][p]>>) /\ Holds(l, <<p, wal[l][p]>>)
  BY <1>1, <1>5, <1>6, <1>8 DEF Holds
<1> QED BY <1>1, <1>5, <1>9 DEF OpenInv

\* The applied mode changes when an entry is applied.
LEMMA ModeStep ==
  ASSUME Shape, DurNext, NEW n \in Voters
  PROVE  raft'[n].mode = raft[n].mode \/ (Apply(n) /\ raft'[n].mode = ModeOf(clog))
<1>0. RaftShape
  BY DEF Shape
<1>1. ASSUME NEW c \in Voters, Campaign(c) \/ TakesTerm(c) \/ Restart(c) \/ LeadFull(c) \/ LeadAsync(c)
      PROVE  raft'[n].mode = raft[n].mode
  BY <1>0, <1>1, CampaignVotes, TakesTermVotes, RestartVotes, ProposeVotes DEF LeadFull, LeadAsync
<1>2. ASSUME NEW m \in Voters, NEW l \in Voters, Hear(m, l) PROVE raft'[n].mode = raft[n].mode
  BY <1>0, <1>2, HearVotes
<1>3. ASSUME NEW m \in Voters, NEW a \in asks, AnswerVote(m, a) PROVE raft'[n].mode = raft[n].mode
  <2>1. Answered(m, a)
    BY <1>3, AnswerVotes
  <2> QED BY <2>1 DEF Answered
<1>4. ASSUME NEW c \in Voters, Apply(c)
      PROVE  raft'[n].mode = raft[n].mode \/ (Apply(n) /\ raft'[n].mode = ModeOf(clog))
  BY <1>0, <1>4, ApplyVotes
<1> QED BY <1>1, <1>2, <1>3, <1>4, RaftActions

\* Two voters hold what is acknowledged, and with async in force nothing is.
LEMMA AckStep ==
  ASSUME Cardinality(Voters) <= 4, Shape, HeardInv, OpenInv, MatchInv, AckInv, CurrentInv, DurNext
  PROVE  AckInv'
<1>1. ASSUME NEW r \in acked PROVE HeldOutside({}, r)'
  BY OutsideKept DEF AckInv
<1>2. \A r \in acked' : HeldOutside({}, r)'
  <2>1. ASSUME NEW l \in Voters, NEW p \in 1..MaxWal, CommitAcked(l, p)
        PROVE  HeldOutside({}, <<p, wal[l][p]>>) /\ UNCHANGED wal
               /\ acked' = acked \cup {<<p, wal[l][p]>>}
    <3>1. /\ acked' = acked \cup {<<p, wal[l][p]>>} /\ UNCHANGED <<raft, wal>>
          /\ Holds(l, <<p, wal[l][p]>>) /\ \E m \in Voters \ {l} : Holds(m, <<p, wal[l][p]>>)
      BY <2>1, AckedHeld
    <3> QED BY <3>1 DEF HeldOutside
  <2>2. ASSUME NEW s, UNCHANGED wal, HeldOutside({}, s) PROVE HeldOutside({}, s)'
    BY <2>2 DEF HeldOutside, Holds
  <2>3. ASSUME NEW n \in Voters, Apply(n) PROVE acked' \subseteq acked
    BY <2>3 DEF Apply
  <2> QED BY <1>1, <2>1, <2>2, <2>3, AckActions
<1>3. ASSUME NEW n \in Voters, raft'[n].mode = "async" PROVE acked' = {}
  <2>1. ASSUME NEW l \in Voters, NEW p \in 1..MaxWal, CommitAcked(l, p) PROVE FALSE
    <3>1. UNCHANGED raft /\ raft[n].mode # "async"
      BY <2>1 DEF CommitAcked, AppliedMode
    <3> QED BY <1>3, <3>1
  <2>2. ASSUME NEW c \in Voters, Apply(c) PROVE acked' = {} \/ (acked' = acked /\ ModeOf(clog) # "async")
    BY <2>2 DEF Apply
  <2>3. CASE raft[n].mode = "async"
    BY <2>1, <2>2, <2>3, AckActions DEF AckInv, AppliedMode
  <2>4. CASE raft[n].mode # "async"
    <3>1. Apply(n) /\ ModeOf(clog) = "async"
      BY <1>3, <2>4, ModeStep
    <3> QED BY <2>2, <3>1
  <2> QED BY <2>3, <2>4
<1> QED BY <1>2, <1>3 DEF AckInv, AppliedMode

\* A majority past a node's term stays past it.
LEMMA SupersededStays ==
  ASSUME RaftShape, RaftShape', VotesAdvance, NEW n \in Voters,
         raft'[n].term = raft[n].term, Superseded(n)
  PROVE  Superseded(n)'
<1> DEFINE S == {m \in Voters : raft[m].term > raft[n].term}
           T == {m \in Voters : raft'[m].term > raft'[n].term}
<1>1. S \subseteq T
  BY DEF RaftShape, VotesAdvance
<1>2. IsMajority(S)
  BY DEF Superseded
<1>3. T \in SUBSET Voters
  OBVIOUS
<1>4. IsMajority(T)
  <2> HIDE DEF S, T
  <2> QED BY <1>1, <1>2, <1>3, MajorityGrows
<1> QED BY <1>4 DEF Superseded, IsMajority

\* Whoever led or campaigned before an open leader's term is superseded.
LEMMA BehindSuperseded ==
  ASSUME Shape, WonInv, NEW l \in Voters, Leader(l), NEW n \in Voters, raft[n].term < raft[l].term
  PROVE  Superseded(n)
<1> DEFINE S == {m \in Voters : raft[m].term >= raft[l].term}
           T == {m \in Voters : raft[m].term > raft[n].term}
<1>1. RaftShape /\ raft[l].term \in Nat
  BY DEF Shape, RaftShape
<1>2. IsMajority(S)
  BY <1>1, WonMajority DEF WonInv
<1>3. S \subseteq T /\ T \in SUBSET Voters
  BY <1>1 DEF RaftShape
<1> HIDE DEF S, T
<1>4. IsMajority(T)
  BY <1>2, <1>3, MajorityGrows
<1> QED BY <1>4 DEF Superseded, T

\* Once a term is won, nobody votes for another candidate of it.
LEMMA NoVoteAfterWin ==
  ASSUME Cardinality(Voters) <= 4, Shape, TallyInv, NEW m \in Voters, NEW a \in asks,
         AnswerVote(m, a), Candidate(a.from, a.term), NEW x \in Voters, Won(x, a.term)
  PROVE  FALSE
<1> DEFINE n == a.from
           t == a.term
<1>0. RaftShape /\ n \in Voters /\ t \in Nat /\ n # m
  BY DEF Shape, AskShape, AnswerVote
<1>1. PICK Q \in SUBSET Voters : Backs(Q, x, t)
  BY DEF Won, Settled
<1>2. x # n /\ raft[n].vote = n /\ raft[n].term = t
  BY <1>0 DEF Won, TallyInv, Candidate
<1>3. n \notin Q
  BY <1>0, <1>1, <1>2 DEF Backs, Gave
<1>4. t > raft[m].term \/ (t = raft[m].term /\ raft[m].vote \in {None, n})
  BY DEF AnswerVote
<1>5. m \notin Q
  <2>1. raft[m].term \in Nat /\ x # None
    BY <1>0, DurabilityAssumption DEF RaftShape
  <2> QED BY <1>0, <1>1, <1>2, <1>4, <2>1 DEF Backs, Gave
<1> QED BY <1>0, <1>1, <1>3, <1>5, OneLeftOut DEF Backs

\* The vote gate: a voter that holds an acknowledged record votes only for a
\* candidate that holds it.  Up to the second term there is one timeline as long as
\* the election is on, and the positions say it all.
LEMMA GateHolds ==
  ASSUME Cardinality(Voters) <= 4, DivergedVotes => MaxTerm <= 2, Shape, TallyInv, AskInv,
         TimelineInv, BoundInv, AckInv, NEW m \in Voters, NEW a \in asks,
         AnswerVote(m, a), Candidate(a.from, a.term), NEW r \in acked, Holds(m, r)
  PROVE  Holds(a.from, r)
<1> DEFINE n == a.from
           p == r[1]
<1>1. /\ n \in Voters /\ wal[m] \in Seq(Nat) /\ wal[n] \in Seq(Nat) /\ a.lsn \in Nat
      /\ p \in Nat \ {0} /\ GatePasses(m, a)
  BY DEF Shape, AskShape, AnswerVote
<1>2. Len(wal[m]) \in Nat /\ Len(wal[n]) \in Nat
  BY <1>1, LenProperties
<1>3. AppliedMode(m) # "async"
  BY DEF AckInv
<1>4. a.lsn >= Len(wal[m])
  BY <1>1, <1>2, <1>3 DEF GatePasses, VoteLsnGate, VoteLsnThreshold, OwnPosition
<1>5. Len(wal[n]) >= a.lsn
  BY DEF AskInv
<1>6. p \in 1..Len(wal[m]) /\ p \in 1..Len(wal[n]) /\ wal[m][p] = r[2] /\ p <= Len(wal[n])
  <2>1. p <= Len(wal[m]) /\ wal[m][p] = r[2]
    BY <1>1, <1>2 DEF Holds
  <2> HIDE DEF n, p
  <2> QED BY <1>1, <1>2, <1>4, <1>5, <2>1
<1>7. CASE ~DivergedVotes
  <2>1. IsPrefix(wal[m], wal[n]) \/ IsPrefix(wal[n], wal[m])
    BY <1>1, <1>7 DEF GatePasses, Diverged
  <2> HIDE DEF n, p
  <2>2. wal[n][p] = wal[m][p]
    BY <1>1, <1>6, <2>1, PrefixIs
  <2> QED BY <1>6, <2>2 DEF Holds, n, p
<1>8. CASE MaxTerm <= 2
  <2>1. ASSUME NEW v \in Voters, NEW q \in 1..Len(wal[v]) PROVE wal[v][q] = 1
    <3>1. PICK x \in Voters : Won(x, wal[v][q])
      BY DEF TimelineInv
    <3>2. wal[v][q] \in Nat /\ wal[v][q] >= 1
      BY ElementOfSeq DEF Shape, BoundInv
    <3>3. raft[x].term >= wal[v][q] /\ raft[x].term \in Nat
      BY <3>1 DEF Won, Shape, RaftShape
    <3>4. wal[v][q] <= 2
      BY <1>8, <3>2, <3>3, DurabilityAssumption DEF BoundInv
    <3>5. a.term = 2
      BY <1>8, DurabilityAssumption DEF BoundInv, Shape, AskShape
    <3>6. wal[v][q] # 2
      BY <3>1, <3>5, NoVoteAfterWin
    <3> QED BY <3>2, <3>4, <3>6
  <2>2. wal[n][p] = wal[m][p]
    BY <1>1, <1>6, <2>1
  <2> QED BY <1>6, <2>2 DEF Holds
<1> QED BY <1>7, <1>8, DurabilityAssumption

\* A new acknowledgement and the campaigns that are on.
LEMMA AckedCandidate ==
  ASSUME Cardinality(Voters) <= 4, Shape, TallyInv, WonInv, HeardInv, OpenInv,
         NEW l \in Voters, NEW p \in 1..MaxWal, CommitAcked(l, p),
         NEW n \in Voters, raft[n].role = "candidate", ~Superseded(n)
  PROVE  Holds(n, <<p, wal[l][p]>>) \/ HeldOutside(raft[n].tally, <<p, wal[l][p]>>)
<1> DEFINE r == <<p, wal[l][p]>>
           t == raft[l].term
<1>1. /\ Leader(l) /\ heard[l] = l /\ IsMajority({x \in Voters : heard[x] = l}) /\ Holds(l, r)
      /\ \E m \in Voters \ {l} : Holds(m, r)
  BY AckedHeld
<1>2. PICK m \in Voters \ {l} : Holds(m, r)
  BY <1>1
<1> HIDE DEF r
<1>3. RaftShape /\ \A x \in Voters : raft[x].term \in Nat
  BY DEF Shape, RaftShape
<1>4. raft[l].vote = l /\ raft[n].vote = n /\ n # l
  BY <1>1 DEF TallyInv, Leader
<1>5. ~(raft[n].term < t)
  BY <1>1, BehindSuperseded
<1>6. SUFFICES ASSUME n # m PROVE l \notin raft[n].tally /\ m \notin raft[n].tally
  BY <1>1, <1>2 DEF HeldOutside, r
<1>7. \A x \in Voters : x \in raft[n].tally => Gave(x, n, raft[n].term)
  BY DEF TallyInv
<1>8. l \notin raft[n].tally
  BY <1>3, <1>4, <1>5, <1>7 DEF Gave
<1>9. CASE raft[n].term = t
  <2>1. Won(l, t)
    BY <1>1 DEF WonInv
  <2>2. PICK Q \in SUBSET Voters : Backs(Q, l, t)
    BY <2>1 DEF Won, Settled
  <2>3. raft[n].tally \cap Q = {}
    BY <1>4, <1>9, <2>2 DEF Backs, Candidate
  <2>4. n \notin Q
    BY <1>3, <1>4, <1>9, <2>2 DEF Backs, Gave
  <2>5. m \in Q
    BY <1>6, <2>2, <2>4, OneLeftOut DEF Backs
  <2> QED BY <1>8, <2>3, <2>5
<1>10. CASE raft[n].term > t
  <2> DEFINE S == {x \in Voters : heard[x] = l}
  <2>1. \A x \in S : raft[x].term <= t
    BY DEF HeardInv
  <2>2. n \notin S
    BY <1>3, <1>10, <2>1
  <2>3. S \in SUBSET Voters
    OBVIOUS
  <2>4. IsMajority(S)
    BY <1>1
  <2> HIDE DEF S
  <2>5. m \in S
    BY <1>6, <2>2, <2>3, <2>4, OneLeftOut
  <2> QED BY <1>3, <1>7, <1>8, <1>10, <2>1, <2>5 DEF Gave
<1> QED BY <1>3, <1>5, <1>9, <1>10

\* The leader that no majority is past holds what is acknowledged.
LEMMA CurrentLeader ==
  ASSUME Cardinality(Voters) <= 4, Shape, ElectInv, HeardInv, OpenInv, MatchInv, AckInv,
         CurrentInv, DurNext, NEW n \in Voters, Leader(n)', ~Superseded(n)', NEW r \in acked'
  PROVE  Holds(n, r)'
<1>1. RaftShape /\ RaftShape' /\ VotesAdvance
  BY RaftStep DEF Shape
<1>2. raft'[n].term = raft[n].term /\ (Leader(n) \/ TakesTerm(n))
  BY RoleStep DEF RoleMoves
<1>3. ~Superseded(n)
  BY <1>1, <1>2, SupersededStays
<1>4. CASE r \in acked
  <2>1. Holds(n, r)
    <3>1. CASE Leader(n)
      BY <1>3, <1>4, <3>1 DEF CurrentInv
    <3>2. CASE TakesTerm(n)
      <4>1. raft[n].role = "candidate" /\ IsMajority(raft[n].tally) /\ raft[n].tally \in SUBSET Voters
        BY <1>1, <3>2 DEF TakesTerm, RaftShape
      <4>2. ~HeldOutside(raft[n].tally, r)
        BY <4>1, OneLeftOut DEF HeldOutside
      <4> QED BY <1>3, <1>4, <4>1, <4>2 DEF CurrentInv
    <3> QED BY <1>2, <3>1, <3>2
  <2> QED BY <1>4, <2>1, HoldsKept
<1>5. ASSUME NEW l \in Voters, NEW p \in 1..MaxWal, CommitAcked(l, p), r \notin acked PROVE Holds(n, r)'
  <2>1. /\ acked' = acked \cup {<<p, wal[l][p]>>} /\ UNCHANGED <<raft, wal>>
        /\ Leader(l) /\ IsMajority({x \in Voters : heard[x] = l}) /\ Holds(l, <<p, wal[l][p]>>)
    BY <1>5, AckedHeld
  <2>2. Leader(n)
    BY <2>1 DEF Leader
  <2>3. n = l
    <3> SUFFICES ASSUME n # l PROVE FALSE
      OBVIOUS
    <3>1. raft[n].term < raft[l].term
      BY <2>1, <2>2, LatestTerm DEF ElectInv
    <3> QED BY <1>3, <2>1, <3>1, BehindSuperseded DEF ElectInv
  <2>4. Holds(n, r)
    BY <1>5, <2>1, <2>3
  <2> QED BY <2>1, <2>4 DEF Holds
<1>6. ASSUME NEW c \in Voters, Apply(c) PROVE acked' \subseteq acked
  BY <1>6 DEF Apply
<1> QED BY <1>4, <1>5, <1>6, AckActions

\* A candidate holds it, or two who hold it have not voted for it.
LEMMA CurrentCandidate ==
  ASSUME Cardinality(Voters) <= 4, DivergedVotes => MaxTerm <= 2, Shape, ElectInv, AskInv, HeardInv,
         OpenInv, MatchInv, TimelineInv, BoundInv, AckInv, CurrentInv, DurNext,
         NEW n \in Voters, raft'[n].role = "candidate", ~Superseded(n)', NEW r \in acked'
  PROVE  Holds(n, r)' \/ HeldOutside(raft[n].tally, r)'
<1>1. RaftShape /\ RaftShape' /\ VotesAdvance
  BY RaftStep DEF Shape
<1>2. CASE Campaign(n)
  <2>1. raft'[n].tally = {n} /\ acked' = acked
    BY <1>1, <1>2, CampaignVotes DEF Campaign
  <2>2. PICK x \in Voters, y \in Voters : x # y /\ Holds(x, r) /\ Holds(y, r)
    BY <2>1 DEF AckInv, HeldOutside
  <2>3. Holds(x, r)' /\ Holds(y, r)'
    BY <2>1, <2>2, HoldsKept
  <2> QED BY <2>1, <2>2, <2>3 DEF HeldOutside
<1>3. CASE ~Campaign(n)
  <2>1. raft[n].role = "candidate" /\ raft'[n].term = raft[n].term
    BY <1>3, RoleStep DEF RoleMoves
  <2>2. ~Superseded(n)
    BY <1>1, <2>1, SupersededStays
  <2>3. CASE r \in acked
    <3>1. ASSUME Holds(n, r) PROVE Holds(n, r)'
      BY <2>3, <3>1, HoldsKept
    <3>2. ASSUME HeldOutside(raft[n].tally, r), raft'[n].tally = raft[n].tally
          PROVE  HeldOutside(raft[n].tally, r)'
      <4>1. ASSUME NEW S, HeldOutside(S, r) PROVE HeldOutside(S, r)'
        BY <2>3, <4>1, OutsideKept
      <4> QED BY <3>2, <4>1 DEF HeldOutside
    <3>3. Holds(n, r) \/ HeldOutside(raft[n].tally, r)
      BY <2>1, <2>2, <2>3 DEF CurrentInv
    <3>4. ASSUME NEW m \in Voters, NEW a \in asks, AnswerVote(m, a)
          PROVE  Holds(n, r)' \/ HeldOutside(raft[n].tally, r)'
      <4>1. Answered(m, a)
        BY <3>4, AnswerVotes
      <4>2. CASE n = a.from /\ Candidate(a.from, a.term) /\ ~Holds(n, r)
        <5>1. PICK x \in Voters \ raft[n].tally, y \in Voters \ raft[n].tally :
                x # y /\ Holds(x, r) /\ Holds(y, r)
          BY <3>3, <4>2 DEF HeldOutside
        <5>2. ~Holds(m, r)
          BY <2>3, <3>4, <4>2, GateHolds DEF ElectInv
        <5>3. raft'[n].tally = raft[n].tally \cup {m}
          BY <4>1, <4>2 DEF Answered, Candidate
        <5>4. Holds(x, r)' /\ Holds(y, r)'
          BY <2>3, <5>1, HoldsKept
        <5>5. x \in Voters \ raft'[n].tally /\ y \in Voters \ raft'[n].tally
          BY <5>1, <5>2, <5>3
        <5> QED BY <5>1, <5>4, <5>5 DEF HeldOutside
      <4>3. CASE ~(n = a.from /\ Candidate(a.from, a.term))
        <5>1. raft'[n].tally = raft[n].tally
          BY <4>1, <4>3 DEF Answered, Candidate, SameVote
        <5> QED BY <3>1, <3>2, <3>3, <5>1
      <4> QED BY <3>1, <4>2, <4>3
    <3>5. CASE ~\E m \in Voters, a \in asks : AnswerVote(m, a)
      <4>1. raft'[n].tally = raft[n].tally
        <5>1. ASSUME NEW c \in Voters, Campaign(c) PROVE raft'[n].tally = raft[n].tally
          <6>1. c # n
            BY <1>3, <5>1
          <6> QED BY <1>1, <5>1, <6>1, CampaignVotes DEF SameVote
        <5>2. ASSUME NEW c \in Voters, TakesTerm(c) \/ Restart(c) PROVE raft'[n].tally = raft[n].tally
          BY <1>1, <5>2, TakesTermVotes, RestartVotes DEF SameVote
        <5>3. ASSUME NEW c \in Voters, Apply(c) \/ LeadFull(c) \/ LeadAsync(c) PROVE VotesStay
          BY <1>1, <5>3, ApplyVotes, ProposeVotes DEF LeadFull, LeadAsync
        <5>4. ASSUME NEW m \in Voters, NEW l \in Voters, Hear(m, l) PROVE raft'[n].tally = raft[n].tally
          BY <1>1, <5>4, HearVotes DEF SameVote
        <5> QED BY <3>5, <5>1, <5>2, <5>3, <5>4, RaftActions DEF VotesStay, SameVote
      <4> QED BY <3>1, <3>2, <3>3, <4>1
    <3> QED BY <3>4, <3>5
  <2>4. ASSUME NEW l \in Voters, NEW p \in 1..MaxWal, CommitAcked(l, p), r \notin acked
        PROVE  Holds(n, r)' \/ HeldOutside(raft[n].tally, r)'
    <3>1. acked' = acked \cup {<<p, wal[l][p]>>} /\ UNCHANGED <<raft, wal>>
      BY <2>4, AckedHeld
    <3>2. r = <<p, wal[l][p]>>
      BY <2>4, <3>1
    <3>3. Holds(n, r) \/ HeldOutside(raft[n].tally, r)
      BY <2>1, <2>2, <2>4, <3>2, AckedCandidate DEF ElectInv
    <3> QED BY <3>1, <3>3 DEF Holds, HeldOutside
  <2>5. ASSUME NEW c \in Voters, Apply(c) PROVE acked' \subseteq acked
    BY <2>5 DEF Apply
  <2> QED BY <2>3, <2>4, <2>5, AckActions
<1> QED BY <1>2, <1>3

-----------------------------------------------------------------------------
(* The theorem. *)

\* The invariant is inductive.
LEMMA DurInvStep ==
  ASSUME Cardinality(Voters) <= 4, DivergedVotes => MaxTerm <= 2, DurInv, DurNext
  PROVE  DurInv'
<1> USE DEF DurInv, ElectInv, WalInv
<1>1. Shape'
  BY ShapeStep
<1>2. ElectInv'
  BY TallyStep, WonStep, WinnerStep
<1>3. AskInv' /\ HeardInv' /\ OpenInv'
  BY AskStep, LeaseStep, OpenStep
<1>4. WalInv' /\ BoundInv'
  BY MatchStep, OwnStep, FreshStep, TimelineStep, BoundStep
<1>5. AckInv'
  BY AckStep
<1>6. CurrentInv'
  <2>1. ASSUME NEW n \in Voters, Leader(n)', ~Superseded(n)', NEW r \in acked' PROVE Holds(n, r)'
    BY <2>1, CurrentLeader
  <2>2. ASSUME NEW n \in Voters, raft'[n].role = "candidate", ~Superseded(n)', NEW r \in acked'
        PROVE  Holds(n, r)' \/ HeldOutside(raft[n].tally, r)'
    BY <2>2, CurrentCandidate
  <2> QED BY <2>1, <2>2 DEF CurrentInv
<1> QED BY <1>1, <1>2, <1>3, <1>4, <1>5, <1>6

\* It holds at first.
LEMMA DurInvInit ==
  ASSUME DurInit, ~LateWrites PROVE DurInv
<1> USE DurabilityAssumption
<1>1. \A n \in Voters :
        /\ {"term", "vote", "role", "tally", "log", "applied", "mode"} \subseteq DOMAIN raft[n]
        /\ raft[n].term = 1 /\ raft[n].vote = Founder /\ raft[n].tally = {}
        /\ raft[n].role = (IF n = Founder THEN "leader" ELSE "follower")
        /\ raft[n].mode = "sync"
  BY DEF DurInit
<1>2. RaftShape
  <2>1. DOMAIN raft = Voters /\ raft = [n \in Voters |-> raft[n]]
    BY DEF DurInit
  <2> QED BY <1>1, <2>1 DEF RaftShape
<1>3. \A n \in Voters : wal[n] = << >>
  BY DEF DurInit
<1>4. acked = {} /\ asks = {} /\ \A n \in Voters : heard[n] = Founder
  BY DEF DurInit
<1>5. \A n \in Voters :
        /\ pg[n] \in Server /\ pg[n].primary = (n = Founder) /\ pg[n].open = (n = Founder)
        /\ pg[n].tl = 1 /\ pg[n].list = FullList
  <2> TAKE n \in Voters
  <2> DEFINE p == [primary |-> n = Founder, open |-> n = Founder, list |-> FullList,
                   tl |-> 1, follows |-> IF n = Founder THEN None ELSE Founder]
  <2>1. pg[n] = p
    BY DEF DurInit
  <2>2. p \in Server
    BY RequiredType DEF Server
  <2> QED BY <2>1, <2>2
<1>6. Shape
  <2>1. heard \in [Voters -> Voters \cup {None}] /\ wal \in [Voters -> Seq(Nat)]
    BY DEF DurInit
  <2>2. pg \in [Voters -> Server]
    <3>1. pg = [n \in Voters |-> pg[n]]
      BY DEF DurInit
    <3> QED BY <1>5, <3>1
  <2> QED BY <1>2, <1>4, <1>5, <2>1, <2>2, RequiredType DEF Shape
<1>7. IsMajority(Voters)
  <2>1. Cardinality(Voters) \in Nat /\ Cardinality(Voters) # 0
    BY FS_CardinalityType, FS_EmptySet
  <2> QED BY <2>1 DEF IsMajority
<1>8. Won(Founder, 1)
  <2>1. Backs(Voters, Founder, 1)
    BY <1>1, <1>7 DEF Backs, Gave, Candidate
  <2>2. Settled(Founder, 1)
    BY <2>1 DEF Settled
  <2> QED BY <1>1, <2>2 DEF Won, Candidate
<1>9. ElectInv
  BY <1>1, <1>5, <1>8 DEF ElectInv, TallyInv, WonInv, OneWinner, Leader, Candidate
<1>10. AskInv /\ HeardInv
  BY <1>1, <1>4 DEF AskInv, HeardInv
<1>11. OpenInv
  <2>1. {n \in Voters : heard[n] = Founder} = Voters
    BY <1>4
  <2>2. IsMajority({n \in Voters : heard[n] = Founder})
    BY <1>7, <2>1
  <2>3. \A l \in Voters : pg[l].open => l = Founder
    BY <1>5
  <2>4. Leader(Founder) /\ pg[Founder].primary /\ heard[Founder] = Founder
    BY <1>1, <1>4, <1>5 DEF Leader
  <2> QED BY <2>2, <2>3, <2>4 DEF OpenInv
<1>12. WalInv
  <2>1. \A n \in Voters : 1..Len(wal[n]) = {}
    BY <1>3
  <2> QED BY <2>1 DEF WalInv, MatchInv, OwnInv, FreshInv, TimelineInv
<1>14. BoundInv
  <2>1. \A n \in Voters : 1..Len(wal[n]) = {}
    BY <1>3
  <2> QED BY <1>1, <1>4, <1>5, <2>1 DEF BoundInv
<1>13. AckInv /\ CurrentInv
  BY <1>4 DEF AckInv, CurrentInv
<1> QED BY <1>6, <1>9, <1>10, <1>11, <1>12, <1>13, <1>14 DEF DurInv

\* CurrentInv says it of the leaders that no majority is past.
LEMMA LeaderHolds ==
  ASSUME DurInv PROVE LeaderHoldsAcked
<1> SUFFICES ASSUME NEW n \in Voters, raft[n].role = "leader",
                    IsMajority({m \in Voters : raft[m].term <= raft[n].term})
             PROVE  \A r \in acked : Holds(n, r)
  BY DEF LeaderHoldsAcked
<1>1. \A m \in Voters : raft[m].term \in Nat
  BY DEF DurInv, Shape, RaftShape
<1>2. ~Superseded(n)
  <2> DEFINE S == {m \in Voters : raft[m].term <= raft[n].term}
             T == {m \in Voters : raft[m].term > raft[n].term}
  <2> SUFFICES ASSUME IsMajority(T) PROVE FALSE
    BY DEF Superseded
  <2>1. \E x \in Voters : x \in S /\ x \in T
    BY MajoritiesMeet
  <2> QED BY <1>1, <2>1
<1> QED BY <1>2 DEF DurInv, CurrentInv, Leader

(***************************************************************************)
(* Contracts W1 and L3: in a cluster of at most four voters, the leader    *)
(* that no majority has moved past holds every record acknowledged under   *)
(* the synchronous list since async was last in force, whatever the number *)
(* of records, restarts and changes of mode: for the code as it is up to   *)
(* the second term, and for any number of terms when no vote crosses       *)
(* diverged WALs.  vote_lsn_gate compares positions only: from the third   *)
(* term on, a deposed leader's own records may outweigh the acknowledged   *)
(* ones.  With five voters, one that has voted for a candidate can still   *)
(* make up the old leader's sync set.  ~LateWrites is what the docs claim  *)
(* and the code does not ensure: a voter's WAL passes its gate at the vote *)
(* as it did at the gate's read, and a leader that votes is fenced.        *)
(***************************************************************************)
THEOREM LeaderKeepsAcked ==
  ASSUME Cardinality(Voters) <= 4, DivergedVotes => MaxTerm <= 2, ~LateWrites
  PROVE  DurSpec => []LeaderHoldsAcked
<1>1. DurInit => DurInv
  BY DurInvInit
<1>2. DurInv /\ [DurNext]_durVars => DurInv'
  <2> SUFFICES ASSUME DurInv, [DurNext]_durVars PROVE DurInv'
    OBVIOUS
  <2>1. CASE DurNext
    BY <2>1, DurInvStep
  <2>2. CASE UNCHANGED durVars
    <3> USE <2>2 DEF durVars
    <3>1. Shape'
      BY DEF DurInv, Shape, RaftShape
    <3>2. ElectInv'
      BY DEF DurInv, ElectInv, TallyInv, WonInv, OneWinner, Leader, Candidate, Won, Settled, Backs, Gave
    <3>3. AskInv' /\ HeardInv' /\ OpenInv'
      BY DEF DurInv, AskInv, HeardInv, OpenInv, Leader, Candidate
    <3>4. WalInv'
      BY DEF DurInv, WalInv, MatchInv, OwnInv, FreshInv, TimelineInv, Leader, Won, Settled, Backs,
           Gave, Candidate
    <3>5. AckInv' /\ CurrentInv'
      BY DEF DurInv, AckInv, CurrentInv, Leader, Superseded, HeldOutside, Holds, AppliedMode
    <3>6. BoundInv'
      BY DEF DurInv, BoundInv
    <3> QED BY <3>1, <3>2, <3>3, <3>4, <3>5, <3>6 DEF DurInv
  <2> QED BY <2>1, <2>2
<1>3. DurInv => LeaderHoldsAcked
  BY LeaderHolds
<1> QED BY <1>1, <1>2, <1>3, PTL DEF DurSpec

=============================================================================
