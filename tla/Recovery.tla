------------------------------ MODULE Recovery ------------------------------
(***************************************************************************)
(* A cluster that lost its leader finds another one.                       *)
(*                                                                         *)
(* A voter campaigns on openraft's own timer once; from then on it knows   *)
(* no leader, the governor switches that timer off (elect(false)), and     *)
(* only the leaderless watchdog campaigns: by voter rank, a stagger apart, *)
(* and again after one pass over the ranks (governor/raft.rs).  A voter    *)
(* answers through the WAL gate first and openraft's vote after it         *)
(* (governor/network.rs).                                                  *)
(*                                                                         *)
(* Time is kept as what remains of each timer, in election timeouts, and   *)
(* terms are kept relative to the smallest, so the model has no horizon:   *)
(* an election that never ends is a cycle.  Nothing writes meanwhile, so   *)
(* positions and logs stand still.                                         *)
(***************************************************************************)
EXTENDS Integers, FiniteSets, FiniteSetsExt

CONSTANTS
  RVoters,    \* the voters; numbers, ranked by their order
  Base,       \* LEADERLESS_RECOVERY_BASE_TIMEOUTS
  Stagger,    \* LEADERLESS_RECOVERY_STAGGER_TIMEOUTS
  VoteBudget, \* time within which a request that is not lost is answered
  Positions,  \* WAL positions a voter may hold
  LogEnds,    \* Raft log ends a voter may hold
  MaxLosses   \* bound: lost requests or answers

ASSUME RecoveryAssumption ==
  /\ RVoters \subseteq Nat \ {0} /\ IsFiniteSet(RVoters)
  /\ Base \in Nat \ {0} /\ Stagger \in Nat \ {0}
  /\ VoteBudget < Stagger
  /\ MaxLosses \in Nat

VARIABLES
  alive,   \* the voters that run; the others stay down
  rwal,    \* each voter's reportable WAL position
  rlog,    \* each voter's last Raft log position
  ballot,  \* each voter's vote: term and candidate
  hears,   \* RaftMetrics::current_leader is set, to the leader that died
  wait,    \* what remains of the voter's timer
  pending, \* voters whose answer to this voter's campaign is due
  polled,  \* votes counted for it
  age,     \* how long the campaign has run
  chief,   \* the new leader, or 0
  lostMsgs

recVars == <<alive, rwal, rlog, ballot, hears, wait, pending, polled, age, chief, lostMsgs>>

-----------------------------------------------------------------------------
RMajority(S) == 2 * Cardinality(S) > Cardinality(RVoters)

\* The voters below this one.
Rank(n) == Cardinality({m \in RVoters : m < n})

\* leaderless_threshold
LeaderlessThreshold(n) == Base + Rank(n) * Stagger

\* Faulty variant: a cooldown that spaces a voter from itself only.
FlatCooldown(n) == 2 * Stagger - 1

\* leaderless_cooldown: one pass over the ranks.
LeaderlessCooldown(n) == Cardinality(RVoters) * Stagger

\* openraft's order of votes.
Below(v, w) == v.term < w.term \/ (v.term = w.term /\ v.node < w.node)

\* vote_lsn_gate under sync: the candidate is not behind the voter by a byte.
GatePasses(n, m) == rwal[n] >= rwal[m]

\* openraft's own rule: a later vote from a log not behind the voter's.
MayGrant(n, m) == Below(ballot[m], ballot[n]) /\ rlog[n] >= rlog[m]

\* Terms count from the smallest, which leaves every comparison as it is.
Rebased(b) ==
  LET low == Min({b[n].term : n \in alive})
  IN [n \in RVoters |-> IF n \in alive THEN [b[n] EXCEPT !.term = @ - low] ELSE b[n]]

-----------------------------------------------------------------------------
\* n stands: openraft's timer on a voter that still names the dead leader, the
\* watchdog on one that does not.  The watchdog's window opens when the governor
\* sees no leader; its cooldown runs from the forced election.
Stand(n) ==
  /\ chief = 0 /\ n \in alive /\ wait[n] = 0
  /\ ballot' = Rebased([ballot EXCEPT ![n] = [term |-> @.term + 1, node |-> n]])
  /\ hears' = [hears EXCEPT ![n] = FALSE]
  /\ wait' = [wait EXCEPT ![n] = IF hears[n] THEN LeaderlessThreshold(n)
                                 ELSE LeaderlessCooldown(n)]
  /\ pending' = [pending EXCEPT ![n] = alive \ {n}]
  /\ polled' = [polled EXCEPT ![n] = {n}]
  /\ age' = [age EXCEPT ![n] = 0]
  /\ chief' = IF RMajority({n}) THEN n ELSE 0
  /\ UNCHANGED <<alive, rwal, rlog, lostMsgs>>

\* m answers n.  A grant takes m's ballot and its own campaign with it; a refusal
\* carries m's vote, which n adopts when it is the later one.  The WAL gate
\* refuses without showing the request to openraft.  A lost answer leaves m bound
\* and n uncounted.
AnswerCampaign(n, m, delivered) ==
  /\ chief = 0 /\ m \in pending[n] /\ ballot[n].node = n
  /\ delivered \/ lostMsgs < MaxLosses
  /\ lostMsgs' = IF delivered THEN lostMsgs ELSE lostMsgs + 1
  /\ IF GatePasses(n, m) /\ MayGrant(n, m)
       THEN /\ ballot' = Rebased([ballot EXCEPT ![m] = ballot[n]])
            /\ pending' = [pending EXCEPT ![m] = {}, ![n] = @ \ {m}]
            /\ hears' = [hears EXCEPT ![m] = FALSE]
            /\ wait' = [wait EXCEPT ![m] = IF hears[m] THEN LeaderlessThreshold(m) ELSE @]
            /\ polled' = [polled EXCEPT ![n] = IF delivered THEN @ \cup {m} ELSE @]
            /\ chief' = IF RMajority(polled'[n]) THEN n ELSE 0
       ELSE /\ LET higher == delivered /\ Below(ballot[n], ballot[m]) IN
               /\ ballot' = IF higher THEN Rebased([ballot EXCEPT ![n] = ballot[m]]) ELSE ballot
               /\ pending' = [pending EXCEPT ![n] = IF higher THEN {} ELSE @ \ {m}]
            /\ UNCHANGED <<hears, wait, polled, chief>>
  /\ UNCHANGED <<alive, rwal, rlog, age>>

\* The request itself is lost.
RequestLost(n, m) ==
  /\ chief = 0 /\ m \in pending[n] /\ lostMsgs < MaxLosses
  /\ lostMsgs' = lostMsgs + 1
  /\ pending' = [pending EXCEPT ![n] = @ \ {m}]
  /\ UNCHANGED <<alive, rwal, rlog, ballot, hears, wait, polled, age, chief>>

\* Time passes while no timer is due and no answer is.
WatchdogPass ==
  /\ chief = 0
  /\ \A n \in alive : wait[n] > 0 /\ (pending[n] # {} => age[n] < VoteBudget)
  /\ wait' = [n \in RVoters |-> IF n \in alive THEN wait[n] - 1 ELSE wait[n]]
  /\ age' = [n \in RVoters |-> IF pending[n] # {} THEN age[n] + 1 ELSE 0]
  /\ UNCHANGED <<alive, rwal, rlog, ballot, hears, pending, polled, chief, lostMsgs>>

\* The leader has died.  Each survivor's own timer fires one to two election
\* timeouts later.
RecInit ==
  /\ alive \in {S \in SUBSET RVoters : RMajority(S)}
  /\ rwal \in [RVoters -> Positions] /\ rlog \in [RVoters -> LogEnds]
  /\ ballot = [n \in RVoters |-> [term |-> 0, node |-> 0]]
  /\ hears = [n \in RVoters |-> TRUE]
  /\ wait \in [RVoters -> 1..2]
  /\ pending = [n \in RVoters |-> {}] /\ polled = [n \in RVoters |-> {}]
  /\ age = [n \in RVoters |-> 0]
  /\ chief = 0 /\ lostMsgs = 0

RecNext ==
  \/ \E n \in RVoters : Stand(n)
  \/ \E n, m \in RVoters, d \in BOOLEAN : AnswerCampaign(n, m, d)
  \/ \E n, m \in RVoters : RequestLost(n, m)
  \/ WatchdogPass

\* Timers run and requests are answered.
RecFairness == WF_recVars(RecNext)

RecSpec == RecInit /\ [][RecNext]_recVars /\ RecFairness

-----------------------------------------------------------------------------
(***************************************************************************)
(* Properties.                                                             *)
(***************************************************************************)

\* n is behind no survivor, neither in WAL nor in the log.
Foremost(n) == n \in alive /\ \A m \in alive : rwal[n] >= rwal[m] /\ rlog[n] >= rlog[m]

\* No survivor above n, in openraft's order of votes, is refused where n is not: a
\* campaign of such a survivor, which the WAL gate refuses without showing it to
\* openraft, keeps taking the term that n's next campaign would win.
Unrivalled(n) == \A m \in alive : n < m => Foremost(m)

\* Survivors with a foremost voter elect a leader in the end, if nothing is lost
\* or no survivor that cannot win outranks it: the staggered watchdogs do not
\* disturb each other forever, and a vote given whose answer is lost, what the
\* watchdog is there for, is overcome (run_leaderless_watchdog,
\* leaderless_cooldown).
ElectableIsElected ==
  <>[]((\E n \in RVoters : Foremost(n) /\ (lostMsgs = 0 \/ Unrivalled(n))) => chief # 0)

=============================================================================
