------------------------------ MODULE Durability ------------------------------
(***************************************************************************)
(* Which acknowledged writes survive an election: the vote gate on the WAL *)
(* position, the synchronous standby list, the committed replication mode, *)
(* and what a standby discards to follow a new leader.                     *)
(*                                                                         *)
(* A node's WAL is the sequence of the timelines of its records; a record  *)
(* is known by its position and its timeline.  Time is left out: what the  *)
(* lease guarantees (no two nodes open, a majority free to vote only once  *)
(* the leader is fenced) is the guard of LeaseOut, Promote and OpenWrites. *)
(***************************************************************************)
EXTENDS Integers, Sequences, FiniteSets, SequencesExt, FiniteSetsExt

CONSTANTS
  Voters,       \* the voters
  Founder,      \* the voter that leads at first
  Candidates, Restarts,  \* bounds: the voters that campaign, and that restart
  MaxTerm, MaxWal, MaxLog,  \* bounds
  AsyncRpo,     \* LSN_CATCHUP_THRESHOLD_BYTES_ASYNC
  RewindBytes,  \* PG_REWIND_DIVERGENCE_THRESHOLD_BYTES
  DivergedVotes, \* a vote may be asked of a voter whose WAL has diverged
  LateWrites    \* a voter may write or receive WAL after its gate has read it

None == "none"

ASSUME DurabilityAssumption ==
  /\ IsFiniteSet(Voters) /\ Founder \in Voters
  /\ Candidates \subseteq Voters /\ Restarts \subseteq Voters
  /\ None \notin Voters
  /\ MaxTerm \in Nat /\ MaxWal \in Nat /\ MaxLog \in Nat
  /\ AsyncRpo \in Nat /\ RewindBytes \in Nat
  /\ DivergedVotes \in BOOLEAN /\ LateWrites \in BOOLEAN

VARIABLES
  raft,     \* each voter's term, vote, role, log and applied length
  clog,     \* the committed log
  heard,    \* the leader whose lease a voter still grants, or None
  asks,     \* the vote request of each campaign that is still on
  pg,       \* each voter's PostgreSQL
  wal,      \* each voter's WAL
  acked     \* records acknowledged under the list since async was last in force

durVars == <<raft, clog, heard, asks, pg, wal, acked>>

Entry == [term : 1..MaxTerm, mode : {"blank", "sync", "async"}]
Modes == {"none", "sync", "async"}
IsMajority(S) == 2 * Cardinality(S) > Cardinality(Voters)
SetRaft(n, r) == raft' = [raft EXCEPT ![n] = r]
SetPg(n, p) == pg' = [pg EXCEPT ![n] = p]

\* sync_replication_active of the state a log prefix leaves (SetSyncMode).
ModeOf(log) ==
  LET told == SelectSeq(log, LAMBDA e : e.mode # "blank")
  IN IF told = <<>> THEN "none" ELSE Last(told).mode
AppliedMode(n) == raft[n].mode

-----------------------------------------------------------------------------
(***************************************************************************)
(* The vote gate.                                                          *)
(***************************************************************************)
\* LocalWal::read.  A node that cannot say neither grants nor is granted, which
\* is no step here, and every voter has a data directory.
OwnPosition(n) == Len(wal[n])

\* Faulty variant: a vote allows the slack a transfer allows for.
LooseThreshold(n) == AsyncRpo

\* vote_lsn_threshold_bytes.
VoteLsnThreshold(n) == IF AppliedMode(n) = "async" THEN AsyncRpo ELSE 0

\* vote_lsn_gate.
VoteLsnGate(candidate, own, threshold) == candidate + threshold >= own

\* Neither WAL continues the other.  No code asks this of a voter.
Diverged(m, l) == ~IsPrefix(wal[m], wal[l]) /\ ~IsPrefix(wal[l], wal[m])

\* openraft's rule on the log.
UpToDate(last, len, log) ==
  LET own == IF log = <<>> THEN 0 ELSE Last(log).term
  IN last > own \/ (last = own /\ len >= Len(log))

\* The election timer or the leaderless watchdog.
Campaign(n) ==
  /\ n \in Candidates /\ raft[n].term < MaxTerm
  /\ heard[n] = None /\ raft[n].role # "leader"
  /\ SetRaft(n, [raft[n] EXCEPT !.term = @ + 1, !.vote = n, !.role = "candidate",
                                !.tally = {n}])
  /\ asks' = {a \in asks : a.from # n}
  /\ UNCHANGED <<clog, heard, pg, wal, acked>>

\* RaftRpcClient::vote: the position is read when the request is sent.
Ask(n) ==
  /\ raft[n].role = "candidate" /\ \A a \in asks : a.from # n
  /\ asks' = asks \cup
       {[from |-> n, term |-> raft[n].term, lsn |-> OwnPosition(n),
         last |-> Last(raft[n].log).term, len |-> Len(raft[n].log), passed |-> {}]}
  /\ UNCHANGED <<raft, clog, heard, pg, wal, acked>>

\* The gate of m lets a through by the WAL m has now.
GatePasses(m, a) ==
  /\ VoteLsnGate(a.lsn, OwnPosition(m), VoteLsnThreshold(m))
  /\ DivergedVotes \/ ~Diverged(m, a.from)

\* process_request, Vote, up to the await of raft.vote: m reads its own WAL and
\* its threshold.  A refusal by the gate leaves Raft alone.
ReadGate(m, a) ==
  /\ a.from # m /\ m \notin a.passed /\ GatePasses(m, a)
  /\ asks' = (asks \ {a}) \cup {[a EXCEPT !.passed = @ \cup {m}]}
  /\ UNCHANGED <<raft, clog, heard, pg, wal, acked>>

\* raft.vote, on what the gate read.  A leader hears nobody and may vote while it
\* is open; its fence comes after the vote.  Without late writes nothing has been
\* written since the gate's read, and a leader is fenced by then.
AnswerVote(m, a) ==
  /\ a.from # m /\ m \in a.passed
  /\ heard[m] = None \/ (LateWrites /\ raft[m].role = "leader")
  /\ LateWrites \/ GatePasses(m, a)
  /\ a.term > raft[m].term \/ (a.term = raft[m].term /\ raft[m].vote \in {None, a.from})
  /\ UpToDate(a.last, a.len, raft[m].log)
  /\ LET voted == [raft[m] EXCEPT !.term = a.term, !.vote = a.from, !.role = "follower"]
         c == raft[a.from]
     IN raft' = [raft EXCEPT ![m] = voted,
                   ![a.from] = IF c.role = "candidate" /\ c.term = a.term
                               THEN [c EXCEPT !.tally = @ \cup {m}] ELSE c]
  /\ UNCHANGED <<clog, heard, asks, pg, wal, acked>>

TakesTerm(n) ==
  /\ raft[n].role = "candidate" /\ IsMajority(raft[n].tally)
  /\ Len(raft[n].log) < MaxLog
  /\ SetRaft(n, [raft[n] EXCEPT !.role = "leader", !.tally = {},
                   !.log = Append(@, [term |-> raft[n].term, mode |-> "blank"])])
  /\ heard' = [heard EXCEPT ![n] = n]
  /\ asks' = {a \in asks : a.from # n}
  /\ UNCHANGED <<clog, pg, wal, acked>>

-----------------------------------------------------------------------------
(***************************************************************************)
(* The log, as openraft replicates it.                                     *)
(***************************************************************************)
Hear(m, l) ==
  /\ m # l /\ raft[l].role = "leader" /\ raft[l].term >= raft[m].term
  /\ raft[m].log # raft[l].log \/ {heard[m], heard[l]} # {l} \/ raft[m].term # raft[l].term
  /\ SetRaft(m, [raft[m] EXCEPT !.log = raft[l].log, !.role = "follower",
                   !.tally = {}, !.term = raft[l].term,
                   !.vote = IF raft[m].term = raft[l].term THEN @ ELSE None])
  /\ heard' = [heard EXCEPT ![m] = l, ![l] = l]
  /\ pg' = [pg EXCEPT ![m].open = FALSE]
  /\ UNCHANGED <<clog, asks, wal, acked>>

Commit(l) ==
  /\ raft[l].role = "leader" /\ Last(raft[l].log).term = raft[l].term
  /\ IsMajority({n \in Voters : raft[n].term = raft[l].term /\ raft[n].log = raft[l].log})
  /\ clog # raft[l].log /\ clog' = raft[l].log
  /\ UNCHANGED <<raft, heard, asks, pg, wal, acked>>

\* A node applies what it knows to be committed.  Once async is in force at any
\* voter, what was acknowledged before is no longer promised to survive.
Apply(n) ==
  /\ IsPrefix(clog, raft[n].log) /\ raft[n].applied < Len(clog)
  /\ SetRaft(n, [raft[n] EXCEPT !.applied = Len(clog), !.mode = ModeOf(clog)])
  /\ acked' = IF ModeOf(clog) = "async" THEN {} ELSE acked
  /\ UNCHANGED <<clog, heard, asks, pg, wal>>

\* A voter's lease to its leader runs out; the leader's own is its fence.  It is
\* fenced before a majority is free to vote: QUORUM_TIMEOUT_MS is shorter.
LeaseOut(m) ==
  /\ heard[m] # None
  /\ LET l == heard[m] IN
       m = l \/ IsMajority({n \in Voters \ {m} : heard[n] = l}) \/ ~pg[l].open
  /\ heard' = [heard EXCEPT ![m] = None]
  /\ pg' = [pg EXCEPT ![m].open = FALSE]
  /\ UNCHANGED <<raft, clog, asks, wal, acked>>

-----------------------------------------------------------------------------
(***************************************************************************)
(* A leader's pass: promotion, the synchronous list, opening writes.       *)
(***************************************************************************)
Required == (Cardinality(Voters) - 1) \div 2   \* required_sync_standbys
FullList == IF Required = 0 THEN "empty" ELSE "full"   \* sync_standby_list

\* A standby that can stream from l.  Its connection may be down at any moment
\* without a step of its own, as a node may be down.
Streams(m, l) ==
  m # l /\ ~pg[m].primary /\ pg[m].follows = l /\ IsPrefix(wal[m], wal[l])
Streaming(l) == {m \in Voters : Streams(m, l)}

\* promote_local_postgres: promotion starts a timeline with the full list set.
Promote(l) ==
  /\ raft[l].role = "leader" /\ ~pg[l].primary
  /\ \A n \in Voters : ~pg[n].open
  /\ Len(wal[l]) < MaxWal
  /\ SetPg(l, [pg[l] EXCEPT !.primary = TRUE, !.list = FullList, !.tl = raft[l].term,
                            !.follows = None])
  /\ wal' = [wal EXCEPT ![l] = Append(@, raft[l].term)]
  /\ UNCHANGED <<raft, clog, heard, asks, acked>>

Leads(l) == raft[l].role = "leader" /\ pg[l].primary

Propose(l, mode) ==
  IF AppliedMode(l) # mode /\ Len(raft[l].log) < MaxLog
  THEN SetRaft(l, [raft[l] EXCEPT
         !.log = Append(@, [term |-> raft[l].term, mode |-> mode])])
  ELSE UNCHANGED raft

\* lead with SyncPlan::FullList: the list goes in, and the mode is proposed
\* whether or not setting it worked.
LeadFull(l) ==
  /\ Leads(l) /\ FullList = "full"
  /\ \/ SetPg(l, [pg[l] EXCEPT !.list = "full"])
     \/ UNCHANGED pg
  /\ Propose(l, "sync")
  /\ pg' # pg \/ raft' # raft
  /\ UNCHANGED <<clog, heard, asks, wal, acked>>

\* lead with SyncPlan::AsyncFallback (no standby answers, quorum, past the grace)
\* or with one or two voters: the list is emptied once async is committed.
LeadAsync(l) ==
  /\ Leads(l) /\ IsMajority({n \in Voters : heard[n] = l})
  /\ \/ AppliedMode(l) = "async" /\ SetPg(l, [pg[l] EXCEPT !.list = "empty"])
     \/ UNCHANGED pg
  /\ Propose(l, "async")
  /\ pg' # pg \/ raft' # raft
  /\ UNCHANGED <<clog, heard, asks, wal, acked>>

\* writes_may_open.
WritesMayOpen(l) ==
  IF pg[l].list = "empty" THEN Required = 0 \/ AppliedMode(l) = "async"
  ELSE Cardinality(Streaming(l)) >= Required

OpenWrites(l) ==
  /\ Leads(l) /\ ~pg[l].open
  /\ \A n \in Voters : ~pg[n].open
  /\ heard[l] = l /\ IsMajority({n \in Voters : heard[n] = l})
  /\ WritesMayOpen(l)
  /\ SetPg(l, [pg[l] EXCEPT !.open = TRUE])
  /\ UNCHANGED <<raft, clog, heard, asks, wal, acked>>

-----------------------------------------------------------------------------
(***************************************************************************)
(* PostgreSQL: writes, streaming, acknowledgement, and following a leader. *)
(***************************************************************************)
Write(l) ==
  /\ pg[l].open /\ Len(wal[l]) < MaxWal
  /\ wal' = [wal EXCEPT ![l] = Append(@, pg[l].tl)]
  /\ UNCHANGED <<raft, clog, heard, asks, pg, acked>>

Stream(m) ==
  /\ pg[m].follows # None
  /\ LET l == pg[m].follows IN
     /\ Streams(m, l) /\ pg[l].primary /\ Len(wal[m]) < Len(wal[l])
     /\ wal' = [wal EXCEPT ![m] = Append(@, wal[l][Len(wal[m]) + 1])]
  /\ UNCHANGED <<raft, clog, heard, asks, pg, acked>>

\* The client of record p is answered once the sync set holds it.  What is
\* acknowledged with an empty list, or while async is in force at a voter, is
\* not promised to survive.
CommitAcked(l, p) ==
  /\ pg[l].open /\ p <= Len(wal[l]) /\ pg[l].list = "full"
  /\ Cardinality({m \in Streaming(l) : Len(wal[m]) >= p}) >= Required
  /\ \A n \in Voters : AppliedMode(n) # "async"
  /\ wal[l][p] = 1 \/ (p > 1 /\ wal[l][p - 1] = wal[l][p])  \* not a promotion's record
  /\ <<p, wal[l][p]>> \notin acked
  /\ acked' = acked \cup {<<p, wal[l][p]>>}
  /\ UNCHANGED <<raft, clog, heard, asks, pg, wal>>

Common(m, l) ==
  Max({k \in 0..Len(wal[m]) : k <= Len(wal[l]) /\ SubSeq(wal[m], 1, k) = SubSeq(wal[l], 1, k)})

\* rewind_budget, and what pg_rewind would discard.
MayRewind(m, l) ==
  AppliedMode(m) = "sync" \/ Len(wal[m]) - Common(m, l) <= RewindBytes

\* demote: a follower's PostgreSQL is repointed, or rewound when it diverged.
Follow(m, l) ==
  /\ m # l /\ raft[l].role = "leader" /\ raft[m].role = "follower"
  /\ heard[m] = l
  /\ pg[l].primary /\ pg[m].follows # l
  /\ ~IsPrefix(wal[m], wal[l]) => MayRewind(m, l)
  /\ SetPg(m, [pg[m] EXCEPT !.primary = FALSE, !.open = FALSE, !.follows = l])
  /\ wal' = [wal EXCEPT ![m] = SubSeq(@, 1, Common(m, l))]
  /\ UNCHANGED <<raft, clog, heard, asks, acked>>

\* The process and its PostgreSQL die and come back, in the stored role and read-
\* only.  The lease a voter grants starts again with its process, so it holds.
Restart(n) ==
  /\ n \in Restarts /\ (raft[n].role # "follower" \/ pg[n].open)
  /\ SetPg(n, [pg[n] EXCEPT !.open = FALSE])
  /\ SetRaft(n, [raft[n] EXCEPT !.role = "follower", !.tally = {}])
  /\ asks' = {a \in asks : a.from # n}
  /\ UNCHANGED <<clog, heard, wal, acked>>

-----------------------------------------------------------------------------
DurInit ==
  /\ clog = <<[term |-> 1, mode |-> "sync"]>>
  /\ raft = [n \in Voters |->
       [term |-> 1, vote |-> Founder, role |-> IF n = Founder THEN "leader" ELSE "follower",
        tally |-> {}, log |-> clog, applied |-> 1, mode |-> "sync"]]
  /\ heard = [n \in Voters |-> Founder]
  /\ asks = {}
  /\ pg = [n \in Voters |->
       [primary |-> n = Founder, open |-> n = Founder, list |-> FullList,
        tl |-> 1, follows |-> IF n = Founder THEN None ELSE Founder]]
  /\ wal = [n \in Voters |-> <<>>]
  /\ acked = {}

DurNext ==
  \/ \E n \in Voters :
       \/ Campaign(n) \/ Ask(n) \/ TakesTerm(n) \/ Commit(n) \/ Apply(n) \/ LeaseOut(n)
       \/ Promote(n) \/ LeadFull(n) \/ LeadAsync(n) \/ OpenWrites(n)
       \/ Write(n) \/ Stream(n) \/ Restart(n)
  \/ \E m \in Voters, a \in asks : ReadGate(m, a) \/ AnswerVote(m, a)
  \/ \E m, l \in Voters : Hear(m, l) \/ Follow(m, l)
  \/ \E l \in Voters, p \in 1..MaxWal : CommitAcked(l, p)

DurSpec == DurInit /\ [][DurNext]_durVars

-----------------------------------------------------------------------------
Holds(n, r) == r[1] <= Len(wal[n]) /\ wal[n][r[1]] = r[2]

(***************************************************************************)
(* W1 and L3: a leader that no majority has moved past holds every         *)
(* acknowledged record.  Any majority that elected it contains a voter of  *)
(* the sync set, and vote_lsn_gate admits nobody behind that voter.        *)
(***************************************************************************)
LeaderHoldsAcked ==
  \A n \in Voters :
    /\ raft[n].role = "leader"
    /\ IsMajority({m \in Voters : raft[m].term <= raft[n].term})
    => \A r \in acked : Holds(n, r)

=============================================================================
