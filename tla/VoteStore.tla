----------------------------- MODULE VoteStore ------------------------------
(***************************************************************************)
(* The vote of one voter on its disk.  openraft keeps the vote in memory,  *)
(* and may answer a candidate or a leader only once save_vote has made it  *)
(* durable; a restart reads it back from raft.db.  A store that is damaged *)
(* or of a newer schema stops the start, and a node that was removed from  *)
(* the cluster drops its store and joins again as a learner.               *)
(***************************************************************************)
EXTENDS Integers

CONSTANTS
  VoteFor,       \* candidates, numbers above 0
  VoteSlips,     \* "stale peer", "restart in repair": see Answers, StartAllowed
  MaxVoteTerm,   \* bound: terms
  MaxStops,      \* bound: process deaths
  MaxDamage,     \* bound: a damaged raft.db
  MaxRemovals    \* bound: removals of this node

SlipKinds == {"stale peer", "restart in repair"}

ASSUME VoteStoreAssumption ==
  /\ VoteFor \subseteq Nat \ {0} /\ VoteSlips \subseteq SlipKinds
  /\ {MaxVoteTerm, MaxStops, MaxDamage, MaxRemovals} \subseteq Nat

VARIABLES
  store,      \* raft.db
  voteProc,   \* "down", "up", "failed" on a storage error
  ballotHeld, \* the vote in openraft's memory
  saving,     \* "no", "save" or "answer": where the latest change has come
  promised,   \* the highest vote answered since this node last joined
  listed,     \* what the committed membership says of this node
  repair,     \* the operator's steps after a refused start
  upsets      \* deaths, damage and removals so far

voteVars ==
  <<store, voteProc, ballotHeld, saving, promised, listed, repair, upsets>>

\* storage.rs Vote
Ballots == [term : 0..MaxVoteTerm, by : VoteFor \cup {0}, committed : BOOLEAN]
NoBallot == [term |-> 0, by |-> 0, committed |-> FALSE]

\* The tables of raft.db, as far as a vote depends on them.
RaftDbs ==
  [file : {"absent", "whole", "truncated", "corrupt"}, schema : 0..2,
   snap : {"none", "v0", "v1"}, vote : Ballots]
NoStore == [file |-> "absent", schema |-> 0, snap |-> "none", vote |-> NoBallot]

VoteTypeOK ==
  /\ store \in RaftDbs /\ voteProc \in {"down", "up", "failed"}
  /\ ballotHeld \in Ballots /\ promised \in Ballots
  /\ saving \in {"no", "save", "answer"}
  /\ listed \in {"voter", "learner", "no"} /\ repair \in {"no", "moved", "removed"}
  /\ upsets \in [stops : 0..MaxStops, damage : 0..MaxDamage, removals : 0..MaxRemovals]

\* openraft's order of votes: a leader's is above a candidate's of the same id.
Under(v, w) ==
  \/ v.term < w.term
  \/ v.term = w.term /\ v.by < w.by
  \/ v.term = w.term /\ v.by = w.by /\ ~v.committed /\ w.committed

-----------------------------------------------------------------------------
\* is_corruption and the check of the length: damage is told from any other
\* failure, and both kinds of it end the start.
Damaged(s) == s.file \in {"truncated", "corrupt"}

\* ensure_schema_version, within the transaction that opens the tables: a
\* newer store is refused, an older one migrated and stamped.
SchemaVersion == 1
Stamped(s) ==
  [s EXCEPT !.file = "whole", !.schema = SchemaVersion,
            !.snap = IF s.schema < 1 /\ @ = "v0" THEN "v1" ELSE @]

\* Faulty variant: a damaged file is moved aside and a new one created.
OpenRecreates(s) ==
  IF Damaged(s) THEN {Stamped(NoStore)}
  ELSE IF s.schema > SchemaVersion THEN {} ELSE {Stamped(s)}

\* RedbLogStorage::new: the stores an open may leave, none when it refuses.
OpenStore(s) ==
  IF Damaged(s) \/ s.schema > SchemaVersion THEN {} ELSE {Stamped(s)}

\* stored_vote: what openraft starts from.
StoredVote(s) == IF s.vote.term = 0 /\ s.vote.by = 0 THEN NoBallot ELSE s.vote

\* is_in_committed_membership: what the peer named in the command answers, if
\* it answers; a peer that lags may not have applied this node's join yet.
Answers ==
  {"unreachable", listed} \cup (IF "stale peer" \in VoteSlips THEN {"no"} ELSE {})

\* A start between the operator's steps: the service manager starts the node
\* again unless the operator keeps it stopped.
StartAllowed == repair = "no" \/ "restart in repair" \in VoteSlips

\* run_join_flow: a node its peer no longer lists wipes its store; without one
\* it registers as a learner, which changes nothing for a node that is a member
\* still; a node that is listed, or cannot ask, resumes with what it has.
StartNode ==
  /\ voteProc = "down" /\ StartAllowed
  /\ \E answer \in Answers :
       LET fresh == store.file = "absent" \/ answer = "no" IN
       \E s \in OpenStore(IF fresh THEN NoStore ELSE store) :
         /\ store' = s
         /\ ballotHeld' = StoredVote(s)
         /\ listed' = IF fresh /\ listed = "no" THEN "learner" ELSE listed
  /\ voteProc' = "up" /\ saving' = "no"
  /\ UNCHANGED <<promised, repair, upsets>>

\* The cluster makes the learner a voter.
MadeVoter ==
  /\ listed = "learner" /\ listed' = "voter"
  /\ UNCHANGED <<store, voteProc, ballotHeld, saving, promised, repair, upsets>>

\* A candidate's request, to a voter, or a leader's call, to any member, whose
\* vote is above the one held: openraft adopts it in memory and saves it.
HearVote(v) ==
  /\ voteProc = "up" /\ saving = "no"
  /\ v.term > 0 /\ v.by # 0 /\ Under(ballotHeld, v)
  /\ listed = "voter" \/ (v.committed /\ listed = "learner")
  /\ ballotHeld' = v /\ saving' = "save"
  /\ UNCHANGED <<store, voteProc, promised, listed, repair, upsets>>

\* RedbLogStorage::save_vote: one transaction, durable when it has committed.
WithVote(s, v) == [s EXCEPT !.vote = v]

\* The adapter's save_vote returns once the transaction has.
SaveVote ==
  /\ voteProc = "up" /\ saving = "save" /\ ~Damaged(store)
  /\ store' = WithVote(store, ballotHeld) /\ saving' = "answer"
  /\ UNCHANGED <<voteProc, ballotHeld, promised, listed, repair, upsets>>

\* storage_io: redb panics over a damaged structure; the error stops openraft.
SavePanics ==
  /\ voteProc = "up" /\ saving = "save" /\ Damaged(store)
  /\ voteProc' = "failed" /\ saving' = "no"
  /\ UNCHANGED <<store, ballotHeld, promised, listed, repair, upsets>>

\* The answer leaves: the sender counts on the vote from here on.
SendAnswer ==
  /\ voteProc = "up" /\ saving = "answer"
  /\ promised' = IF Under(promised, ballotHeld) THEN ballotHeld ELSE promised
  /\ saving' = "no"
  /\ UNCHANGED <<store, voteProc, ballotHeld, listed, repair, upsets>>

\* The process dies, or is stopped, with what it had in memory.
Stops ==
  /\ voteProc # "down" /\ upsets.stops < MaxStops
  /\ voteProc' = "down" /\ saving' = "no" /\ ballotHeld' = NoBallot
  /\ upsets' = [upsets EXCEPT !.stops = @ + 1]
  /\ UNCHANGED <<store, promised, listed, repair>>

\* The disk damages the file.
DiskDamages(kind) ==
  /\ store.file = "whole" /\ upsets.damage < MaxDamage
  /\ store' = [store EXCEPT !.file = kind]
  /\ upsets' = [upsets EXCEPT !.damage = @ + 1]
  /\ UNCHANGED <<voteProc, ballotHeld, saving, promised, listed, repair>>

\* corruption_error's instructions, in their order: move the file aside, ...
MoveStoreAside ==
  /\ voteProc = "down" /\ Damaged(store) /\ repair = "no"
  /\ store' = NoStore /\ repair' = "moved"
  /\ UNCHANGED <<voteProc, ballotHeld, saving, promised, listed, upsets>>

\* ... remove the node from the membership, ...
RemovedForRepair ==
  /\ repair = "moved"
  /\ repair' = "removed" /\ listed' = "no" /\ promised' = NoBallot
  /\ UNCHANGED <<store, voteProc, ballotHeld, saving, upsets>>

\* ... and start it again, to join as a learner.
RepairDone ==
  /\ repair = "removed" /\ repair' = "no"
  /\ UNCHANGED <<store, voteProc, ballotHeld, saving, promised, listed, upsets>>

\* The cluster removes this node while it is down; a quorum without it
\* committed that, and its votes count for nothing any more.
RemovedFromCluster ==
  /\ listed = "voter" /\ voteProc = "down" /\ repair = "no"
  /\ upsets.removals < MaxRemovals
  /\ listed' = "no" /\ promised' = NoBallot
  /\ upsets' = [upsets EXCEPT !.removals = @ + 1]
  /\ UNCHANGED <<store, voteProc, ballotHeld, saving, repair>>

VoteInit ==
  /\ \E schema \in 0..2, snap \in {"none", "v0", "v1"} :
       /\ snap = "v0" => schema = 0
       /\ store = [file |-> "whole", schema |-> schema, snap |-> snap, vote |-> NoBallot]
  /\ voteProc = "down" /\ ballotHeld = NoBallot /\ saving = "no"
  /\ promised = NoBallot /\ listed = "voter" /\ repair = "no"
  /\ upsets = [stops |-> 0, damage |-> 0, removals |-> 0]

VoteNext ==
  \/ StartNode \/ MadeVoter
  \/ \E v \in Ballots : HearVote(v)
  \/ SaveVote \/ SavePanics \/ SendAnswer \/ Stops
  \/ \E kind \in {"truncated", "corrupt"} : DiskDamages(kind)
  \/ MoveStoreAside \/ RemovedForRepair \/ RepairDone \/ RemovedFromCluster

VoteSpec == VoteInit /\ [][VoteNext]_voteVars

-----------------------------------------------------------------------------
\* A voter never goes back behind a vote it has answered: across crashes,
\* damage and restarts it cannot give a second vote where it gave one, nor
\* follow a leader it has voted past (storage.rs, save_vote and new).
PromiseKept ==
  voteProc = "up" /\ listed = "voter" => ~Under(ballotHeld, promised)
=============================================================================
