---------------------------- MODULE MCDurability ----------------------------
(***************************************************************************)
(* Durability for TLC: a view without what nothing reads, and the          *)
(* constraints of its runs.                                                *)
(***************************************************************************)
EXTENDS Durability

\* Durability without what nothing reads: the list and the timeline of a server
\* that is no primary, and whether a voter has voted for the only candidate.
DurSeen ==
  <<[n \in Voters |-> [raft[n] EXCEPT !.vote = IF Candidates \subseteq {@} THEN None ELSE @]],
    [n \in Voters |->
       IF pg[n].primary THEN pg[n] ELSE [pg[n] EXCEPT !.list = FullList, !.tl = 1]],
    clog, heard, asks, wal, acked>>

\* Where nothing is written between a gate's read and the vote, the read changes
\* nothing else, so it may be put off until the vote can follow it.
MCGates ==
  LateWrites \/ \A a \in asks : \A m \in a.passed :
    \/ raft[m].term > a.term
    \/ raft[m].term = a.term /\ raft[m].vote = a.from
    \/ /\ heard[m] = None /\ GatePasses(m, a) /\ UpToDate(a.last, a.len, raft[m].log)
       /\ a.term > raft[m].term \/ (a.term = raft[m].term /\ raft[m].vote = None)

\* No leader has turned to asynchronous replication.
MCSynchronous ==
  MCGates /\ \A n \in Voters : \A i \in DOMAIN raft[n].log : raft[n].log[i].mode # "async"

=============================================================================
