--------------------------- MODULE MCLeaseFencing ---------------------------
(***************************************************************************)
(* LeaseFencing for TLC: majorities of the voters, and a view that forgets *)
(* the date.  Every guard compares a stamp with the clock, and each against *)
(* a fixed bound, so two states whose stamps are equally old, up to the     *)
(* bound the guards look at, have the same futures: the view keeps the ages *)
(* capped there and the state graph is finite without a bound on time.      *)
(***************************************************************************)
EXTENDS LeaseFencing

MCQuorums == {Q \in SUBSET Nodes : 2 * Cardinality(Q) > Cardinality(Nodes)}

Age(t, cap) == IF t = NoTime THEN NoTime ELSE IF now - t > cap THEN cap ELSE now - t

\* How long the lease lasts; of a lapsed one, how long ago while that matters.
Left(n) ==
  LET floor == IF pg[n] = "primary" THEN 0 - FenceBound ELSE 0
      left  == leaseExp[n] - now
  IN  IF left < floor THEN floor ELSE left

MCView ==
  <<alive, crashes, vote, seenTerm, seenLeader, leaseLeader, pg, ro,
    [n \in Nodes |->
      <<IF pg[n] = "standby" /\ view[n] # n THEN NoNode ELSE view[n],
        IF alive[n] THEN 0 ELSE Age(downAt[n], RestartMin),
        IF RaftLeader(n) = n THEN 0 ELSE Age(contact[n], FollowerLease + 1),
        IF vote[n].node = n /\ ~vote[n].committed
          THEN <<granted[n], Age(stood[n], VoteTtl + 1)>> ELSE <<>>,
        Age(ack[n], QuorumTimeout + MetricsDelay),
        IF Dirty(n) THEN Age(dirtyAt[n], MetricsDelay) ELSE 0,
        Left(n),
        IF n \in Candidates \cup {Founder} THEN Age(anchor[n], Lease) ELSE NoTime,
        Age(opening[n], OpenBound), Age(openAnchor[n], Lease)>>]>>

\* A crash is followed through the second term: after a third one the hold-down
\* that a restart forgets costs contract L1.
MCCrashTerms == crashes > 0 => \A n \in Nodes : vote[n].term <= 2

=============================================================================
