SPECIFICATION ConsensusSpec
VIEW ConsensusView
CONSTRAINT MCGates
CONSTANTS
  Scenarios = {"durability", "vote", "membership", "rpc", "store"}
  Voters = {a, b, c}
  Founder = a
  Candidates = {b}
  Restarts = {a}
  MaxTerm = 2
  MaxWal = 2
  MaxLog = 3
  AsyncRpo = 1
  RewindBytes = 1
  DivergedVotes = TRUE
  LateWrites = FALSE
  VoteFor = {1, 2}
  VoteSlips = {}
  MaxVoteTerm = 2
  MaxStops = 2
  MaxDamage = 1
  MaxRemovals = 1
  Members = {m1, m2, m3, m4}
  Seeds = {m1, m2, m3}
  Handlers = {1, 2}
  MaxRequests = 2
  MaxMoves = 2
  Returning = FALSE
  Requests = {"Vote"}
  MaxCalls = 3
  MaxConns = 2
  MaxStale = 1
  Nodes = {n1}
  ConfigNodes = {n1}
  Payloads <- StoreKinds
  LastIndex = 2
  MaxCrashes = 2
  BuildOverlapsInstall = FALSE
INVARIANTS
  LeaderHoldsAcked
  PromiseKept
  MembershipSound
  CallsKeepApart
  NoEntryLost
  MembershipAtPosition
  SnapshotCoversPurge
  SentIsInstallable
  NeverRefused
PROPERTY
  VoterLeavesByRemoval
CHECK_DEADLOCK FALSE
