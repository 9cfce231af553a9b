CONSTANTS
  Nodes = {1, 2, 3}
  Quorums <- MCQuorums
  Founder = 1
  Lease = 4
  FollowerLease = 2
  ElectionMin = 2
  VoteTtl = 1
  QuorumTimeout = 2
  MetricsDelay = 0
  FenceBound = 1
  OpenBound = 1
  RestartMin = 0
  MaxCrashes = 1
  Candidates = {1, 2}
  MaxTerm = 3
SPECIFICATION Spec
VIEW MCView
CONSTRAINT MCCrashTerms
INVARIANTS
  AtMostOneWriter
  LeaseWithinDuration
PROPERTIES
  GateSeesNoOlderLease
