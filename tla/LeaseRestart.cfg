CONSTANTS
  Nodes = {1, 2, 3}
  Quorums <- MCQuorums
  Founder = 1
  Lease = 4
  FollowerLease = 4
  ElectionMin = 2
  VoteTtl = 2
  QuorumTimeout = 2
  MetricsDelay = 0
  FenceBound = 1
  OpenBound = 1
  RestartMin = 1
  MaxCrashes = 1
  Candidates = {2}
  MaxTerm = 3
SPECIFICATION Spec
VIEW MCView
INVARIANTS
  AtMostOneWriter
