SPECIFICATION ProgressSpec
CONSTANTS
  Concerns = {"recovery", "provisioning", "slots", "yield", "process"}
  RVoters = {1, 2, 3}
  Base = 3
  Stagger = 3
  VoteBudget = 1
  Positions = {1, 2}
  LogEnds = {1, 2}
  MaxLosses = 1
  JoinAttempts = 2
  MaxFaults = 3
  Unrepaired = {}
  SlotNodes = {"a", "b", "c"}
  LateAlter = FALSE
  MaxMoves = 1
  MaxMemberChanges = 1
  YieldNodes = {1, 2, 3}
  YieldBound = 2
  YieldCooldown = 2
  Freshness = 2
  CatchupSlack = 0
  WalPlaces = {1, 2}
  MaxWedged = 1
  MaxSlips = 1
  MaxElections = 1
  FenceThreshold = 2
  ProbeThreshold = 2
  MaxProcFaults = 3
  MaxLeases = 2
INVARIANT
  SetListStays
PROPERTIES
  ElectableIsElected
  DataIsKept
  FollowsAgain
  LeaderSlotsSettle
  LeaderServes
  FenceLands
  ServesAgain
CHECK_DEADLOCK FALSE
