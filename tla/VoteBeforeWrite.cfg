SPECIFICATION DurSpec
CONSTANTS
  Voters = {a, b, c}
  Founder = a
  Candidates = {b}
  Restarts = {}
  MaxTerm = 2
  MaxWal = 2
  MaxLog = 3
  AsyncRpo = 1
  RewindBytes = 1
  DivergedVotes = TRUE
  LateWrites = TRUE
INVARIANT LeaderHoldsAcked
CHECK_DEADLOCK FALSE
