SPECIFICATION DurSpec
VIEW DurSeen
CONSTRAINT MCSynchronous
CONSTANTS
  Voters = {a, b, c}
  Founder = a
  Candidates = {a, b}
  Restarts = {}
  MaxTerm = 3
  MaxWal = 2
  MaxLog = 3
  AsyncRpo = 1
  RewindBytes = 1
  DivergedVotes = TRUE
  LateWrites = FALSE
INVARIANT LeaderHoldsAcked
CHECK_DEADLOCK FALSE
