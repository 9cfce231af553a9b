CONSTANTS
  Clusters = {blue, green}
  Origin = blue
  NoCluster = none
  Replicas = {r1, r2, r3}
  Third = r3
  Majorities <- MCMajorities
  MaxEpoch = 1
  MaxWrites = 1
  MaxFailovers = 1
  SerialOperator = TRUE
SPECIFICATION FaultsSpec
SYMMETRY FaultsSymmetry
CONSTRAINT Faults
VIEW FaultsView
INVARIANT
  CutoverSafe
