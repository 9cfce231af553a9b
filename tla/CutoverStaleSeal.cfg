CONSTANTS
  Clusters = {blue, green}
  Origin = blue
  NoCluster = none
  Replicas = {r1, r2}
  Majorities <- MCMajorities
  MaxEpoch = 2
  MaxWrites = 1
  MaxFailovers = 0
  SerialOperator = FALSE
SPECIFICATION Spec
SYMMETRY MCSymmetry
VIEW MCView
INVARIANTS
  DrainComplete
