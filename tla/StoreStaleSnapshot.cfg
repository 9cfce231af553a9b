CONSTANTS
  Nodes = {n1}
  ConfigNodes = {n1}
  Payloads <- MCKinds
  LastIndex = 2
  MaxCrashes = 1
  BuildOverlapsInstall = TRUE
SPECIFICATION Spec
INVARIANT
  NoEntryLost
