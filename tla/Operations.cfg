SPECIFICATION OperationsSpec
CONSTANTS
  Procedures = {"gateway", "backup", "major", "rolling", "fence", "cutover"}
  Servers = {s1, s2}
  Relay = relay
  NoServer = NoServer
  Texts <- MCTexts
  Shapes = {"Parse", "Close", "Bind", "Sync", "CopyDone"}
  MaxMessages = 2
  MaxChanges = 1
  MaxSessions = 2
  StartupRaces = FALSE
  Retention = 2
  MaxBackups = 3
  MaxRestores = 2
  MaxCrashes = 2
  Nodes = {"a", "b"}
  Modes = {"copy", "link"}
  UpgradeLapses = {"election in an upgrade", "link apply fails late"}
  MaxWrites = 2
  MaxSwaps = 2
  MaxCommands = 3
  MaxDeaths = 2
  RollNodes = {"a", "b", "c"}
  Impatient = FALSE
  MaxRolls = 2
  MaxUpsets = 1
  Blind = {}
  SerialSeals = TRUE
  MaxSeals = 2
  MaxDba = 2
  Margin = 1
  CutoverLapses = {}
  MaxRows = 3
  MaxDrives = 2
INVARIANTS
  SessionKept
  NothingForgotten
  CancelReachesOwnSession
  GoodBackupKept
  RunsOnOneOrigin
  OldDataSurvives
  
  OneMajorUnlessAborted
  OneReleaseAtHand
  RollKeepsStandby
  SealStopsClients
  GrantsConserved
  AckedReachesGreen
  SequencesDisjoint
CHECK_DEADLOCK FALSE
