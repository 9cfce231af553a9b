SPECIFICATION ClientFenceSpec
CONSTANTS
  Blind = {"superuser"}
  SerialSeals = TRUE
  MaxSeals = 2
  MaxDba = 2
INVARIANT
  SealStopsClients
CHECK_DEADLOCK FALSE
