SPECIFICATION BatchSpec
CONSTANTS
  TrayChains = {1, 2}
  Pools <- OnePool
  MaxChanges = 2
  MaxSends = 1
INVARIANTS
  SaidSentWasSent
CHECK_DEADLOCK FALSE
