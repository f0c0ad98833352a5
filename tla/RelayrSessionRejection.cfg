SPECIFICATION Spec
CONSTANTS
  w1 = w1
  w2 = w2
  f1 = f1
  f2 = f2
  Windows <- TwoWindows
  Flows <- TwoFlows
  None = None
  MaxBundles = 1
  MaxAsks = 1
  Worlds <- LocksAndStorage
PROPERTIES
  RejectionStands
