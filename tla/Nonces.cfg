SPECIFICATION NoncesSpec
CONSTANTS
  Windows = {w1, w2}
  None = None
  Chains = {c1, c2}
  MaxRequests = 3
  MaxTime = 1
  MaxNonce = 1
  MaxRows = 2
  StorageMayFail = TRUE
  SafeChains = {1, 2}
  Hosted = {1}
  MaxSafeNonce = 1
  MaxTheirs = 1
  SaveMayFail = FALSE
SYMMETRY Alike
CHECK_DEADLOCK FALSE
INVARIANTS TypeOK OneLiveRequestPerNonce LiveReserved QueuedOnce
PROPERTIES ReservedUntilDead
