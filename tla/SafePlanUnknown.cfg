SPECIFICATION EitherSpec
CONSTANTS
  Modes = {TRUE}
  w1 = w1
  w2 = w2
  Windows <- TwoWindows
  None = None
  Rounds = 1
  MaxPlans = 1
  MaxAsks = 1
  MaxVersions = 1
  StorageMayFail = FALSE
  SafeChains = {1}
  Hosted = {1}
  MaxSafeNonce = 1
  MaxTheirs = 0
  SaveMayFail = FALSE
INVARIANTS
  UnknownStaysBlocked
