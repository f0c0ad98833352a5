SPECIFICATION EitherSpec
CONSTANTS
  Modes = {TRUE, FALSE}
  w1 = w1
  w2 = w2
  Windows <- TwoWindows
  None = None
  Rounds = 2
  MaxPlans = 2
  MaxAsks = 2
  MaxVersions = 1
  StorageMayFail = TRUE
  SafeChains = {1, 2}
  Hosted = {1}
  MaxSafeNonce = 1
  MaxTheirs = 0
  SaveMayFail = TRUE
SYMMETRY Alike
INVARIANTS
  SendRecorded
  RoundOnce
  RoundsDone
  SafeTypeOK
  Accounted
  ExecutedTrue
PROPERTIES
  KnownKept
  RoundsAreSendJournals
