SPECIFICATION FairSpec
CONSTANTS
  w1 = w1
  w2 = w2
  Windows <- TwoWindows
  NoWindow = NoWindow
  MaxAttempts = 2
  StorageMayFail = FALSE
  UserKeepsWord = FALSE
PROPERTIES
  QueuedReleaseKeepsHash
  QueuedReleaseRuns
