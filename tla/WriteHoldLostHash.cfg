SPECIFICATION Spec
CONSTANTS
  w1 = w1
  w2 = w2
  Windows <- TwoWindows
  NoWindow = NoWindow
  MaxAttempts = 1
  StorageMayFail = TRUE
  UserKeepsWord = FALSE
PROPERTIES
  QueuedReleaseKeepsHash
