SPECIFICATION Spec
CONSTANTS
  w1 = w1
  w2 = w2
  Windows <- TwoWindows
  NoWindow = NoWindow
  MaxAttempts = 2
  StorageMayFail = TRUE
  UserKeepsWord = TRUE
INVARIANTS
  TypeOK
  HeldUntilSettled
  AtMostOneCanLand
PROPERTIES
  RecordOnlyAdvances
  ImplementsAtMostOnce
