SPECIFICATION Spec
CONSTANTS
  w1 = w1
  w2 = w2
  r1 = r1
  r2 = r2
  Windows <- TwoWindows
  None = None
  Requests <- TwoRequests
  NoRequest = NoRequest
  Calls = 2
  MaxAsks = 3
  Failing <- BeforeTheWallet
INVARIANTS
  SentOnce
