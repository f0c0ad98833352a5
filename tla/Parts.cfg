SPECIFICATION PartsSpec
CONSTANTS
  Fetches = {1, 2, 3, 4}
  Cap = 2
  Retries = 2
  Sources = {"rpc", "wallet"}
  MaxAttempts = 120
  Providers = {"injected", "safe"}
  SafeProvider = "safe"
  Networks = {1, 2}
  Accounts = {"account"}
  ReviewedNetwork = 1
  ReviewedAccount = "account"
  Tries = 2
  Nobody = "nobody"
  Ids = {"a", "b"}
  Empty = "empty"
  MaxLookups = 4
  Readers = {1, 2}
  MaxId = 3
  Page = 1
  Rows = {1, 2, 3, 4, 5, 6}
  PageSize = 2
  MaxTotal = 5
  BlockGas <- BlockGasChoices
  UsedGas <- UsedGasChoices
  MaxFailures = 4
  MaxLogs = 6
  Counts = {1}
  Parents <- ParentChoices
  Stages <- StageChoices
  MaxStages = 3
  FirstStarts = {0, 25}
  Unset = Unset
  Now = 10
  Lead = 8
  Margin = 2
  Windows = {w1, w2}
  None = None
  Requests = {r1, r2}
  NoRequest = NoRequest
  Calls = 2
  MaxAsks = 4
  Failing = {"hash", "undo", "remove"}
  TrayChains = {1, 2}
  Pools <- OnePool
  MaxChanges = 2
  MaxSends = 1
INVARIANTS
  SlotsExact
  HintFresh
  CacheHonest
  AllPending
  RetryGasEnough
  BurnsMatched
  WindowKeepsOrder
  SendJournaled
  SentOnce
  InOrder
PROPERTIES
  FetchEnds
  PollSettles
  SentWhereReviewed
  SlotsAreSendJournals
  HookBeforePool
