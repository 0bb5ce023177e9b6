\* The parts of the control plane next to the remediation life cycle, one at a time.
SPECIFICATION PartsSpec
CONSTANTS
  Letters = {a, b}
  Star = Star
  Quest = Quest
  MaxPattern = 5
  MaxText = 4
  None = None
  Events <- MCEvents
  Directories <- MCDirectories
  MaxLabel = 4
  MaxProposals = 2
  MaxLoads = 2
  Signatures <- MCSignatures
  Recorders = {r1, r2}
  MaxRecords = 3
  Agents = {a1}
  Keys = {"env", "role"}
  Values = {"prod", "test", "web"}
  Puts <- MCPuts
  Writers = {w1, w2}
  StaleAfter = 1
  OfflineAfter = 2
  MaxTime = 2
  MaxPuts = 2
  KubeEvents = {k1}
  HostEvents = {h1}
  Texts = {"x1", "x2"}
  Ingesters = {i1, i2}
  Capacity = 2
  MaxDeliveries = 2
  MaxTrips = 1
  Configs <- MCConfigs
  Bearers <- MCIngestBearers
  Requests <- MCRequests
  Clients = {c1, c2}
  BucketSize = 2
  Refill = 1
  MaxClock = 2
  MaxRequests = 4
  BridgeTokens <- MCBridgeTokens
  MaxEventLimit = 4
  DefaultLimit = 2
  LimitWidth = 3
  Limits = {0, 3, 6, 8, 14}
  MaxLines = 3
INVARIANTS GlobIsRight CommandsAreSound ShownIsRun NoPartialEntry HistoryIsHonest RegistryIsTrue FeedAgreesWithTable 
PROPERTY GlobReturns
CHECK_DEADLOCK FALSE
