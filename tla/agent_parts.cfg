\* The parts of the agents next to the command ledger and the event pipeline, one at a time.
SPECIFICATION PartsSpec
CONSTANTS
  Commands = {c1, c2}
  MaxKey = 3
  MaxAttempts = 3
  Intervals = {0, 3, 5}
  MinPoll = 2
  MaxBackoff = 6
  Threshold = 3
  OpenSecs = 4
  ExpCap = 2
  Width = 3
  MaxBatch = 2
  MaxErrors = 4
  Files = {f1, f2}
  Explicit = {f1}
  Contents = {x1, x2}
  Gone = Gone
  MaxChanges = 4
  MaxGeneration = 3
  Records <- MCRecords
  WindowCap = 2
  MinSeverity = 1
  MaxSeverity = 2
  MaxDetected = 3
  MaxCrashes = 1
  MaxBeats = 1
  Uids = {u1, u2}
  Routine = {u2}
  MaxCount = 1
  Nodes = {n1, n2}
  Conditions = {k1}
  MaxEpisodes = 2
  MaxTouches = 1
  MaxExits = 1
  Pods = {p1}
  Lines = {l1, l2, l3, l4}
  Mild = {l4}
  Cap = 2
  Ttl = 2
  TailLines = 2
  MaxReads = 3
  MaxNow = 3
  OrderShape <- MCOrders
  Replicas = {r1, r2}
  MaxHour = 1
  MaxLives = 1
INVARIANTS  PollIsPaced  DigestHolds  DedupRemembers 
PROPERTIES OnlyNewKeysRefused FleetConverges LoopComesBack
CHECK_DEADLOCK FALSE
