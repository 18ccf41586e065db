SPECIFICATION NodesSpec
CONSTANTS
  n1 = n1
  n2 = n2
  k1 = k1
  Nodes = {n1, n2}
  Foreign = {n2}
  None = None
  NoKey = NoKey
  Offset <- MCOffset
  Policy <- MCPolicy
  Requests <- MCRequests
  CommandTimeout = 1
  Retention = 2
  IdempotencyTtl = 4
  CommandLimit = 2
  HeartbeatTimeout = 1
  Skew = 1
  ReplayLimit = 3
  NonceLimit = 1
  MaxTime = 4
  MaxIssued = 2
  MaxFaults = 1
  LastFault = 0
  MaxTraces = 2
  Size = 2
  Hop = 1
  PendingLimit = 2
  HintLimit = 2
  CountModulus = 2
  Arrivals <- MCArrivals
  Epochs = {0, 2}
  MaxDatagrams = 3
  Streams = {1, 2}
  MaxAttempts = 2
  Reconnect = TRUE
  MaxCommands = 3
  MaxBreaks = 1
INVARIANTS OutcomesBalance AcceptedWasApplied RetriesDoNotRepeat LetInOnce SpectraAreSound StartedAsAuthored
CHECK_DEADLOCK FALSE
