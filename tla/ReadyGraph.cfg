SPECIFICATION Spec
CONSTANTS
  MaxApplications = 2
  MaxForeign = 1
  MaxFiles = 1
  MaxSessions = 2
  MaxHalves = 3
  MaxRotations = 1
  MaxSnapshots = 2
  Members <- MCMembers
  Grace = 1
  MaxGeneration = 3
  MaxNow = 2
  MaxReads = 2
  RingSize = 2
  Window = 3
  MaxBytes = 4
  MaxInspections = 3
  QueueCapacity = 2
  BatchSize = 2
  MaxPendingQueries = 1
  MaxRows = 2
  MaxRecords = 3
  MaxQueries = 2
  MaxMaintenance = 1
  PipeCells = 1
  OutputLimit = 2
  InputCells = 3
  MaxOutput = 3
  QueueLimit = 2
  MaxFileBytes = 6
  MaxPackets = 2
  HeaderSize = 1
  FrameSizes <- MCFrameSizes
  MaxEvents = 3
INVARIANTS RecordedIsInForce SnapshotIsWhole OneGeneration SerialIsKept BooksAreTrue TraceIsSound
PROPERTIES EvidenceIsKept FaultsEnd GuestComesUp WaitersAnswered CommandReturns DestructorReturns
CHECK_DEADLOCK FALSE
