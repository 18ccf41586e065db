SPECIFICATION Spec
CONSTANTS
  HeaderCells = 1
  FrameCells = 2
  WireCells = 2
  MaxTries = 2
  StreamMessages = 2
  MaxConns = 2
  MaxFaults = 1
  SequenceWindow = 2
  SequenceMax = 2
  MaxCopies = 2
  MaxDatagrams = 4
  Producers = {p1, p2}
  Consumers = {c1, c2}
  ChannelCapacity = 2
  ChannelMessages = 3
  Hosts = {h1, h2}
  Listeners = {l1, l2}
  Connectors = {k1}
  DataSlots = 1
  ControlSlots = 2
  RecordSize = 2
  OrdinaryBudget = 3
  ControlBudget = 5
  InputPatience = 2
  MaxControls = 3
INVARIANTS StreamIsFaithful DescriptorsOutliveOperations AnomaliesAddUp NameIsKept RecordsAreWhole
PROPERTIES BlockedWorkEnds ChannelIsFifo RadioServes
CHECK_DEADLOCK FALSE
