SPECIFICATION StreamSpec
CONSTANTS
  HeaderCells = 1
  FrameCells = 2
  WireCells = 2
  MaxTries = 2
  StreamMessages = 2
  MaxConns = 2
  MaxFaults = 0
PROPERTY CloseCancelsReceive
CHECK_DEADLOCK FALSE
