SPECIFICATION EngineSpec
CONSTANTS
  MaxWritten = 2
  MaxUpsets = 1
  MaxChain = 1
PROPERTY HistoryStays
CHECK_DEADLOCK FALSE
