SPECIFICATION EngineSpec
CONSTANTS
  MaxWritten = 2
  MaxUpsets = 1
  MaxChain = 1
INVARIANT CountsEachEventOnce
PROPERTY CaughtUp
CHECK_DEADLOCK FALSE
