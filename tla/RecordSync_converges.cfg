SPECIFICATION Spec
CONSTANTS
  Threads = {t1}
  Archivable = {t1}
  Rows = {r1}
  NoRow = NoRow
  NoPoint = NoPoint
  NoAnswer = NoAnswer
  MaxEpoch = 2
  MaxRevision = 2
  MaxFaults = 1
  AnyTime = FALSE
INVARIANTS CurrentIsCurrent
PROPERTIES Converges
CHECK_DEADLOCK FALSE
