SPECIFICATION Spec
CONSTANTS
  Threads = {t1, t2}
  Archivable = {}
  Rows = {r1}
  NoRow = NoRow
  NoPoint = NoPoint
  NoAnswer = NoAnswer
  MaxEpoch = 1
  MaxRevision = 2
  MaxFaults = 0
  AnyTime = TRUE
INVARIANTS CurrentIsCurrent
CHECK_DEADLOCK FALSE
