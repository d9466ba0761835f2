SPECIFICATION Spec
CONSTANTS
  Threads = {1, 2, 3}
  Above <- Line
  Hidden = {}
  Born = {1, 2}
  Workers = {2, 3}
  Putters = {1, 2}
  Markings = {"parked","snoozed","settled"}
  Undoable = {"set"}
  Prompt = TRUE
  MaxTime = 3
  MaxSet = 1
  MaxFaults = 1
  
PROPERTIES MarkOutlivesQuestion
CHECK_DEADLOCK FALSE
