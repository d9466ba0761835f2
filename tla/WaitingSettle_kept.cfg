SPECIFICATION Spec
CONSTANTS
  Threads = {1, 2}
  Above <- Line
  Hidden = {}
  Grace = 1
  Roots = {1}
  Running = {2}
  Messaged = {}
  Askers = {}
  Background = {2}
  Pinnable = {}
  Snoozed = {}
  MaxChoices = 2
  MaxFaults = 0
PROPERTIES LandsAfterItsGrace
CHECK_DEADLOCK FALSE
