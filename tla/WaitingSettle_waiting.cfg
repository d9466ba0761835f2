SPECIFICATION Spec
CONSTANTS
  Threads = {1, 2}
  Above <- Line
  Hidden = {}
  Grace = 1
  Roots = {1}
  Running = {2}
  Messaged = {2}
  Askers = {}
  Background = {}
  Pinnable = {}
  Snoozed = {}
  MaxChoices = 2
  MaxFaults = 1
PROPERTIES LandsAfterGrace EndsForAReason LandsUnmessaged
CHECK_DEADLOCK FALSE
