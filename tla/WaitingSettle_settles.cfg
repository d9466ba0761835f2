SPECIFICATION Spec
CONSTANTS
  Threads = {1, 2}
  Above <- Line
  Hidden = {}
  Grace = 1
  Roots = {1}
  Running = {2}
  Messaged = {}
  Askers = {2}
  Background = {2}
  Pinnable = {1}
  Snoozed = {1}
  MaxChoices = 1
  MaxFaults = 1
PROPERTIES Settles
CHECK_DEADLOCK FALSE
