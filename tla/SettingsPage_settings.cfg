SPECIFICATION SettingsSpec
CONSTANTS
  Fields = {f, g}
  Values = {on, off}
  Default = off
  Bad = bad
  NoCopy = none
  NoCall = nocall
  MaxEdits = 2
  MaxOthers = 1
  MaxFaults = 1
  MaxSyncs = 1
PROPERTIES CopyFollows OnlyWhatWasAsked
CHECK_DEADLOCK FALSE
