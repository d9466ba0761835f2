SPECIFICATION Spec
CONSTANTS
  callers = {c1, c2}
  windows = {w1, w2}
  none = none
  Parts = {"reorder", "store", "closes", "window", "scope", "row", "clock", "pins", "editor", "notify",
           "snooze", "families", "machines", "parent", "device", "stamps", "looks", "settle",
           "watch", "clean", "shut", "portsPage", "scan", "commands"}
SYMMETRY Symmetry
INVARIANTS DrawsEachOnce WhatWaitsIsSeen ListStands TimesAreTrue PinsComeBack  KeepsLooking LooksAreTrue
PROPERTIES SettlesItsOwn NeverShowsAnOlder OthersAreKept KeepsWhatIsOpen
CHECK_DEADLOCK FALSE
