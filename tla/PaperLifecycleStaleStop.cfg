SPECIFICATION Spec
CONSTANTS
  Signals = {s1}
  None = None
  Commands = {"stop"}
  ManualResume = FALSE
  StableProfile = FALSE
  MaxDay = 1
  MaxFaults = 0
  MaxCrashes = 0
  MaxStarts = 1
  MaxCommands = 2
PROPERTIES
  FreshStopKept
CHECK_DEADLOCK FALSE
