SPECIFICATION Spec
CONSTANTS
  Signals = {s1}
  None = None
  Commands = {"pause"}
  ManualResume = FALSE
  StableProfile = FALSE
  MaxDay = 2
  MaxFaults = 0
  MaxCrashes = 0
  MaxStarts = 1
  MaxCommands = 1
PROPERTIES
  ForeignPauseKept
CHECK_DEADLOCK FALSE
