SPECIFICATION Spec
CONSTANTS
  Signals = {s1}
  None = None
  Commands = {}
  ManualResume = FALSE
  StableProfile = FALSE
  MaxDay = 1
  MaxFaults = 0
  MaxCrashes = 1
  MaxStarts = 2
  MaxCommands = 0
PROPERTIES
  CompleteMeansCertain
CHECK_DEADLOCK FALSE
