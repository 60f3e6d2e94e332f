SPECIFICATION FairSpec
CONSTANTS
  Signals = {s1}
  None = None
  Commands = {"pause", "resume", "stop", "interrupt", "telegram", "close"}
  ManualResume = FALSE
  StableProfile = FALSE
  MaxDay = 2
  MaxFaults = 1
  MaxCrashes = 0
  MaxStarts = 1
  MaxCommands = 2
PROPERTIES
  StopEndsRun
  CycleSettles
CHECK_DEADLOCK FALSE
