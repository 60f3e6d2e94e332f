SPECIFICATION Spec
CONSTANTS
  Signals = {s1}
  None = None
  Commands = {}
  ManualResume = FALSE
  StableProfile = FALSE
  MaxDay = 1
  MaxFaults = 1
  MaxCrashes = 0
  MaxStarts = 1
  MaxCommands = 0
INVARIANTS
  LostAuditIsLatched
CHECK_DEADLOCK FALSE
