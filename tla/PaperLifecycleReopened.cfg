SPECIFICATION Spec
CONSTANTS
  Signals = {s1}
  None = None
  Commands = {"close"}
  ManualResume = FALSE
  StableProfile = TRUE
  MaxDay = 1
  MaxFaults = 0
  MaxCrashes = 0
  MaxStarts = 1
  MaxCommands = 1
PROPERTIES
  ClosedStaysClosed
CHECK_DEADLOCK FALSE
