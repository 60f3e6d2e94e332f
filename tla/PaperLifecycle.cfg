SPECIFICATION Spec
CONSTANTS
  Signals = {s1, s2}
  None = None
  Commands = {"pause", "close"}
  ManualResume = FALSE
  StableProfile = TRUE
  MaxDay = 2
  MaxFaults = 1
  MaxCrashes = 1
  MaxStarts = 2
  MaxCommands = 2
SYMMETRY SignalSymmetry
INVARIANTS
  TypeOK
  UnfinishedWorkIsMarked
  EveryEntryAudited
  PauseLetsAtMostOneThrough
  HaltedDayIsPaused
PROPERTIES
  BookIsAudited
  RefusalDoesNotHeal
  HaltedDayOpensNothing
CHECK_DEADLOCK FALSE
