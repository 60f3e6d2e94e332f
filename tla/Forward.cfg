SPECIFICATION ForwardSpec
CONSTANTS
  PaperTrades = {p1, p2}
  Manual = Manual
  MaxOpenTrades = 1
  MaxOpenRisk = 2
  Unmeasured = 9
  Equities = {95, 100}
  Balance = 100
  FloatingLimit = 8
  DailyLimit = 3
  MaxTicket = 2
  MaxDate = 2
  MaxMoves = 3
  MaxMishaps = 1
  LastDay = 4
  LastYear = 2
  NeededYear <- Needs
  Rebalances = {2, 4}
  LookDays <- When
  FutilityFrom = 2
  MinCoverage = 50
  SnapshotAge = 2
  Markets <- Finds
  Downloads <- Files
  CaptureDays = {1, 2}
  MaxChanges = 2
  Starters = {s1, s2}
  NoOne = NoOne
  Dead = Dead
  LastSealable = 2
  MaxFailures = 2
INVARIANTS
  DemoTypeOK SecondFillNeedsALostOne OwnPositionsBounded DailyLossStopsEntries
  RecordTypeOK VerdictIndependentOfSchedule OnlyBarsContradict DecidedOnSealedInflation
  RoutineTypeOK LockGuardsLedger
PROPERTIES
  RecordedNeverReopened AccountFollowsBook BookIsMirrored RecordIsAppendOnly BulletinIsKept RecordCatchesUp
CHECK_DEADLOCK FALSE
