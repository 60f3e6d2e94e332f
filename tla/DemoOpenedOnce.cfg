SPECIFICATION DemoSpec
CONSTANTS
  PaperTrades = {p1, p2}
  Manual = Manual
  MaxOpenTrades = 1
  MaxOpenRisk = 2
  Unmeasured = 9
  Equities = {95, 100}
  Balance = 100
  FloatingLimit = 8
  DailyLimit = 3
  MaxTicket = 2
  MaxDate = 2
  MaxMoves = 3
  MaxMishaps = 1
INVARIANT OpenedOnce
CHECK_DEADLOCK FALSE
