SPECIFICATION Spec
CONSTANTS
  Bids <- MCBids
  Spreads = {1, 3}
  MaxSpread = 2
  Distances = {45, 75}
  RewardTenths = 18
  SlipTicks = 1
  Commission = 1
  Approvals = {3, 5}
  LotMin = 1
  LotStep = 2
  BreakEvenTenths = 6
  TrailStartTenths = 8
  TrailDistanceTenths = 5
INVARIANTS
  TypeOK
  StopFollowsExcursion
  ExitNeverBetterThanMarket
  LossWithinBudget
  LedgerCanMark
PROPERTY PositionIsProtected
CHECK_DEADLOCK FALSE
