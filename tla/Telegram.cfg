SPECIFICATION TelegramSpec
CONSTANTS
  Keys = {k1, k2, k3}
  NoKey = NoKey
  Poison = {k1}
  Flushers = {f1}
  Limit = 2
  MaxNotices = 3
  MaxTroubles = 2
  Kinds = {"pause", "resume", "report", "broken"}
  MaxUpdates = 3
  MaxBreaks = 2
  MaxOrders = 2
INVARIANTS
  OutboxTypeOK SentIsShown RepeatedOnlyInDoubt
  CommandsTypeOK NoCommandSkipped
PROPERTIES
  QueuedArrives PauseLiftedByNewOrder CommandsArrive
CHECK_DEADLOCK FALSE
