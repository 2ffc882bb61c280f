SPECIFICATION MCSpec
CONSTANTS
  Tasks = {t1, t2}
  NoTask = NoTask
  MaxSequence = 3
  MaxConnections = 2
  MaxVersion = 2
  MaxRequests = 1
  Window = 1
  ReorderCap = 1
INVARIANTS NoHoleWhileAvailable RouteNeverRewinds PublishesPrefix GapsCanFill
PROPERTIES WrittenIsPublished
CHECK_DEADLOCK FALSE
