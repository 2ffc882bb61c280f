SPECIFICATION MCSpec
CONSTANTS
  Pickups = {p, q}
  PerTick = 1
  CacheSize = 2
  MaxInput = 4
  MaxActions = 2
  MaxRequests = 3
  MaxLosses = 1
  MaxRestarts = 1
CHECK_DEADLOCK FALSE
INVARIANTS IngressInv AcceptedPressesAreCast ExecutedOnce RetryAnswersAlike
