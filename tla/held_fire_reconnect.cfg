SPECIFICATION IngressSpec
CONSTANTS
  Pickups = {}
  PerTick = 1
  CacheSize = 2
  MaxInput = 3
  MaxActions = 0
  MaxRequests = 0
  MaxLosses = 1
  MaxRestarts = 0
CHECK_DEADLOCK FALSE
INVARIANTS HeldFireStaysLegal
