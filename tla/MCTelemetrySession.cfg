SPECIFICATION MCSpec
CONSTANTS
  MaxConnections = 3
  MaxLosses = 2
  MaxRestarts = 1
  MaxTime = 3
INVARIANTS TelemetryInv CrashesInTheirSession
PROPERTIES RecoversUndisturbed
CHECK_DEADLOCK FALSE
