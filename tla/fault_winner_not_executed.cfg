SPECIFICATION RunSpec
CONSTANTS
    MaxRuns = 1
    MaxLosses = 0
    MaxCrashes = 1
    MaxUses = 0
    ExitClockCompared = FALSE
CHECK_DEADLOCK FALSE
PROPERTIES
    FaultWinnerIsExecuted
