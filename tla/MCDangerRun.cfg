SPECIFICATION FairRunSpec
CONSTANTS
    MaxRuns = 2
    MaxLosses = 1
    MaxCrashes = 2
    MaxUses = 2
    ExitClockCompared = FALSE
CHECK_DEADLOCK FALSE
INVARIANTS
    LocationFollowsRoot
    RestartResolves
    RefusedOnlyByLateWrite
    HallIsSettled
PROPERTIES
    PlayerPromise
    AwaitingEnds
    RestartSettles
