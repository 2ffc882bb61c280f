SPECIFICATION MCSpec
CONSTANTS
    Frames = {"f1", "f2"}
    TickReserve = 2
    MaxTick = 4
    MaxTransports = 3
    MaxRequests = 3
INVARIANTS AcceptedTickAhead IntentInv DeliveredOnce
PROPERTIES InstalledIsCurrent 
CHECK_DEADLOCK FALSE
