SPECIFICATION MCSpec
CONSTANTS
    ExplicitTicks = 2
    LinkLostTicks = 4
    MailboxCapacity = 1
    MaxQueueTicks = 1
    Others = {"LethalDeath", "SuccessfulExtraction", "FaultRestoration"}
    Requests = {"r1", "r2"}
    MaxTick = 6
    MaxConnections = 3
INVARIANTS SessionInv RecallIsDue CompletionsAreMet OneWriter ServedUntilEnded
PROPERTIES AbandonedEnds
CHECK_DEADLOCK FALSE
