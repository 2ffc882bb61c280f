SPECIFICATION MCSpec
CONSTANTS
    Owners = {"owner", "companion"}
    Transports = {"t1", "t2", "c1"}
    OwnerOf <- MCOwnerOf
    Requests <- MCRequests
    MaxInstances = 2
    Capacity = 2
    FormationTicks = 1
    LinkLostTicks = 2
    MaxTicks = 4
INVARIANTS
    HostInv
    TickFailsOnlyOnRepeat
    OneVoicePerCharacter
PROPERTIES
    RecallOnDeadline
    AbandonedSessionRetires
