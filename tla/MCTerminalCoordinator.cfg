SPECIFICATION CoordinatorSpec
CONSTANTS
    Bindings = {"own", "foreign"}
    Own = "own"
    Proposals <- MCProposals
    Results = {1}
    Ticks = {0, 1, 2}
    MaxVersion = 3
    MaxCandidates = 5
INVARIANTS
    DecisionHeardEveryone
    CandidateEndsTheRun
PROPERTIES
    TicksSealInOrder
