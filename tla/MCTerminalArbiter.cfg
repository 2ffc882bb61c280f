SPECIFICATION ArbiterSpec
CONSTANTS
    Bindings = {"own", "foreign"}
    Own = "own"
    Proposals <- MCProposals
    Results = {1, 2}
    Ticks = {1, 2}
    MaxVersion = 3
    MaxCandidates = 2
INVARIANTS
    WinnerLeadsAdmitted
PROPERTIES
    OutcomeIsFinal
