CONSTANTS
    Prims <- MCPrims
    Specs <- MCSpecs
    Times <- MCTimes
    MaxEpoch = 2
    PollsInactive = FALSE
    MaxQueries = 2
    InitialScene <- MCScene
    InitialTime = 0
    Budget <- MCBudget
    MaxCauses = 1
    MaxChanges = 3
SPECIFICATION Spec
VIEW Relevant
INVARIANTS AnswersAreCurrent ChangesAreExplained ArenaOK
