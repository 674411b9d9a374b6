\* The host inserts another layer under the id of one it removed.
CONSTANTS
    Paths = {"p"}
    Budgets <- Small
    InitialBudget <- One
    BoundSublayer = FALSE
    ReplacesRemoved = TRUE
    MaxGeneration = 2
SPECIFICATION Spec
INVARIANTS SynchronizeIsCurrent
