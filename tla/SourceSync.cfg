\* Two prims: what each notice says of which.
CONSTANTS
    Paths = {"p", "q"}
    Budgets <- Small
    InitialBudget <- One
    BoundSublayer = TRUE
    ReplacesRemoved = FALSE
    MaxGeneration = 2
SPECIFICATION Spec
INVARIANTS TypeOK SynchronizeIsCurrent
