SPECIFICATION Spec
CONSTANTS
    Callers = {c1, c2, c3}
    Spare = 2
    MayRefuse = TRUE
INVARIANTS
    TypeOK
    BRunsOnce
    ClaimCoversJob
PROPERTY
    JoinsReturn
CHECK_DEADLOCK FALSE
