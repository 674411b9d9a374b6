SPECIFICATION FairSpec
CONSTANTS
    a = a
    b = b
    c = c
    d = d
    e = e
    f = f
    g = g
    h = h
    i = i
    j = j
    Caller = caller
    Workers = {w1, w2}
    Tasks <- Wood
    Adds <- WoodAdds
    Phases <- WoodPhases
    Limit = 3
INVARIANTS
    TypeOK
    WorkersCounted
    BudgetBalances
    WorkOnlyOnClaimedThreads
    PendingIsAttended
    CallerIsNotStranded
    NothingLeftBetweenRuns
PROPERTIES
    KeepsPromise
    PoolEnds
CHECK_DEADLOCK FALSE
