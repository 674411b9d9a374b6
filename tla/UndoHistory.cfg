\* The host records, groups, undoes, marks and unwinds; others edit and record nothing.
CONSTANTS
    a = a
    b = b
    c = c
    d = d
    v = v
    w = w
    None = None
    Paths <- Family
    Values = {v, w}
    Transactions <- Shared
    Outside <- Foreign
    Limit = 2
    MayUnwind = TRUE
    MaxRecorded = 3
    MaxOutside = 1
    MaxMarks = 1
    MaxResets = 1
    MaxDepth = 2
SPECIFICATION LineSpec
INVARIANTS TypeOK BoundKept NothingStaleAlone TreeIntact StepsAreUnique
PROPERTIES IsLinear RefusalKeepsContent OutsideEditsSurvive UnwindReachesMark
