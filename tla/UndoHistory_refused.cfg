\* An undo is refused after another tool put a prim under the removed name.
CONSTANTS
    a = a
    b = b
    c = c
    d = d
    v = v
    w = w
    None = None
    Paths <- Row
    Values = {v}
    Transactions <- InRow
    Outside <- Moved
    Limit = None
    MayUnwind = FALSE
    MaxRecorded = 2
    MaxOutside = 1
    MaxMarks = 0
    MaxResets = 0
    MaxDepth = 0
SPECIFICATION Spec
PROPERTIES RefusalChangesNothing
