SPECIFICATION PanicSpec
CONSTANTS
    a = a
    b = b
    c = c
    d = d
    e = e
    f = f
    g = g
    h = h
    i = i
    j = j
    Caller = caller
    Workers = {w1, w2}
    Tasks <- Wood
    Adds <- WoodAdds
    Phases <- WoodPhases
    Limit = 3
INVARIANT
    WaitsOnlyOnWorkBeingDone
CHECK_DEADLOCK FALSE
