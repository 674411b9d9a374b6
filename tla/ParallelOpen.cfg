SPECIFICATION Spec
CONSTANTS
    Root = Root
    A = A
    B = B
    C = C
    Sources = {Root, A, B, C}
    Nowhere = Nowhere
    Threads = {t1, t2}
    Graphs <- MCGraphs
    Contents <- MCContents
    Catalogs <- MCCatalogs
    Policies = {"Strict", "AllowRecovery"}
INVARIANTS SameAsOneThread
CHECK_DEADLOCK FALSE
