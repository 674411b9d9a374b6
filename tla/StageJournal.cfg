SPECIFICATION Spec
CONSTANTS
    Observers = {o1, o2}
    Subscribers = {s1, s2}
    Sizes <- Small
    Budgets <- Few
    InitialBudget <- TwoBatches
    MaxRevision = 3
    MaxTokens = 2
SYMMETRY Symmetric
INVARIANTS
    TypeOK
    RepliesComplete
    ExpiryMeansLoss
    SubscribersHearEveryReport
    TokensNameTheirCallback
PROPERTY
    ExpiryIsForGood
CHECK_DEADLOCK FALSE
