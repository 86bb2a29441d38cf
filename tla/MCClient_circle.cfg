SPECIFICATION FairSpec
CONSTANTS
    c1 = c1
    c2 = c2
    Calls = {c1}
    CallKinds <- CachedKinds
    SubscribesHup = TRUE
    FiniteRetries = FALSE
    Faults = FALSE
    UserTerm = FALSE
    IdlePanics = FALSE
    MaxReloads = 1
PROPERTY ReloadGetsLocks
CHECK_DEADLOCK FALSE
