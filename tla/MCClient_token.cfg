SPECIFICATION FairSpec
CONSTANTS
    c1 = c1
    c2 = c2
    Calls = {}
    CallKinds <- NoKinds
    SubscribesHup = TRUE
    FiniteRetries = FALSE
    Faults = FALSE
    UserTerm = FALSE
    IdlePanics = FALSE
    MaxReloads = 1
PROPERTY ReloadCompletes
CHECK_DEADLOCK FALSE
