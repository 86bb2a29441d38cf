SPECIFICATION Spec
CONSTANTS
    c1 = c1
    c2 = c2
    Calls = {c1}
    CallKinds <- LongKinds
    SubscribesHup = TRUE
    FiniteRetries = TRUE
    Faults = TRUE
    UserTerm = FALSE
    IdlePanics = TRUE
    MaxReloads = 1
INVARIANTS TypeOK LockOrder NoCircularWait OneRequestPerStream CleanStream ReloadTakesEffect
CHECK_DEADLOCK FALSE
