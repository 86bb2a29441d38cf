SPECIFICATION FairSpec
CONSTANTS
    c1 = c1
    c2 = c2
    Calls = {c1}
    CallKinds <- SomeKinds
    SubscribesHup = FALSE
    FiniteRetries = TRUE
    Faults = TRUE
    UserTerm = TRUE
    IdlePanics = FALSE
    MaxReloads = 0
PROPERTIES CallCompletes IdleTaskReturns GiveUpExits
