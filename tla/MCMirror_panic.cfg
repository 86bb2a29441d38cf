SPECIFICATION Spec
CONSTANTS
    c1 = c1
    c2 = c2
    MpdStates <- StopStates
    Setters = {}
    SetVolumes <- Volumes
    SetKinds <- AllSetKinds
    PositionCalls = FALSE
    Faults = {}
    QueueBound = 2
INVARIANT IdleTaskLives
