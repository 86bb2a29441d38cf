SPECIFICATION Spec
CONSTANTS
    c1 = c1
    c2 = c2
    MpdStates <- ShuffleStates
    Setters = {c1}
    SetVolumes <- Volumes
    SetKinds <- AllSetKinds
    PositionCalls = TRUE
    Faults = {"status"}
    QueueBound = 1
INVARIANTS TypeOK NoLostSignal CacheFollowsMpd
