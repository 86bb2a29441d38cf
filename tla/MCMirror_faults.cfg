SPECIFICATION Spec
CONSTANTS
    c1 = c1
    c2 = c2
    MpdStates <- MixedStates
    Setters = {}
    SetVolumes <- Volumes
    SetKinds <- AllSetKinds
    PositionCalls = TRUE
    Faults = {"song", "status", "idle", "emit"}
    QueueBound = 1
INVARIANTS CacheFollowsMpd SongSignalled
