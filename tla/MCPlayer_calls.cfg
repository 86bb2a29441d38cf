SPECIFICATION Spec
CONSTANTS
    Duration <- SomeDurations
    Times <- SomeTimes
    Progress <- SomeProgress
    MaxCalls = 2
    MaxOthers = 2
INVARIANTS NextLandsOnce PreviousKeepsState SeekedTruthfulForward
