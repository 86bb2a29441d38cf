SPECIFICATION FairSpec
CONSTANTS
    Bad = Bad
    Defaults <- SomeDefaults
    Expand <- SomeExpand
    Service = TRUE
    Daemon = FALSE
    Arguments <- SomeArguments
    Environments <- SomeEnvironments
    Contents <- SomeContents
    MaxStarts = 2
    MaxSignals = 2
    MaxEdits = 1
PROPERTY ReloadEnds
