SPECIFICATION FairSpec
CONSTANTS
    Items = {a}
    NoItem = NoItem
    Duration = 2
    Targets = {0, 1}
    QueueFrames = 1
    MaxRecoveries = 1
    Hardware = FALSE
    MaxHardwareErrors = 1
    MaxCommands = 2
    MaxStops = 1
PROPERTIES StopReturns PreviewShown PlaysToEnd
CHECK_DEADLOCK FALSE
