SPECIFICATION Spec
SYMMETRY Symmetry
CONSTANTS
    Items = {a, b}
    NoItem = NoItem
    Duration = 2
    Targets = {0, 1}
    QueueFrames = 1
    MaxRecoveries = 1
    Hardware = TRUE
    MaxHardwareErrors = 1
    MaxCommands = 3
    MaxStops = 1
INVARIANTS TypeOK NothingAfterEnd
PROPERTIES PictureAtTarget PromiseKept
CHECK_DEADLOCK FALSE
