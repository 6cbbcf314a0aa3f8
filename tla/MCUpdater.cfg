SPECIFICATION Spec
CONSTANTS
    Helpers = {h1, h2}
    LastVersion = 2
    SwapOverlaps = FALSE
    MaxSessions = 3
    MaxCrashes = 1
    MaxFailures = 1
SYMMETRY Symmetry
INVARIANTS TypeOK OneHolder PluginWhole CopyLeft NeverBack NothingLeftWaiting
CHECK_DEADLOCK FALSE
