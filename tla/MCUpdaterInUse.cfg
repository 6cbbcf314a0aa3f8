SPECIFICATION Spec
CONSTANTS
    Helpers = {h1, h2}
    LastVersion = 2
    SwapOverlaps = FALSE
    MaxSessions = 2
    MaxCrashes = 0
    MaxFailures = 0
PROPERTIES NotReplacedInUse
CHECK_DEADLOCK FALSE
