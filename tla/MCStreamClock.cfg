SPECIFICATION ClockSpec
CONSTANTS
    MaxDelta = 3
    LastTime = 30
    Callers = {"video", "audio"}
    Lags <- MCLags
    Skews <- MCSkews
    LoadTime = 6
    FinalTime = 12
INVARIANTS NearNow
PROPERTIES InStep
