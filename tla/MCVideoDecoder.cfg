SPECIFICATION FairSpec
CONSTANTS
    MaxHardwareErrors = 2
    MaxStreamErrors = 3
    MaxUnits = 2
    MaxStreams = 3
INVARIANTS ReceivedIsHeld SetsOfThisStream
PROPERTIES FailingHardwareLeft
CHECK_DEADLOCK FALSE
