SPECIFICATION Spec
CONSTANTS
    LateNs = 2
    StartupNs = 20
    JitterNs = 7
    MaxLeadNs = 15
    StartLeadNs = 4
    SlewDivisor = 2
    Durations = {2}
    ClockSteps = {0, 2, 18, 30}
    PlayOffsets <- MCPlayOffsets
    ClockOrigin = 100
    ClockEnd = 140
INVARIANTS NeverLate OverlapOnlyToFollow
PROPERTIES GapOnlyAfterStall
