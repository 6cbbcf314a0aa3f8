SPECIFICATION FairSpec
CONSTANTS
    Size = 5
    ForwardSkip = 2
    MaxAttempts = 3
    MaxRedirects = 2
INVARIANTS
    StopsAsking
PROPERTIES
    Exact
    CallReturns
CHECK_DEADLOCK FALSE
