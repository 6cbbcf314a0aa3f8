SPECIFICATION Spec
CONSTANTS
    MaxQueued = 2
    MaxArrivals = 1
    MaxCalls = 1
    MaxConnections = 1
    HttpCalls <- MCConnect
    StreamCalls <- MCNone
INVARIANTS NoFrameLeftBehind
