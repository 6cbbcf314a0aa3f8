SPECIFICATION FairSpec
CONSTANTS
    MaxQueued = 2
    MaxArrivals = 1
    MaxCalls = 3
    MaxConnections = 2
    HttpCalls <- MCAllHttp
    StreamCalls <- MCAllStream
INVARIANTS StopOrder CleanAfterLast
PROPERTIES ActiveItemStays  ClearResolves StopCompletes
