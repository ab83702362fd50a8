CONSTANTS
    t1 = t1
    t2 = t2
    NoThread = NoThread
    Reader = Reader
    Callers <- TwoCallers
    Tuners = {"R820T", "FC0012"}
    MaxChunks = 2
    MaxBlocks = 2
    MaxCalls = 3
    MaxErrors = 1
SPECIFICATION Spec
CHECK_DEADLOCK FALSE
INVARIANTS
    BlocksAccounted
    EndpointFollowsStream
    PauseHolds
    ReportsPerThread
PROPERTIES
    NothingStuck
