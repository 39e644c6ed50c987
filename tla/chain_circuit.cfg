SPECIFICATION FairSpec
CONSTANTS
    a1 = a1
    Agent = {a1}
    NoAgent = NoAgent
    Result = {x}
    NoResult = NoResult
    MaxSub = 2
    NoBlock = NoBlock
    TypeOf <- MCOneType
    Budget = 2
    Fanout = 2
    MaxRetries = 1
    MaxInFlight = 2
    TimedOut = {TRUE}
    Window = 2
    FailuresOver = 1
    OutOf = 2
    ExpiryBound = 0
    CrashBound = 0
PROPERTY
    CircuitLetsGo
CHECK_DEADLOCK FALSE
