SPECIFICATION FairSpec
CONSTANTS
    a1 = a1
    Agent = {a1}
    NoAgent = NoAgent
    Result = {x}
    NoResult = NoResult
    MaxSub = 5
    NoBlock = NoBlock
    TypeOf <- MCFirstUnroutable
    Budget = 4
    Fanout = 2
    MaxRetries = 1
    MaxInFlight = 5
    TimedOut = {TRUE, FALSE}
    Window = 2
    FailuresOver = 1
    OutOf = 1
    ExpiryBound = 0
    CrashBound = 0
PROPERTY
    AllSettle
CHECK_DEADLOCK FALSE
