SPECIFICATION Spec
CONSTANTS
    a1 = a1
    Agent = {a1}
    NoAgent = NoAgent
    Result = {x}
    NoResult = NoResult
    MaxSub = 2
    NoBlock = NoBlock
    TypeOf <- MCOneType
    Budget = 2
    Fanout = 2
    MaxRetries = 1
    MaxInFlight = 2
    TimedOut = {TRUE, FALSE}
    Window = 1
    FailuresOver = 1
    OutOf = 1
    ExpiryBound = 1
    CrashBound = 0
INVARIANT
    FinishedWorkNotRedone
CHECK_DEADLOCK FALSE
