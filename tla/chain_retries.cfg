SPECIFICATION Spec
CONSTANTS
    a1 = a1
    Agent = {a1}
    NoAgent = NoAgent
    Result = {x}
    NoResult = NoResult
    MaxSub = 4
    NoBlock = NoBlock
    TypeOf <- MCOneType
    Budget = 3
    Fanout = 2
    MaxRetries = 1
    MaxInFlight = 2
    TimedOut = {TRUE, FALSE}
    Window = 2
    FailuresOver = 1
    OutOf = 2
    ExpiryBound = 2
    CrashBound = 2
INVARIANTS
    TypeOK
    GatedExecution
    CountedOnce
    OneChainPerSubproblem
    OutcomesAttributed
    NoStaleSupervision
CHECK_DEADLOCK FALSE
