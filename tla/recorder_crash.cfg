SPECIFICATION Spec
CONSTANTS
    s1 = s1
    s2 = s2
    r1 = r1
    Agent = {a1}
    NoAgent = NoAgent
    Lease = {1, 2}
    NoLease = 0
    Result = {x, y}
    NoResult = NoResult
    Sub = {s1, s2}
    NoBlock = NoBlock
    Root = {r1}
    RootOf <- MCRootOf
    Cap = {2}
    DefaultCap = 1
    InboxBound = 1
SYMMETRY Symmetry
CONSTRAINT MCLostBound
INVARIANT
    BudgetCrashSafe
CHECK_DEADLOCK TRUE
