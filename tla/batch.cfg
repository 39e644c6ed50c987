SPECIFICATION Spec
CONSTANTS
    Worker = {w1, w2}
    Session = {s1, s2}
    Review = {v1, v2}
    Artifact = {a1}
    ClaimTtl = 2
    HeartbeatTtl = 1
    MaxFailedReviews = 2
    ClaimBound = 3
    WaitBound = 1
    Horizon = 3
INVARIANT TypeOK
INVARIANT OneIterationAtATime
PROPERTY KeepsPromise
SYMMETRY Symmetry
CHECK_DEADLOCK FALSE
