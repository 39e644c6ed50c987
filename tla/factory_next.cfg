CONSTANTS
  Runner = {r1}
  MaxIterations = 2
  RequiredRuns = 1
  MaxRetries = 0
  MaxLeases = 12
  MaxLapses = 0
  MaxFaults = 0
  MaxDrafts = 1
  MaxRevalidations = 0
SPECIFICATION Spec
INVARIANT FailureHasNextStep
CHECK_DEADLOCK FALSE
