CONSTANTS
  Runner = {r1}
  MaxIterations = 2
  RequiredRuns = 2
  MaxRetries = 0
  MaxLeases = 13
  MaxLapses = 0
  MaxFaults = 1
  MaxDrafts = 1
  MaxRevalidations = 1
SPECIFICATION Spec
INVARIANT Readable
CHECK_DEADLOCK FALSE
