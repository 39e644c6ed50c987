CONSTANTS
  Runner = {r1, r2}
  MaxIterations = 2
  RequiredRuns = 2
  MaxRetries = 1
  MaxLeases = 11
  MaxLapses = 11
  MaxFaults = 0
  MaxDrafts = 1
  MaxRevalidations = 0
SPECIFICATION MCSpec
SYMMETRY Sym
INVARIANTS LogReplays EffectOnce BundleIsTable
CHECK_DEADLOCK FALSE
