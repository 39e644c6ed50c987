CONSTANTS
  Job = {j}
  Build = {b}
  Syncer = {p, q}
  Rebuilder = {q}
  PageSize = 2
  MaxFeed = 2
  MaxVersion = 1
  MaxRerender = 0
  MaxFaults = 1
  FirstFeed = 1
SPECIFICATION Spec
INVARIANTS ResetIsDetected
