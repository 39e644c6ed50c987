CONSTANTS
  Job = {j}
  Build = {b}
  Syncer = {p, q}
  Rebuilder = {p, q}
  PageSize = 2
  MaxFeed = 2
  MaxVersion = 1
  MaxRerender = 1
  MaxFaults = 1
  FirstFeed = 1
SPECIFICATION Spec
SYMMETRY Interchangeable
INVARIANTS TypeOK ClaimsPaired CommittedIsMirrored NothingSkipped
PROPERTIES MirrorAdvances
