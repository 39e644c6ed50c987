CONSTANTS
  Job = {j}
  Build = {b}
  Syncer = {p}
  Rebuilder = {}
  PageSize = 2
  MaxFeed = 2
  MaxVersion = 1
  MaxRerender = 0
  MaxFaults = 0
  FirstFeed = 1
SPECIFICATION Spec
INVARIANTS PromotionShown
