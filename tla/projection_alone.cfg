CONSTANTS
  Job = {j}
  Build = {b}
  Syncer = {q}
  Rebuilder = {q}
  PageSize = 1
  MaxFeed = 3
  MaxVersion = 2
  MaxRerender = 0
  MaxFaults = 2
  FirstFeed = 1
SPECIFICATION FairSpec
PROPERTIES RebuildConverges CaughtUp
