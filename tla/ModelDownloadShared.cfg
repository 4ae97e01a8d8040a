\* Two jobs of one file at work at once.
SPECIFICATION Spec
CONSTANTS
  Tabs = {t1, t2}
  UnitSize = 1
  Pinned = {1}
  Size <- Sizes
  Excess = 0
  Jobs = {1, 2}
  NoJob = 0
  Inodes = {1, 2}
  MaxAtWork = 2
  NoInode = 0
INVARIANT InPlaceAlwaysPinned
CHECK_DEADLOCK FALSE
