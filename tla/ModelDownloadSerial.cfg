\* A model with a projector; a download is asked for when the jobs before it are
\* done with.
SPECIFICATION FairSpec
CONSTANTS
  Tabs = {t1}
  UnitSize = 2
  Pinned = {1, 2}
  Size <- Sizes
  Excess = 1
  Jobs = {1}
  NoJob = 0
  Inodes = {1, 2, 3}
  MaxAtWork = 1
  NoInode = 0
INVARIANTS
  InPlaceIsPinned
  DownloadInv
  CancelLeavesNothing
PROPERTIES
  DownloadEnds
  RetriesConverge
  ImplementsModelStore
CHECK_DEADLOCK FALSE
