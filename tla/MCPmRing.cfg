SPECIFICATION Spec
CONSTANTS
  NBUF = 2
  Modulos = {0, 1}
  MAX_PM_BUFFERS = 3
  MaxCycles = 7
INVARIANTS
  CopyIntact
  NoCycleMissing
  PublishedLatestFirst
  RowsInBounds
PROPERTIES
  RefinesHistory
  LatestIsRowZero
  EverySeenStopIsPublished
