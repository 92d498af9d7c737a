SPECIFICATION FairSystem
CONSTANTS
  AggSites <- MCAggSites
  IsAdc <- MCIsAdc
  SiteSsb <- MCSiteSsb
  Ssb = 16
  Nsam = 10
  LongBytes = 4
  CalSites <- MCCalSites
  CalLen <- MCCalLen
  MaxVersion = 1
  Early <- AllButNsam
  MaxRuns = 2
  Capacity = 1
INVARIANTS
  OneChild
  EnvAgrees
PROPERTIES
  StopIsLast
  StopEndsChild
CHECK_DEADLOCK FALSE
