SPECIFICATION FairSpec
CONSTANTS
  AggSites <- MCAggSites
  IsAdc <- MCIsAdc
  SiteSsb <- MCSiteSsb
  Ssb = 16
  Nsam = 10
  LongBytes = 4
  CalSites <- MCCalSites
  CalLen <- MCCalLen
  MaxVersion = 2
  Early <- AllButSizes
INVARIANTS
  CopyAgrees
  ValidIsWhole
  AggregateInOrder
PROPERTY SoeGoesOn
CHECK_DEADLOCK FALSE
