SPECIFICATION FairSpec
CONSTANTS
  N = 4
  CYCLE = 5
  Stamps <- MCStamps
  Offsets <- MCOffsets
  RETRIES = 2
  Burst = 1
  MaxArrivals = 5
  MaxBuffers = 2
INVARIANTS
  LookedUpWhole
  SuccessFits
  WaitEndsWithNews
  OwnTableUsed
PROPERTY CallReturns
