SPECIFICATION Spec
CONSTANTS
  FMT_ROWS = 2
  SOE_LUT_ROWS = 2
  SOE_HLD_ROWS = 2
  EV99 = 3
  HDR = 2
  SSL = 2
  NSAM = 5
  Fmts <- OnceEach
  Luts <- AnyLuts
  Strategies = {"lut", "null"}
  Strides = {2}
  MaxCycles = 2
INVARIANTS
  SortedLutLosesNothing
  NeverHeldTwice
  ClientSeesHeld
  HoldFitsIfDistinct
\* The acquisition stops after MaxCycles buffers; the task then waits for one.
CHECK_DEADLOCK FALSE
