SPECIFICATION Spec
CONSTANTS
  Rows = 2
  SecLen = 2
  RowStep = 1
  Throttle <- MCThrottle
  Clock0 = 15
  MaxTime = 17
  EditEvents = {5}
INVARIANTS
  WrTsExact
  StampsOfThisRun
