SPECIFICATION FairSpec
CONSTANTS
  c1 = c1
  c2 = c2
  Clients <- MCClients
  Task = Task
  Shadow = Shadow
  NoOne = NoOne
  Sites = {1, 2}
  MaxSites = 2
  FirstSite = 1
  DiSites = {2}
  NElem <- MCNElem
  Lut = 0
  Words <- MCWords
  Values = {2}
  MaxDepth = 1
  Trips = {2}
  BootBits <- MCBoot
  Calls <- MCCallsOnePort
PROPERTY UserUnlocks
CHECK_DEADLOCK FALSE
