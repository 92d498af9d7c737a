SPECIFICATION Spec
CONSTANTS
  Rows <- MCRows
  MaxSites = 3
  AiSites = {1, 2}
  DiSites = {3}
  FirstAiSite = 1
  FirstDiSite = 3
  NChan <- MCNChan
  AiOffset <- MCAiOffset
  DiOffset <- MCDiOffset
  AiPerSite = 2
  EventMod = 4
  FmtRows = 2
  EventWrites = {1, 2, 5}
  AiWrites <- MCAi
  DiWrites <- MCDi
  Null = Null
INVARIANTS
  OneRowInRam
  EventSetExact
  LastLoadInRam
  DiViewTells
CHECK_DEADLOCK FALSE
