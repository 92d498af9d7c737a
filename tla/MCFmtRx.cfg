SPECIFICATION Spec
CONSTANTS
  r1 = r1
  r2 = r2
  MaxQ = 3
  Refs = {r1, r2}
  Depths = {0, 1, 2}
  Tables <- MCTables
  TrgEvents = {0, 7}
  MaxArrivals = 5
SYMMETRY RefSymmetry
INVARIANTS
  SlotsConserved
  FilledIsHistory
  HeldIntact
  NoLostWakeup
PROPERTIES
  TriggerIsAnEdge
  RefinesWindow
