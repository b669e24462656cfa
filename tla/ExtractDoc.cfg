CONSTANTS
  e1 = e1
  e2 = e2
  e3 = e3
  f1 = f1
  f2 = f2
  f3 = f3
  DayLength = 2
  MaxLeads = 2
  Wanted <- MCWanted
  FloodCells <- MCFloodCells
  Place <- MCPlace
  Inputs <- MCInputs
  Missing = Missing
SPECIFICATION Spec
CHECK_DEADLOCK FALSE
INVARIANT
  LastDayStored
