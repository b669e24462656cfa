CONSTANTS
  r1 = r1
  r2 = r2
  d1 = d1
  t1 = t1
  Runs = {r1, r2}
  Dirs = {d1}
  DirOf <- SameDir
  Pacing = "spaced"
  MaxStops = 1
  Absent = Absent
  Cut = Cut
  Triggers = {t1}
  Of <- MCOf
  MaxEvents = 2
SPECIFICATION ExtractSpec
CHECK_DEADLOCK FALSE
INVARIANTS
  ExtractTypeOK
  PassReadsOneRun
  CompleteStaysComplete
PROPERTIES
  OnlyReadersBlock
  TriggerSettles
