CONSTANTS
  r1 = r1
  r2 = r2
  r3 = r3
  d1 = d1
  d2 = d2
  Runs = {r1, r2}
  Dirs = {d1, d2}
  DirOf <- OwnDir
  Pacing = "simultaneous"
  MaxStops = 1
  Absent = Absent
  Cut = Cut
SPECIFICATION Spec
CHECK_DEADLOCK FALSE
INVARIANTS
  TypeOK
  CompleteLaunch
  NeverBlocked
PROPERTY
  UndisturbedModel
