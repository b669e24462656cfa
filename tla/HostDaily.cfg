CONSTANTS
  r1 = r1
  r2 = r2
  r3 = r3
  d1 = d1
  d2 = d2
  Runs = {r1, r2, r3}
  Dirs = {d1, d2}
  DirOf <- TwoOfThree
  Pacing = "spaced"
  MaxStops = 2
  Absent = Absent
  Cut = Cut
SPECIFICATION FairSpec
CHECK_DEADLOCK FALSE
INVARIANTS
  AckedInputsUsed
  NeverBlocked
PROPERTY
  AckedRunLaunches
