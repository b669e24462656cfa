CONSTANTS
  HourTicks = 4
  DayHours = 3
  MaxRuns = 4
  Absent = Absent
  Requests <- MCRequests
SPECIFICATION Spec
CHECK_DEADLOCK FALSE
INVARIANTS
  TypeOK
  RainInOrder
  HourlyTotals
  StartStateFits
  DischargeTimesKept
  TidesOnTheHour
