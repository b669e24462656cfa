CONSTANTS
  plain = plain
  force = force
  next = next
  glob = glob
  first = first
  again = again
  later = later
  rain = rain
  s1 = s1
  s2 = s2
  Series <- MCSeries
  Writers <- MCWriters
  Work <- MCWork
  ByRows <- MCByRows
  Forced <- MCForced
  Casts <- MCCasts
  MaxKills = 2
  Absent = Absent
SPECIFICATION FairSpec
CHECK_DEADLOCK FALSE
INVARIANTS
  TypeOK
  NoGapsBehind
  ChecksHold
PROPERTIES
  FirstWriterStores
