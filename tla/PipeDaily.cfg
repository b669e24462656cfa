CONSTANTS
  r1 = r1
  r2 = r2
  r3 = r3
  d1 = d1
  d2 = d2
  wrf1 = wrf1
  NoTag = NoTag
  Sample = Sample
  Runs = {r1, r2, r3}
  Dates = {d1, d2}
  Tags = {NoTag, wrf1}
  DateOf <- Twice
  Near <- NextDays
  WrfDateOf <- Twice
  TagOf <- ThirdTagged
  Forced = {r2}
  Named = {}
  KeepLocal = {r3}
  Script = "Forecast.sh"
  Simultaneous = TRUE
  HmsStatus = {0, 1}
  Stocks = {{"mean"}}
  FaultSets = {{}, {"rain", "todss", "update", "hms", "tocsv"}, {"todat", "tidal", "send", "kill"}}
SPECIFICATION Spec
CHECK_DEADLOCK FALSE
INVARIANTS
  TypeOK
  NoForeignDischarge
  OwnFilesHandedOver
PROPERTIES
  LedgerImplemented
  RecordOnlyProduced
