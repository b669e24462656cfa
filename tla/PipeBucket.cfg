CONSTANTS
  r1 = r1
  r2 = r2
  r3 = r3
  d1 = d1
  d2 = d2
  wrf1 = wrf1
  NoTag = NoTag
  Sample = Sample
  Runs = {r1, r3}
  Dates = {d1, d2}
  Tags = {NoTag, wrf1}
  DateOf <- Twice
  Near <- NextDays
  WrfDateOf <- FirstDay
  TagOf <- Untagged
  Forced = {}
  Named = {}
  KeepLocal = {}
  Script = "Forecast_150.sh"
  Simultaneous = FALSE
  HmsStatus = {0, 1}
  Stocks <- AllOrMean
  FaultSets = {{}, {"fetch", "rain", "todss", "update", "hms", "tocsv", "tidal", "kill"}, {"rain", "todss", "update", "hms", "tocsv", "todat", "kill"}}
SPECIFICATION FairSpec
CHECK_DEADLOCK FALSE
INVARIANTS
  OwnFilesHandedOver
  UploadsProduced

  
