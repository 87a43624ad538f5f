SPECIFICATION FairSpec
CONSTANTS
  Plates = {a, b}
  NoPlate = NoPlate
  Days = {today}
  NoKey = NoKey
  FailThreshold = 2
  BusyThreshold = 3
  BlockThreshold = 2
  SessionThreshold = 2
  MaxJobs = 2
  MaxEvents = 2
PROPERTY UndeliveredIsRetried
CHECK_DEADLOCK FALSE
