SPECIFICATION FairSpec
CONSTANTS
  Catalogued = FALSE
  Primaries = 1
  SerialBits = 2
  Offered = {0, 1}
  ExpireAfter = 1
  RefreshDelays = {1}
  RetryDelays = {1}
  InitialDelays = {1}
  LossyQueue = FALSE
  MaxClock = 3
  MaxPlan = 1
  MaxGen = 1
  MaxVer = 2
  MaxSecret = 0
  MaxQueue = 1
PROPERTIES DueIsAttempted DueIsExpired
