SPECIFICATION Spec
CONSTANTS
  Catalogued = FALSE
  Primaries = 1
  SerialBits = 2
  Offered = {0, 3}
  ExpireAfter = 1
  RefreshDelays = {1}
  RetryDelays = {1}
  InitialDelays = {1}
  LossyQueue = TRUE
  MaxClock = 3
  MaxPlan = 1
  MaxGen = 1
  MaxVer = 3
  MaxSecret = 1
  MaxQueue = 1
INVARIANTS TypeOK ActiveHasStatus
PROPERTIES SerialAdvances AckedExpiry
