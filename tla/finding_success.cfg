SPECIFICATION Spec
CONSTANTS
  Catalogued = FALSE
  Primaries = 1
  SerialBits = 2
  Offered = {0, 1}
  ExpireAfter = 1
  RefreshDelays = {1}
  RetryDelays = {1}
  InitialDelays = {1}
  LossyQueue = FALSE
  MaxClock = 2
  MaxPlan = 1
  MaxGen = 1
  MaxVer = 4
  MaxSecret = 0
  MaxQueue = 1
INVARIANT SuccessIsActive
