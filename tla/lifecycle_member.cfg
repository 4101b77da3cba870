SPECIFICATION Spec
CONSTANTS
  Catalogued = TRUE
  Primaries = 1
  SerialBits = 2
  Offered = {0, 1}
  ExpireAfter = 1
  RefreshDelays = {1}
  RetryDelays = {1}
  InitialDelays = {1}
  LossyQueue = FALSE
  MaxClock = 2
  MaxPlan = 2
  MaxGen = 3
  MaxVer = 3
  MaxSecret = 0
  MaxQueue = 1
INVARIANTS NoResurrection PublishedByOwnLife ExpiryRearmed LifeInv
