SPECIFICATION FairSpec
CONSTANTS
  Zones = {"catalog", "member"}
  Catalog = "catalog"
  Capacity = 1
  MaxTasks = 1
  Permits = 1
  MaxPlan = 2
  MaxToken = 0
  MaxGen = 4
PROPERTIES MarkEnds ApplyCompletes DrainEnds
CHECK_DEADLOCK FALSE
