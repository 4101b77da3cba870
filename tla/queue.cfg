SPECIFICATION Spec
CONSTANTS
  Zones = {"catalog", "member"}
  Catalog = "catalog"
  Capacity = 1
  MaxTasks = 2
  Permits = 1
  MaxPlan = 2
  MaxToken = 1
  MaxGen = 1
INVARIANTS TypeOK PendingKeysExact SuppressionBacked InProgressBacked
CHECK_DEADLOCK FALSE
