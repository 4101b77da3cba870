SPECIFICATION FairSpec
CONSTANT Parts = {"batch", "ingest", "poll"}
PROPERTY Completes
CHECK_DEADLOCK FALSE
