SPECIFICATION Spec
CONSTANT Parts = {"crash", "disordered", "ack", "listed", "batch", "aged"}
INVARIANTS TypeOK RestoreIsWhole FreshnessIsEarned AcknowledgedIsKept
PROPERTIES ImplementsLastGood 
CHECK_DEADLOCK FALSE
