SPECIFICATION Spec
CONSTANTS
    s1 = s1
    s2 = s2
    s3 = s3
    Parts = {"lookup", "denial", "overlay", "stream", "ingest", "poll"}
INVARIANTS WithinBudget TypeOK AnswersAreReference  ServedIsCurrent
    TransferIsTheirs KeyedPollIsAuthentic
SYMMETRY Symmetry
CHECK_DEADLOCK FALSE
