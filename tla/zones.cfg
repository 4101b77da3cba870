SPECIFICATION Spec
CONSTANTS
    t1 = t1
    t2 = t2
    Parts = {"one", "two", "full", "nested", "race", "compact"}
INVARIANTS TypeOK AppliedAsHeld  LookupIsLongestMatch EntryIsRightful
 
SYMMETRY Symmetry
CHECK_DEADLOCK FALSE
