SPECIFICATION Spec
CONSTANTS
    t1 = t1
    t2 = t2
    Parts = {"full"}
INVARIANT RemovedIsGone
SYMMETRY Symmetry
CHECK_DEADLOCK FALSE
