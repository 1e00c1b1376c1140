CONSTANTS
    Threads = {t1, t2}
    Started = {t1, t2}
    DeadRefsMade = FALSE
    NULL = NULL
    GC = GC
    MaxRounds = 1
SPECIFICATION Spec
CHECK_DEADLOCK FALSE
INVARIANT DeadReferencesTakeNoLock
