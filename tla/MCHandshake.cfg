CONSTANTS
    Threads = {t1, t2, t3}
    Started = {t1, t2}
    DeadRefsMade = TRUE
    NULL = NULL
    GC = GC
    MaxRounds = 2
SPECIFICATION FairSpec
CHECK_DEADLOCK FALSE
INVARIANTS
    TypeOK
    Barrier
    AckExact
    NoStaleFlag
PROPERTIES
    RoundCompletes
    ThreadsResume
