CONSTANTS
    Threads = {t1, t2}
    NULL = NULL
    GC = GC
    QueueLimit = 2
    Throttle = 2
    AutoModes = {0, 1}
    MayForce = TRUE
    MaxBuffers = 4
    MaxRetires = 6
SPECIFICATION FairSpec
CHECK_DEADLOCK FALSE
INVARIANTS
    TypeOK
    RoomToPush
    OneReclaimer
    NoLostWakeup
PROPERTIES
    ThrottleBounds
    EmptyOnlyUnsignalled
    RetireReturns
    HandedOverIterated
