CONSTANTS
    Threads = {t1, t2}
    Addrs = {a1, a2}
    Buffers = {b1, b2, b3}
    NULL = NULL
    RangeSize = 1
    PageAddrs = 2
    DefaultCapacity = 2
    MaxCapacity = 2
    MaxRounds = 3
SYMMETRY Symmetry
SPECIFICATION Spec
CHECK_DEADLOCK FALSE
INVARIANT SlotUntagged
