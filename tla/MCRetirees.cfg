CONSTANTS
    Threads = {t1, t2}
    Addrs = {a1, a2}
    Buffers = {b1, b2}
    NULL = NULL
    RangeSize = 2
    PageAddrs = 1
    DefaultCapacity = 1
    MaxCapacity = 2
    MaxRounds = 2
SPECIFICATION FairSpec
CHECK_DEADLOCK FALSE
INVARIANTS
    TypeOK
    
    
    
    

    
    
