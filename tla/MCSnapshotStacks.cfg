CONSTANTS
    Main = main
    Workers = {w1, w2, w3}
    Collector = gc
    Mappers = {main, w1, w2, w3, gc}
    Nobody = nobody
    Tds = {d0, d1, d2, d3}
    MainTd = d0
    NULL = NULL
    StackBatch = 2
    MaxThreads = 4
    MaxCreates = 3
    MayFail = FALSE
    NPages = 13
    BlockNodes = 2
    MaxRangeSize = 2
    NWords = 6
    UserMaps <- MCUserMaps
    MetaBlock = 7
    TdBatch = 8
    MaxRanges = 8
    MaxMaps = 2
SPECIFICATION Spec
SYMMETRY MCSymmetry
CHECK_DEADLOCK FALSE
INVARIANT StacksScanned
