CONSTANTS
    Words <- MCWords
    MaxAddrs = 5
    PageAddrs = 2
    BinaryThreshold = 2
    LineWords = 2
    Slack = 1
    MaxDepth = 3
    LookasideSize = 3
    MaxWords = 1
SPECIFICATION Spec
CHECK_DEADLOCK FALSE
INVARIANTS
    ReadsMapped
    FoundOrMarked
    TreeSound
    LookupComplete
PROPERTIES
    SearchSpec
    LookupEnds
