CONSTANTS
    Nodes = {n1, n2, n3}
    Siblings = {s1, s2}
    Main = s1
    NRanges = 2
    LookasideSize = 2
    MaxWords = 1
    MaxRoots = 1
SPECIFICATION FairSpec
CHECK_DEADLOCK FALSE
INVARIANTS
    MarkedReachable
    NotifiedComplete
PROPERTIES
    MarksFinal
    ParentGoesOn
