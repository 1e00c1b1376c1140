CONSTANTS
    Capacity = 4
    MaxLen = 3
    MaxPushes = 11
SPECIFICATION Spec
CHECK_DEADLOCK FALSE
INVARIANTS
    IndicesApart
    CopyIsPrefix
PROPERTY
    FifoSpec
