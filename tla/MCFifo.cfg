CONSTANTS
    DEPTH = 4
    Data = {v1, v2}
SPECIFICATION FifoSpec
INVARIANTS
    CountMatchesPointers
PROPERTIES
    ImplementsQueue
