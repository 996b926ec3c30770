CONSTANTS
    DEPTH = 2
    Data = {0, 1, 2, 3, 4}
    MaxBytes = 4
SPECIFICATION Spec
INVARIANTS
    TypeOK
    NoByteLost
    ReadsWhatFifoDelivers
    StatusMeansByte
PROPERTIES
    AcceptedOnce
    ByteReachesProgram
