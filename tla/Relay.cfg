\* Both sockets in one batch; a buffer fits a writable socket.
SPECIFICATION Spec
CONSTANTS
    BufSize = 2
    SndBuf = 2
    LowWater = 2
    MaxBatch = 2
    MaxBytes = 4
INVARIANTS
    WriteWatchedHasData
    ReadsRestored
    LostOnlyByCrossing
    Fifo
    EofDelivered
    NeverCrashes
PROPERTIES
    ImplementsPipe
    Delivered
CHECK_DEADLOCK FALSE
