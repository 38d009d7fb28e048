\* Both sockets are readable in one batch and neither send() takes everything.
SPECIFICATION Spec
CONSTANTS
    BufSize = 2
    SndBuf = 2
    LowWater = 2
    MaxBatch = 2
    MaxBytes = 3
INVARIANTS
    ScheduledIsWatched
CHECK_DEADLOCK FALSE
