\* A socket is reported writable although the scheduled bytes do not fit.
SPECIFICATION Spec
CONSTANTS
    BufSize = 2
    SndBuf = 2
    LowWater = 1
    MaxBatch = 1
    MaxBytes = 4
INVARIANTS
    NeverCrashes
CHECK_DEADLOCK FALSE
