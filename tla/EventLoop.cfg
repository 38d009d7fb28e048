\* Two session addresses, batches of up to three events, a poll that times out.
SPECIFICATION Spec
CONSTANTS
    Slots = {s1, s2}
    Server = Server
    Null = Null
    MaxBatch = 3
    TimedPoll = TRUE
INVARIANTS
    NoDanglingEvent
    PollerTracksSessions
PROPERTIES
    StopEndsServe
CHECK_DEADLOCK FALSE
