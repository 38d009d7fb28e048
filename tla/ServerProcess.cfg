\* Two sessions, and descriptors for four of their sockets beside the standard
\* streams, the poller and the listening socket, for five once that is closed.
SPECIFICATION Spec
CONSTANTS
    Fds = {0, 1, 2, 3, 4, 5, 6}
    Sessions = {s1, s2}
    Listens <- MCListens
    Customs <- MCCustoms
    ResolvFiles <- MCResolvFiles
    MaxBatch = 2
INVARIANTS
    StopClosesOwn
    EachHeldOnce
    SessionsStayWatched
    LookupsSurvive
PROPERTIES
    InterruptEnds
CHECK_DEADLOCK FALSE
