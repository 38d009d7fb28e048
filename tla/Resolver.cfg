\* Two sessions look up twice; of two ports, given out again at
\* any time; the network is at its worst.
SPECIFICATION Spec
CONSTANTS
    s1 = s1
    s2 = s2
    p1 = p1
    p2 = p2
    Sessions = {s1, s2}
    Names = {"a", "b", "long"}
    BadNames = {"long"}
    Hosts <- MCHosts
    NoHost = "none"
    AddressOf <- MCAddressOf
    Ports = {p1, p2}
    Lossy = TRUE
    MaxLookups = 2
INVARIANTS
    AnswersOwnQuestion
    OncePerRequest
PROPERTIES
    Resolved
CHECK_DEADLOCK FALSE
