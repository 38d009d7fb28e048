\* Records of every type, alone and in pairs, whole and damaged.
SPECIFICATION Spec
CONSTANTS
    MaxLabel = 2
    MaxDomain = 4
    Messages <- MCMessages
    Marks = {0, 6, 192}
    Capacity = 56
    MaxMessage = 54
INVARIANTS
    RoundTrip
    FailsForReason
    AddressesAsSent
CHECK_DEADLOCK FALSE
