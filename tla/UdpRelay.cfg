\* One association, nine kinds of requests, four of answers.
SPECIFICATION Spec
CONSTANTS
    client = client
    stranger = stranger
    near = near
    far = far
    ClientHost = client
    IPv4Hosts <- Hosts4
    Requests <- MCRequests
    Answers <- MCAnswers
    LittleEndian = TRUE
INVARIANTS
    Solicited
    CrashOnlyOnTruncated
    DroppedForReason
PROPERTIES
    ImplementsAssociation
CHECK_DEADLOCK FALSE
