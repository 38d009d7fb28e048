\* Connect attempts as Linux reports them.
SPECIFICATION Spec
CONSTANTS
    AuthRequired = FALSE
    DnsEnabled = TRUE
    HupOnFailure = TRUE
    MaxAddresses = 2
INVARIANTS
    ConnectFailureAnswered
CHECK_DEADLOCK FALSE
