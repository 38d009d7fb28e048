\* Authentication and DNS on, a failed connect() is reported without HUP.
SPECIFICATION Spec
CONSTANTS
    AuthRequired = TRUE
    DnsEnabled = TRUE
    HupOnFailure = FALSE
    MaxAddresses = 4
INVARIANTS
    AuthGate
    NoSilentWait
    AddressIndexValid
    ConnectFailureAnswered
PROPERTIES
    ImplementsSocks5
    ConnectSettles
CHECK_DEADLOCK FALSE
