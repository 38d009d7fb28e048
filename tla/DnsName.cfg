\* All messages of up to six octets over five values, every name in them.
SPECIFICATION Spec
CONSTANTS
    MaxLength = 6
    Messages <- MCMessages
    MaxLabel = 2
    MaxDomain = 4
    StackDepth = 6
INVARIANTS
    NoOverflow
    Progress
    DecodesName
    RejectsOnlyBad
PROPERTIES
    Terminates
CHECK_DEADLOCK FALSE
