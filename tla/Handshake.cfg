\* A recv() returns all there is, or one, two or five octets.
SPECIFICATION Spec
CONSTANTS
    Dialogs <- MCDialogs
    Params <- MCParams
    Garbage = {0, 3, 255}
    MessageSize = 8192
    ReplySize = 262
    Pieces = {1, 2, 5}
INVARIANTS
    HeardAsSent
    RefusedForReason
    RepliesWellFormed
CHECK_DEADLOCK FALSE
