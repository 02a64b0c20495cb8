SPECIFICATION Spec
CONSTANTS
    Instance = {i1, i2}
    Dispatcher = {d1, d2}
    Unsupported = {i2}
    LockTimeout = 2
    MaxAttempts = 1
    MaxDelay = 1
    Stray = TRUE
    MaxRows = 3
    MaxTokens = 8
    MaxFaults = 1
    MaxAckErrors = 1
INVARIANTS FreshItem ConsumedOnce TurnsStopAtTerminal
PROPERTIES NoMessageLost AttemptsBounded InboxSpec
CHECK_DEADLOCK FALSE
