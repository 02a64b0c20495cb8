SPECIFICATION FairSpec
CONSTANTS
    Instance = {i1, i2}
    Dispatcher = {d1}
    Unsupported = {}
    LockTimeout = 2
    MaxAttempts = 1
    MaxDelay = 1
    Stray = TRUE
    MaxRows = 2
    MaxTokens = 7
    MaxFaults = 0
    MaxAckErrors = 0
PROPERTIES StartsHandled
CHECK_DEADLOCK FALSE
