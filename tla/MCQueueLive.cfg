SPECIFICATION FairSpec
CONSTANTS
    Instance = {i1, i2}
    Dispatcher = {d1}
    Unsupported = {}
    LockTimeout = 2
    MaxAttempts = 1
    MaxDelay = 1
    Stray = FALSE
    MaxRows = 3
    MaxTokens = 7
    MaxFaults = 1
    MaxAckErrors = 0
PROPERTIES EveryMessageHandled
CHECK_DEADLOCK FALSE
