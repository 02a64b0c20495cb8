SPECIFICATION FairSpec
CONSTANTS
    r1 = r1  r2 = r2  w1 = w1  w2 = w2  plain = plain  gpu = gpu
    Runtime = {r1, r2}
    Worker = {w1, w2}
    Host <- TwoHosts
    Session = {s1}
    NoSession = NoSession
    Tag = {plain, gpu}
    Accepts <- Specialised
    StableIds = FALSE
    LockTimeout = 2
    SessionTimeout = 2
    IdleTimeout = 2
    MaxSessions = 1
    MaxAttempts = 1
    MaxDelay = 1
    RenewErrors = FALSE
    MaxRows = 1
    MaxTokens = 3
    MaxFaults = 2
PROPERTIES
    EveryActivityEnds CancelledStops
CHECK_DEADLOCK FALSE
