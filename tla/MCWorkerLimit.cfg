SPECIFICATION Spec
CONSTANTS
    r1 = r1  r2 = r2  w1 = w1  w2 = w2  plain = plain  gpu = gpu
    Runtime = {r1}
    Worker = {w1, w2}
    Host <- OneHost
    Session = {s1, s2}
    NoSession = NoSession
    Tag = {plain}
    Accepts <- AnyTag
    StableIds = TRUE
    LockTimeout = 2
    SessionTimeout = 2
    IdleTimeout = 2
    MaxSessions = 1
    MaxAttempts = 1
    MaxDelay = 1
    RenewErrors = FALSE
    MaxRows = 2
    MaxTokens = 3
    MaxFaults = 1
INVARIANTS
    SessionLimit
CHECK_DEADLOCK FALSE
