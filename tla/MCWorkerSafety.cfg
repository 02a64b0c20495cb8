SPECIFICATION Spec
CONSTANTS
    r1 = r1  r2 = r2  w1 = w1  w2 = w2  plain = plain  gpu = gpu
    Runtime = {r1, r2}
    Worker = {w1, w2}
    Host <- TwoHosts
    Session = {}
    NoSession = NoSession
    Tag = {plain}
    Accepts <- AnyTag
    StableIds = FALSE
    LockTimeout = 2
    SessionTimeout = 2
    IdleTimeout = 2
    MaxSessions = 1
    MaxAttempts = 2
    MaxDelay = 1
    RenewErrors = TRUE
    MaxRows = 2
    MaxTokens = 3
    MaxFaults = 2
INVARIANTS
    ReportedOnce NothingForgotten StartsBounded
PROPERTIES
    NoReportAfterCancel LockKept
CHECK_DEADLOCK FALSE
