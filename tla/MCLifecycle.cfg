SPECIFICATION Spec
CONSTANTS
    r0 = r0  r1 = r1  r2 = r2  solo = solo  parent = parent  child = child
    Runtime = {r0, r1, r2}
    Instance = {solo, parent, child}
    NoInstance = NoInstance
    Registered <- Processes
    Root = {solo, parent}
    Mailbox = {solo}
    Child <- FirstIsChild
    Kinds <- KindsOf
    Continues = {solo}
    MaxStarts = 1
    MaxExec = 2
    MaxCalls <- CallsOf
    MaxData = 2
    MaxWaits <- WaitsOf
    MaxCancels = 1
    MaxCarry = 1
    MaxFaults = 1
INVARIANTS
    TypeOK OwnAnswersMatch NoOrphanWork ContinuationPending QueueOrder AwaitedChildAnswers
PROPERTIES
    QueueKept QueueCarried
SYMMETRY RuntimeSymmetry
CHECK_DEADLOCK FALSE
