SPECIFICATION Spec
CONSTANTS
    Null = Null  Root = root  Kid = kid
    Key = {k1, k2}
    Value = {a}
    MaxKeys = 1
    MaxStarts = 2
    MaxCalls = 2
    MaxEffects = 2
    MaxExec = 2
INVARIANTS
    SnapshotKept ClientSeesReplay StatusIsAccumulated ReadIsLinearizable
    OneIncarnation NoOrphanRow
PROPERTIES
    PruneSparesRunning
SYMMETRY KeySymmetry
CHECK_DEADLOCK FALSE
