SPECIFICATION Spec
CONSTANTS
    Scenario <- DequeueWithTimeout
    None = None
INVARIANTS
    ReplayAgrees
CHECK_DEADLOCK FALSE
