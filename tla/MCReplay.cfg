SPECIFICATION Spec
CONSTANTS
    Scenario <- AllScenarios
    None = None
INVARIANTS
    ReplayAgrees ReplayResumes QueueIsFifo NoStaleEvent NothingLeftToPoll DropsRecordedOnce
CHECK_DEADLOCK FALSE
