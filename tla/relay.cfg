SPECIFICATION Spec
CONSTANTS
    PendingCap = 2
    MaxFrames = 4
    MaxResponses = 1
INVARIANTS
    AudioIsInOrder
    OnlyLateSessionsAreOrphans
    StoppedStaysStopped
PROPERTIES
    CallerIsServed
CHECK_DEADLOCK FALSE
