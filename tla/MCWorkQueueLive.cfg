\* Every kind has a handler; commands keep being run.
SPECIFICATION FairSpec
CONSTANTS
    Procs = {p1, p2}
    Free = Free
    MarkerIds = {1, 2}
    KindOf <- MCKindOf
    Handled = {"stop", "handoff"}
    Legacy = {"invalid", "old"}
    MaxAttempts = 2
    MaxItems = 1
    MaxEnqueues = 1
    MaxFaults = 1
    MaxCrashes = 1
PROPERTIES EventuallyDrained
CHECK_DEADLOCK FALSE
