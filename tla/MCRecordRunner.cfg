SPECIFICATION Spec
CONSTANTS
    k1 = k1
    k2 = k2
    Partitions = {k1, k2}
    Logs <- AllLogs
    WindowDuration = 2
    LatenessTolerance = 1
    Second = 2
    CommitMaxAttempts = 3
    Null = Null
    MaxRestarts = 2
    MaxFailures = 1
INVARIANTS
    WindowsComplete
    CommittedAccounted
    WindowsAdvance
    LateCountedOnce
    WindowsIdentified
CHECK_DEADLOCK FALSE
PROPERTY KeepsDelivery
