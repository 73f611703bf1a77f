SPECIFICATION Spec
CONSTANTS
    k1 = k1
    k2 = k2
    Partitions = {k1, k2}
    Logs <- ReorderedLogs
    WindowDuration = 2
    LatenessTolerance = 1
    Second = 2
    CommitMaxAttempts = 3
    Null = Null
    MaxRestarts = 1
    MaxFailures = 0
INVARIANTS
    LateNeverReflows
CHECK_DEADLOCK FALSE
