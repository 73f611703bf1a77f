SPECIFICATION Spec
CONSTANTS
    k1 = k1
    k2 = k2
    Partitions = {k1, k2}
    Logs <- InOrderLogs
    WindowDuration = 2
    LatenessTolerance = 1
    Second = 2
    CommitMaxAttempts = 3
    Null = Null
    MaxRestarts = 0
    MaxFailures = 1
INVARIANTS
    FailedStayUncommitted
CHECK_DEADLOCK FALSE
