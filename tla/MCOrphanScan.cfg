SPECIFICATION FairSpec
CONSTANTS
    a1 = a1
    a2 = a2
    a3 = a3
    e1 = e1
    e2 = e2
    Null = Null
    Attempts = {a1, a2, a3}
    Execs = {e1, e2}
    ExecOf <- MCExecOf
    Threshold = 2
    MaxDuration = 2
    LastStart = 1
    MaxTime = 5
    MaxRepeats = 1
INVARIANTS
    OnlyAbandonedAborted
    FinalizedOnce
    AbortAlertBacked
PROPERTY OrphansFinalized
