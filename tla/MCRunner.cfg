SPECIFICATION Spec
CONSTANTS
    e1 = e1
    e2 = e2
    e3 = e3
    c1 = c1
    Null = Null
    Attempts = {a1, a2}
    Execs = {e1, e2, e3}
    CheckIds = {c1}
    Checks <- MCChecks
    MaxTime = 1
    MaxRepeats = 1
    ReferenceWindow = 1
    MinSamples = 2
CONSTRAINTS LongListApart MishapsApart
SYMMETRY AttemptSymmetry
INVARIANTS
    TerminalExplained
    ShownRunningIsOpen
    MetricsBacked
    SamplesJoined
    AlertsBacked
    OneAlertPerFinding
PROPERTY KeepsContract
