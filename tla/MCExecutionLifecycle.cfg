SPECIFICATION EngineSpec
CONSTANTS
    e1 = e1
    c1 = c1
    Null = Null
    Attempts = {a1}
    Execs = {e1}
    CheckIds = {c1}
    Checks <- MCChecks
    Threshold = 1
    MaxTime = 3
    MaxRepeats = 1
PROPERTY CrashesAreFinalized
