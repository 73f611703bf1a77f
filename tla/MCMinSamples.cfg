SPECIFICATION Spec
CONSTANTS
    e1 = e1
    e2 = e2
    e3 = e3
    c1 = c1
    Null = Null
    Attempts = {a1, a2}
    Execs = {e1, e2}
    CheckIds = {c1}
    Checks <- PairChecks
    MaxTime = 2
    MaxRepeats = 0
    ReferenceWindow = 1
    MinSamples = 2
SYMMETRY AttemptSymmetry
INVARIANT MinSamplesMet
