SPECIFICATION Spec
CONSTANTS
    Null = Null
    Overflow = Overflow
    Malformed = Malformed
    Huge = Huge
    Text <- MCText
    Names <- MCNames
    Idents <- MCIdents
    MaxLatenessTolerance = 1
    MaxEvidenceSampleSize = 2
    Root <- MCRoot
    RuleDir <- MCRuleDir
    Links <- MCLinks
    Artifacts <- MCArtifacts
    RateScale = 2
    Estimate <- MCEstimate
    MaxBytesScannedPerRun = 2
    DefaultSampleSize = 1
    DefaultMinSamples = 5
    Starts <- ScheduledStarts
    Revisions <- MCRevisions
    Answers <- MCAnswers
    Windows <- MCWindows
    MaxEdits = 1
INVARIANT ScheduledRuleParses
CHECK_DEADLOCK FALSE
