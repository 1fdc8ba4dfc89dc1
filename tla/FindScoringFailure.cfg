\* docs/api-contract-scoring.md: the last failure of a job fails its session.
SPECIFICATION Spec
CONSTANTS
    s1 = s1
    x1 = x1
    g1 = g1
    g2 = g2
    a1 = a1
    a2 = a2
    None = None
    Sessions <- MCSessions
    Sheets <- MCSheets
    Grades <- MCGrades
    Attempts <- MCAttempts
    RetryLimit = 2
PROPERTIES
    LastFailureFailsSession
CHECK_DEADLOCK FALSE
