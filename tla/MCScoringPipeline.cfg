\* Two attempts on one session's job, two retries.
SPECIFICATION FairSpec
CONSTANTS
    s1 = s1
    x1 = x1
    g1 = g1
    g2 = g2
    a1 = a1
    a2 = a2
    None = None
    Sessions <- MCSessions
    Sheets <- MCSheets
    Grades <- MCGrades
    Attempts <- MCAttempts
    RetryLimit = 2
INVARIANTS
    TypeOK
    CompletedHasResult
    CompletedJobHasResult
    PollFindsResult
PROPERTIES
    JobsEnd
\* A job that has ended leaves nothing to do.
CHECK_DEADLOCK FALSE
