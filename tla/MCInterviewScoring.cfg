\* Two handlers and two attempts on one session with one question.
SPECIFICATION SystemSpec
CONSTANTS
    s1 = s1
    q1 = q1
    v1 = v1
    g1 = g1
    h1 = h1
    h2 = h2
    a1 = a1
    a2 = a2
    None = None
    Sessions <- MCSessions
    Questions <- MCQuestions
    Videos <- MCVideos
    Handlers <- MCHandlers
    Grades <- MCGrades
    Attempts <- MCAttempts
    RetryLimit = 1
SYMMETRY MCSymmetry
INVARIANTS
    AckedAnswersGraded
    AttemptsFindSealedRow
PROPERTIES
    ImplementsExam
