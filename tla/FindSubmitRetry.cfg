\* docs/interview-answer-upload.md: a retried submission enqueues scoring.
SPECIFICATION Spec
CONSTANTS
    s1 = s1
    q1 = q1
    q2 = q2
    v1 = v1
    h1 = h1
    h2 = h2
    None = None
    Sessions <- MCSessions
    Questions <- MCQuestions
    Videos <- MCVideos
    Handlers <- MCHandlers
PROPERTIES
    SubmitRetryAccepted
