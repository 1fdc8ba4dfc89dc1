\* Calls to language models with every answer; lists of up to three interviews in
\* pages of one or two, which one interview may leave while they are read; and up
\* to two uploads by two requests.
SPECIFICATION MCSpec
CONSTANTS
    None = None
    MaxFeedback = 3
    DefaultFeedback = 2
    TextLength = 2
    SkillLength = 2
    ListCount = 2
    QuestionCount = 2
    QuestionLength = 2
    MaxJsonAttempts = 2
    MaxAttempts = 2
    RawEvaluations <- MCRawEvaluations
    RawCvs <- MCRawCvs
    RawQuestionSets <- MCRawQuestionSets
    NoValue = NoValue
    MaxSessions = 3
    Times = {1, 2}
    PageSizes = {1, 2}
    MaxLeft = 1
    CvFiles = {cvFile}
    Videos = {video1, video2}
    Clients = {c1, c2}
    MaxUploads = 2
    Absent = Absent
INVARIANTS
    FailsWhenAllFailed
    EvaluationStands
    StoredIsEditable
    QuestionsStand
    NothingSkipped
    RowsShowTheirFiles
