SPECIFICATION Spec
CONSTANTS
    RecentMessages = 2
    Window = 6
    Limits = {3}
    MaxRetries = 3
    Models <- MCModels
    MaxToolCalls = 2
    MaxRepairs = 1
    MaxQuestions = 1
    MaxBatch = 2
    MaxResumes = 1
    Sizes = {1, 3}
INVARIANTS
    SentIsWellFormed
    CapHolds
    CompletedIsFinal
PROPERTY
    SessionStops
CHECK_DEADLOCK FALSE
