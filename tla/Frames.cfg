SPECIFICATION Spec
CONSTANTS
    MaxFrames = 5
    MaxQuestions = 3
    MayRaise = TRUE
INVARIANTS
    AnswerReachesEntry
    OneQuestionPerRun
PROPERTIES
    EndedForGood
    EntryEnds
CHECK_DEADLOCK FALSE
