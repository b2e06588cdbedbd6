SPECIFICATION Spec
CONSTANTS
    s1 = s1
    s2 = s2
    None = None
    Sessions <- MCSessions
    Existing <- MCExisting
    Questions <- MCQuestions
    MaxTasks = 3
    MaxPackets = 2
INVARIANTS
    AnswersAreForTheirPacket
    OneRequestPerSession
PROPERTIES
    StaysInChat
    SendingEnds
CHECK_DEADLOCK FALSE
