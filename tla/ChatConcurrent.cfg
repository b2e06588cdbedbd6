SPECIFICATION Spec
CONSTANTS
    w1 = w1
    w2 = w2
    q1 = q1
    q2 = q2
    Workers = {w1, w2}
    Questions = {q1, q2}
    MaxMessages = 6
    MaxFrames = 2
    MaxPackets = 2
    MaxRequests = 3
    Kinds = {"message", "answer", "cancel"}
    Raises = {"covered", "uncovered"}
INVARIANTS
    HistoryOnce
    HistoryIsVisible
    PromotedWereAnswered
SYMMETRY WorkerSymmetry
CHECK_DEADLOCK FALSE
