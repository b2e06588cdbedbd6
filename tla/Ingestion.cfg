SPECIFICATION Spec
CONSTANTS
    n1 = n1
    n2 = n2
    u1 = u1
    m1 = m1
    e1 = e1
    e2 = e2
    Actions = {n1, n2, u1, m1, e1, e2}
    Creates = {n1, n2, m1}
    Phase <- MCPhase
    Id <- MCId
    Ends <- MCEnds
    MaxQuestions = 3
INVARIANTS
    EachActionOnce
    OkMeansDone
CHECK_DEADLOCK FALSE
