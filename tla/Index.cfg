SPECIFICATION Spec
CONSTANTS
    a = a
    b = b
    profile = profile
    None = None
    Persons <- MCPersons
    Memories <- MCMemories
    Profiles <- MCProfiles
    Host <- MCHost
    Records = {r1}
    States = {1, 2}
    Levels = {"none", "close"}
    Texts = {0, 1, 2}
    Workers = {w1, w2}
    MaxOps = 4
    MaxTargets = 1
INVARIANTS
    MergedAreFollowable
    AtMostOneCurrent
    
    
PROPERTY
    MergeKeepsRefs
SYMMETRY MCSymmetry
CHECK_DEADLOCK FALSE
