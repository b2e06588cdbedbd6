SPECIFICATION StoresSpec
CONSTANTS
    Sessions = {s1, s2}
    Frames = {f1, f2}
    Keys = {k1, k2}
    Null = Null
    Kinds <- MCKinds
    Scanned = 2
    MaxCalls = 6
INVARIANTS
    StoresAgree
SYMMETRY MCSymmetry
CHECK_DEADLOCK FALSE
