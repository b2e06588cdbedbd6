SPECIFICATION Spec
CONSTANTS
    e1 = e1
    e2 = e2
    e3 = e3
    s1 = s1
    None = None
    Known = Known
    Owner = Owner
    Entities <- MCEntities
    Supplemental <- MCSupplemental
    Mentioned <- MCMentioned
    Tried <- MCTried
    BatchSize = 2
    MaxCalls = 4
    MaxResults = 2
    MaxRuns = 2
INVARIANTS
    FailsForCause
    
PROPERTY
    RequestEnds
CHECK_DEADLOCK FALSE
