SPECIFICATION SearchSpec
CONSTANTS
    a = a
    b = b
    c = c
    dup = dup
    l = l
    p = p
    v = v
    q = q
    None = None
    Nodes <- MCNodes
    Label <- MCLabel
    Edges <- MCEdges
    Present <- MCPresent
    Merged <- MCMerged
    Related <- MCRelated
    Host <- MCHost
    Owner = a
    Embedded <- MCEmbedded
    Matching <- MCMatching
    Targets <- MCTargets
    Options <- MCOptions
    Limit = 2
    MaxHits = 2
    MaxWrites = 1
INVARIANTS
    
    HitsInSight
    OneHitPerMemory
