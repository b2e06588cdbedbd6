CONSTANTS
    anna = anna
    bob = bob
    diary = diary
    me = me
    cand1 = cand1
    cand2 = cand2
    cand3 = cand3
    cand4 = cand4
    None = None
    Nodes = {anna, bob}
    Logs = {diary}
    Owner = me
    Links <- MCLinks
    HostOf <- MCHostOf
    Candidate = {cand1, cand2, cand3, cand4}
    Untyped = {cand4}
    Matching <- MCMatching
    Plans <- MCPlans
    MaxCandidates = 2
    MaxRelationships = 1
    BatchSize = 2
    MaxDraftBatch = 10
    MaxHits = 1
    MaxSnippets = 1
    MaxPlans = 2
    MaxWrites = 1
SPECIFICATION PreparationSpec
INVARIANTS
    LookupsAreSound
    DraftsKeepTargets
PROPERTIES
    AliasesKeepTheirObject
CHECK_DEADLOCK FALSE
