SPECIFICATION ToolsSpec
CONSTANTS
    None = None
    Owner = Owner
    Unknown = Unknown
    PlannedRefs <- MCPlannedRefs
    PlannedKind <- MCPlannedKind
    Stored <- MCStored
    MaxStored = 7
    MaxActions = 2
    MaxCalls = 2
    MaxTargets = 1
    MaxLinks = 2
INVARIANTS
    OneRefPerObject
    LogsAreLinked
PROPERTIES
    RefsKeepTheirObject
    RetryAfterNoWrite
CHECK_DEADLOCK FALSE
