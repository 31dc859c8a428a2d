SPECIFICATION FairReleaseSpec
CONSTANTS
    PVs = {v1, v2, v3}
    Unnamed = {v1}
    Shared = {v2}
    InUse = {v3}
    MaxChanges = 1
    MaxFailures = 1
    Names = {n1}
    UIDs = {u1}
    StaticContents = {}
    SourceContents <- NoSources
    UserDeletes = {}
    ClassPolicy = "nil"
    DisableDeletePvcs = FALSE
    NoObj = NoObj
    NoName = NoName
    v1 = v1
    v2 = v2
    v3 = v3
    Matches <- SomeSets
    Content <- FirstContent
PROPERTIES LeavesDeleted ClaimsOutliveGroup ClaimsBeforeGroup ClaimsReleased
CHECK_DEADLOCK FALSE
