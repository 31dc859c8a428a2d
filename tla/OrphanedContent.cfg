SPECIFICATION FairSpec
CONSTANTS
    Names = {n1}
    UIDs = {u1}
    StaticContents = {}
    SourceContents <- NoSources
    UserDeletes = {}
    ClassPolicy = "nil"
    DisableDeletePvcs = FALSE
    MaxFailures = 0
    NoObj = NoObj
    NoName = NoName
PROPERTIES ReleasedGroupDeleted
CHECK_DEADLOCK FALSE
