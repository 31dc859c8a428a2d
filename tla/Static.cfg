SPECIFICATION FairSpec
CONSTANTS
    Names = {n1}
    UIDs = {u1}
    StaticContents = {s1}
    SourceContents = {s1}
    UserDeletes = {s1}
    ClassPolicy = "Delete"
    DisableDeletePvcs = TRUE
    MaxFailures = 1
    NoObj = NoObj
    NoName = NoName
PROPERTIES RetainedStays StaticBound
CHECK_DEADLOCK FALSE
