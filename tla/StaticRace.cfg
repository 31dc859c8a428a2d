SPECIFICATION Spec
CONSTANTS
    Names = {n1}
    UIDs = {u1}
    StaticContents = {s1}
    SourceContents = {s1}
    UserDeletes = {s1}
    ClassPolicy = "Delete"
    DisableDeletePvcs = TRUE
    MaxFailures = 0
    NoObj = NoObj
    NoName = NoName
PROPERTIES BoundGroupKept
CHECK_DEADLOCK FALSE
