SPECIFICATION Spec
CONSTANTS
    Names = {n1}
    UIDs = {u1, u2}
    StaticContents = {}
    SourceContents <- NoSources
    UserDeletes <- ContentNames
    ClassPolicy = "nil"
    DisableDeletePvcs = FALSE
    MaxFailures = 1
    NoObj = NoObj
    NoName = NoName
SYMMETRY UIDSymmetry
INVARIANTS ReadyIsBacked
PROPERTIES DeletesOnlyReleased PromiseKept
CHECK_DEADLOCK FALSE
