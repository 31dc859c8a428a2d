SPECIFICATION FairSpec
CONSTANTS
    Names = {n1}
    UIDs = {u1}
    StaticContents = {}
    SourceContents <- NoSources
    UserDeletes <- ContentNames
    ClassPolicy = "nil"
    DisableDeletePvcs = FALSE
    MaxFailures = 1
    NoObj = NoObj
    NoName = NoName
INVARIANTS TypeOK NoLeakedGroup FinalizerInv
PROPERTIES BoundIsReleased Provisioned DeletionCompletes ContentReclaimed
CHECK_DEADLOCK FALSE
