SPECIFICATION Spec
CONSTANTS
    PVs = {v1, v2, v3}
    Unnamed = {v1}
    Shared = {}
    InUse = {}
    MaxChanges = 0
    MaxFailures = 0
INVARIANTS NoClaimLeft
CHECK_DEADLOCK FALSE
