SPECIFICATION Spec
CONSTANTS
    Groups = {g1, g2}
    Claims = {p1, p2}
    MultipleVGsToPVC = {TRUE, FALSE}
    Lags = {{"vg"}, {"vgc"}}
    SecretFails = FALSE
    MaxFailures = 1
    MaxRelabels = 2
    None = None
SYMMETRY MembershipSymmetry
INVARIANTS Exclusive 
PROPERTIES ListFollowsDriver
CHECK_DEADLOCK FALSE
