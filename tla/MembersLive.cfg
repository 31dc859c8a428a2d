SPECIFICATION FairSpec
CONSTANTS
    Groups = {g1, g2}
    Claims = {p1, p2}
    MultipleVGsToPVC = {TRUE}
    Lags = {{}, {"vg"}}
    SecretFails = TRUE
    MaxFailures = 1
    MaxRelabels = 1
    None = None
PROPERTIES ListsFollowLabels Converges
CHECK_DEADLOCK FALSE
