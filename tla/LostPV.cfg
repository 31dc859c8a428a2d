SPECIFICATION FairSpec
CONSTANTS
    Groups = {g1}
    Claims = {p1, p2}
    MultipleVGsToPVC = {TRUE}
    Lags = {{"vgc"}}
    SecretFails = FALSE
    MaxFailures = 0
    MaxRelabels = 0
    None = None
PROPERTIES ListedHasPV
CHECK_DEADLOCK FALSE
