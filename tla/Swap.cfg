SPECIFICATION FairSpec
CONSTANTS
    Groups = {g1, g2}
    Claims = {p1, p2}
    MultipleVGsToPVC = {FALSE}
    Lags = {{}}
    SecretFails = FALSE
    MaxFailures = 0
    MaxRelabels = 2
    None = None
PROPERTIES LabelledJoins
CHECK_DEADLOCK FALSE
