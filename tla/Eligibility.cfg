SPECIFICATION FairSpec
CONSTANTS
    DriverName = "csi.example"
    Kinds <- CrdsInOrder
    g1 = g1
    g2 = g2
    p1 = p1
    p2 = p2
    Claims = {p1, p2}
    Groups = {g1, g2}
    FirstClaims <- OneOddClaim
    FirstSpecs <- OneOddGroup
    GroupSpecs <- SomeGroups
    MaxChanges = 2
    None = None
INVARIANT RunsOnlyWithCrds
PROPERTIES Recovers ListsFollowCluster
CHECK_DEADLOCK FALSE
