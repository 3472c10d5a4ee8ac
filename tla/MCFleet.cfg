CONSTANTS
    r1 = r1
    r2 = r2
    Replicas <- TwoReplicas
    ReplicaIds <- TwoReplicas
    StartUp <- FirstOnly
    PointHash <- MCPointHash
    HashSpace = 8
    EpsNum = 1
    EpsDen = 4
    Keys <- MCKeys
    ChanCap = 1
    FailuresToUnready = 2
    MaxMishaps = 2
SPECIFICATION FleetSpec
INVARIANT OwnerIsNearest
PROPERTY RetainsAnswering
PROPERTY FleetConverges
CHECK_DEADLOCK FALSE
