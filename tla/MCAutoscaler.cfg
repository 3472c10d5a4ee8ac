CONSTANTS
    a = a
    b = b
    Controllers <- TwoControllers
    MinReplicas = 1
    MaxReplicas = 2
    TargetQueueDepth = 4
    TolNum = 1
    TolDen = 4
    Window = 1
    Demands <- MCDemands
    Sites <- MCSites
SPECIFICATION Spec
INVARIANT WithinCeiling
PROPERTY SustainedDown
PROPERTY OneLeaderAgain
PROPERTY ComesToRest
