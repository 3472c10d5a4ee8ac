CONSTANTS
    r1 = r1
    r2 = r2
    q1 = q1
    q2 = q2
    Replicas <- TwoReplicas
    Requests <- OneRequest
    IdOf <- SameId
    KeyHash <- MCKeyHash
    PointHash <- MCPointHash
    HashSpace = 8
    EpsNum = 1
    EpsDen = 4
    Cap <- MCCap
    Rate <- MCRate
    TTL = 2
    FailOpen = TRUE
    MaxTokens = 4
    MaxRetries = 1
    Halves <- SecondIsHalf
    MaxTime = 0
    MaxFaults = 1
SPECIFICATION Spec
CHECK_DEADLOCK FALSE
INVARIANT UnbrokenStream
