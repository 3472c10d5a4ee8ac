CONSTANTS
    r1 = r1
    r2 = r2
    q1 = q1
    q2 = q2
    Replicas <- TwoReplicas
    Requests <- TwoRequests
    IdOf <- SameId
    KeyHash <- MCKeyHash
    PointHash <- MCPointHash
    HashSpace = 8
    EpsNum = 1
    EpsDen = 4
    Cap <- MCCap
    Rate <- MCRate
    TTL = 2
    FailOpen = TRUE
    MaxTokens = 2
    MaxRetries = 1
    Halves <- NoHalves
    MaxTime = 2
    MaxFaults = 2
SPECIFICATION Spec
INVARIANT NoPhantomLoad
INVARIANT FirstAttemptUnderCap
INVARIANT UnbrokenStream
INVARIANT OverrunBounded
INVARIANT WithinBudget
INVARIANT NoOvercharge
CHECK_DEADLOCK FALSE
PROPERTY Quiesces
