\* Two requests of three and one tokens, a preemption, a client that hangs up,
\* a cancel request from outside and a cancel() that times out.
CONSTANTS
    r1 = r1
    r2 = r2
    Reqs = {r1, r2}
    Budget <- Budgets
    MaxBatch = 2
    MaxPreempts = 1
    Leaving = {r2}
    Killed = {r1}
    Slow = {r2}
SPECIFICATION FairSpec
CHECK_DEADLOCK FALSE
INVARIANTS
    NoTokenLost
    AbandonedIsGone
PROPERTIES
    EveryStreamReleased
