\* The whole engine: sharing, eviction, preemption, cancellation and rejection.
CONSTANTS
    x = x
    y = y
    Eos = eos
    r1 = r1
    r2 = r2
    r3 = r3
    Blocks = {b1, b2, b3, b4, b5, b6}
    Caches = {r1, r2, r3}
    Tokens = {x, y, eos}
    Outputs = {y, eos}
    AnyBlock = FALSE
    BlockSize = 2
    MaxTokens = 9
    Job <- SharingJobs
    Prompts <- JobPrompts
    Enabled = TRUE
    Impatient = {r1, r2, r3}
    MaxBatch = 2
    ReserveBlocks = 0
    MaxQueueDepth = 2
    MinObservations = 1
SPECIFICATION FairSpec
CHECK_DEADLOCK FALSE
INVARIANTS
    OnePlace
    OutcomeOnce
    OnlyBatchHoldsBlocks
    FeedsOwnTranscript
    NeverRaisesMidway
    CancelTakesEffect
PROPERTY EveryRequestFinishes
