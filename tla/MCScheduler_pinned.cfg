\* Idle cached prefixes pin the blocks that the only running request needs.
CONSTANTS
    x = x
    y = y
    Eos = eos
    r1 = r1
    r2 = r2
    r3 = r3
    Blocks = {b1, b2, b3, b4, b5, b6}
    Caches = {r1, r2}
    Tokens = {x, y, eos}
    Outputs = {y}
    AnyBlock = FALSE
    BlockSize = 2
    MaxTokens = 10
    Job <- PinnedJobs
    Prompts <- JobPrompts
    Enabled = TRUE
    Impatient = {}
    MaxBatch = 2
    ReserveBlocks = 0
    MaxQueueDepth = 2
    MinObservations = 1
SPECIFICATION FairSpec
CHECK_DEADLOCK FALSE
PROPERTIES
    EveryRequestFinishes
