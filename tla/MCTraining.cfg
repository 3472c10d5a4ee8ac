\* Every cut of six corpora; seven steps, evaluated every two and
\* saved every three, three processes.
CONSTANTS
    Utf8 <- SmallUtf8
    NumBytes = 7
    Space = " "
    Symbols = {"<", ">"}
    Dropped = {"_"}
    VocabSize = 11
    MinFrequency = 2
    Texts <- SmallTexts
    Separator <- Sep
    ChunkBytes = 3
    FlushTokens = 4
    MaxBytes = 20
    MaxSteps = 7
    GradAccum = 2
    EvalEvery = 2
    CkptEvery = 3
    KeepLast = 1
    SeqLen = 1
    Val <- UpAndDown
    Infinity = 10
    MaxLaunches = 3
SPECIFICATION Spec
CHECK_DEADLOCK FALSE
INVARIANTS
    MergesSound
    SplitClean
    ResumeExact
    BestIsBest
    LittleLost
