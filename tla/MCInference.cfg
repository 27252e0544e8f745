SPECIFICATION MCSpec
CONSTANTS
    NumLayers = 2
    InitialPositions = 2
    Blank = Blank
    None = None
    MaxCtx = 3
    MaxBatch = 2
    Token = {0, 1}
    NullToken = 0
    Threshold = 3
    Models <- MCModels
    Strategies <- MCStrategies
    DraftLayers <- MCDraftLayers
    RouterProbs <- MCRouterProbs
    Entropy <- MCEntropy
    Wide = 8
    Lanes = 4
    Tile = 4
    MaxGroups = 8
    ChunkBytes = 24
    MinChunk = 2
    MaxChunk = 3
    ParThreshold = 4
    ParMinBytes = 36
    LmChunk = 2
    ParallelMinPos = 5
    Idle = Idle
    Calls <- MCCalls
    VectorCalls <- MCVectorCalls
INVARIANTS
    CacheIsText
    BatchIsSequential
    PonderBlends
    RowsOnce
    DotExact
    BatchSameBits
    LoopExact
    AttentionExact
CHECK_DEADLOCK FALSE
