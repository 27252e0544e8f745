SPECIFICATION Spec
CONSTANTS
    InitialPositions = 2
    Blank = Blank
    Token = {0, 1, 2}
    Eos = {2}
    MaxCtx = 6
    MaxTokens = 5
    Prompts <- MCPrompts
    TargetProb <- MCTargetProb
    DraftProb <- MCDraftProb
    Drafters = {"lookup", "layers"}
    MinNgram = 1
    MaxNgram = 2
    K = 3
    ZeroDraw = FALSE
INVARIANTS
    NeverStuck
    CacheCoherent
PROPERTIES
    SequentialDecoding
    Termination
CHECK_DEADLOCK FALSE
