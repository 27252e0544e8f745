SPECIFICATION Spec
CONSTANTS
    InitialPositions = 2
    Blank = Blank
    Token = {0, 1, 2}
    Eos = {2}
    MaxCtx = 6
    MaxTokens = 5
    Prompts <- MCPrompts
    TargetProb <- MCTargetProb
    DraftProb <- MCDraftProb
    DraftWindows = {2, 4, 8}
    K = 3
    ZeroDraw = FALSE
INVARIANTS
    StepsInsideWindow
CHECK_DEADLOCK FALSE
