SPECIFICATION Spec
CONSTANTS
    Client = {1, 2, 3}
    None = None
    Environments <- MCEnvironments
    Mixes <- MCMixes
    Inputs <- MCInputs
    MaxMemories = 1
    MaxConcurrent = 2
    MaxPerMinute = 2
    MaxWindows = 1
    FrameLimit = 3
    Chunk = 4
INVARIANTS
    OnlyAdmitted
    StatusIsEffect
    RepliesExact
PROPERTIES
    PermitsComeBack
CHECK_DEADLOCK FALSE
