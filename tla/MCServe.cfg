SPECIFICATION Spec
CONSTANTS
    InitialPositions = 2
    Blank = Blank
    Character = {"<", "!", "e", "U"}
    Unsettled = "U"
    Stops <- MCStops
    Token = {0, 1, 2, 3, 4}
    Eos = {0}
    Decoded <- MCDecoded
    Models = {"small", "large"}
    ModelMax <- MCModelMax
    PerToken <- MCPerToken
    Memories = {Unset, 9, 20}
    Contexts = {Unset, 0, 4, 9}
    MaxLoadContext = 8
    Threads <- MCThreads
    MaxTokensAsked = {Unset, 2}
    Unset = Unset
    Others <- MCOthers
    NoModel = NoModel
    DefaultTokens = 4
    MinAutofit = 2
    Granularity = 2
    MaxRequests = 2
INVARIANTS
    OwnTokensOnly
    StreamedIsAnswer
    NoStopShown
    WellFormedReply
    HistoryLeavesRoom
CHECK_DEADLOCK FALSE
