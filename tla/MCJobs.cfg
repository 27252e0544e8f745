SPECIFICATION Spec
CONSTANTS
    Starter = {s1, s2}
    Id = {j1, j2, j3}
    MaxRunning = 2
    MaxRetained = 1
    MaxLog = 1
    MaxLines = 1
    None = None
INVARIANTS
    AtMostMaxRunning
    NeverLostWhileRunning
    CursorExact
PROPERTIES
    FinishedIsFinal
    SlotComesBack
CHECK_DEADLOCK FALSE
