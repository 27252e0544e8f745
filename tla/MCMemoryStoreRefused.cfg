SPECIFICATION Spec
CONSTANTS
    t1 = t1
    t2 = t2
    far = far
    sum = sum
    Client = {c1}
    Reader = {r1}
    Text = {t1, t2}
    Question = {t1, t2, far, sum}
    Similarity <- MCSimilarity
    Capacities = {None, 1}
    DefaultUnits = 2
    Found <- MCFound
    MaxRequests = 2
    MaxCrashes = 1
    None = None
INVARIANTS
    RefusedStaysOut
CHECK_DEADLOCK FALSE
