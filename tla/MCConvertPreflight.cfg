SPECIFICATION ConvertSpec
CONSTANTS
    Limit <- MCLimit
    MaxGroups = 4
    MaxRopeBytes = 192
    MaxModelBytes = 2076
    Source <- MCSource
    Existing <- MCExisting
    MaxConversions = 2
    MaxCrashes = 1
    Absent = Absent
    Torn = Torn
INVARIANTS
    PreflightIsTheVerdict
CHECK_DEADLOCK FALSE
