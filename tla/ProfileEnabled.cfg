SPECIFICATION Spec
CONSTANTS
    p1 = p1
    p2 = p2
    n1 = n1
    n2 = n2
    v1 = v1
    v2 = v2
    v3 = v3
    Ids <- OneProfile
    Names <- TwoNames
    Savers <- OneSaver
    MaxChanges = 2
    MaxCrashes = 1
    MaxFailures = 0
PROPERTIES
    OnlyOldProfilesMigrated
CHECK_DEADLOCK FALSE
